----------------------------- MODULE EntitySave -----------------------------
(***************************************************************************)
(* repository.save(entity) of TypeORM on an entity read earlier: it reads  *)
(* the row again, and then updates, in a second statement and without a    *)
(* lock, the columns in which the entity differs from that second reading. *)
(***************************************************************************)

\* The columns save will write, given the row as save reads it.
Changed(image, row) == {c \in DOMAIN row : image[c] # row[c]}

\* The row after the update of those columns.
Updated(image, cols, row) == [c \in DOMAIN row |-> IF c \in cols THEN image[c] ELSE row[c]]

=============================================================================
