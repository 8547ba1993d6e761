-------------------------- MODULE MCMessagingOutbox --------------------------
(* Small instances of MessagingOutbox.  Workers are interchangeable. *)
EXTENDS MessagingOutbox, TLC

WorkerSymmetry == Permutations(Workers)
==============================================================================
