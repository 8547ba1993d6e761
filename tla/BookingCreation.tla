-------------------------- MODULE BookingCreation --------------------------
(***************************************************************************)
(* StaysService.createBooking and StaysService.setHostAvailabilityBlock.   *)
(*                                                                         *)
(* createBooking runs one transaction that holds the listing row FOR       *)
(* UPDATE from its first statement to its commit.  The model splits it at  *)
(* the point that matters: the checks are read, and later the row is       *)
(* inserted on the strength of what was read.  In between only the         *)
(* listing lock protects the request.                                      *)
(***************************************************************************)
EXTENDS StaysTables

CONSTANT CreateReqs     \* concurrent createBooking requests

VARIABLE create         \* what each createBooking request is doing

IdleCreate == [pc |-> "idle"]
CheckedCreates == [pc : {"checked"}, listing : Listings, range : DateRanges,
                   key : Keys \cup {NoKey}]

\* The listing row lock: held by a request between its checks and its commit.
ListingLocked(l) ==
    \E c \in CreateReqs : create[c].pc = "checked" /\ create[c].listing = l

\* Bookings stored under an idempotency key.
StoredUnderKey(k) == {b \in Bookings : status[b] # "NONE" /\ stay[b].key = k}

\* Unique index idx_stays_bookings_idempotency_key_unique.
KeyFree(k) == k = NoKey \/ StoredUnderKey(k) = {}

\* Mutant: the checks are made without locking the listing.
CreateCheckUnlocked(c) ==
    \E l \in Listings, r \in DateRanges, k \in Keys \cup {NoKey} :
        /\ create[c].pc = "idle"
        /\ k # NoKey => StoredUnderKey(k) = {}
        /\ isListingAvailable(l, r, {})
        /\ create' = [create EXCEPT ![c] =
                        [pc |-> "checked", listing |-> l, range |-> r, key |-> k]]
        /\ UNCHANGED tables

\* The transaction takes the listing lock and reads that the key is new and
\* the dates are free.  A request that finds its key returns the stored
\* booking, one that finds the dates taken answers 409: neither changes state.
CreateCheck(c) ==
    \E l \in Listings, r \in DateRanges, k \in Keys \cup {NoKey} :
        /\ create[c].pc = "idle"
        /\ ~ListingLocked(l)
        /\ k # NoKey => StoredUnderKey(k) = {}
        /\ isListingAvailable(l, r, {})
        /\ create' = [create EXCEPT ![c] =
                        [pc |-> "checked", listing |-> l, range |-> r, key |-> k]]
        /\ UNCHANGED tables

\* The insert and the commit.  The exclusion constraint
\* ex_stays_bookings_active_overlap is left out on purpose: NoDoubleBooking
\* shows that the listing lock alone is enough.
CreateInsert(c) ==
    \E b \in Bookings :
        /\ create[c].pc = "checked"
        /\ NextBooking(b)
        /\ KeyFree(create[c].key)
        /\ status' = [status EXCEPT ![b] = "PAYMENT_PENDING"]
        /\ stay' = [stay EXCEPT ![b] =
                      [listing |-> create[c].listing, range |-> create[c].range,
                       key |-> create[c].key, created_at |-> now]]
        /\ create' = [create EXCEPT ![c] = IdleCreate]
        /\ UNCHANGED <<intentStatus, intentRow, ledger, blocks, now>>

\* The insert fails: the unique key index (a request with the same key on
\* another listing committed first), a lost connection, a process crash.
\* The transaction rolls back and the listing lock is released.
CreateAbort(c) ==
    /\ create[c].pc = "checked"
    /\ create' = [create EXCEPT ![c] = IdleCreate]
    /\ UNCHANGED tables

\* The host blocks or unblocks the nights [from, to): one upsert, which takes
\* no lock on the listing and looks at no booking.
setHostAvailabilityBlock(l) ==
    \E r \in DateRanges, isBlocked \in BOOLEAN :
        /\ blocks' = [blocks EXCEPT ![l] = IF isBlocked THEN @ \cup Nights(r)
                                                        ELSE @ \ Nights(r)]
        /\ UNCHANGED <<status, stay, intentStatus, intentRow, ledger, now, create>>

CreationInit == create = [c \in CreateReqs |-> IdleCreate]

CreationTypeOK == create \in [CreateReqs -> CheckedCreates \cup {IdleCreate}]
============================================================================
