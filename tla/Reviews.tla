------------------------------- MODULE Reviews -------------------------------
(***************************************************************************)
(* Reviews of one listing (StaysReviewsService) and the totals they leave  *)
(* in its row (ReviewAggregateService).  Writing, editing and moderating a *)
(* review are transactions at READ COMMITTED: each sees its own writes and *)
(* what others have committed, and none takes a lock before it writes.     *)
(***************************************************************************)
EXTENDS EntitySave, Integers, FiniteSets, FiniteSetsExt

CONSTANTS
    Stays,          \* bookings of the listing whose checkout has passed
    ReviewTxs,      \* transactions in flight at a time
    Stars,          \* ratings given, in half stars
    MaxReviewTxs    \* bound: transactions of a behaviour

ASSUME ReviewsAssumption ==
    /\ IsFiniteSet(Stays) /\ Stars \subseteq 1..10 /\ MaxReviewTxs \in Nat

VARIABLES
    stay,       \* status of the booking
    reviews,    \* stays_listing_reviews, by booking: {} or the row
    totals,     \* review_count, sum behind avg_rating and histogram of the listing
    reviewTx,   \* per transaction: {} or what it read and has written so far
    cards,      \* bookings whose REVIEW_CARD says that they are reviewed
    quiet,      \* history: no other transaction ran beside the last one committed
    reviewTxs   \* number of transactions so far

reviewVars == <<stay, reviews, totals, reviewTx, cards, quiet, reviewTxs>>

ReviewRow == [rating : 1..10, status : {"PUBLISHED", "HIDDEN", "REMOVED"}]
StayStatus == {"CONFIRMED", "CHECKED_IN", "COMPLETED", "CANCELLED"}

\* A half star counts for the full one above it: Math.round.
ratingBucket(rating) == (rating + 1) \div 2

Published(rows) == {b \in Stays : \E r \in rows[b] : r.status = "PUBLISHED"}

RatingOf(rows, b) == CHOOSE n \in 1..10 : \E r \in rows[b] : r.rating = n

\* Mutant: one is added to the totals as they stand.
AddToTotals(rows) == [totals EXCEPT !.count = Cardinality({b \in Stays : rows[b] # reviews[b]}) + @]

\* recalculateForListing: the totals of the published rows the transaction sees.
recalculateForListing(rows) ==
    LET P == Published(rows)
    IN  [count |-> Cardinality(P), sum |-> MapThenSumSet(LAMBDA b : RatingOf(rows, b), P),
         bucket |-> [s \in 1..5 |-> Cardinality({b \in P : ratingBucket(RatingOf(rows, b)) = s})]]

NoTotals == [count |-> 0, sum |-> 0, bucket |-> [s \in 1..5 |-> 0]]

----------------------------------------------------------------------------
(* A transaction: pc names its next statement. *)

InFlight == {h \in ReviewTxs : reviewTx[h] # {}}

\* Only transactions past their first write hold a row lock, on their booking
\* or review.
Locks(h, b) == \E x \in reviewTx[h] : x.booking = b /\ x.pc \in {"recalculate", "commit"}
Unheld(h, b) == \A g \in ReviewTxs \ {h} : ~Locks(g, b)

Begin(h, x) ==
    /\ reviewTx[h] = {} /\ reviewTxs < MaxReviewTxs
    /\ reviewTx' = [g \in ReviewTxs |->
           IF g = h THEN {[x EXCEPT !.alone = InFlight = {}]}
           ELSE {[y EXCEPT !.alone = FALSE] : y \in reviewTx[g]}]
    /\ reviewTxs' = reviewTxs + 1
    /\ UNCHANGED <<stay, reviews, totals, cards, quiet>>

Tx(kind, b, row, pc) ==
    [kind |-> kind, booking |-> b, row |-> row, cols |-> {}, completes |-> FALSE,
     alone |-> TRUE, totals |-> NoTotals, pc |-> pc]

\* createReview, assertCanReview: the booking as read is a paid stay or COMPLETED.
CreateReads(h, b, rating) ==
    /\ stay[b] # "CANCELLED"
    /\ Begin(h, [Tx("create", b, [rating |-> rating, status |-> "PUBLISHED"], "insert")
                 EXCEPT !.completes = stay[b] # "COMPLETED"])

\* updateReview within the edit window.
EditReads(h, b, rating) ==
    \E r \in reviews[b] :
        /\ r.status # "REMOVED"
        /\ Begin(h, Tx("edit", b, [r EXCEPT !.rating = rating], "saveReads"))

adminSetReviewStatus(h, b, status) ==
    \E r \in reviews[b] : Begin(h, Tx("moderate", b, [r EXCEPT !.status = status], "saveReads"))

\* The booking is set COMPLETED whatever its status is by now, and the review
\* inserted; a review that exists, found or hit at the unique index, rolls back.
CreateInserts(h) ==
    \E x \in reviewTx[h] :
        /\ x.pc = "insert" /\ Unheld(h, x.booking)
        /\ reviewTx' = [reviewTx EXCEPT ![h] =
               IF reviews[x.booking] = {} THEN {[x EXCEPT !.pc = "recalculate"]} ELSE {}]
        /\ UNCHANGED <<stay, reviews, totals, cards, quiet, reviewTxs>>

ReviewSaveReads(h) ==
    \E x \in reviewTx[h] :
        /\ x.pc = "saveReads"
        /\ \E r \in reviews[x.booking] :
              reviewTx' = [reviewTx EXCEPT ![h] =
                  {[x EXCEPT !.cols = Changed(x.row, r), !.pc = "saveUpdates"]}]
        /\ UNCHANGED <<stay, reviews, totals, cards, quiet, reviewTxs>>

ReviewSaveUpdates(h) ==
    \E x \in reviewTx[h] :
        /\ x.pc = "saveUpdates" /\ Unheld(h, x.booking)
        /\ \E r \in reviews[x.booking] :
              reviewTx' = [reviewTx EXCEPT ![h] =
                  {[x EXCEPT !.row = Updated(x.row, x.cols, r), !.pc = "recalculate"]}]
        /\ UNCHANGED <<stay, reviews, totals, cards, quiet, reviewTxs>>

ReadTotals(h) ==
    \E x \in reviewTx[h] :
        /\ x.pc = "recalculate"
        /\ reviewTx' = [reviewTx EXCEPT ![h] = {[x EXCEPT !.pc = "commit",
               !.totals = recalculateForListing([reviews EXCEPT ![x.booking] = {x.row}])]}]
        /\ UNCHANGED <<stay, reviews, totals, cards, quiet, reviewTxs>>

\* Not awaited, and outside the transaction.
markReviewCardSubmitted(b) == cards' = cards \cup {b}

\* The update of the listing, which waits for its row lock, and the commit.
CommitReview(h) ==
    \E x \in reviewTx[h] :
        /\ x.pc = "commit"
        /\ reviews' = [reviews EXCEPT ![x.booking] = {x.row}]
        /\ stay' = [stay EXCEPT ![x.booking] = IF x.completes THEN "COMPLETED" ELSE @]
        /\ totals' = x.totals
        /\ IF x.kind = "create" THEN markReviewCardSubmitted(x.booking) ELSE UNCHANGED cards
        /\ quiet' = x.alone
        /\ reviewTx' = [reviewTx EXCEPT ![h] = {}]
        /\ UNCHANGED reviewTxs

\* Any failure rolls back, but markReviewCardSubmitted may be out already.
RollBackReview(h) ==
    \E x \in reviewTx[h], marked \in BOOLEAN :
        /\ marked => x.kind = "create" /\ x.pc = "commit"
        /\ IF marked THEN markReviewCardSubmitted(x.booking) ELSE UNCHANGED cards
        /\ reviewTx' = [reviewTx EXCEPT ![h] = {}]
        /\ UNCHANGED <<stay, reviews, totals, quiet, reviewTxs>>

----------------------------------------------------------------------------
(* The rest of the system: cancellation and completion job, under the lock *)
(* of the booking row.                                                     *)

StayMoves(b, s) ==
    /\ stay[b] \in {"CONFIRMED", "CHECKED_IN"}
    /\ \A h \in ReviewTxs : \A x \in reviewTx[h] : x.completes => ~Locks(h, b)
    /\ stay' = [stay EXCEPT ![b] = s]
    /\ UNCHANGED <<reviews, totals, reviewTx, cards, quiet, reviewTxs>>

ReviewsInit ==
    /\ stay \in [Stays -> {"CONFIRMED", "CHECKED_IN"}]
    /\ reviews = [b \in Stays |-> {}]
    /\ totals = NoTotals
    /\ reviewTx = [h \in ReviewTxs |-> {}]
    /\ cards = {} /\ quiet = TRUE /\ reviewTxs = 0

ReviewsNext ==
    \/ \E h \in ReviewTxs :
          \/ \E b \in Stays, n \in Stars : CreateReads(h, b, n) \/ EditReads(h, b, n)
          \/ \E b \in Stays, s \in {"PUBLISHED", "HIDDEN", "REMOVED"} : adminSetReviewStatus(h, b, s)
          \/ CreateInserts(h) \/ ReviewSaveReads(h) \/ ReviewSaveUpdates(h)
          \/ ReadTotals(h) \/ CommitReview(h) \/ RollBackReview(h)
    \/ \E b \in Stays, s \in {"COMPLETED", "CANCELLED"} : StayMoves(b, s)

ReviewsSpec == ReviewsInit /\ [][ReviewsNext]_reviewVars

----------------------------------------------------------------------------

ReviewsTypeOK ==
    /\ stay \in [Stays -> StayStatus]
    /\ \A b \in Stays : reviews[b] \subseteq ReviewRow /\ Cardinality(reviews[b]) <= 1
    /\ cards \subseteq Stays /\ reviewTxs \in 0..MaxReviewTxs

\* Totals heal: transactions that run side by side each count without the
\* other's review, but the next one that runs alone leaves the listing with the
\* exact count, sum and histogram of its published reviews.
TotalsHeal ==
    LET P == Published(reviews)
    IN  quiet => /\ totals.count = Cardinality(P)
                 /\ totals.sum = MapThenSumSet(LAMBDA b : RatingOf(reviews, b), P)
                 /\ \A s \in 1..5 : totals.bucket[s]
                        = Cardinality({b \in P : RatingOf(reviews, b) \in {2 * s - 1, 2 * s}})

----------------------------------------------------------------------------
(* The inductive invariant behind it. *)

\* A row of stays_listing_reviews, or none.
OneReview == {{}} \cup {{r} : r \in ReviewRow}

TxRecords ==
    [kind : {"create", "edit", "moderate"}, booking : Stays, row : ReviewRow,
     cols : SUBSET {"rating", "status"}, completes : BOOLEAN, alone : BOOLEAN,
     totals : {NoTotals} \cup {recalculateForListing(rows) : rows \in [Stays -> OneReview]},
     pc : {"insert", "saveReads", "saveUpdates", "recalculate", "commit"}]

\* A transaction that is alone still is, and has counted what its commit leaves.
TxSound(h, x) ==
    x.alone => /\ \A g \in ReviewTxs \ {h} : reviewTx[g] = {}
               /\ x.pc = "commit" => x.totals = recalculateForListing([reviews EXCEPT ![x.booking] = {x.row}])

ReviewsInv ==
    /\ reviews \in [Stays -> OneReview]
    /\ reviewTx \in [ReviewTxs -> SUBSET TxRecords]
    /\ \A h \in ReviewTxs : \A x \in reviewTx[h] : TxSound(h, x)
    /\ quiet => totals = recalculateForListing(reviews)

==============================================================================
