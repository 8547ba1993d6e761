---------------------------- MODULE HostingProofs ----------------------------
(***************************************************************************)
(* What is proved about the host's side: the life of a listing and of the  *)
(* host's application, the import of external calendars, the amounts of a  *)
(* booking, the reviews of a listing and the verification of identities.   *)
(* Each part shows that the inductive invariant of its module holds        *)
(* initially and is kept by every step, and reads its properties off it.   *)
(* The last part shows that a behaviour of their composition is one of     *)
(* each of them.                                                           *)
(***************************************************************************)
EXTENDS MCHosting, FiniteSetTheorems, TLAPS

----------------------------------------------------------------------------
(* Listings and host profiles *)

\* More grants justify no less.
LEMMA GrantsGrow ==
    ASSUME NEW s, NEW G, NEW H, G \subseteq H, StatusGranted(s, G)
    PROVE  StatusGranted(s, H)
BY DEF StatusGranted

\* The entity an operation will save: its status is granted, with its own grant,
\* whenever that of the row it read is.
LEMMA ImageGranted ==
    ASSUME NEW row \in ListingRow, NEW inv, NEW op, row.status # "NONE",
           StatusGranted(row.status, granted), ListingAllows(op, row, inv)
    PROVE  /\ ListingImage(op, row) \in ListingRow
           /\ StatusGranted(ListingImage(op, row).status, granted \cup {op})
<1> DEFINE image == ListingImage(op, row)
<1>1. CASE op \in {"media", "units", "noUnits"}
  BY <1>1 DEF ListingImage, StatusGranted
<1>2. CASE op = "update"
  BY <1>2 DEF ListingImage, StatusGranted, ListingRow
<1>3. CASE op = "submit"
  BY <1>3 DEF ListingImage, StatusGranted, ListingRow, ListingStatus
<1>4. CASE op = "pause"
  <2>1. row.status \in {"LIVE", "APPROVED"}
    BY <1>4 DEF ListingAllows, AdminAllows, HostOps, PAUSABLE_STATUSES
  <2>2. image = Paused(row)
    BY <1>4 DEF ListingImage
  <2>3. Paused(row) \in ListingRow /\ Paused(row).status = "PAUSED"
    BY DEF Paused, ListingRow, ListingStatus
  <2>4. QED
    BY <2>1, <2>2, <2>3 DEF StatusGranted
<1>5. CASE op \in {"resume", "unpause"}
  <2>1. row.status = "PAUSED"
    BY <1>5 DEF ListingAllows, AdminAllows, HostAllows, HostOps
  <2>2. image = Restored(row)
    BY <1>5 DEF ListingImage
  <2>3. Restored(row) \in ListingRow /\ Restored(row).status \in {"LIVE", "APPROVED"}
    BY DEF Restored, ListingRow, ListingStatus
  <2>4. QED
    BY <2>1, <2>2, <2>3 DEF StatusGranted
<1>6. CASE op = "approve"
  <2>1. row.status = "SUBMITTED"
    BY <1>6 DEF ListingAllows, AdminAllows, HostOps
  <2>2. image \in ListingRow /\ image.status = "APPROVED"
    BY <1>6 DEF ListingImage, ListingRow, ListingStatus
  <2>3. QED
    BY <1>6, <2>1, <2>2 DEF StatusGranted
<1>7. CASE op = "reject"
  BY <1>7 DEF ListingImage, StatusGranted, ListingRow, ListingStatus
<1>8. CASE op = "setLive"
  <2>1. row.status = "APPROVED"
    BY <1>8 DEF ListingAllows, AdminAllows, HostOps
  <2>2. image \in ListingRow /\ image.status = "LIVE"
    BY <1>8 DEF ListingImage, ListingRow, ListingStatus
  <2>3. QED
    BY <1>8, <2>1, <2>2 DEF StatusGranted
<1>9. CASE op \notin {"media", "units", "noUnits", "update", "submit", "pause", "resume", "unpause",
                      "approve", "reject", "setLive"}
  BY <1>9 DEF ListingImage, StatusGranted
<1>10. QED
  BY <1>1, <1>2, <1>3, <1>4, <1>5, <1>6, <1>7, <1>8, <1>9

\* A profile image keeps the two columns of the verdict together.
LEMMA ImageAgrees ==
    ASSUME NEW row \in ProfileRow, NEW op, row.application = row.verification
    PROVE  /\ ProfileImage(op, row) \in ProfileRow
           /\ ProfileImage(op, row).application = ProfileImage(op, row).verification
<1>1. CASE op = "submit"
  BY <1>1 DEF ProfileImage, ProfileRow
<1>2. CASE op = "reject"
  BY <1>2 DEF ProfileImage, RejectedHost, ProfileRow
<1>3. CASE op \notin {"submit", "reject"}
  <2>1. PICK b \in BOOLEAN : b = (op = "freeze")
    OBVIOUS
  <2>2. ProfileImage(op, row) = [row EXCEPT !.frozen = b]
    BY <1>3, <2>1 DEF ProfileImage, Frozen
  <2>3. QED
    BY <2>2 DEF ProfileRow
<1>4. QED
  BY <1>1, <1>2, <1>3

\* repository.save on a row of stays_listings.
LEMMA SavedListing ==
    ASSUME NEW image \in ListingRow, NEW row \in ListingRow, NEW cols
    PROVE  /\ Updated(image, cols, row) \in ListingRow
           /\ Updated(image, cols, row).status \in {image.status, row.status}
           /\ Changed(image, row) \subseteq {"status", "pausedFrom", "about"}
<1>1. DOMAIN row = {"status", "pausedFrom", "about"}
  BY DEF ListingRow
<1>2. QED
  BY <1>1 DEF Updated, Changed, ListingRow

\* Both verdicts of a profile are saved together or not at all.
LEMMA SavedProfile ==
    ASSUME NEW image \in ProfileRow, NEW row \in ProfileRow, NEW cols,
           image.application = image.verification, row.application = row.verification
    PROVE  /\ Updated(image, cols, row) \in ProfileRow
           /\ ("application" \in cols <=> "verification" \in cols) =>
                Updated(image, cols, row).application = Updated(image, cols, row).verification
           /\ Changed(image, row) \subseteq {"application", "verification", "frozen"}
           /\ "application" \in Changed(image, row) <=> "verification" \in Changed(image, row)
<1>1. DOMAIN row = {"application", "verification", "frozen"}
  BY DEF ProfileRow
<1>2. QED
  BY <1>1 DEF Updated, Changed, ProfileRow

\* A request that begins, or goes on, in one hand.
LEMMA HandSet ==
    ASSUME ListingsInv, NEW h \in Hands, NEW n \in SUBSET HandRecords, \A q \in n : HandSound(q),
           hand' = [hand EXCEPT ![h] = n], UNCHANGED <<listing, profile, granted>>
    PROVE  ListingsInv'
<1>1. hand' \in [Hands -> SUBSET HandRecords] /\ \A g \in Hands : \A q \in hand'[g] : q \in n \/ q \in hand[g]
  BY DEF ListingsInv
<1>2. \A q : HandSound(q) => HandSound(q)'
  BY DEF HandSound
<1>3. QED
  BY <1>1, <1>2 DEF ListingsInv, VerdictsAgree

\* Requests read a row and form their image of it.
LEMMA RequestKeeps ==
    ASSUME ListingsInv, NEW h \in Hands,
           \/ \E op \in ListingOps : ListingRead(h, op)
           \/ \E op \in ProfileOps : ProfileRead(h, op)
    PROVE  ListingsInv'
<1>1. ASSUME NEW op \in ListingOps, ListingRead(h, op) PROVE ListingsInv'
  <2>1. PICK image : image = ListingImage(op, listing)
    OBVIOUS
  <2>2. image \in ListingRow /\ StatusGranted(image.status, granted \cup {op})
    BY <1>1, <2>1, ImageGranted DEF ListingRead, ListingsInv
  <2>3. PICK q : q = [table |-> "listing", op |-> op, image |-> image, cols |-> {}, read |-> FALSE]
    OBVIOUS
  <2>4. q \in HandRecords /\ HandSound(q)
    BY <2>2, <2>3 DEF HandRecords, HandSound
  <2>5. hand' = [hand EXCEPT ![h] = {q}] /\ UNCHANGED <<listing, profile, granted>>
    BY <1>1, <2>1, <2>3 DEF ListingRead, Request
  <2>6. QED
    BY <2>4, <2>5, HandSet
<1>2. ASSUME NEW op \in ProfileOps, ProfileRead(h, op) PROVE ListingsInv'
  <2>1. PICK image : image = ProfileImage(op, profile)
    OBVIOUS
  <2>2. image \in ProfileRow /\ image.application = image.verification
    BY <2>1, ImageAgrees DEF ListingsInv, VerdictsAgree
  <2>3. PICK q : q = [table |-> "profile", op |-> op, image |-> image, cols |-> {}, read |-> FALSE]
    OBVIOUS
  <2>4. q \in HandRecords /\ HandSound(q)
    BY <2>2, <2>3 DEF HandRecords, HandSound
  <2>5. hand' = [hand EXCEPT ![h] = {q}] /\ UNCHANGED <<listing, profile, granted>>
    BY <1>2, <2>1, <2>3 DEF ProfileRead, Request
  <2>6. QED
    BY <2>4, <2>5, HandSet
<1>3. QED
  BY <1>1, <1>2

\* save reads the row again and settles the columns it will write.
LEMMA ListingSaveReads ==
    ASSUME ListingsInv, NEW h \in Hands, SaveReads(h)
    PROVE  ListingsInv'
<1>1. PICK q, cols : /\ q \in hand[h]
                     /\ cols = Changed(q.image, IF q.table = "listing" THEN listing ELSE profile)
                     /\ hand' = [hand EXCEPT ![h] = {[q EXCEPT !.read = TRUE, !.cols = cols]}]
                     /\ UNCHANGED <<listing, profile, granted>>
  BY DEF SaveReads
<1>2. q \in HandRecords /\ HandSound(q)
  BY <1>1 DEF ListingsInv
<1>3. /\ cols \in SUBSET {"status", "pausedFrom", "about", "application", "verification", "frozen"}
      /\ q.table = "profile" => ("application" \in cols <=> "verification" \in cols)
  <2>1. CASE q.table = "listing"
    BY <1>1, <1>2, <2>1, SavedListing DEF ListingsInv, HandSound
  <2>2. CASE q.table = "profile"
    BY <1>1, <1>2, <2>2, SavedProfile DEF ListingsInv, HandSound, VerdictsAgree
  <2>3. QED
    BY <1>2, <2>1, <2>2 DEF HandRecords
<1>4. PICK p : p = [q EXCEPT !.read = TRUE, !.cols = cols]
  OBVIOUS
<1>5. /\ p \in HandRecords /\ p.table = q.table /\ p.op = q.op /\ p.image = q.image /\ p.cols = cols
  BY <1>2, <1>3, <1>4 DEF HandRecords
<1>6. HandSound(p)
  BY <1>2, <1>3, <1>5 DEF HandSound
<1>7. /\ hand' = [hand EXCEPT ![h] = {p}] /\ UNCHANGED <<listing, profile, granted>>
      /\ {p} \in SUBSET HandRecords /\ \A x \in {p} : HandSound(x)
  BY <1>1, <1>4, <1>5, <1>6
<1>8. QED
  BY <1>7, HandSet

\* save writes them; the grant of the operation is noted with them.
LEMMA SaveUpdatesKeeps ==
    ASSUME ListingsInv, NEW h \in Hands, SaveUpdates(h)
    PROVE  ListingsInv'
<1>1. PICK q \in hand[h] :
        /\ IF q.table = "listing"
           THEN /\ listing' = Updated(q.image, q.cols, listing)
                /\ granted' = granted \cup {q.op} /\ profile' = profile
           ELSE /\ profile' = Updated(q.image, q.cols, profile)
                /\ UNCHANGED <<listing, granted>>
        /\ hand' = [hand EXCEPT ![h] = {}]
  BY DEF SaveUpdates
<1>2. q \in HandRecords /\ HandSound(q)
  BY DEF ListingsInv
<1>3. hand' \in [Hands -> SUBSET HandRecords] /\ \A g \in Hands : \A p \in hand'[g] : p \in hand[g]
  BY <1>1 DEF ListingsInv
<1>4. granted \subseteq granted'
  BY <1>1
<1>5. \A p : HandSound(p) => HandSound(p)'
  <2> SUFFICES ASSUME NEW p, HandSound(p) PROVE HandSound(p)'
    OBVIOUS
  <2>1. granted \cup {p.op} \subseteq granted' \cup {p.op}
    BY <1>4
  <2>2. QED
    BY <2>1, GrantsGrow DEF HandSound
<1>6. listing' \in ListingRow /\ StatusGranted(listing'.status, granted')
  <2>1. CASE q.table = "listing"
    <3>1. /\ listing' \in ListingRow /\ listing'.status \in {q.image.status, listing.status}
      BY <1>1, <1>2, <2>1, SavedListing DEF ListingsInv, HandSound
    <3>2. StatusGranted(q.image.status, granted') /\ StatusGranted(listing.status, granted')
      BY <1>1, <1>2, <1>4, <2>1, GrantsGrow DEF ListingsInv, HandSound
    <3>3. QED
      BY <3>1, <3>2
  <2>2. CASE q.table # "listing"
    BY <1>1, <2>2 DEF ListingsInv
  <2>3. QED
    BY <2>1, <2>2
<1>7. profile' \in ProfileRow /\ VerdictsAgree'
  <2>1. CASE q.table = "listing"
    BY <1>1, <2>1 DEF ListingsInv, VerdictsAgree
  <2>2. CASE q.table # "listing"
    <3>1. q.table = "profile"
      BY <1>2, <2>2 DEF HandRecords
    <3>2. QED
      BY <1>1, <1>2, <2>2, <3>1, SavedProfile DEF ListingsInv, HandSound, VerdictsAgree
  <2>3. QED
    BY <2>1, <2>2
<1>8. QED
  BY <1>3, <1>5, <1>6, <1>7 DEF ListingsInv

\* The inductive invariant holds in every behaviour.
LEMMA ListingsInvHolds == ListingsSpec => []ListingsInv
<1>1. ListingsInit => ListingsInv
  BY DEF ListingsInit, ListingsInv, ListingRow, ListingStatus, ProfileRow, StatusGranted, VerdictsAgree
<1>2. ASSUME ListingsInv, [ListingsNext]_listingVars PROVE ListingsInv'
  <2>1. CASE UNCHANGED listingVars
    BY <1>2, <2>1 DEF listingVars, ListingsInv, VerdictsAgree, HandSound
  <2>2. ASSUME NEW h \in Hands, ReplaceInventory(h) \/ RequestFails(h) PROVE ListingsInv'
    <3>1. hand' = [hand EXCEPT ![h] = {}] /\ UNCHANGED <<listing, profile, granted>>
      BY <2>2 DEF ReplaceInventory, RequestFails
    <3>2. QED
      BY <1>2, <3>1, HandSet
  <2>3. CASE createListing
    <3>1. listing' = [listing EXCEPT !.status = "DRAFT"] /\ UNCHANGED <<profile, hand, granted>>
      BY <2>3 DEF createListing
    <3>2. listing' \in ListingRow /\ listing'.status = "DRAFT"
      BY <1>2, <3>1 DEF ListingsInv, ListingRow, ListingStatus
    <3>3. QED
      BY <1>2, <3>1, <3>2 DEF ListingsInv, VerdictsAgree, HandSound, StatusGranted
  <2>4. CASE approve
    <3>1. /\ profile' = [profile EXCEPT !.application = "APPROVED", !.verification = "APPROVED"]
          /\ granted' = granted \cup {"host"} /\ UNCHANGED <<listing, hand>>
      BY <2>4 DEF approve
    <3>2. profile' \in ProfileRow /\ profile'.application = profile'.verification
      BY <1>2, <3>1 DEF ListingsInv, ProfileRow
    <3>3. \A q : HandSound(q) => HandSound(q)'
      BY <3>1 DEF HandSound, StatusGranted
    <3>4. StatusGranted(listing.status, granted)'
      BY <1>2, <3>1 DEF ListingsInv, StatusGranted
    <3>5. QED
      BY <1>2, <3>1, <3>2, <3>3, <3>4 DEF ListingsInv, VerdictsAgree
  <2>5. QED
    BY <1>2, <2>1, <2>2, <2>3, <2>4, RequestKeeps, ListingSaveReads, SaveUpdatesKeeps DEF ListingsNext
<1>3. QED
  BY <1>1, <1>2, PTL DEF ListingsSpec

\* A listing that is LIVE, APPROVED or PAUSED was submitted and approved, for any
\* number of requests that save what they read earlier (HostListingsService and
\* AdminStaysService through repository.save).
THEOREM PublishedListingsWereGranted == ListingsSpec => []PublishedWasGranted
<1>1. ListingsInv => PublishedWasGranted
  BY DEF ListingsInv, PublishedWasGranted, StatusGranted
<1>2. QED
  BY <1>1, ListingsInvHolds, PTL

\* The two columns of a host's verdict agree, under stale saves of submissions,
\* rejections and freezes (HostOnboardingService, AdminStaysService).
THEOREM HostVerdictsAgree == ListingsSpec => []VerdictsAgree
<1>1. ListingsInv => VerdictsAgree
  BY DEF ListingsInv
<1>2. QED
  BY <1>1, ListingsInvHolds, PTL

----------------------------------------------------------------------------
(* External calendars *)

\* An event's nights are those from its start to before its end, or its start.
LEMMA NightsOfFeed ==
    ASSUME CalendarInv, NEW c \in Calendars
    PROVE  expandNights(feed[c]) \subseteq ReportedNights(c)
<1>1. feed[c] \subseteq reported[c] /\ reported[c] \subseteq Int \X Int /\ Horizon \subseteq Int
  BY CalendarAssumption DEF CalendarInv
<1>2. ASSUME NEW n \in Horizon, NEW e \in feed[c], e[1] <= n, n <= LastNight(e)
      PROVE  n < e[2] \/ n = e[1]
  <2>1. n \in Int /\ e[1] \in Int /\ e[2] \in Int
    BY <1>1
  <2>2. QED
    BY <1>2, <2>1 DEF LastNight
<1>3. QED
  BY <1>1, <1>2 DEF expandNights, ReportedNights

\* What the step of another sync leaves of a sync: its place and its nights.
FollowsSync(y, x, gone, wrote) ==
    /\ y.cal = x.cal /\ y.pc = x.pc /\ y.nights = x.nights /\ y.at = x.at
    /\ y.todo = IF x.pc = "remove" THEN x.todo \ gone ELSE x.todo
    /\ y.calm => x.calm /\ ~wrote

\* That is what Disturbed makes of it.
LEMMA DisturbedFollows ==
    ASSUME NEW x \in SyncRecords, NEW gone, NEW wrote \in BOOLEAN
    PROVE  /\ Disturbed(x, gone, wrote) \in SyncRecords
           /\ FollowsSync(Disturbed(x, gone, wrote), x, gone, wrote)
<1>1. PICK t \in SUBSET Horizon, b \in BOOLEAN :
          t = (IF x.pc = "remove" THEN x.todo \ gone ELSE x.todo) /\ b = (x.calm /\ ~wrote)
  BY DEF SyncRecords
<1>2. PICK y : y = Disturbed(x, gone, wrote)
  OBVIOUS
<1>3. y = [x EXCEPT !.todo = t, !.calm = b]
  BY <1>1, <1>2 DEF SyncRecords, Disturbed
<1>4. /\ y \in SyncRecords /\ y.todo = t /\ y.calm = b /\ y.cal = x.cal /\ y.pc = x.pc
      /\ y.nights = x.nights /\ y.at = x.at
  BY <1>3 DEF SyncRecords
<1>5. QED
  BY <1>1, <1>2, <1>4 DEF FollowsSync

\* After a statement of w, every other sync follows one that was there before.
LEMMA Continued ==
    ASSUME CalendarInv, NEW w \in Syncs, NEW next \in SUBSET SyncRecords, NEW gone,
           NEW wrote \in BOOLEAN, Continue(w, next, gone, wrote)
    PROVE  /\ sync' \in [Syncs -> SUBSET SyncRecords] /\ sync'[w] = next
           /\ \A v \in Syncs : v # w =>
                \A y \in sync'[v] : \E x \in sync[v] : FollowsSync(y, x, gone, wrote)
<1>1. sync \in [Syncs -> SUBSET SyncRecords]
  BY DEF CalendarInv
<1>2. \A v \in Syncs : v # w => sync'[v] = {Disturbed(x, gone, wrote) : x \in sync[v]}
  BY DEF Continue
<1>3. \A v \in Syncs : v # w =>
         \A y \in sync'[v] : y \in SyncRecords /\ \E x \in sync[v] : FollowsSync(y, x, gone, wrote)
  BY <1>1, <1>2, DisturbedFollows
<1>4. sync'[w] = next /\ sync' = [v \in Syncs |-> sync'[v]]
  BY DEF Continue
<1>5. sync' \in [Syncs -> SUBSET SyncRecords]
  BY <1>3, <1>4
<1>6. QED
  BY <1>3, <1>4, <1>5

\* While blocks and reports stay, a sync that keeps its place stays sound.
LEMMA SoundStays ==
    ASSUME UNCHANGED <<blocks, reported>>, NEW x, NEW y, SyncSound(x), FollowsSync(y, x, {}, FALSE)
    PROVE  SyncSound(y)'
BY DEF SyncSound, FollowsSync, ReportedNights

\* A step of one sync that writes no blocks.
LEMMA QuietStep ==
    ASSUME CalendarInv, NEW w \in Syncs, NEW next \in SUBSET SyncRecords, \A y \in next : SyncSound(y),
           Continue(w, next, {}, FALSE), calendar' \in [Calendars -> CalendarRow],
           UNCHANGED <<feed, reported, blocks, imported>>
    PROVE  CalendarInv'
<1>1. /\ sync' \in [Syncs -> SUBSET SyncRecords] /\ sync'[w] = next
      /\ \A v \in Syncs : v # w => \A y \in sync'[v] : \E x \in sync[v] : FollowsSync(y, x, {}, FALSE)
  BY Continued
<1>2. \A y \in next : SyncSound(y)'
  BY DEF SyncSound, ReportedNights
<1>3. \A v \in Syncs : v # w => \A y \in sync'[v] : SyncSound(y)'
  BY <1>1, SoundStays DEF CalendarInv
<1>4. \A v \in Syncs : \A y \in sync'[v] : SyncSound(y)'
  BY <1>1, <1>2, <1>3
<1>5. ImportedNightsReported' /\ ImportMatchesFeed'
  BY DEF CalendarInv, ImportedNightsReported, ImportMatchesFeed
<1>6. QED
  BY <1>1, <1>4, <1>5 DEF CalendarInv, CalendarTypeOK

\* A request that begins.
LEMMA StartKeeps ==
    ASSUME CalendarInv, NEW w \in Syncs, NEW c \in Calendars, NEW pc \in {"claim", "claimDue", "patch"},
           NEW image \in CalendarRow, Start(w, c, pc, image), calendar' \in [Calendars -> CalendarRow],
           UNCHANGED <<feed, reported, blocks, imported>>
    PROVE  CalendarInv'
<1>1. PICK x : x = [cal |-> c, pc |-> pc, row |-> image, etag |-> {},
                    nights |-> {}, todo |-> {}, at |-> {}, calm |-> TRUE]
  OBVIOUS
<1>2. x \in SyncRecords
  BY <1>1 DEF SyncRecords
<1>3. SyncSound(x)'
  BY <1>1 DEF SyncSound
<1>4. sync' = [sync EXCEPT ![w] = {x}]
  BY <1>1 DEF Start
<1>5. /\ sync' \in [Syncs -> SUBSET SyncRecords] /\ \A v \in Syncs : \A y \in sync'[v] : y = x \/ y \in sync[v]
  BY <1>2, <1>4 DEF CalendarInv
<1>6. \A y : SyncSound(y) => SyncSound(y)'
  BY DEF SyncSound, ReportedNights
<1>7. ImportedNightsReported' /\ ImportMatchesFeed'
  BY DEF CalendarInv, ImportedNightsReported, ImportMatchesFeed
<1>8. QED
  BY <1>3, <1>5, <1>6, <1>7 DEF CalendarInv, CalendarTypeOK

\* Requests that begin: a calendar connected, a sync by hand or by the scheduler,
\* an edit.
LEMMA RequestsKeep ==
    ASSUME CalendarInv, NEW w \in Syncs, NEW c \in Calendars,
           \/ connectCalendar(w, c) \/ syncNow(w, c) \/ processDueCalendars(w, c)
           \/ \E s \in {"ACTIVE", "PAUSED"} : UpdateReads(w, c, s)
    PROVE  CalendarInv'
<1>1. calendar \in [Calendars -> CalendarRow] /\ NoCalendar \in CalendarRow
  BY DEF CalendarInv, CalendarTypeOK, NoCalendar, CalendarRow
<1>2. CASE connectCalendar(w, c)
  <2>1. [NoCalendar EXCEPT !.status = "ACTIVE"] \in CalendarRow
    BY DEF NoCalendar, CalendarRow
  <2>2. calendar' \in [Calendars -> CalendarRow]
    BY <1>1, <1>2, <2>1 DEF connectCalendar
  <2>3. QED
    BY <1>1, <1>2, <2>2, StartKeeps DEF connectCalendar
<1>3. CASE syncNow(w, c)
  BY <1>1, <1>3, StartKeeps DEF syncNow
<1>4. CASE processDueCalendars(w, c)
  BY <1>1, <1>4, StartKeeps DEF processDueCalendars
<1>5. ASSUME NEW s \in {"ACTIVE", "PAUSED"}, UpdateReads(w, c, s)
      PROVE  CalendarInv'
  <2>1. [calendar[c] EXCEPT !.status = s] \in CalendarRow
    BY <1>1 DEF CalendarRow
  <2>2. QED
    BY <1>1, <1>5, <2>1, StartKeeps DEF UpdateReads
<1>6. QED
  BY <1>2, <1>3, <1>4, <1>5

\* The statements before the blocks are written: the claim, the read, the fetch
\* and the look at one night.
LEMMA ReadingKeeps ==
    ASSUME CalendarInv, NEW w \in Syncs,
           \/ ClaimCalendar(w) \/ ReadClaimed(w) \/ NotModified(w) \/ FetchFeed(w)
           \/ \E n \in Horizon : LookAtNight(w, n)
    PROVE  CalendarInv'
<1>1. /\ calendar \in [Calendars -> CalendarRow] /\ sync[w] \subseteq SyncRecords
      /\ feed \in [Calendars -> SUBSET Reservations] /\ \A x \in sync[w] : SyncSound(x)
  BY DEF CalendarInv, CalendarTypeOK
<1>2. CASE ClaimCalendar(w)
  <2>1. PICK x \in sync[w] :
            /\ x.pc \in {"claim", "claimDue"}
            /\ \/ /\ calendar' = [calendar EXCEPT ![x.cal] =
                         [calendar[x.cal] EXCEPT !.status = "SYNCING", !.locked = TRUE]]
                  /\ Continue(w, {[x EXCEPT !.pc = "read"]}, {}, FALSE)
               \/ calendar' = calendar /\ Continue(w, {}, {}, FALSE)
            /\ UNCHANGED <<feed, reported, blocks, imported>>
    BY <1>2 DEF ClaimCalendar
  <2>2. PICK y : y = [x EXCEPT !.pc = "read"]
    OBVIOUS
  <2>3. y \in SyncRecords /\ SyncSound(y)
    <3>1. y \in SyncRecords /\ y.pc = "read" /\ y.cal = x.cal /\ y.nights = x.nights /\ y.at = x.at
      BY <1>1, <2>2 DEF SyncRecords
    <3>2. QED
      BY <1>1, <3>1 DEF SyncSound
  <2>4. [calendar[x.cal] EXCEPT !.status = "SYNCING", !.locked = TRUE] \in CalendarRow
    <3>1. calendar[x.cal] \in CalendarRow
      BY <1>1 DEF SyncRecords
    <3>2. QED
      BY <3>1 DEF CalendarRow
  <2>5. calendar' \in [Calendars -> CalendarRow]
    BY <1>1, <2>1, <2>4
  <2>6. {y} \in SUBSET SyncRecords /\ {} \in SUBSET SyncRecords
    BY <2>3
  <2>7. QED
    BY <2>1, <2>2, <2>3, <2>5, <2>6, QuietStep
<1>3. CASE ReadClaimed(w)
  <2>1. PICK x \in sync[w] :
            /\ Continue(w, {[x EXCEPT !.pc = "fetch", !.row = calendar[x.cal]]}, {}, FALSE)
            /\ UNCHANGED <<calendar, feed, reported, blocks, imported>>
    BY <1>3 DEF ReadClaimed
  <2>2. PICK y : y = [x EXCEPT !.pc = "fetch", !.row = calendar[x.cal]]
    OBVIOUS
  <2>3. y \in SyncRecords /\ y.pc = "fetch" /\ y.cal = x.cal /\ y.nights = x.nights /\ y.at = x.at
    BY <1>1, <2>2 DEF SyncRecords
  <2>4. SyncSound(y) /\ {y} \in SUBSET SyncRecords
    BY <1>1, <2>3 DEF SyncSound
  <2>5. QED
    BY <1>1, <2>1, <2>2, <2>4, QuietStep
<1>4. CASE NotModified(w)
  <2>1. PICK x \in sync[w] :
            /\ Continue(w, {[x EXCEPT !.pc = "finish"]}, {}, FALSE)
            /\ UNCHANGED <<calendar, feed, reported, blocks, imported>>
    BY <1>4 DEF NotModified
  <2>2. PICK y : y = [x EXCEPT !.pc = "finish"]
    OBVIOUS
  <2>3. y \in SyncRecords /\ y.pc = "finish" /\ y.cal = x.cal /\ y.nights = x.nights /\ y.at = x.at
    BY <1>1, <2>2 DEF SyncRecords
  <2>4. SyncSound(y) /\ {y} \in SUBSET SyncRecords
    BY <1>1, <2>3 DEF SyncSound
  <2>5. QED
    BY <1>1, <2>1, <2>2, <2>4, QuietStep
<1>5. CASE FetchFeed(w)
  <2>1. PICK x \in sync[w], nights \in SUBSET Horizon, todo \in SUBSET Horizon :
            /\ x.pc = "fetch"
            /\ nights = expandNights(feed[x.cal]) /\ todo = {n \in Horizon : blocks[n] = x.cal} \ nights
            /\ Continue(w, {[x EXCEPT !.pc = "remove", !.etag = {feed[x.cal]}, !.calm = TRUE,
                                      !.nights = nights, !.todo = todo]}, {}, FALSE)
            /\ UNCHANGED <<calendar, feed, reported, blocks, imported>>
    BY <1>5 DEF FetchFeed, expandNights
  <2>2. PICK y : y = [x EXCEPT !.pc = "remove", !.etag = {feed[x.cal]}, !.calm = TRUE,
                               !.nights = nights, !.todo = todo]
    OBVIOUS
  <2>3. x \in SyncRecords /\ x.cal \in Calendars /\ feed[x.cal] \in SUBSET Reservations
    BY <1>1 DEF SyncRecords
  <2>4. nights \subseteq Horizon /\ todo \subseteq Horizon /\ nights \subseteq ReportedNights(x.cal)
    BY <2>1, <2>3, NightsOfFeed DEF expandNights
  <2>5. /\ y \in SyncRecords /\ y.pc = "remove" /\ y.cal = x.cal /\ y.nights = nights
        /\ y.todo = todo /\ y.at = x.at
    BY <2>2, <2>3, <2>4 DEF SyncRecords
  <2>6. SyncSound(y) /\ {y} \in SUBSET SyncRecords
    BY <2>1, <2>4, <2>5 DEF SyncSound
  <2>7. QED
    BY <1>1, <2>1, <2>2, <2>6, QuietStep
<1>6. ASSUME NEW n \in Horizon, LookAtNight(w, n)
      PROVE  CalendarInv'
  <2>1. PICK x \in sync[w] : \E y :
            /\ x.pc = "import" /\ n \in x.todo
            /\ y = IF blocks[n] \in {"FREE", x.cal} THEN [x EXCEPT !.pc = "block", !.at = {n}]
                   ELSE [x EXCEPT !.todo = x.todo \ {n}]
            /\ Continue(w, {y}, {}, FALSE)
            /\ UNCHANGED <<calendar, feed, reported, blocks, imported>>
    BY <1>6 DEF LookAtNight
  <2>2. PICK y :
            /\ y = IF blocks[n] \in {"FREE", x.cal} THEN [x EXCEPT !.pc = "block", !.at = {n}]
                   ELSE [x EXCEPT !.todo = x.todo \ {n}]
            /\ Continue(w, {y}, {}, FALSE)
    BY <2>1
  <2>3. x \in SyncRecords
    BY <1>1
  <2>4. CASE blocks[n] \in {"FREE", x.cal}
    <3>1. /\ y \in SyncRecords /\ y.pc = "block" /\ y.at = {n} /\ y.cal = x.cal /\ y.nights = x.nights
          /\ y.todo = x.todo /\ y.calm = x.calm
      BY <2>2, <2>3, <2>4 DEF SyncRecords
    <3>2. SyncSound(y) /\ {y} \in SUBSET SyncRecords
      BY <1>1, <2>1, <3>1 DEF SyncSound
    <3>3. QED
      BY <1>1, <2>1, <2>2, <3>2, QuietStep
  <2>5. CASE blocks[n] \notin {"FREE", x.cal}
    <3>1. /\ y \in SyncRecords /\ y.pc = x.pc /\ y.at = x.at /\ y.cal = x.cal /\ y.nights = x.nights
          /\ y.todo = x.todo \ {n} /\ y.calm = x.calm
      BY <2>2, <2>3, <2>5 DEF SyncRecords
    <3>2. SyncSound(y) /\ {y} \in SUBSET SyncRecords
      BY <1>1, <2>1, <2>5, <3>1 DEF SyncSound
    <3>3. QED
      BY <1>1, <2>1, <2>2, <3>2, QuietStep
  <2>6. QED
    BY <2>4, <2>5
<1>7. QED
  BY <1>2, <1>3, <1>4, <1>5, <1>6

\* A sync that a write of blocks has disturbed claims nothing about them.
LEMMA DisturbedIsSound ==
    ASSUME UNCHANGED reported, NEW x, NEW y, NEW gone, SyncSound(x), FollowsSync(y, x, gone, TRUE)
    PROVE  SyncSound(y)'
BY DEF SyncSound, FollowsSync, ReportedNights

\* A step of one sync that may write blocks: if it does, it disturbs the other
\* syncs and the imports before it.
LEMMA WriteStep ==
    ASSUME CalendarInv, NEW w \in Syncs, NEW next \in SUBSET SyncRecords, NEW gone, NEW wrote \in BOOLEAN,
           Continue(w, next, gone, wrote), \A y \in next : SyncSound(y)',
           ~wrote => gone = {} /\ blocks' = blocks,
           CalendarTypeOK', ImportedNightsReported',
           imported' = IF wrote THEN [c \in Calendars |-> {}] ELSE imported,
           UNCHANGED <<feed, reported>>
    PROVE  CalendarInv'
<1>1. /\ sync' \in [Syncs -> SUBSET SyncRecords] /\ sync'[w] = next
      /\ \A v \in Syncs : v # w => \A y \in sync'[v] : \E x \in sync[v] : FollowsSync(y, x, gone, wrote)
  BY Continued
<1>2. \A v \in Syncs : v # w => \A y \in sync'[v] : SyncSound(y)'
  <2> SUFFICES ASSUME NEW v \in Syncs, v # w, NEW y \in sync'[v]
               PROVE  SyncSound(y)'
    OBVIOUS
  <2>1. PICK x \in sync[v] : FollowsSync(y, x, gone, wrote)
    BY <1>1
  <2>2. SyncSound(x)
    BY DEF CalendarInv
  <2>3. CASE wrote
    <3>1. wrote = TRUE
      BY <2>3
    <3>2. QED
      BY <2>1, <2>2, <3>1, DisturbedIsSound
  <2>4. CASE ~wrote
    <3>1. wrote = FALSE
      BY <2>4
    <3>2. QED
      BY <2>1, <2>2, <3>1, SoundStays
  <2>5. QED
    BY <2>3, <2>4
<1>3. imported' \in [Calendars -> SUBSET SUBSET Horizon] /\ ImportMatchesFeed'
  BY DEF CalendarInv, ImportMatchesFeed
<1>4. \A v \in Syncs : \A y \in sync'[v] : SyncSound(y)'
  BY <1>1, <1>2
<1>5. QED
  BY <1>1, <1>3, <1>4 DEF CalendarInv

\* The statements that write blocks: the removal of the nights that left the
\* feed, and the upsert of one night.
LEMMA WritingKeeps ==
    ASSUME CalendarInv, NEW w \in Syncs, RemoveStaleNights(w) \/ BlockNight(w)
    PROVE  CalendarInv'
<1>1. /\ calendar \in [Calendars -> CalendarRow] /\ sync[w] \subseteq SyncRecords
      /\ blocks \in [Horizon -> {"FREE", "HOST_BLOCKED", "HOST_OPEN"} \cup Calendars]
      /\ \A x \in sync[w] : SyncSound(x)
      /\ ImportedNightsReported /\ "FREE" \notin Calendars
  BY CalendarAssumption DEF CalendarInv, CalendarTypeOK
<1>2. CASE RemoveStaleNights(w)
  <2>1. PICK x \in sync[w] :
            /\ x.pc = "remove"
            /\ blocks' = [n \in Horizon |-> IF n \in x.todo THEN "FREE" ELSE blocks[n]]
            /\ Continue(w, {[x EXCEPT !.pc = "import", !.todo = x.nights]}, x.todo, x.todo # {})
            /\ imported' = IF x.todo = {} THEN imported ELSE [c \in Calendars |-> {}]
            /\ UNCHANGED <<calendar, feed, reported>>
    BY <1>2 DEF RemoveStaleNights
  <2>2. PICK y : y = [x EXCEPT !.pc = "import", !.todo = x.nights]
    OBVIOUS
  <2>3. /\ y \in SyncRecords /\ y.pc = "import" /\ y.todo = x.nights /\ y.nights = x.nights
        /\ y.cal = x.cal /\ y.at = x.at /\ y.calm = x.calm /\ x.cal \in Calendars
    BY <1>1, <2>2 DEF SyncRecords
  <2>4. \A n \in Horizon : blocks'[n] \in Calendars => blocks'[n] = blocks[n] /\ n \notin x.todo
    BY <1>1, <2>1
  <2>5. SyncSound(y)'
    BY <1>1, <2>1, <2>3, <2>4 DEF SyncSound, ReportedNights
  <2>6. ImportedNightsReported'
    BY <1>1, <2>1, <2>4 DEF ImportedNightsReported
  <2>7. CalendarTypeOK'
    BY <1>1, <2>1 DEF CalendarTypeOK
  <2>8. x.todo = {} => blocks' = blocks
    BY <1>1, <2>1
  <2>9. PICK wrote \in BOOLEAN : wrote = (x.todo # {})
    OBVIOUS
  <2>10. {y} \in SUBSET SyncRecords
    BY <2>3
  <2>11. QED
    BY <2>1, <2>2, <2>5, <2>6, <2>7, <2>8, <2>9, <2>10, WriteStep
<1>3. CASE BlockNight(w)
  <2>1. PICK x \in sync[w] : \E n \in x.at :
            /\ x.pc = "block"
            /\ blocks' = [blocks EXCEPT ![n] = x.cal]
            /\ Continue(w, {[x EXCEPT !.pc = "import", !.todo = x.todo \ {n}, !.at = {}]}, {}, blocks' # blocks)
            /\ imported' = IF blocks' = blocks THEN imported ELSE [c \in Calendars |-> {}]
            /\ UNCHANGED <<calendar, feed, reported>>
    BY <1>3 DEF BlockNight
  <2>2. PICK n \in x.at :
            /\ blocks' = [blocks EXCEPT ![n] = x.cal]
            /\ Continue(w, {[x EXCEPT !.pc = "import", !.todo = x.todo \ {n}, !.at = {}]}, {}, blocks' # blocks)
    BY <2>1
  <2>3. PICK y : y = [x EXCEPT !.pc = "import", !.todo = x.todo \ {n}, !.at = {}]
    OBVIOUS
  <2>4. /\ y \in SyncRecords /\ y.pc = "import" /\ y.todo = x.todo \ {n} /\ y.nights = x.nights
        /\ y.cal = x.cal /\ y.at = {} /\ y.calm = x.calm /\ x.cal \in Calendars /\ n \in Horizon
    BY <1>1, <2>3 DEF SyncRecords
  <2>5. n \in x.nights /\ n \in ReportedNights(x.cal)
    BY <1>1, <2>1 DEF SyncSound
  <2>6. \A m \in Horizon : blocks'[m] = IF m = n THEN x.cal ELSE blocks[m]
    BY <1>1, <2>2
  <2>7. SyncSound(y)'
    BY <1>1, <2>1, <2>4, <2>5, <2>6 DEF SyncSound, ReportedNights
  <2>8. ImportedNightsReported'
    BY <1>1, <2>1, <2>5, <2>6 DEF ImportedNightsReported, ReportedNights
  <2>9. CalendarTypeOK'
    BY <1>1, <2>1, <2>2, <2>4 DEF CalendarTypeOK
  <2>10. PICK wrote \in BOOLEAN : wrote = (blocks' # blocks)
    OBVIOUS
  <2>11. {y} \in SUBSET SyncRecords
    BY <2>4
  <2>12. QED
    BY <2>1, <2>2, <2>3, <2>7, <2>8, <2>9, <2>10, <2>11, WriteStep
<1>4. QED
  BY <1>2, <1>3

\* A sync or an edit that ends.
LEMMA EndingKeeps ==
    ASSUME CalendarInv, NEW w \in Syncs,
           finishFailure(w) \/ SyncStops(w) \/ updateCalendar(w)
    PROVE  CalendarInv'
<1>1. calendar \in [Calendars -> CalendarRow] /\ sync[w] \subseteq SyncRecords /\ {} \in SUBSET SyncRecords
  BY DEF CalendarInv, CalendarTypeOK
<1>2. CASE finishFailure(w)
  <2>1. PICK x \in sync[w] :
            /\ calendar' = [calendar EXCEPT ![x.cal] = [x.row EXCEPT !.status = "ERROR", !.locked = FALSE]]
            /\ Continue(w, {}, {}, FALSE)
            /\ UNCHANGED <<feed, reported, blocks, imported>>
    BY <1>2 DEF finishFailure
  <2>2. x.row \in CalendarRow
    BY <1>1 DEF SyncRecords
  <2>3. [x.row EXCEPT !.status = "ERROR", !.locked = FALSE] \in CalendarRow
    BY <2>2 DEF CalendarRow
  <2>4. calendar' \in [Calendars -> CalendarRow]
    BY <1>1, <2>1, <2>3
  <2>5. QED
    BY <1>1, <2>1, <2>4, QuietStep
<1>3. CASE SyncStops(w)
  BY <1>1, <1>3, QuietStep DEF SyncStops
<1>4. CASE updateCalendar(w)
  <2>1. PICK x \in sync[w] :
            /\ calendar' = [calendar EXCEPT ![x.cal] = x.row]
            /\ Continue(w, {}, {}, FALSE)
            /\ UNCHANGED <<feed, reported, blocks, imported>>
    BY <1>4 DEF updateCalendar
  <2>2. x.row \in CalendarRow
    BY <1>1 DEF SyncRecords
  <2>3. calendar' \in [Calendars -> CalendarRow]
    BY <1>1, <2>1, <2>2
  <2>4. QED
    BY <1>1, <2>1, <2>3, QuietStep
<1>5. QED
  BY <1>2, <1>3, <1>4

\* finishSuccess: an undisturbed import with nothing left to do matches its feed.
LEMMA SuccessKeeps ==
    ASSUME CalendarInv, NEW w \in Syncs, finishSuccess(w)
    PROVE  CalendarInv'
<1>1. PICK x \in sync[w] :
          /\ x.pc = "finish" \/ (x.pc = "import" /\ x.todo = {})
          /\ calendar' = [calendar EXCEPT ![x.cal] =
                 [status |-> IF x.pc = "finish" /\ x.row.status = "PAUSED" THEN "PAUSED" ELSE "ACTIVE",
                  locked |-> FALSE, etag |-> IF x.pc = "import" THEN x.etag ELSE x.row.etag]]
          /\ Continue(w, {}, {}, FALSE)
          /\ imported' = IF x.pc = "import" /\ x.calm THEN [imported EXCEPT ![x.cal] = {x.nights}] ELSE imported
          /\ UNCHANGED <<feed, reported, blocks>>
  BY DEF finishSuccess
<1>2. /\ x \in SyncRecords /\ SyncSound(x) /\ {} \in SUBSET SyncRecords
      /\ calendar \in [Calendars -> CalendarRow] /\ imported \in [Calendars -> SUBSET SUBSET Horizon]
  BY DEF CalendarInv, CalendarTypeOK
<1>3. x.cal \in Calendars /\ x.row \in CalendarRow /\ x.etag \in SUBSET SUBSET Reservations /\ x.nights \in SUBSET Horizon
  BY <1>2 DEF SyncRecords
<1>4. [status |-> IF x.pc = "finish" /\ x.row.status = "PAUSED" THEN "PAUSED" ELSE "ACTIVE",
       locked |-> FALSE, etag |-> IF x.pc = "import" THEN x.etag ELSE x.row.etag] \in CalendarRow
  BY <1>1, <1>3 DEF CalendarRow
<1>5. calendar' \in [Calendars -> CalendarRow]
  BY <1>1, <1>2, <1>4
<1>6. imported' \in [Calendars -> SUBSET SUBSET Horizon]
  BY <1>1, <1>2, <1>3
<1>7. ImportMatchesFeed'
  <2>1. \A c \in Calendars : imported'[c] = imported[c] \/
            (imported'[c] = {x.nights} /\ c = x.cal /\ x.pc = "import" /\ x.calm)
    BY <1>1, <1>2
  <2>2. x.pc = "import" /\ x.calm => \A n \in Horizon :
            (n \in x.nights => blocks[n] # "FREE") /\ (blocks[n] = x.cal => n \in x.nights)
    BY <1>1, <1>2 DEF SyncSound
  <2>3. QED
    BY <1>1, <2>1, <2>2 DEF CalendarInv, ImportMatchesFeed
<1>8. /\ sync' \in [Syncs -> SUBSET SyncRecords] /\ sync'[w] = {}
      /\ \A v \in Syncs : v # w => \A y \in sync'[v] : \E z \in sync[v] : FollowsSync(y, z, {}, FALSE)
  BY <1>1, <1>2, Continued
<1>9. \A v \in Syncs : \A y \in sync'[v] : SyncSound(y)'
  BY <1>1, <1>8, SoundStays DEF CalendarInv
<1>10. ImportedNightsReported'
  BY <1>1 DEF CalendarInv, ImportedNightsReported
<1>11. QED
  BY <1>1, <1>5, <1>6, <1>7, <1>8, <1>9, <1>10 DEF CalendarInv, CalendarTypeOK

\* A write of blocks by the host disturbs every sync.
LEMMA HostWrites ==
    ASSUME CalendarInv, NEW gone, CalendarTypeOK', ImportedNightsReported',
           sync' = [w \in Syncs |-> {Disturbed(x, gone, TRUE) : x \in sync[w]}],
           imported' = [d \in Calendars |-> {}], UNCHANGED <<feed, reported>>
    PROVE  CalendarInv'
<1>1. sync \in [Syncs -> SUBSET SyncRecords] /\ \A w \in Syncs : \A x \in sync[w] : SyncSound(x)
  BY DEF CalendarInv
<1>2. \A w \in Syncs : \A y \in sync'[w] :
          y \in SyncRecords /\ \E x \in sync[w] : FollowsSync(y, x, gone, TRUE)
  BY <1>1, DisturbedFollows
<1>3. \A w \in Syncs : \A y \in sync'[w] : SyncSound(y)'
  BY <1>1, <1>2, DisturbedIsSound
<1>4. sync' \in [Syncs -> SUBSET SyncRecords]
  BY <1>2
<1>5. imported' \in [Calendars -> SUBSET SUBSET Horizon] /\ ImportMatchesFeed'
  BY DEF ImportMatchesFeed
<1>6. QED
  BY <1>3, <1>4, <1>5 DEF CalendarInv

\* A feed that changes has reported what it reported before.
LEMMA FeedKeeps ==
    ASSUME CalendarInv, NEW c \in Calendars, NEW events \in SUBSET Reservations, FeedChanges(c, events)
    PROVE  CalendarInv'
<1>1. /\ feed' = [feed EXCEPT ![c] = events] /\ reported' = [reported EXCEPT ![c] = reported[c] \cup events]
      /\ UNCHANGED <<calendar, blocks, sync, imported>>
  BY DEF FeedChanges
<1>2. /\ feed \in [Calendars -> SUBSET Reservations] /\ reported \in [Calendars -> SUBSET Reservations]
      /\ \A d \in Calendars : feed[d] \subseteq reported[d]
  BY DEF CalendarInv
<1>3. /\ feed' \in [Calendars -> SUBSET Reservations] /\ reported' \in [Calendars -> SUBSET Reservations]
      /\ \A d \in Calendars : feed'[d] \subseteq reported'[d] /\ reported[d] \subseteq reported'[d]
  BY <1>1, <1>2
<1>4. \A w \in Syncs : \A x \in sync[w] : x.cal \in Calendars
  BY DEF CalendarInv, SyncRecords
<1>5. \A w \in Syncs : \A x \in sync[w] : SyncSound(x)'
  BY <1>1, <1>3, <1>4 DEF CalendarInv, SyncSound, ReportedNights
<1>6. ImportedNightsReported'
  BY <1>1, <1>3 DEF CalendarInv, ImportedNightsReported
<1>7. ImportMatchesFeed'
  BY <1>1 DEF CalendarInv, ImportMatchesFeed
<1>8. QED
  BY <1>1, <1>3, <1>5, <1>6, <1>7 DEF CalendarInv, CalendarTypeOK

\* The host's own operations, and the end of a claim.
LEMMA HostKeeps ==
    ASSUME CalendarInv,
           \/ \E c \in Calendars : LockExpires(c) \/ deleteCalendar(c)
           \/ \E n \in Horizon, kind \in {"HOST_BLOCKED", "HOST_OPEN"} : setHostAvailabilityBlock(n, kind)
    PROVE  CalendarInv'
<1>1. /\ calendar \in [Calendars -> CalendarRow] /\ ImportedNightsReported /\ NoCalendar \in CalendarRow
      /\ blocks \in [Horizon -> {"FREE", "HOST_BLOCKED", "HOST_OPEN"} \cup Calendars]
      /\ Calendars \cap {"FREE", "HOST_BLOCKED", "HOST_OPEN"} = {}
  BY CalendarAssumption DEF CalendarInv, CalendarTypeOK, NoCalendar, CalendarRow
<1>2. ASSUME NEW c \in Calendars, LockExpires(c)
      PROVE  CalendarInv'
  <2>1. calendar' = [calendar EXCEPT ![c] = [calendar[c] EXCEPT !.locked = FALSE]]
    BY <1>1, <1>2 DEF LockExpires
  <2>2. [calendar[c] EXCEPT !.locked = FALSE] \in CalendarRow
    BY <1>1 DEF CalendarRow
  <2>3. calendar' \in [Calendars -> CalendarRow]
    BY <1>1, <2>1, <2>2
  <2>4. \A x : SyncSound(x) => SyncSound(x)'
    BY <1>2 DEF LockExpires, SyncSound, ReportedNights
  <2>5. QED
    BY <1>2, <2>3, <2>4 DEF LockExpires, CalendarInv, CalendarTypeOK, ImportedNightsReported, ImportMatchesFeed
<1>3. ASSUME NEW c \in Calendars, deleteCalendar(c)
      PROVE  CalendarInv'
  <2>1. CalendarTypeOK'
    BY <1>1, <1>3 DEF deleteCalendar, CalendarTypeOK
  <2>2. ImportedNightsReported'
    BY <1>1, <1>3 DEF deleteCalendar, ImportedNightsReported
  <2>3. QED
    BY <1>3, <2>1, <2>2, HostWrites DEF deleteCalendar
<1>4. ASSUME NEW n \in Horizon, NEW kind \in {"HOST_BLOCKED", "HOST_OPEN"}, setHostAvailabilityBlock(n, kind)
      PROVE  CalendarInv'
  <2>1. CalendarTypeOK'
    BY <1>1, <1>4 DEF setHostAvailabilityBlock, CalendarTypeOK
  <2>2. ImportedNightsReported'
    BY <1>1, <1>4 DEF setHostAvailabilityBlock, ImportedNightsReported
  <2>3. /\ sync' = [w \in Syncs |-> {Disturbed(x, {}, TRUE) : x \in sync[w]}]
        /\ imported' = [d \in Calendars |-> {}] /\ UNCHANGED <<feed, reported>>
    BY <1>4 DEF setHostAvailabilityBlock
  <2>4. QED
    BY <2>1, <2>2, <2>3, HostWrites
<1>5. QED
  BY <1>2, <1>3, <1>4

\* The invariant of the imports, initially and after every step.
LEMMA CalendarInvHolds == CalendarSpec => []CalendarInv
<1>1. CalendarInit => CalendarInv
  <2> SUFFICES ASSUME CalendarInit PROVE CalendarInv
    OBVIOUS
  <2>1. CalendarTypeOK
    BY DEF CalendarInit, CalendarTypeOK, NoCalendar, CalendarRow
  <2>2. ImportedNightsReported
    BY CalendarAssumption DEF CalendarInit, ImportedNightsReported
  <2>3. QED
    BY <2>1, <2>2 DEF CalendarInit, CalendarInv, ImportMatchesFeed
<1>2. CalendarInv /\ [CalendarNext]_calendarVars => CalendarInv'
  <2> SUFFICES ASSUME CalendarInv, [CalendarNext]_calendarVars
               PROVE  CalendarInv'
    OBVIOUS
  <2>1. CASE UNCHANGED calendarVars
    <3>1. \A x : SyncSound(x) => SyncSound(x)'
      BY <2>1 DEF calendarVars, SyncSound, ReportedNights
    <3>2. QED
      BY <2>1, <3>1 DEF calendarVars, CalendarInv, CalendarTypeOK, ImportedNightsReported, ImportMatchesFeed
  <2>2. CASE CalendarNext
    BY <2>2, RequestsKeep, ReadingKeeps, WritingKeeps, EndingKeeps, SuccessKeeps, HostKeeps, FeedKeeps
       DEF CalendarNext
  <2>3. QED
    BY <2>1, <2>2
<1>3. QED
  BY <1>1, <1>2, PTL DEF CalendarSpec

\* Whatever overlaps, fails half-way or stops, a night is blocked for a calendar
\* only if its feed has reported a stay over it (syncCalendar).
THEOREM ImportsWereReported == CalendarSpec => []ImportedNightsReported
<1>1. CalendarInv => ImportedNightsReported
  BY DEF CalendarInv
<1>2. QED
  BY <1>1, CalendarInvHolds, PTL

\* After an import that nothing disturbed the calendar's blocks are the nights of
\* its feed that were not taken before (syncCalendar, finishSuccess).
THEOREM ImportsMatchTheirFeed == CalendarSpec => []ImportMatchesFeed
<1>1. CalendarInv => ImportMatchesFeed
  BY DEF CalendarInv
<1>2. QED
  BY <1>1, CalendarInvHolds, PTL

----------------------------------------------------------------------------
(* Amounts *)

\* What Math.round may return: within half a cent, and there is such an amount.
LEMMA RoundedBounds ==
    ASSUME NEW n \in Int, NEW d \in Nat \ {0}, NEW q \in Rounded(n, d)
    PROVE  q \in Int /\ 2 * (n - q * d) <= d /\ 2 * (q * d - n) <= d
<1>1. n \div d \in Int
  OBVIOUS
<1>2. QED
  BY <1>1 DEF Rounded

\* Tenths of a cent are rounded to some amount.
LEMMA RoundedToTenth ==
    ASSUME NEW n \in Nat
    PROVE  \E q \in Rounded(n, 10) : q >= 0
<1>1. PICK k \in Nat, r \in 0..9 : n = 10 * k + r /\ k = n \div 10
  OBVIOUS
<1>2. CASE r <= 5
  <2>1. k \in Rounded(n, 10)
    BY <1>1, <1>2 DEF Rounded
  <2>2. QED
    BY <2>1
<1>3. CASE r > 5
  <2>1. k + 1 \in Rounded(n, 10)
    BY <1>1, <1>3 DEF Rounded
  <2>2. QED
    BY <2>1
<1>4. QED
  BY <1>2, <1>3

\* Halves of a cent too.
LEMMA RoundedToHalf ==
    ASSUME NEW n \in Nat
    PROVE  \E q \in Rounded(n, 2) : q >= 0
<1>1. PICK k \in Nat, r \in 0..1 : n = 2 * k + r /\ k = n \div 2
  OBVIOUS
<1>2. k \in Rounded(n, 2)
  BY <1>1 DEF Rounded
<1>3. QED
  BY <1>2

\* A rate of at most a half leaves its fee within the amount.
LEMMA ShareBounds ==
    ASSUME NEW s \in Nat \ {0}, NEW r \in 0..5000
    PROVE  s * r \in Int /\ 0 <= s * r /\ s * r <= 5000 * s
OBVIOUS

\* So does the fee once it is rounded.
LEMMA FeeBounds ==
    ASSUME NEW s \in Nat \ {0}, NEW n \in Int, 0 <= n, n <= 5000 * s, NEW q \in Rounded(n, 10000)
    PROVE  q \in Int /\ 0 <= q /\ q <= s
<1>1. q \in Int /\ 2 * (n - q * 10000) <= 10000 /\ 2 * (q * 10000 - n) <= 10000
  BY RoundedBounds
<1>2. 0 <= q
  BY <1>1
<1>3. q <= s
  BY <1>1
<1>4. QED
  BY <1>1, <1>2, <1>3

\* The amounts that calculateRefund rounds: the half of what was paid, and all of
\* it but a tenth of the subtotal.
LEMMA RefundParts ==
    ASSUME NEW s \in Nat \ {0}, NEW g \in Nat, NEW S,
           S = Rounded(s + g, 2) \/ S = Rounded(10 * (s + g) - s, 10)
    PROVE  S # {} /\ \A x \in S : x \in Nat /\ x <= s + g
<1>1. PICK t \in Nat \ {0} : t = s + g /\ s <= t
  OBVIOUS
<1>2. CASE S = Rounded(s + g, 2)
  <2>1. S = Rounded(t, 2)
    BY <1>1, <1>2
  <2>2. \A x \in S : x \in Int /\ 2 * (t - x * 2) <= 2 /\ 2 * (x * 2 - t) <= 2
    BY <2>1, RoundedBounds
  <2>3. \A x \in S : x \in Nat /\ x <= t
    BY <2>2
  <2>4. QED
    BY <1>1, <2>1, <2>3, RoundedToHalf
<1>3. CASE S = Rounded(10 * (s + g) - s, 10)
  <2>1. PICK n \in Nat : n = 10 * t - s
    BY <1>1
  <2>2. S = Rounded(n, 10)
    BY <1>1, <1>3, <2>1
  <2>3. \A x \in S : x \in Int /\ 2 * (n - x * 10) <= 10 /\ 2 * (x * 10 - n) <= 10
    BY <2>2, RoundedBounds
  <2>4. \A x \in S : x \in Nat /\ x <= t
    BY <1>1, <2>1, <2>3
  <2>5. QED
    BY <1>1, <2>2, <2>4, RoundedToTenth
<1>4. QED
  BY <1>2, <1>3

\* calculateRefund, policy by policy: the flexible one, ...
LEMMA FlexibleRefund ==
    ASSUME NEW s \in Nat \ {0}, NEW g \in Nat, NEW h \in Int
    PROVE  /\ h >= 24 => calculateRefund("FLEXIBLE", h, s, g) = {s + g}
           /\ h < 24 => calculateRefund("FLEXIBLE", h, s, g) = Rounded(10 * (s + g) - s, 10)
BY DEF calculateRefund

\* ... the moderate ...
LEMMA ModerateRefund ==
    ASSUME NEW s \in Nat \ {0}, NEW g \in Nat, NEW h \in Int
    PROVE  /\ h >= 120 => calculateRefund("MODERATE", h, s, g) = {s + g}
           /\ h >= 24 /\ h < 120 => calculateRefund("MODERATE", h, s, g) = Rounded(s + g, 2)
           /\ h < 24 => calculateRefund("MODERATE", h, s, g) = {0}
BY DEF calculateRefund

\* ... and the strict one.
LEMMA StrictRefund ==
    ASSUME NEW s \in Nat \ {0}, NEW g \in Nat, NEW h \in Int
    PROVE  /\ h >= 168 => calculateRefund("STRICT", h, s, g) = Rounded(s + g, 2)
           /\ h < 168 => calculateRefund("STRICT", h, s, g) = {0}
BY DEF calculateRefund

\* No refund exceeds what was paid.
LEMMA RefundBounds ==
    ASSUME NEW s \in Nat \ {0}, NEW g \in Nat, NEW h \in Int, NEW p \in CancellationPolicy,
           NEW x \in calculateRefund(p, h, s, g)
    PROVE  x \in Nat /\ x <= s + g
<1>1. PICK H, F : H = Rounded(s + g, 2) /\ F = Rounded(10 * (s + g) - s, 10)
  OBVIOUS
<1>2. \A y \in H \cup F : y \in Nat /\ y <= s + g
  BY <1>1, RefundParts
<1>3. calculateRefund(p, h, s, g) \in {{s + g}, H, F, {0}}
  <2>1. CASE p = "FLEXIBLE"
    BY <1>1, <2>1, FlexibleRefund
  <2>2. CASE p = "MODERATE"
    BY <1>1, <2>2, ModerateRefund
  <2>3. CASE p = "STRICT"
    BY <1>1, <2>3, StrictRefund
  <2>4. QED
    BY <2>1, <2>2, <2>3 DEF CancellationPolicy
<1>4. QED
  BY <1>2, <1>3

\* A stricter policy refunds no more, and an earlier cancellation no less.
LEMMA RefundsOrdered ==
    ASSUME NEW s \in Nat \ {0}, NEW g \in Nat, NEW h \in Int
    PROVE  /\ \A x \in calculateRefund("STRICT", h, s, g) :
                 \E y \in calculateRefund("MODERATE", h, s, g) : x <= y
           /\ \A x \in calculateRefund("MODERATE", h, s, g) :
                 \E y \in calculateRefund("FLEXIBLE", h, s, g) : x <= y
           /\ \A later \in Int, p \in CancellationPolicy : later < h =>
                 \A x \in calculateRefund(p, later, s, g) : \E y \in calculateRefund(p, h, s, g) : x <= y
<1>1. PICK H, F : H = Rounded(s + g, 2) /\ F = Rounded(10 * (s + g) - s, 10)
  OBVIOUS
<1>2. H # {} /\ F # {} /\ \A y \in H \cup F : y \in Nat /\ y <= s + g
  BY <1>1, RefundParts
<1>3. PICK t \in Nat : t = s + g
  OBVIOUS
<1>4. \A k \in Int :
          /\ calculateRefund("FLEXIBLE", k, s, g) = IF k >= 24 THEN {t} ELSE F
          /\ calculateRefund("MODERATE", k, s, g) = IF k >= 120 THEN {t} ELSE IF k >= 24 THEN H ELSE {0}
          /\ calculateRefund("STRICT", k, s, g) = IF k >= 168 THEN H ELSE {0}
  <2> SUFFICES ASSUME NEW k \in Int
               PROVE  /\ calculateRefund("FLEXIBLE", k, s, g) = IF k >= 24 THEN {t} ELSE F
                      /\ calculateRefund("MODERATE", k, s, g) =
                            IF k >= 120 THEN {t} ELSE IF k >= 24 THEN H ELSE {0}
                      /\ calculateRefund("STRICT", k, s, g) = IF k >= 168 THEN H ELSE {0}
    OBVIOUS
  <2>1. calculateRefund("FLEXIBLE", k, s, g) = IF k >= 24 THEN {t} ELSE F
    <3>1. CASE k >= 24
      BY <1>3, <3>1, FlexibleRefund
    <3>2. CASE k < 24
      BY <1>1, <3>2, FlexibleRefund
    <3>3. QED
      BY <3>1, <3>2
  <2>2. calculateRefund("MODERATE", k, s, g) = IF k >= 120 THEN {t} ELSE IF k >= 24 THEN H ELSE {0}
    BY <1>1, <1>3, ModerateRefund
  <2>3. calculateRefund("STRICT", k, s, g) = IF k >= 168 THEN H ELSE {0}
    BY <1>1, <1>3, StrictRefund
  <2>4. QED
    BY <2>1, <2>2, <2>3
<1>5. \A y \in H \cup F : y \in Nat /\ y <= t
  BY <1>2, <1>3
<1>6. \A x \in calculateRefund("STRICT", h, s, g) : \E y \in calculateRefund("MODERATE", h, s, g) : x <= y
  BY <1>2, <1>4, <1>5
<1>7. \A x \in calculateRefund("MODERATE", h, s, g) : \E y \in calculateRefund("FLEXIBLE", h, s, g) : x <= y
  BY <1>2, <1>4, <1>5
<1>8. ASSUME NEW later \in Int, later < h
      PROVE  /\ \A x \in calculateRefund("STRICT", later, s, g) : \E y \in calculateRefund("STRICT", h, s, g) : x <= y
             /\ \A x \in calculateRefund("MODERATE", later, s, g) : \E y \in calculateRefund("MODERATE", h, s, g) : x <= y
             /\ \A x \in calculateRefund("FLEXIBLE", later, s, g) : \E y \in calculateRefund("FLEXIBLE", h, s, g) : x <= y
  BY <1>2, <1>4, <1>5, <1>8
<1>9. QED
  BY <1>6, <1>7, <1>8 DEF CancellationPolicy

\* The fees of a new booking, of rates that are at most a half.
LEMMA FeesSound ==
    ASSUME NEW s \in Nat \ {0}, NEW r \in FeeRates, NEW a \in feesFromRates(s, r)
    PROVE  /\ a.subtotal = s /\ a.guestFee \in Nat /\ a.hostFee \in Nat /\ a.totalPaid = s + a.guestFee
           /\ a.payoutAmount = s - a.hostFee /\ a.hostFee <= s
<1>1. PICK g \in Rounded(s * r.guest, 10000), h \in Rounded(s * r.host, 10000) :
          a = [subtotal |-> s, guestFee |-> g, hostFee |-> h, totalPaid |-> s + g, payoutAmount |-> s - h]
  BY DEF feesFromRates
<1>2. r.guest \in 0..5000 /\ r.host \in 0..5000
  BY DEF FeeRates
<1>3. g \in Nat /\ h \in Nat /\ h <= s
  <2>1. PICK n \in Int : n = s * r.guest /\ 0 <= n /\ n <= 5000 * s
    <3>1. PICK rate \in 0..5000 : rate = r.guest
      BY <1>2
    <3>2. s * rate \in Int /\ 0 <= s * rate /\ s * rate <= 5000 * s
      BY ShareBounds
    <3>3. QED
      BY <3>1, <3>2
  <2>2. PICK m \in Int : m = s * r.host /\ 0 <= m /\ m <= 5000 * s
    <3>1. PICK rate \in 0..5000 : rate = r.host
      BY <1>2
    <3>2. s * rate \in Int /\ 0 <= s * rate /\ s * rate <= 5000 * s
      BY ShareBounds
    <3>3. QED
      BY <3>1, <3>2
  <2>3. g \in Rounded(n, 10000) /\ h \in Rounded(m, 10000)
    BY <2>1, <2>2
  <2>4. g \in Int /\ 0 <= g
    BY <2>1, <2>3, FeeBounds
  <2>5. h \in Int /\ 0 <= h /\ h <= s
    BY <2>2, <2>3, FeeBounds
  <2>6. QED
    BY <2>4, <2>5
<1>4. QED
  BY <1>1, <1>3

\* Every step keeps the amounts sound.
LEMMA MoneyInvHolds == MoneySpec => []MoneyInv
<1>1. MoneyInit => MoneyInv
  BY DEF MoneyInit, MoneyInv, MoneyTypeOK, FeeRates
<1>2. MoneyInv /\ [MoneyNext]_moneyVars => MoneyInv'
  <2> SUFFICES ASSUME MoneyInv, [MoneyNext]_moneyVars
               PROVE  MoneyInv'
    OBVIOUS
  <2>1. ASSUME UNCHANGED <<quote, amounts, sold, payment, refund>>, MoneyTypeOK'
        PROVE  MoneyInv'
    BY <2>1 DEF MoneyInv, AmountsSound
  <2>2. CASE UNCHANGED moneyVars
    BY <2>1, <2>2 DEF moneyVars, MoneyInv, MoneyTypeOK
  <2>3. ASSUME NEW p \in Pods, NEW g \in FeePcts, NEW h \in FeePcts, updateFeeRates(p, [guest |-> g, host |-> h])
        PROVE  MoneyInv'
    <3>1. [guest |-> g, host |-> h] \in FeeRates
      BY MoneyAssumption DEF FeeRates
    <3>2. MoneyTypeOK'
      BY <2>3, <3>1 DEF updateFeeRates, MoneyInv, MoneyTypeOK
    <3>3. QED
      BY <2>1, <2>3, <3>2 DEF updateFeeRates
  <2>4. ASSUME NEW p \in Pods, CacheExpires(p) \/ getFeeRatesAsync(p)
        PROVE  MoneyInv'
    BY <2>1, <2>4 DEF CacheExpires, getFeeRatesAsync, refreshCache, MoneyInv, MoneyTypeOK
  <2>5. ASSUME NEW p \in Pods, NEW price \in Prices, NEW nights \in StayLengths, QuoteFees(p, price, nights)
        PROVE  MoneyInv'
    <3>1. PICK s \in Nat \ {0} : s = price * nights
      BY MoneyAssumption
    <3>2. PICK a \in feesFromRates(s, rates) : quote' = {a}
      BY <2>5, <3>1 DEF QuoteFees
    <3>3. /\ sold' = {rates} /\ amounts' = {} /\ refund' = {} /\ payment' = payment /\ rates \in FeeRates
      BY <2>5 DEF QuoteFees, MoneyInv, MoneyTypeOK
    <3>4. AmountsSound(a)'
      BY <3>2, <3>3, FeesSound DEF AmountsSound
    <3>5. MoneyTypeOK'
      BY <2>5 DEF QuoteFees, refreshCache, MoneyInv, MoneyTypeOK
    <3>6. QED
      BY <3>2, <3>3, <3>4, <3>5 DEF MoneyInv
  <2>6. CASE CreateWithFees
    BY <2>6 DEF CreateWithFees, MoneyInv, MoneyTypeOK, AmountsSound
  <2>7. CASE CreationFails
    BY <2>7 DEF CreationFails, MoneyInv, MoneyTypeOK, AmountsSound
  <2>8. CASE ConfirmAmounts
    <3>1. PICK a \in amounts : /\ payment' = IF checkConfirmationLedgerInvariant(a) THEN "SETTLED" ELSE "REFUSED"
                               /\ UNCHANGED <<rates, fresh, quote, amounts, sold, refund>>
      BY <2>8 DEF ConfirmAmounts
    <3>2. AmountsSound(a)
      BY DEF MoneyInv
    <3>3. checkConfirmationLedgerInvariant(a)
      BY <3>2 DEF AmountsSound, checkConfirmationLedgerInvariant
    <3>4. QED
      BY <3>1, <3>3 DEF MoneyInv, MoneyTypeOK, AmountsSound
  <2>9. ASSUME NEW policy \in CancellationPolicy, NEW hours \in HoursLeft, RefundAmount(policy, hours)
        PROVE  MoneyInv'
    <3>1. PICK a \in amounts : \E x \in calculateRefund(policy, hours, a.subtotal, a.guestFee) :
              /\ refund' = {x}
              /\ UNCHANGED <<rates, fresh, quote, amounts, sold, payment>>
      BY <2>9 DEF RefundAmount
    <3>2. PICK x \in calculateRefund(policy, hours, a.subtotal, a.guestFee) : refund' = {x}
      BY <3>1
    <3>3. AmountsSound(a) /\ hours \in Int
      BY MoneyAssumption DEF MoneyInv
    <3>4. x \in Nat /\ x <= a.totalPaid
      BY <3>3, RefundBounds DEF AmountsSound
    <3>5. QED
      BY <3>1, <3>2, <3>3, <3>4 DEF MoneyInv, MoneyTypeOK, AmountsSound
  <2>10. QED
    BY <2>2, <2>3, <2>4, <2>5, <2>6, <2>7, <2>8, <2>9 DEF MoneyNext
<1>3. QED
  BY <1>1, <1>2, PTL DEF MoneySpec

\* The fees of a booking are those of the rates in force when its creation asked
\* for them and leave the host a payout of at least 0, for all prices, nights and rates
\* that updateFeeRates admits, also if these change before the insert
\* (calculateFeesAuthoritative).
THEOREM FeesAreOfTheRatesInForce == MoneySpec => []ChargedTheRatesInForce
<1>1. MoneyInv => ChargedTheRatesInForce
  BY DEF MoneyInv, AmountsSound, ChargedTheRatesInForce
<1>2. QED
  BY <1>1, MoneyInvHolds, PTL

\* No refund exceeds what was paid, an earlier cancellation refunds no less and a
\* stricter policy no more, for all amounts and hours (calculateRefund).
THEOREM RefundsFollowPolicies == MoneySpec => []RefundPolicyOrdered
<1>1. MoneyInv => RefundPolicyOrdered
  <2> SUFFICES ASSUME MoneyInv, NEW a \in amounts, NEW h \in HoursLeft
               PROVE  LET R(policy, hours) == calculateRefund(policy, hours, a.subtotal, a.guestFee)
                          AtMost(S, T) == \A x \in S : \E y \in T : x <= y
                      IN  /\ AtMost(R("STRICT", h), R("MODERATE", h))
                          /\ AtMost(R("MODERATE", h), R("FLEXIBLE", h))
                          /\ AtMost(refund \cup R("FLEXIBLE", h), {a.totalPaid})
                          /\ \A later \in {x \in HoursLeft : x < h} : \A p \in CancellationPolicy :
                                AtMost(R(p, later), R(p, h))
    BY DEF RefundPolicyOrdered
  <2>1. PICK s \in Nat \ {0}, g \in Nat : s = a.subtotal /\ g = a.guestFee
    BY DEF MoneyInv, AmountsSound
  <2>2. HoursLeft \subseteq Int /\ a.totalPaid = s + g /\ \A x \in refund : x <= a.totalPaid
    BY <2>1, MoneyAssumption DEF MoneyInv, AmountsSound
  <2>3. /\ \A x \in calculateRefund("STRICT", h, s, g) :
              \E y \in calculateRefund("MODERATE", h, s, g) : x <= y
        /\ \A x \in calculateRefund("MODERATE", h, s, g) :
              \E y \in calculateRefund("FLEXIBLE", h, s, g) : x <= y
        /\ \A later \in Int, p \in CancellationPolicy : later < h =>
              \A x \in calculateRefund(p, later, s, g) : \E y \in calculateRefund(p, h, s, g) : x <= y
    BY <2>2, RefundsOrdered
  <2>4. \A x \in calculateRefund("FLEXIBLE", h, s, g) : x <= s + g
    BY <2>2, RefundBounds DEF CancellationPolicy
  <2>5. QED
    BY <2>1, <2>2, <2>3, <2>4
<1>2. QED
  BY <1>1, MoneyInvHolds, PTL

----------------------------------------------------------------------------
(* Reviews *)

\* The totals of no reviews.
LEMMA TotalsOfNone == recalculateForListing([b \in Stays |-> {}]) = NoTotals
<1>1. Published([b \in Stays |-> {}]) = {}
  BY DEF Published
<1>2. Cardinality({}) = 0
  BY FS_EmptySet
<1>3. MapThenSumSet(LAMBDA b : RatingOf([c \in Stays |-> {}], b), {}) = 0
  BY DEF MapThenSumSet, MapThenFoldSet
<1>4. \A s \in 1..5 : Cardinality({b \in {} : ratingBucket(RatingOf([c \in Stays |-> {}], b)) = s}) = 0
  <2>1. \A s \in 1..5 : {b \in {} : ratingBucket(RatingOf([c \in Stays |-> {}], b)) = s} = {}
    OBVIOUS
  <2>2. QED
    BY <1>2, <2>1
<1>5. QED
  BY <1>1, <1>2, <1>3, <1>4 DEF recalculateForListing, NoTotals

\* The step of one transaction that commits nothing; the others follow.
LEMMA TxStep ==
    ASSUME ReviewsInv, NEW h \in ReviewTxs, NEW n \in SUBSET TxRecords, \A x \in n : TxSound(h, x)',
           reviewTx[h] # {}, reviewTx' = [reviewTx EXCEPT ![h] = n], UNCHANGED <<reviews, totals, quiet>>
    PROVE  ReviewsInv'
<1>1. /\ reviewTx \in [ReviewTxs -> SUBSET TxRecords] /\ reviewTx' \in [ReviewTxs -> SUBSET TxRecords]
      /\ \A g \in ReviewTxs : reviewTx'[g] = IF g = h THEN n ELSE reviewTx[g]
  BY DEF ReviewsInv
<1>2. \A g \in ReviewTxs : \A x \in reviewTx'[g] : TxSound(g, x)'
  <2> SUFFICES ASSUME NEW g \in ReviewTxs, g # h, NEW x \in reviewTx[g]
               PROVE  TxSound(g, x)'
    BY <1>1
  <2>1. TxSound(g, x) /\ h \in ReviewTxs \ {g}
    BY DEF ReviewsInv
  <2>2. ~x.alone
    BY <2>1 DEF TxSound
  <2>3. QED
    BY <2>2 DEF TxSound
<1>3. QED
  BY <1>1, <1>2 DEF ReviewsInv

\* A transaction begins: the others are not alone any more.
LEMMA BeginKeepsTotals ==
    ASSUME ReviewsInv, NEW h \in ReviewTxs, NEW x \in TxRecords, x.pc # "commit", Begin(h, x)
    PROVE  ReviewsInv'
<1>1. reviewTx \in [ReviewTxs -> SUBSET TxRecords] /\ UNCHANGED <<reviews, totals, quiet>>
  BY DEF ReviewsInv, Begin
<1>2. PICK b \in BOOLEAN : b = (InFlight = {})
  OBVIOUS
<1>3. PICK y : y = [x EXCEPT !.alone = b]
  OBVIOUS
<1>4. y \in TxRecords /\ y.alone = b /\ y.pc = x.pc
  BY <1>3 DEF TxRecords
<1>5. reviewTx' = [g \in ReviewTxs |-> IF g = h THEN {y} ELSE {[z EXCEPT !.alone = FALSE] : z \in reviewTx[g]}]
  BY <1>2, <1>3 DEF Begin
<1>6. ASSUME NEW g \in ReviewTxs, g # h
      PROVE  /\ \A z \in reviewTx'[g] : z \in TxRecords /\ ~z.alone
             /\ reviewTx[g] = {} => reviewTx'[g] = {}
  <2>1. reviewTx'[g] = {[z EXCEPT !.alone = FALSE] : z \in reviewTx[g]}
    BY <1>5, <1>6
  <2>2. ASSUME NEW z \in reviewTx[g]
        PROVE  [z EXCEPT !.alone = FALSE] \in TxRecords /\ ~[z EXCEPT !.alone = FALSE].alone
    <3>1. z \in TxRecords
      BY <1>1
    <3>2. PICK w : w = [z EXCEPT !.alone = FALSE]
      OBVIOUS
    <3>3. w \in TxRecords /\ w.alone = FALSE
      BY <3>1, <3>2 DEF TxRecords
    <3>4. QED
      BY <3>2, <3>3
  <2>3. QED
    BY <2>1, <2>2
<1>7. reviewTx'[h] = {y}
  BY <1>5
<1>8. \A g \in ReviewTxs : reviewTx'[g] \in SUBSET TxRecords
  BY <1>4, <1>6, <1>7
<1>9. reviewTx' \in [ReviewTxs -> SUBSET TxRecords]
  BY <1>5, <1>8
<1>10. TxSound(h, y)'
  BY <1>2, <1>4, <1>6 DEF TxSound, InFlight
<1>11. \A g \in ReviewTxs : \A z \in reviewTx'[g] : TxSound(g, z)'
  BY <1>6, <1>7, <1>10 DEF TxSound
<1>12. QED
  BY <1>1, <1>9, <1>11 DEF ReviewsInv

\* A new record of a transaction.
LEMMA TxIsRecord ==
    ASSUME NEW kind \in {"create", "edit", "moderate"}, NEW b \in Stays, NEW row \in ReviewRow,
           NEW pc \in {"insert", "saveReads"}
    PROVE  Tx(kind, b, row, pc) \in TxRecords /\ Tx(kind, b, row, pc).pc = pc
BY DEF Tx, TxRecords

\* The three reads that begin a transaction.
LEMMA ReviewReadsKeep ==
    ASSUME ReviewsInv, NEW h \in ReviewTxs, NEW b \in Stays,
           \/ \E n \in Stars : CreateReads(h, b, n) \/ EditReads(h, b, n)
           \/ \E s \in {"PUBLISHED", "HIDDEN", "REMOVED"} : adminSetReviewStatus(h, b, s)
    PROVE  ReviewsInv'
<1>1. Stars \subseteq 1..10 /\ \A r \in reviews[b] : r \in ReviewRow
  BY ReviewsAssumption DEF ReviewsInv, OneReview
<1>2. ASSUME NEW n \in Stars, CreateReads(h, b, n)
      PROVE  ReviewsInv'
  <2>1. [rating |-> n, status |-> "PUBLISHED"] \in ReviewRow
    BY <1>1 DEF ReviewRow
  <2>2. PICK t : t = Tx("create", b, [rating |-> n, status |-> "PUBLISHED"], "insert")
    OBVIOUS
  <2>3. t \in TxRecords /\ t.pc = "insert"
    BY <2>1, <2>2, TxIsRecord
  <2>4. PICK c \in BOOLEAN : c = (stay[b] # "COMPLETED")
    OBVIOUS
  <2>5. PICK x : x = [t EXCEPT !.completes = c]
    OBVIOUS
  <2>6. x \in TxRecords /\ x.pc = "insert"
    BY <2>3, <2>5 DEF TxRecords
  <2>7. Begin(h, x)
    BY <1>2, <2>2, <2>4, <2>5 DEF CreateReads
  <2>8. QED
    BY <2>6, <2>7, BeginKeepsTotals
<1>3. ASSUME NEW n \in Stars, EditReads(h, b, n)
      PROVE  ReviewsInv'
  <2>1. PICK r \in reviews[b] : Begin(h, Tx("edit", b, [r EXCEPT !.rating = n], "saveReads"))
    BY <1>3 DEF EditReads
  <2>2. PICK row \in ReviewRow : row = [r EXCEPT !.rating = n]
    BY <1>1 DEF ReviewRow
  <2>3. Tx("edit", b, row, "saveReads") \in TxRecords /\ Tx("edit", b, row, "saveReads").pc = "saveReads"
    BY TxIsRecord
  <2>4. QED
    BY <2>1, <2>2, <2>3, BeginKeepsTotals
<1>4. ASSUME NEW s \in {"PUBLISHED", "HIDDEN", "REMOVED"}, adminSetReviewStatus(h, b, s)
      PROVE  ReviewsInv'
  <2>1. PICK r \in reviews[b] : Begin(h, Tx("moderate", b, [r EXCEPT !.status = s], "saveReads"))
    BY <1>4 DEF adminSetReviewStatus
  <2>2. PICK row \in ReviewRow : row = [r EXCEPT !.status = s]
    BY <1>1 DEF ReviewRow
  <2>3. Tx("moderate", b, row, "saveReads") \in TxRecords /\ Tx("moderate", b, row, "saveReads").pc = "saveReads"
    BY TxIsRecord
  <2>4. QED
    BY <2>1, <2>2, <2>3, BeginKeepsTotals
<1>5. QED
  BY <1>2, <1>3, <1>4

\* A transaction's own next record, while the tables stay.
LEMMA OwnRecord ==
    ASSUME ReviewsInv, NEW h \in ReviewTxs, NEW x \in reviewTx[h], NEW y \in TxRecords,
           y.alone = x.alone, y.pc # "commit", reviewTx' = [reviewTx EXCEPT ![h] = {y}],
           UNCHANGED <<reviews, totals, quiet>>
    PROVE  ReviewsInv'
<1>1. TxSound(h, x) /\ {y} \in SUBSET TxRecords /\ reviewTx \in [ReviewTxs -> SUBSET TxRecords]
  BY DEF ReviewsInv
<1>2. TxSound(h, y)'
  BY <1>1 DEF TxSound
<1>3. QED
  BY <1>1, <1>2, TxStep

\* The insert, and the two statements of a save.
LEMMA ReviewWritesKeep ==
    ASSUME ReviewsInv, NEW h \in ReviewTxs,
           CreateInserts(h) \/ ReviewSaveReads(h) \/ ReviewSaveUpdates(h) \/ RollBackReview(h)
    PROVE  ReviewsInv'
<1>1. /\ UNCHANGED <<reviews, totals, quiet>> /\ reviewTx \in [ReviewTxs -> SUBSET TxRecords]
      /\ reviews \in [Stays -> OneReview] /\ {} \in SUBSET TxRecords
  BY DEF ReviewsInv, CreateInserts, ReviewSaveReads, ReviewSaveUpdates, RollBackReview
<1>2. ASSUME reviewTx[h] # {}, reviewTx' = [reviewTx EXCEPT ![h] = {}]
      PROVE  ReviewsInv'
  BY <1>1, <1>2, TxStep
<1>3. CASE CreateInserts(h)
  <2>1. PICK x \in reviewTx[h] :
            reviewTx' = [reviewTx EXCEPT ![h] = IF reviews[x.booking] = {} THEN {[x EXCEPT !.pc = "recalculate"]} ELSE {}]
    BY <1>3 DEF CreateInserts
  <2>2. PICK y : y = [x EXCEPT !.pc = "recalculate"]
    OBVIOUS
  <2>3. y \in TxRecords /\ y.pc = "recalculate" /\ y.alone = x.alone
    BY <1>1, <2>2 DEF TxRecords
  <2>4. CASE reviews[x.booking] = {}
    BY <1>1, <2>1, <2>2, <2>3, <2>4, OwnRecord
  <2>5. CASE reviews[x.booking] # {}
    BY <1>2, <2>1, <2>5
  <2>6. QED
    BY <2>4, <2>5
<1>4. CASE ReviewSaveReads(h)
  <2>1. PICK x \in reviewTx[h] : \E r \in reviews[x.booking] :
            reviewTx' = [reviewTx EXCEPT ![h] = {[x EXCEPT !.cols = Changed(x.row, r), !.pc = "saveUpdates"]}]
    BY <1>4 DEF ReviewSaveReads
  <2>2. PICK r \in reviews[x.booking] :
            reviewTx' = [reviewTx EXCEPT ![h] = {[x EXCEPT !.cols = Changed(x.row, r), !.pc = "saveUpdates"]}]
    BY <2>1
  <2>3. x \in TxRecords /\ x.booking \in Stays
    BY <1>1 DEF TxRecords
  <2>4. r \in ReviewRow
    BY <1>1, <2>3 DEF OneReview
  <2>5. PICK cols \in SUBSET {"rating", "status"} : cols = Changed(x.row, r)
    BY <2>4 DEF Changed, ReviewRow
  <2>6. PICK y : y = [x EXCEPT !.cols = cols, !.pc = "saveUpdates"]
    OBVIOUS
  <2>7. y \in TxRecords /\ y.pc = "saveUpdates" /\ y.alone = x.alone
    BY <2>3, <2>6 DEF TxRecords
  <2>8. QED
    BY <1>1, <2>2, <2>5, <2>6, <2>7, OwnRecord
<1>5. CASE ReviewSaveUpdates(h)
  <2>1. PICK x \in reviewTx[h] : \E r \in reviews[x.booking] :
            reviewTx' = [reviewTx EXCEPT ![h] = {[x EXCEPT !.row = Updated(x.row, x.cols, r), !.pc = "recalculate"]}]
    BY <1>5 DEF ReviewSaveUpdates
  <2>2. PICK r \in reviews[x.booking] :
            reviewTx' = [reviewTx EXCEPT ![h] = {[x EXCEPT !.row = Updated(x.row, x.cols, r), !.pc = "recalculate"]}]
    BY <2>1
  <2>3. x \in TxRecords /\ x.booking \in Stays /\ x.row \in ReviewRow
    BY <1>1 DEF TxRecords
  <2>4. r \in ReviewRow
    BY <1>1, <2>3 DEF OneReview
  <2>5. PICK row \in ReviewRow : row = Updated(x.row, x.cols, r)
    <3>1. DOMAIN r = {"rating", "status"}
      BY <2>4 DEF ReviewRow
    <3>2. Updated(x.row, x.cols, r) \in ReviewRow
      BY <2>3, <2>4, <3>1 DEF Updated, ReviewRow
    <3>3. QED
      BY <3>2
  <2>6. PICK y : y = [x EXCEPT !.row = row, !.pc = "recalculate"]
    OBVIOUS
  <2>7. y \in TxRecords /\ y.pc = "recalculate" /\ y.alone = x.alone
    BY <2>3, <2>6 DEF TxRecords
  <2>8. QED
    BY <1>1, <2>2, <2>5, <2>6, <2>7, OwnRecord
<1>6. CASE RollBackReview(h)
  BY <1>2, <1>6 DEF RollBackReview
<1>7. QED
  BY <1>3, <1>4, <1>5, <1>6

\* The totals are read: those of the rows as the transaction will leave them.
LEMMA ReadTotalsKeeps ==
    ASSUME ReviewsInv, NEW h \in ReviewTxs, ReadTotals(h)
    PROVE  ReviewsInv'
<1>1. PICK x \in reviewTx[h] :
          reviewTx' = [reviewTx EXCEPT ![h] = {[x EXCEPT !.pc = "commit",
               !.totals = recalculateForListing([reviews EXCEPT ![x.booking] = {x.row}])]}]
  BY DEF ReadTotals
<1>2. /\ x \in TxRecords /\ TxSound(h, x) /\ UNCHANGED <<reviews, totals, quiet>>
      /\ reviews \in [Stays -> OneReview] /\ reviewTx \in [ReviewTxs -> SUBSET TxRecords]
  BY DEF ReviewsInv, ReadTotals
<1>3. x.booking \in Stays /\ x.row \in ReviewRow
  BY <1>2 DEF TxRecords
<1>4. [reviews EXCEPT ![x.booking] = {x.row}] \in [Stays -> OneReview]
  BY <1>2, <1>3 DEF OneReview
<1>5. PICK t \in {NoTotals} \cup {recalculateForListing(rows) : rows \in [Stays -> OneReview]} :
          t = recalculateForListing([reviews EXCEPT ![x.booking] = {x.row}])
  BY <1>4
<1>6. PICK y : y = [x EXCEPT !.pc = "commit", !.totals = t]
  OBVIOUS
<1>7. /\ y \in TxRecords /\ y.pc = "commit" /\ y.totals = t /\ y.alone = x.alone /\ y.booking = x.booking
      /\ y.row = x.row
  BY <1>2, <1>6 DEF TxRecords
<1>8. reviewTx' = [reviewTx EXCEPT ![h] = {y}] /\ {y} \in SUBSET TxRecords
  BY <1>1, <1>5, <1>6, <1>7
<1>9. TxSound(h, y)'
  BY <1>2, <1>5, <1>7, <1>8 DEF TxSound
<1>10. QED
  BY <1>2, <1>8, <1>9, TxStep

\* The commit: a transaction that was alone leaves the totals of the rows.
LEMMA CommitReviewKeeps ==
    ASSUME ReviewsInv, NEW h \in ReviewTxs, CommitReview(h)
    PROVE  ReviewsInv'
<1>1. PICK x \in reviewTx[h] :
          /\ x.pc = "commit" /\ reviews' = [reviews EXCEPT ![x.booking] = {x.row}]
          /\ totals' = x.totals /\ quiet' = x.alone /\ reviewTx' = [reviewTx EXCEPT ![h] = {}]
  BY DEF CommitReview
<1>2. /\ x \in TxRecords /\ TxSound(h, x) /\ reviews \in [Stays -> OneReview]
      /\ reviewTx \in [ReviewTxs -> SUBSET TxRecords]
  BY DEF ReviewsInv
<1>3. x.booking \in Stays /\ x.row \in ReviewRow
  BY <1>2 DEF TxRecords
<1>4. reviews' \in [Stays -> OneReview]
  BY <1>1, <1>2, <1>3 DEF OneReview
<1>5. reviewTx' \in [ReviewTxs -> SUBSET TxRecords]
  BY <1>1, <1>2
<1>6. \A g \in ReviewTxs : \A z \in reviewTx'[g] : TxSound(g, z)'
  <2> SUFFICES ASSUME NEW g \in ReviewTxs, g # h, NEW z \in reviewTx[g]
               PROVE  TxSound(g, z)'
    BY <1>1, <1>2
  <2>1. TxSound(g, z) /\ h \in ReviewTxs \ {g} /\ reviewTx[h] # {}
    BY <1>1 DEF ReviewsInv
  <2>2. ~z.alone
    BY <2>1 DEF TxSound
  <2>3. QED
    BY <2>2 DEF TxSound
<1>7. quiet' => totals' = recalculateForListing(reviews')
  BY <1>1, <1>2 DEF TxSound
<1>8. QED
  BY <1>4, <1>5, <1>6, <1>7 DEF ReviewsInv

\* The invariant of the reviews, initially and after every step.
LEMMA ReviewsInvHolds == ReviewsSpec => []ReviewsInv
<1>1. ReviewsInit => ReviewsInv
  BY TotalsOfNone DEF ReviewsInit, ReviewsInv, OneReview
<1>2. ReviewsInv /\ [ReviewsNext]_reviewVars => ReviewsInv'
  <2> SUFFICES ASSUME ReviewsInv, [ReviewsNext]_reviewVars
               PROVE  ReviewsInv'
    OBVIOUS
  <2>1. CASE UNCHANGED <<reviews, totals, reviewTx, quiet>>
    BY <2>1 DEF ReviewsInv, TxSound
  <2>2. CASE UNCHANGED reviewVars
    BY <2>1, <2>2 DEF reviewVars
  <2>3. ASSUME NEW b \in Stays, NEW s \in {"COMPLETED", "CANCELLED"}, StayMoves(b, s)
        PROVE  ReviewsInv'
    BY <2>1, <2>3 DEF StayMoves
  <2>4. CASE ReviewsNext
    BY <2>3, <2>4, ReviewReadsKeep, ReviewWritesKeep, ReadTotalsKeeps, CommitReviewKeeps DEF ReviewsNext
  <2>5. QED
    BY <2>2, <2>4
<1>3. QED
  BY <1>1, <1>2, PTL DEF ReviewsSpec

\* Whatever counts were lost while transactions ran side by side, one that ran
\* alone leaves the exact totals of the published reviews
\* (ReviewAggregateService.recalculateForListing).
THEOREM ReviewTotalsHeal == ReviewsSpec => []TotalsHeal
<1>1. ReviewsInv => TotalsHeal
  <2> SUFFICES ASSUME ReviewsInv, quiet
               PROVE  LET P == Published(reviews)
                      IN  /\ totals.count = Cardinality(P)
                          /\ totals.sum = MapThenSumSet(LAMBDA b : RatingOf(reviews, b), P)
                          /\ \A s \in 1..5 : totals.bucket[s]
                                 = Cardinality({b \in P : RatingOf(reviews, b) \in {2 * s - 1, 2 * s}})
    BY DEF TotalsHeal
  <2> DEFINE P == Published(reviews)
  <2>1. totals = [count |-> Cardinality(P), sum |-> MapThenSumSet(LAMBDA b : RatingOf(reviews, b), P),
                  bucket |-> [s \in 1..5 |-> Cardinality({b \in P : ratingBucket(RatingOf(reviews, b)) = s})]]
    BY DEF ReviewsInv, recalculateForListing
  <2>2. ASSUME NEW b \in P
        PROVE  RatingOf(reviews, b) \in 1..10
    <3>1. PICK r \in reviews[b] : r.status = "PUBLISHED"
      BY DEF Published
    <3>2. r \in ReviewRow
      BY DEF ReviewsInv, Published, OneReview
    <3>3. \E n \in 1..10 : \E q \in reviews[b] : q.rating = n
      BY <3>2 DEF ReviewRow
    <3>4. QED
      BY <3>3 DEF RatingOf
  <2>3. \A n \in 1..10, s \in 1..5 : ratingBucket(n) = s <=> n \in {2 * s - 1, 2 * s}
    BY DEF ratingBucket
  <2>4. \A s \in 1..5 : {b \in P : ratingBucket(RatingOf(reviews, b)) = s}
                        = {b \in P : RatingOf(reviews, b) \in {2 * s - 1, 2 * s}}
    BY <2>2, <2>3
  <2>5. totals.count = Cardinality(P) /\ totals.sum = MapThenSumSet(LAMBDA b : RatingOf(reviews, b), P)
    BY <2>1
  <2>6. \A s \in 1..5 : totals.bucket[s] = Cardinality({b \in P : ratingBucket(RatingOf(reviews, b)) = s})
    BY <2>1
  <2>7. QED
    BY <2>4, <2>5, <2>6
<1>2. QED
  BY <1>1, ReviewsInvHolds, PTL

----------------------------------------------------------------------------
(* The verification of an identity *)

\* Both rows of a case take the status of the verdict, whatever they held.
LEMMA Reviewed ==
    ASSUME NEW k \in [status : KycStatus, eventAt : Nat, snapshot : Nat], NEW u \in UserRow,
           NEW v \in ProviderVerdict
    PROVE  /\ StatusFor(v) \in KycStatus /\ (StatusFor(v) \in Verified => v \in Approvals)
           /\ ReviewedKyc(k, v) \in [status : KycStatus, eventAt : Nat, snapshot : Nat]
           /\ ReviewedKyc(k, v).status = StatusFor(v)
           /\ ReviewedUser(u, v) \in UserRow /\ ReviewedUser(u, v).status = StatusFor(v)
<1>1. StatusFor(v) \in KycStatus /\ (StatusFor(v) \in Verified => v \in Approvals)
  BY DEF StatusFor, mapSumsubEventToKycStatus, KycStatus, Verified, Approvals, ProviderVerdict
<1>2. PICK s \in KycStatus, b \in BOOLEAN : s = StatusFor(v) /\ b = (u.locked \/ StatusFor(v) = "VERIFIED")
  BY <1>1 DEF UserRow
<1>3. ReviewedKyc(k, v) = [k EXCEPT !.status = s] /\ ReviewedUser(u, v) = [u EXCEPT !.status = s, !.locked = b]
  BY <1>2 DEF ReviewedKyc, ReviewedUser
<1>4. QED
  BY <1>1, <1>2, <1>3 DEF UserRow

\* A step that takes no grant back keeps the requests in flight justified.
LEMMA ClerksStay ==
    ASSUME KycInv, clerk' = clerk, Granted => Granted', byAdmin => byAdmin'
    PROVE  \A c \in Clerks : \A r \in clerk'[c] : ClerkSound(r)'
BY DEF KycInv, ClerkSound

\* The provider's next verdict.
LEMMA DecidesKeeps ==
    ASSUME KycInv, NEW v \in ProviderVerdict, ProviderDecides(v)
    PROVE  KycInv'
<1>1. /\ verdicts' = Append(verdicts, v) /\ verdicts \in Seq(ProviderVerdict)
      /\ unacked' = unacked \cup {Len(verdicts) + 1} /\ unacked \subseteq DOMAIN verdicts
      /\ UNCHANGED <<kyc, user, identity, reusable, hook, dossier, clerk, byAdmin, clerkCalls>>
  BY DEF KycInv, KycTables, ProviderDecides
<1>2. /\ verdicts' \in Seq(ProviderVerdict) /\ DOMAIN verdicts = 1..Len(verdicts)
      /\ DOMAIN verdicts' = 1..(Len(verdicts) + 1) /\ Len(verdicts) \in Nat
      /\ \A i \in DOMAIN verdicts : i \in DOMAIN verdicts' /\ verdicts'[i] = verdicts[i]
  BY <1>1
<1>3. Granted => Granted'
  BY <1>1, <1>2 DEF Granted
<1>4. KycTables'
  BY <1>1, <1>2 DEF KycInv, KycTables
<1>5. HookSound'
  BY <1>1, <1>2 DEF KycInv, HookSound
<1>6. VerifiedWasGranted'
  BY <1>1, <1>3 DEF KycInv, VerifiedWasGranted, Granted
<1>7. clerkCalls' = 0 => NewestShown' /\ (kyc'.eventAt > 0 => kyc'.eventAt \in DOMAIN verdicts')
  <2>1. DOMAIN verdicts' \ unacked' \subseteq DOMAIN verdicts \ unacked
    BY <1>1, <1>2
  <2>2. QED
    BY <1>1, <1>2, <2>1 DEF KycInv, NewestShown
<1>8. QED
  BY <1>1, <1>3, <1>4, <1>5, <1>6, <1>7, ClerksStay DEF KycInv

\* Begin, failure and repetition of a delivery, and the images of an event.
LEMMA DeliveryKeeps ==
    ASSUME KycInv,
           \/ \E e \in unacked : HookBegin(e)
           \/ HookFails
           \/ \E e \in DOMAIN verdicts \ unacked : ProviderRepeats(e)
           \/ \E e \in dossier : persistSumsubDossierArtifacts(e) \/ DossierFails(e)
    PROVE  KycInv'
<1>1. /\ KycTables /\ UNCHANGED <<verdicts, clerk, byAdmin, clerkCalls, identity, reusable, user>>
      /\ Granted => Granted'
  BY DEF KycInv, HookBegin, HookFails, ProviderRepeats, persistSumsubDossierArtifacts, DossierFails, Granted
<1>2. \A c \in Clerks : \A r \in clerk'[c] : ClerkSound(r)'
  BY <1>1, ClerksStay
<1>3. \A i \in DOMAIN verdicts : i \in Nat /\ verdicts[i] \in ProviderVerdict
  BY <1>1 DEF KycTables
<1>4. ASSUME NEW e \in unacked, HookBegin(e)
      PROVE  KycInv'
  <2>1. e \in DOMAIN verdicts /\ verdicts[e] \in ProviderVerdict /\ e \in Nat
    BY <1>1, <1>3 DEF KycTables
  <2>2. PICK w : w = [event |-> e, kyc |-> ReviewedKyc(kyc, verdicts[e]), user |-> ReviewedUser(user, verdicts[e])]
    OBVIOUS
  <2>3. /\ w \in HookRecords /\ w.event = e /\ w.kyc.status = StatusFor(verdicts[e])
        /\ w.user.status = StatusFor(verdicts[e])
    BY <1>1, <2>1, <2>2, Reviewed DEF HookRecords, KycTables
  <2>4. /\ \/ hook' = {} /\ unacked' = unacked \ {e} /\ kyc.eventAt >= e
           \/ hook' = {w} /\ unacked' = unacked /\ ~(kyc.eventAt >= e)
        /\ UNCHANGED <<kyc, dossier>>
    BY <1>4, <2>2 DEF HookBegin
  <2>5. KycTables'
    BY <1>1, <2>3, <2>4 DEF KycTables
  <2>6. kyc.eventAt \in Nat
    BY <1>1 DEF KycTables
  <2>7. HookSound'
    BY <1>1, <2>1, <2>3, <2>4, <2>6 DEF HookSound
  <2>8. NewestShown => NewestShown'
    BY <1>1, <2>4, <2>6 DEF NewestShown
  <2>9. QED
    BY <1>1, <1>2, <2>4, <2>5, <2>7, <2>8 DEF KycInv, VerifiedWasGranted
<1>5. CASE HookFails
  BY <1>1, <1>2, <1>5 DEF HookFails, KycInv, KycTables, HookSound, VerifiedWasGranted, NewestShown
<1>6. ASSUME NEW e \in DOMAIN verdicts, ProviderRepeats(e)
      PROVE  KycInv'
  BY <1>1, <1>2, <1>6 DEF ProviderRepeats, KycInv, KycTables, HookSound, VerifiedWasGranted, NewestShown
<1>7. ASSUME NEW e \in dossier, persistSumsubDossierArtifacts(e)
      PROVE  KycInv'
  <2>1. e \in Nat /\ kyc \in [status : KycStatus, eventAt : Nat, snapshot : Nat]
    BY <1>1 DEF KycTables
  <2>2. /\ kyc' \in [status : KycStatus, eventAt : Nat, snapshot : Nat]
        /\ kyc'.status = kyc.status /\ kyc'.eventAt = kyc.eventAt
    BY <1>7, <2>1 DEF persistSumsubDossierArtifacts
  <2>3. KycTables'
    BY <1>1, <1>7, <2>2 DEF persistSumsubDossierArtifacts, KycTables
  <2>4. HookSound'
    BY <1>1, <1>7, <2>2 DEF persistSumsubDossierArtifacts, KycInv, HookSound
  <2>5. NewestShown => NewestShown'
    BY <1>1, <1>7, <2>2 DEF persistSumsubDossierArtifacts, NewestShown
  <2>6. VerifiedWasGranted'
    BY <1>1, <2>2 DEF KycInv, VerifiedWasGranted
  <2>7. QED
    BY <1>1, <1>2, <2>2, <2>3, <2>4, <2>5, <2>6 DEF KycInv
<1>8. ASSUME NEW e \in dossier, DossierFails(e)
      PROVE  KycInv'
  BY <1>1, <1>2, <1>8 DEF DossierFails, KycInv, KycTables, HookSound, VerifiedWasGranted, NewestShown
<1>9. QED
  BY <1>4, <1>5, <1>6, <1>7, <1>8

\* The webhook commits: both rows show its event, which the provider has sent.
LEMMA CommitKeeps ==
    ASSUME KycInv, HookCommit
    PROVE  KycInv'
<1>1. PICK w \in hook :
          /\ kyc' = [w.kyc EXCEPT !.eventAt = w.event] /\ user' = w.user
          /\ identity' = (identity \/ w.user.status = "VERIFIED")
          /\ unacked' = unacked \ {w.event} /\ dossier' = dossier \cup {w.event} /\ hook' = {}
          /\ UNCHANGED <<verdicts, reusable, clerk, byAdmin, clerkCalls>>
  BY DEF HookCommit
<1>2. KycTables /\ HookSound
  BY DEF KycInv
<1>3. /\ w \in HookRecords /\ w.event \in DOMAIN verdicts /\ w.kyc.status = StatusFor(verdicts[w.event])
      /\ w.user.status = w.kyc.status /\ verdicts[w.event] \in ProviderVerdict
      /\ clerkCalls = 0 => kyc.eventAt < w.event
  BY <1>2 DEF KycTables, HookSound
<1>4. /\ w.event \in Nat /\ w.user \in UserRow /\ w.kyc \in [status : KycStatus, eventAt : Nat, snapshot : Nat]
  BY <1>3 DEF HookRecords
<1>5. /\ kyc' \in [status : KycStatus, eventAt : Nat, snapshot : Nat] /\ kyc'.status = w.kyc.status
      /\ kyc'.eventAt = w.event
  BY <1>1, <1>4
<1>6. KycTables'
  BY <1>1, <1>2, <1>4, <1>5 DEF KycTables
<1>7. Granted => Granted'
  BY <1>1 DEF Granted
<1>8. \A c \in Clerks : \A r \in clerk'[c] : ClerkSound(r)'
  BY <1>1, <1>7, ClerksStay
<1>9. w.kyc.status \in Verified => Granted'
  BY <1>1, <1>3, <1>4, Reviewed DEF Granted
<1>10. VerifiedWasGranted'
  BY <1>1, <1>3, <1>5, <1>7, <1>9 DEF KycInv, VerifiedWasGranted, Verified, Granted
<1>11. clerkCalls' = 0 => NewestShown'
  <2> SUFFICES ASSUME clerkCalls' = 0 PROVE NewestShown'
    OBVIOUS
  <2>1. NewestShown /\ kyc.eventAt < w.event /\ kyc.eventAt \in Nat
    BY <1>1, <1>2, <1>3 DEF KycInv, KycTables
  <2>2. \A e \in DOMAIN verdicts' \ unacked' : e <= kyc'.eventAt
    <3> SUFFICES ASSUME NEW e \in DOMAIN verdicts, e \notin unacked \/ e = w.event PROVE e <= w.event
      BY <1>1, <1>5
    <3>1. e \in Nat
      BY <1>2 DEF KycTables
    <3>2. e # w.event => e <= kyc.eventAt
      BY <2>1 DEF NewestShown
    <3>3. QED
      BY <1>4, <2>1, <3>1, <3>2
  <2>3. QED
    BY <1>1, <1>3, <1>5, <2>2 DEF NewestShown
<1>12. QED
  BY <1>1, <1>3, <1>5, <1>6, <1>8, <1>10, <1>11 DEF KycInv, HookSound

\* The entities a request will save: verified only where they were, or where the
\* verdict it fetched or the admin says so.
LEMMA ClerkImages ==
    ASSUME KycInv, NEW op \in ClerkOps, NEW fetched \in ProviderVerdict
    PROVE  /\ ClerkKyc(op, kyc, fetched) \in [status : KycStatus, eventAt : Nat, snapshot : Nat]
           /\ ClerkUser(op, user, fetched) \in UserRow
           /\ ClerkKyc(op, kyc, fetched).status = "VERIFIED" =>
                op = "approve" \/ kyc.status = "VERIFIED" \/ (op = "sync" /\ fetched \in Approvals)
           /\ ClerkUser(op, user, fetched).status \in Verified =>
                user.status \in Verified \/ (op = "sync" /\ fetched \in Approvals)
<1>1. /\ kyc \in [status : KycStatus, eventAt : Nat, snapshot : Nat] /\ user \in UserRow
      /\ op \in {"token", "document", "selfie", "form", "sync", "approve", "reject"}
  BY KycAssumption DEF KycInv, KycTables
<1>2. \A s \in KycStatus :
          /\ [kyc EXCEPT !.status = s] \in [status : KycStatus, eventAt : Nat, snapshot : Nat]
          /\ [kyc EXCEPT !.status = s].status = s
          /\ [user EXCEPT !.status = s] \in UserRow /\ [user EXCEPT !.status = s].status = s
  BY <1>1 DEF UserRow
<1>3. {"PENDING", "VERIFIED", "REJECTED"} \subseteq KycStatus /\ "PENDING" \notin Verified
  BY DEF KycStatus, Verified
<1>4. CASE op \in {"document", "form"}
  <2>1. /\ ClerkKyc(op, kyc, fetched) = [kyc EXCEPT !.status = "PENDING"]
        /\ ClerkUser(op, user, fetched) = [user EXCEPT !.status = "PENDING"]
    BY <1>4 DEF ClerkKyc, ClerkUser
  <2>2. QED
    BY <1>2, <1>3, <2>1
<1>5. CASE op = "selfie"
  <2>1. /\ ClerkKyc(op, kyc, fetched) = [kyc EXCEPT !.status = IF kyc.status = "NONE" THEN "PENDING" ELSE kyc.status]
        /\ ClerkUser(op, user, fetched) = [user EXCEPT !.status = "PENDING"]
    BY <1>5 DEF ClerkKyc, ClerkUser
  <2>2. (IF kyc.status = "NONE" THEN "PENDING" ELSE kyc.status) \in KycStatus
    BY <1>1, <1>3
  <2>3. QED
    BY <1>2, <1>3, <2>1, <2>2
<1>6. CASE op = "sync"
  <2>1. /\ ClerkKyc(op, kyc, fetched) = ReviewedKyc(kyc, fetched)
        /\ ClerkUser(op, user, fetched) = ReviewedUser(user, fetched)
    BY <1>6 DEF ClerkKyc, ClerkUser
  <2>2. QED
    BY <1>1, <1>6, <2>1, Reviewed DEF Verified
<1>7. CASE op = "approve"
  <2>1. ClerkKyc(op, kyc, fetched) = [kyc EXCEPT !.status = "VERIFIED"] /\ ClerkUser(op, user, fetched) = user
    BY <1>7 DEF ClerkKyc, ClerkUser
  <2>2. QED
    BY <1>1, <1>2, <1>3, <1>7, <2>1
<1>8. CASE op = "reject"
  <2>1. ClerkKyc(op, kyc, fetched) = [kyc EXCEPT !.status = "REJECTED"] /\ ClerkUser(op, user, fetched) = user
    BY <1>8 DEF ClerkKyc, ClerkUser
  <2>2. QED
    BY <1>1, <1>2, <1>3, <2>1
<1>9. CASE op = "token"
  BY <1>1, <1>9 DEF ClerkKyc, ClerkUser
<1>10. QED
  BY <1>1, <1>4, <1>5, <1>6, <1>7, <1>8, <1>9

\* A request that goes on with a justified record, or has ended.
LEMMA ClerkGoesOn ==
    ASSUME KycInv, NEW c \in Clerks, NEW n \in SUBSET ClerkRecords, \A r \in n : ClerkSound(r)',
           clerk' = [clerk EXCEPT ![c] = n], Granted => Granted', byAdmin => byAdmin'
    PROVE  /\ clerk' \in [Clerks -> SUBSET ClerkRecords]
           /\ \A d \in Clerks : \A r \in clerk'[d] : ClerkSound(r)'
<1>1. clerk' \in [Clerks -> SUBSET ClerkRecords] /\ \A d \in Clerks : \A r \in clerk'[d] : r \in n \/ r \in clerk[d]
  BY DEF KycInv, KycTables
<1>2. \A r : ClerkSound(r) => ClerkSound(r)'
  BY DEF ClerkSound
<1>3. QED
  BY <1>1, <1>2 DEF KycInv

\* A request reads both rows; a sync has fetched one of the provider's verdicts.
LEMMA ReadsKeeps ==
    ASSUME KycInv, NEW c \in Clerks, NEW op \in ClerkOps, ClerkReads(c, op)
    PROVE  KycInv'
<1>1. PICK fetched \in (IF op = "sync" THEN Range(verdicts) ELSE {"WAITING"}) :
          clerk' = [clerk EXCEPT ![c] = {[op |-> op, left |-> SaveOrder(op),
                        kyc |-> ClerkKyc(op, kyc, fetched), user |-> ClerkUser(op, user, fetched)]}]
  BY DEF ClerkReads
<1>2. /\ clerkCalls' = clerkCalls + 1 /\ clerkCalls \in Nat /\ KycTables
      /\ UNCHANGED <<verdicts, unacked, kyc, user, identity, reusable, hook, dossier, byAdmin>>
  BY DEF ClerkReads, KycInv, KycTables
<1>3. fetched \in ProviderVerdict /\ (op = "sync" /\ fetched \in Approvals => Granted)
  BY <1>1, <1>2 DEF Range, KycTables, Granted, ProviderVerdict
<1>4. Granted' = Granted
  BY <1>2 DEF Granted
<1>5. PICK r : r = [op |-> op, left |-> SaveOrder(op),
                    kyc |-> ClerkKyc(op, kyc, fetched), user |-> ClerkUser(op, user, fetched)]
  OBVIOUS
<1>6. /\ r \in ClerkRecords /\ r.op = op /\ r.left = SaveOrder(op)
      /\ r.kyc = ClerkKyc(op, kyc, fetched) /\ r.user = ClerkUser(op, user, fetched)
  BY <1>3, <1>5, ClerkImages DEF ClerkRecords, SaveOrder
<1>7. (kyc.status = "VERIFIED" \/ user.status \in Verified) => Granted
  BY DEF KycInv, VerifiedWasGranted, Granted
<1>8. ClerkSound(r)'
  BY <1>3, <1>4, <1>6, <1>7, ClerkImages DEF ClerkSound, SaveOrder
<1>9. clerk' = [clerk EXCEPT ![c] = {r}] /\ {r} \in SUBSET ClerkRecords
  BY <1>1, <1>5, <1>6
<1>10. /\ clerk' \in [Clerks -> SUBSET ClerkRecords]
       /\ \A d \in Clerks : \A q \in clerk'[d] : ClerkSound(q)'
  BY <1>2, <1>4, <1>8, <1>9, ClerkGoesOn
<1>11. clerkCalls' # 0
  BY <1>2
<1>12. KycTables' /\ HookSound' /\ VerifiedWasGranted'
  BY <1>2, <1>10, <1>11 DEF KycInv, KycTables, HookSound, VerifiedWasGranted
<1>13. QED
  BY <1>10, <1>11, <1>12 DEF KycInv

\* What a request may still have to read and save.
SaveLists ==
    {<<"case", "kyc", "user">>, <<"kyc", "user">>, <<"user", "kyc">>, <<"kyc">>, <<"user">>}

\* What is left once the first entity is saved.
LEMMA LeftAfterSave ==
    ASSUME NEW left \in SaveLists
    PROVE  /\ Head(left) = "kyc" => \/ left = <<"kyc", "user">> /\ Tail(left) = <<"user">>
                                    \/ left = <<"kyc">> /\ Tail(left) = <<>>
           /\ Head(left) = "user" => \/ left = <<"user", "kyc">> /\ Tail(left) = <<"kyc">>
                                     \/ left = <<"user">> /\ Tail(left) = <<>>
           /\ Head(left) = "case" => left = <<"case", "kyc", "user">>
<1>1. "kyc" # "user" /\ "case" # "kyc" /\ "case" # "user"
  OBVIOUS
<1>2. /\ Head(<<"kyc", "user">>) = "kyc" /\ Tail(<<"kyc", "user">>) = <<"user">>
      /\ Head(<<"user", "kyc">>) = "user" /\ Tail(<<"user", "kyc">>) = <<"kyc">>
  OBVIOUS
<1>3. /\ Head(<<"kyc">>) = "kyc" /\ Tail(<<"kyc">>) = <<>>
      /\ Head(<<"user">>) = "user" /\ Tail(<<"user">>) = <<>>
  OBVIOUS
<1>4. Head(<<"case", "kyc", "user">>) = "case"
  OBVIOUS
<1>5. QED
  BY <1>1, <1>2, <1>3, <1>4, Zenon DEF SaveLists

\* The record of a token after the case was read.
LEMMA Minted ==
    ASSUME KycInv, NEW r \in ClerkRecords
    PROVE  /\ MintedToken(r) \in ClerkRecords /\ MintedToken(r).op = r.op /\ MintedToken(r).left = <<"kyc", "user">>
           /\ MintedToken(r).kyc.status \in {kyc.status, "PENDING"}
           /\ MintedToken(r).user.status \in {r.user.status, "PENDING"}
<1>1. kyc \in [status : KycStatus, eventAt : Nat, snapshot : Nat] /\ r.user \in UserRow
  BY DEF KycInv, KycTables, ClerkRecords
<1>2. PICK s \in KycStatus : s = IF kyc.status = "NONE" THEN "PENDING" ELSE kyc.status
  BY <1>1 DEF KycStatus
<1>3. PICK row : row = [kyc EXCEPT !.status = s]
  OBVIOUS
<1>4. row \in [status : KycStatus, eventAt : Nat, snapshot : Nat] /\ row.status = s
  BY <1>1, <1>3
<1>5. PICK u \in KycStatus : u = IF {r.user.status, s} \cap Verified = {} THEN "PENDING" ELSE r.user.status
  BY <1>1 DEF KycStatus, UserRow
<1>6. PICK w : w = [r.user EXCEPT !.status = u]
  OBVIOUS
<1>7. w \in UserRow /\ w.status = u
  BY <1>1, <1>6 DEF UserRow
<1>8. MintedToken(r) = [r EXCEPT !.left = <<"kyc", "user">>, !.kyc = row, !.user = w]
  BY <1>2, <1>3, <1>4, <1>5, <1>6 DEF MintedToken, ClerkRecords
<1>9. QED
  BY <1>2, <1>4, <1>5, <1>7, <1>8 DEF ClerkRecords

\* A token reads the case; what it will save was granted where the case was.
LEMMA TokenReadsKeeps ==
    ASSUME KycInv, NEW c \in Clerks, TokenReads(c)
    PROVE  KycInv'
<1>1. PICK r \in clerk[c] :
          /\ Head(r.left) = "case" /\ clerk' = [clerk EXCEPT ![c] = {MintedToken(r)}]
          /\ UNCHANGED <<verdicts, unacked, kyc, user, identity, reusable, hook, dossier, byAdmin, clerkCalls>>
  BY DEF TokenReads
<1>2. r \in ClerkRecords /\ ClerkSound(r) /\ KycTables /\ clerkCalls # 0 /\ r.left \in SaveLists
  BY DEF KycInv, KycTables, ClerkRecords, SaveLists
<1>3. PICK q : q = MintedToken(r)
  OBVIOUS
<1>4. /\ q \in ClerkRecords /\ q.op = r.op /\ q.left = <<"kyc", "user">>
      /\ q.kyc.status \in {kyc.status, "PENDING"} /\ q.user.status \in {r.user.status, "PENDING"}
  BY <1>2, <1>3, Minted
<1>5. Granted' = Granted /\ byAdmin' = byAdmin
  BY <1>1 DEF Granted
<1>6. kyc.status = "VERIFIED" => Granted
  BY DEF KycInv, VerifiedWasGranted, Granted
<1>7. ClerkSound(q)'
  BY <1>2, <1>4, <1>5, <1>6 DEF ClerkSound, Verified
<1>8. /\ clerk' \in [Clerks -> SUBSET ClerkRecords]
      /\ \A d \in Clerks : \A z \in clerk'[d] : ClerkSound(z)'
  <2>1. PICK n \in SUBSET ClerkRecords : n = {q}
    BY <1>4
  <2>2. clerk' = [clerk EXCEPT ![c] = n] /\ \A z \in n : ClerkSound(z)'
    BY <1>1, <1>3, <1>7, <2>1
  <2>3. QED
    BY <1>5, <2>2, ClerkGoesOn
<1>9. KycTables' /\ HookSound' /\ VerifiedWasGranted'
  BY <1>1, <1>2, <1>8 DEF KycInv, KycTables, HookSound, VerifiedWasGranted
<1>10. QED
  BY <1>1, <1>2, <1>8, <1>9 DEF KycInv

\* The case is saved, from the image of the request.
LEMMA SavesKycKeeps ==
    ASSUME KycInv, NEW c \in Clerks, ClerkSavesKyc(c)
    PROVE  KycInv'
<1>1. PICK r \in clerk[c] : \E q :
          /\ q = [r EXCEPT !.left = Tail(r.left)]
          /\ Head(r.left) = "kyc" /\ kyc' = r.kyc
          /\ clerk' = [clerk EXCEPT ![c] = IF q.left = <<>> THEN {} ELSE {q}]
          /\ byAdmin' = (byAdmin \/ r.op = "approve")
          /\ UNCHANGED <<verdicts, unacked, user, identity, reusable, hook, dossier, clerkCalls>>
  BY DEF ClerkSavesKyc
<1>2. PICK q : /\ q = [r EXCEPT !.left = Tail(r.left)]
               /\ clerk' = [clerk EXCEPT ![c] = IF q.left = <<>> THEN {} ELSE {q}]
  BY <1>1
<1>3. r \in ClerkRecords /\ ClerkSound(r) /\ KycTables /\ clerkCalls # 0 /\ r.left \in SaveLists
  BY DEF KycInv, KycTables, ClerkRecords, SaveLists
<1>4. Granted => Granted'
  BY <1>1 DEF Granted
<1>5. r.op = "approve" => byAdmin' /\ Granted'
  BY <1>1 DEF Granted
<1>6. \/ r.left = <<"kyc", "user">> /\ Tail(r.left) = <<"user">>
      \/ r.left = <<"kyc">> /\ Tail(r.left) = <<>>
  BY <1>1, <1>3, LeftAfterSave
<1>7. q.left = Tail(r.left) /\ q.op = r.op /\ q.kyc = r.kyc /\ q.user = r.user
  BY <1>2, <1>3 DEF ClerkRecords
<1>8. Tail(r.left) = <<"user">> => q \in ClerkRecords
  BY <1>2, <1>3 DEF ClerkRecords
<1>9. r.kyc \in [status : KycStatus, eventAt : Nat, snapshot : Nat]
  BY <1>3 DEF ClerkRecords
<1>10. r.op = "approve" => q.left = <<"user">>
  <2>1. <<"kyc">> # <<"kyc", "user">> /\ <<"kyc">> # <<"user">>
    OBVIOUS
  <2>2. r.op = "approve" => r.left \in {<<"kyc", "user">>, <<"user">>}
    BY <1>3 DEF ClerkSound
  <2>3. QED
    BY <1>6, <1>7, <2>1, <2>2
<1>11. (r.kyc.status = "VERIFIED" => Granted') /\ (r.user.status \in Verified => Granted)
  BY <1>3, <1>4, <1>5 DEF ClerkSound
<1>12. PICK n \in SUBSET ClerkRecords : n = IF q.left = <<>> THEN {} ELSE {q}
  BY <1>6, <1>7, <1>8
<1>13. \A z \in n : ClerkSound(z)'
  BY <1>4, <1>5, <1>7, <1>10, <1>11, <1>12 DEF ClerkSound
<1>14. /\ clerk' \in [Clerks -> SUBSET ClerkRecords]
       /\ \A d \in Clerks : \A z \in clerk'[d] : ClerkSound(z)'
  BY <1>1, <1>2, <1>4, <1>12, <1>13, ClerkGoesOn
<1>15. KycTables'
  BY <1>1, <1>3, <1>9, <1>14 DEF KycTables
<1>16. HookSound'
  BY <1>1, <1>3 DEF KycInv, HookSound
<1>17. VerifiedWasGranted'
  BY <1>1, <1>4, <1>11 DEF KycInv, VerifiedWasGranted, Granted
<1>18. QED
  BY <1>1, <1>3, <1>14, <1>15, <1>16, <1>17 DEF KycInv

\* The user is saved: an admin's approval was noted when the case was saved.
LEMMA SavesUserKeeps ==
    ASSUME KycInv, NEW c \in Clerks, ClerkSavesUser(c)
    PROVE  KycInv'
<1>1. PICK r \in clerk[c] : \E shared \in BOOLEAN, rest \in {[r EXCEPT !.left = Tail(r.left)]} :
          /\ Head(r.left) = "user" /\ (shared => r.op = "approve")
          /\ user' = CASE r.op = "approve" -> [status |-> "APPROVED", locked |-> TRUE]
                       [] r.op = "reject" -> [user EXCEPT !.status = "REJECTED"]
                       [] OTHER -> r.user
          /\ identity' = (identity \/ shared \/ (r.op = "sync" /\ r.user.status = "VERIFIED"))
          /\ reusable' = (reusable \/ shared)
          /\ clerk' = [clerk EXCEPT ![c] = IF rest.left = <<>> THEN {} ELSE {rest}]
          /\ UNCHANGED <<verdicts, unacked, kyc, hook, dossier, byAdmin, clerkCalls>>
  BY DEF ClerkSavesUser, syncFromKycApproval
<1>2. PICK rest \in {[r EXCEPT !.left = Tail(r.left)]} :
          clerk' = [clerk EXCEPT ![c] = IF rest.left = <<>> THEN {} ELSE {rest}]
  BY <1>1
<1>3. r \in ClerkRecords /\ ClerkSound(r) /\ KycTables /\ clerkCalls # 0 /\ r.left \in SaveLists
  BY DEF KycInv, KycTables, ClerkRecords, SaveLists
<1>4. Granted' = Granted /\ byAdmin' = byAdmin
  BY <1>1 DEF Granted
<1>5. \/ r.left = <<"user", "kyc">> /\ Tail(r.left) = <<"kyc">>
      \/ r.left = <<"user">> /\ Tail(r.left) = <<>>
  BY <1>1, <1>3, LeftAfterSave
<1>6. <<"user", "kyc">> # <<"kyc", "user">> /\ <<"user", "kyc">> # <<"user">> /\ <<"user">> # <<"kyc", "user">>
  OBVIOUS
<1>7. r.op = "approve" => Granted /\ r.left = <<"user">>
  BY <1>3, <1>5, <1>6 DEF ClerkSound, Granted
<1>8. /\ rest.left = Tail(r.left) /\ rest.op = r.op /\ rest.kyc = r.kyc /\ rest.user = r.user
      /\ Tail(r.left) = <<"kyc">> => rest \in ClerkRecords
  BY <1>2, <1>3 DEF ClerkRecords
<1>9. PICK n \in SUBSET ClerkRecords : n = IF rest.left = <<>> THEN {} ELSE {rest}
  BY <1>5, <1>8
<1>10. \A z \in n : ClerkSound(z)'
  <2> SUFFICES ASSUME NEW z \in n PROVE ClerkSound(z)'
    OBVIOUS
  <2>1. z = rest /\ rest.left # <<>>
    BY <1>9
  <2>2. r.op # "approve"
    BY <1>5, <1>6, <1>7, <1>8, <2>1
  <2>3. QED
    BY <1>3, <1>4, <1>8, <2>1, <2>2 DEF ClerkSound
<1>11. /\ clerk' \in [Clerks -> SUBSET ClerkRecords]
       /\ \A d \in Clerks : \A z \in clerk'[d] : ClerkSound(z)'
  BY <1>2, <1>4, <1>9, <1>10, ClerkGoesOn
<1>12. user' \in UserRow /\ (user'.status \in Verified => Granted)
  <2>1. CASE r.op = "approve"
    BY <1>1, <1>7, <2>1 DEF UserRow, KycStatus
  <2>2. CASE r.op = "reject"
    <3>1. user' = [user EXCEPT !.status = "REJECTED"] /\ user \in UserRow
      BY <1>1, <1>3, <2>2 DEF KycTables
    <3>2. QED
      BY <3>1 DEF UserRow, KycStatus, Verified
  <2>3. CASE r.op \notin {"approve", "reject"}
    <3>1. user' = r.user
      BY <1>1, <2>3
    <3>2. QED
      BY <1>3, <3>1 DEF ClerkSound, ClerkRecords
  <2>4. QED
    BY <2>1, <2>2, <2>3
<1>13. identity' \in BOOLEAN /\ reusable' \in BOOLEAN
  BY <1>1
<1>14. KycTables'
  BY <1>1, <1>3, <1>11, <1>12, <1>13 DEF KycTables
<1>15. VerifiedWasGranted'
  <2>1. r.user.status = "VERIFIED" => Granted
    BY <1>3 DEF ClerkSound, Verified
  <2>2. (kyc.status = "VERIFIED" \/ identity \/ reusable) => Granted
    BY DEF KycInv, VerifiedWasGranted, Granted
  <2>3. (identity' \/ reusable') => Granted
    BY <1>1, <1>7, <2>1, <2>2
  <2>4. kyc'.status = "VERIFIED" => Granted
    BY <1>1, <2>2
  <2>5. QED
    BY <1>4, <1>12, <2>3, <2>4 DEF VerifiedWasGranted, Granted
<1>16. HookSound'
  BY <1>1 DEF KycInv, HookSound
<1>17. QED
  BY <1>1, <1>3, <1>11, <1>14, <1>15, <1>16 DEF KycInv

\* Every step keeps the invariant of the case.
LEMMA KycStepKeeps ==
    ASSUME KycInv, [KycNext]_kycVars
    PROVE  KycInv'
<1>1. CASE UNCHANGED kycVars
  <2>1. \A r : ClerkSound(r) => ClerkSound(r)'
    BY <1>1 DEF kycVars, ClerkSound, Granted
  <2>2. QED
    BY <1>1, <2>1 DEF kycVars, KycInv, KycTables, HookSound, VerifiedWasGranted, NewestShown
<1>2. ASSUME NEW c \in Clerks, ClerkFails(c)
      PROVE  KycInv'
  <2>1. /\ clerk' = [clerk EXCEPT ![c] = {}] /\ {} \in SUBSET ClerkRecords /\ clerkCalls # 0
        /\ UNCHANGED <<verdicts, unacked, kyc, user, identity, reusable, hook, dossier, byAdmin, clerkCalls>>
    BY <1>2 DEF ClerkFails, KycInv
  <2>2. Granted => Granted'
    BY <2>1 DEF Granted
  <2>3. /\ clerk' \in [Clerks -> SUBSET ClerkRecords]
        /\ \A d \in Clerks : \A z \in clerk'[d] : ClerkSound(z)'
    BY <2>1, <2>2, ClerkGoesOn
  <2>4. QED
    BY <2>1, <2>3 DEF KycInv, KycTables, HookSound, VerifiedWasGranted, NewestShown
<1>3. CASE KycNext
  BY <1>2, <1>3, DecidesKeeps, DeliveryKeeps, CommitKeeps, ReadsKeeps, TokenReadsKeeps, SavesKycKeeps,
     SavesUserKeeps DEF KycNext
<1>4. QED
  BY <1>1, <1>3

\* The invariant of the case, initially and after every step.
LEMMA KycInvHolds == KycSpec => []KycInv
<1>1. KycInit => KycInv
  <2> SUFFICES ASSUME KycInit PROVE KycInv
    OBVIOUS
  <2>1. KycTables
    <3>1. /\ [status |-> "NONE", eventAt |-> 0, snapshot |-> 0] \in [status : KycStatus, eventAt : Nat, snapshot : Nat]
          /\ [status |-> "NONE", locked |-> FALSE] \in UserRow
      BY DEF KycStatus, UserRow
    <3>2. <<>> \in Seq(ProviderVerdict)
      OBVIOUS
    <3>3. [c \in Clerks |-> {}] \in [Clerks -> SUBSET ClerkRecords]
      OBVIOUS
    <3>4. QED
      BY <3>1, <3>2, <3>3 DEF KycInit, KycTables
  <2>2. HookSound /\ VerifiedWasGranted /\ NewestShown
    BY DEF KycInit, HookSound, VerifiedWasGranted, NewestShown, Verified
  <2>3. QED
    BY <2>1, <2>2 DEF KycInit, KycInv
<1>2. KycInv /\ [KycNext]_kycVars => KycInv'
  BY KycStepKeeps
<1>3. QED
  BY <1>1, <1>2, PTL DEF KycSpec

\* Nobody counts as verified in any of the places that say so, unless the provider
\* or an admin approved them, whichever stale entity is saved last
\* (ComplianceService, AdminKycService).
THEOREM VerifiedUsersWereGranted == KycSpec => []VerifiedWasGranted
<1>1. KycInv => VerifiedWasGranted
  BY DEF KycInv
<1>2. QED
  BY <1>1, KycInvHolds, PTL

\* While only the provider writes, the newest verdict stands: no acknowledged event
\* is newer than the one that both rows show, and none takes the case back,
\* however deliveries repeat, overtake each other and fail (processSumsubWebhook).
THEOREM NewestVerdictIsShown == KycSpec => NewestVerdictStands
<1> DEFINE Newest == clerkCalls' = 0 => NewestShown' /\ kyc'.eventAt >= kyc.eventAt
<1>1. KycInv /\ KycInv' /\ [KycNext]_kycVars => [Newest]_kycVars
  <2> SUFFICES ASSUME KycInv, KycInv', KycNext, clerkCalls' = 0
               PROVE  NewestShown' /\ kyc'.eventAt >= kyc.eventAt
    OBVIOUS
  <2>1. NewestShown' /\ kyc.eventAt \in Nat
    BY DEF KycInv, KycTables
  <2>2. CASE HookCommit
    <3>1. PICK w \in hook : kyc' = [w.kyc EXCEPT !.eventAt = w.event] /\ clerkCalls' = clerkCalls
      BY <2>2 DEF HookCommit
    <3>2. /\ w.event \in Nat /\ w.kyc \in [status : KycStatus, eventAt : Nat, snapshot : Nat]
          /\ kyc.eventAt < w.event
      BY <3>1 DEF KycInv, KycTables, HookSound, HookRecords
    <3>3. kyc'.eventAt = w.event
      BY <3>1, <3>2
    <3>4. QED
      BY <2>1, <3>2, <3>3
  <2>3. ASSUME NEW e \in dossier, persistSumsubDossierArtifacts(e)
        PROVE  kyc'.eventAt = kyc.eventAt
    BY <2>3 DEF persistSumsubDossierArtifacts, KycInv, KycTables
  <2>4. ASSUME NEW c \in Clerks, ClerkSavesKyc(c)
        PROVE  FALSE
    BY <2>4 DEF ClerkSavesKyc, KycInv
  <2>5. kyc' = kyc \/ HookCommit \/ (\E e \in dossier : persistSumsubDossierArtifacts(e))
                  \/ (\E c \in Clerks : ClerkSavesKyc(c))
    BY DEF KycNext, ProviderDecides, HookBegin, HookFails, ProviderRepeats, DossierFails, ClerkReads, TokenReads,
           ClerkSavesUser, ClerkFails
  <2>6. QED
    BY <2>1, <2>2, <2>3, <2>4, <2>5
<1>2. QED
  BY <1>1, KycInvHolds, PTL DEF KycSpec, NewestVerdictStands

----------------------------------------------------------------------------
(* What the type invariants of the composed run need beyond the invariants  *)
(* above.                                                                   *)

\* The tables of the inventory and the number of requests of a listing.
InventoryTyped == inventory \in Inventory /\ requests \in 0..MaxRequests

LEMMA ListingsAreTyped == ListingsSpec => []ListingsTypeOK
<1>1. ListingsInit => InventoryTyped
  BY ListingsAssumption DEF ListingsInit, InventoryTyped, Inventory
<1>2. InventoryTyped /\ [ListingsNext]_listingVars => InventoryTyped'
  <2> SUFFICES ASSUME InventoryTyped, [ListingsNext]_listingVars PROVE InventoryTyped'
    OBVIOUS
  <2>1. CASE UNCHANGED listingVars
    BY <2>1 DEF listingVars, InventoryTyped
  <2>2. ASSUME NEW h \in Hands, NEW table, NEW op, NEW image, Request(h, table, op, image) PROVE InventoryTyped'
    BY <2>2, ListingsAssumption DEF Request, InventoryTyped
  <2>3. ASSUME NEW h \in Hands, SaveReads(h) \/ RequestFails(h) \/ approve PROVE InventoryTyped'
    BY <2>3 DEF SaveReads, RequestFails, approve, InventoryTyped
  <2>4. ASSUME NEW h \in Hands, SaveUpdates(h) PROVE InventoryTyped'
    <3>1. inventory' \in {inventory, [inventory EXCEPT !.priced = TRUE]} /\ UNCHANGED requests
      BY <2>4 DEF SaveUpdates
    <3>2. QED
      BY <3>1 DEF InventoryTyped, Inventory
  <2>5. ASSUME NEW h \in Hands, ReplaceInventory(h) PROVE InventoryTyped'
    <3>1. /\ inventory' \in {[inventory EXCEPT !.photos = TRUE], [inventory EXCEPT !.photos = FALSE],
                             [inventory EXCEPT !.units = TRUE, !.priced = TRUE],
                             [inventory EXCEPT !.units = FALSE, !.priced = FALSE]}
          /\ UNCHANGED requests
      BY <2>5 DEF ReplaceInventory
    <3>2. QED
      BY <3>1 DEF InventoryTyped, Inventory
  <2>6. CASE createListing
    BY <2>6, ListingsAssumption DEF createListing, InventoryTyped, Inventory
  <2>7. CASE approve
    BY <2>7 DEF approve, InventoryTyped
  <2>8. QED
    BY <2>1, <2>2, <2>3, <2>4, <2>5, <2>6, <2>7 DEF ListingsNext, ListingRead, ProfileRead
<1>3. ListingsInv /\ InventoryTyped => ListingsTypeOK
  BY DEF ListingsInv, InventoryTyped, ListingsTypeOK
<1>4. QED
  BY <1>1, <1>2, <1>3, ListingsInvHolds, PTL DEF ListingsSpec

\* The bookings that may be reviewed and the marks on their cards.
StaysTyped == stay \in [Stays -> StayStatus] /\ cards \subseteq Stays /\ reviewTxs \in 0..MaxReviewTxs

LEMMA ReviewsAreTyped == ReviewsSpec => []ReviewsTypeOK
<1>1. ReviewsInit => StaysTyped
  BY ReviewsAssumption DEF ReviewsInit, StaysTyped, StayStatus
<1>2. ReviewsInv /\ StaysTyped /\ [ReviewsNext]_reviewVars => StaysTyped'
  <2> SUFFICES ASSUME ReviewsInv, StaysTyped, [ReviewsNext]_reviewVars PROVE StaysTyped'
    OBVIOUS
  <2>1. CASE UNCHANGED reviewVars
    BY <2>1 DEF reviewVars, StaysTyped
  <2>2. ASSUME NEW h \in ReviewTxs, NEW x, Begin(h, x) PROVE StaysTyped'
    BY <2>2, ReviewsAssumption DEF Begin, StaysTyped
  <2>3. ASSUME NEW h \in ReviewTxs,
               CreateInserts(h) \/ ReviewSaveReads(h) \/ ReviewSaveUpdates(h) \/ ReadTotals(h)
        PROVE  StaysTyped'
    BY <2>3 DEF CreateInserts, ReviewSaveReads, ReviewSaveUpdates, ReadTotals, StaysTyped
  <2>4. ASSUME NEW h \in ReviewTxs, NEW x \in reviewTx[h] PROVE x.booking \in Stays
    BY <2>4 DEF ReviewsInv, TxRecords
  <2>5. ASSUME NEW h \in ReviewTxs, CommitReview(h) PROVE StaysTyped'
    <3>1. PICK x \in reviewTx[h] :
             /\ stay' = [stay EXCEPT ![x.booking] = IF x.completes THEN "COMPLETED" ELSE @]
             /\ cards' \in {cards, cards \cup {x.booking}} /\ UNCHANGED reviewTxs
      BY <2>5 DEF CommitReview, markReviewCardSubmitted
    <3>2. PICK b \in Stays : b = x.booking
      BY <2>4
    <3>3. QED
      BY <3>1, <3>2 DEF StaysTyped, StayStatus
  <2>6. ASSUME NEW h \in ReviewTxs, RollBackReview(h) PROVE StaysTyped'
    <3>1. PICK x \in reviewTx[h] :
             cards' \in {cards, cards \cup {x.booking}} /\ UNCHANGED <<stay, reviewTxs>>
      BY <2>6 DEF RollBackReview, markReviewCardSubmitted
    <3>2. QED
      BY <3>1, <2>4 DEF StaysTyped
  <2>7. ASSUME NEW b \in Stays, NEW s \in {"COMPLETED", "CANCELLED"}, StayMoves(b, s) PROVE StaysTyped'
    BY <2>7 DEF StayMoves, StaysTyped, StayStatus
  <2>8. QED
    BY <2>1, <2>2, <2>3, <2>5, <2>6, <2>7 DEF ReviewsNext, CreateReads, EditReads, adminSetReviewStatus
<1>3. ReviewsInv /\ StaysTyped => ReviewsTypeOK
  <2> SUFFICES ASSUME ReviewsInv, StaysTyped, NEW b \in Stays
               PROVE  reviews[b] \subseteq ReviewRow /\ Cardinality(reviews[b]) <= 1
    BY DEF StaysTyped, ReviewsTypeOK
  <2>1. reviews[b] = {} \/ \E r \in ReviewRow : reviews[b] = {r}
    BY DEF ReviewsInv, OneReview
  <2>2. Cardinality({}) = 0 /\ \A r : Cardinality({r}) = 1
    BY FS_EmptySet, FS_Singleton
  <2>3. QED
    BY <2>1, <2>2
<1>4. QED
  BY <1>1, <1>2, <1>3, ReviewsInvHolds, PTL DEF ReviewsSpec

\* The events that rows, entities and fetched images name are events there are.
KycBounded ==
    /\ Len(verdicts) <= MaxVerdicts /\ dossier \subseteq DOMAIN verdicts /\ kyc \in KycProfileRow
    /\ \A w \in hook : w.kyc \in KycProfileRow
    /\ \A c \in Clerks : \A r \in clerk[c] : r.kyc \in KycProfileRow

LEMMA KycIsTyped == KycSpec => []KycTypeOK
<1>1. KycInit => KycBounded
  BY KycAssumption DEF KycInit, KycBounded, KycProfileRow, KycStatus
<1>2. KycInv /\ KycBounded /\ [KycNext]_kycVars => KycBounded'
  <2> SUFFICES ASSUME KycInv, KycBounded, [KycNext]_kycVars PROVE KycBounded'
    OBVIOUS
  <2>1. CASE UNCHANGED kycVars
    BY <2>1 DEF kycVars, KycBounded
  <2>2. /\ verdicts \in Seq(ProviderVerdict) /\ DOMAIN verdicts = 1..Len(verdicts) /\ Len(verdicts) \in Nat
        /\ unacked \subseteq DOMAIN verdicts /\ kyc.status \in KycStatus
        /\ hook \in SUBSET HookRecords /\ \A c \in Clerks : clerk[c] \subseteq ClerkRecords
        /\ clerk \in [Clerks -> SUBSET ClerkRecords]
    BY DEF KycInv, KycTables, KycBounded
  <2>3. \A s \in KycStatus, k \in KycProfileRow : [k EXCEPT !.status = s] \in KycProfileRow
    BY DEF KycProfileRow
  <2>4. \A k \in KycProfileRow, v \in ProviderVerdict : ReviewedKyc(k, v) \in KycProfileRow
    <3> SUFFICES ASSUME NEW k \in KycProfileRow, NEW v \in ProviderVerdict
                 PROVE  ReviewedKyc(k, v) \in KycProfileRow
      OBVIOUS
    <3>1. StatusFor(v) \in KycStatus
      BY DEF StatusFor, mapSumsubEventToKycStatus, KycStatus, ProviderVerdict
    <3>2. QED
      BY <3>1, <2>3 DEF ReviewedKyc
  <2>5. ASSUME NEW v \in ProviderVerdict, ProviderDecides(v) PROVE KycBounded'
    <3>1. /\ Len(verdicts) < MaxVerdicts /\ verdicts' = Append(verdicts, v)
          /\ UNCHANGED <<kyc, hook, dossier, clerk>>
      BY <2>5 DEF ProviderDecides
    <3>2. Len(verdicts') = Len(verdicts) + 1 /\ DOMAIN verdicts \subseteq DOMAIN verdicts'
      BY <3>1, <2>2
    <3>3. Len(verdicts') <= MaxVerdicts
      BY <3>1, <3>2, <2>2, KycAssumption
    <3>4. QED
      BY <3>1, <3>2, <3>3 DEF KycBounded
  <2>6. ASSUME NEW e \in unacked, HookBegin(e) PROVE KycBounded'
    <3>1. /\ UNCHANGED <<verdicts, kyc, dossier, clerk>>
          /\ hook' = hook \/ \A w \in hook' : w.kyc = ReviewedKyc(kyc, verdicts[e])
      BY <2>6 DEF HookBegin
    <3>2. verdicts[e] \in ProviderVerdict
      BY <2>2
    <3>3. QED
      BY <3>1, <3>2, <2>4 DEF KycBounded
  <2>7. CASE HookCommit
    <3>1. PICK w \in hook : /\ kyc' = [w.kyc EXCEPT !.eventAt = w.event] /\ hook' = {}
                            /\ dossier' = dossier \cup {w.event} /\ UNCHANGED <<verdicts, clerk>>
      BY <2>7 DEF HookCommit
    <3>2. w.event \in DOMAIN verdicts /\ w.kyc \in KycProfileRow
      BY DEF KycInv, HookSound, KycBounded
    <3>3. w.event \in 0..MaxVerdicts
      BY <3>2, <2>2, KycAssumption DEF KycBounded
    <3>4. kyc' \in KycProfileRow
      BY <3>1, <3>2, <3>3 DEF KycProfileRow
    <3>5. QED
      BY <3>1, <3>2, <3>4 DEF KycBounded
  <2>8. CASE HookFails
    BY <2>8 DEF HookFails, KycBounded
  <2>9. ASSUME NEW e, ProviderRepeats(e) PROVE KycBounded'
    BY <2>9 DEF ProviderRepeats, KycBounded
  <2>10. ASSUME NEW e \in dossier, persistSumsubDossierArtifacts(e) \/ DossierFails(e) PROVE KycBounded'
    <3>1. /\ kyc' \in {kyc, [kyc EXCEPT !.snapshot = e]} /\ dossier' \subseteq dossier
          /\ UNCHANGED <<verdicts, hook, clerk>>
      BY <2>10 DEF persistSumsubDossierArtifacts, DossierFails
    <3>2. e \in 0..MaxVerdicts
      BY <2>2, KycAssumption DEF KycBounded
    <3>3. kyc' \in KycProfileRow
      BY <3>1, <3>2 DEF KycBounded, KycProfileRow
    <3>4. QED
      BY <3>1, <3>3 DEF KycBounded
  <2>11. ASSUME NEW c \in Clerks, NEW S, clerk' = [clerk EXCEPT ![c] = S],
                \A r \in S : r.kyc \in KycProfileRow, kyc' \in KycProfileRow,
                UNCHANGED <<verdicts, hook, dossier>>
         PROVE  KycBounded'
    BY <2>11, <2>2 DEF KycBounded
  <2>12. ASSUME NEW c \in Clerks, NEW op \in ClerkOps, ClerkReads(c, op) PROVE KycBounded'
    <3>1. PICK fetched \in IF op = "sync" THEN Range(verdicts) ELSE {"WAITING"} :
             clerk' = [clerk EXCEPT ![c] = {[op |-> op, left |-> SaveOrder(op),
                kyc |-> ClerkKyc(op, kyc, fetched), user |-> ClerkUser(op, user, fetched)]}]
      BY <2>12 DEF ClerkReads
    <3>2. op = "sync" => fetched \in ProviderVerdict
      BY <3>1, <2>2 DEF Range
    <3>3. kyc \in KycProfileRow
      BY DEF KycBounded
    <3>4. ClerkKyc(op, kyc, fetched) \in KycProfileRow
      BY <3>2, <3>3, <2>2, <2>3, <2>4, KycAssumption DEF ClerkKyc, KycStatus
    <3>5. UNCHANGED <<kyc, verdicts, hook, dossier>>
      BY <2>12 DEF ClerkReads
    <3>6. PICK S : /\ clerk' = [clerk EXCEPT ![c] = S]
                   /\ S = {[op |-> op, left |-> SaveOrder(op), kyc |-> ClerkKyc(op, kyc, fetched),
                            user |-> ClerkUser(op, user, fetched)]}
      BY <3>1
    <3>7. \A r \in S : r.kyc \in KycProfileRow
      BY <3>4, <3>6
    <3>8. QED
      BY <3>3, <3>5, <3>6, <3>7, <2>11
  <2>13. ASSUME NEW c \in Clerks, ClerkSavesKyc(c) \/ ClerkSavesUser(c) PROVE KycBounded'
    <3>1. PICK r \in clerk[c] : LET rest == [r EXCEPT !.left = Tail(@)]
             IN  /\ clerk' = [clerk EXCEPT ![c] = IF rest.left = <<>> THEN {} ELSE {rest}]
                 /\ kyc' \in {kyc, r.kyc} /\ UNCHANGED <<verdicts, hook, dossier>>
      BY <2>13 DEF ClerkSavesKyc, ClerkSavesUser
    <3>2. r \in ClerkRecords /\ r.kyc \in KycProfileRow /\ kyc \in KycProfileRow
      BY <2>2 DEF KycBounded
    <3>3. [r EXCEPT !.left = Tail(@)].kyc = r.kyc
      BY <3>2 DEF ClerkRecords
    <3>4. PICK S : /\ clerk' = [clerk EXCEPT ![c] = S] /\ UNCHANGED <<verdicts, hook, dossier>>
                   /\ kyc' \in {kyc, r.kyc} /\ S \in {{}, {[r EXCEPT !.left = Tail(@)]}}
      BY <3>1
    <3>5. \A x \in S : x.kyc \in KycProfileRow
      BY <3>2, <3>3, <3>4
    <3>6. QED
      BY <3>2, <3>4, <3>5, <2>11
  <2>14. ASSUME NEW c \in Clerks, TokenReads(c) PROVE KycBounded'
    <3>1. PICK r \in clerk[c] : /\ clerk' = [clerk EXCEPT ![c] = {MintedToken(r)}]
                                /\ UNCHANGED <<kyc, verdicts, hook, dossier>>
      BY <2>14 DEF TokenReads
    <3>2. r \in ClerkRecords /\ kyc \in KycProfileRow
      BY <2>2 DEF KycBounded
    <3>3. [kyc EXCEPT !.status = IF @ = "NONE" THEN "PENDING" ELSE @] \in KycProfileRow
      BY <3>2 DEF KycProfileRow, KycStatus
    <3>4. MintedToken(r).kyc \in KycProfileRow
      BY <3>2, <3>3 DEF MintedToken, ClerkRecords
    <3>5. PICK S : S = {MintedToken(r)}
      OBVIOUS
    <3>6. QED
      BY <3>1, <3>2, <3>4, <3>5, <2>11
  <2>15. ASSUME NEW c \in Clerks, ClerkFails(c) PROVE KycBounded'
    BY <2>15, <2>11 DEF ClerkFails, KycBounded
  <2>16. QED
    BY <2>1, <2>5, <2>6, <2>7, <2>8, <2>9, <2>10, <2>12, <2>13, <2>14, <2>15 DEF KycNext
<1>3. KycInv /\ KycBounded => KycTypeOK
  BY KycAssumption DEF KycInv, KycTables, KycBounded, KycTypeOK
<1>4. QED
  BY <1>1, <1>2, <1>3, KycInvHolds, PTL DEF KycSpec

----------------------------------------------------------------------------
(* The composition *)

\* A component that does not run takes no step, and the one that runs only steps
\* of its own: nothing of one part is written by another.
LEMMA HostingStep ==
    [HostingNext]_<<listingVars, kycVars, moneyVars, reviewVars, calendarVars, part>> =>
        /\ [ListingsNext]_listingVars /\ [KycNext]_kycVars /\ [MoneyNext]_moneyVars
        /\ [ReviewsNext]_reviewVars /\ [CalendarNext]_calendarVars
BY DEF HostingNext

\* A behaviour of the composition is a behaviour of each component, so that what is
\* proved of them holds of it (HostListingsService, ComplianceService,
\* QuoteService, ReviewsService and CalendarSyncService write disjoint tables).
THEOREM HostingComposes ==
    HostingSpec => ListingsSpec /\ KycSpec /\ MoneySpec /\ ReviewsSpec /\ CalendarSpec
<1>1. HostingInit => ListingsInit /\ KycInit /\ MoneyInit /\ ReviewsInit /\ CalendarInit
  BY DEF HostingInit
<1>2. QED
  BY <1>1, HostingStep, PTL DEF HostingSpec, ListingsSpec, KycSpec, MoneySpec, ReviewsSpec, CalendarSpec

\* The rows and counters of the composition have their types: the columns that
\* saves of entities read earlier write stay within what their readers know.
THEOREM HostingTyped == HostingSpec => []HostingTypeOK
<1>1. ListingsTypeOK /\ KycTypeOK /\ MoneyInv /\ ReviewsTypeOK /\ CalendarInv => HostingTypeOK
  BY DEF HostingTypeOK, MoneyInv, CalendarInv
<1>2. QED
  BY <1>1, HostingComposes, ListingsAreTyped, KycIsTyped, MoneyInvHolds, ReviewsAreTyped, CalendarInvHolds, PTL

----------------------------------------------------------------------------
(* What a listing that went LIVE unasked takes: two requests that overlap.  *)

OneInFlight == \A g, h \in Hands : hand[g] # {} /\ hand[h] # {} => g = h

\* A LIVE listing was submitted, approved and set live by an admin.
LiveWasSetLive == listing.status = "LIVE" => {"submit", "approve", "setLive"} \subseteq granted

\* The status of a listing and where its pause came from tell what was granted.
PauseRemembers(row, grants) ==
    /\ row.status = "LIVE" \/ row.pausedFrom = "LIVE" => "setLive" \in grants
    /\ row.status = "PAUSED" => row.pausedFrom # "NONE"

\* The entity in hand is the row with the change of its operation.
HandFresh(q) ==
    q.table = "listing" =>
        /\ q.image = ListingImage(q.op, listing) /\ PauseRemembers(q.image, granted \cup {q.op})
        /\ listing.status # "NONE"
        /\ q.read => q.cols = Changed(q.image, listing)

SerialInv ==
    /\ PauseRemembers(listing, granted)
    /\ \A h \in Hands : \A q \in hand[h] : HandFresh(q)

\* What an operation makes of a row read when nobody else is at work.
LEMMA ImageRemembers ==
    ASSUME NEW row \in ListingRow, NEW inv, NEW op, PauseRemembers(row, granted), ListingAllows(op, row, inv)
    PROVE  PauseRemembers(ListingImage(op, row), granted \cup {op})
<1> DEFINE image == ListingImage(op, row)
<1>1. CASE op \in {"update", "submit", "approve", "reject"}
  <2>1. image.pausedFrom = row.pausedFrom /\ (image.status \in {row.status, "SUBMITTED", "APPROVED", "REJECTED"})
    BY <1>1 DEF ListingImage, ListingRow
  <2>2. QED
    BY <2>1 DEF PauseRemembers
<1>2. CASE op = "setLive"
  <2>1. image.status = "LIVE"
    BY <1>2 DEF ListingImage, ListingRow
  <2>2. QED
    BY <1>2, <2>1 DEF PauseRemembers
<1>3. CASE op = "pause"
  <2>1. row.status \in {"LIVE", "APPROVED"}
    BY <1>3 DEF ListingAllows, AdminAllows, HostOps, PAUSABLE_STATUSES
  <2>2. image.status = "PAUSED" /\ image.pausedFrom = row.status
    BY <1>3, <2>1 DEF ListingImage, Paused, ListingRow
  <2>3. QED
    BY <2>1, <2>2 DEF PauseRemembers
<1>4. CASE op \in {"resume", "unpause"}
  <2>1. row.status = "PAUSED"
    BY <1>4 DEF ListingAllows, AdminAllows, HostAllows, HostOps
  <2>2. row.pausedFrom \in {"LIVE", "APPROVED"}
    BY <2>1 DEF PauseRemembers, ListingRow
  <2>3. image.status = row.pausedFrom /\ image.pausedFrom = "NONE"
    BY <1>4, <2>2 DEF ListingImage, Restored, ListingRow
  <2>4. QED
    BY <2>2, <2>3 DEF PauseRemembers
<1>5. CASE op \notin {"update", "submit", "approve", "reject", "setLive", "pause", "resume", "unpause"}
  BY <1>5 DEF ListingImage, PauseRemembers
<1>6. QED
  BY <1>1, <1>2, <1>3, <1>4, <1>5

\* A save whose second reading found the row as the first one did writes the entity.
LEMMA FreshSave ==
    ASSUME NEW image \in ListingRow, NEW row \in ListingRow
    PROVE  Updated(image, Changed(image, row), row) = image
BY DEF Updated, Changed, ListingRow

\* A step of the one request in flight.
LEMMA SerialStep ==
    ASSUME ListingsInv, OneInFlight, SerialInv, NEW h \in Hands, NEW n, hand' = [hand EXCEPT ![h] = n],
           UNCHANGED <<listing, granted>>, \A q \in n : HandFresh(q)
    PROVE  SerialInv'
<1>1. \A g \in Hands : \A q \in hand'[g] : q \in n \/ q \in hand[g]
  BY DEF ListingsInv
<1>2. \A q : HandFresh(q) => HandFresh(q)'
  BY DEF HandFresh
<1>3. QED
  BY <1>1, <1>2 DEF SerialInv

LEMMA SerialInvHolds == ListingsSpec /\ []OneInFlight => []SerialInv
<1>1. ListingsInit => SerialInv
  <2>1. ListingsInit => /\ listing.status = "NONE" /\ listing.pausedFrom = "NONE"
                        /\ \A h \in Hands : hand[h] = {}
    BY DEF ListingsInit
  <2>2. QED
    BY <2>1 DEF SerialInv, PauseRemembers
<1>2. ListingsInv /\ OneInFlight /\ SerialInv /\ [ListingsNext]_listingVars => SerialInv'
  <2> SUFFICES ASSUME ListingsInv, OneInFlight, SerialInv, [ListingsNext]_listingVars PROVE SerialInv'
    OBVIOUS
  <2>1. CASE UNCHANGED listingVars
    BY <2>1 DEF listingVars, SerialInv, HandFresh
  <2>2. ASSUME NEW h \in Hands, NEW op \in ListingOps, ListingRead(h, op) PROVE SerialInv'
    <3>1. PICK q : q = [table |-> "listing", op |-> op, image |-> ListingImage(op, listing), cols |-> {}, read |-> FALSE]
      OBVIOUS
    <3>2. HandFresh(q)
      BY <2>2, <3>1, ImageRemembers DEF ListingRead, HandFresh, SerialInv, ListingsInv
    <3>3. hand' = [hand EXCEPT ![h] = {q}] /\ UNCHANGED <<listing, granted>>
      BY <2>2, <3>1 DEF ListingRead, Request
    <3>4. \A x \in {q} : HandFresh(x)
      BY <3>2
    <3>5. QED
      BY <3>3, <3>4, SerialStep
  <2>3. ASSUME NEW h \in Hands, NEW op \in ProfileOps, ProfileRead(h, op) PROVE SerialInv'
    <3>1. PICK q : /\ q = [table |-> "profile", op |-> op, image |-> ProfileImage(op, profile), cols |-> {}, read |-> FALSE]
                   /\ hand' = [hand EXCEPT ![h] = {q}] /\ UNCHANGED <<listing, granted>>
      BY <2>3 DEF ProfileRead, Request
    <3>2. \A x \in {q} : HandFresh(x)
      BY <3>1 DEF HandFresh
    <3>3. hand' = [hand EXCEPT ![h] = {q}] /\ UNCHANGED <<listing, granted>>
      BY <3>1
    <3>4. QED
      BY <3>2, <3>3, SerialStep
  <2>4. ASSUME NEW h \in Hands, SaveReads(h) PROVE SerialInv'
    <3>1. PICK q, cols, p : /\ q \in hand[h]
                     /\ cols = Changed(q.image, IF q.table = "listing" THEN listing ELSE profile)
                     /\ p = [q EXCEPT !.read = TRUE, !.cols = cols]
                     /\ hand' = [hand EXCEPT ![h] = {p}]
                     /\ UNCHANGED <<listing, granted>>
      BY <2>4 DEF SaveReads
    <3>2. q \in HandRecords /\ HandFresh(q)
      BY <3>1 DEF ListingsInv, SerialInv
    <3>3. p.table = q.table /\ p.op = q.op /\ p.image = q.image /\ p.cols = cols
      BY <3>1, <3>2 DEF HandRecords
    <3>4. q.table = "listing" => cols = Changed(q.image, listing)
      BY <3>1
    <3>5. HandFresh(p)
      BY <3>2, <3>3, <3>4 DEF HandFresh
    <3>6. \A x \in {p} : HandFresh(x)
      BY <3>5
    <3>7. hand' = [hand EXCEPT ![h] = {p}] /\ UNCHANGED <<listing, granted>>
      BY <3>1
    <3>8. QED
      BY <3>6, <3>7, SerialStep
  <2>5. ASSUME NEW h \in Hands, SaveUpdates(h) PROVE SerialInv'
    <3>1. PICK q \in hand[h] :
            /\ IF q.table = "listing"
               THEN listing' = Updated(q.image, q.cols, listing) /\ granted' = granted \cup {q.op}
               ELSE UNCHANGED <<listing, granted>>
            /\ q.read /\ hand' = [hand EXCEPT ![h] = {}]
      BY <2>5 DEF SaveUpdates
    <3>2. q \in HandRecords /\ HandSound(q) /\ HandFresh(q) /\ listing \in ListingRow
      BY DEF ListingsInv, SerialInv
    <3>3. \A g \in Hands : hand'[g] = {}
      BY <3>1 DEF OneInFlight, ListingsInv
    <3>4. CASE q.table = "listing"
      <4>1. q.image \in ListingRow /\ q.cols = Changed(q.image, listing)
        BY <3>1, <3>2, <3>4 DEF HandSound, HandFresh
      <4>2. listing' = q.image
        BY <3>1, <3>2, <3>4, <4>1, FreshSave
      <4>3. PauseRemembers(listing', granted')
        BY <3>1, <3>2, <3>4, <4>2 DEF HandFresh
      <4>4. QED
        BY <3>3, <4>3 DEF SerialInv
    <3>5. CASE q.table # "listing"
      BY <3>1, <3>3, <3>5 DEF SerialInv
    <3>6. QED
      BY <3>4, <3>5
  <2>6. ASSUME NEW h \in Hands, ReplaceInventory(h) \/ RequestFails(h) PROVE SerialInv'
    <3>1. PICK n : n = {} /\ hand' = [hand EXCEPT ![h] = n] /\ UNCHANGED <<listing, granted>>
      BY <2>6 DEF ReplaceInventory, RequestFails
    <3>2. \A x \in n : HandFresh(x)
      BY <3>1
    <3>3. QED
      BY <3>1, <3>2, SerialStep
  <2>7. CASE createListing
    <3>1. /\ listing.status = "NONE" /\ listing' = [listing EXCEPT !.status = "DRAFT"] /\ UNCHANGED <<hand, granted>>
      BY <2>7 DEF createListing
    <3>2. \A h \in Hands : \A q \in hand[h] : q.table # "listing"
      BY <3>1 DEF SerialInv, HandFresh
    <3>3. listing'.status = "DRAFT" /\ listing'.pausedFrom = listing.pausedFrom
      BY <3>1 DEF ListingsInv, ListingRow
    <3>4. QED
      BY <3>1, <3>2, <3>3 DEF SerialInv, HandFresh, PauseRemembers
  <2>8. CASE approve
    <3>1. granted' = granted \cup {"host"} /\ UNCHANGED <<listing, hand>>
      BY <2>8 DEF approve
    <3>2. \A row, G : PauseRemembers(row, G) => PauseRemembers(row, G \cup {"host"})
      BY DEF PauseRemembers
    <3>3. \A q : (granted \cup {q.op}) \cup {"host"} = granted' \cup {q.op}
      BY <3>1
    <3>4. \A q : HandFresh(q) => HandFresh(q)'
      <4> SUFFICES ASSUME NEW q, HandFresh(q), q.table = "listing" PROVE HandFresh(q)'
        BY DEF HandFresh
      <4>1. PauseRemembers(q.image, granted' \cup {q.op})
        BY <3>2, <3>3 DEF HandFresh
      <4>2. QED
        BY <3>1, <4>1 DEF HandFresh
    <3>5. PauseRemembers(listing, granted)'
      BY <3>1, <3>2 DEF SerialInv
    <3>6. QED
      BY <3>1, <3>4, <3>5 DEF SerialInv
  <2>9. QED
    BY <2>1, <2>2, <2>3, <2>4, <2>5, <2>6, <2>7, <2>8 DEF ListingsNext
<1>3. QED
  BY <1>1, <1>2, ListingsInvHolds, PTL DEF ListingsSpec

\* A host's resumeListing puts a listing back LIVE that no admin ever set live only
\* when requests overlap: without that every LIVE listing was set live by
\* AdminStaysService, however often it was paused, edited and resumed.
THEOREM LiveUnaskedTakesOverlap == ListingsSpec /\ []OneInFlight => []LiveWasSetLive
<1>1. ListingsInv /\ SerialInv => LiveWasSetLive
  BY DEF ListingsInv, StatusGranted, SerialInv, PauseRemembers, LiveWasSetLive
<1>2. QED
  BY <1>1, ListingsInvHolds, SerialInvHolds, PTL

----------------------------------------------------------------------------
(* What wrong totals and republished reviews take: overlap. *)

\* Transactions on the reviews of a listing run one at a time.
OneReviewTx == \A g, h \in ReviewTxs : reviewTx[g] # {} /\ reviewTx[h] # {} => g = h

\* The totals of the listing are those of its published reviews.
TotalsExact == totals = recalculateForListing(reviews)

\* The status of a stored review is changed by adminSetReviewStatus only.
StatusIsModerated ==
    \A b \in Stays : \A r \in reviews[b], s \in reviews'[b] : s.status # r.status =>
        \E h \in ReviewTxs : \E x \in reviewTx[h] : x.kind = "moderate" /\ x.booking = b

\* A transaction that started alone stays alone; an edit holds the status of the
\* row as it is, and a create that went on past its insert has found no row.
TxFresh(x) ==
    /\ x.alone
    /\ x.kind = "create" /\ x.pc # "insert" =>
         x.pc \in {"recalculate", "commit"} /\ reviews[x.booking] = {}
    /\ x.kind = "edit" => \A r \in reviews[x.booking] : x.row.status = r.status

SerialReviews == quiet /\ \A h \in ReviewTxs : \A x \in reviewTx[h] : TxFresh(x)

\* A step that commits nothing keeps what it leaves in flight fresh.
LEMMA FreshTxs ==
    ASSUME ReviewsInv, SerialReviews, NEW h \in ReviewTxs, NEW n,
           reviewTx' = [reviewTx EXCEPT ![h] = n], UNCHANGED <<reviews, quiet>>,
           \A y \in n : TxFresh(y)
    PROVE  SerialReviews'
<1>1. \A g \in ReviewTxs : \A y \in reviewTx'[g] : y \in n \/ y \in reviewTx[g]
  BY DEF ReviewsInv
<1>2. \A y : TxFresh(y) => TxFresh(y)'
  BY DEF TxFresh
<1>3. QED
  BY <1>1, <1>2 DEF SerialReviews

\* A transaction begins, alone since it may not overlap with another.
LEMMA FreshBegin ==
    ASSUME ReviewsInv, SerialReviews, OneReviewTx', NEW h \in ReviewTxs, NEW x \in TxRecords,
           x.pc \in {"insert", "saveReads"}, x.kind = "create" => x.pc = "insert", Begin(h, x),
           x.kind = "edit" => \A r \in reviews[x.booking] : x.row.status = r.status
    PROVE  SerialReviews'
<1>1. PICK y : y = [x EXCEPT !.alone = InFlight = {}]
  OBVIOUS
<1>2. /\ reviewTx[h] = {} /\ reviewTx'[h] = {y} /\ UNCHANGED <<reviews, quiet>>
      /\ \A g \in ReviewTxs \ {h} : reviewTx'[g] = {[z EXCEPT !.alone = FALSE] : z \in reviewTx[g]}
  BY <1>1 DEF Begin
<1>3. \A g \in ReviewTxs : reviewTx[g] = {}
  <2> SUFFICES ASSUME NEW g \in ReviewTxs, g # h, NEW z \in reviewTx[g] PROVE FALSE
    BY <1>2
  <2>1. [z EXCEPT !.alone = FALSE] \in reviewTx'[g] /\ reviewTx'[h] # {}
    BY <1>2, Zenon
  <2>2. QED
    BY <2>1 DEF OneReviewTx
<1>4. y.alone /\ y.pc = x.pc /\ y.kind = x.kind /\ y.booking = x.booking /\ y.row = x.row
  <2>1. InFlight = {}
    BY <1>3 DEF InFlight
  <2>2. y = [x EXCEPT !.alone = TRUE]
    BY <1>1, <2>1
  <2>3. QED
    BY <2>2 DEF TxRecords
<1>5. TxFresh(y)'
  BY <1>2, <1>4 DEF TxFresh
<1>6. QED
  BY <1>2, <1>3, <1>5 DEF SerialReviews

\* The three reads begin a transaction on rows as they are.
LEMMA ReadsAreFresh ==
    ASSUME ReviewsInv, SerialReviews, OneReviewTx', NEW h \in ReviewTxs, NEW b \in Stays,
           \/ \E n \in Stars : CreateReads(h, b, n) \/ EditReads(h, b, n)
           \/ \E s \in {"PUBLISHED", "HIDDEN", "REMOVED"} : adminSetReviewStatus(h, b, s)
    PROVE  SerialReviews'
<1>1. Stars \subseteq 1..10 /\ reviews[b] \in OneReview /\ \A r \in reviews[b] : r \in ReviewRow
  BY ReviewsAssumption DEF ReviewsInv, OneReview
<1>2. ASSUME NEW n \in Stars, CreateReads(h, b, n)
      PROVE  SerialReviews'
  <2>1. PICK row \in ReviewRow : row = [rating |-> n, status |-> "PUBLISHED"]
    BY <1>1 DEF ReviewRow
  <2>2. PICK t \in TxRecords : t = Tx("create", b, row, "insert")
    BY TxIsRecord
  <2>3. PICK c \in BOOLEAN : c = (stay[b] # "COMPLETED")
    OBVIOUS
  <2>4. PICK x : x = [t EXCEPT !.completes = c]
    OBVIOUS
  <2>5. x \in TxRecords /\ x.pc = "insert" /\ x.kind = "create"
    BY <2>2, <2>4 DEF TxRecords, Tx
  <2>6. Begin(h, x)
    BY <1>2, <2>1, <2>2, <2>3, <2>4 DEF CreateReads
  <2>7. QED
    BY <2>5, <2>6, FreshBegin
<1>3. ASSUME NEW n \in Stars, EditReads(h, b, n)
      PROVE  SerialReviews'
  <2>1. PICK r \in reviews[b] : Begin(h, Tx("edit", b, [r EXCEPT !.rating = n], "saveReads"))
    BY <1>3 DEF EditReads
  <2>2. PICK row \in ReviewRow : row = [r EXCEPT !.rating = n] /\ row.status = r.status
    <3>1. [r EXCEPT !.rating = n] \in ReviewRow
      BY <1>1 DEF ReviewRow
    <3>2. [r EXCEPT !.rating = n].status = r.status
      BY <1>1 DEF ReviewRow
    <3>3. QED
      BY <3>1, <3>2
  <2>3. PICK x \in TxRecords : x = Tx("edit", b, row, "saveReads")
    BY TxIsRecord
  <2>4. x.pc = "saveReads" /\ x.kind = "edit" /\ x.booking = b /\ x.row = row
    BY <2>3 DEF Tx
  <2>5. \A q \in reviews[b] : q = r
    BY <1>1 DEF OneReview
  <2>6. QED
    BY <2>1, <2>2, <2>3, <2>4, <2>5, FreshBegin
<1>4. ASSUME NEW s \in {"PUBLISHED", "HIDDEN", "REMOVED"}, adminSetReviewStatus(h, b, s)
      PROVE  SerialReviews'
  <2>1. PICK r \in reviews[b] : Begin(h, Tx("moderate", b, [r EXCEPT !.status = s], "saveReads"))
    BY <1>4 DEF adminSetReviewStatus
  <2>2. PICK row \in ReviewRow : row = [r EXCEPT !.status = s]
    BY <1>1 DEF ReviewRow
  <2>3. PICK x \in TxRecords : x = Tx("moderate", b, row, "saveReads")
    BY TxIsRecord
  <2>4. x.pc = "saveReads" /\ x.kind = "moderate"
    BY <2>3 DEF Tx
  <2>5. QED
    BY <2>1, <2>2, <2>3, <2>4, FreshBegin
<1>5. QED
  BY <1>2, <1>3, <1>4

\* A transaction's own next record, if it is fresh.
LEMMA OwnFresh ==
    ASSUME ReviewsInv, SerialReviews, NEW h \in ReviewTxs, NEW y, TxFresh(y),
           reviewTx' = [reviewTx EXCEPT ![h] = {y}], UNCHANGED <<reviews, quiet>>
    PROVE  SerialReviews'
<1>1. \A z \in {y} : TxFresh(z)
  OBVIOUS
<1>2. QED
  BY <1>1, FreshTxs

\* Every statement of a transaction but its commit keeps it fresh.
LEMMA StatementsStayFresh ==
    ASSUME ReviewsInv, SerialReviews, NEW h \in ReviewTxs,
           \/ CreateInserts(h) \/ ReviewSaveReads(h) \/ ReviewSaveUpdates(h)
           \/ ReadTotals(h) \/ RollBackReview(h)
    PROVE  SerialReviews'
<1>1. /\ UNCHANGED <<reviews, quiet>>
      /\ \A x \in reviewTx[h] : x \in TxRecords /\ TxFresh(x) /\ x.booking \in Stays
  <2>1. UNCHANGED <<reviews, quiet>>
    BY DEF CreateInserts, ReviewSaveReads, ReviewSaveUpdates, ReadTotals, RollBackReview
  <2>2. \A x \in reviewTx[h] : x \in TxRecords /\ TxFresh(x)
    BY DEF ReviewsInv, SerialReviews
  <2>3. QED
    BY <2>1, <2>2 DEF TxRecords
<1>2. ASSUME reviewTx' = [reviewTx EXCEPT ![h] = {}]
      PROVE  SerialReviews'
  BY <1>1, <1>2, FreshTxs
<1>3. CASE CreateInserts(h)
  <2>1. PICK x \in reviewTx[h] :
            reviewTx' = [reviewTx EXCEPT ![h] = IF reviews[x.booking] = {} THEN {[x EXCEPT !.pc = "recalculate"]} ELSE {}]
    BY <1>3 DEF CreateInserts
  <2>2. PICK y : y = [x EXCEPT !.pc = "recalculate"]
    OBVIOUS
  <2>3. y.kind = x.kind /\ y.row = x.row /\ y.alone = x.alone /\ y.booking = x.booking /\ y.pc = "recalculate"
    BY <1>1, <2>2 DEF TxRecords
  <2>4. CASE reviews[x.booking] = {}
    <3>1. TxFresh(y)
      BY <1>1, <2>3, <2>4 DEF TxFresh
    <3>2. reviewTx' = [reviewTx EXCEPT ![h] = {y}]
      BY <2>1, <2>2, <2>4
    <3>3. QED
      BY <1>1, <3>1, <3>2, OwnFresh
  <2>5. QED
    BY <1>2, <2>1, <2>4
<1>4. CASE ReviewSaveReads(h)
  <2>0. PICK x \in reviewTx[h] : x.pc = "saveReads" /\ \E r \in reviews[x.booking] :
            reviewTx' = [reviewTx EXCEPT ![h] = {[x EXCEPT !.cols = Changed(x.row, r), !.pc = "saveUpdates"]}]
    BY <1>4 DEF ReviewSaveReads
  <2>1. PICK cols : reviewTx' = [reviewTx EXCEPT ![h] = {[x EXCEPT !.cols = cols, !.pc = "saveUpdates"]}]
    BY <2>0
  <2>2. PICK y : y = [x EXCEPT !.cols = cols, !.pc = "saveUpdates"]
    OBVIOUS
  <2>3. y.kind = x.kind /\ y.row = x.row /\ y.alone = x.alone /\ y.booking = x.booking /\ y.pc = "saveUpdates"
    BY <1>1, <2>2 DEF TxRecords
  <2>4. TxFresh(y)
    BY <1>1, <2>0, <2>3 DEF TxFresh
  <2>5. QED
    BY <1>1, <2>1, <2>2, <2>4, OwnFresh
<1>5. CASE ReadTotals(h)
  <2>1. PICK x \in reviewTx[h] : x.pc = "recalculate" /\ \E t :
            reviewTx' = [reviewTx EXCEPT ![h] = {[x EXCEPT !.pc = "commit", !.totals = t]}]
    BY <1>5 DEF ReadTotals
  <2>2. PICK t : reviewTx' = [reviewTx EXCEPT ![h] = {[x EXCEPT !.pc = "commit", !.totals = t]}]
    BY <2>1
  <2>3. PICK y : y = [x EXCEPT !.pc = "commit", !.totals = t]
    OBVIOUS
  <2>4. y.kind = x.kind /\ y.row = x.row /\ y.alone = x.alone /\ y.booking = x.booking /\ y.pc = "commit"
    BY <1>1, <2>3 DEF TxRecords
  <2>5. TxFresh(y)
    BY <1>1, <2>1, <2>4 DEF TxFresh
  <2>6. QED
    BY <1>1, <2>2, <2>3, <2>5, OwnFresh
<1>6. CASE ReviewSaveUpdates(h)
  <2>1. PICK x \in reviewTx[h] : x.pc = "saveUpdates" /\ \E r \in reviews[x.booking] :
            reviewTx' = [reviewTx EXCEPT ![h] = {[x EXCEPT !.row = Updated(x.row, x.cols, r), !.pc = "recalculate"]}]
    BY <1>6 DEF ReviewSaveUpdates
  <2>2. PICK r \in reviews[x.booking] :
            reviewTx' = [reviewTx EXCEPT ![h] = {[x EXCEPT !.row = Updated(x.row, x.cols, r), !.pc = "recalculate"]}]
    BY <2>1
  <2>3. r \in ReviewRow /\ \A q \in reviews[x.booking] : q = r
    BY <1>1 DEF ReviewsInv, OneReview
  <2>4. PICK row : row = Updated(x.row, x.cols, r)
    OBVIOUS
  <2>5. row.status \in {x.row.status, r.status}
    BY <2>3, <2>4 DEF Updated, ReviewRow
  <2>6. PICK y : y = [x EXCEPT !.row = row, !.pc = "recalculate"]
    OBVIOUS
  <2>7. y.kind = x.kind /\ y.row = row /\ y.alone = x.alone /\ y.booking = x.booking
    BY <1>1, <2>6 DEF TxRecords
  <2>8. x.kind # "create"
    BY <1>1, <2>1 DEF TxFresh
  <2>9. TxFresh(y)
    BY <1>1, <2>3, <2>5, <2>7, <2>8 DEF TxFresh
  <2>10. QED
    BY <1>1, <2>2, <2>4, <2>6, <2>9, OwnFresh
<1>7. CASE RollBackReview(h)
  BY <1>2, <1>7 DEF RollBackReview
<1>8. QED
  BY <1>3, <1>4, <1>5, <1>6, <1>7

LEMMA SerialReviewsHold == ReviewsSpec /\ []OneReviewTx => []SerialReviews
<1>1. ReviewsInit => SerialReviews
  BY DEF ReviewsInit, SerialReviews
<1>2. ReviewsInv /\ SerialReviews /\ OneReviewTx' /\ [ReviewsNext]_reviewVars => SerialReviews'
  <2> SUFFICES ASSUME ReviewsInv, SerialReviews, OneReviewTx', [ReviewsNext]_reviewVars
               PROVE  SerialReviews'
    OBVIOUS
  <2>1. CASE UNCHANGED <<reviews, reviewTx, quiet>>
    BY <2>1 DEF SerialReviews, TxFresh
  <2>2. CASE UNCHANGED reviewVars
    BY <2>1, <2>2 DEF reviewVars
  <2>3. ASSUME NEW b \in Stays, NEW s \in {"COMPLETED", "CANCELLED"}, StayMoves(b, s)
        PROVE  SerialReviews'
    BY <2>1, <2>3 DEF StayMoves
  <2>4. ASSUME NEW h \in ReviewTxs, CommitReview(h)
        PROVE  SerialReviews'
    <3>1. PICK x \in reviewTx[h] : /\ x.pc = "commit" /\ quiet' = x.alone
                                   /\ reviewTx' = [reviewTx EXCEPT ![h] = {}]
      BY <2>4 DEF CommitReview
    <3>2. TxFresh(x) /\ TxSound(h, x) /\ x.alone
      BY <3>1 DEF ReviewsInv, SerialReviews, TxFresh
    <3>3. \A g \in ReviewTxs : reviewTx'[g] = {}
      BY <3>1, <3>2 DEF ReviewsInv, TxSound
    <3>4. QED
      BY <3>1, <3>2, <3>3 DEF SerialReviews
  <2>5. CASE ReviewsNext
    BY <2>3, <2>4, <2>5, ReadsAreFresh, StatementsStayFresh DEF ReviewsNext
  <2>6. QED
    BY <2>2, <2>5
<1>3. QED
  BY <1>1, <1>2, ReviewsInvHolds, PTL DEF ReviewsSpec

\* The totals of a listing are wrong only after transactions on its reviews
\* overlapped: recalculateForListing itself counts right.
THEOREM WrongTotalsTakeOverlap == ReviewsSpec /\ []OneReviewTx => []TotalsExact
<1>1. ReviewsInv /\ SerialReviews => TotalsExact
  BY DEF ReviewsInv, SerialReviews, TotalsExact
<1>2. QED
  BY <1>1, ReviewsInvHolds, SerialReviewsHold, PTL

\* An edit publishes a review again that an admin removed only when the two
\* overlapped: one at a time, updateReview never changes a status, and
\* createReview never writes over a row.
THEOREM UndoneVerdictsTakeOverlap == ReviewsSpec /\ []OneReviewTx => [][StatusIsModerated]_reviewVars
<1>1. ReviewsInv /\ SerialReviews /\ [ReviewsNext]_reviewVars => [StatusIsModerated]_reviewVars
  <2> SUFFICES ASSUME ReviewsInv, SerialReviews, ReviewsNext
               PROVE  StatusIsModerated
    OBVIOUS
  <2>1. CASE UNCHANGED reviews
    <3>1. \A b \in Stays : \A r \in reviews[b], s \in reviews[b] : r = s
      BY DEF ReviewsInv, OneReview
    <3>2. QED
      BY <2>1, <3>1 DEF StatusIsModerated
  <2>2. ASSUME NEW h \in ReviewTxs, CommitReview(h)
        PROVE  StatusIsModerated
    <3>1. PICK x \in reviewTx[h] : x.pc = "commit" /\ reviews' = [reviews EXCEPT ![x.booking] = {x.row}]
      BY <2>2 DEF CommitReview
    <3>2. x \in TxRecords /\ TxFresh(x) /\ reviews \in [Stays -> OneReview]
      BY DEF ReviewsInv, SerialReviews
    <3>3. ASSUME NEW b \in Stays, NEW r \in reviews[b], NEW s \in reviews'[b], s.status # r.status
          PROVE  x.kind = "moderate" /\ x.booking = b
      <4>1. x.booking = b
        BY <3>1, <3>2, <3>3 DEF OneReview
      <4>2. s = x.row
        BY <3>1, <3>2, <4>1
      <4>3. x.kind \in {"create", "edit", "moderate"}
        BY <3>2 DEF TxRecords
      <4>4. QED
        BY <3>1, <3>2, <3>3, <4>1, <4>2, <4>3 DEF TxFresh
    <3>4. QED
      BY <3>3 DEF StatusIsModerated
  <2>3. ReviewsNext => UNCHANGED reviews \/ \E h \in ReviewTxs : CommitReview(h)
    BY DEF ReviewsNext, CreateReads, EditReads, adminSetReviewStatus, Begin, CreateInserts,
           ReviewSaveReads, ReviewSaveUpdates, ReadTotals, RollBackReview, StayMoves
  <2>4. QED
    BY <2>1, <2>2, <2>3
<1>2. QED
  BY <1>1, ReviewsInvHolds, SerialReviewsHold, PTL DEF ReviewsSpec
=============================================================================
