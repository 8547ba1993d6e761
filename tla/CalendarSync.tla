----------------------------- MODULE CalendarSync -----------------------------
(***************************************************************************)
(* External calendars of one listing (CalendarSyncService): feeds of other *)
(* platforms are fetched again and again and their reservations imported   *)
(* as blocked nights, next to the blocks that the host sets.  A sync       *)
(* claims its calendar for two minutes and then works without transaction  *)
(* or lock, one statement at a time; repository.save of the calendar is    *)
(* one step here and stores the whole image.                               *)
(***************************************************************************)
EXTENDS Integers, FiniteSets

CONSTANTS
    Calendars,      \* external calendars
    Horizon,        \* nights of the import horizon, as 0..n
    Reservations,   \* <<start, end>> that a feed may report
    Syncs,          \* syncs and edits of calendars in flight at a time
    MaxFeeds,       \* bound: changes of feeds and
    MaxBlocks,      \* of the host's blocks
    MaxSyncs        \* bound: syncs and edits of a behaviour

ASSUME CalendarAssumption ==
    /\ Calendars \cap {"FREE", "HOST_BLOCKED", "HOST_OPEN"} = {}
    /\ Horizon \subseteq Int /\ Reservations \subseteq Int \X Int
    /\ MaxFeeds \in Nat /\ MaxBlocks \in Nat /\ MaxSyncs \in Nat

VARIABLES
    calendar,   \* rows of stays_external_calendars; status NONE is no row
    feed,       \* what the other platform reports now
    reported,   \* history: every reservation a calendar's feed has reported
    blocks,     \* stays_availability_blocks, by night: FREE, the host's or a calendar's
    sync,       \* per sync: {} or its image of the row and what is left to do
    imported,   \* history: per calendar, the nights of its last undisturbed import
    bounds      \* numbers of changes, blocks and syncs so far

calendarVars == <<calendar, feed, reported, blocks, sync, imported, bounds>>

\* etag: {} or the content it stands for.
CalendarRow == [status : {"NONE", "ACTIVE", "PAUSED", "SYNCING", "ERROR"},
                locked : BOOLEAN, etag : SUBSET SUBSET Reservations]
NoCalendar == [status |-> "NONE", locked |-> FALSE, etag |-> {}]

\* Mutant: the night of the departure is blocked too.
ExpandWithDeparture(events) == {n \in Horizon : \E e \in events : e[1] <= n /\ n <= e[2]}

\* parseIcsEvents makes an event without a later end one night long.
LastNight(e) == IF e[2] <= e[1] THEN e[1] ELSE e[2] - 1

expandNights(events) == {n \in Horizon : \E e \in events : e[1] <= n /\ n <= LastNight(e)}

----------------------------------------------------------------------------

Count(f, max) == bounds[f] < max /\ bounds' = [bounds EXCEPT ![f] = @ + 1]

Start(w, c, pc, image) ==
    /\ sync[w] = {} /\ Count("syncs", MaxSyncs)
    /\ sync' = [sync EXCEPT ![w] = {[cal |-> c, pc |-> pc, row |-> image, etag |-> {},
                                     nights |-> {}, todo |-> {}, at |-> {}, calm |-> TRUE]}]

\* A sync while others work: a row deleted takes its id along, and a write of
\* blocks disturbs it.
Disturbed(x, gone, wrote) ==
    [x EXCEPT !.todo = IF x.pc = "remove" THEN @ \ gone ELSE @, !.calm = @ /\ ~wrote]

\* The next statement of w.
Continue(w, next, gone, wrote) ==
    sync' = [v \in Syncs |-> IF v = w THEN next ELSE {Disturbed(x, gone, wrote) : x \in sync[v]}]

\* connectCalendar, up to its first sync.
connectCalendar(w, c) ==
    /\ calendar[c].status = "NONE"
    /\ calendar' = [calendar EXCEPT ![c] = [NoCalendar EXCEPT !.status = "ACTIVE"]]
    /\ Start(w, c, "claim", NoCalendar)
    /\ UNCHANGED <<feed, reported, blocks, imported>>

\* syncNow refuses a paused calendar, ...  It also refuses one attempted in the
\* last 30 seconds (SYNC_COOLDOWN_MS), which may pass between any two steps here.
syncNow(w, c) ==
    /\ calendar[c].status \in {"ACTIVE", "ERROR", "SYNCING"}
    /\ Start(w, c, "claim", NoCalendar)
    /\ UNCHANGED <<calendar, feed, reported, blocks, imported>>

\* ... the scheduler also one that is being synchronised.
processDueCalendars(w, c) ==
    /\ calendar[c].status \in {"ACTIVE", "ERROR"} /\ ~calendar[c].locked
    /\ Start(w, c, "claimDue", NoCalendar)
    /\ UNCHANGED <<calendar, feed, reported, blocks, imported>>

\* The claim of syncCalendar; without it the sync ends.
ClaimCalendar(w) ==
    \E x \in sync[w] :
        LET row == calendar[x.cal]
            mine == /\ row.status # "NONE" /\ ~row.locked
                    /\ x.pc = "claimDue" => row.status # "SYNCING"
            claimed == [row EXCEPT !.status = "SYNCING", !.locked = TRUE]
        IN  /\ x.pc \in {"claim", "claimDue"}
            /\ calendar' = IF mine THEN [calendar EXCEPT ![x.cal] = claimed] ELSE calendar
            /\ Continue(w, IF mine THEN {[x EXCEPT !.pc = "read"]} ELSE {}, {}, FALSE)
            /\ UNCHANGED <<feed, reported, blocks, imported, bounds>>

\* The image all later saves start from; an edit may have come in between.
ReadClaimed(w) ==
    \E x \in sync[w] :
        /\ x.pc = "read" /\ calendar[x.cal].status # "NONE"
        /\ Continue(w, {[x EXCEPT !.pc = "fetch", !.row = calendar[x.cal]]}, {}, FALSE)
        /\ UNCHANGED <<calendar, feed, reported, blocks, imported, bounds>>

\* fetchIcs: 304 when the content is the one of the stored etag.
NotModified(w) ==
    \E x \in sync[w] :
        /\ x.pc = "fetch" /\ x.row.etag = {feed[x.cal]}
        /\ Continue(w, {[x EXCEPT !.pc = "finish"]}, {}, FALSE)
        /\ UNCHANGED <<calendar, feed, reported, blocks, imported, bounds>>

\* Otherwise the events are replaced and the calendar's blocks looked up.
FetchFeed(w) ==
    \E x \in sync[w] :
        LET nights == expandNights(feed[x.cal])
        IN  /\ x.pc = "fetch" /\ x.row.etag # {feed[x.cal]}
            /\ calendar[x.cal].status # "NONE"
            /\ Continue(w, {[x EXCEPT !.pc = "remove", !.etag = {feed[x.cal]}, !.calm = TRUE,
                    !.nights = nights, !.todo = {n \in Horizon : blocks[n] = x.cal} \ nights]}, {}, FALSE)
            /\ UNCHANGED <<calendar, feed, reported, blocks, imported, bounds>>

\* Mutant: nights that left the feed stay blocked.
KeepStaleNights(w) ==
    \E x \in sync[w] :
        /\ x.pc = "remove"
        /\ Continue(w, {[x EXCEPT !.pc = "import", !.todo = x.nights]}, {}, FALSE)
        /\ UNCHANGED <<calendar, feed, reported, blocks, imported, bounds>>

\* The rows found are deleted by id, whoever has written them since.
RemoveStaleNights(w) ==
    \E x \in sync[w] :
        /\ x.pc = "remove"
        /\ blocks' = [n \in Horizon |-> IF n \in x.todo THEN "FREE" ELSE blocks[n]]
        /\ Continue(w, {[x EXCEPT !.pc = "import", !.todo = x.nights]}, x.todo, x.todo # {})
        /\ imported' = IF x.todo = {} THEN imported ELSE [c \in Calendars |-> {}]
        /\ UNCHANGED <<calendar, feed, reported, bounds>>

\* findOne: nights of the host and of other calendars are left alone.
LookAtNight(w, n) ==
    \E x \in sync[w] :
        /\ x.pc = "import" /\ n \in x.todo
        /\ Continue(w, {IF blocks[n] \in {"FREE", x.cal} THEN [x EXCEPT !.pc = "block", !.at = {n}]
                        ELSE [x EXCEPT !.todo = @ \ {n}]}, {}, FALSE)
        /\ UNCHANGED <<calendar, feed, reported, blocks, imported, bounds>>

\* The upsert overwrites what came in between; its foreign key needs the row.
BlockNight(w) ==
    \E x \in sync[w] : \E n \in x.at :
        /\ x.pc = "block" /\ calendar[x.cal].status # "NONE"
        /\ blocks' = [blocks EXCEPT ![n] = x.cal]
        /\ Continue(w, {[x EXCEPT !.pc = "import", !.todo = @ \ {n}, !.at = {}]}, {}, blocks' # blocks)
        /\ imported' = IF blocks' = blocks THEN imported ELSE [c \in Calendars |-> {}]
        /\ UNCHANGED <<calendar, feed, reported, bounds>>

\* finishSuccess: the image, saved, brings a deleted calendar back; only an
\* unchanged feed leaves a calendar paused.
finishSuccess(w) ==
    \E x \in sync[w] :
        /\ x.pc = "finish" \/ (x.pc = "import" /\ x.todo = {})
        /\ calendar' = [calendar EXCEPT ![x.cal] =
               [status |-> IF x.pc = "finish" /\ x.row.status = "PAUSED" THEN "PAUSED" ELSE "ACTIVE",
                locked |-> FALSE,
                etag |-> IF x.pc = "import" THEN x.etag ELSE x.row.etag]]
        /\ Continue(w, {}, {}, FALSE)
        /\ imported' = IF x.pc = "import" /\ x.calm THEN [imported EXCEPT ![x.cal] = {x.nights}]
                       ELSE imported
        /\ UNCHANGED <<feed, reported, blocks, bounds>>

\* finishFailure, after any error since the claim: the etag stays the one of the
\* image, so the next sync imports again.
finishFailure(w) ==
    \E x \in sync[w] :
        /\ x.pc \notin {"claim", "claimDue", "read", "patch"}
        /\ calendar' = [calendar EXCEPT ![x.cal] = [x.row EXCEPT !.status = "ERROR", !.locked = FALSE]]
        /\ Continue(w, {}, {}, FALSE)
        /\ UNCHANGED <<feed, reported, blocks, imported, bounds>>

SyncStops(w) ==
    /\ sync[w] # {}
    /\ Continue(w, {}, {}, FALSE)
    /\ UNCHANGED <<calendar, feed, reported, blocks, imported, bounds>>

LockExpires(c) ==
    /\ calendar[c].locked
    /\ calendar' = [calendar EXCEPT ![c].locked = FALSE]
    /\ UNCHANGED <<feed, reported, blocks, sync, imported, bounds>>

----------------------------------------------------------------------------
(* The host and the other platforms *)

UpdateReads(w, c, status) ==
    /\ calendar[c].status # "NONE"
    /\ Start(w, c, "patch", [calendar[c] EXCEPT !.status = status])
    /\ UNCHANGED <<calendar, feed, reported, blocks, imported>>

updateCalendar(w) ==
    \E x \in sync[w] :
        /\ x.pc = "patch"
        /\ calendar' = [calendar EXCEPT ![x.cal] = x.row]
        /\ Continue(w, {}, {}, FALSE)
        /\ UNCHANGED <<feed, reported, blocks, imported, bounds>>

\* The blocks of the calendar go with its row.
deleteCalendar(c) ==
    /\ calendar[c].status # "NONE"
    /\ calendar' = [calendar EXCEPT ![c] = NoCalendar]
    /\ blocks' = [n \in Horizon |-> IF blocks[n] = c THEN "FREE" ELSE blocks[n]]
    /\ sync' = [w \in Syncs |-> {Disturbed(x, {n \in Horizon : blocks[n] = c}, TRUE) : x \in sync[w]}]
    /\ imported' = [d \in Calendars |-> {}]
    /\ UNCHANGED <<feed, reported, bounds>>

setHostAvailabilityBlock(n, kind) ==
    /\ Count("blocks", MaxBlocks)
    /\ blocks' = [blocks EXCEPT ![n] = kind]
    /\ sync' = [w \in Syncs |-> {Disturbed(x, {}, TRUE) : x \in sync[w]}]
    /\ imported' = [d \in Calendars |-> {}]
    /\ UNCHANGED <<calendar, feed, reported>>

FeedChanges(c, events) ==
    /\ events # feed[c] /\ Count("feeds", MaxFeeds)
    /\ feed' = [feed EXCEPT ![c] = events]
    /\ reported' = [reported EXCEPT ![c] = @ \cup events]
    /\ UNCHANGED <<calendar, blocks, sync, imported>>

----------------------------------------------------------------------------

CalendarInit ==
    /\ calendar = [c \in Calendars |-> NoCalendar]
    /\ feed = [c \in Calendars |-> {}]
    /\ reported = [c \in Calendars |-> {}]
    /\ blocks = [n \in Horizon |-> "FREE"]
    /\ sync = [w \in Syncs |-> {}]
    /\ imported = [c \in Calendars |-> {}]
    /\ bounds = [feeds |-> 0, blocks |-> 0, syncs |-> 0]

CalendarNext ==
    \/ \E w \in Syncs, c \in Calendars :
          \/ connectCalendar(w, c)
          \/ syncNow(w, c) \/ processDueCalendars(w, c)
          \/ \E s \in {"ACTIVE", "PAUSED"} : UpdateReads(w, c, s)
    \/ \E w \in Syncs :
          \/ ClaimCalendar(w) \/ ReadClaimed(w) \/ NotModified(w) \/ FetchFeed(w) \/ RemoveStaleNights(w)
          \/ \E n \in Horizon : LookAtNight(w, n)
          \/ BlockNight(w) \/ finishSuccess(w) \/ finishFailure(w) \/ SyncStops(w)
          \/ updateCalendar(w)
    \/ \E c \in Calendars : LockExpires(c) \/ deleteCalendar(c)
    \/ \E n \in Horizon, kind \in {"HOST_BLOCKED", "HOST_OPEN"} : setHostAvailabilityBlock(n, kind)
    \/ \E c \in Calendars, events \in SUBSET Reservations : FeedChanges(c, events)

CalendarSpec == CalendarInit /\ [][CalendarNext]_calendarVars

----------------------------------------------------------------------------

CalendarTypeOK ==
    /\ calendar \in [Calendars -> CalendarRow]
    /\ blocks \in [Horizon -> {"FREE", "HOST_BLOCKED", "HOST_OPEN"} \cup Calendars]

\* A night is blocked for a calendar only if that calendar's feed once reported
\* a reservation with a stay over it: syncs that overlap, fail half-way or work
\* on with a feed of the past import nothing else, and never the departure day.
ImportedNightsReported ==
    \A n \in Horizon : blocks[n] \in Calendars =>
        \E e \in reported[blocks[n]] : e[1] <= n /\ (n < e[2] \/ n = e[1])

\* After an import that nothing disturbed, whatever broke off before it, the
\* nights of its feed are taken, by it or by someone before it, and it blocks no
\* other night.
ImportMatchesFeed ==
    \A c \in Calendars : \A nights \in imported[c] : \A n \in Horizon :
        /\ n \in nights => blocks[n] # "FREE"
        /\ blocks[n] = c => n \in nights

----------------------------------------------------------------------------
(* The inductive invariant behind the two above. *)

\* The nights a calendar's feed has ever reported a stay over.
ReportedNights(c) == {n \in Horizon : \E e \in reported[c] : e[1] <= n /\ (n < e[2] \/ n = e[1])}

SyncRecords ==
    [cal : Calendars,
     pc : {"claim", "claimDue", "read", "fetch", "remove", "import", "block", "finish", "patch"},
     row : CalendarRow, etag : SUBSET SUBSET Reservations,
     nights : SUBSET Horizon, todo : SUBSET Horizon, at : SUBSET Horizon, calm : BOOLEAN]

\* A sync imports nights of its feed only; undisturbed, it has found the blocks
\* to remove, and of its nights only those it has not looked at may be free.
SyncSound(x) ==
    /\ x.nights \subseteq ReportedNights(x.cal)
    /\ x.pc = "block" => x.at \subseteq x.nights
    /\ x.pc \in {"import", "block"} => x.todo \subseteq x.nights
    /\ x.calm /\ x.pc = "remove" =>
         \A n \in Horizon : blocks[n] = x.cal => n \in x.nights \cup x.todo
    /\ x.calm /\ x.pc \in {"import", "block"} => \A n \in Horizon :
         /\ blocks[n] = x.cal => n \in x.nights
         /\ n \in x.nights \ x.todo => blocks[n] # "FREE"

CalendarInv ==
    /\ CalendarTypeOK
    /\ feed \in [Calendars -> SUBSET Reservations] /\ reported \in [Calendars -> SUBSET Reservations]
    /\ \A c \in Calendars : feed[c] \subseteq reported[c]
    /\ sync \in [Syncs -> SUBSET SyncRecords]
    /\ imported \in [Calendars -> SUBSET SUBSET Horizon]
    /\ \A w \in Syncs : \A x \in sync[w] : SyncSound(x)
    /\ ImportedNightsReported
    /\ ImportMatchesFeed
=============================================================================
