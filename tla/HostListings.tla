----------------------------- MODULE HostListings -----------------------------
(***************************************************************************)
(* A host's application (HostOnboardingService) and a listing of that host *)
(* from draft to publication: the host's operations (HostListingsService)  *)
(* and the moderation by admins (AdminStaysService).  Nearly all of them   *)
(* read the row, decide, and save the entity later without a lock, so each *)
(* is a request of three steps: Read, save's reading, save's update.       *)
(***************************************************************************)
EXTENDS EntitySave, FiniteSets, Naturals

CONSTANTS
    Hands,          \* requests in flight at a time
    ListingOps,     \* operations on the listing and
    ProfileOps,     \* on the host profile that are called
    RoomsRequired,  \* the property type needs configured rooms
    MaxRequests     \* bound: requests of a behaviour

ASSUME ListingsAssumption ==
    /\ ListingOps \subseteq {"update", "submit", "pause", "resume", "media", "units",
                             "noUnits", "approve", "reject", "setLive", "unpause"}
    /\ ProfileOps \subseteq {"submit", "reject", "freeze", "unfreeze"}
    /\ RoomsRequired \in BOOLEAN /\ MaxRequests \in Nat

VARIABLES
    listing,    \* columns of stays_listings: status, paused_from_status, about
    inventory,  \* its media, unit types and rate plan
    profile,    \* columns of stays_host_profiles
    hand,       \* per request: {} or the operation, its image and its columns
    granted,    \* history: what was submitted, approved and set live
    requests    \* number of requests so far

listingVars == <<listing, inventory, profile, hand, granted, requests>>

ListingStatus == {"DRAFT", "SUBMITTED", "APPROVED", "REJECTED", "LIVE", "PAUSED"}
EDITABLE_STATUSES == ListingStatus
PAUSABLE_STATUSES == {"LIVE", "APPROVED"}

\* about: location, title, description and capacity are filled in.
ListingRow == [status : ListingStatus \cup {"NONE"}, pausedFrom : {"LIVE", "APPROVED", "NONE"},
               about : BOOLEAN]
\* photos: at least SUBMIT_MIN_PHOTOS; priced: a price above zero.
Inventory == [photos : BOOLEAN, units : BOOLEAN, priced : BOOLEAN]
ProfileRow == [application : {"NONE", "PENDING", "APPROVED", "REJECTED"},
               verification : {"NONE", "PENDING", "APPROVED", "REJECTED"}, frozen : BOOLEAN]

canList == profile.application = "APPROVED" /\ profile.verification = "APPROVED" /\ ~profile.frozen

\* computeCompletionFlags, assertCanSubmit
CanSubmit(row, inv) ==
    /\ row.about /\ inv.photos /\ inv.priced
    /\ RoomsRequired => inv.units

----------------------------------------------------------------------------
(* What an operation demands of the row it reads, and the entity it saves. *)

\* Operations of the host need canList, except the pause.
HostOps == {"update", "submit", "resume", "media", "units", "noUnits"}

\* Mutant: a listing is resumed whatever its status is.
HostResumesAny(op, row, inv) ==
    CASE op \in {"update", "media", "units"} -> row.status \in EDITABLE_STATUSES
      [] op = "noUnits" -> row.status \in EDITABLE_STATUSES \ {"LIVE", "APPROVED"}
      [] op = "submit" -> row.status \in {"DRAFT", "REJECTED"} /\ CanSubmit(row, inv)
      [] op = "resume" -> TRUE

\* A submission also wants archived_at unset, as every writer of it leaves it.
HostAllows(op, row, inv) ==
    CASE op \in {"update", "media", "units"} -> row.status \in EDITABLE_STATUSES
      [] op = "noUnits" -> row.status \in EDITABLE_STATUSES \ {"LIVE", "APPROVED"}
      [] op = "submit" -> row.status \in {"DRAFT", "REJECTED"} /\ CanSubmit(row, inv)
      [] op = "resume" -> row.status = "PAUSED"

\* The host's pause demands what the admin's does.
AdminAllows(op, row) ==
    CASE op = "pause" -> row.status \in PAUSABLE_STATUSES
      [] op = "unpause" -> row.status = "PAUSED" /\ ~profile.frozen
      [] op \in {"approve", "reject"} -> row.status = "SUBMITTED"
      [] op = "setLive" -> row.status = "APPROVED"

ListingAllows(op, row, inv) ==
    IF op \in HostOps THEN canList /\ HostAllows(op, row, inv) ELSE AdminAllows(op, row)

\* resumeListing, unpauseListing: back to where the pause came from.
Restored(row) ==
    [row EXCEPT !.status = IF row.pausedFrom = "APPROVED" THEN "APPROVED" ELSE "LIVE",
                !.pausedFrom = "NONE"]

\* pauseListing of the host and of the admin.
Paused(row) ==
    [row EXCEPT !.status = "PAUSED",
                !.pausedFrom = IF row.status = "APPROVED" THEN "APPROVED" ELSE "LIVE"]

ListingImage(op, row) ==
    CASE op = "update" -> [row EXCEPT !.about = TRUE]
      [] op = "submit" -> [row EXCEPT !.status = "SUBMITTED"]
      [] op = "pause" -> Paused(row)
      [] op \in {"resume", "unpause"} -> Restored(row)
      [] op = "approve" -> [row EXCEPT !.status = "APPROVED"]
      [] op = "reject" -> [row EXCEPT !.status = "REJECTED"]
      [] op = "setLive" -> [row EXCEPT !.status = "LIVE"]
      [] OTHER -> row

\* submitHostOnboarding refuses an approved host and leaves a pending one alone.
ProfileAllows(op, row) ==
    CASE op = "submit" -> row.application \notin {"PENDING", "APPROVED"}
      [] op = "reject" -> row.application = "PENDING"
      [] op = "freeze" -> row.verification = "APPROVED"
      [] op = "unfreeze" -> row.application # "NONE"

\* HostOnboardingService.reject
RejectedHost(row) == [row EXCEPT !.application = "REJECTED", !.verification = "REJECTED"]

\* freezeHost, unfreezeHost
Frozen(row, frozen) == [row EXCEPT !.frozen = frozen]

\* Mutant: a new submission leaves the old verdict on the verification.
ProfileImageKeepsVerdict(op, row) ==
    CASE op = "submit" -> [row EXCEPT !.application = "PENDING"]
      [] op = "reject" -> RejectedHost(row)
      [] OTHER -> Frozen(row, op = "freeze")

ProfileImage(op, row) ==
    CASE op = "submit" -> [row EXCEPT !.application = "PENDING", !.verification = "PENDING"]
      [] op = "reject" -> RejectedHost(row)
      [] OTHER -> Frozen(row, op = "freeze")

----------------------------------------------------------------------------
(* The steps of a request. *)

Request(h, table, op, image) ==
    /\ hand[h] = {} /\ requests < MaxRequests
    /\ requests' = requests + 1
    /\ hand' = [hand EXCEPT ![h] = {[table |-> table, op |-> op, image |-> image,
                                     cols |-> {}, read |-> FALSE]}]
    /\ UNCHANGED <<listing, inventory, profile, granted>>

ListingRead(h, op) ==
    /\ listing.status # "NONE" /\ ListingAllows(op, listing, inventory)
    /\ Request(h, "listing", op, ListingImage(op, listing))

ProfileRead(h, op) ==
    /\ ProfileAllows(op, profile)
    /\ Request(h, "profile", op, ProfileImage(op, profile))

SaveReads(h) ==
    \E q \in hand[h] :
        /\ ~q.read /\ q.op \notin {"media", "units", "noUnits"}
        /\ hand' = [hand EXCEPT ![h] = {[q EXCEPT !.read = TRUE,
               !.cols = Changed(q.image, IF q.table = "listing" THEN listing ELSE profile)]}]
        /\ UNCHANGED <<listing, inventory, profile, granted, requests>>

\* updateListing also sets the price, in the rate plan and the only unit.
SaveUpdates(h) ==
    \E q \in hand[h] :
        /\ q.read
        /\ IF q.table = "listing"
           THEN /\ listing' = Updated(q.image, q.cols, listing)
                /\ inventory' = IF q.op = "update" THEN [inventory EXCEPT !.priced = TRUE] ELSE inventory
                /\ granted' = granted \cup {q.op}
                /\ UNCHANGED profile
           ELSE /\ profile' = Updated(q.image, q.cols, profile)
                /\ UNCHANGED <<listing, inventory, granted>>
        /\ hand' = [hand EXCEPT ![h] = {}]
        /\ UNCHANGED requests

\* replaceListingMedia, replaceListingUnitTypes: a transaction on the tables of
\* the inventory; the media sent may be too few, and without units the rate plan
\* is set to 0.
ReplaceInventory(h) ==
    \E q \in hand[h] :
        /\ q.op \in {"media", "units", "noUnits"}
        /\ \E enough \in BOOLEAN :
              inventory' = CASE q.op = "media" -> [inventory EXCEPT !.photos = enough]
                             [] q.op = "units" -> [inventory EXCEPT !.units = TRUE, !.priced = TRUE]
                             [] q.op = "noUnits" -> [inventory EXCEPT !.units = FALSE, !.priced = FALSE]
        /\ hand' = [hand EXCEPT ![h] = {}]
        /\ UNCHANGED <<listing, profile, granted, requests>>

\* createListing: the draft with its default unit, in one transaction.
createListing ==
    /\ listing.status = "NONE" /\ canList
    /\ listing' = [listing EXCEPT !.status = "DRAFT"]
    /\ inventory' = [inventory EXCEPT !.units = ~RoomsRequired]
    /\ UNCHANGED <<profile, hand, granted, requests>>

\* HostOnboardingService.approve holds the row lock.
approve ==
    /\ profile.application = "PENDING"
    /\ profile' = [profile EXCEPT !.application = "APPROVED", !.verification = "APPROVED"]
    /\ granted' = granted \cup {"host"}
    /\ UNCHANGED <<listing, inventory, hand, requests>>

RequestFails(h) ==
    /\ hand[h] # {}
    /\ hand' = [hand EXCEPT ![h] = {}]
    /\ UNCHANGED <<listing, inventory, profile, granted, requests>>

----------------------------------------------------------------------------

ListingsInit ==
    /\ listing = [status |-> "NONE", pausedFrom |-> "NONE", about |-> FALSE]
    /\ inventory = [photos |-> FALSE, units |-> FALSE, priced |-> FALSE]
    /\ profile = [application |-> "NONE", verification |-> "NONE", frozen |-> FALSE]
    /\ hand = [h \in Hands |-> {}]
    /\ granted = {}
    /\ requests = 0

ListingsNext ==
    \/ \E h \in Hands :
          \/ \E op \in ListingOps : ListingRead(h, op)
          \/ \E op \in ProfileOps : ProfileRead(h, op)
          \/ SaveReads(h) \/ SaveUpdates(h)
          \/ ReplaceInventory(h)
          \/ RequestFails(h)
    \/ createListing
    \/ approve

ListingsSpec == ListingsInit /\ [][ListingsNext]_listingVars

----------------------------------------------------------------------------

ListingsTypeOK ==
    /\ listing \in ListingRow /\ inventory \in Inventory /\ profile \in ProfileRow
    /\ requests \in 0..MaxRequests

\* A listing that guests can see, or could once it is resumed or set live, was
\* submitted complete and approved by an admin, whatever stale entities pauses,
\* resumptions, edits and verdicts save.  That an admin also set a LIVE listing
\* live does not follow: stale saves can leave PAUSED without paused_from_status,
\* which the next resumption takes for LIVE.
PublishedWasGranted ==
    listing.status \in {"LIVE", "APPROVED", "PAUSED"} => {"submit", "approve"} \subseteq granted

\* The two columns of the verdict agree, so canList is decided by either: also
\* when a stale submission, rejection or freeze is saved over an approval.
VerdictsAgree == profile.application = profile.verification

----------------------------------------------------------------------------
(* The inductive invariant behind the two above. *)

\* What the status of a listing presupposes, given what was granted.
StatusGranted(status, grants) ==
    /\ status = "SUBMITTED" => "submit" \in grants
    /\ status \in {"LIVE", "APPROVED", "PAUSED"} => {"submit", "approve"} \subseteq grants

HandRecords ==
    [table : {"listing", "profile"}, op : ListingOps \cup ProfileOps, image : ListingRow \cup ProfileRow,
     cols : SUBSET {"status", "pausedFrom", "about", "application", "verification", "frozen"},
     read : BOOLEAN]

\* A request on the listing carries a status that its own grant completes; one
\* on the profile writes both columns of the verdict or none.
HandSound(q) ==
    /\ q.table = "listing" => q.image \in ListingRow /\ StatusGranted(q.image.status, granted \cup {q.op})
    /\ q.table = "profile" => /\ q.image \in ProfileRow
                              /\ q.image.application = q.image.verification
                              /\ "application" \in q.cols <=> "verification" \in q.cols

ListingsInv ==
    /\ listing \in ListingRow /\ profile \in ProfileRow
    /\ hand \in [Hands -> SUBSET HandRecords]
    /\ StatusGranted(listing.status, granted)
    /\ \A h \in Hands : \A q \in hand[h] : HandSound(q)
    /\ VerdictsAgree
=============================================================================
