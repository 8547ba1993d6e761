------------------------------- MODULE KycCase -------------------------------
(***************************************************************************)
(* The verification of one user's identity (ComplianceService and          *)
(* AdminKycService of the identity service): verdicts that the provider    *)
(* delivers by webhook, repeated and out of order, and everyone else who   *)
(* writes the same two rows: SDK tokens, uploads, the form, status syncs   *)
(* and admins.  Webhooks are serialised by an advisory lock that nobody    *)
(* else takes; the others read entities and save them whole some awaits    *)
(* later.                                                                  *)
(***************************************************************************)
EXTENDS Naturals, Sequences, Functions

CONSTANTS
    Clerks,         \* requests in flight at a time
    ClerkOps,       \* what they do
    CountryKnown,   \* resolveIssuerCountryCode finds a country
    MaxVerdicts,    \* bound: events of the provider
    MaxClerkCalls   \* bound: requests of a behaviour

ASSUME KycAssumption ==
    /\ ClerkOps \subseteq {"token", "document", "selfie", "form", "sync", "approve", "reject"}
    /\ CountryKnown \in BOOLEAN /\ MaxVerdicts \in Nat /\ MaxClerkCalls \in Nat

VARIABLES
    verdicts,   \* events of the provider, in the order of their timestamps
    unacked,    \* events the provider still delivers (an index of verdicts)
    kyc,        \* row of kyc_profiles
    user,       \* row of users: kyc_status, profile_locked_at
    identity,   \* unified_identities.identity_verified
    reusable,   \* the reusable verification is approved
    hook,       \* {} or the webhook that holds the advisory lock
    dossier,    \* events whose images are being fetched
    clerk,      \* per request: {} or its images and what it still has to save
    byAdmin,    \* history: an admin has approved the case
    clerkCalls

kycVars == <<verdicts, unacked, kyc, user, identity, reusable, hook, dossier, clerk, byAdmin, clerkCalls>>

KycStatus == {"NONE", "PENDING", "UNDER_REVIEW", "VERIFIED", "APPROVED", "REJECTED"}
Verified == {"VERIFIED", "APPROVED"}

\* eventAt: last_provider_event_at; snapshot: the event of provider_snapshot.
KycProfileRow == [status : KycStatus, eventAt : 0..MaxVerdicts, snapshot : 0..MaxVerdicts]
UserRow == [status : KycStatus, locked : BOOLEAN]

\* A verdict: the answer GREEN or RED, or without one a review that was completed,
\* one whose workflow failed, or one still under way.
ProviderVerdict == {"GREEN", "RED", "COMPLETED", "FAILED", "WAITING"}
Approvals == {"GREEN", "COMPLETED"}

\* Mutant: a review still under way counts as completed.
MapUnfinished(verdict) ==
    CASE verdict \in {"RED", "FAILED"} -> "REJECTED" [] OTHER -> "APPROVED"

mapSumsubEventToKycStatus(verdict) ==
    CASE verdict \in {"GREEN", "COMPLETED"} -> "APPROVED"
      [] verdict \in {"RED", "FAILED"} -> "REJECTED"
      [] OTHER -> "PENDING"

\* An approval counts as VERIFIED when the country of the document is known.
StatusFor(verdict) ==
    LET status == mapSumsubEventToKycStatus(verdict)
    IN  IF status = "APPROVED" THEN (IF CountryKnown THEN "VERIFIED" ELSE "UNDER_REVIEW") ELSE status

\* What applySumsubReviewStatus makes of the two entities.
ReviewedKyc(row, verdict) == [row EXCEPT !.status = StatusFor(verdict)]

ReviewedUser(row, verdict) ==
    [row EXCEPT !.status = StatusFor(verdict), !.locked = @ \/ StatusFor(verdict) = "VERIFIED"]

----------------------------------------------------------------------------
(* The provider *)

ProviderDecides(v) ==
    /\ Len(verdicts) < MaxVerdicts
    /\ verdicts' = Append(verdicts, v)
    /\ unacked' = unacked \cup {Len(verdicts) + 1}
    /\ UNCHANGED <<kyc, user, identity, reusable, hook, dossier, clerk, byAdmin, clerkCalls>>

\* Mutant: no check for a duplicate or stale event.
HookBeginUnchecked(e) ==
    /\ hook = {}
    /\ hook' = {[event |-> e, kyc |-> ReviewedKyc(kyc, verdicts[e]),
                 user |-> ReviewedUser(user, verdicts[e])]}
    /\ UNCHANGED <<verdicts, unacked, kyc, user, identity, reusable, dossier, clerk, byAdmin, clerkCalls>>

\* processSumsubWebhook: the advisory lock, the check for a duplicate or stale
\* event, and the entities read; the applicant may then be fetched.
HookBegin(e) ==
    /\ hook = {}
    /\ IF kyc.eventAt >= e
       THEN unacked' = unacked \ {e} /\ UNCHANGED hook
       ELSE hook' = {[event |-> e, kyc |-> ReviewedKyc(kyc, verdicts[e]),
                      user |-> ReviewedUser(user, verdicts[e])]} /\ UNCHANGED unacked
    /\ UNCHANGED <<verdicts, kyc, user, identity, reusable, dossier, clerk, byAdmin, clerkCalls>>

HookCommit ==
    \E w \in hook :
        /\ kyc' = [w.kyc EXCEPT !.eventAt = w.event] /\ user' = w.user
        /\ identity' = (identity \/ w.user.status = "VERIFIED")
        /\ unacked' = unacked \ {w.event}
        /\ dossier' = dossier \cup {w.event}
        /\ hook' = {}
        /\ UNCHANGED <<verdicts, reusable, clerk, byAdmin, clerkCalls>>

\* The transaction fails: 503, and the provider delivers the event again.
HookFails ==
    /\ hook # {} /\ hook' = {}
    /\ UNCHANGED <<verdicts, unacked, kyc, user, identity, reusable, dossier, clerk, byAdmin, clerkCalls>>

\* The answer is lost, or the provider repeats an old event on its own.
ProviderRepeats(e) ==
    /\ unacked' = unacked \cup {e}
    /\ UNCHANGED <<verdicts, kyc, user, identity, reusable, hook, dossier, clerk, byAdmin, clerkCalls>>

\* persistSumsubDossierArtifacts: the update holds for the event's own row only.
persistSumsubDossierArtifacts(e) ==
    /\ kyc' = IF kyc.eventAt = e THEN [kyc EXCEPT !.snapshot = e] ELSE kyc
    /\ dossier' = dossier \ {e}
    /\ UNCHANGED <<verdicts, unacked, user, identity, reusable, hook, clerk, byAdmin, clerkCalls>>

DossierFails(e) ==
    /\ dossier' = dossier \ {e}
    /\ UNCHANGED <<verdicts, unacked, kyc, user, identity, reusable, hook, clerk, byAdmin, clerkCalls>>

----------------------------------------------------------------------------
(* Everyone else.  A request reads both rows, then saves its entities one   *)
(* after the other; left is what is not saved yet, in order.                *)

\* uploadDocument, uploadSelfie and submitKyc set the user to PENDING; the
\* selfie leaves the status of an existing case.
ClerkKyc(op, row, fetched) ==
    CASE op \in {"document", "form"} -> [row EXCEPT !.status = "PENDING"]
      [] op = "selfie" -> [row EXCEPT !.status = IF @ = "NONE" THEN "PENDING" ELSE @]
      [] op = "sync" -> ReviewedKyc(row, fetched)
      [] op = "approve" -> [row EXCEPT !.status = "VERIFIED"]
      [] op = "reject" -> [row EXCEPT !.status = "REJECTED"]
      [] op = "token" -> row

ClerkUser(op, row, fetched) ==
    CASE op \in {"document", "selfie", "form"} -> [row EXCEPT !.status = "PENDING"]
      [] op = "sync" -> ReviewedUser(row, fetched)
      [] OTHER -> row

\* A token reads the case only after the provider's answer.
SaveOrder(op) ==
    CASE op \in {"document", "selfie"} -> <<"user", "kyc">>
      [] op = "token" -> <<"case", "kyc", "user">>
      [] OTHER -> <<"kyc", "user">>

\* syncSumsubStatus fetches the verdict before it reads the rows: it may be old.
ClerkReads(c, op) ==
    /\ clerk[c] = {} /\ clerkCalls < MaxClerkCalls
    /\ op \in {"approve", "reject"} => kyc.status # "NONE"
    /\ \E fetched \in IF op = "sync" THEN Range(verdicts) ELSE {"WAITING"} :
          clerk' = [clerk EXCEPT ![c] = {[op |-> op, left |-> SaveOrder(op),
              kyc |-> ClerkKyc(op, kyc, fetched), user |-> ClerkUser(op, user, fetched)]}]
    /\ clerkCalls' = clerkCalls + 1
    /\ UNCHANGED <<verdicts, unacked, kyc, user, identity, reusable, hook, dossier, byAdmin>>

\* createSumsubSdkToken spares a verified user or case: of the user entity it read
\* before, and of the case as it is now.
MintedToken(r) ==
    LET row == [kyc EXCEPT !.status = IF @ = "NONE" THEN "PENDING" ELSE @]
    IN  [r EXCEPT !.left = <<"kyc", "user">>, !.kyc = row,
                  !.user.status = IF {r.user.status, row.status} \cap Verified = {} THEN "PENDING" ELSE @]

TokenReads(c) ==
    \E r \in clerk[c] :
        /\ Head(r.left) = "case"
        /\ clerk' = [clerk EXCEPT ![c] = {MintedToken(r)}]
        /\ UNCHANGED <<verdicts, unacked, kyc, user, identity, reusable, hook, dossier, byAdmin, clerkCalls>>

\* The whole entity, its last_provider_event_at too.
ClerkSavesKyc(c) ==
    \E r \in clerk[c] :
        LET rest == [r EXCEPT !.left = Tail(@)]
        IN  /\ Head(r.left) = "kyc"
            /\ kyc' = r.kyc
            /\ clerk' = [clerk EXCEPT ![c] = IF rest.left = <<>> THEN {} ELSE {rest}]
            /\ byAdmin' = (byAdmin \/ r.op = "approve")
            /\ UNCHANGED <<verdicts, unacked, user, identity, reusable, hook, dossier, clerkCalls>>

\* An approval by an admin is passed on for reuse; a failure of that is ignored.
syncFromKycApproval(shared, verified) ==
    /\ identity' = (identity \/ shared \/ verified)
    /\ reusable' = (reusable \/ shared)

\* Admins update columns of the user; the others save the entity.
ClerkSavesUser(c) ==
    \E r \in clerk[c], shared \in BOOLEAN :
        LET rest == [r EXCEPT !.left = Tail(@)]
        IN  /\ Head(r.left) = "user"
            /\ shared => r.op = "approve"
            /\ user' = CASE r.op = "approve" -> [status |-> "APPROVED", locked |-> TRUE]
                         [] r.op = "reject" -> [user EXCEPT !.status = "REJECTED"]
                         [] OTHER -> r.user
            /\ syncFromKycApproval(shared, r.op = "sync" /\ r.user.status = "VERIFIED")
            /\ clerk' = [clerk EXCEPT ![c] = IF rest.left = <<>> THEN {} ELSE {rest}]
            /\ UNCHANGED <<verdicts, unacked, kyc, hook, dossier, byAdmin, clerkCalls>>

ClerkFails(c) ==
    /\ clerk[c] # {}
    /\ clerk' = [clerk EXCEPT ![c] = {}]
    /\ UNCHANGED <<verdicts, unacked, kyc, user, identity, reusable, hook, dossier, byAdmin, clerkCalls>>

----------------------------------------------------------------------------

KycInit ==
    /\ verdicts = <<>> /\ unacked = {}
    /\ kyc = [status |-> "NONE", eventAt |-> 0, snapshot |-> 0]
    /\ user = [status |-> "NONE", locked |-> FALSE]
    /\ identity = FALSE /\ reusable = FALSE
    /\ hook = {} /\ dossier = {}
    /\ clerk = [c \in Clerks |-> {}]
    /\ byAdmin = FALSE /\ clerkCalls = 0

KycNext ==
    \/ \E v \in ProviderVerdict : ProviderDecides(v)
    \/ \E e \in unacked : HookBegin(e)
    \/ HookCommit \/ HookFails
    \/ \E e \in DOMAIN verdicts \ unacked : ProviderRepeats(e)
    \/ \E e \in dossier : persistSumsubDossierArtifacts(e) \/ DossierFails(e)
    \/ \E c \in Clerks :
          \/ \E op \in ClerkOps : ClerkReads(c, op)
          \/ TokenReads(c) \/ ClerkSavesKyc(c) \/ ClerkSavesUser(c) \/ ClerkFails(c)

KycSpec == KycInit /\ [][KycNext]_kycVars

----------------------------------------------------------------------------

KycTypeOK ==
    /\ kyc \in KycProfileRow /\ user \in UserRow
    /\ unacked \subseteq 1..Len(verdicts) /\ dossier \subseteq 1..Len(verdicts)

\* Nobody counts as verified, in any of the four places that say so, unless
\* the provider approved them or an admin did: also when stale entities of
\* tokens, uploads and syncs are saved over newer ones.
VerifiedWasGranted ==
    (kyc.status = "VERIFIED" \/ user.status \in Verified \/ identity \/ reusable)
    => byAdmin \/ \E i \in DOMAIN verdicts : verdicts[i] \in Approvals

\* Of the events acknowledged to the provider none is newer than the one the
\* case shows, and both rows show its verdict.
NewestShown ==
    /\ \A e \in DOMAIN verdicts \ unacked : e <= kyc.eventAt
    /\ kyc.eventAt > 0 => /\ kyc.status = StatusFor(verdicts[kyc.eventAt])
                          /\ user.status = kyc.status

\* While only the provider writes, the newest verdict stands: no delivery, however
\* repeated, reordered or failed, takes the case back to an older event or is
\* acknowledged before its verdict, or a newer one, is in both rows.
NewestVerdictStands ==
    [][clerkCalls' = 0 => NewestShown' /\ kyc'.eventAt >= kyc.eventAt]_kycVars

----------------------------------------------------------------------------
(* The inductive invariant behind the two above. *)

Granted == byAdmin \/ \E i \in DOMAIN verdicts : verdicts[i] \in Approvals

HookRecords == [event : Nat, kyc : [status : KycStatus, eventAt : Nat, snapshot : Nat], user : UserRow]
ClerkRecords ==
    [op : ClerkOps,
     left : {<<"case", "kyc", "user">>, <<"kyc", "user">>, <<"user", "kyc">>, <<"kyc">>, <<"user">>},
     kyc : [status : KycStatus, eventAt : Nat, snapshot : Nat], user : UserRow]

KycTables ==
    /\ verdicts \in Seq(ProviderVerdict) /\ unacked \subseteq DOMAIN verdicts
    /\ kyc \in [status : KycStatus, eventAt : Nat, snapshot : Nat] /\ user \in UserRow
    /\ identity \in BOOLEAN /\ reusable \in BOOLEAN /\ byAdmin \in BOOLEAN
    /\ hook \in SUBSET HookRecords /\ clerk \in [Clerks -> SUBSET ClerkRecords]
    /\ clerkCalls \in Nat /\ dossier \subseteq Nat

\* The webhook under way carries the verdict of its event in both rows, and an
\* event newer than the last one.
HookSound ==
    \A w \in hook : /\ w.event \in DOMAIN verdicts
                    /\ w.kyc.status = StatusFor(verdicts[w.event])
                    /\ w.user.status = w.kyc.status
                    /\ clerkCalls = 0 => kyc.eventAt < w.event

\* What a request still has to save was granted, or is the grant of its admin:
\* who saves the case before the user.
ClerkSound(r) ==
    /\ r.user.status \in Verified => Granted
    /\ r.kyc.status = "VERIFIED" => Granted \/ r.op = "approve"
    /\ r.op = "approve" => r.left = <<"kyc", "user">> \/ (byAdmin /\ r.left = <<"user">>)

KycInv ==
    /\ KycTables /\ HookSound
    /\ \A c \in Clerks : \A r \in clerk[c] : ClerkSound(r)
    /\ VerifiedWasGranted
    /\ clerkCalls = 0 => \A c \in Clerks : clerk[c] = {}
    /\ clerkCalls = 0 /\ kyc.eventAt > 0 => kyc.eventAt \in DOMAIN verdicts
    /\ clerkCalls = 0 => NewestShown
=============================================================================
