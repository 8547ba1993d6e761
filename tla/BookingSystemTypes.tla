------------------------- MODULE BookingSystemTypes -------------------------
(***************************************************************************)
(* Type correctness of BookingSystem, for every value of the constants.    *)
(*                                                                         *)
(* The types are dependent: a request that is past its first step refers   *)
(* to a row.  The first lemmas say what the progress records of requests,  *)
(* jobs and gateway calls look like; then there is one lemma per           *)
(* component, which keeps those record sets closed.                        *)
(***************************************************************************)
EXTENDS BookingSystem, TLAPS

\* Recording an answer in a metadata image gives a metadata image.
LEMMA MetadataUpdates ==
    ASSUME NEW m \in Metadata, NEW ok \in BOOLEAN
    PROVE  /\ [m EXCEPT !.capture = Answer(ok)] \in Metadata
           /\ [m EXCEPT !.void = Answer(ok)] \in Metadata
           /\ [m EXCEPT !.refund = Answer(ok)] \in Metadata
BY DEF Metadata, Answer, Results

\* The image a caller starts from.
LEMMA EmptyMetadataType == EmptyMetadata \in Metadata
BY DEF EmptyMetadata, Metadata, Results

\* The gateway calls the procedures construct are gateway calls.
LEMMA GwConstructors ==
    /\ \A i \in Intents, m \in Metadata :
         AfterConfirm(i, m) \in GwCalls /\ GwCall("patch", 0, i, m, FALSE) \in GwCalls
    /\ \A i \in Intents : RetryCapture(i) \in GwCalls /\ VoidPreAuth(i) \in GwCalls
    /\ \A i \in Intents, ok \in BOOLEAN :
         GwCall("voidRead", 0, i, EmptyMetadata, ok) \in GwCalls
    /\ \A b \in Bookings : RefundBooking(b) \in GwCalls
    /\ \A b \in Bookings, i \in Intents, m \in Metadata :
         /\ GwCall("refundCall", b, i, m, FALSE) \in GwCalls
         /\ GwCall("patch", b, i, m, TRUE) \in GwCalls
         /\ GwCall("patch", b, i, m, FALSE) \in GwCalls
         /\ GwCall("settle", b, i, m, TRUE) \in GwCalls
<1> USE EmptyMetadataType DEF GwCalls, GwCall
<1>1. ASSUME NEW i \in Intents, NEW m \in Metadata
      PROVE  /\ AfterConfirm(i, m) \in IntentCalls \cup {IdleGw}
             /\ GwCall("patch", 0, i, m, FALSE) \in PatchCalls
  BY DEF AfterConfirm, IntentCalls, IntentPcs, PatchCalls
<1>2. ASSUME NEW i \in Intents
      PROVE  RetryCapture(i) \in IntentCalls /\ VoidPreAuth(i) \in IntentCalls
  BY DEF RetryCapture, VoidPreAuth, IntentCalls, IntentPcs
<1>3. ASSUME NEW i \in Intents, NEW ok \in BOOLEAN
      PROVE  GwCall("voidRead", 0, i, EmptyMetadata, ok) \in IntentCalls
  BY DEF IntentCalls, IntentPcs
<1>4. ASSUME NEW b \in Bookings, NEW i \in Intents, NEW m \in Metadata
      PROVE  /\ GwCall("refundCall", b, i, m, FALSE) \in RefundCalls
             /\ GwCall("patch", b, i, m, TRUE) \in RefundCalls
             /\ GwCall("patch", b, i, m, FALSE) \in RefundCalls
             /\ GwCall("settle", b, i, m, TRUE) \in RefundCalls
  BY DEF RefundCalls, RefundPcs
<1> QED BY <1>1, <1>2, <1>3, <1>4

\* A ledger row stays one when a payment or a refund is added, or a pending
\* refund settled.
LEMMA LedgerUpdates ==
    ASSUME NEW r \in LedgerRows
    PROVE  /\ [r EXCEPT !.payment = r.payment + 1] \in LedgerRows
           /\ [r EXCEPT !.refundPending = r.refundPending + 1] \in LedgerRows
           /\ r.refundPending > 0 =>
                [r EXCEPT !.refundPending = r.refundPending - 1,
                          !.refundSettled = r.refundSettled + 1] \in LedgerRows
<1>1. r.payment \in Nat /\ r.refundPending \in Nat /\ r.refundSettled \in Nat
  BY DEF LedgerRows
<1>2. [r EXCEPT !.payment = r.payment + 1] \in LedgerRows
  BY <1>1 DEF LedgerRows
<1>3. [r EXCEPT !.refundPending = r.refundPending + 1] \in LedgerRows
  BY <1>1 DEF LedgerRows
<1>4. ASSUME r.refundPending > 0
      PROVE  [r EXCEPT !.refundPending = r.refundPending - 1,
                       !.refundSettled = r.refundSettled + 1] \in LedgerRows
  <2>1. r.refundPending - 1 \in Nat /\ r.refundSettled + 1 \in Nat
    BY <1>1, <1>4
  <2> QED BY <2>1 DEF LedgerRows
<1> QED BY <1>2, <1>3, <1>4

\* A caller that awaits nothing.
LEMMA IdleGwType == IdleGw \in GwCalls
BY DEF GwCalls

\* What a gateway call refers to, by the step it is at.
LEMMA GwShape ==
    ASSUME NEW g \in GwCalls
    PROVE  /\ g.pc \in IntentPcs \cup RefundPcs => g.intent \in Intents /\ g.meta \in Metadata
           /\ g.pc \in {"refundRead", "refundCall", "settle"} => g.booking \in Bookings
           /\ g.pc = "patch" /\ g.ok => g.booking \in Bookings
           /\ g.ok \in BOOLEAN
<1>1. CASE g \in IntentCalls
  BY <1>1 DEF IntentCalls, IntentPcs, RefundPcs
<1>2. CASE g \in PatchCalls
  BY <1>2 DEF PatchCalls, IntentPcs, RefundPcs
<1>3. CASE g \in RefundCalls
  BY <1>3 DEF RefundCalls, IntentPcs, RefundPcs
<1>4. CASE g \in {RefundBooking(b) : b \in Bookings}
  <2>1. PICK b \in Bookings : g = RefundBooking(b)
    BY <1>4
  <2>2. g.pc = "refundRead" /\ g.booking = b /\ g.ok = FALSE
    BY <2>1 DEF RefundBooking, GwCall
  <2> QED BY <2>2 DEF IntentPcs, RefundPcs
<1>5. CASE g = IdleGw
  BY <1>5 DEF IdleGw, GwCall, IntentPcs, RefundPcs
<1> QED BY <1>1, <1>2, <1>3, <1>4, <1>5 DEF GwCalls

\* createOrGetIntent past its first read has a booking.
LEMMA IntentReqShape ==
    ASSUME NEW r \in IntentReqStates, r.pc # "idle",
           NEW pc \in {"check", "lookup", "insert", "expire", "cancelIntents"}
    PROVE  /\ r.booking \in Bookings
           /\ r.key \in Keys \cup {NoKey}
           /\ [r EXCEPT !.pc = pc] \in IntentReqStates
BY DEF IntentReqStates, IdleIntentReq

\* confirmPaymentSuccess past its first read has an intent.
LEMMA ConfirmShape ==
    ASSUME NEW r \in ConfirmStates, r.pc # "idle"
    PROVE  /\ r.intent \in Intents
           /\ r.meta \in Metadata
           /\ [r EXCEPT !.pc = "lockBooking"] \in ConfirmStates
BY DEF ConfirmStates, IdleConfirm

\* A cancellation past its first read has a booking.
LEMMA CancelShape ==
    ASSUME NEW r \in CancelStates, r.pc # "idle", NEW v \in SUBSET Intents
    PROVE  /\ r.booking \in Bookings
           /\ r.by \in CancelledStatuses
           /\ r.voids \in SUBSET Intents
           /\ [r EXCEPT !.pc = "locked"] \in CancelStates
           /\ [r EXCEPT !.pc = "voiding", !.voids = v] \in CancelStates
           /\ [r EXCEPT !.voids = v] \in CancelStates
<1> DEFINE Active == [pc : {"lock", "locked", "voiding"}, booking : Bookings,
                      by : CancelledStatuses, refundable : BOOLEAN, voids : SUBSET Intents]
<1>1. r \in Active
  BY DEF CancelStates, IdleCancel
<1>2. /\ r.booking \in Bookings
      /\ r.by \in CancelledStatuses
      /\ r.voids \in SUBSET Intents
  BY <1>1
<1>3. [r EXCEPT !.pc = "locked"] \in Active
  BY <1>1
<1>4. [r EXCEPT !.pc = "voiding", !.voids = v] \in Active
  BY <1>1
<1>5. [r EXCEPT !.voids = v] \in Active
  BY <1>1
<1> QED BY <1>2, <1>3, <1>4, <1>5 DEF CancelStates

\* The records of a run of expirePendingPayments.
LEMMA ExpireShape ==
    ASSUME NEW r \in ExpireStates, NEW v \in SUBSET Intents, NEW b \in Bookings,
           NEW t \in SUBSET Bookings
    PROVE  /\ r.todo \in SUBSET Bookings
           /\ r.voids \in SUBSET Intents
           /\ r.pc \in {"readIntents", "voiding"} =>
                /\ r.booking \in Bookings
                /\ [r EXCEPT !.pc = "voiding", !.voids = v] \in ExpireStates
           /\ r.pc = "voiding" => [r EXCEPT !.voids = v] \in ExpireStates
           /\ [pc |-> "readIntents", todo |-> t, booking |-> b, voids |-> {}] \in ExpireStates
BY DEF ExpireStates

\* A run that is idle or looks for its next booking.
LEMMA NextExpiryType ==
    ASSUME NEW t \in SUBSET Bookings
    PROVE  /\ NextExpiry(t) \in ExpireStates
           /\ [IdleExpire EXCEPT !.pc = "next", !.todo = t] \in ExpireStates
           /\ IdleExpire \in ExpireStates
BY DEF NextExpiry, IdleExpire, ExpireStates

----------------------------------------------------------------------------
\* createBooking, host blocks and the clock keep every type.
LEMMA CreationKeepsTypes ==
    ASSUME TypeOK, TimePasses \/ CreationStep
    PROVE  TypeOK'
<1> USE TablesAssumption DEF TypeOK, CmiTypeOK, PaymentsTypeOK, CancellationTypeOK,
        SchedulerTypeOK, cmi, jobs
<1>1. CASE TimePasses
  BY <1>1 DEF TimePasses, Tick, TablesTypeOK, CreationTypeOK
<1>2. ASSUME NEW c \in CreateReqs, CreateCheck(c),
             UNCHANGED <<cmi, intentReq, confirm, cancel, jobs>>
      PROVE  TypeOK'
  BY <1>2 DEF CreateCheck, TablesTypeOK, CreationTypeOK, CheckedCreates, tables
<1>3. ASSUME NEW c \in CreateReqs, CreateInsert(c),
             UNCHANGED <<cmi, intentReq, confirm, cancel, jobs>>
      PROVE  TypeOK'
  <2>1. TablesTypeOK'
    BY <1>3 DEF CreateInsert, TablesTypeOK, CreationTypeOK, CheckedCreates, IdleCreate,
                StayRows, BookingStatus
  <2> QED BY <1>3, <2>1 DEF CreateInsert, CreationTypeOK
<1>4. ASSUME NEW c \in CreateReqs, CreateAbort(c),
             UNCHANGED <<cmi, intentReq, confirm, cancel, jobs>>
      PROVE  TypeOK'
  BY <1>4 DEF CreateAbort, TablesTypeOK, CreationTypeOK, tables
<1>5. ASSUME NEW l \in Listings, setHostAvailabilityBlock(l),
             UNCHANGED <<cmi, intentReq, confirm, cancel, jobs>>
      PROVE  TypeOK'
  BY <1>5 DEF setHostAvailabilityBlock, TablesTypeOK, CreationTypeOK, Nights
<1> QED BY <1>1, <1>2, <1>3, <1>4, <1>5 DEF CreationStep

\* The gateway procedures keep the types of metadata, auth, gw and ledger.
LEMMA GatewayKeepsTypes ==
    ASSUME TypeOK, GatewayStep
    PROVE  TypeOK'
<1> USE DEF TypeOK, CreationTypeOK, PaymentsTypeOK, CancellationTypeOK, SchedulerTypeOK, jobs
<1> DEFINE Rest == UNCHANGED <<create, intentReq, confirm, cancel, jobs>>
<1>1. ASSUME NEW i \in Intents, GuestAuthorizes(i), Rest
      PROVE  TypeOK'
  BY <1>1 DEF GuestAuthorizes, TablesTypeOK, CmiTypeOK, AuthStates, tables
<1>2. ASSUME NEW a \in GwCallers, CmiStep(a), Rest
      PROVE  TypeOK'
  <2> USE GwShape, GwConstructors, IdleGwType DEF CmiTypeOK, IntentPcs, RefundPcs
  <2>t. ASSUME UNCHANGED tables PROVE TablesTypeOK'
    BY <2>t DEF TablesTypeOK, tables
  <2>m. ASSUME NEW i \in Intents, NEW before, NEW after \in AuthStates, NEW ok \in BOOLEAN,
               merchantRequest(i, before, after, ok)
        PROVE  auth' \in [Intents -> AuthStates]
    BY <2>m DEF merchantRequest
  <2>0. gw[a] \in GwCalls
    OBVIOUS
  <2>1. CASE CaptureRead(a)
    <3>1. gw[a].intent \in Intents
      BY <2>0, <2>1 DEF CaptureRead
    <3>2. gw' \in [GwCallers -> GwCalls]
      BY <2>1, <3>1 DEF CaptureRead
    <3> QED BY <1>2, <2>1, <2>t, <3>2 DEF CaptureRead
  <2>2. CASE CaptureCall(a)
    <3>1. PICK ok \in BOOLEAN :
            /\ gw[a].pc = "captureCall"
            /\ merchantRequest(gw[a].intent, "AUTHORIZED", "CAPTURED", ok)
            /\ gw' = [gw EXCEPT ![a] = GwCall("patch", 0, gw[a].intent,
                                [gw[a].meta EXCEPT !.capture = Answer(ok)], FALSE)]
            /\ UNCHANGED <<tables, metadata>>
      BY <2>2 DEF CaptureCall
    <3>2. gw[a].intent \in Intents /\ gw[a].meta \in Metadata
      BY <3>1
    <3>3. [gw[a].meta EXCEPT !.capture = Answer(ok)] \in Metadata
      BY <3>2, MetadataUpdates
    <3>4. gw' \in [GwCallers -> GwCalls]
      BY <3>1, <3>2, <3>3
    <3>5. auth' \in [Intents -> AuthStates]
      BY <2>m, <3>1, <3>2 DEF AuthStates
    <3> QED BY <1>2, <2>t, <3>1, <3>4, <3>5
  <2>3. CASE VoidCall(a)
    <3>1. PICK ok \in BOOLEAN :
            /\ gw[a].pc = "voidCall"
            /\ merchantRequest(gw[a].intent, "AUTHORIZED", "VOIDED", ok)
            /\ gw' = [gw EXCEPT ![a] = GwCall("voidRead", 0, gw[a].intent, EmptyMetadata, ok)]
            /\ UNCHANGED <<tables, metadata>>
      BY <2>3 DEF VoidCall
    <3>2. gw[a].intent \in Intents /\ gw[a].meta \in Metadata
      BY <3>1
    <3>3. gw' \in [GwCallers -> GwCalls]
      BY <3>1, <3>2
    <3>4. auth' \in [Intents -> AuthStates]
      BY <2>m, <3>1, <3>2 DEF AuthStates
    <3> QED BY <1>2, <2>t, <3>1, <3>3, <3>4
  <2>4. CASE VoidRead(a)
    <3>1. gw[a].intent \in Intents /\ gw[a].ok \in BOOLEAN
      BY <2>4 DEF VoidRead
    <3>2. [metadata[gw[a].intent] EXCEPT !.void = Answer(gw[a].ok)] \in Metadata
      BY <3>1, MetadataUpdates
    <3>3. gw' \in [GwCallers -> GwCalls]
      BY <2>4, <3>1, <3>2 DEF VoidRead
    <3> QED BY <1>2, <2>t, <2>4, <3>3 DEF VoidRead
  <2>5. CASE RefundRead(a)
    <3>1. SucceededIntents(gw[a].booking) \subseteq Intents
      BY DEF SucceededIntents, IntentsOf
    <3>2. gw[a].booking \in Bookings
      BY <2>5 DEF RefundRead
    <3>3. gw' \in [GwCallers -> GwCalls]
      <4>1. CASE gw' = [gw EXCEPT ![a] = IdleGw]
        BY <4>1
      <4>2. ASSUME NEW i \in SucceededIntents(gw[a].booking),
                   gw' = [gw EXCEPT ![a] =
                            GwCall("refundCall", gw[a].booking, i, metadata[i], FALSE)]
            PROVE  gw' \in [GwCallers -> GwCalls]
        <5>1. GwCall("refundCall", gw[a].booking, i, metadata[i], FALSE) \in GwCalls
          BY <3>1, <3>2
        <5> QED BY <4>2, <5>1
      <4> QED BY <2>5, <4>1, <4>2 DEF RefundRead
    <3> QED BY <1>2, <2>5, <2>t, <3>3 DEF RefundRead
  <2>6. CASE RefundCall(a)
    <3>1. PICK ok \in BOOLEAN :
            /\ gw[a].pc = "refundCall"
            /\ merchantRequest(gw[a].intent, "CAPTURED", "CREDITED", ok)
            /\ gw' = [gw EXCEPT ![a] = GwCall("patch", gw[a].booking, gw[a].intent,
                                [gw[a].meta EXCEPT !.refund = Answer(ok)], ok)]
            /\ UNCHANGED <<tables, metadata>>
      BY <2>6 DEF RefundCall
    <3>2. gw[a].intent \in Intents /\ gw[a].meta \in Metadata /\ gw[a].booking \in Bookings
      BY <3>1
    <3>3. [gw[a].meta EXCEPT !.refund = Answer(ok)] \in Metadata
      BY <3>2, MetadataUpdates
    <3>4. gw' \in [GwCallers -> GwCalls]
      BY <3>1, <3>2, <3>3
    <3>5. auth' \in [Intents -> AuthStates]
      BY <2>m, <3>1, <3>2 DEF AuthStates
    <3> QED BY <1>2, <2>t, <3>1, <3>4, <3>5
  <2>7. CASE PatchIntentMetadata(a)
    BY <1>2, <2>7, <2>t DEF PatchIntentMetadata
  <2>8. CASE SettleRefund(a)
    <3> DEFINE b == gw[a].booking
    <3>1. b \in Bookings /\ ledger \in [Bookings -> LedgerRows]
      BY <2>8 DEF SettleRefund, TablesTypeOK
    <3>2. ledger[b].refundPending > 0 =>
            [ledger[b] EXCEPT !.refundPending = ledger[b].refundPending - 1,
                              !.refundSettled = ledger[b].refundSettled + 1] \in LedgerRows
      BY <3>1, LedgerUpdates
    <3>3. ledger' = IF ledger[b].refundPending > 0
                    THEN [ledger EXCEPT ![b] =
                            [ledger[b] EXCEPT !.refundPending = ledger[b].refundPending - 1,
                                              !.refundSettled = ledger[b].refundSettled + 1]]
                    ELSE ledger
      BY <2>8, <3>1 DEF SettleRefund
    <3>4. ledger' \in [Bookings -> LedgerRows]
      BY <3>1, <3>2, <3>3
    <3>5. gw' \in [GwCallers -> GwCalls]
      BY <2>8 DEF SettleRefund
    <3> QED BY <1>2, <2>8, <3>4, <3>5 DEF SettleRefund, TablesTypeOK
  <2>9. CASE CmiThrows(a)
    BY <1>2, <2>9, <2>t DEF CmiThrows
  <2> QED BY <1>2, <2>1, <2>2, <2>3, <2>4, <2>5, <2>6, <2>7, <2>8, <2>9 DEF CmiStep
<1> QED BY <1>1, <1>2 DEF GatewayStep

\* createOrGetIntent and confirmPaymentSuccess.
LEMMA PaymentsKeepTypes ==
    ASSUME TypeOK, PaymentStep, UNCHANGED jobs
    PROVE  TypeOK'
<1> USE DEF TypeOK, CreationTypeOK, CancellationTypeOK, SchedulerTypeOK, jobs, cmi, tables,
        TablesTypeOK, PaymentsTypeOK, CmiTypeOK
<1>a. IdleIntentReq \in IntentReqStates /\ IdleConfirm \in ConfirmStates
  BY DEF IntentReqStates, ConfirmStates
<1>b. \A i \in Intents, s \in IntentStatus :
        [intentStatus EXCEPT ![i] = s] \in [Intents -> IntentStatus]
  OBVIOUS
<1>1. ASSUME NEW p \in IntentReqs, IntentRead(p)
      PROVE  TypeOK'
  BY <1>1 DEF IntentRead, IntentReqStates
<1>2. ASSUME NEW p \in IntentReqs, IntentCheck(p)
      PROVE  TypeOK'
  <2>1. /\ [intentReq[p] EXCEPT !.pc = "expire"] \in IntentReqStates
        /\ [intentReq[p] EXCEPT !.pc = "lookup"] \in IntentReqStates
    BY <1>2, IntentReqShape DEF IntentCheck
  <2>2. \/ intentReq' = [intentReq EXCEPT ![p] = [intentReq[p] EXCEPT !.pc = "expire"]]
        \/ intentReq' = [intentReq EXCEPT ![p] = [intentReq[p] EXCEPT !.pc = "lookup"]]
    BY <1>2 DEF IntentCheck
  <2>3. intentReq' \in [IntentReqs -> IntentReqStates]
    BY <2>1, <2>2
  <2> QED BY <1>2, <2>3 DEF IntentCheck
<1>13. ASSUME NEW p \in IntentReqs, IntentLookup(p)
       PROVE  TypeOK'
  <2>1. [intentReq[p] EXCEPT !.pc = "insert"] \in IntentReqStates
    BY <1>13, IntentReqShape DEF IntentLookup
  <2> QED BY <1>13, <1>a, <2>1 DEF IntentLookup
<1>3. ASSUME NEW p \in IntentReqs, IntentInsert(p)
      PROVE  TypeOK'
  <2>1. intentReq[p].booking \in Bookings /\ intentReq[p].key \in Keys \cup {NoKey}
    BY <1>3, IntentReqShape DEF IntentInsert
  <2>2. [booking |-> intentReq[p].booking, key |-> intentReq[p].key] \in IntentRows
    BY <2>1 DEF IntentRows
  <2> QED BY <1>3, <1>a, <2>2 DEF IntentInsert, IntentStatus
<1>4. ASSUME NEW p \in IntentReqs, IntentExpireBooking(p)
      PROVE  TypeOK'
  <2>1. [intentReq[p] EXCEPT !.pc = "cancelIntents"] \in IntentReqStates
    BY <1>4, IntentReqShape DEF IntentExpireBooking
  <2>2. intentReq' \in [IntentReqs -> IntentReqStates]
    BY <1>4, <2>1 DEF IntentExpireBooking
  <2> QED BY <1>4, <2>2 DEF IntentExpireBooking, BookingStatus
<1>5. ASSUME NEW p \in IntentReqs, IntentCancelPending(p)
      PROVE  TypeOK'
  BY <1>5, <1>a DEF IntentCancelPending, CancelPendingIntents, IntentStatus
<1>6. ASSUME NEW p \in IntentReqs, IntentAbort(p)
      PROVE  TypeOK'
  BY <1>6, <1>a DEF IntentAbort
<1>7. ASSUME NEW w \in ConfirmReqs, ConfirmBegin(w)
      PROVE  TypeOK'
  BY <1>7 DEF ConfirmBegin, ConfirmStates
<1>c. ASSUME NEW w \in ConfirmReqs, NEW g \in GwCalls
      PROVE  [gw EXCEPT ![w] = g] \in [GwCallers -> GwCalls]
  OBVIOUS
<1>d. ASSUME NEW w \in ConfirmReqs, confirm[w].pc # "idle"
      PROVE  /\ confirm[w].intent \in Intents
             /\ RetryCapture(confirm[w].intent) \in GwCalls
             /\ VoidPreAuth(confirm[w].intent) \in GwCalls
             /\ AfterConfirm(confirm[w].intent, confirm[w].meta) \in GwCalls
             /\ [confirm[w] EXCEPT !.pc = "lockBooking"] \in ConfirmStates
  BY <1>d, ConfirmShape, GwConstructors
<1>e. ASSUME NEW w \in ConfirmReqs, confirm[w].pc # "idle", AlreadyProcessed(w)
      PROVE  CmiTypeOK' /\ confirm' \in [ConfirmReqs -> ConfirmStates]
  BY <1>a, <1>c, <1>d, <1>e DEF AlreadyProcessed
<1>8. ASSUME NEW w \in ConfirmReqs, ConfirmLockIntent(w)
      PROVE  TypeOK'
  <2> DEFINE i == confirm[w].intent
  <2>0. confirm[w].pc # "idle"
    BY <1>8 DEF ConfirmLockIntent
  <2>1. CmiTypeOK' /\ confirm' \in [ConfirmReqs -> ConfirmStates]
    BY <1>8, <1>d, <1>e, <2>0 DEF ConfirmLockIntent
  <2>2. intentStatus' \in [Intents -> IntentStatus]
    BY <1>8 DEF ConfirmLockIntent, IntentStatus
  <2> QED BY <1>8, <2>1, <2>2 DEF ConfirmLockIntent
<1>9. ASSUME NEW w \in ConfirmReqs, ConfirmNotPayable(w)
      PROVE  TypeOK'
  <2>0. confirm[w].pc # "idle"
    BY <1>9 DEF ConfirmNotPayable
  <2>1. CmiTypeOK' /\ confirm' \in [ConfirmReqs -> ConfirmStates]
    BY <1>9, <1>a, <1>e, <2>0 DEF ConfirmNotPayable
  <2> QED BY <1>9, <2>1 DEF ConfirmNotPayable
<1>10. ASSUME NEW w \in ConfirmReqs, ConfirmDatesUnavailable(w)
       PROVE  TypeOK'
  <2>0. confirm[w].pc # "idle"
    BY <1>10 DEF ConfirmDatesUnavailable, Payable
  <2>1. gw' \in [GwCallers -> GwCalls]
    BY <1>10, <1>c, <1>d, <2>0 DEF ConfirmDatesUnavailable
  <2> QED BY <1>10, <1>a, <2>1 DEF ConfirmDatesUnavailable, IntentStatus, BookingStatus
<1>11. ASSUME NEW w \in ConfirmReqs, ConfirmSucceeds(w)
       PROVE  TypeOK'
  <2> DEFINE b == intentRow[confirm[w].intent].booking
  <2>0. confirm[w].pc # "idle"
    BY <1>11 DEF ConfirmSucceeds, Payable
  <2>1. gw' \in [GwCallers -> GwCalls]
    BY <1>11, <1>c, <1>d, <2>0 DEF ConfirmSucceeds
  <2>2. ledger' = [ledger EXCEPT ![b] = [ledger[b] EXCEPT !.payment = ledger[b].payment + 1]]
    BY <1>11 DEF ConfirmSucceeds
  <2>3. b \in Bookings => [ledger[b] EXCEPT !.payment = ledger[b].payment + 1] \in LedgerRows
    BY LedgerUpdates
  <2>4. ledger' \in [Bookings -> LedgerRows]
    BY <2>2, <2>3
  <2> QED BY <1>11, <1>a, <2>1, <2>4 DEF ConfirmSucceeds, IntentStatus, BookingStatus
<1>12. ASSUME NEW w \in ConfirmReqs, ConfirmAbort(w)
       PROVE  TypeOK'
  BY <1>12, <1>a, IdleGwType DEF ConfirmAbort
<1> QED BY <1>1, <1>2, <1>3, <1>4, <1>5, <1>6, <1>7, <1>8, <1>9, <1>10, <1>11, <1>12, <1>13
        DEF PaymentStep

\* cancel.
LEMMA CancellationKeepsTypes ==
    ASSUME TypeOK, CancellationStep, UNCHANGED jobs
    PROVE  TypeOK'
<1> USE DEF TypeOK, CreationTypeOK, PaymentsTypeOK, SchedulerTypeOK, CancellationTypeOK,
        jobs, cmi, tables, TablesTypeOK, CmiTypeOK
<1>a. IdleCancel \in CancelStates
  BY DEF CancelStates
<1>b. {} \in SUBSET Intents
  OBVIOUS
<1>1. ASSUME NEW x \in CancelReqs, CancelBegin(x)
      PROVE  TypeOK'
  BY <1>1 DEF CancelBegin, CancelStates
<1>2. ASSUME NEW x \in CancelReqs, CancelLockBooking(x)
      PROVE  TypeOK'
  <2>1. [cancel[x] EXCEPT !.pc = "locked"] \in CancelStates
    BY <1>2, <1>b, CancelShape DEF CancelLockBooking
  <2> QED BY <1>2, <1>a, <2>1 DEF CancelLockBooking
<1>3. ASSUME NEW x \in CancelReqs, CancelCommit(x)
      PROVE  TypeOK'
  <2> DEFINE b == cancel[x].booking
  <2>1. b \in Bookings /\ cancel[x].by \in CancelledStatuses
    BY <1>3, <1>b, CancelShape DEF CancelCommit
  <2>2. VoidCandidates(b) \in SUBSET Intents
    BY DEF VoidCandidates, IntentsOf
  <2>3. [cancel[x] EXCEPT !.pc = "voiding", !.voids = VoidCandidates(b)] \in CancelStates
    BY <1>3, <2>2, CancelShape DEF CancelCommit
  <2>4. cancel' \in [CancelReqs -> CancelStates]
    BY <1>3, <1>a, <2>3 DEF CancelCommit
  <2>5. gw' \in [GwCallers -> GwCalls]
    BY <1>3, <2>1, GwConstructors DEF CancelCommit
  <2>6. ledger' = IF RefundDue(x)
                  THEN [ledger EXCEPT ![b] =
                          [ledger[b] EXCEPT !.refundPending = ledger[b].refundPending + 1]]
                  ELSE ledger
    BY <1>3 DEF CancelCommit
  <2>7. [ledger[b] EXCEPT !.refundPending = ledger[b].refundPending + 1] \in LedgerRows
    BY <2>1, LedgerUpdates
  <2>8. ledger' \in [Bookings -> LedgerRows]
    BY <2>6, <2>7
  <2>9. intentStatus' \in [Intents -> IntentStatus]
    BY <1>3 DEF CancelCommit, CancelPendingIntents, IntentStatus
  <2> QED BY <1>3, <2>1, <2>4, <2>5, <2>8, <2>9 DEF CancelCommit, BookingStatus, CancelledStatuses
<1>4. ASSUME NEW x \in CancelReqs, CancelVoidNext(x)
      PROVE  TypeOK'
  <2>1. PICK i \in cancel[x].voids :
          /\ cancel[x].pc = "voiding"
          /\ gw' = [gw EXCEPT ![x] = VoidPreAuth(i)]
          /\ cancel' = [cancel EXCEPT ![x] =
                          IF cancel[x].voids = {i} THEN IdleCancel
                          ELSE [cancel[x] EXCEPT !.voids = cancel[x].voids \ {i}]]
          /\ UNCHANGED <<tables, create, metadata, auth, intentReq, confirm>>
    BY <1>4 DEF CancelVoidNext
  <2>2. cancel[x].voids \in SUBSET Intents
    BY <1>b, <2>1, CancelShape
  <2>3. [cancel[x] EXCEPT !.voids = cancel[x].voids \ {i}] \in CancelStates
    BY <2>1, <2>2, CancelShape
  <2>4. VoidPreAuth(i) \in GwCalls
    BY <2>2, GwConstructors
  <2> QED BY <1>a, <2>1, <2>3, <2>4
<1>5. ASSUME NEW x \in CancelReqs, CancelAbort(x)
      PROVE  TypeOK'
  BY <1>5, <1>a, IdleGwType DEF CancelAbort
<1> QED BY <1>1, <1>2, <1>3, <1>4, <1>5 DEF CancellationStep

\* The cron jobs.
LEMMA SchedulerKeepsTypes ==
    ASSUME TypeOK, SchedulerStep
    PROVE  TypeOK'
<1> USE DEF TypeOK, CreationTypeOK, PaymentsTypeOK, CancellationTypeOK, SchedulerTypeOK,
        others, cmi, tables, TablesTypeOK, CmiTypeOK
<1>1. ASSUME NEW e \in ExpireJobs, ExpireFind(e)
      PROVE  TypeOK'
  <2>1. ExpireCandidates \in SUBSET Bookings
    BY DEF ExpireCandidates
  <2> QED BY <1>1, <2>1, NextExpiryType DEF ExpireFind
<1>2. ASSUME NEW e \in ExpireJobs, ExpireBooking(e)
      PROVE  TypeOK'
  <2>1. PICK b \in expireJob[e].todo :
          \/ /\ status' = [status EXCEPT ![b] = "EXPIRED"]
             /\ expireJob' = [expireJob EXCEPT ![e] =
                   [pc |-> "readIntents", todo |-> expireJob[e].todo \ {b},
                    booking |-> b, voids |-> {}]]
          \/ /\ expireJob' = [expireJob EXCEPT ![e] = NextExpiry(expireJob[e].todo \ {b})]
             /\ UNCHANGED status
    BY <1>2 DEF ExpireBooking
  <2>2. b \in Bookings /\ expireJob[e].todo \ {b} \in SUBSET Bookings
    <3>1. expireJob[e].todo \in SUBSET Bookings
      BY DEF ExpireStates
    <3> QED BY <3>1
  <2>3. /\ [pc |-> "readIntents", todo |-> expireJob[e].todo \ {b},
            booking |-> b, voids |-> {}] \in ExpireStates
        /\ NextExpiry(expireJob[e].todo \ {b}) \in ExpireStates
    BY <2>2, NextExpiryType DEF ExpireStates
  <2>4. expireJob' \in [ExpireJobs -> ExpireStates]
    BY <2>1, <2>3
  <2>5. status' \in [Bookings -> BookingStatus]
    BY <2>1 DEF BookingStatus
  <2> QED BY <1>2, <2>4, <2>5 DEF ExpireBooking
<1>3. ASSUME NEW e \in ExpireJobs, ExpireReadIntents(e)
      PROVE  TypeOK'
  <2> DEFINE v == IF Provider = "cmi" THEN PendingIntents(expireJob[e].booking) ELSE {}
  <2>1. v \in SUBSET Intents
    BY DEF PendingIntents, IntentsOf
  <2>2. expireJob' = [expireJob EXCEPT ![e] =
                        [expireJob[e] EXCEPT !.pc = "voiding", !.voids = v]]
    BY <1>3 DEF ExpireReadIntents
  <2>3. expireJob[e].booking \in Bookings
    BY <1>3 DEF ExpireReadIntents, ExpireStates
  <2> HIDE DEF v
  <2>4. [expireJob[e] EXCEPT !.pc = "voiding", !.voids = v] \in ExpireStates
    BY <1>3, <2>1, <2>3, ExpireShape DEF ExpireReadIntents
  <2> QED BY <1>3, <2>2, <2>4 DEF ExpireReadIntents
<1>4. ASSUME NEW e \in ExpireJobs, ExpireVoidNext(e)
      PROVE  TypeOK'
  <2>1. PICK i \in expireJob[e].voids :
          /\ expireJob[e].pc = "voiding"
          /\ gw' = [gw EXCEPT ![e] = VoidPreAuth(i)]
          /\ expireJob' = [expireJob EXCEPT ![e] =
                             [expireJob[e] EXCEPT !.voids = expireJob[e].voids \ {i}]]
    BY <1>4 DEF ExpireVoidNext
  <2>2. expireJob[e].voids \in SUBSET Intents /\ expireJob[e].booking \in Bookings
    BY <2>1 DEF ExpireStates
  <2>3. [expireJob[e] EXCEPT !.voids = expireJob[e].voids \ {i}] \in ExpireStates
    BY <2>1, <2>2, ExpireShape
  <2>4. VoidPreAuth(i) \in GwCalls
    BY <2>2, GwConstructors
  <2> QED BY <1>4, <2>1, <2>3, <2>4 DEF ExpireVoidNext
<1>5. ASSUME NEW e \in ExpireJobs, ExpireCancelIntents(e)
      PROVE  TypeOK'
  <2>1. expireJob[e].todo \in SUBSET Bookings
    BY DEF ExpireStates
  <2>2. NextExpiry(expireJob[e].todo) \in ExpireStates
    BY <2>1, NextExpiryType
  <2>3. intentStatus' \in [Intents -> IntentStatus]
    BY <1>5 DEF ExpireCancelIntents, CancelPendingIntents, IntentStatus
  <2> QED BY <1>5, <2>2, <2>3 DEF ExpireCancelIntents
<1>6. ASSUME NEW e \in ExpireJobs, ExpireCrash(e)
      PROVE  TypeOK'
  BY <1>6, IdleGwType, NextExpiryType DEF ExpireCrash
<1>7. ASSUME NEW j \in CompleteJobs, CompleteFind(j)
      PROVE  TypeOK'
  BY <1>7 DEF CompleteFind, PastStays, CheckoutDayStays
<1>8. ASSUME NEW j \in CompleteJobs, CompleteBooking(j)
      PROVE  TypeOK'
  BY <1>8 DEF CompleteBooking, BookingStatus
<1>9. ASSUME NEW j \in CompleteJobs, CompleteCrash(j)
      PROVE  TypeOK'
  BY <1>9 DEF CompleteCrash
<1>10. ASSUME NEW e \in ExpireJobs, ExpireFails(e)
       PROVE  TypeOK'
  <2>1. expireJob[e].todo \in SUBSET Bookings
    BY DEF ExpireStates
  <2>2. PICK t \in SUBSET Bookings : expireJob' = [expireJob EXCEPT ![e] = NextExpiry(t)]
    <3>1. ASSUME NEW b \in expireJob[e].todo,
                 expireJob' = [expireJob EXCEPT ![e] = NextExpiry(expireJob[e].todo \ {b})]
          PROVE  \E t \in SUBSET Bookings : expireJob' = [expireJob EXCEPT ![e] = NextExpiry(t)]
      BY <2>1, <3>1
    <3> QED BY <1>10, <2>1, <3>1 DEF ExpireFails
  <2>3. NextExpiry(t) \in ExpireStates
    BY NextExpiryType
  <2> QED BY <1>10, <2>2, <2>3 DEF ExpireFails
<1>11. ASSUME NEW j \in CompleteJobs, CompleteFails(j)
       PROVE  TypeOK'
  BY <1>11 DEF CompleteFails
<1> QED BY <1>1, <1>2, <1>3, <1>4, <1>5, <1>6, <1>7, <1>8, <1>9, <1>10, <1>11
        DEF SchedulerStep, ExpireStep, CompleteStep

----------------------------------------------------------------------------
\* The initial tables are empty and every request is idle.
LEMMA InitTypes == Init => TypeOK
<1> SUFFICES ASSUME Init PROVE TypeOK
  OBVIOUS
<1> USE TablesAssumption DEF Init
<1>1. TablesTypeOK
  BY DEF TablesInit, TablesTypeOK, BookingStatus, IntentStatus, LedgerRows, EmptyLedger
<1>2. CreationTypeOK
  BY DEF CreationInit, CreationTypeOK
<1>3. CmiTypeOK
  BY EmptyMetadataType, IdleGwType DEF CmiInit, CmiTypeOK, AuthStates
<1>4. PaymentsTypeOK
  BY DEF PaymentsInit, PaymentsTypeOK, IntentReqStates, ConfirmStates
<1>5. CancellationTypeOK
  BY DEF CancellationInit, CancellationTypeOK, CancelStates
<1>6. SchedulerTypeOK
  BY NextExpiryType DEF SchedulerInit, SchedulerTypeOK
<1> QED BY <1>1, <1>2, <1>3, <1>4, <1>5, <1>6 DEF TypeOK

\* A step of the system, or a stuttering step, keeps every type.
LEMMA NextTypes == TypeOK /\ [Next]_vars => TypeOK'
<1> SUFFICES ASSUME TypeOK, [Next]_vars PROVE TypeOK'
  OBVIOUS
<1>1. CASE TimePasses \/ CreationStep
  BY <1>1, CreationKeepsTypes
<1>2. CASE GatewayStep
  BY <1>2, GatewayKeepsTypes
<1>3. CASE RequestStep
  BY <1>3, PaymentsKeepTypes, CancellationKeepsTypes DEF RequestStep
<1>4. CASE SchedulerStep
  BY <1>4, SchedulerKeepsTypes
<1>5. CASE UNCHANGED vars
  BY <1>5 DEF vars, tables, cmi, jobs, TypeOK, TablesTypeOK, CreationTypeOK, CmiTypeOK,
              PaymentsTypeOK, CancellationTypeOK, SchedulerTypeOK
<1> QED BY <1>1, <1>2, <1>3, <1>4, <1>5 DEF Next

\* Every variable of the booking core has its type in every reachable state,
\* for any number of listings, bookings, intents, requests and jobs: no
\* request, job or gateway call ever refers to a row outside the tables.
THEOREM TypeCorrect == Spec => []TypeOK
BY InitTypes, NextTypes, PTL DEF Spec
=============================================================================
