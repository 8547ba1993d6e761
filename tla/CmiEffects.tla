----------------------------- MODULE CmiEffects -----------------------------
(***************************************************************************)
(* The CMI side of StaysPaymentsService: captureCmiAfterConfirm,           *)
(* voidCmiPreAuth, refundCmiForBooking and the metadata patches that       *)
(* record what the gateway answered.  All of it runs after the database    *)
(* transaction of its caller has committed, one await at a time, without   *)
(* any lock: every step below is one await.                                *)
(*                                                                         *)
(* gw[a] is the gateway call the caller a is awaiting; a caller awaits at  *)
(* most one.  The gateway itself (auth) is external: it is modelled from   *)
(* the requests CmiPaymentProvider sends and the answers it accepts.       *)
(***************************************************************************)
EXTENDS StaysTables

CONSTANT GwCallers      \* requests and jobs that may call the gateway

VARIABLES
    metadata,   \* stays_payment_intents.metadata, the cmi_*_status keys
    auth,       \* external: the PreAuth of each intent at CMI
    gw          \* the gateway call each caller is awaiting

cmi == <<metadata, auth, gw>>

Results == {"NONE", "SUCCEEDED", "FAILED"}
Metadata == [capture : Results, void : Results, refund : Results]
EmptyMetadata == [capture |-> "NONE", void |-> "NONE", refund |-> "NONE"]
AuthStates == {"NONE", "AUTHORIZED", "CAPTURED", "VOIDED", "CREDITED"}

\* A gateway call: booking is used by refunds, meta is the row image the
\* caller holds and ok is the gateway's answer.
GwCall(pc, b, i, meta, ok) ==
    [pc |-> pc, booking |-> b, intent |-> i, meta |-> meta, ok |-> ok]

IdleGw == GwCall("idle", 0, 0, EmptyMetadata, FALSE)
RefundBooking(b) == GwCall("refundRead", b, 0, EmptyMetadata, FALSE)

IntentPcs == {"captureRead", "captureCall", "voidCall", "voidRead"}
RefundPcs == {"refundCall", "patch", "settle"}
IntentCalls == [pc : IntentPcs, booking : {0}, intent : Intents, meta : Metadata,
                ok : BOOLEAN]
PatchCalls  == [pc : {"patch"}, booking : {0}, intent : Intents, meta : Metadata,
                ok : {FALSE}]
RefundCalls == [pc : RefundPcs, booking : Bookings, intent : Intents, meta : Metadata,
                ok : BOOLEAN]
GwCalls == IntentCalls \cup PatchCalls \cup RefundCalls
             \cup {RefundBooking(b) : b \in Bookings} \cup {IdleGw}

GwFree(a) == gw[a].pc = "idle"

Answer(ok) == IF ok THEN "SUCCEEDED" ELSE "FAILED"

\* How a caller starts each procedure (RefundBooking above is the fourth).
AfterConfirm(i, row) ==
    IF row.capture = "SUCCEEDED" THEN IdleGw ELSE GwCall("captureCall", 0, i, row, FALSE)
RetryCapture(i)      == GwCall("captureRead", 0, i, EmptyMetadata, FALSE)
VoidPreAuth(i)       == GwCall("voidCall", 0, i, EmptyMetadata, FALSE)

----------------------------------------------------------------------------
(* The gateway (external). *)

\* The guest completes the 3D page of an intent.  CMI knows nothing of the
\* booking, so this may happen at any time after the intent was created.
GuestAuthorizes(i) ==
    /\ Provider = "cmi"
    /\ intentStatus[i] # "NONE"
    /\ auth[i] = "NONE"
    /\ auth' = [auth EXCEPT ![i] = "AUTHORIZED"]
    /\ UNCHANGED <<tables, metadata, gw>>

\* CmiPaymentProvider.merchantRequest: executed and answered, executed with
\* the answer lost (reported as a failure), or refused / unreachable.
merchantRequest(i, before, after, ok) ==
    \/ /\ auth[i] = before
       /\ auth' = [auth EXCEPT ![i] = after]
    \/ /\ ~ok
       /\ UNCHANGED auth

----------------------------------------------------------------------------
(* captureCmiAfterConfirm *)

\* Retry path: the row is read first.  In both paths there is nothing to do
\* when the image says SUCCEEDED.
CaptureRead(a) ==
    /\ gw[a].pc = "captureRead"
    /\ gw' = [gw EXCEPT ![a] = AfterConfirm(gw[a].intent, metadata[gw[a].intent])]
    /\ UNCHANGED <<tables, metadata, auth>>

CaptureCall(a) ==
    \E ok \in BOOLEAN :
        /\ gw[a].pc = "captureCall"
        /\ merchantRequest(gw[a].intent, "AUTHORIZED", "CAPTURED", ok)
        /\ gw' = [gw EXCEPT ![a] = GwCall("patch", 0, @.intent,
                                [@.meta EXCEPT !.capture = Answer(ok)], FALSE)]
        /\ UNCHANGED <<tables, metadata>>

----------------------------------------------------------------------------
(* voidCmiPreAuth: the gateway first, then the row is read and patched. *)

VoidCall(a) ==
    \E ok \in BOOLEAN :
        /\ gw[a].pc = "voidCall"
        /\ merchantRequest(gw[a].intent, "AUTHORIZED", "VOIDED", ok)
        /\ gw' = [gw EXCEPT ![a] = GwCall("voidRead", 0, @.intent, EmptyMetadata, ok)]
        /\ UNCHANGED <<tables, metadata>>

VoidRead(a) ==
    /\ gw[a].pc = "voidRead"
    /\ gw' = [gw EXCEPT ![a] = GwCall("patch", 0, @.intent,
                [metadata[@.intent] EXCEPT !.void = Answer(gw[a].ok)], FALSE)]
    /\ UNCHANGED <<tables, metadata, auth>>

----------------------------------------------------------------------------
(* refundCmiForBooking *)

SucceededIntents(b) == {i \in IntentsOf(b) : intentStatus[i] = "SUCCEEDED"}

\* ORDER BY created_at DESC: the latest SUCCEEDED intent of the booking.
RefundRead(a) ==
    /\ gw[a].pc = "refundRead"
    /\ \/ /\ SucceededIntents(gw[a].booking) = {}
          /\ gw' = [gw EXCEPT ![a] = IdleGw]
       \/ \E i \in SucceededIntents(gw[a].booking) :
            /\ \A k \in SucceededIntents(gw[a].booking) : k <= i
            /\ gw' = [gw EXCEPT ![a] =
                         GwCall("refundCall", @.booking, i, metadata[i], FALSE)]
    /\ UNCHANGED <<tables, metadata, auth>>

RefundCall(a) ==
    \E ok \in BOOLEAN :
        /\ gw[a].pc = "refundCall"
        /\ merchantRequest(gw[a].intent, "CAPTURED", "CREDITED", ok)
        /\ gw' = [gw EXCEPT ![a] = GwCall("patch", @.booking, @.intent,
                                [@.meta EXCEPT !.refund = Answer(ok)], ok)]
        /\ UNCHANGED <<tables, metadata>>

\* The latest PENDING REFUND row becomes SETTLED.
SettleRefund(a) ==
    /\ gw[a].pc = "settle"
    /\ ledger' = IF ledger[gw[a].booking].refundPending > 0
                 THEN [ledger EXCEPT ![gw[a].booking].refundPending = @ - 1,
                                     ![gw[a].booking].refundSettled = @ + 1]
                 ELSE ledger
    /\ gw' = [gw EXCEPT ![a] = IdleGw]
    /\ UNCHANGED <<status, stay, intentStatus, intentRow, blocks, now, metadata, auth>>

----------------------------------------------------------------------------
\* Mutant: the REFUND row is settled whatever the gateway answered.
PatchAndSettle(a) ==
    /\ gw[a].pc = "patch"
    /\ metadata' = [metadata EXCEPT ![gw[a].intent] = gw[a].meta]
    /\ gw' = [gw EXCEPT ![a] =
                IF gw[a].booking # 0 THEN GwCall("settle", @.booking, @.intent, @.meta, TRUE)
                                     ELSE IdleGw]
    /\ UNCHANGED <<tables, auth>>

\* patchIntentMetadata overwrites the whole object with the caller's image.
\* ok is set only by an accepted refund, whose REFUND row is settled next.
PatchIntentMetadata(a) ==
    /\ gw[a].pc = "patch"
    /\ metadata' = [metadata EXCEPT ![gw[a].intent] = gw[a].meta]
    /\ gw' = [gw EXCEPT ![a] =
                IF gw[a].ok THEN GwCall("settle", @.booking, @.intent, @.meta, TRUE)
                            ELSE IdleGw]
    /\ UNCHANGED <<tables, auth>>

\* A database statement of a gateway procedure throws: the procedure ends.
\* cancel and the expiry job catch the error and go on, a confirmation ends.
CmiThrows(a) ==
    /\ gw[a].pc \in {"captureRead", "voidRead", "refundRead", "patch", "settle"}
    /\ gw' = [gw EXCEPT ![a] = IdleGw]
    /\ UNCHANGED <<tables, metadata, auth>>

CmiStep(a) ==
    \/ CaptureRead(a)
    \/ CaptureCall(a)
    \/ VoidCall(a)
    \/ VoidRead(a)
    \/ RefundRead(a)
    \/ RefundCall(a)
    \/ PatchIntentMetadata(a)
    \/ SettleRefund(a)
    \/ CmiThrows(a)

CmiInit ==
    /\ metadata = [i \in Intents |-> EmptyMetadata]
    /\ auth = [i \in Intents |-> "NONE"]
    /\ gw = [a \in GwCallers |-> IdleGw]

CmiTypeOK ==
    /\ metadata \in [Intents -> Metadata]
    /\ auth \in [Intents -> AuthStates]
    /\ gw \in [GwCallers -> GwCalls]
============================================================================
