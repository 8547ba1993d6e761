------------------------------ MODULE MCSupport ------------------------------
(***************************************************************************)
(* One instance for the support desk, its signals, the attachments of      *)
(* messages and the accounts of the identity service.  They share no       *)
(* state, so a behaviour runs one of them, chosen by the initial state,    *)
(* and the others stay where they start.                                   *)
(***************************************************************************)
EXTENDS SupportDesk, OperationalSignals, Attachments, PhoneAccounts

VARIABLE part   \* the component that runs

\* The components that are not chosen have a single initial state.
SupportInit ==
    /\ part \in {"desk", "signals", "attachments", "accounts"}
    /\ DeskInit /\ SignalsInit /\ AttachmentsInit /\ PhoneInit
    /\ part # "desk" => \A r \in Reports : report[r] = "NONE"
    /\ part # "signals" => case.urgency = "NORMAL" /\ case.open /\ case.micros = 0
    /\ part # "accounts" => persons = {} /\ WithPhone = {}

SupportNext ==
    /\ UNCHANGED part
    /\ IF part = "desk" THEN DeskNext ELSE UNCHANGED deskVars
    /\ IF part = "signals" THEN SignalsNext ELSE UNCHANGED signalVars
    /\ IF part = "attachments" THEN AttachmentsNext ELSE UNCHANGED attachmentVars
    /\ IF part = "accounts" THEN PhoneNext ELSE UNCHANGED phoneVars

SupportSpec ==
    SupportInit /\ [][SupportNext]_<<deskVars, signalVars, attachmentVars, phoneVars, part>>

\* The rows and counters of the component that runs have their types.
SupportTypeOK ==
    /\ part = "desk" => DeskTypeOK
    /\ part = "signals" => SignalsTypeOK
    /\ part = "attachments" => AttachmentsTypeOK
    /\ part = "accounts" => PhoneTypeOK

==============================================================================
