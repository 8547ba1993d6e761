-------------------------- MODULE OperationalSignals --------------------------
(***************************************************************************)
(* Operational signals of one support ticket (OperationalIntelligence      *)
(* Service): every event on a ticket, and every listing of it, evaluates   *)
(* the SLA and a few rules, and raises, keeps or resolves the rows of      *)
(* stays_support_operational_signals; staff acknowledge and resolve them   *)
(* by hand.  Nothing locks: rows are read, changed and saved whole, and    *)
(* repository.save is one step here.                                       *)
(***************************************************************************)
EXTENDS Integers, FiniteSets

CONSTANTS
    Instants,       \* milliseconds since the one the ticket was opened in, at which
                    \* things happen
    OpenedMicros,   \* microseconds of created_at past that millisecond
    Urgencies,      \* priorities the ticket may have
    Evaluations,    \* evaluations and
    Patches,        \* changes by staff in flight at a time
    MaxEvents,      \* bound: changes of the ticket and
    MaxEvaluations  \* evaluations and changes of signals of a behaviour

\* What a timestamp has past its milliseconds.
Micros == 0..999

ASSUME SignalsAssumption ==
    /\ Instants \subseteq Nat /\ 0 \in Instants /\ MaxEvents \in Nat /\ MaxEvaluations \in Nat
    /\ Urgencies \subseteq {"LOW", "NORMAL", "HIGH", "URGENT"} /\ Urgencies # {}
    /\ OpenedMicros \subseteq Micros /\ OpenedMicros # {}

VARIABLES
    clock,      \* the time; the service reads it in milliseconds
    case,       \* the ticket: urgency, open, owner, times of first answer and resolution
                \* (in milliseconds), and the microseconds of its creation
    signal,     \* per type: status of its row, NONE without one
    evaluation, \* per evaluation: {} or what it wants and the rows it has read
    patch,      \* per change: {} or the type and status it will save
    settled,    \* history: {} or what the last undisturbed evaluation wanted
    events      \* numbers of events and evaluations so far

signalVars == <<clock, case, signal, evaluation, patch, settled, events>>

SignalType == {"SLA_ATTENTION", "SLA_BREACHED", "UNASSIGNED_HIGH_PRIORITY", "MULTIPLE_OPEN_TICKETS"}
Standing == {"ACTIVE", "ACKNOWLEDGED"}

HourMs == 3600000

\* SUPPORT_SLA, in milliseconds.
SUPPORT_SLA ==
    [LOW |-> [firstResponse |-> 24 * HourMs, resolution |-> 120 * HourMs],
     NORMAL |-> [firstResponse |-> 12 * HourMs, resolution |-> 72 * HourMs],
     HIGH |-> [firstResponse |-> 4 * HourMs, resolution |-> 24 * HourMs],
     URGENT |-> [firstResponse |-> HourMs, resolution |-> 8 * HourMs]]

\* Mutant: what is done on the target counts as late.
SlaStateStrict(target, done, now) ==
    CASE \E d \in done : d < target -> "ON_TRACK"
      [] done # {} /\ ~\E d \in done : d < target -> "BREACHED"
      [] done = {} /\ 5 * now < 4 * target -> "ON_TRACK"
      [] done = {} /\ 5 * now >= 4 * target /\ now < target -> "AT_RISK"
      [] OTHER -> "BREACHED"

\* slaStateFor; done is {} or the time of completion.  Its Dates have
\* milliseconds: created_at is read without its microseconds.
slaStateFor(target, done, now) ==
    CASE \E d \in done : d <= target -> "ON_TRACK"
      [] done # {} /\ ~\E d \in done : d <= target -> "BREACHED"
      [] done = {} /\ 5 * now < 4 * target -> "ON_TRACK"
      [] done = {} /\ 5 * now >= 4 * target /\ now < target -> "AT_RISK"
      [] OTHER -> "BREACHED"

\* computeSupportSla: the states of the two legs.
computeSupportSla(c, now) ==
    {slaStateFor(SUPPORT_SLA[c.urgency].firstResponse, c.answered, now),
     slaStateFor(SUPPORT_SLA[c.urgency].resolution, c.resolved, now)}

Worst(legs) ==
    IF "BREACHED" \in legs THEN "BREACHED" ELSE IF "AT_RISK" \in legs THEN "AT_RISK" ELSE "ON_TRACK"

\* slaLegSql: the same in the database, on timestamps with microseconds.  All
\* thresholds are whole milliseconds: a time that passed is below one exactly
\* when its whole milliseconds are, and a completion, stored in milliseconds, is
\* by the target of created_at exactly when it is by the target without micros.
slaLegSql(hours, micros, done, now) ==
    LET elapsed == IF micros = 0 THEN now ELSE now - 1
    IN  IF done # {} THEN IF \A d \in done : d <= HourMs * hours THEN "ON_TRACK" ELSE "BREACHED"
        ELSE IF 5 * elapsed < 4 * HourMs * hours THEN "ON_TRACK"
             ELSE IF elapsed < HourMs * hours THEN "AT_RISK" ELSE "BREACHED"

\* liveSlaStateSql, for lists and filters.
liveSlaStateSql(c, now) ==
    LET hours == CASE c.urgency = "LOW" -> <<24, 120>> [] c.urgency = "HIGH" -> <<4, 24>>
                   [] c.urgency = "URGENT" -> <<1, 8>> [] OTHER -> <<12, 72>>
    IN  Worst({slaLegSql(hours[1], c.micros, c.answered, now),
               slaLegSql(hours[2], c.micros, c.resolved, now)})

MULTIPLE_OPEN_TICKETS_MIN == 3

\* ticketScopedDesires and evaluateMultipleOpenTicketsDesire; others counts the
\* requester's other open tickets.
Desires(c, now) ==
    {k \in SignalType :
        CASE k = "SLA_ATTENTION" -> "AT_RISK" \in computeSupportSla(c, now)
          [] k = "SLA_BREACHED" -> "BREACHED" \in computeSupportSla(c, now)
          [] k = "UNASSIGNED_HIGH_PRIORITY" ->
                c.open /\ c.urgency \in {"HIGH", "URGENT"} /\ ~c.owned
          [] k = "MULTIPLE_OPEN_TICKETS" ->
                c.others + (IF c.open THEN 1 ELSE 0) >= MULTIPLE_OPEN_TICKETS_MIN}

----------------------------------------------------------------------------
(* The ticket *)

Happens(f, max) == events[f] < max /\ events' = [events EXCEPT ![f] = @ + 1]

Tick(t) ==
    /\ t > clock /\ clock' = t
    /\ UNCHANGED <<case, signal, evaluation, patch, settled, events>>

CaseChanges(next) ==
    /\ next # case /\ Happens("case", MaxEvents)
    /\ case' = next
    /\ UNCHANGED <<clock, signal, evaluation, patch, settled>>

\* What SupportTicketsService does to a ticket, as far as signals look at it:
\* first_admin_response_at and resolved_at are set once.
CaseEvent ==
    \/ \E u \in Urgencies : CaseChanges([case EXCEPT !.urgency = u])
    \/ \E o \in BOOLEAN : CaseChanges([case EXCEPT !.owned = o])
    \/ CaseChanges([case EXCEPT !.answered = IF @ = {} THEN {clock} ELSE @])
    \/ CaseChanges([case EXCEPT !.open = FALSE, !.resolved = IF @ = {} THEN {clock} ELSE @])
    \/ CaseChanges([case EXCEPT !.open = TRUE])
    \/ \E n \in {0, 2, 3} : CaseChanges([case EXCEPT !.others = n])

----------------------------------------------------------------------------
(* applyDesires *)

\* Another request has written signals: evaluations under way are disturbed.
Disturb(f) == [e \in Evaluations |-> {[x EXCEPT !.calm = FALSE] : x \in f[e]}]

evaluateTicket(e) ==
    /\ evaluation[e] = {} /\ Happens("signals", MaxEvaluations)
    /\ evaluation' = [evaluation EXCEPT ![e] =
           {[want |-> Desires(case, clock), rows |-> signal, read |-> FALSE,
             retried |-> FALSE, calm |-> TRUE]}]
    /\ UNCHANGED <<clock, case, signal, patch, settled>>

ReadSignals(e) ==
    \E x \in evaluation[e] :
        /\ ~x.read
        /\ evaluation' = [evaluation EXCEPT ![e] = {[x EXCEPT !.rows = signal, !.read = TRUE]}]
        /\ UNCHANGED <<clock, case, signal, patch, settled, events>>

\* Mutant: a resolved row is never raised again.
RaiseUnresolved(status) == IF status = "NONE" THEN "ACTIVE" ELSE status

\* A wanted signal: its row is created, kept or raised again.
Raised(status) == IF status \in {"NONE", "RESOLVED"} THEN "ACTIVE" ELSE status

\* A signal not wanted is resolved where its row exists.
Applied(x) ==
    [k \in SignalType |->
        IF k \in x.want THEN Raised(x.rows[k])
        ELSE IF x.rows[k] \in Standing THEN "RESOLVED" ELSE x.rows[k]]

\* The rows are saved as the image has them, except those resolved already.
Saved(x) ==
    [k \in SignalType |->
        IF k \in x.want \/ x.rows[k] \in Standing THEN Applied(x)[k] ELSE signal[k]]

\* UNIQUE(dedupe_key): a row that another evaluation created in between.
Collides(x) == \E k \in x.want : x.rows[k] = "NONE" /\ signal[k] # "NONE"

SaveSignals(e) ==
    \E x \in evaluation[e] :
        /\ x.read /\ ~Collides(x)
        /\ signal' = Saved(x)
        /\ evaluation' = [Disturb(evaluation) EXCEPT ![e] = {}]
        /\ settled' = IF x.calm THEN {x.want} ELSE {}
        /\ UNCHANGED <<clock, case, patch, events>>

\* The transaction of save rolls back; the rows are read again, once.
RetryOrGiveUp(e) ==
    \E x \in evaluation[e] :
        /\ x.read /\ Collides(x)
        /\ evaluation' = [evaluation EXCEPT ![e] =
               IF x.retried THEN {} ELSE {[x EXCEPT !.read = FALSE, !.retried = TRUE]}]
        /\ UNCHANGED <<clock, case, signal, patch, settled, events>>

\* safeEvaluate swallows any failure.
EvaluationFails(e) ==
    /\ evaluation[e] # {}
    /\ evaluation' = [evaluation EXCEPT ![e] = {}]
    /\ UNCHANGED <<clock, case, signal, patch, settled, events>>

\* patchSignal: the transition is checked on the row as read, then saved.
PatchReads(p, k, next) ==
    /\ patch[p] = {} /\ Happens("signals", MaxEvaluations)
    /\ \/ signal[k] = "ACTIVE"
       \/ signal[k] = "ACKNOWLEDGED" /\ next = "RESOLVED"
    /\ patch' = [patch EXCEPT ![p] = {<<k, next>>}]
    /\ UNCHANGED <<clock, case, signal, evaluation, settled>>

patchSignal(p) ==
    \E x \in patch[p] :
        /\ signal' = [signal EXCEPT ![x[1]] = x[2]]
        /\ patch' = [patch EXCEPT ![p] = {}]
        /\ evaluation' = Disturb(evaluation)
        /\ settled' = {}
        /\ UNCHANGED <<clock, case, events>>

----------------------------------------------------------------------------

\* The ticket is new, or was resolved at once.
SignalsInit ==
    /\ clock = 0
    /\ case \in [urgency : Urgencies, open : BOOLEAN, owned : {FALSE}, others : {0},
                 answered : {{}}, resolved : {{}, {0}}, micros : OpenedMicros]
    /\ case.resolved = IF case.open THEN {} ELSE {0}
    /\ signal = [k \in SignalType |-> "NONE"]
    /\ evaluation = [e \in Evaluations |-> {}]
    /\ patch = [p \in Patches |-> {}]
    /\ settled = {}
    /\ events = [case |-> 0, signals |-> 0]

SignalsNext ==
    \/ \E t \in Instants : Tick(t)
    \/ CaseEvent
    \/ \E e \in Evaluations : \/ evaluateTicket(e) \/ ReadSignals(e) \/ SaveSignals(e)
                              \/ RetryOrGiveUp(e) \/ EvaluationFails(e)
    \/ \E p \in Patches : \/ \E k \in SignalType, s \in {"ACKNOWLEDGED", "RESOLVED"} : PatchReads(p, k, s)
                          \/ patchSignal(p)

SignalsSpec == SignalsInit /\ [][SignalsNext]_signalVars

----------------------------------------------------------------------------

SignalsTypeOK ==
    /\ clock \in Instants
    /\ signal \in [SignalType -> {"NONE", "ACTIVE", "ACKNOWLEDGED", "RESOLVED"}]
    /\ \A e \in Evaluations : Cardinality(evaluation[e]) <= 1

\* The SLA that lists are filtered by is the one the ticket shows, the boundaries
\* included, for any answer and resolution time; except that a ticket opened
\* between two milliseconds is listed as it was shown one millisecond earlier, so
\* that the two differ in the very millisecond an open leg reaches 80% or 100%.
SlaViewsAgree ==
    LET shown == Worst(computeSupportSla(case, clock))
        justBefore == Worst(computeSupportSla(case, clock - 1))
        listed == liveSlaStateSql(case, clock)
    IN  listed = IF case.micros = 0 THEN shown ELSE justBefore

\* After an evaluation that no other writer disturbed, the signals standing are
\* exactly those it wanted: also after rows were resolved by hand, raced for at
\* the unique key, or left behind by evaluations that failed.
SignalsSettle ==
    \A want \in settled : {k \in SignalType : signal[k] \in Standing} = want

----------------------------------------------------------------------------
(* The inductive invariant behind the two above. *)

\* A time is set at most once, on an instant of the clock.
CaseShape ==
    /\ case \in [urgency : Urgencies, open : BOOLEAN, owned : BOOLEAN, others : {0, 2, 3},
                 answered : SUBSET Nat, resolved : SUBSET Nat, micros : Micros]
    /\ \A done \in {case.answered, case.resolved} : \A d1, d2 \in done : d1 = d2
    /\ clock \in Nat

SignalStatus == {"NONE", "ACTIVE", "ACKNOWLEDGED", "RESOLVED"}

EvaluationRecords ==
    [want : SUBSET SignalType, rows : [SignalType -> SignalStatus], read : BOOLEAN,
     retried : BOOLEAN, calm : BOOLEAN]

\* What an undisturbed evaluation has read is what the rows are.
EvaluationsSound ==
    /\ signal \in [SignalType -> SignalStatus]
    /\ evaluation \in [Evaluations -> SUBSET EvaluationRecords]
    /\ patch \in [Patches -> SUBSET (SignalType \X SignalStatus)]
    /\ \A e \in Evaluations : \A x \in evaluation[e] : x.read /\ x.calm => x.rows = signal

SignalsInv == CaseShape /\ EvaluationsSound /\ SignalsSettle
=============================================================================
