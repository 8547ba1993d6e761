----------------------------- MODULE SupportDesk -----------------------------
(***************************************************************************)
(* Support tickets: their life from creation to closing and reopening, the *)
(* automatic assignment to agents (SupportAssignmentService), reports and  *)
(* safety issues that open and escalate tickets, the satisfaction survey   *)
(* (CSAT) and its follow-up signal.  Every write of a ticket holds the row *)
(* lock, so a transaction is one step; what is read before it, or through  *)
(* another connection, is a step of its own.                               *)
(***************************************************************************)
EXTENDS Integers, FiniteSets

CONSTANTS
    Tickets,            \* ids of tickets
    HostTickets,        \* those whose requester is a host (party HOST)
    Reports,            \* conversation reports and safety issues
    SafetyIssues,       \* the latter, which open tickets of priority HIGH
    Agents,             \* active support agents
    Admin,              \* an admin; not in the routing roster
    Nobody,
    Callers,            \* escalations and CSAT submissions in flight at a time
    TrustStatus,        \* statuses admins give a report, besides ESCALATED
    PatchStatus,        \* statuses and
    PatchPriority,      \* priorities that staff set by hand
    MaxActive,          \* SUPPORT_MAX_ACTIVE_TICKETS_PER_AGENT
    MaxWrites           \* bound: writes of tickets and reports, escalations begun

ASSUME DeskAssumption ==
    /\ HostTickets \subseteq Tickets /\ SafetyIssues \subseteq Reports
    /\ Admin \notin Agents /\ Nobody \notin Agents \cup {Admin}
    /\ Nobody \notin Reports \cup Tickets
    /\ IsFiniteSet(Tickets) /\ IsFiniteSet(Agents)
    /\ MaxActive \in Nat \ {0} /\ MaxWrites \in Nat
    /\ PatchStatus \subseteq {"OPEN", "IN_PROGRESS", "WAITING_FOR_CUSTOMER",
                              "WAITING_FOR_HOST", "ESCALATED", "RESOLVED", "CLOSED"}
    /\ TrustStatus \subseteq {"OPEN", "REVIEWED", "DISMISSED"}
    /\ PatchPriority \subseteq {"LOW", "NORMAL", "HIGH", "URGENT"}

VARIABLES
    ticket,     \* stays_support_tickets, with the state of the SUPPORT thread
    queued,     \* tickets whose creating request still has to route them
    routing,    \* per ticket: {} or the workloads its routing transaction has read
    held,       \* history: the agent a ticket was routed to and has had since
    broughtBack,\* history: closed tickets whose thread a participant has reopened
    report,     \* status of stays_conversation_reports and stays_safety_issues
    review,     \* per caller: {} or the escalation under way
    survey,     \* per caller: {} or the ticket and agent a submission has read
    csat,       \* per ticket: {} or the agent of its row in stays_support_ticket_csat
    followUp,   \* status of the FOLLOW_UP_REQUIRED signal of a ticket
    writes      \* number of those writes so far

deskVars ==
    <<ticket, queued, routing, held, broughtBack, report, review, survey, csat, followUp, writes>>

TicketStatus == {"OPEN", "IN_PROGRESS", "WAITING_FOR_CUSTOMER", "WAITING_FOR_HOST",
                 "ESCALATED", "RESOLVED", "CLOSED"}
TicketPriority == {"LOW", "NORMAL", "HIGH", "URGENT"}
OPEN_TICKET_STATUSES == TicketStatus \ {"RESOLVED", "CLOSED"}
Staff == Agents \cup {Admin}

\* closedAt: closed_at is set; reviewAgent: review_agent_id; thread: the
\* messaging_state of the conversation.
StaysSupportTicket ==
    [status : TicketStatus \cup {"NONE"}, priority : TicketPriority,
     assigned : Staff \cup {Nobody}, closedAt : BOOLEAN,
     reviewAgent : Staff \cup {Nobody}, report : Reports \cup {Nobody},
     thread : {"ACTIVE", "ARCHIVED", "LOCKED"}]

NoTicket == [status |-> "NONE", priority |-> "NORMAL", assigned |-> Nobody,
             closedAt |-> FALSE, reviewAgent |-> Nobody, report |-> Nobody,
             thread |-> "ACTIVE"]

Exists(t) == ticket[t].status # "NONE"
TicketsOf(r) == {t \in Tickets : Exists(t) /\ ticket[t].report = r}

\* The routing transaction of t holds the row lock of t to its end.
Unlocked(t) == routing[t] = {}

\* t is written; history: an agent keeps a routed ticket while it stays open
\* and assigned to them.
Held(t, row) ==
    held' = [held EXCEPT ![t] = IF row.status \in OPEN_TICKET_STATUSES /\ row.assigned = held[t]
                                THEN held[t] ELSE Nobody]

Write == writes < MaxWrites /\ writes' = writes + 1

UpdateTicket(t, row) ==
    /\ ticket' = [ticket EXCEPT ![t] = row]
    /\ Held(t, row)
    /\ broughtBack' = IF row.closedAt THEN broughtBack ELSE broughtBack \ {t}

SaveTicket(t, row) == Write /\ UpdateTicket(t, row)

InsertTicket(t, row) ==
    /\ ~Exists(t)
    /\ SaveTicket(t, row)
    /\ queued' = queued \cup {t}
    /\ UNCHANGED <<routing, review, survey, csat, followUp>>

----------------------------------------------------------------------------
(* SupportTicketsService: creation *)

NewTicket(r, priority) == [NoTicket EXCEPT !.status = "OPEN", !.report = r, !.priority = priority]

\* createTicketForUser without a report: ticket, thread and first message in
\* one transaction; routing follows the commit.
createTicketForUser(t) == InsertTicket(t, NewTicket(Nobody, "NORMAL")) /\ UNCHANGED report

\* provisionReportWithTicket, provisionSafetyIssueWithTicket.
provisionReportWithTicket(t, r) ==
    /\ report[r] = "NONE"
    /\ report' = [report EXCEPT ![r] = "OPEN"]
    /\ InsertTicket(t, NewTicket(r, IF r \in SafetyIssues THEN "HIGH" ELSE "NORMAL"))

----------------------------------------------------------------------------
(* SupportTicketsService: staff and customer *)

\* assertCanAccessTicket
CanAccess(a, t) == a = Admin \/ ticket[t].assigned = a

\* Mutant: the agent is noted at every first close.
CloseAnew(row) ==
    IF row.closedAt THEN [row EXCEPT !.status = "CLOSED"]
    ELSE [row EXCEPT !.status = "CLOSED", !.closedAt = TRUE, !.thread = "ARCHIVED",
                     !.reviewAgent = row.assigned]

\* The first close since the ticket was opened or reopened archives the thread
\* and notes whom the survey is about, unless that is known already.
Close(row) ==
    IF row.closedAt THEN [row EXCEPT !.status = "CLOSED"]
    ELSE [row EXCEPT !.status = "CLOSED", !.closedAt = TRUE, !.thread = "ARCHIVED",
                     !.reviewAgent = IF @ = Nobody THEN row.assigned ELSE @]

PatchedStatus(row, status) ==
    IF status = "CLOSED" THEN Close(row) ELSE [row EXCEPT !.status = status]

\* Mutant: a generic patch may leave CLOSED.
PatchOutOfClosed(t, a, row) ==
    /\ Exists(t) /\ Unlocked(t) /\ CanAccess(a, t)
    /\ a \in Agents => row.assigned = ticket[t].assigned /\ row.priority = ticket[t].priority
    /\ SaveTicket(t, PatchedStatus(row, row.status))
    /\ UNCHANGED <<queued, routing, report, review, survey, csat, followUp>>

\* patchForAdmin: row is the ticket with the fields of the patch applied; agents
\* set neither assignment nor priority, and only reopening leaves CLOSED.
patchForAdmin(t, a, row) ==
    /\ Exists(t) /\ Unlocked(t) /\ CanAccess(a, t)
    /\ a \in Agents => row.assigned = ticket[t].assigned /\ row.priority = ticket[t].priority
    /\ ticket[t].status = "CLOSED" => row.status = "CLOSED"
    /\ SaveTicket(t, PatchedStatus(row, row.status))
    /\ UNCHANGED <<queued, routing, report, review, survey, csat, followUp>>

\* Only the ACTIVE row; one resolved long ago stays as it is.
resolveActiveFollowUpRequired(status) == IF status = "ACTIVE" THEN "RESOLVED" ELSE status

\* reopenForAdmin; the active follow-up is resolved right after the commit.
reopenForAdmin(t) ==
    /\ ticket[t].status = "CLOSED" /\ Unlocked(t)
    /\ SaveTicket(t, [ticket[t] EXCEPT !.status = IF ticket[t].assigned = Nobody
                                                  THEN "OPEN" ELSE "IN_PROGRESS",
                                       !.closedAt = FALSE, !.thread = "ACTIVE"])
    /\ followUp' = [followUp EXCEPT ![t] = resolveActiveFollowUpRequired(@)]
    /\ UNCHANGED <<queued, routing, report, review, survey, csat>>

\* sendAdminMessage: who answers an unassigned ticket takes it.
sendAdminMessage(t, a) ==
    /\ Exists(t) /\ Unlocked(t) /\ CanAccess(a, t)
    /\ ticket[t].status # "CLOSED"
    /\ SaveTicket(t, [ticket[t] EXCEPT
           !.assigned = IF @ = Nobody THEN a ELSE @,
           !.status = IF @ \in {"OPEN", "WAITING_FOR_CUSTOMER"} THEN "IN_PROGRESS" ELSE @])
    /\ UNCHANGED <<queued, routing, report, review, survey, csat, followUp>>

nextStatusAfterCustomerMessage(t) ==
    CASE ticket[t].status = "RESOLVED" -> "OPEN"
      [] ticket[t].status = "WAITING_FOR_CUSTOMER" -> "IN_PROGRESS"
      [] ticket[t].status = "WAITING_FOR_HOST" /\ t \in HostTickets -> "OPEN"
      [] OTHER -> ticket[t].status

\* A message of the customer: lockTicketForCustomerSend, the insert,
\* applyCustomerSupportMessageEffects, in one transaction.  The permission to
\* write was checked earlier, on an image of the thread.
CustomerMessage(t) ==
    /\ Exists(t) /\ Unlocked(t)
    /\ ticket[t].status # "CLOSED"
    /\ SaveTicket(t, [ticket[t] EXCEPT !.status = nextStatusAfterCustomerMessage(t)])
    /\ UNCHANGED <<queued, routing, report, review, survey, csat, followUp>>

\* block on a SUPPORT thread: the conversation is locked, the ticket is not.
BlockThread(t) ==
    /\ Exists(t)
    /\ Write
    /\ ticket' = [ticket EXCEPT ![t].thread = "LOCKED"]
    /\ UNCHANGED <<queued, routing, held, broughtBack, report, review, survey, csat, followUp>>

\* reopenConversation by a participant: of any thread, whatever its ticket's
\* status; a customer so brings back the thread of a closed ticket, in which
\* the status of the ticket still refuses to send.
reopenConversation(t) ==
    /\ Exists(t)
    /\ Write
    /\ ticket' = [ticket EXCEPT ![t].thread = "ACTIVE"]
    /\ broughtBack' = IF ticket[t].closedAt THEN broughtBack \cup {t} ELSE broughtBack
    /\ UNCHANGED <<queued, routing, held, report, review, survey, csat, followUp>>

----------------------------------------------------------------------------
(* SupportAssignmentService *)

\* queryAssignedAgentWorkload, through a connection of its own.
queryAssignedAgentWorkload ==
    [a \in Agents |-> Cardinality({t \in Tickets :
        ticket[t].assigned = a /\ ticket[t].status \in OPEN_TICKET_STATUSES})]

\* Below the cap; urgent tickets prefer agents with 30% of headroom.
capacityEligibleAgentIds(load, priority) ==
    LET underCap == {a \in Agents : load[a] < MaxActive}
        preferred == {a \in underCap : 10 * load[a] < 7 * MaxActive}
    IN  IF priority \in {"HIGH", "URGENT"} /\ preferred # {} THEN preferred ELSE underCap

\* Mutant: the advisory lock is not taken.
RouteUnserialised(t) ==
    /\ t \in queued /\ Unlocked(t)
    /\ queued' = queued \ {t}
    /\ routing' = [routing EXCEPT ![t] = IF ticket[t].assigned # Nobody THEN {}
                                         ELSE {queryAssignedAgentWorkload}]
    /\ UNCHANGED <<ticket, held, broughtBack, report, review, survey, csat, followUp, writes>>

\* assignLocked up to the workload: the advisory lock lets one routing
\* transaction run at a time; an assigned ticket is left alone.
assignLocked(t) ==
    /\ t \in queued /\ \A u \in Tickets : Unlocked(u)
    /\ queued' = queued \ {t}
    /\ routing' = [routing EXCEPT ![t] = IF ticket[t].assigned # Nobody THEN {}
                                         ELSE {queryAssignedAgentWorkload}]
    /\ UNCHANGED <<ticket, held, broughtBack, report, review, survey, csat, followUp, writes>>

\* The choice among the eligible agents (skills, score, last assignment) is left
\* open, and so is the roster check of the agent chosen, which may refuse all.
CommitAssignment(t) ==
    /\ ~Unlocked(t)
    /\ \E load \in routing[t] :
       \E a \in capacityEligibleAgentIds(load, ticket[t].priority) :
          /\ ticket' = [ticket EXCEPT ![t].assigned = a]
          /\ held' = [held EXCEPT ![t] = IF ticket[t].status \in OPEN_TICKET_STATUSES
                                         THEN a ELSE Nobody]
    /\ routing' = [routing EXCEPT ![t] = {}]
    /\ UNCHANGED <<queued, broughtBack, report, review, survey, csat, followUp, writes>>

\* No agent left, or any failure: attemptAutoAssignment is fail-soft.
GiveUpAssignment(t) ==
    /\ ~Unlocked(t)
    /\ routing' = [routing EXCEPT ![t] = {}]
    /\ UNCHANGED <<ticket, queued, held, broughtBack, report, review, survey, csat, followUp, writes>>

\* The process stops between the commit that opened t and its routing.
RoutingLost(t) ==
    /\ t \in queued
    /\ queued' = queued \ {t}
    /\ UNCHANGED <<ticket, routing, held, broughtBack, report, review, survey, csat, followUp, writes>>

----------------------------------------------------------------------------
(* Reports: applyTrustStatus *)

SetTrustStatus(r, next) ==
    /\ report[r] # "NONE" /\ Write
    /\ report' = [report EXCEPT ![r] = next]
    /\ UNCHANGED <<ticket, queued, routing, held, broughtBack, review, survey, csat, followUp>>

\* Escalation, first half: the ticket of the report is looked up without a lock.
EscalateFind(v, r) ==
    /\ review[v] = {} /\ survey[v] = {} /\ report[r] # "NONE" /\ Write
    /\ review' = [review EXCEPT ![v] =
           {[report |-> r, seen |-> {<<t, ticket[t].priority>> : t \in TicketsOf(r)}]}]
    /\ UNCHANGED <<ticket, queued, routing, held, broughtBack, report, survey, csat, followUp>>

\* Mutant: the unique index on report_id is missing.
EnsureAnother(r, t) == ~Exists(t)

\* ensureTicketForReport: insert, or on 23505 reuse the ticket that exists now.
EnsureTicket(r, t) == IF TicketsOf(r) = {} THEN ~Exists(t) ELSE t \in TicketsOf(r)

\* Escalation, second half: the ticket exists and is HIGH unless its image was
\* URGENT, then the report is ESCALATED.
EscalateCommit(v) ==
    \E e \in review[v], t \in Tickets :
        LET found == e.seen # {}
            urgent == IF found THEN <<t, "URGENT">> \in e.seen ELSE ticket[t].priority = "URGENT"
            row == IF Exists(t) THEN ticket[t] ELSE NewTicket(e.report, "HIGH")
        IN  /\ IF found THEN \E x \in e.seen : x[1] = t ELSE EnsureTicket(e.report, t)
            /\ Unlocked(t)
            /\ UpdateTicket(t, [row EXCEPT !.priority = IF urgent THEN @ ELSE "HIGH"])
            /\ report' = [report EXCEPT ![e.report] = "ESCALATED"]
            /\ queued' = IF found THEN queued ELSE queued \cup {t}
            /\ review' = [review EXCEPT ![v] = {}]
            /\ UNCHANGED <<routing, survey, csat, followUp, writes>>

EscalateAbort(v) ==
    /\ review[v] # {}
    /\ review' = [review EXCEPT ![v] = {}]
    /\ UNCHANGED <<ticket, queued, routing, held, broughtBack, report, survey, csat, followUp, writes>>

----------------------------------------------------------------------------
(* CSAT *)

\* A survey that says the problem is not solved; never raises a resolved row again.
upsertFollowUpRequired(status, solved) == IF status = "NONE" /\ ~solved THEN "ACTIVE" ELSE status

\* submitCsatForUser up to the check for an earlier answer.
SubmitCsat(p, t) ==
    /\ survey[p] = {} /\ review[p] = {}
    /\ ticket[t].status = "CLOSED" /\ csat[t] = {}
    /\ survey' = [survey EXCEPT ![p] = {<<t, ticket[t].reviewAgent>>}]
    /\ UNCHANGED <<ticket, queued, routing, held, broughtBack, report, review, csat, followUp, writes>>

\* The insert under the unique index, then upsertFollowUpRequired.
SaveCsat(p, solved) ==
    /\ \E s \in survey[p] :
          IF csat[s[1]] # {} THEN UNCHANGED <<csat, followUp>>
          ELSE /\ csat' = [csat EXCEPT ![s[1]] = {s[2]}]
               /\ followUp' = [followUp EXCEPT ![s[1]] = upsertFollowUpRequired(@, solved)]
    /\ survey' = [survey EXCEPT ![p] = {}]
    /\ UNCHANGED <<ticket, queued, routing, held, broughtBack, report, review, writes>>

\* Mutant: a follow-up may be acknowledged like any other signal.
AcknowledgeFollowUp(t) ==
    /\ followUp[t] = "ACTIVE"
    /\ followUp' = [followUp EXCEPT ![t] = "ACKNOWLEDGED"]
    /\ UNCHANGED <<ticket, queued, routing, held, broughtBack, report, review, survey, csat, writes>>

\* patchSignal on the follow-up: resolved, never acknowledged.
ResolveFollowUp(t) ==
    /\ followUp[t] = "ACTIVE"
    /\ followUp' = [followUp EXCEPT ![t] = "RESOLVED"]
    /\ UNCHANGED <<ticket, queued, routing, held, broughtBack, report, review, survey, csat, writes>>

----------------------------------------------------------------------------

\* Reports were stored before tickets were opened for them.
DeskInit ==
    /\ ticket = [t \in Tickets |-> NoTicket]
    /\ queued = {}
    /\ routing = [t \in Tickets |-> {}]
    /\ held = [t \in Tickets |-> Nobody]
    /\ broughtBack = {}
    /\ report \in [Reports -> {"NONE", "OPEN"}]
    /\ review = [v \in Callers |-> {}]
    /\ survey = [p \in Callers |-> {}]
    /\ csat = [t \in Tickets |-> {}]
    /\ followUp = [t \in Tickets |-> "NONE"]
    /\ writes = 0

StaffStep(t, a) ==
    \/ \E s \in PatchStatus \cup {ticket[t].status}, p \in PatchPriority \cup {ticket[t].priority},
           x \in Staff \cup {Nobody} :
          patchForAdmin(t, a, [ticket[t] EXCEPT !.status = s, !.priority = p, !.assigned = x])
    \/ sendAdminMessage(t, a)

RoutingStep(t) == assignLocked(t) \/ CommitAssignment(t) \/ GiveUpAssignment(t) \/ RoutingLost(t)

ReviewStep(v) == (\E r \in Reports : EscalateFind(v, r)) \/ EscalateCommit(v) \/ EscalateAbort(v)

SurveyStep(p) == (\E t \in Tickets : SubmitCsat(p, t)) \/ \E solved \in BOOLEAN : SaveCsat(p, solved)

DeskNext ==
    \/ \E t \in Tickets :
          \/ createTicketForUser(t)
          \/ \E r \in Reports : provisionReportWithTicket(t, r)
          \/ \E a \in Staff : StaffStep(t, a)
          \/ reopenForAdmin(t)
          \/ CustomerMessage(t)
          \/ BlockThread(t)
          \/ reopenConversation(t)
          \/ RoutingStep(t)
          \/ ResolveFollowUp(t)
    \/ \E v \in Callers : ReviewStep(v)
    \/ \E r \in Reports, s \in TrustStatus : SetTrustStatus(r, s)
    \/ \E p \in Callers : SurveyStep(p)

DeskSpec == DeskInit /\ [][DeskNext]_deskVars

----------------------------------------------------------------------------
(* Properties *)

DeskTypeOK ==
    /\ ticket \in [Tickets -> StaysSupportTicket]
    /\ queued \subseteq Tickets
    /\ routing \in [Tickets -> SUBSET [Agents -> Nat]]
    /\ held \in [Tickets -> Agents \cup {Nobody}]
    /\ broughtBack \subseteq Tickets
    /\ report \in [Reports -> {"NONE", "OPEN", "REVIEWED", "ESCALATED", "DISMISSED"}]
    /\ review \in [Callers -> SUBSET [report : Reports, seen : SUBSET (Tickets \X TicketPriority)]]
    /\ survey \in [Callers -> SUBSET (Tickets \X (Staff \cup {Nobody}))]
    /\ csat \in [Tickets -> SUBSET (Staff \cup {Nobody})]
    /\ followUp \in [Tickets -> {"NONE", "ACTIVE", "RESOLVED"}]
    /\ writes \in Nat

\* A ticket is closed exactly while it has a closing date; its thread is then
\* read-only, unless a participant has reopened it since, and the thread of an
\* open ticket is not left archived: whatever patches, messages, routings,
\* escalations and reopenings of tickets and threads do in between.
ClosedThreadMatches ==
    \A t \in Tickets : Exists(t) =>
        /\ (ticket[t].status = "CLOSED") <=> ticket[t].closedAt
        /\ ticket[t].closedAt /\ ticket[t].thread = "ACTIVE" => t \in broughtBack
        /\ ~ticket[t].closedAt => ticket[t].thread # "ARCHIVED" /\ t \notin broughtBack

\* Routing never gives an agent more open tickets than the cap, although it
\* reads the workload through another connection before it commits.
AutoLoadBounded ==
    \A a \in Agents : Cardinality({t \in Tickets : held[t] = a}) <= MaxActive

\* A report has at most one ticket, and an escalated report has one: reviewers
\* who escalate the same report together end with the same ticket.
ReportHasItsTicket ==
    \A r \in Reports :
        /\ Cardinality(TicketsOf(r)) <= 1
        /\ report[r] = "ESCALATED" => TicketsOf(r) # {}

\* The survey of a ticket rates the agent noted at its close, also when the
\* ticket was reopened, reassigned and closed again since.
CsatRatesReviewAgent ==
    \A t \in Tickets : csat[t] \subseteq {ticket[t].reviewAgent, Nobody}

----------------------------------------------------------------------------
(* The inductive invariant behind the four above. *)

\* A report that is stored nowhere has no ticket; what an escalation found
\* before its commit is still the ticket of its report.
ReportsSound ==
    /\ \A r \in Reports :
         /\ \A t, u \in TicketsOf(r) : t = u
         /\ report[r] = "ESCALATED" => TicketsOf(r) # {}
         /\ report[r] = "NONE" => TicketsOf(r) = {}
    /\ \A v \in Callers : \A e \in review[v] :
         /\ report[e.report] # "NONE"
         /\ \A x \in e.seen : x[1] \in TicketsOf(e.report)

\* The agent noted for the survey is noted once; a submission that read the
\* ticket before it was closed again read the same agent or none.
SurveysSound ==
    /\ \A t \in Tickets : ~Exists(t) => ticket[t].reviewAgent = Nobody
    /\ \A p \in Callers : \A x \in survey[p] : x[2] \in {ticket[x[1]].reviewAgent, Nobody}
    /\ CsatRatesReviewAgent

\* One routing transaction runs at a time, and the workload it has read still
\* bounds what every agent holds: in between, tickets only leave the agents.
RoutingSound ==
    /\ \A t, u \in Tickets : ~Unlocked(t) /\ ~Unlocked(u) => t = u
    /\ \A t \in Tickets : held[t] # Nobody =>
         ticket[t].assigned = held[t] /\ ticket[t].status \in OPEN_TICKET_STATUSES
    /\ \A t \in Tickets : \A load \in routing[t] : \A a \in Agents :
         Cardinality({u \in Tickets : held[u] = a}) <= load[a]
    /\ AutoLoadBounded

DeskInv == DeskTypeOK /\ ClosedThreadMatches /\ ReportsSound /\ SurveysSound /\ RoutingSound
=============================================================================
