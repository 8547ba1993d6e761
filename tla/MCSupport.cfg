CONSTANTS
    \* SupportDesk
    Tickets = {t1, t2}
    HostTickets = {t1}
    Reports = {r1}
    SafetyIssues = {}
    Agents = {a1}
    Admin = admin
    Nobody = nobody
    Callers = {v1, v2}
    TrustStatus = {"DISMISSED"}
    PatchStatus = {"CLOSED", "RESOLVED"}
    PatchPriority = {}
    MaxActive = 1
    MaxWrites = 4
    \* OperationalSignals
    Instants = {0, 2880000, 2880001, 3600000}
    OpenedMicros = {0, 500}
    Urgencies = {"URGENT", "NORMAL"}
    Evaluations = {e1, e2}
    Patches = {q1}
    MaxEvents = 1
    MaxEvaluations = 3
    \* Attachments
    Files = {f1, f2}
    Sends = {m1, m2}
    Removers = {d1}
    MaxRemovals = 1
    \* PhoneAccounts
    Visits = {u1, u2}
    MaxAccounts = 2
    MaxIdentities = 2
SPECIFICATION SupportSpec
INVARIANTS
    SupportTypeOK
    ClosedThreadMatches AutoLoadBounded ReportHasItsTicket CsatRatesReviewAgent
    SlaViewsAgree SignalsSettle
    SentWereIngested
    OneIdentityPerPhone
PROPERTY
    AttachmentKeepsMessage
CHECK_DEADLOCK FALSE
