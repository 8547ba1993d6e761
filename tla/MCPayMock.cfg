CONSTANTS
    Listings = {l1}
    Keys = {}
    NoKey = NoKey
    LastDay = 1
    MaxNow = 3
    HoldTtl = 1
    MaxBookings = 1
    MaxIntents = 2
    Provider = "mock"
    CreateReqs = {c1}
    IntentReqs = {p1}
    ConfirmReqs = {w1, w2}
    CancelReqs = {x1, x2}
    ExpireJobs = {e1}
    CompleteJobs = {j1}
    GwCallers <- MCGwCallers
SYMMETRY RequestSymmetry
SPECIFICATION Spec
INVARIANTS SettledExactlyWhenConfirmed RefundOnlyOnceAndPaid IntentsMatchLedger
PROPERTY ImplementsContract
