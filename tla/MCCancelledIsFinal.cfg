CONSTANTS
    Listings = {l1}
    Keys = {}
    NoKey = NoKey
    LastDay = 1
    MaxNow = 3
    HoldTtl = 1
    MaxBookings = 1
    MaxIntents = 1
    Provider = "mock"
    CreateReqs = {c1}
    IntentReqs = {p1}
    ConfirmReqs = {w1}
    CancelReqs = {x1}
    ExpireJobs = {}
    CompleteJobs = {j1}
    GwCallers <- MCGwCallers
SPECIFICATION Spec
PROPERTY CancelledIsFinal
