CONSTANTS
    Listings = {l1}
    Keys = {}
    NoKey = NoKey
    LastDay = 1
    MaxNow = 0
    HoldTtl = 1
    MaxBookings = 1
    MaxIntents = 2
    Provider = "cmi"
    CreateReqs = {c1}
    IntentReqs = {p1, p2}
    ConfirmReqs = {w1}
    CancelReqs = {}
    ExpireJobs = {}
    CompleteJobs = {}
    GwCallers <- MCGwCallers
SPECIFICATION Spec
INVARIANT ChargedAtMostOnce
