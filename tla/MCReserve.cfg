CONSTANTS
    Listings = {l1}
    Keys = {k1}
    NoKey = NoKey
    LastDay = 2
    MaxNow = 1
    HoldTtl = 1
    MaxBookings = 2
    MaxIntents = 0
    Provider = "mock"
    CreateReqs = {c1, c2}
    IntentReqs = {}
    ConfirmReqs = {}
    CancelReqs = {x1}
    ExpireJobs = {e1}
    CompleteJobs = {}
    GwCallers <- MCGwCallers
SYMMETRY RequestSymmetry
SPECIFICATION Spec
INVARIANT NoDoubleBooking
