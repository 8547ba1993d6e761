CONSTANTS
    Listings = {l1}
    Keys = {}
    NoKey = NoKey
    LastDay = 1
    MaxNow = 4
    HoldTtl = 1
    MaxBookings = 1
    MaxIntents = 1
    Provider = "mock"
    CreateReqs = {c1}
    IntentReqs = {p1}
    ConfirmReqs = {w1}
    CancelReqs = {x1}
    ExpireJobs = {e1}
    CompleteJobs = {j1}
    GwCallers <- MCGwCallers
SPECIFICATION FairSpec
PROPERTIES HoldsAreReleased PastStaysComplete ConfirmationsFinish
