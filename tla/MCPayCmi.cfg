CONSTANTS
    Listings = {l1}
    Keys = {}
    NoKey = NoKey
    LastDay = 1
    MaxNow = 0
    HoldTtl = 0
    MaxBookings = 1
    MaxIntents = 2
    Provider = "cmi"
    CreateReqs = {c1}
    IntentReqs = {p1}
    ConfirmReqs = {w1}
    CancelReqs = {x1}
    ExpireJobs = {e1}
    CompleteJobs = {}
    GwCallers <- MCGwCallers
SYMMETRY RequestSymmetry
SPECIFICATION Spec
INVARIANTS TypeOK CapturedOnlyIfSettled RefundSettledOnlyIfCredited VoidedNeverSettled
