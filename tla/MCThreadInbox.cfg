CONSTANTS
    Requests = {q1, q2}
    Jobs = {}
    Repairers = {}
    Ops = {"send", "read", "list", "block", "hide"}
    Keys = {k1}
    NoKey = NoKey
    MaxSent = 2
    MaxActors = 2
SYMMETRY RequestSymmetry
SPECIFICATION Spec
INVARIANT UnreadMatchesMessages
PROPERTY ReadStaysRead
