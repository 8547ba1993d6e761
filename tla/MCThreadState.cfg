CONSTANTS
    Requests = {q1}
    Jobs = {j1, j2}
    Repairers = {w1}
    Ops = {"reopen"}
    Keys = {}
    NoKey = NoKey
    MaxSent = 0
    MaxActors = 3
SPECIFICATION FairSpec
INVARIANTS SequencesDense ArchivedOnlyAfterStay
PROPERTY ThreadsSettle
