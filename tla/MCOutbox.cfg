CONSTANTS
    Workers = {w1, w2}
    MaxRows = 2
    BatchLimit = 1
    MaxAttempts = 2
SPECIFICATION FairSpec
INVARIANTS DoneMeansDelivered DeadLetterMeansExhausted
PROPERTY EveryEventSettles
