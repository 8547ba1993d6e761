CONSTANTS
    Workers = {w1, w2}
    MaxRows = 1
    BatchLimit = 1
    MaxAttempts = 2
SYMMETRY WorkerSymmetry
SPECIFICATION Spec
INVARIANT OneWorkerPerRow
