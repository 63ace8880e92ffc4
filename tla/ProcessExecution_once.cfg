CONSTANTS
    Workers = {w1, w2}
    NoWorker = NoWorker
    MaxFaults = 2
SPECIFICATION FairSpec
INVARIANTS StartedOnce ResultTruthful OutputKept
PROPERTY CancelSettles
