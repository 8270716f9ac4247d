\* Three workers with batches of two, threshold 2, one worker killed.
SPECIFICATION FairSpec
CONSTANTS
    w1 = w1
    w2 = w2
    w3 = w3
    Workers <- ThreeWorkers
    Threshold = 2
    BatchSize = 2
    MaxFailures = 3
    MaxKills = 1
INVARIANTS
    TypeOK
    OpenHasTimestamp
    ThresholdOpens
PROPERTIES
    OpenEnds
