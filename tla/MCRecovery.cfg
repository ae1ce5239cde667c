CONSTANTS
    w1 = w1
    w2 = w2
    w3 = w3
    Workers <- ThreeWorkers
    OwnSockets = 0
    StoreTries = 2
    NoProgressLimit = 2
    MaxFaults = 2
SPECIFICATION FairSpec
INVARIANTS
    TypeOK
    HeadFirst
PROPERTIES
    Recovers
    DeafRebuilt
