SPECIFICATION FairSpec
CONSTANTS
    i1 = i1
    i2 = i2
    p1 = p1
    p2 = p2
    Instances = {i1, i2}
    Pods = {p1, p2}
    NoInstance = NoInstance
    MinSize = 1
    MaxSize = 2
INVARIANTS
    TypeOK
    DrainedBeforeGone
    GetsOn
PROPERTIES
    WorkloadRecovers
    BrokenReplaced
