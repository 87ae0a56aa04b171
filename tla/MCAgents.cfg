SPECIFICATION Spec
CONSTANTS
    i1 = i1
    i2 = i2
    i3 = i3
    i4 = i4
    i5 = i5
    i6 = i6
    a1 = a1
    a2 = a2
    a3 = a3
    ASGs = {a1, a2}
    Instances = {i1, i2, i3, i4}
    NoInstance = NoInstance
    AsgOf <- TwoGroups
    InitialFleet = {i1, i2}
    Pods = {p1, p2}
    MinAvailable = 1
    MinSize <- ShrinkFirstOnly
    MaxSize <- Two
    MaxVersion = 2
    MaxRuns = 2
    Stack = "k8s-agents"
    Options <- Attended
    Faults <- NoLookupFault
SYMMETRY PodSymmetry
INVARIANTS
    TypeOK
    OnlyOutdatedTerminated
    EvictedPodsStayPut
    BudgetKept
    UndrainedOnlyIfMissed
    FleetRenewed
    NothingLeftCordoned
    OnlyOutdatedCordoned
