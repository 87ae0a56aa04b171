SPECIFICATION FairSpec
CONSTANTS
    i1 = i1
    i2 = i2
    i3 = i3
    i4 = i4
    i5 = i5
    i6 = i6
    a1 = a1
    a2 = a2
    a3 = a3
    ASGs = {a1}
    Instances = {i1, i2, i3, i4, i5}
    NoInstance = NoInstance
    AsgOf <- OneGroup
    InitialFleet = {i1, i2}
    Pods = {p1, p2}
    MinAvailable = 1
    MinSize <- One
    MaxSize <- Two
    MaxVersion = 2
    MaxRuns = 1
    Stack = "k8s-agents"
    Options <- AllOptions
    Faults = {"get_node_name", "kubectl", "terminate", "interrupt"}
PROPERTIES
    RunProgresses
    RunEnds
    ReplacesRolling
