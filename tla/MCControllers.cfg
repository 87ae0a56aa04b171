SPECIFICATION Spec
CONSTANTS
    i1 = i1
    i2 = i2
    i3 = i3
    i4 = i4
    i5 = i5
    i6 = i6
    a1 = a1
    a2 = a2
    a3 = a3
    ASGs = {a1, a2, a3}
    Instances = {i1, i2, i3, i4, i5, i6}
    NoInstance = NoInstance
    AsgOf <- ControllerGroups
    InitialFleet = {i1, i2, i3}
    Pods = {}
    MinAvailable = 0
    MinSize <- Zero
    MaxSize <- One
    MaxVersion = 2
    MaxRuns = 2
    Stack = "k8s-controllers"
    Options <- AllOptions
    Faults <- NoLookupFault
INVARIANTS
    ControllerQuorum
