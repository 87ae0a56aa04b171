SPECIFICATION FairSpec
CONSTANTS
    c1 = c1
    c2 = c2
    c3 = c3
    Controllers = {c1}
    Cluster = Cluster
    Slots = 3
    Faults = {"late_policy"}
PROPERTIES
    ClusterComesUp
