SPECIFICATION FairSpec
CONSTANTS
    c1 = c1
    c2 = c2
    c3 = c3
    Controllers = {c1, c2}
    Cluster = Cluster
    Slots = 3
    Faults = {"label", "apply", "reboot"}
PROPERTIES
    ClusterComesUp
