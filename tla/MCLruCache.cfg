CONSTANTS
    Keys = {k1, k2, k3}
    Values = {v1, v2}
    Absent = Absent
    Configs <- MCConfigs
    MaxTime = 3
    MaxOps = 6
SYMMETRY MCSymmetry
SPECIFICATION Spec
INVARIANTS
    Coherent
PROPERTIES
    EvictsLeastRecent
    ImplementsStore
