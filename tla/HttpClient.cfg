CONSTANTS
    Objects = {o1, o2, o3}
    Impls = {i1, i2, i3}
    null = null
SPECIFICATION LifeSpec
INVARIANTS
    RuntimeOutlivesHandles
    OneOwner
    CleanedUp
CHECK_DEADLOCK FALSE
