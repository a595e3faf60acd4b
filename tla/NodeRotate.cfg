CONSTANTS
    r1 = r1  r2 = r2
    Rotations <- MCRotations
    Old = old
    Mixed = mixed
    Down = down
    None = none
    MaxFaults = 2
SPECIFICATION Spec
SYMMETRY MCSymmetry
INVARIANTS TypeOK ServedNamesResolve RowFollowsNode
PROPERTIES OkMeansMoved RollbackLeavesNoTrace
\* Every rotation has been answered.
CHECK_DEADLOCK FALSE
