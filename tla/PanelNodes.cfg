CONSTANTS
    Requests = {r1, r2}
    Watchers = {w1}
    Zones = {z1, z2}
    Home = z1
    Old = old
    Keep = keep
    MaxFaults = 1
SPECIFICATION Spec
INVARIANTS TypeOK RowNamesNode
PROPERTIES StatusIsEarned PanelCatchesUp
\* Requests end, and a disabled node is not swept.
CHECK_DEADLOCK FALSE
