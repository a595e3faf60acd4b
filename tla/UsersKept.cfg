CONSTANTS
    u1 = u1  u2 = u2  w1 = w1  w2 = w2
    Upgrades <- MCUpgrades1
    Writers <- MCWriters2
    Old = old
    Missing = missing
    Down = down
    None = none
    KeepConfigBackups = 2
    MaxFaults = 1
SPECIFICATION Spec
SYMMETRY MCSymmetry
INVARIANT UsersKept
CHECK_DEADLOCK FALSE
