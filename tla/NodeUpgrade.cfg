CONSTANTS
    u1 = u1  u2 = u2  w1 = w1  w2 = w2
    Upgrades <- MCUpgrades2
    Writers <- MCWriters1
    Old = old
    Missing = missing
    Down = down
    None = none
    KeepConfigBackups = 2
    MaxFaults = 2
SPECIFICATION Spec
SYMMETRY MCSymmetry
INVARIANTS TypeOK NoUserLost Recoverable ServedHostResolves
PROPERTIES OkMeansUpgraded FailedUpgradeKeepsConfig
\* Every run and every request has ended.
CHECK_DEADLOCK FALSE
