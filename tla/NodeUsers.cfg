CONSTANTS
    u1 = u1  u2 = u2  u3 = u3
    p1 = p1  p2 = p2  p3 = p3
    Main = main
    extra = extra
    Inbounds <- MCInbounds
    Users <- MCUsers2
    Ops <- MCOps3
    PanelCred = panel
    NoCred = nocred
    Down = down
    NoUnit = nounit
    NoFile = nofile
    None = none
    Kinds <- MCAllKinds
    MaxUsers = 1
    MaxFaults = 1
SPECIFICATION Spec
SYMMETRY MCSymmetry
INVARIANTS TypeOK NoLostUpdate WithinLimit AgreementAtRest XraySurvivesOneFault
PROPERTIES SuccessIsApplied StableCredentials
\* Every request has been answered or its process is dead.
CHECK_DEADLOCK FALSE
