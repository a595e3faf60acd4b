CONSTANTS
    u1 = u1  u2 = u2  u3 = u3
    p1 = p1  p2 = p2  p3 = p3
    Main = main
    extra = extra
    Inbounds <- MCInbounds
    Users <- MCUsers2
    Ops <- MCOps2
    PanelCred = panel
    NoCred = nocred
    Down = down
    NoUnit = nounit
    NoFile = nofile
    None = none
    Kinds <- MCAllKinds
    MaxUsers = 2
    MaxFaults = 1
SPECIFICATION Spec
SYMMETRY MCSymmetry
PROPERTIES RemovedFromEveryInbound
CHECK_DEADLOCK FALSE
