CONSTANTS
    Sessions = {s1}
    Timer = timer
    Agent = agent
    Hosts = {h1, h2}
    FirstHost = h1
    None = none
    Down = down
    MaxEvents = 3
SPECIFICATION Spec
INVARIANTS TypeOK OneFaultIsContained
PROPERTIES OkMeansApplied Hy2Heals
\* A node with HY2 off and no command to come is at rest.
CHECK_DEADLOCK FALSE
