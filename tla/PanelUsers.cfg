SPECIFICATION FairSpec
CONSTANTS
    Nodes = {n1}
    Names = {u1}
    Requests = {r1, r2, r3}
    NoCred = NoCred
    None = None
    Sync = Sync
    MaxFaults = 1
INVARIANTS
    TypeOK
    DisagreementIsReported
PROPERTY SyncsHeal
\* The requests are finite, and a status need not change.
CHECK_DEADLOCK FALSE
