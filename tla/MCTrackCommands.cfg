\* Four processes of one session, one append of another, one fault.
SPECIFICATION Spec
CONSTANTS
    Proc = {p1, p2, p3, p4}
    NoProc = none
    Other = other
    MaxOther = 1
    MaxFaults = 1
    Faults = {"kill", "short", "slow"}
SYMMETRY Symmetry
CHECK_DEADLOCK FALSE
INVARIANTS
    FlushedMeansWritten
    SomeoneRuns
    ShortWriteCostsOneMore
