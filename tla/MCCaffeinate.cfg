\* Three interchangeable processes, each a daemon, a restart or a stop; one
\* fault of any kind.
SPECIFICATION Spec
CONSTANTS
    Procs = {p1, p2, p3}
    NoProc = none
    PollInterval = 2
    Grace = 1
    StaleAfter = 3
    ConfirmDelay = 3
    Faults = {"kill", "wedge", "garbled", "spawn", "child", "record", "sleep", "config"}
    MaxFaults = 1
SYMMETRY Symmetry
INVARIANTS
    OneDaemon
    OrphansAreReaped
    UnlockedMeansReleased
    HeldNoLongerThanGrace
    StraysAreCounted
PROPERTIES
    TakeoverSparesTheHealthy
    NeverReleasedEarly
