\* One daemon, two Spaces, a forward clock over a midnight; entries shorter
\* than two seconds are discarded.
SPECIFICATION AttentionSpec
CONSTANTS
    Workspaces = {w1, w2}
    NoWorkspace = none
    DayStart <- MCDayStart
    NextDay <- MCNextDay
    Second = 1
    IdleTimeout = 4
    MinEntry = 2
    ClockSteps <- ForwardSteps
    MaxClock = 8
SYMMETRY Symmetry
INVARIANTS
    WorkIsBilled
    OverCountBelowTwoTimeouts
PROPERTIES
    IsLedger
    BilledWhereSeen
