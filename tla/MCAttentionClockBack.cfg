\* One daemon, two Spaces, a clock that can be set back over midnight.  The
\* midnight loop then runs away from the clock, and stops only at the bound on
\* it: hence no check for deadlock.
SPECIFICATION AttentionSpec
CHECK_DEADLOCK FALSE
CONSTANTS
    Workspaces = {w1, w2}
    NoWorkspace = none
    DayStart <- MCDayStart
    NextDay <- MCNextDay
    Second = 1
    IdleTimeout = 4
    MinEntry = 2
    ClockSteps <- AnySteps
    MaxClock = 18
INVARIANT ReturnsAtMostTwo
