\* One daemon that is restarted any number of times, two Spaces, a midnight, two
\* faults: kills, failed appends or failed writes of current.json.
SPECIFICATION FairSpec
CONSTANTS
    Workspaces = {w1, w2}
    NoWorkspace = none
    DayStart <- MCDayStart
    NextDay <- MCNextDay
    Second = 1
    IdleTimeout = 2
    MinEntry = 1
    ClockSteps = {1}
    MaxClock = 3
    MaxFaults = 2
    Faults = {"kill", "append", "mirror"}
INVARIANTS
    EarnedStaysOnDisk
    OverlapOnlyByRecovery
    CleanExitLeavesNothing
    ReportIsTrue
PROPERTIES
    StopIsObeyed
    FollowsServer
