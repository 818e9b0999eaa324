\* Two launches; the clock and the commands run without a bound.
SPECIFICATION FairSpec
CONSTANTS
    MaxLaunches = 2
    StaleAfter = 1
    HoldTime = 0
    PingKeepsLock = TRUE
INVARIANTS
    PidFileNamesTheLoop
    HoldingIsEarned
PROPERTIES
    LastActiveNeverBack
    ExitsWithServer
