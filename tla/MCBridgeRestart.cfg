\* A daemon and a restart; no ping keeps the lock.
SPECIFICATION Spec
CONSTANTS
    MaxLaunches = 2
    StaleAfter = 1
    HoldTime = 0
    PingKeepsLock = FALSE
PROPERTIES
    RestartReplaces
