\* Two processes and one fault: what must happen in the end.
SPECIFICATION FairSpec
CONSTANTS
    Procs = {p1, p2}
    NoProc = none
    PollInterval = 1
    Grace = 1
    StaleAfter = 2
    ConfirmDelay = 2
    Faults = {"kill", "wedge", "garbled"}
    MaxFaults = 1
PROPERTIES
    FollowsServer
    WedgedIsDisplaced
    CommandsEnd
