\* Three sessions, all settings of two files; two runs between saves.
SPECIFICATION ConfigSpec
CONSTANTS
    f1 = f1
    f2 = f2
    link = link
    pin = pin
    Absent = Absent
    Malformed = Malformed
    Missing = Missing
    Unreadable = Unreadable
    ConfigError = ConfigError
    RealPath <- MCRealPath
    Sockets <- MCSockets
    Overrides <- MCOverrides
    Configs <- MCConfigs
    MaxRuns = 2
INVARIANT
    OneSessionPerFile
PROPERTY
    EntriesAreIndependent
