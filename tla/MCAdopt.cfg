\* Two runs of adopt and a user who changes things, four Spaces at most.  In a
\* session that sync manages nothing happens at all: no deadlock check.
SPECIFICATION Spec
CONSTANTS
    alpha = alpha
    beta = beta
    home = home
    api = api
    Dirs = {alpha, beta, home}
    Home = home
    NoPath = nopath
    Ids = {w1, w2, w3, w4}
    NoId = none
    Labels = {api}
    NoName = noname
    Adopters = {a1, a2}
    Folders <- MCFolders
    Unusable = unusable
    MaxChanges = 1
    MaxFaults = 1
CHECK_DEADLOCK FALSE
SYMMETRY Symmetry
PROPERTIES
    AdoptedAllFolders
    OneSpacePerFolder
    SidebarMatchesFile
    OnlyAdds
