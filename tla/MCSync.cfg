\* Two runs in flight, two Spaces over three directories, one pinned folder.
SPECIFICATION Spec
CONSTANTS
    alpha = alpha
    beta = beta
    home = home
    Dirs = {alpha, beta, home}
    Home = home
    NoPath = nopath
    Ids = {w1, w2}
    NoId = none
    Labels = {beta}
    NoName = noname
    Runs = {r1, r2}
    Pinned <- MCPinned
    NoMember = nomember
    NoRoot = noroot
    MaxChanges = 2
    MaxEdits = 1
    MaxFaults = 1
SYMMETRY Symmetry
INVARIANTS
    NextRunCorrects
    ExplorerNeverBlank
    EditsLostOnlyInWindow
PROPERTIES
    PinStaysAtIndexZero
    RedundantRunsAreFree
