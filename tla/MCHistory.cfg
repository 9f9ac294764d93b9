CONSTANTS
    c1 = c1
    c2 = c2
    Channels = {c1, c2}
    InitialMessages = 3
    InitialLog <- MCInitialLog
    N = 2
    MaxFollow = 2
    LoadFollow = 3
    Walkers = {w1}
    Checkers = {k1}
    TailChannels = {c1, c2}
    MaxId = 6
    MaxPosts = 2
    MaxBusy = 1
SPECIFICATION Spec
INVARIANTS HistoryTypeOK WalkExplained LinksWork NoBlame
CHECK_DEADLOCK TRUE
