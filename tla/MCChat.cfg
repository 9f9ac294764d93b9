CONSTANTS
    u1 = u1
    u2 = u2
    c1 = c1
    c2 = c2
    h1 = h1
    h2 = h2
    NoUser = NoUser
    NoChannel = NoChannel
    Users = {u1, u2}
    Channels = {c1}
    InitialUsers = {u1}
    InitialChannels = {c1}
    InitialMessages = 1
    InitialRows <- MCInitialRows
    Handlers = {h1, h2}
    Limit = 2
    MaxMessage = 3
    DBFaults = FALSE
SPECIFICATION Spec
SYMMETRY MCSymmetry
INVARIANTS TypeOK MarksInv OrphanExplained
PROPERTIES RegressExplained ImplementsTable
CHECK_DEADLOCK TRUE
