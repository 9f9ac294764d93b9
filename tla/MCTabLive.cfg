CONSTANTS
    u1 = u1
    u2 = u2
    c1 = c1
    t1 = t1
    t2 = t2
    h1 = h1
    h2 = h2
    NoUser = NoUser
    NoChannel = NoChannel
    Users = {u1, u2}
    Channels = {c1}
    InitialUsers = {u1, u2}
    InitialChannels = {c1}
    InitialMessages = 1
    InitialRows <- MCInitialRows
    Handlers = {h1, h2}
    Limit = 2
    MaxMessage = 3
    DBFaults = FALSE
    Tabs = {t1, t2}
    Owner <- TwoOwners
    Page <- OnePage
    Trim = 2
    MaxOpens = 2
    NetworkFaults = TRUE
SPECIFICATION FairSpec
CHECK_DEADLOCK FALSE
PROPERTY EventuallyKnown
