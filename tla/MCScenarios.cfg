SPECIFICATION Spec
CONSTANTS
    InitialUsers = {u1, u2, u3}
    NewUsers = {n1}
    Main = main
    Writers = {w1}
    Readers = {}
    Loaders = {l1}
    Tokens = 2
    MaxDraws = 2
    NoUser = NoUser
SYMMETRY UserSymmetry
CHECK_DEADLOCK FALSE
INVARIANT ScenariosTypeOK
INVARIANT OneOwner
INVARIANT PooledReady
INVARIANT BlameExplained
INVARIANT CrashExplained
INVARIANT SomeoneAnswers
