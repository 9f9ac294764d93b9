CONSTANTS
    c1 = c1
    c2 = c2
    x1 = x1
    x2 = x2
    w1 = w1
    w2 = w2
    r1 = r1
    r2 = r2
    Channels = {c1, c2}
    Texts = {x1, x2}
    InitialMessages <- MCInitialMessages
    Writers = {w1, w2}
    Readers = {r1, r2}
SPECIFICATION Spec
SYMMETRY MCSymmetry
INVARIANTS LedgerTypeOK LedgerInv NoFalseAlarm
CHECK_DEADLOCK TRUE
