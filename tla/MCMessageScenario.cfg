CONSTANTS
    u1 = u1
    u2 = u2
    u3 = u3
    Users = {u1, u2, u3}
    NoUser = NoUser
    MaxRounds = 2
    MaxRows = 3
    MaxLate = 1
SPECIFICATION Spec
INVARIANT MessageScenarioTypeOK
INVARIANT FatalExplained
SYMMETRY UserSymmetry
CHECK_DEADLOCK FALSE
