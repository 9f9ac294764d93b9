CONSTANTS
    a = a
    b = b
    r1 = r1
    r2 = r2
    c1 = c1
    p1 = p1
    Names = {a, b}
    Seeded = {a}
    Pictures = {p1}
    None = None
    Clients = {c1}
    Slots = {r1, r2}
    MaxUser = 3
    MaxImage = 3
SPECIFICATION Spec
INVARIANT AccountsTypeOK
INVARIANT SessionOwn
INVARIANT DanglingExplained
INVARIANT ProfileTogether
PROPERTY SessionKept
SYMMETRY Symmetry
CHECK_DEADLOCK FALSE
