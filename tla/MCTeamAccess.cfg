SPECIFICATION Spec
SYMMETRY Symmetry
CONSTANTS
    Users = {u1, u2}
    Orgs = {o1, o2}
    Txns = {t1, t2}
    None = none
INVARIANTS
    TypeOK
PROPERTIES
    ConsoleKeepsAdmin
    RevocationHolds
CHECK_DEADLOCK FALSE
