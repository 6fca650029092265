SPECIFICATION Spec
CONSTANTS
    Proc = {p1, p2}
    Name = {a, b}
    Inum = {1, 2}
    Block = {b1}
    NINODE = 2
    MaxCrash = 0
    Nil = Nil
INVARIANTS NoOrphan
CHECK_DEADLOCK FALSE
