CONSTANTS
    Proc = {p1, p2}
    Page = {a, b, c, d, e, f}
    Data = {zero, one}
    None = none
    Zero = zero
    First = p1
    NV = 1
    SPAN = 1
    MaxCount = 4
    Ops = {"fork", "store"}
SPECIFICATION Spec
CHECK_DEADLOCK FALSE
INVARIANTS Isolation
