SPECIFICATION Spec
CONSTANTS
    Thread = {t1, t2, t3, t4, t5}
    Cond = {c1, c2}
SYMMETRY Symmetry
INVARIANTS MutualExclusion BlockedOnce
PROPERTIES HoareSpec
CHECK_DEADLOCK FALSE
