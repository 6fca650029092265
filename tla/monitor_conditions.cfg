SPECIFICATION Spec
CONSTANTS
    Thread = {t1, t2}
    Cond = {c1, c2}
PROPERTIES SignalWakesItsCondition
CHECK_DEADLOCK FALSE
