CONSTANT Nil = Nil
SPECIFICATION Spec
CHECK_DEADLOCK FALSE
PROPERTIES SleepersWake OrphansReaped CallsReturn
