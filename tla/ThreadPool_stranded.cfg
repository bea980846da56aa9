SPECIFICATION Spec
CONSTANTS
    MaxNum = 2
    MinNum = 1
    Tasks = {t1, t2}
    NoTask = NoTask
    Callers = {c1}
    Garbage <- MCGarbage
INVARIANT NoStrandedTask
