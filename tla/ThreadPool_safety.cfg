SPECIFICATION Spec
CONSTANTS
    MaxNum = 3
    MinNum = 1
    Tasks = {t1, t2, t3}
    NoTask = NoTask
    Callers = {c1}
    Garbage <- MCGarbage
SYMMETRY Symmetry
INVARIANTS
    AliveBounds
    AccurateCounts
    NoNullTask
    AtMostOneLateStart
PROPERTY ImplementsTaskPool
