SPECIFICATION FairSpec
CONSTANTS
    MaxNum = 2
    MinNum = 1
    Tasks = {t1, t2}
    NoTask = NoTask
    Callers = {c1, c2}
    Garbage <- MCGarbage
PROPERTIES
    DestructorReturns
    BusyWorkerDrainsQueue
    ShrinksToMin
