SPECIFICATION Spec
CONSTANTS
    Words <- MCWords
    ArgWords <- MCArgWords
    Temps <- MCTemps
    Wide <- MCWide
    Shapes <- MCShapes
    MaxRoots = 4
    Earlier <- MCEarlier
INVARIANTS OperandsArrive FreeIffIdle FailsOnlyUnused
CHECK_DEADLOCK FALSE
