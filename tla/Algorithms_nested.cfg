SPECIFICATION Spec
CONSTANTS
    Tasks = {"dag"}
    Known = TRUE
    Width = 4
    Narrow = 2
    Cases = {0, 1, 2, 3, 5, 7, 8, 10, 13, 14, 15}
    MaxSorted = 7
    Nodes <- MCNodes
    Key <- MCKey
    StackSize = 5
    HSSIZ = 5
    Fuel = 30
    NIF = 4
    MaxTyped = 7
    MaxIf = 7
    MaxFlow = 7
    MaxMembers = 4
    MaxInit = 11
    MaxLevel = 6
    MaxDeclared = 5
INVARIANT CodeAgrees
CHECK_DEADLOCK FALSE
