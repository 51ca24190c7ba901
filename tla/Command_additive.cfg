SPECIFICATION Spec
CONSTANTS
    a = a
    b = b
    c = c
    top = top
    sub = sub
    Leaves = {a, b, c}
    Composites = {top, sub}
    Effect <- Additive
    MAX_COMMANDS = 2
    Null = Null
    Registered = {a, b}
    MaxValue = 2
CHECK_DEADLOCK FALSE
INVARIANTS
    UndoInv
    UndoRestores
    CopyReadsBack
