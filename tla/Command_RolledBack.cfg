SPECIFICATION Spec
CONSTANTS
    a = a
    b = b
    c = c
    top = top
    sub = sub
    Leaves = {a, b, c}
    Composites = {top, sub}
    Effect <- Mixed
    MAX_COMMANDS = 2
    Null = Null
    Registered = {a, b}
    MaxValue = 4
INVARIANT RolledBack
CHECK_DEADLOCK FALSE
