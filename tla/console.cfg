\* A 4 x 4 board with two men a side, kings and all.
SPECIFICATION Spec
CONSTANTS
    Size = 4
    Rows = 1
    None = None
INVARIANT AskedCanMove
PROPERTIES
    ImplementsMatch
    ExitEnds
\* A game may be over.
CHECK_DEADLOCK FALSE
