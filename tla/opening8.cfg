\* The board of the program, ten moves into Opening, and every game from there
\* while it strays from Opening on few squares.
SPECIFICATION MCSpec
CONSTANTS
    Size = 8
    Rows = 3
    None = None
    NoPlayer = NoPlayer
    Names = {a, b}
    FreeFrom = 10
    MaxChanges = 4
CONSTRAINT Near
SYMMETRY NameSymmetry
\* The bound on changes ends every behaviour.
CHECK_DEADLOCK FALSE
INVARIANT OverflowNeedsCircuit
PROPERTY MoveGeometry
