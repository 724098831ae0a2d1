\* The board of the program and one game on it, the whole of Opening from its
\* first move; the call after it may be any.
SPECIFICATION Spec
CONSTANTS
    Size = 8
    Rows = 3
    None = None
    NoPlayer = NoPlayer
    Names = {a, b}
    FreeFrom = 15
    MaxChanges = 0
ACTION_CONSTRAINT FollowsOpening
\* Nothing follows the last move of Opening.
CHECK_DEADLOCK FALSE
INVARIANT NeverOverflows
