\* A 4 x 4 board with one row of men a side is enough for white to win.
SPECIFICATION Spec
CONSTANTS
    Size = 4
    Rows = 1
    None = None
    NoPlayer = NoPlayer
    Names = {a, b}
    MaxKings = 2
CONSTRAINT KingsBound
ACTION_CONSTRAINT SeatedFirst
\* A game may be over, or stuck: the side to move may have no move.
CHECK_DEADLOCK FALSE
INVARIANT WinnerCredited
