\* Size, Rows: a 5 x 5 board, five men a side.  NoPlayer is the empty name.
SPECIFICATION Spec
CONSTANTS
    Size = 5
    Rows = 2
    None = None
    NoPlayer = NoPlayer
    Names = {a, b}
    MaxKings = 1
CONSTRAINT KingsBound
SYMMETRY NameSymmetry
\* A game may be over, or stuck: the side to move may have no move.
CHECK_DEADLOCK FALSE
INVARIANTS
    TypeOK
    PiecesWellPlaced
    DecidedOnce
    SomeMoveAccepted
PROPERTIES
    MandatoryCapture
    MoveGeometry
    ImplementsMatch
