\* Four commands are a CREATE, a JOIN and a move of each player.  A socket takes
\* one message before send blocks.
SPECIFICATION MCSpec
CONSTANTS
    Conns = {c1, c2}
    First = c1
    Alice = alice
    Bob = bob
    Names = {alice, bob}
    Unknown = unknown
    Nobody = nobody
    Free = free
    Capacity = 1
    MaxGames = 1
    MaxMoves = 2
    MaxCommands = 4
INVARIANTS
    TypeOK
    BoardsInOrder
    UpToDate
    JoinedClientSeesBoard
    WinAfterBoard
    NoCircularWait
PROPERTY
    CommandsEnd
\* The bound on commands ends every behaviour.
CHECK_DEADLOCK FALSE
