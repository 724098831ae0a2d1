\* Two browsers and a TCP player; four requests are a CREATE, a JOIN and two
\* moves, or two of each CREATE and JOIN, and one connection may break.
SPECIFICATION MCSpec
CONSTANTS
    Browsers = {b1, b2}
    TcpPlayers = {t1}
    LineEnders = {}
    Nobody = Nobody
    MaxGames = 2
    MaxMoves = 2
    MaxRequests = 4
    MaxDrops = 1
INVARIANTS
    TypeOK
    
    
PROPERTIES
    BoardsForward
    
    
\* The bounds end every behaviour.
CHECK_DEADLOCK FALSE
