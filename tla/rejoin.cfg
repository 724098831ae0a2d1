\* As browser.cfg, with nobody logged in at first.
SPECIFICATION Spec
CONSTANTS
    Browsers = {b1, b2}
    TcpPlayers = {t1}
    LineEnders = {}
    Nobody = Nobody
    MaxGames = 1
    MaxMoves = 1
    MaxRequests = 4
    MaxDrops = 1
PROPERTY RejoinsAutomatically
\* The bounds end every behaviour.
CHECK_DEADLOCK FALSE
