\* Five enemies on a 5 x 5 board: one more than the smallest circuit of jumps.
SPECIFICATION RulesSpec
CONSTANTS
    Size = 5
    Rows = 2
    None = None
    MaxEnemies = 5
\* The board is full of enemies, or of as many as MaxEnemies allows.
CHECK_DEADLOCK FALSE
INVARIANTS
    JumpsReachEveryLanding
    DivergesOnCircuit
    
