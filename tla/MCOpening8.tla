----------------------------- MODULE MCOpening8 -----------------------------
(***************************************************************************)
(* GameSession on the real 8 x 8 board, from the position some moves into  *)
(* Opening, a game that two players may play, or along that game from its  *)
(* first move to its last.  Opening brings a black king to <<1, 1>>, from  *)
(* where it can jump round the circuit <<3, 3>>, <<5, 1>>, <<7, 3>>,       *)
(* <<5, 5>>.                                                               *)
(***************************************************************************)
EXTENDS GameSession

CONSTANTS
    FreeFrom,       \* moves of Opening made before the first state of MCSpec
    MaxChanges      \* squares on which a game may differ from Opening

Opening == <<
    <<<<6, 2>>, <<5, 3>>>>, <<<<5, 5>>, <<4, 4>>>>, <<<<5, 1>>, <<6, 2>>>>,
    <<<<4, 4>>, <<3, 3>>>>, <<<<2, 2>>, <<4, 4>>>>, <<<<1, 5>>, <<0, 4>>>>,
    <<<<1, 1>>, <<2, 2>>>>, <<<<3, 5>>, <<2, 4>>>>, <<<<0, 0>>, <<1, 1>>>>,
    <<<<2, 6>>, <<1, 5>>>>, <<<<2, 2>>, <<1, 3>>>>, <<<<0, 4>>, <<0, 0>>>>,
    <<<<3, 1>>, <<2, 2>>>>, <<<<0, 0>>, <<1, 1>>>>, <<<<5, 3>>, <<6, 4>>>> >>

(* The board after the first n moves of Opening.                           *)
After[n \in 0 .. Len(Opening)] ==
    IF n = 0 THEN InitialBoard
    ELSE LET b     == After[n - 1]
             piece == b[Opening[n][1]]
             moves == FirstTo(piece, getAllPossibleMoves(b, piece), Opening[n][2])
         IN  applyMoveToBoard(b, CHOOSE m \in moves : TRUE, piece)

Steps == {<<After[n - 1], After[n]>> : n \in 1 .. Len(Opening)}

(* Both players are seated and play Opening: an action constraint.         *)
FollowsOpening ==
    boardArray' # boardArray => gameStarted /\ <<boardArray, boardArray'>> \in Steps

MCInit ==
    /\ player1Id \in Names /\ player2Id \in Names \ {player1Id}
    /\ gameStarted = TRUE
    /\ boardArray = After[FreeFrom]
    /\ isPlayer1Turn = (FreeFrom % 2 = 0)
    /\ results = <<>> /\ announced = <<>>
    /\ crashed = FALSE

MCSpec == MCInit /\ [][Next]_vars

NameSymmetry == Permutations(Names)

Line == {After[n] : n \in FreeFrom .. Len(Opening)}

(* A game is followed while it is not far from Opening.                    *)
Near ==
    \E b \in Line : Cardinality({sq \in Squares : boardArray[sq] # b[sq]}) <= MaxChanges
=============================================================================
