--------------------------- MODULE MCGameSession ----------------------------
(***************************************************************************)
(* GameSession on a small board.  The only bound is on kings: a game of    *)
(* kings can wander for ever over most placements of the pieces left.      *)
(***************************************************************************)
EXTENDS GameSession

CONSTANT MaxKings   \* kings on the board beyond which a game is not followed

KingsBound ==
    Cardinality({sq \in Squares : boardArray[sq] # None /\ boardArray[sq].isKing})
        <= MaxKings

(* Nobody moves before the second player has joined.                       *)
SeatedFirst == boardArray' # boardArray => gameStarted

NameSymmetry == Permutations(Names \ {NoPlayer})
=============================================================================
