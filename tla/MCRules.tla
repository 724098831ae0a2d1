------------------------------- MODULE MCRules ------------------------------
(***************************************************************************)
(* The move generator against independent definitions, for one piece of    *)
(* either colour and rank on every dark square and every set of at most    *)
(* MaxEnemies enemy men around it.  A step puts down one more enemy; own   *)
(* pieces would only be further occupied squares that cannot be jumped.    *)
(* The names are none of a game's own: proofs about games extend this.     *)
(***************************************************************************)
EXTENDS Checkers, FiniteSets

CONSTANT MaxEnemies

VARIABLES anyBoard, anyPiece

rulesVars == <<anyBoard, anyPiece>>

DarkSquares == {sq \in Squares : isCheckerboardSpace(sq)}

Enemies == Occupied(anyBoard, ~anyPiece.isWhite)

RulesInit ==
    /\ anyPiece \in {p \in Piece : p.at \in DarkSquares}
    /\ anyBoard = [sq \in Squares |-> IF sq = anyPiece.at THEN anyPiece ELSE None]

PutEnemy(sq) ==
    /\ anyBoard[sq] = None
    /\ Cardinality(Enemies) < MaxEnemies
    /\ anyBoard' = [anyBoard EXCEPT ![sq] = NewMan(sq, ~anyPiece.isWhite)]
    /\ UNCHANGED anyPiece

RulesNext == \E sq \in DarkSquares : PutEnemy(sq)

RulesSpec == RulesInit /\ [][RulesNext]_rulesVars

-----------------------------------------------------------------------------
(* One jump over an enemy, written from the rules of the game.             *)
HopByRules(s, t) ==
    /\ anyBoard[t] = None
    /\ \E e \in Enemies :
          /\ e[1] - s[1] \in {-1, 1} /\ t[1] = 2 * e[1] - s[1]
          /\ e[2] - s[2] \in {-1, 1} /\ t[2] = 2 * e[2] - s[2]
    /\ anyPiece.isKing \/ (IF anyPiece.isWhite THEN t[2] > s[2] ELSE t[2] < s[2])

Landings ==
    LET spread[S \in SUBSET DarkSquares] ==
            LET T == S \cup {t \in DarkSquares : \E s \in S : HopByRules(s, t)}
            IN  IF T = S THEN S ELSE spread[T]
    IN  spread[{anyPiece.at}] \ {anyPiece.at}

(* getAllPossibleJumps offers exactly the squares that chains of hops lead *)
(* to: refusing the square a jump came from and searching an unchanged     *)
(* board hides none.                                                       *)
JumpsReachEveryLanding ==
    {Last(r) : r \in getAllPossibleJumps(anyBoard, anyPiece)} = Landings

(* The recursion runs away exactly when the squares the piece can land on  *)
(* hold a closed circuit: some of them with two hops each among themselves *)
(* (Piece.cpp:194 promises there is none).                                 *)
DivergesOnCircuit ==
    Diverges(anyBoard, anyPiece) <=>
        /\ anyPiece.isKing
        /\ \E S \in (SUBSET Landings) \ {{}} :
              \A s \in S : Cardinality({t \in S : HopByRules(s, t)}) >= 2

(* makeMove looks a move up by its end square alone: whatever chains lead  *)
(* there, the order of the list singles out one.                           *)
OneFirstMove ==
    LET moves == getAllPossibleMoves(anyBoard, anyPiece)
    IN  \A m \in moves : Cardinality(FirstTo(anyPiece, moves, Last(m))) = 1
=============================================================================
