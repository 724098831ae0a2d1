--------------------------- MODULE ConsoleProofs ----------------------------
(***************************************************************************)
(* The console game for every size of board and number of rows.            *)
(***************************************************************************)
EXTENDS Console, CheckersProofs

(* Both prompts follow an endGame that found both sides able to move, and  *)
(* "exit" is not followed by a prompt.                                     *)
Prompted ==
    /\ pc \in {"getPiece", "getMove"} =>
          ~endGameNow /\ \A white \in BOOLEAN : Movable(white) # {}
    /\ pc = "getMove" => pieceMoving \in Movable(isPlayer1)

IndInv == TypeOK /\ Prompted

LEMMA InitIndInv == Init => IndInv
<1> SUFFICES ASSUME Init PROVE IndInv
  OBVIOUS
<1>1. TypeOK
  BY InitialFacts DEF Init, TypeOK, Verdicts
<1>2. Prompted
  BY DEF Init, Prompted
<1> QED BY <1>1, <1>2 DEF IndInv

(* A move that was listed, carried out.                                    *)
LEMMA ChosenMove ==
    ASSUME IndInv, NEW m \in Moves(pieceMoving), getMoveFromUser(m)
    PROVE  /\ InPlace(board, board[pieceMoving])
           /\ board[pieceMoving].isWhite = isPlayer1
           /\ m \in getAllPossibleMoves(board, board[pieceMoving])
           /\ board' = applyMoveToBoard(board, m, board[pieceMoving])
<1>1. pc = "getMove" /\ board' = applyMoveToBoard(board, m, board[pieceMoving])
  BY DEF getMoveFromUser
<1>2. pieceMoving \in Occupied(board, isPlayer1)
  BY <1>1 DEF IndInv, Prompted, Movable
<1>3. /\ pieceMoving \in Squares /\ board[pieceMoving] # None
      /\ board[pieceMoving].isWhite = isPlayer1 /\ board \in Board
  BY <1>2 DEF Occupied, IndInv, TypeOK
<1> QED BY <1>1, <1>3, FoundInPlace DEF Moves

LEMMA IndInvNext == IndInv /\ [Next]_vars => IndInv'
<1> SUFFICES ASSUME IndInv, [Next]_vars
             PROVE  IndInv'
  OBVIOUS
<1> USE DEF IndInv
<1>1. CASE endGame
  <2>1. verdict' \in Verdicts
    BY <1>1 DEF endGame, Judged, Verdicts
  <2>2. pc' \in {"over", "overflow", "getPiece"}
    BY <1>1 DEF endGame
  <2>3. TypeOK'
    BY <1>1, <2>1, <2>2 DEF endGame, TypeOK
  <2>4. pc' = "getPiece" => ~endGameNow /\ Judged = ""
    BY <1>1 DEF endGame
  <2>5. Judged = "" => \A white \in BOOLEAN : Movable(white) # {}
    BY DEF Judged
  <2>6. \A white : Movable(white)' = Movable(white)
    BY <1>1 DEF endGame, Movable, Moves
  <2>7. Prompted'
    BY <1>1, <2>2, <2>4, <2>5, <2>6 DEF endGame, Prompted
  <2> QED BY <2>3, <2>7
<1>2. ASSUME NEW sq \in Squares, getPieceFromUser(sq)
      PROVE  IndInv'
  <2>1. \A white : Movable(white)' = Movable(white)
    BY <1>2 DEF getPieceFromUser, Movable, Moves
  <2>2. TypeOK'
    BY <1>2 DEF getPieceFromUser, TypeOK
  <2> QED BY <1>2, <2>1, <2>2 DEF getPieceFromUser, Prompted
<1>3. CASE triggerEndGame
  BY <1>3 DEF triggerEndGame, TypeOK, Prompted
<1>4. CASE goBack
  <2>1. \A white : Movable(white)' = Movable(white)
    BY <1>4 DEF goBack, Movable, Moves
  <2>2. TypeOK'
    BY <1>4 DEF goBack, TypeOK
  <2> QED BY <1>4, <2>1, <2>2 DEF goBack, Prompted
<1>5. ASSUME NEW m \in Moves(pieceMoving), getMoveFromUser(m)
      PROVE  IndInv'
  <2>1. board' \in Board
    BY <1>5, ChosenMove, ApplyType
  <2> QED BY <1>5, <2>1 DEF getMoveFromUser, TypeOK, Prompted
<1>6. CASE UNCHANGED vars
  BY <1>6 DEF vars, TypeOK, Prompted, Movable, Moves
<1> QED BY <1>1, <1>2, <1>3, <1>4, <1>5, <1>6 DEF Next

LEMMA Inductive == Spec => []IndInv
BY InitIndInv, IndInvNext, PTL DEF Spec

(* The board stays a board, whatever is typed.                             *)
THEOREM TypeCorrect == Spec => []TypeOK
<1>1. IndInv => TypeOK
  BY DEF IndInv
<1> QED BY <1>1, Inductive, PTL

(* Nobody is asked for a move who has none.                                *)
THEOREM Asked == Spec => []AskedCanMove
<1>1. IndInv => AskedCanMove
  BY DEF IndInv, TypeOK, Prompted, AskedCanMove, Movable
<1> QED BY <1>1, Inductive, PTL

(* The console plays Match.                                                *)
THEOREM Refinement == Spec => ImplementsMatch
<1>1. Init => M!Init
  <2> SUFFICES ASSUME Init PROVE M!Init
    OBVIOUS
  <2>1. /\ Occupied(board, TRUE) \cap Occupied(board, FALSE) = {}
        /\ \A white \in BOOLEAN : Occupied(board, white) \subseteq Squares
    BY DEF Occupied
  <2>2. \A white \in BOOLEAN : Occupied(board, white) # {}
    BY InitialFacts DEF Init
  <2> QED BY <2>1, <2>2 DEF Init, M!Init
<1>2. IndInv /\ [Next]_vars => [M!Next]_(M!vars)
  <2> SUFFICES ASSUME IndInv, [Next]_vars PROVE [M!Next]_(M!vars)
    OBVIOUS
  <2>1. ASSUME UNCHANGED <<board, isPlayer1, endGameNow>>
        PROVE  UNCHANGED M!vars
    BY <2>1 DEF M!vars, Occupied
  <2>2. CASE triggerEndGame
    <3>1. board' = board /\ endGameNow' = TRUE /\ isPlayer1' = ~isPlayer1 /\ ~endGameNow
      BY <2>2 DEF triggerEndGame, IndInv, Prompted
    <3>2. isPlayer1 \in BOOLEAN /\ endGameNow \in BOOLEAN
      BY DEF IndInv, TypeOK
    <3>3. (isPlayer1' # endGameNow') = (isPlayer1 # endGameNow)
      BY <3>1, <3>2
    <3> QED BY <3>1, <3>3 DEF M!vars, Occupied
  <2>3. ASSUME NEW m \in Moves(pieceMoving), getMoveFromUser(m)
        PROVE  M!Next
    <3> DEFINE p == board[pieceMoving]
               own == Occupied(board, isPlayer1)
               other == Occupied(board, ~isPlayer1)
               newOwn == Occupied(board', isPlayer1)
               newOther == Occupied(board', ~isPlayer1)
    <3>1. /\ InPlace(board, p) /\ p.isWhite = isPlayer1
          /\ m \in getAllPossibleMoves(board, p)
          /\ board' = applyMoveToBoard(board, m, p)
      BY <2>3, ChosenMove
    <3>2. /\ isPlayer1 \in BOOLEAN /\ endGameNow = FALSE
          /\ isPlayer1' = ~isPlayer1 /\ endGameNow' = FALSE
          /\ \A white \in BOOLEAN : Occupied(board, white) # {}
      BY <2>3 DEF getMoveFromUser, IndInv, TypeOK, Prompted, Movable
    <3> HIDE DEF p
    <3>3. /\ p.at \in own /\ Last(m) \in Squares \ (own \cup other)
          /\ newOwn = (own \ {p.at}) \cup {Last(m)}
          /\ newOther \subseteq other
      BY <3>1, ApplyArmies
    <3>4. (\E white \in BOOLEAN : Occupied(board', white) = {}) = (newOther = {})
      BY <3>2, <3>3
    <3>5. (isPlayer1' # endGameNow') = ~(isPlayer1 # endGameNow)
          /\ (isPlayer1 # endGameNow) = isPlayer1
      BY <3>2
    <3>6. M!Ply(own, other, newOwn, newOther)
      BY <3>2, <3>3, <3>4, <3>5 DEF M!Ply
    <3>7. CASE isPlayer1 = TRUE
      BY <3>5, <3>6, <3>7 DEF M!Next, M!Ply
    <3>8. CASE isPlayer1 = FALSE
      BY <3>5, <3>6, <3>8 DEF M!Next, M!Ply
    <3> QED BY <3>2, <3>7, <3>8
  <2>4. CASE endGame
    BY <2>1, <2>4 DEF endGame
  <2>5. ASSUME NEW sq \in Squares, getPieceFromUser(sq) PROVE UNCHANGED M!vars
    BY <2>1, <2>5 DEF getPieceFromUser
  <2>6. CASE goBack
    BY <2>1, <2>6 DEF goBack
  <2>7. CASE UNCHANGED vars
    BY <2>1, <2>7 DEF vars
  <2> QED BY <2>2, <2>3, <2>4, <2>5, <2>6, <2>7 DEF Next
<1> QED BY <1>1, <1>2, Inductive, PTL DEF Spec, ImplementsMatch, M!Spec
=============================================================================
