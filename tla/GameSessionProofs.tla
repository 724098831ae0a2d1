------------------------- MODULE GameSessionProofs --------------------------
(***************************************************************************)
(* The safety of a game session for every board size, number of rows and   *)
(* set of names.                                                           *)
(***************************************************************************)
EXTENDS GameSession, CheckersProofs

Own   == Occupied(boardArray, isPlayer1Turn)
Other == Occupied(boardArray, ~isPlayer1Turn)

(* What an accepted move does to the board.                                *)
LEMMA AcceptedMove ==
    ASSUME TypeOK, NEW playerId, NEW from \in Squares, NEW to,
           makeMove(playerId, from, to)
    PROVE  \E m \in getAllPossibleMoves(boardArray, boardArray[from]) :
              /\ InPlace(boardArray, boardArray[from])
              /\ boardArray[from].isWhite = isPlayer1Turn
              /\ boardArray' = applyMoveToBoard(boardArray, m, boardArray[from])
              /\ boardArray[from] \in OwnPieces
              /\ anyJumpAvailable => IsJump(m)
<1> DEFINE p == boardArray[from]
<1>1. from \in Occupied(boardArray, playerId = player1Id)
      /\ (playerId = player1Id) = isPlayer1Turn
  BY DEF makeMove, MayMove
<1>2. p # None /\ p.isWhite = isPlayer1Turn
  BY <1>1 DEF Occupied
<1>3. InPlace(boardArray, p)
  BY <1>2, FoundInPlace DEF TypeOK
<1>4. PICK m \in FirstTo(p, getAllPossibleMoves(boardArray, p), to) :
         /\ boardArray' = applyMoveToBoard(boardArray, m, p)
         /\ anyJumpAvailable => IsJump(m)
  BY DEF makeMove, validMove
<1>5. m \in getAllPossibleMoves(boardArray, p)
  BY DEF FirstTo
<1>6. p \in OwnPieces
  BY <1>1 DEF OwnPieces
<1> QED BY <1>2, <1>3, <1>4, <1>5, <1>6

(* The same in terms of the two armies.                                    *)
LEMMA MoveStep ==
    ASSUME TypeOK, NEW playerId, NEW from \in Squares, NEW to,
           makeMove(playerId, from, to)
    PROVE  /\ boardArray' \in Board
           /\ Own # {}
           /\ \E a \in Own, z \in Squares \ (Own \cup Other) :
                 Occupied(boardArray', isPlayer1Turn) = (Own \ {a}) \cup {z}
           /\ Occupied(boardArray', ~isPlayer1Turn) \subseteq Other
           /\ Occupied(boardArray', isPlayer1Turn) # {}
           /\ isPlayer1Turn' = ~isPlayer1Turn
           /\ checkForWinner(boardArray')
           /\ UNCHANGED <<player1Id, player2Id, gameStarted, crashed>>
<1> DEFINE p == boardArray[from]
<1>1. PICK m \in getAllPossibleMoves(boardArray, p) :
         /\ InPlace(boardArray, p)
         /\ p.isWhite = isPlayer1Turn
         /\ boardArray' = applyMoveToBoard(boardArray, m, p)
  BY AcceptedMove
<1> HIDE DEF p
<1>2. boardArray' \in Board
  BY <1>1, ApplyType
<1>3. /\ p.at \in Own
      /\ Last(m) \in Squares \ (Own \cup Other)
      /\ Occupied(boardArray', isPlayer1Turn) = (Own \ {p.at}) \cup {Last(m)}
      /\ Occupied(boardArray', ~isPlayer1Turn) = Other \ Cleared(boardArray, m)
  BY <1>1, ApplyArmies DEF Own, Other
<1>4. /\ isPlayer1Turn' = ~isPlayer1Turn
      /\ checkForWinner(boardArray')
      /\ UNCHANGED <<player1Id, player2Id, gameStarted, crashed>>
  BY DEF makeMove
<1> QED BY <1>2, <1>3, <1>4

Wiped(b) == \E white \in BOOLEAN : Occupied(b, white) = {}

(* checkForWinner records and announces one result if a side is wiped out. *)
LEMMA WinnerFacts ==
    ASSUME TypeOK, NEW b, checkForWinner(b)
    PROVE  /\ results' \in Seq(Result)
           /\ announced' \in Seq(Messages)
           /\ Wiped(b) => /\ Len(results') = Len(results) + 1
                          /\ Len(announced') = Len(announced) + 1
           /\ ~Wiped(b) => results' = results /\ announced' = announced
<1> DEFINE result  == [win |-> player2Id, loss |-> player1Id]
           message == IF Occupied(b, TRUE) = {} THEN "BLACK WINS" ELSE ""
<1>1. results \in Seq(Result) /\ announced \in Seq(Messages)
  BY DEF TypeOK
<1>2. result \in Result /\ message \in Messages
  BY DEF TypeOK, Result, Seated, Messages
<1>3. CASE Wiped(b)
  <2>1. results' = Append(results, result) /\ announced' = Append(announced, message)
    BY <1>3 DEF checkForWinner, Wiped
  <2> HIDE DEF result, message
  <2>2. /\ Append(results, result) \in Seq(Result)
        /\ Len(Append(results, result)) = Len(results) + 1
    BY <1>1, <1>2, AppendProperties
  <2>3. /\ Append(announced, message) \in Seq(Messages)
        /\ Len(Append(announced, message)) = Len(announced) + 1
    BY <1>1, <1>2, AppendProperties
  <2> QED BY <1>3, <2>1, <2>2, <2>3
<1>4. CASE ~Wiped(b)
  <2>1. results' = results /\ announced' = announced
    BY <1>4 DEF checkForWinner, Wiped
  <2> QED BY <1>1, <1>4, <2>1
<1> QED BY <1>3, <1>4

(* TypeOK holds in every reachable state: in particular every piece always *)
(* knows the slot it is stored in.                                         *)
THEOREM TypeCorrect == Spec => []TypeOK
<1>1. Init => TypeOK
  <2> SUFFICES ASSUME Init PROVE TypeOK
    OBVIOUS
  <2>1. boardArray \in Board
    BY InitialFacts DEF Init
  <2>2. results \in Seq(Result) /\ announced \in Seq(Messages)
    BY DEF Init
  <2> QED BY <2>1, <2>2 DEF Init, TypeOK, Seated
<1>2. TypeOK /\ [Next]_vars => TypeOK'
  <2> SUFFICES ASSUME TypeOK, [Next]_vars PROVE TypeOK'
    OBVIOUS
  <2>1. ASSUME NEW name \in Names, joinGame(name) PROVE TypeOK'
    BY <2>1 DEF joinGame, TypeOK, Seated
  <2>2. ASSUME NEW name \in Names, NEW from \in Squares, NEW to, makeMove(name, from, to)
        PROVE  TypeOK'
    <3>1. /\ boardArray' \in Board
          /\ isPlayer1Turn' = ~isPlayer1Turn
          /\ checkForWinner(boardArray')
          /\ UNCHANGED <<player1Id, player2Id, gameStarted, crashed>>
      BY <2>2, MoveStep
    <3>2. results' \in Seq(Result) /\ announced' \in Seq(Messages)
      BY <3>1, WinnerFacts
    <3> QED BY <3>1, <3>2 DEF TypeOK
  <2>3. ASSUME NEW name \in Names, NEW from \in Squares, makeMoveOverflow(name, from)
        PROVE  TypeOK'
    BY <2>3 DEF makeMoveOverflow, TypeOK
  <2>4. CASE UNCHANGED vars
    BY <2>4 DEF vars, TypeOK
  <2> QED BY <2>1, <2>2, <2>3, <2>4 DEF Next
<1> QED BY <1>1, <1>2, PTL DEF Spec

(* A result, once recorded, leaves the side to move without a piece, so no *)
(* further move is accepted and checkForWinner is not reached again.       *)
THEOREM Decided == Spec => []DecidedOnce
<1>1. Init => DecidedOnce
  <2> SUFFICES ASSUME Init PROVE DecidedOnce
    OBVIOUS
  <2>1. \A white \in BOOLEAN : Occupied(boardArray, white) # {}
    BY InitialFacts DEF Init
  <2>2. Len(results) = 0 /\ Len(announced) = 0
    BY DEF Init
  <2> QED BY <2>1, <2>2 DEF DecidedOnce
<1>2. TypeOK /\ DecidedOnce /\ [Next]_vars => DecidedOnce'
  <2> SUFFICES ASSUME TypeOK, DecidedOnce, [Next]_vars PROVE DecidedOnce'
    OBVIOUS
  <2>1. ASSUME UNCHANGED <<boardArray, isPlayer1Turn, results, announced>>
        PROVE  DecidedOnce'
    BY <2>1 DEF DecidedOnce, Occupied
  <2>2. ASSUME NEW name \in Names, NEW from \in Squares, NEW to, makeMove(name, from, to)
        PROVE  DecidedOnce'
    <3>1. /\ Own # {}
          /\ Occupied(boardArray', isPlayer1Turn) # {}
          /\ isPlayer1Turn' = ~isPlayer1Turn
          /\ checkForWinner(boardArray')
      BY <2>2, MoveStep
    <3>2. isPlayer1Turn \in BOOLEAN
      BY DEF TypeOK
    <3>3. Len(results) = 0 /\ Len(announced) = 0
      BY <3>1 DEF DecidedOnce, Own
    <3>4. Wiped(boardArray') <=> Occupied(boardArray', ~isPlayer1Turn) = {}
      BY <3>1, <3>2 DEF Wiped
    <3>5. CASE Wiped(boardArray')
      <4>1. Len(results') = Len(results) + 1 /\ Len(announced') = Len(announced) + 1
        BY <3>1, <3>5, WinnerFacts
      <4>2. Len(results') = 1 /\ Len(announced') = 1
        BY <3>3, <4>1
      <4> QED BY <3>1, <3>4, <3>5, <4>2 DEF DecidedOnce, Wiped
    <3>6. CASE ~Wiped(boardArray')
      <4>1. results' = results /\ announced' = announced
        BY <3>1, <3>6, WinnerFacts
      <4> QED BY <3>3, <3>6, <4>1 DEF DecidedOnce, Wiped
    <3> QED BY <3>5, <3>6
  <2>3. ASSUME NEW name \in Names, joinGame(name) PROVE DecidedOnce'
    BY <2>1, <2>3 DEF joinGame
  <2>4. ASSUME NEW name \in Names, NEW from \in Squares, makeMoveOverflow(name, from)
        PROVE  DecidedOnce'
    BY <2>1, <2>4 DEF makeMoveOverflow
  <2>5. CASE UNCHANGED vars
    BY <2>1, <2>5 DEF vars
  <2> QED BY <2>2, <2>3, <2>4, <2>5 DEF Next
<1> QED BY <1>1, <1>2, TypeCorrect, PTL DEF Spec

(* Every piece stays on dark squares and no man stands uncrowned on its    *)
(* crowning row.                                                           *)
THEOREM Placement == Spec => []PiecesWellPlaced
<1>1. Init => PiecesWellPlaced
  BY InitialFacts DEF Init, PiecesWellPlaced
<1>2. TypeOK /\ PiecesWellPlaced /\ [Next]_vars => PiecesWellPlaced'
  <2> SUFFICES ASSUME TypeOK, PiecesWellPlaced, [Next]_vars PROVE PiecesWellPlaced'
    OBVIOUS
  <2>1. ASSUME UNCHANGED boardArray PROVE PiecesWellPlaced'
    BY <2>1 DEF PiecesWellPlaced
  <2>2. ASSUME NEW name \in Names, NEW from \in Squares, NEW to, makeMove(name, from, to)
        PROVE  PiecesWellPlaced'
    <3> DEFINE p == boardArray[from]
    <3>1. PICK m \in getAllPossibleMoves(boardArray, p) :
             /\ InPlace(boardArray, p)
             /\ boardArray' = applyMoveToBoard(boardArray, m, p)
      BY <2>2, AcceptedMove
    <3> HIDE DEF p
    <3>2. p \in Piece /\ p # None /\ p.at \in Squares /\ boardArray[p.at] = p
      BY <3>1, PieceFields DEF InPlace
    <3>3. Last(m) \in Squares
      BY <3>1, MoveFacts
    <3>4. isCheckerboardSpace(Last(m))
      <4>1. isCheckerboardSpace(p.at)
        BY <3>2 DEF PiecesWellPlaced
      <4> QED BY <3>1, <4>1, MoveStaysDark
    <3>5. /\ Landed(m, p).isWhite = p.isWhite
          /\ Last(m)[2] = (IF p.isWhite THEN Size - 1 ELSE 0) => Landed(m, p).isKing
      BY <3>2, <3>3, LandedFacts
    <3>6. ASSUME NEW sq \in Squares, boardArray'[sq] # None
          PROVE  /\ isCheckerboardSpace(sq)
                 /\ sq[2] = (IF boardArray'[sq].isWhite THEN Size - 1 ELSE 0)
                      => boardArray'[sq].isKing
      <4>1. CASE sq = Last(m)
        <5>1. boardArray'[sq] = Landed(m, p)
          BY <3>1, <4>1, ApplyFacts
        <5> QED BY <3>4, <3>5, <4>1, <5>1
      <4>2. CASE sq # Last(m)
        <5>1. boardArray'[sq] = boardArray[sq]
          BY <3>1, <3>6, <4>2, ApplyFacts
        <5> QED BY <3>6, <5>1 DEF PiecesWellPlaced
      <4> QED BY <4>1, <4>2
    <3> QED BY <3>6 DEF PiecesWellPlaced
  <2>3. ASSUME NEW name \in Names, joinGame(name) PROVE PiecesWellPlaced'
    BY <2>1, <2>3 DEF joinGame
  <2>4. ASSUME NEW name \in Names, NEW from \in Squares, makeMoveOverflow(name, from)
        PROVE  PiecesWellPlaced'
    BY <2>1, <2>4 DEF makeMoveOverflow
  <2>5. CASE UNCHANGED vars
    BY <2>1, <2>5 DEF vars
  <2> QED BY <2>2, <2>3, <2>4, <2>5 DEF Next
<1> QED BY <1>1, <1>2, TypeCorrect, PTL DEF Spec

(* The session implements Match.                                           *)
THEOREM Refinement == Spec => ImplementsMatch
<1>1. Init => M!Init
  <2> SUFFICES ASSUME Init PROVE M!Init
    OBVIOUS
  <2>1. Occupied(boardArray, TRUE) \cap Occupied(boardArray, FALSE) = {}
    BY DEF Occupied
  <2>2. \A white \in BOOLEAN : Occupied(boardArray, white) \subseteq Squares
    BY DEF Occupied
  <2> QED BY <2>1, <2>2 DEF Init, M!Init
<1>2. TypeOK /\ DecidedOnce /\ [Next]_vars => [M!Next]_(M!vars)
  <2> SUFFICES ASSUME TypeOK, DecidedOnce, [Next]_vars PROVE [M!Next]_(M!vars)
    OBVIOUS
  <2>1. ASSUME UNCHANGED <<boardArray, isPlayer1Turn, results>>
        PROVE  UNCHANGED M!vars
    BY <2>1 DEF M!vars, Occupied
  <2>2. ASSUME NEW name \in Names, NEW from \in Squares, NEW to, makeMove(name, from, to)
        PROVE  M!Next
    <3>1. /\ Own # {}
          /\ \E a \in Own, z \in Squares \ (Own \cup Other) :
                Occupied(boardArray', isPlayer1Turn) = (Own \ {a}) \cup {z}
          /\ Occupied(boardArray', ~isPlayer1Turn) \subseteq Other
          /\ Occupied(boardArray', isPlayer1Turn) # {}
          /\ isPlayer1Turn' = ~isPlayer1Turn
          /\ checkForWinner(boardArray')
      BY <2>2, MoveStep
    <3>2. isPlayer1Turn \in BOOLEAN /\ results \in Seq(Result)
      BY DEF TypeOK
    <3>3. results = <<>>
      <4>1. Len(results) = 0
        BY <3>1, <3>2 DEF DecidedOnce, Own
      <4> QED BY <3>2, <4>1
    <3>4. (results' # <<>>) = (Occupied(boardArray', ~isPlayer1Turn) = {})
      <4>1. results' \in Seq(Result)
        BY <3>1, WinnerFacts
      <4>2. Wiped(boardArray') <=> Occupied(boardArray', ~isPlayer1Turn) = {}
        BY <3>1, <3>2 DEF Wiped
      <4>3. CASE Wiped(boardArray')
        <5>1. Len(results') = Len(results) + 1
          BY <3>1, <4>3, WinnerFacts
        <5>2. results' # <<>>
          BY <3>3, <5>1
        <5> QED BY <4>2, <4>3, <5>2
      <4>4. CASE ~Wiped(boardArray')
        <5>1. results' = results
          BY <3>1, <4>4, WinnerFacts
        <5> QED BY <3>3, <4>2, <4>4, <5>1
      <4> QED BY <4>3, <4>4
    <3>5. M!Ply(Own, Other, Occupied(boardArray', isPlayer1Turn),
                            Occupied(boardArray', ~isPlayer1Turn))
      BY <3>1, <3>3, <3>4 DEF M!Ply
    <3> QED BY <3>2, <3>5 DEF M!Next, Own, Other, Occupied
  <2>3. ASSUME NEW name \in Names, joinGame(name) PROVE UNCHANGED M!vars
    BY <2>1, <2>3 DEF joinGame
  <2>4. ASSUME NEW name \in Names, NEW from \in Squares, makeMoveOverflow(name, from)
        PROVE  UNCHANGED M!vars
    BY <2>1, <2>4 DEF makeMoveOverflow
  <2>5. CASE UNCHANGED vars
    BY <2>1, <2>5 DEF vars
  <2> QED BY <2>2, <2>3, <2>4, <2>5 DEF Next
<1> QED BY <1>1, <1>2, TypeCorrect, Decided, PTL DEF Spec, ImplementsMatch, M!Spec

-----------------------------------------------------------------------------
(* The pieces of the side to move, each in its slot.                       *)
LEMMA OwnFacts ==
    ASSUME TypeOK, NEW p \in OwnPieces
    PROVE  /\ InPlace(boardArray, p)
           /\ p.isWhite = isPlayer1Turn
           /\ p.at \in Own
           /\ boardArray[p.at] = p
           /\ p.at \in Squares
<1>1. PICK sq \in Own : p = boardArray[sq]
  BY DEF OwnPieces, Own
<1>2. sq \in Squares /\ p # None /\ p.isWhite = isPlayer1Turn
  BY <1>1 DEF Own, Occupied
<1>3. InPlace(boardArray, p) /\ p.at = sq
  BY <1>1, <1>2, FoundInPlace DEF TypeOK
<1> QED BY <1>1, <1>2, <1>3

(* The generator finds a jump exactly if an enemy can be captured.         *)
LEMMA CaptureIsJump ==
    ASSUME TypeOK
    PROVE  CouldCapture(boardArray, isPlayer1Turn) <=> anyJumpAvailable
<1> DEFINE b == boardArray
           w == isPlayer1Turn
<1>1. w \in BOOLEAN /\ b \in Board
  BY DEF TypeOK
<1>2. ASSUME CouldCapture(b, w) PROVE anyJumpAvailable
  <2>1. PICK s \in Occupied(b, w), t \in Occupied(b, ~w) :
           LET dx == t[1] - s[1]
               dy == t[2] - s[2]
               behind == <<t[1] + dx, t[2] + dy>>
           IN  /\ dx \in {-1, 1}
               /\ dy \in IF b[s].isKing THEN {-1, 1} ELSE {Forward(b[s])}
               /\ behind \in Squares
               /\ b[behind] = None
    BY <1>2 DEF CouldCapture
  <2> DEFINE d == <<t[1] - s[1], t[2] - s[2]>>
             behind == <<t[1] + d[1], t[2] + d[2]>>
             p == b[s]
             r == <<s, behind>>
  <2>2. d \in Directions(p) /\ behind \in Squares /\ b[behind] = None
    BY <2>1 DEF Directions
  <2>3. s \in Squares /\ t \in Squares /\ b[s] # None /\ b[t] # None
        /\ b[s].isWhite = w /\ b[t].isWhite = ~w
    BY DEF Occupied
  <2>4. s[1] \in Int /\ s[2] \in Int /\ t[1] \in Int /\ t[2] \in Int
        /\ s = <<s[1], s[2]>> /\ t = <<t[1], t[2]>>
    BY <2>3, SquareFields, BoardAssumption
  <2>5. behind = Shift(s, d, 2) /\ Midpoint(s, behind) = t
    <3>1. \A x, y \in Int : y + (y - x) = x + 2 * (y - x) /\ (x + (y + (y - x))) \div 2 = y
      OBVIOUS
    <3>2. d[1] = t[1] - s[1] /\ d[2] = t[2] - s[2]
      OBVIOUS
    <3>3. behind[1] = t[1] + (t[1] - s[1]) /\ behind[2] = t[2] + (t[2] - s[2])
      OBVIOUS
    <3>4. behind = Shift(s, d, 2)
      BY <2>4, <3>1, <3>2 DEF Shift
    <3>5. Midpoint(s, behind) = t
      BY <2>4, <3>1, <3>3 DEF Midpoint
    <3> QED BY <3>4, <3>5
  <2>6. InPlace(b, p) /\ p.at = s
    BY <1>1, <2>3, FoundInPlace
  <2> HIDE DEF d, behind
  <2>7. Hop(b, p, s, behind)
    BY <1>1, <2>2, <2>3, <2>5 DEF Hop
  <2>8. behind # s
    BY <2>2, <2>3
  <2>9. Path(b, p, r) /\ Len(r) > 1
    <3>1. r \in Seq(Squares) /\ Len(r) = 2 /\ r[1] = s /\ r[2] = behind
      BY <2>2, <2>3
    <3> HIDE DEF p, r
    <3>2. \A i \in 1 .. 1 : i = 1
      OBVIOUS
    <3>3. \A i \in 1 .. 2 : i = 1 \/ i = 2
      OBVIOUS
    <3>4. \A i \in 1 .. Len(r) - 1 : Hop(b, p, r[i], r[i + 1])
      BY <2>7, <3>1, <3>2
    <3>5. \A i, j \in 1 .. Len(r) : r[i] = r[j] => i = j
      BY <2>8, <3>1, <3>3
    <3> QED BY <2>6, <3>1, <3>4, <3>5 DEF Path
  <2>10. r \in getAllPossibleMoves(b, p) /\ IsJump(r)
    BY <2>6, <2>9, MoveKinds
  <2>11. p \in OwnPieces
    BY DEF OwnPieces
  <2> QED BY <2>10, <2>11 DEF anyJumpAvailable
<1>3. ASSUME anyJumpAvailable PROVE CouldCapture(b, w)
  <2>1. PICK p \in OwnPieces : \E m \in getAllPossibleMoves(b, p) : IsJump(m)
    BY <1>3 DEF anyJumpAvailable
  <2>2. PICK m \in getAllPossibleMoves(b, p) : IsJump(m)
    BY <2>1
  <2>3. InPlace(b, p) /\ p.isWhite = w /\ p.at \in Occupied(b, w) /\ b[p.at] = p
    BY OwnFacts DEF Own
  <2>4. Path(b, p, m) /\ Len(m) > 1
    BY <2>2, <2>3, MoveKinds
  <2> DEFINE s == p.at
             z == m[2]
             t == Midpoint(s, z)
  <2>5. Hop(b, p, s, z)
    <3>1. /\ m[1] = p.at /\ m \in Seq(Squares)
          /\ \A i \in 1 .. Len(m) - 1 : Hop(b, p, m[i], m[i + 1])
      BY <2>4 DEF Path
    <3>2. 1 \in 1 .. Len(m) - 1 /\ 1 + 1 = 2
      BY <2>4, <3>1
    <3> QED BY <3>1, <3>2
  <2> HIDE DEF z
  <2>6. PICK d \in Directions(p) : z = Shift(s, d, 2)
    BY <2>5 DEF Hop
  <2>7. /\ d[1] \in {-1, 1} /\ d[2] \in {-1, 1}
        /\ d[2] \in IF p.isKing THEN {-1, 1} ELSE {Forward(p)}
    BY DirectionsType DEF Directions
  <2>8. s \in Squares /\ z \in Squares /\ b[z] = None /\ t \in Squares
        /\ b[t] # None /\ b[t].isWhite # p.isWhite
    BY <2>5, HopFacts DEF Hop
  <2>9. s[1] \in Int /\ s[2] \in Int /\ z = <<z[1], z[2]>>
    BY <2>8, SquareFields, BoardAssumption
  <2>10. z[1] = s[1] + 2 * d[1] /\ z[2] = s[2] + 2 * d[2]
    BY <2>6 DEF Shift
  <2>11. t[1] = s[1] + d[1] /\ t[2] = s[2] + d[2]
    <3>1. \A x \in Int, e \in {-1, 1} : (x + (x + 2 * e)) \div 2 = x + e
      OBVIOUS
    <3>2. t[1] = (s[1] + z[1]) \div 2 /\ t[2] = (s[2] + z[2]) \div 2
      BY DEF Midpoint
    <3> HIDE DEF t
    <3> QED BY <2>7, <2>9, <2>10, <3>1, <3>2
  <2>12. t \in Occupied(b, ~w)
    <3>1. b[t].isWhite \in BOOLEAN
      BY <1>1, <2>8 DEF Board, Piece
    <3> QED BY <1>1, <2>3, <2>8, <3>1 DEF Occupied
  <2> HIDE DEF t
  <2>13. /\ t[1] - s[1] = d[1] /\ t[2] - s[2] = d[2]
         /\ t[1] + (t[1] - s[1]) = z[1] /\ t[2] + (t[2] - s[2]) = z[2]
    <3>1. \A x \in Int, e \in {-1, 1} :
             (x + e) - x = e /\ (x + e) + ((x + e) - x) = x + 2 * e
      OBVIOUS
    <3> QED BY <2>7, <2>9, <2>10, <2>11, <3>1
  <2> QED BY <2>3, <2>7, <2>8, <2>9, <2>12, <2>13 DEF CouldCapture
<1> QED BY <1>2, <1>3

(* A move takes as many enemies as squares it clears: none if it is plain. *)
LEMMA LostFacts ==
    ASSUME TypeOK, NEW p, InPlace(boardArray, p), p.isWhite = isPlayer1Turn,
           NEW m \in getAllPossibleMoves(boardArray, p),
           boardArray' = applyMoveToBoard(boardArray, m, p)
    PROVE  /\ Lost(~isPlayer1Turn) = Cardinality(Cleared(boardArray, m))
           /\ Lost(~isPlayer1Turn) \in Nat
           /\ Lost(~isPlayer1Turn) > 0 <=> IsJump(m)
<1> DEFINE C == Cleared(boardArray, m)
<1>1. C \subseteq Other /\ Occupied(boardArray', ~isPlayer1Turn) = Other \ C
  BY ApplyArmies, ClearedAreEnemies DEF Other
<1>2. IsFiniteSet(Other)
  BY SquaresFinite, FS_Subset DEF Other, Occupied
<1>3. /\ Cardinality(Other) \in Nat
      /\ Cardinality(Other \ C) = Cardinality(Other) - Cardinality(Other \cap C)
      /\ Other \cap C = C
  BY <1>1, <1>2, FS_CardinalityType, FS_Difference
<1>4. Cardinality(C) \in Nat
  BY <1>1, <1>2, FS_Subset, FS_CardinalityType
<1>5. Lost(~isPlayer1Turn) = Cardinality(Other) - Cardinality(Other \ C)
  BY <1>1 DEF Lost, Other
<1>6. Cardinality(C) > 0 <=> IsJump(m)
  <2>1. CASE m \in PlainMoves(boardArray, p)
    <3>1. C = {} /\ ~IsJump(m)
      BY <2>1, QuietFacts
    <3> HIDE DEF C
    <3>2. Cardinality(C) = 0
      BY <3>1, FS_EmptySet
    <3> QED BY <3>1, <3>2
  <2>2. CASE Path(boardArray, p, m) /\ Len(m) > 1
    BY <2>2, JumpClears
  <2> QED BY <2>1, <2>2, MoveKinds
<1> HIDE DEF C
<1>7. Lost(~isPlayer1Turn) = Cardinality(C)
  BY <1>3, <1>4, <1>5
<1> QED BY <1>4, <1>6, <1>7 DEF C

(* A move captures if and only if its side could.                          *)
THEOREM Mandatory == Spec => MandatoryCapture
<1>1. TypeOK /\ [Next]_vars
        => [boardArray' # boardArray =>
              (CouldCapture(boardArray, isPlayer1Turn) <=> Lost(~isPlayer1Turn) > 0)]_vars
  <2> SUFFICES ASSUME TypeOK, [Next]_vars, boardArray' # boardArray
               PROVE  CouldCapture(boardArray, isPlayer1Turn) <=> Lost(~isPlayer1Turn) > 0
    OBVIOUS
  <2>1. PICK name \in Names, from \in Squares :
           \E to \in Destinations(from) : makeMove(name, from, to)
    BY DEF Next, joinGame, makeMoveOverflow, vars
  <2>a. PICK to \in Destinations(from) : makeMove(name, from, to)
    BY <2>1
  <2> DEFINE p == boardArray[from]
  <2>2. PICK m \in getAllPossibleMoves(boardArray, p) :
           /\ InPlace(boardArray, p)
           /\ p.isWhite = isPlayer1Turn
           /\ boardArray' = applyMoveToBoard(boardArray, m, p)
           /\ p \in OwnPieces
           /\ anyJumpAvailable => IsJump(m)
    BY <2>a, AcceptedMove
  <2> HIDE DEF p
  <2>3. Lost(~isPlayer1Turn) > 0 <=> IsJump(m)
    BY <2>2, LostFacts
  <2>4. IsJump(m) => anyJumpAvailable
    BY <2>2 DEF anyJumpAvailable
  <2> QED BY <2>2, <2>3, <2>4, CaptureIsJump
<1> QED BY <1>1, TypeCorrect, PTL DEF Spec, MandatoryCapture

(* How far a move goes, by how many pieces it takes.                       *)
LEMMA MoveSpans ==
    ASSUME NEW b, NEW p, InPlace(b, p), NEW m \in getAllPossibleMoves(b, p),
           NEW taken, taken = Cardinality(Cleared(b, m))
    PROVE  LET dx == Distance(p.at[1], Last(m)[1])
               dy == Distance(p.at[2], Last(m)[2])
           IN  /\ IF taken = 0 THEN dx = 1 /\ dy = 1
                  ELSE /\ dx % 2 = 0 /\ dx <= 2 * taken
                       /\ dy % 2 = 0 /\ dy <= 2 * taken
               /\ ~p.isKing =>
                     Last(m)[2] = p.at[2]
                        + Forward(p) * (IF taken = 0 THEN 1 ELSE 2 * taken)
<1>1. /\ p.at[1] \in Int /\ p.at[2] \in Int
      /\ Last(m)[1] \in Int /\ Last(m)[2] \in Int
  BY MoveFacts, PieceFields, SquareFields, BoardAssumption DEF InPlace
<1>2. Forward(p) \in {1, -1}
  BY DEF Forward
<1>3. CASE m \in PlainMoves(b, p)
  <2>1. taken = 0
    BY <1>3, QuietFacts, FS_EmptySet
  <2>2. /\ Last(m)[1] - p.at[1] \in {-1, 1} /\ Last(m)[2] - p.at[2] \in {-1, 1}
        /\ ~p.isKing => Last(m)[2] = p.at[2] + Forward(p)
    BY <1>3, QuietFacts
  <2>3. ASSUME NEW x \in Int, NEW y \in Int, y - x \in {-1, 1} PROVE Distance(x, y) = 1
    BY <2>3 DEF Distance
  <2> QED BY <1>1, <1>2, <2>1, <2>2, <2>3
<1>4. CASE Path(b, p, m) /\ Len(m) > 1
  <2>1. taken \in Nat /\ taken > 0
    BY <1>4, JumpClears
  <2>2. ASSUME NEW x \in Int, NEW y \in Int, (y - x) % 2 = 0,
               y - x <= 2 * taken, x - y <= 2 * taken
        PROVE  Distance(x, y) % 2 = 0 /\ Distance(x, y) <= 2 * taken
    BY <2>2 DEF Distance
  <2>3. /\ Distance(p.at[1], Last(m)[1]) % 2 = 0
        /\ Distance(p.at[1], Last(m)[1]) <= 2 * taken
    BY <1>1, <1>4, <2>2, JumpSpans
  <2>4. /\ Distance(p.at[2], Last(m)[2]) % 2 = 0
        /\ Distance(p.at[2], Last(m)[2]) <= 2 * taken
    BY <1>1, <1>4, <2>2, JumpSpans
  <2>5. ~p.isKing => Last(m)[2] = p.at[2] + Forward(p) * (2 * taken)
    BY <1>4, ManComesOut
  <2>6. taken # 0
    BY <2>1
  <2> QED BY <2>3, <2>4, <2>5, <2>6
<1> QED BY <1>3, <1>4, MoveKinds

(* Every move moves one piece as far as what it takes allows.              *)
THEOREM Geometry == Spec => MoveGeometry
<1>1. TypeOK /\ [Next]_vars
        => [boardArray' # boardArray =>
              \E from \in Occupied(boardArray, isPlayer1Turn)
                            \ Occupied(boardArray', isPlayer1Turn),
                 to \in Occupied(boardArray', isPlayer1Turn)
                            \ Occupied(boardArray, isPlayer1Turn) :
                    OnePieceMoved(from, to)]_vars
  <2> SUFFICES ASSUME TypeOK, [Next]_vars, boardArray' # boardArray
               PROVE  \E from \in Own \ Occupied(boardArray', isPlayer1Turn),
                         to \in Occupied(boardArray', isPlayer1Turn) \ Own :
                            OnePieceMoved(from, to)
    BY DEF Own
  <2>1. PICK name \in Names, from \in Squares :
           \E to \in Destinations(from) : makeMove(name, from, to)
    BY DEF Next, joinGame, makeMoveOverflow, vars
  <2>2. PICK to \in Destinations(from) : makeMove(name, from, to)
    BY <2>1
  <2> DEFINE p == boardArray[from]
  <2>3. PICK m \in getAllPossibleMoves(boardArray, p) :
           /\ InPlace(boardArray, p)
           /\ p.isWhite = isPlayer1Turn
           /\ boardArray' = applyMoveToBoard(boardArray, m, p)
    BY <2>2, AcceptedMove
  <2> HIDE DEF p
  <2> DEFINE z == Last(m)
             C == Cleared(boardArray, m)
  <2>4. /\ p \in Piece /\ p.at \in Squares /\ boardArray[p.at] = p /\ p # None
        /\ z \in Squares /\ boardArray[z] = None /\ z # p.at
    BY <2>3, MoveFacts, PieceFields DEF InPlace
  <2>5. /\ Landed(m, p).isWhite = p.isWhite /\ Landed(m, p) # None
        /\ p.isKing => Landed(m, p).isKing
    BY <2>4, LandedFacts
  <2>6. ASSUME NEW sq \in Squares
        PROVE  boardArray'[sq] = IF sq = z THEN Landed(m, p)
                                 ELSE IF sq = p.at \/ sq \in C THEN None
                                 ELSE boardArray[sq]
    BY <2>3, ApplyFacts
  <2>7. C \subseteq Other
    BY <2>3, ClearedAreEnemies DEF Other
  <2>8. Lost(~isPlayer1Turn) = Cardinality(C)
    BY <2>3, LostFacts
  <2>9. LET dx == Distance(p.at[1], z[1])
            dy == Distance(p.at[2], z[2])
            taken == Lost(~isPlayer1Turn)
        IN  /\ IF taken = 0 THEN dx = 1 /\ dy = 1
               ELSE /\ dx % 2 = 0 /\ dx <= 2 * taken
                    /\ dy % 2 = 0 /\ dy <= 2 * taken
            /\ ~p.isKing =>
                  z[2] = p.at[2] + Forward(p) * (IF taken = 0 THEN 1 ELSE 2 * taken)
    BY <2>3, <2>8, MoveSpans
  <2>10. /\ p.at \in Own \ Occupied(boardArray', isPlayer1Turn)
         /\ z \in Occupied(boardArray', isPlayer1Turn) \ Own
    <3>1. p.at \in Own /\ z \notin Own
      BY <2>3, <2>4 DEF Own, Occupied
    <3>2. boardArray'[p.at] = None /\ boardArray'[z] = Landed(m, p)
      BY <2>4, <2>6
    <3> QED BY <2>3, <2>4, <2>5, <3>1, <3>2 DEF Occupied
  <2> HIDE DEF z, C
  <2>11. OnePieceMoved(p.at, z)
    <3>1. boardArray'[p.at] = None /\ boardArray'[z] = Landed(m, p)
      BY <2>4, <2>6
    <3>2. \A sq \in Squares \ {p.at, z} :
             \/ boardArray'[sq] = boardArray[sq]
             \/ sq \in Occupied(boardArray, ~isPlayer1Turn) /\ boardArray'[sq] = None
      BY <2>6, <2>7 DEF Other
    <3> QED BY <2>4, <2>5, <2>9, <3>1, <3>2 DEF OnePieceMoved
  <2> QED BY <2>10, <2>11
<1> QED BY <1>1, TypeCorrect, PTL DEF Spec, MoveGeometry

(* A request for the end of a listed move is accepted if the move may be   *)
(* made, and taken for a move of the same kind.                            *)
LEMMA EndIsAccepted ==
    ASSUME TypeOK, NEW p \in OwnPieces, NEW n \in getAllPossibleMoves(boardArray, p),
           anyJumpAvailable => IsJump(n)
    PROVE  /\ p.at \in Own
           /\ Last(n) \in Destinations(p.at)
           /\ \E m \in validMove(p.at, Last(n)) : IsJump(m) <=> IsJump(n)
<1>1. InPlace(boardArray, p) /\ p.at \in Own /\ boardArray[p.at] = p /\ p # None
  BY OwnFacts, PieceFields DEF InPlace
<1>2. Last(n) \in Destinations(p.at)
  BY <1>1 DEF Destinations
<1>3. PICK m \in getAllPossibleMoves(boardArray, p) :
         /\ Last(m) = Last(n)
         /\ m \in FirstTo(p, getAllPossibleMoves(boardArray, p), Last(n))
  BY <1>1, OneComesFirst
<1>5. IsJump(m) <=> IsJump(n)
  BY <1>1, <1>3, MoveKinds, EndTellsJump
<1>6. m \in validMove(p.at, Last(n))
  BY <1>1, <1>3, <1>5 DEF validMove
<1> QED BY <1>1, <1>2, <1>5, <1>6

(* A side with a move is never refused all it could ask for.               *)
THEOREM Accepted == Spec => []SomeMoveAccepted
<1>1. TypeOK => SomeMoveAccepted
  <2> SUFFICES ASSUME TypeOK
               PROVE  /\ CouldCapture(boardArray, isPlayer1Turn) =>
                            \E from \in Own : \E to \in Destinations(from) :
                               \E m \in validMove(from, to) : IsJump(m)
                      /\ (\E from \in Own : Destinations(from) # {}) =>
                            \E from \in Own : \E to \in Destinations(from) :
                               validMove(from, to) # {}
    BY DEF SomeMoveAccepted, Own
  <2>1. ASSUME anyJumpAvailable
        PROVE  \E from \in Own : \E to \in Destinations(from) :
                  \E m \in validMove(from, to) : IsJump(m)
    <3>1. PICK p \in OwnPieces : \E n \in getAllPossibleMoves(boardArray, p) : IsJump(n)
      BY <2>1 DEF anyJumpAvailable
    <3>2. PICK n \in getAllPossibleMoves(boardArray, p) : IsJump(n)
      BY <3>1
    <3>3. /\ p.at \in Own
          /\ Last(n) \in Destinations(p.at)
          /\ \E m \in validMove(p.at, Last(n)) : IsJump(m) <=> IsJump(n)
      BY <3>2, EndIsAccepted
    <3> QED BY <3>2, <3>3
  <2>2. ASSUME ~anyJumpAvailable, NEW from \in Own, Destinations(from) # {}
        PROVE  \E f \in Own : \E to \in Destinations(f) : validMove(f, to) # {}
    <3>1. boardArray[from] \in OwnPieces
      BY DEF OwnPieces, Own
    <3>2. boardArray[from].at = from
      <4>1. from \in Squares /\ boardArray[from] # None
        BY DEF Own, Occupied
      <4> QED BY <4>1, FoundInPlace DEF TypeOK
    <3>3. PICK n \in getAllPossibleMoves(boardArray, boardArray[from]) : TRUE
      BY <2>2 DEF Destinations
    <3>4. /\ Last(n) \in Destinations(from)
          /\ \E m \in validMove(from, Last(n)) : IsJump(m) <=> IsJump(n)
      BY <2>2, <3>1, <3>2, <3>3, EndIsAccepted
    <3> QED BY <3>4
  <2>3. CouldCapture(boardArray, isPlayer1Turn) => anyJumpAvailable
    BY CaptureIsJump
  <2> QED BY <2>1, <2>2, <2>3
<1> QED BY <1>1, TypeCorrect, PTL

(* A runaway request needs a circuit on the board it is made on.           *)
LEMMA RunawayBoard ==
    ASSUME TypeOK, NEW p \in OwnPieces, Diverges(boardArray, p)
    PROVE  LET others == Occupied(boardArray, ~isPlayer1Turn)
               free   == {sq \in Squares : boardArray[sq] = None}
           IN  /\ \E q \in OwnPieces : q.isKing
               /\ \E top, bottom \in free :
                     /\ top[2] > bottom[2]
                     /\ \A dx \in {-1, 1} :
                           /\ <<top[1] + dx, top[2] - 1>> \in others
                           /\ <<bottom[1] + dx, bottom[2] + 1>> \in others
<1>1. /\ InPlace(boardArray, p) /\ p.isWhite = isPlayer1Turn
      /\ boardArray \in Board /\ p \in Piece
  BY OwnFacts DEF InPlace
<1>2. p.isKing /\ \E S : IsCircuit(boardArray, p, S)
  BY <1>1, CircuitOfRun
<1>3. PICK S : IsCircuit(boardArray, p, S)
  BY <1>2
<1> QED BY <1>1, <1>2, <1>3, CircuitEnds

(* The server falls to the recursion only where a king finds a circuit.    *)
THEOREM Overflow == Spec => []OverflowNeedsCircuit
<1>1. Init => OverflowNeedsCircuit
  BY DEF Init, OverflowNeedsCircuit
<1>2. TypeOK /\ OverflowNeedsCircuit /\ [Next]_vars => OverflowNeedsCircuit'
  <2> SUFFICES ASSUME TypeOK, OverflowNeedsCircuit, [Next]_vars
               PROVE  OverflowNeedsCircuit'
    OBVIOUS
  <2>1. ASSUME NEW name \in Names, joinGame(name) PROVE OverflowNeedsCircuit'
    BY <2>1 DEF joinGame, OverflowNeedsCircuit
  <2>2. ASSUME NEW name \in Names, NEW from \in Squares, NEW to, makeMove(name, from, to)
        PROVE  OverflowNeedsCircuit'
    BY <2>2 DEF makeMove, OverflowNeedsCircuit
  <2>3. ASSUME NEW name \in Names, NEW from \in Squares, makeMoveOverflow(name, from)
        PROVE  OverflowNeedsCircuit'
    <3>1. /\ \E p \in OwnPieces : Diverges(boardArray, p)
          /\ boardArray' = boardArray /\ isPlayer1Turn' = isPlayer1Turn
      BY <2>3 DEF makeMoveOverflow
    <3>2. PICK p \in OwnPieces : Diverges(boardArray, p)
      BY <3>1
    <3>3. OwnPieces' = OwnPieces
      BY <3>1 DEF OwnPieces
    <3> QED BY <3>1, <3>2, <3>3, RunawayBoard DEF OverflowNeedsCircuit
  <2>4. CASE UNCHANGED vars
    BY <2>4 DEF vars, OverflowNeedsCircuit, OwnPieces
  <2> QED BY <2>1, <2>2, <2>3, <2>4 DEF Next
<1> QED BY <1>1, <1>2, TypeCorrect, PTL DEF Spec
=============================================================================
