--------------------------- MODULE CheckersProofs ---------------------------
(***************************************************************************)
(* What the operators of Checkers return, for every board size: where a    *)
(* generated move starts and ends, whom it jumps, what the board is after  *)
(* it, what the recursive generator visits and when it runs away; and with *)
(* that the properties of MCRules.                                         *)
(***************************************************************************)
EXTENDS MCRules, FiniteSetTheorems, SequenceTheorems, WellFoundedInduction, TLAPS

-----------------------------------------------------------------------------
(* A set of naturals has a least element.  It stands in for induction: the *)
(* sets 0..x are finite, and strict inclusion of finite sets well-founded. *)
LEMMA LeastElement ==
    ASSUME NEW S, S \subseteq Nat, S # {}
    PROVE  \E x \in S : \A y \in S : x <= y
<1> DEFINE Below == {0 .. x : x \in S}
<1>1. IsWellFoundedOn(StrictSubsetOrdering(Nat), FiniteSubsetsOf(Nat))
  BY FS_StrictSubsetOrderingWellFounded
<1>2. Below \subseteq FiniteSubsetsOf(Nat)
  <2> SUFFICES ASSUME NEW x \in S PROVE 0 .. x \in FiniteSubsetsOf(Nat)
    OBVIOUS
  <2>1. IsFiniteSet(0 .. x)
    BY FS_Interval
  <2>2. 0 .. x \subseteq Nat
    OBVIOUS
  <2> QED BY <2>1, <2>2 DEF FiniteSubsetsOf
<1>3. PICK B \in Below : \A C \in Below : <<C, B>> \notin StrictSubsetOrdering(Nat)
  <2>1. Below # {}
    OBVIOUS
  <2> HIDE DEF Below
  <2> QED BY <1>1, <1>2, <2>1, WFMin
<1>4. PICK x \in S : B = 0 .. x
  OBVIOUS
<1>5. ASSUME NEW y \in S, ~(x <= y) PROVE FALSE
  <2>1. 0 .. y \subseteq 0 .. x /\ 0 .. y # 0 .. x
    <3>1. x \in 0 .. x /\ x \notin 0 .. y
      BY <1>5
    <3> QED BY <1>5, <3>1
  <2>2. <<0 .. y, 0 .. x>> \in StrictSubsetOrdering(Nat)
    BY <2>1 DEF StrictSubsetOrdering
  <2> QED BY <1>3, <1>4, <2>2
<1> QED BY <1>5
-----------------------------------------------------------------------------
(* The assumptions every lemma below shares: a piece in its slot.          *)
InPlace(b, p) == /\ b \in Board
                 /\ p \in Piece
                 /\ b[p.at] = p

(* A piece found on a well-formed board stands where it was found.         *)
LEMMA FoundInPlace ==
    ASSUME NEW b \in Board, NEW sq \in Squares, b[sq] # None
    PROVE  InPlace(b, b[sq]) /\ b[sq].at = sq
BY DEF Board, InPlace

LEMMA PieceFields ==
    ASSUME NEW p \in Piece
    PROVE  /\ p.isWhite \in BOOLEAN
           /\ p.isKing \in BOOLEAN
           /\ p.at \in Squares
           /\ p # None
BY NoneAssumption DEF Piece

LEMMA SquareFields ==
    ASSUME NEW s \in Squares
    PROVE  s[1] \in 0 .. Size - 1 /\ s[2] \in 0 .. Size - 1 /\ s = <<s[1], s[2]>>
BY DEF Squares

(* Halfway between two squares lies a square.                              *)
LEMMA MidpointType ==
    ASSUME NEW s \in Squares, NEW t \in Squares
    PROVE  Midpoint(s, t) \in Squares
<1>1. Size \in Nat
  BY BoardAssumption
<1>2. /\ s[1] \in 0 .. Size - 1 /\ s[2] \in 0 .. Size - 1
      /\ t[1] \in 0 .. Size - 1 /\ t[2] \in 0 .. Size - 1
  BY SquareFields
<1>3. (s[1] + t[1]) \div 2 \in 0 .. Size - 1
  BY <1>1, <1>2
<1>4. (s[2] + t[2]) \div 2 \in 0 .. Size - 1
  BY <1>1, <1>2
<1> QED BY <1>3, <1>4 DEF Midpoint, Squares

(* One jump of piece p from square s to square t, wherever in a chain.     *)
Hop(b, p, s, t) ==
    /\ s \in Squares /\ t \in Squares
    /\ \E d \in Directions(p) : t = Shift(s, d, 2)
    /\ b[t] = None
    /\ b[Midpoint(s, t)] # None
    /\ b[Midpoint(s, t)].isWhite # p.isWhite

(* A chain of jumps is one hop after the other.                            *)
LEMMA RouteHops ==
    ASSUME NEW b, NEW p, NEW r, IsJumpRoute(b, p, r),
           NEW i \in 1 .. Len(r) - 1
    PROVE  Hop(b, p, r[i], r[i + 1])
<1>1. r \in Seq(Squares) /\ Len(r) > 1 /\ i \in 1 .. Len(r) /\ i + 1 \in 1 .. Len(r)
  BY DEF IsJumpRoute
<1>2. r[i] \in Squares /\ r[i + 1] \in Squares
  BY <1>1
<1>3. Last(SubSeq(r, 1, i)) = r[i]
  BY <1>1 DEF Last
<1>4. r[i + 1] \in Jumps(b, p, SubSeq(r, 1, i))
  BY DEF IsJumpRoute
<1> QED BY <1>2, <1>3, <1>4 DEF Jumps, CanJump, Hop

(* Every generated move starts at the piece and ends on a free square.     *)
LEMMA MoveFacts ==
    ASSUME NEW b, NEW p, InPlace(b, p), NEW m \in getAllPossibleMoves(b, p)
    PROVE  /\ m \in Seq(Squares)
           /\ Len(m) > 1
           /\ m[1] = p.at
           /\ Last(m) \in Squares
           /\ b[Last(m)] = None
           /\ Last(m) # p.at
<1>1. p.at \in Squares /\ p # None /\ b[p.at] = p
  BY PieceFields DEF InPlace
<1>2. CASE m \in PlainMoves(b, p)
  <2>1. PICK d \in Directions(p) : /\ m = <<p.at, Shift(p.at, d, 1)>>
                                   /\ Shift(p.at, d, 1) \in Squares
                                   /\ b[Shift(p.at, d, 1)] = None
    BY <1>2 DEF PlainMoves
  <2>2. m \in Seq(Squares) /\ Len(m) = 2 /\ m[1] = p.at /\ m[2] = Shift(p.at, d, 1)
    BY <1>1, <2>1
  <2>3. Last(m) = Shift(p.at, d, 1)
    BY <2>2 DEF Last
  <2> QED BY <1>1, <2>1, <2>2, <2>3
<1>3. CASE m \in getAllPossibleJumps(b, p)
  <2>1. IsJumpRoute(b, p, m)
    BY <1>3 DEF getAllPossibleJumps
  <2>2. m \in Seq(Squares) /\ Len(m) > 1 /\ m[1] = p.at
    BY <2>1 DEF IsJumpRoute
  <2>3. Len(m) \in Nat /\ Len(m) - 1 \in 1 .. Len(m) - 1 /\ (Len(m) - 1) + 1 = Len(m)
    BY <2>2
  <2>4. m[Len(m)] \in Squares /\ b[m[Len(m)]] = None
    <3>1. Hop(b, p, m[Len(m) - 1], m[(Len(m) - 1) + 1])
      BY <2>1, <2>3, RouteHops
    <3> QED BY <2>3, <3>1 DEF Hop
  <2>5. Last(m) = m[Len(m)]
    BY DEF Last
  <2> QED BY <1>1, <2>2, <2>4, <2>5
<1> QED BY <1>2, <1>3 DEF getAllPossibleMoves

(* A move jumps over enemies only, and each is a piece in its slot.        *)
LEMMA JumpedAreEnemies ==
    ASSUME NEW b, NEW p, InPlace(b, p), NEW m \in getAllPossibleMoves(b, p),
           NEW q \in getJumpedPieces(b, m)
    PROVE  /\ q \in Piece
           /\ q.isWhite = ~p.isWhite
           /\ b[q.at] = q
<1> USE DEF InPlace
<1>1. CASE m \in PlainMoves(b, p)
  <2>1. PICK d \in Directions(p) : m = <<p.at, Shift(p.at, d, 1)>>
    BY <1>1 DEF PlainMoves
  <2>2. d[1] \in {-1, 1}
    BY DEF Directions
  <2>3. p.at[1] \in Int
    BY PieceFields, SquareFields, BoardAssumption
  <2>4. m[1][1] = p.at[1] /\ m[2][1] = p.at[1] + d[1]
    BY <2>1, <2>2, <2>3 DEF Shift
  <2>5. (m[1][1] - m[2][1]) % 2 # 0
    BY <2>2, <2>3, <2>4
  <2> QED BY <2>5 DEF getJumpedPieces, IsJump
<1>2. CASE m \in getAllPossibleJumps(b, p)
  <2>1. IsJumpRoute(b, p, m)
    BY <1>2 DEF getAllPossibleJumps
  <2>2. PICK i \in 1 .. Len(m) - 1 : q = b[Midpoint(m[i], m[i + 1])]
    BY DEF getJumpedPieces
  <2> DEFINE mid == Midpoint(m[i], m[i + 1])
  <2>3. mid \in Squares /\ b[mid] # None /\ b[mid].isWhite # p.isWhite
    BY <2>1, RouteHops, MidpointType DEF Hop
  <2>4. b[mid] \in Piece /\ b[mid].at = mid
    BY <2>3, FoundInPlace
  <2> QED BY <2>2, <2>3, <2>4, PieceFields
<1> QED BY <1>1, <1>2 DEF getAllPossibleMoves

(* Crowning touches nothing but the crown.                                 *)
LEMMA CrownFacts ==
    ASSUME NEW p \in Piece
    PROVE  /\ checkIfShouldBeKing(p) \in Piece
           /\ checkIfShouldBeKing(p).isWhite = p.isWhite
           /\ checkIfShouldBeKing(p).at = p.at
           /\ p.isKing => checkIfShouldBeKing(p).isKing
           /\ p.at[2] = (IF p.isWhite THEN Size - 1 ELSE 0)
                => checkIfShouldBeKing(p).isKing
BY DEF checkIfShouldBeKing, Piece

(* The piece as it stands after a move: on its last square.                *)
Landed(m, p) == checkIfShouldBeKing([p EXCEPT !.at = Last(m)])

(* The slots applyMoveToBoard clears besides the one the piece leaves.     *)
Cleared(b, m) == {q.at : q \in getJumpedPieces(b, m) \ {None}}

LEMMA LandedFacts ==
    ASSUME NEW p \in Piece, NEW m, Last(m) \in Squares
    PROVE  /\ Landed(m, p) \in Piece
           /\ Landed(m, p) # None
           /\ Landed(m, p).isWhite = p.isWhite
           /\ Landed(m, p).at = Last(m)
           /\ p.isKing => Landed(m, p).isKing
           /\ Last(m)[2] = (IF p.isWhite THEN Size - 1 ELSE 0) => Landed(m, p).isKing
<1> DEFINE moved == [p EXCEPT !.at = Last(m)]
<1>1. /\ moved \in Piece /\ moved.isWhite = p.isWhite
      /\ moved.isKing = p.isKing /\ moved.at = Last(m)
  BY DEF Piece
<1> HIDE DEF moved
<1>2. Landed(m, p) = checkIfShouldBeKing(moved)
  BY DEF Landed, moved
<1> QED BY <1>1, <1>2, CrownFacts, PieceFields

(* The board after a move, slot by slot.                                   *)
LEMMA ApplyFacts ==
    ASSUME NEW b, NEW p, NEW m
    PROVE  applyMoveToBoard(b, m, p) =
             [sq \in Squares |->
                IF sq = Last(m) THEN Landed(m, p)
                ELSE IF sq = p.at \/ sq \in Cleared(b, m) THEN None
                ELSE b[sq]]
BY DEF applyMoveToBoard, Landed, Cleared

(* The slots cleared by a generated move hold enemies.                     *)
LEMMA ClearedAreEnemies ==
    ASSUME NEW b, NEW p, InPlace(b, p), NEW m \in getAllPossibleMoves(b, p)
    PROVE  Cleared(b, m) \subseteq Occupied(b, ~p.isWhite)
<1> SUFFICES ASSUME NEW q \in getJumpedPieces(b, m), q # None
             PROVE  q.at \in Occupied(b, ~p.isWhite)
  BY DEF Cleared
<1>1. q \in Piece /\ q.isWhite = ~p.isWhite /\ b[q.at] = q
  BY JumpedAreEnemies
<1>2. q.at \in Squares
  BY <1>1, PieceFields
<1> QED BY <1>1, <1>2 DEF Occupied

(* A generated move leaves the board well formed.                          *)
LEMMA ApplyType ==
    ASSUME NEW b, NEW p, InPlace(b, p), NEW m \in getAllPossibleMoves(b, p)
    PROVE  applyMoveToBoard(b, m, p) \in Board
<1>1. b \in Board /\ p \in Piece /\ Last(m) \in Squares
  BY MoveFacts DEF InPlace
<1>2. Landed(m, p) \in Piece /\ Landed(m, p).at = Last(m)
  BY <1>1, LandedFacts
<1> QED BY <1>1, <1>2, ApplyFacts DEF Board

(* A generated move takes the mover's army to another of the same size,    *)
(* with one piece elsewhere, and takes from the other army what it jumps.  *)
LEMMA ApplyArmies ==
    ASSUME NEW b, NEW p, InPlace(b, p), NEW m \in getAllPossibleMoves(b, p)
    PROVE  /\ p.at \in Occupied(b, p.isWhite)
           /\ Last(m) \in Squares \ (Occupied(b, p.isWhite) \cup Occupied(b, ~p.isWhite))
           /\ Occupied(applyMoveToBoard(b, m, p), p.isWhite) =
                (Occupied(b, p.isWhite) \ {p.at}) \cup {Last(m)}
           /\ Occupied(applyMoveToBoard(b, m, p), ~p.isWhite) =
                Occupied(b, ~p.isWhite) \ Cleared(b, m)
<1> DEFINE c == applyMoveToBoard(b, m, p)
<1>1. b \in Board /\ p \in Piece /\ b[p.at] = p /\ p.at \in Squares /\ p # None
      /\ p.isWhite \in BOOLEAN
  BY PieceFields DEF InPlace
<1>2. Last(m) \in Squares /\ b[Last(m)] = None /\ Last(m) # p.at
  BY MoveFacts
<1>3. Landed(m, p) # None /\ Landed(m, p).isWhite = p.isWhite
  BY <1>1, <1>2, LandedFacts
<1>4. Cleared(b, m) \subseteq Occupied(b, ~p.isWhite)
  BY ClearedAreEnemies
<1>5. /\ c[Last(m)] = Landed(m, p)
      /\ \A sq \in Squares \ {Last(m)} :
            c[sq] = IF sq = p.at \/ sq \in Cleared(b, m) THEN None ELSE b[sq]
  BY <1>2, ApplyFacts
<1> HIDE DEF c
<1>6. Occupied(c, p.isWhite) = (Occupied(b, p.isWhite) \ {p.at}) \cup {Last(m)}
  BY <1>1, <1>2, <1>3, <1>4, <1>5 DEF Occupied
<1>7. Occupied(c, ~p.isWhite) = Occupied(b, ~p.isWhite) \ Cleared(b, m)
  BY <1>1, <1>2, <1>3, <1>4, <1>5 DEF Occupied
<1>8. p.at \in Occupied(b, p.isWhite)
  BY <1>1 DEF Occupied
<1>9. Last(m) \notin Occupied(b, p.isWhite) \cup Occupied(b, ~p.isWhite)
  BY <1>2 DEF Occupied
<1> QED BY <1>2, <1>6, <1>7, <1>8, <1>9 DEF c

(* A diagonal step of any length within the moves' two keeps the colour of *)
(* the square.                                                             *)
LEMMA ShiftStaysDark ==
    ASSUME NEW s \in Squares, NEW d \in {-1, 1} \X {-1, 1}, NEW n \in {1, 2},
           isCheckerboardSpace(s)
    PROVE  isCheckerboardSpace(Shift(s, d, n))
<1>1. s[1] \in Int /\ s[2] \in Int
  BY SquareFields, BoardAssumption
<1>2. d[1] \in {-1, 1} /\ d[2] \in {-1, 1}
  OBVIOUS
<1>3. Shift(s, d, n)[1] = s[1] + n * d[1] /\ Shift(s, d, n)[2] = s[2] + n * d[2]
  BY DEF Shift
<1>4. CASE n = 1
  BY <1>1, <1>2, <1>3, <1>4 DEF isCheckerboardSpace
<1>5. CASE n = 2
  BY <1>1, <1>2, <1>3, <1>5 DEF isCheckerboardSpace
<1> QED BY <1>4, <1>5

LEMMA DirectionsType ==
    ASSUME NEW p
    PROVE  Directions(p) \subseteq {-1, 1} \X {-1, 1}
BY DEF Directions, Forward

(* However many jumps a move chains, it ends on a dark square: the first   *)
(* light square of a chain would have a dark one before it.                *)
LEMMA MoveStaysDark ==
    ASSUME NEW b, NEW p, InPlace(b, p), isCheckerboardSpace(p.at),
           NEW m \in getAllPossibleMoves(b, p)
    PROVE  isCheckerboardSpace(Last(m))
<1>1. p.at \in Squares
  BY PieceFields DEF InPlace
<1>2. CASE m \in PlainMoves(b, p)
  <2>1. PICK d \in Directions(p) : m = <<p.at, Shift(p.at, d, 1)>>
    BY <1>2 DEF PlainMoves
  <2>2. Last(m) = Shift(p.at, d, 1)
    BY <2>1 DEF Last
  <2> QED BY <1>1, <2>2, DirectionsType, ShiftStaysDark
<1>3. CASE m \in getAllPossibleJumps(b, p)
  <2>1. IsJumpRoute(b, p, m)
    BY <1>3 DEF getAllPossibleJumps
  <2>2. m \in Seq(Squares) /\ Len(m) \in Nat /\ Len(m) > 1 /\ m[1] = p.at
    BY <2>1 DEF IsJumpRoute
  <2> DEFINE Light == {i \in 1 .. Len(m) : ~isCheckerboardSpace(m[i])}
  <2>3. ASSUME Light # {} PROVE FALSE
    <3>1. PICK x \in Light : \A y \in Light : x <= y
      <4>1. Light \subseteq Nat
        OBVIOUS
      <4> HIDE DEF Light
      <4> QED BY <2>3, <4>1, LeastElement
    <3>2. x # 1
      BY <2>2
    <3>3. x - 1 \in 1 .. Len(m) - 1 /\ (x - 1) + 1 = x /\ x - 1 \in 1 .. Len(m)
      BY <2>2, <3>2
    <3>4. isCheckerboardSpace(m[x - 1])
      BY <3>1, <3>3
    <3>5. Hop(b, p, m[x - 1], m[(x - 1) + 1])
      BY <2>1, <3>3, RouteHops
    <3>6. PICK d \in Directions(p) : m[x] = Shift(m[x - 1], d, 2)
      BY <3>3, <3>5 DEF Hop
    <3>7. m[x - 1] \in Squares /\ d \in {-1, 1} \X {-1, 1}
      BY <2>2, <3>3, DirectionsType
    <3>8. isCheckerboardSpace(Shift(m[x - 1], d, 2))
      BY <3>4, <3>7, ShiftStaysDark
    <3> QED BY <3>6, <3>8
  <2> QED BY <2>2, <2>3 DEF Last
<1> QED BY <1>2, <1>3 DEF getAllPossibleMoves

-----------------------------------------------------------------------------
(* A man is a piece that stands where it was put.                          *)
LEMMA NewManFacts ==
    ASSUME NEW sq \in Squares, NEW white \in BOOLEAN
    PROVE  /\ NewMan(sq, white) \in Piece
           /\ NewMan(sq, white) # None
           /\ NewMan(sq, white).at = sq
           /\ NewMan(sq, white).isWhite = white
<1>1. NewMan(sq, white) \in Piece
  BY DEF NewMan, Piece
<1>2. NewMan(sq, white).at = sq /\ NewMan(sq, white).isWhite = white
  BY DEF NewMan
<1> QED BY <1>1, <1>2, PieceFields

(* The slots of the initial board, region by region.                       *)
LEMMA InitialSlots ==
    ASSUME NEW sq \in Squares
    PROVE  /\ isCheckerboardSpace(sq) /\ sq[2] < Rows =>
                InitialBoard[sq] = NewMan(sq, TRUE)
           /\ isCheckerboardSpace(sq) /\ sq[2] >= Size - Rows =>
                InitialBoard[sq] = NewMan(sq, FALSE)
           /\ InitialBoard[sq] # None =>
                /\ isCheckerboardSpace(sq)
                /\ sq[2] < Rows \/ sq[2] >= Size - Rows
<1>1. Size \in Nat /\ Rows \in Nat \ {0} /\ 2 * Rows <= Size /\ sq[2] \in 0 .. Size - 1
  BY BoardAssumption, SquareFields
<1>2. InitialBoard[sq] =
         IF ~isCheckerboardSpace(sq)  THEN None
         ELSE IF sq[2] < Rows         THEN NewMan(sq, TRUE)
         ELSE IF sq[2] >= Size - Rows THEN NewMan(sq, FALSE)
         ELSE None
  BY DEF InitialBoard
<1>3. sq[2] < Rows => ~(sq[2] >= Size - Rows)
  BY <1>1
<1> QED BY <1>2, <1>3, Zenon

(* At the start the board is well formed, both armies are on it, on dark   *)
(* squares, and no man is on the row where it would be crowned.            *)
LEMMA InitialFacts ==
    /\ InitialBoard \in Board
    /\ \A white \in BOOLEAN : Occupied(InitialBoard, white) # {}
    /\ \A sq \in Squares : InitialBoard[sq] # None =>
          /\ isCheckerboardSpace(sq)
          /\ sq[2] # (IF InitialBoard[sq].isWhite THEN Size - 1 ELSE 0)
<1>1. Size \in Nat /\ Rows \in Nat \ {0} /\ 2 * Rows <= Size
  BY BoardAssumption
<1>2. ASSUME NEW sq \in Squares, InitialBoard[sq] # None
      PROVE  /\ InitialBoard[sq] \in Piece
             /\ InitialBoard[sq].at = sq
             /\ isCheckerboardSpace(sq)
             /\ sq[2] # (IF InitialBoard[sq].isWhite THEN Size - 1 ELSE 0)
  <2>1. sq[2] \in 0 .. Size - 1 /\ isCheckerboardSpace(sq)
    BY <1>2, SquareFields, InitialSlots
  <2>2. CASE sq[2] < Rows
    <3>1. InitialBoard[sq] = NewMan(sq, TRUE)
      BY <2>1, <2>2, InitialSlots
    <3>2. sq[2] # Size - 1
      BY <1>1, <2>1, <2>2
    <3> QED BY <2>1, <3>1, <3>2, NewManFacts
  <2>3. CASE sq[2] >= Size - Rows
    <3>1. InitialBoard[sq] = NewMan(sq, FALSE)
      BY <2>1, <2>3, InitialSlots
    <3>2. sq[2] # 0
      BY <1>1, <2>1, <2>3
    <3> QED BY <2>1, <3>1, <3>2, NewManFacts
  <2> QED BY <1>2, <2>2, <2>3, InitialSlots
<1>3. InitialBoard \in Board
  <2>1. InitialBoard \in [Squares -> Piece \cup {None}]
    <3>1. \A sq \in Squares : InitialBoard[sq] \in Piece \cup {None}
      BY <1>2
    <3> QED BY <3>1 DEF InitialBoard
  <2> QED BY <1>2, <2>1 DEF Board
<1>4. ASSUME NEW sq \in Squares, NEW white \in BOOLEAN,
             InitialBoard[sq] = NewMan(sq, white)
      PROVE  Occupied(InitialBoard, white) # {}
  BY <1>4, NewManFacts DEF Occupied
<1>5. Occupied(InitialBoard, TRUE) # {}
  <2> DEFINE sq == <<0, 0>>
  <2>1. sq \in Squares /\ sq[2] < Rows
    BY <1>1 DEF Squares
  <2>2. isCheckerboardSpace(sq)
    BY DEF isCheckerboardSpace
  <2> HIDE DEF sq
  <2> QED BY <1>4, <2>1, <2>2, InitialSlots
<1>6. Occupied(InitialBoard, FALSE) # {}
  <2> DEFINE sq == <<(Size - 1) % 2, Size - 1>>
  <2>1. (Size - 1) % 2 \in 0 .. 1 /\ ((Size - 1) % 2) % 2 = (Size - 1) % 2
    BY <1>1
  <2>2. sq \in Squares /\ sq[2] >= Size - Rows
    BY <1>1, <2>1 DEF Squares
  <2>3. isCheckerboardSpace(sq)
    BY <2>1 DEF isCheckerboardSpace
  <2> HIDE DEF sq
  <2> QED BY <1>4, <2>2, <2>3, InitialSlots
<1> QED BY <1>2, <1>3, <1>5, <1>6

-----------------------------------------------------------------------------
(* The recursive generator. RoutesFrom is a recursive function over the    *)
(* sequences of squares, so it has a value only if the recursion has a     *)
(* solution: one is given, the set of continuations without a repetition,  *)
(* and every solution is shown to equal it. The routes of the code are     *)
(* then paths: hops one after the other, no square twice.                  *)

(* ToSet, Append and SubSeq, as the lemmas below use them.                 *)
LEMMA ToSetFacts ==
    ASSUME NEW S, NEW r \in Seq(S)
    PROVE  /\ ToSet(r) = {r[i] : i \in 1 .. Len(r)}
           /\ ToSet(r) \subseteq S
           /\ \A x \in S : ToSet(Append(r, x)) = ToSet(r) \cup {x}
<1>1. \A s \in Seq(S) : ToSet(s) = {s[i] : i \in 1 .. Len(s)}
  BY DEF ToSet
<1>2. ToSet(r) \subseteq S
  BY <1>1
<1>3. ASSUME NEW x \in S PROVE ToSet(Append(r, x)) = ToSet(r) \cup {x}
  <2> DEFINE s == Append(r, x)
  <2>1. /\ s \in Seq(S) /\ Len(s) = Len(r) + 1 /\ Len(r) \in Nat
        /\ \A i \in 1 .. Len(r) : s[i] = r[i]
        /\ s[Len(r) + 1] = x
    OBVIOUS
  <2> HIDE DEF s
  <2>2. ToSet(s) = {s[i] : i \in 1 .. Len(r) + 1}
    BY <1>1, <2>1
  <2>3. 1 .. Len(r) + 1 = (1 .. Len(r)) \cup {Len(r) + 1}
    BY <2>1
  <2>4. ToSet(s) = {r[i] : i \in 1 .. Len(r)} \cup {x}
    BY <2>1, <2>2, <2>3
  <2> QED BY <1>1, <2>4 DEF s
<1> QED BY <1>1, <1>2, <1>3

(* r goes on from q without landing on a square twice.                     *)
Grown(b, p, q, r) ==
    /\ r \in Seq(Squares)
    /\ Len(q) <= Len(r)
    /\ SubSeq(r, 1, Len(q)) = q
    /\ \A i \in Len(q) .. Len(r) - 1 :
          r[i + 1] \in Jumps(b, p, SubSeq(r, 1, i)) \ ToSet(SubSeq(r, 1, i))

(* The recursion of RoutesFrom, as a condition on a function that solves   *)
(* it.                                                                     *)
Grows(b, p, g) ==
    g = [r \in Seq(Squares) |->
            {r} \cup UNION {g[Append(r, sq)] : sq \in Jumps(b, p, r) \ ToSet(r)}]

(* The prefixes of a sequence.                                             *)
LEMMA PrefixFacts ==
    ASSUME NEW S, NEW r \in Seq(S), NEW i \in 0 .. Len(r)
    PROVE  /\ SubSeq(r, 1, i) \in Seq(S)
           /\ Len(SubSeq(r, 1, i)) = i
           /\ \A j \in 1 .. i : SubSeq(r, 1, i)[j] = r[j]
           /\ i = Len(r) => SubSeq(r, 1, i) = r
           /\ i < Len(r) => SubSeq(r, 1, i + 1) = Append(SubSeq(r, 1, i), r[i + 1])
           /\ \A j \in 0 .. i : SubSeq(SubSeq(r, 1, i), 1, j) = SubSeq(r, 1, j)
<1>1. Len(r) \in Nat /\ i \in Nat /\ \A j \in 1 .. Len(r) : r[j] \in S
  OBVIOUS
<1>2. ASSUME NEW k \in 0 .. Len(r)
      PROVE  /\ SubSeq(r, 1, k) \in Seq(S) /\ Len(SubSeq(r, 1, k)) = k
             /\ \A j \in 1 .. k : SubSeq(r, 1, k)[j] = r[j]
  BY <1>1, SubSeqProperties
<1>3. i = Len(r) => SubSeq(r, 1, i) = r
  BY <1>2, SeqEqual
<1>4. ASSUME i < Len(r) PROVE SubSeq(r, 1, i + 1) = Append(SubSeq(r, 1, i), r[i + 1])
  <2>1. i + 1 \in 0 .. Len(r) /\ r[i + 1] \in S
    BY <1>1, <1>4
  <2>2. /\ Append(SubSeq(r, 1, i), r[i + 1]) \in Seq(S)
        /\ Len(Append(SubSeq(r, 1, i), r[i + 1])) = i + 1
        /\ \A j \in 1 .. i : Append(SubSeq(r, 1, i), r[i + 1])[j] = r[j]
        /\ Append(SubSeq(r, 1, i), r[i + 1])[i + 1] = r[i + 1]
    BY <1>2, <2>1, AppendProperties
  <2>3. \A j \in 1 .. i + 1 : j \in 1 .. i \/ j = i + 1
    BY <1>1
  <2> QED BY <1>2, <2>1, <2>2, <2>3, SeqEqual
<1>5. ASSUME NEW j \in 0 .. i PROVE SubSeq(SubSeq(r, 1, i), 1, j) = SubSeq(r, 1, j)
  <2> DEFINE q == SubSeq(r, 1, i)
  <2>1. q \in Seq(S) /\ Len(q) = i /\ \A n \in 1 .. i : q[n] = r[n]
    BY <1>2
  <2> HIDE DEF q
  <2>2. \A n \in 1 .. j : q[n] \in S /\ q[n] = r[n] /\ n \in 1 .. j - 1 + 1 /\ 1 + n - 1 = n
    BY <1>1, <2>1
  <2>3. SubSeq(q, 1, j) \in Seq(S) /\ Len(SubSeq(q, 1, j)) = j
        /\ \A n \in 1 .. j : SubSeq(q, 1, j)[n] = q[n]
    BY <1>1, <2>2, SubSeqProperties
  <2>4. j \in 0 .. Len(r)
    BY <1>1
  <2>5. SubSeq(q, 1, j) = SubSeq(r, 1, j)
    BY <1>2, <2>2, <2>3, <2>4, SeqEqual
  <2> QED BY <2>5 DEF q
<1> QED BY <1>2, <1>3, <1>4, <1>5

(* RoutesFrom is a solution of the recursion, applied to the piece alone   *)
(* on its square.                                                          *)
LEMMA GrowDef ==
    ASSUME NEW b, NEW p, NEW start
    PROVE  RoutesFrom(b, p, start) = (CHOOSE g : Grows(b, p, g))[<<start>>]
BY Zenon DEF RoutesFrom, Grows

(* A jump lands on the board.                                              *)
LEMMA JumpSquares ==
    ASSUME NEW b, NEW p, NEW r
    PROVE  Jumps(b, p, r) \subseteq Squares
BY DEF Jumps, CanJump

(* One step of the recursion, for the set of all continuations.            *)
LEMMA GrownStep ==
    ASSUME NEW b, NEW p, NEW q \in Seq(Squares), NEW r
    PROVE  Grown(b, p, q, r) <=>
              \/ r = q
              \/ \E sq \in Jumps(b, p, q) \ ToSet(q) : Grown(b, p, Append(q, sq), r)
<1>1. Len(q) \in Nat /\ SubSeq(q, 1, Len(q)) = q
  BY PrefixFacts
<1>2. r = q => Grown(b, p, q, r)
  BY <1>1 DEF Grown
<1>3. ASSUME NEW sq \in Jumps(b, p, q) \ ToSet(q), Grown(b, p, Append(q, sq), r)
      PROVE  Grown(b, p, q, r)
  <2> DEFINE s == Append(q, sq)
  <2>1. /\ s \in Seq(Squares) /\ Len(s) = Len(q) + 1 /\ s[Len(q) + 1] = sq
        /\ \A i \in 1 .. Len(q) : s[i] = q[i]
    BY <1>3, JumpSquares
  <2>2. /\ r \in Seq(Squares) /\ Len(r) \in Nat /\ Len(q) + 1 <= Len(r)
        /\ SubSeq(r, 1, Len(q) + 1) = s
        /\ \A i \in Len(q) + 1 .. Len(r) - 1 :
              r[i + 1] \in Jumps(b, p, SubSeq(r, 1, i)) \ ToSet(SubSeq(r, 1, i))
    BY <1>3, <2>1 DEF Grown
  <2> HIDE DEF s
  <2>3. /\ Len(q) + 1 \in 0 .. Len(r) /\ Len(q) \in 0 .. Len(q) + 1
        /\ Len(q) + 1 \in 1 .. Len(q) + 1 /\ Len(q) \in 0 .. Len(r)
    BY <1>1, <2>2
  <2>4. /\ SubSeq(SubSeq(r, 1, Len(q) + 1), 1, Len(q)) = SubSeq(r, 1, Len(q))
        /\ SubSeq(r, 1, Len(q) + 1)[Len(q) + 1] = r[Len(q) + 1]
    BY <2>2, <2>3, PrefixFacts
  <2>5. SubSeq(s, 1, Len(q)) = q
    <3>1. Len(q) \in 0 .. Len(s)
      BY <1>1, <2>1
    <3> QED BY <2>1, <3>1, PrefixFacts, SeqEqual
  <2>6. SubSeq(r, 1, Len(q)) = q /\ r[Len(q) + 1] = sq
    BY <2>1, <2>2, <2>4, <2>5
  <2>7. ASSUME NEW i \in Len(q) .. Len(r) - 1
        PROVE  r[i + 1] \in Jumps(b, p, SubSeq(r, 1, i)) \ ToSet(SubSeq(r, 1, i))
    <3>1. CASE i = Len(q)
      BY <1>3, <2>6, <3>1
    <3>2. CASE i # Len(q)
      <4>1. Len(q) \in Nat /\ Len(r) \in Nat
        BY <1>1, <2>2
      <4>2. i \in Int /\ Len(q) <= i /\ i <= Len(r) - 1
        BY <4>1
      <4>3. i \in Len(q) + 1 .. Len(r) - 1
        BY <3>2, <4>1, <4>2
      <4> QED BY <2>2, <4>3
    <3> QED BY <3>1, <3>2
  <2> QED BY <1>1, <2>2, <2>6, <2>7 DEF Grown
<1>4. ASSUME Grown(b, p, q, r), r # q
      PROVE  \E sq \in Jumps(b, p, q) \ ToSet(q) : Grown(b, p, Append(q, sq), r)
  <2>1. /\ r \in Seq(Squares) /\ Len(r) \in Nat /\ Len(q) <= Len(r)
        /\ SubSeq(r, 1, Len(q)) = q
        /\ \A i \in Len(q) .. Len(r) - 1 :
              r[i + 1] \in Jumps(b, p, SubSeq(r, 1, i)) \ ToSet(SubSeq(r, 1, i))
    BY <1>4 DEF Grown
  <2>2. Len(q) # Len(r)
    BY <1>4, <2>1, PrefixFacts
  <2>3. Len(q) \in 0 .. Len(r) /\ Len(q) < Len(r) /\ Len(q) \in Len(q) .. Len(r) - 1
    BY <1>1, <2>1, <2>2
  <2> DEFINE sq == r[Len(q) + 1]
  <2>4. sq \in Jumps(b, p, q) \ ToSet(q)
    BY <2>1, <2>3
  <2>5. SubSeq(r, 1, Len(q) + 1) = Append(q, sq)
    BY <2>1, <2>3, PrefixFacts
  <2>6. Len(Append(q, sq)) = Len(q) + 1
    OBVIOUS
  <2> HIDE DEF sq
  <2>7. \A i \in Len(q) + 1 .. Len(r) - 1 : i \in Len(q) .. Len(r) - 1
    BY <1>1, <2>1
  <2>8. Grown(b, p, Append(q, sq), r)
    BY <1>1, <2>1, <2>3, <2>5, <2>6, <2>7 DEF Grown
  <2> QED BY <2>4, <2>8
<1> QED BY <1>2, <1>3, <1>4

(* The set of all continuations solves the recursion, which so has a       *)
(* solution.                                                               *)
LEMMA GrownGrows ==
    ASSUME NEW b, NEW p
    PROVE  Grows(b, p, [q \in Seq(Squares) |-> {r \in Seq(Squares) : Grown(b, p, q, r)}])
<1> DEFINE h == [q \in Seq(Squares) |-> {r \in Seq(Squares) : Grown(b, p, q, r)}]
           step(q) == {q} \cup UNION {h[Append(q, sq)] : sq \in Jumps(b, p, q) \ ToSet(q)}
<1>1. ASSUME NEW q \in Seq(Squares) PROVE h[q] = step(q)
  <2>1. \A sq \in Jumps(b, p, q) : Append(q, sq) \in Seq(Squares)
    BY JumpSquares
  <2>2. ASSUME NEW r \in h[q] PROVE r \in step(q)
    <3>1. Grown(b, p, q, r) /\ r \in Seq(Squares)
      OBVIOUS
    <3>2. CASE r = q
      BY <3>2
    <3>3. CASE r # q
      <4>1. PICK sq \in Jumps(b, p, q) \ ToSet(q) : Grown(b, p, Append(q, sq), r)
        BY <3>1, <3>3, GrownStep
      <4>2. r \in h[Append(q, sq)]
        BY <2>1, <3>1, <4>1
      <4> QED BY <4>2
    <3> QED BY <3>2, <3>3
  <2>3. ASSUME NEW r \in step(q) PROVE r \in h[q]
    <3>1. CASE r = q
      BY <3>1, GrownStep
    <3>2. ASSUME NEW sq \in Jumps(b, p, q) \ ToSet(q), r \in h[Append(q, sq)]
          PROVE  r \in h[q]
      <4>1. r \in Seq(Squares) /\ Grown(b, p, Append(q, sq), r)
        BY <2>1, <3>2
      <4> QED BY <4>1, GrownStep
    <3> QED BY <3>1, <3>2
  <2> QED BY <2>2, <2>3
<1>2. h = [q \in Seq(Squares) |-> step(q)]
  <2>1. h = [q \in Seq(Squares) |-> h[q]]
    OBVIOUS
  <2> HIDE DEF h
  <2> QED BY <1>1, <2>1
<1> QED BY <1>2 DEF Grows

(* Squares are finitely many.                                              *)
LEMMA SquaresFinite == IsFiniteSet(Squares) /\ Cardinality(Squares) \in Nat
<1>1. IsFiniteSet(0 .. Size - 1)
  BY BoardAssumption, FS_Interval
<1>2. IsFiniteSet(Squares)
  BY <1>1, FS_Product DEF Squares
<1> QED BY <1>2, FS_CardinalityType

(* Whatever solves the recursion is the set of all continuations.          *)
LEMMA GrowsAreGrown ==
    ASSUME NEW b, NEW p, NEW g, Grows(b, p, g), NEW q \in Seq(Squares), NEW r
    PROVE  r \in g[q] <=> Grown(b, p, q, r)
<1>1. ASSUME NEW s \in Seq(Squares)
      PROVE  g[s] = {s} \cup UNION {g[Append(s, sq)] : sq \in Jumps(b, p, s) \ ToSet(s)}
  BY DEF Grows
<1>2. ASSUME NEW s \in Seq(Squares), NEW sq \in Jumps(b, p, s)
      PROVE  Append(s, sq) \in Seq(Squares) /\ sq \in Squares
  BY <1>2, JumpSquares
<1>3. ASSUME Grown(b, p, q, r) PROVE r \in g[q]
  <2> DEFINE K == {k \in Nat : Len(q) <= k /\ k <= Len(r) /\ r \in g[SubSeq(r, 1, k)]}
  <2>1. /\ r \in Seq(Squares) /\ Len(r) \in Nat /\ Len(q) \in Nat /\ Len(q) <= Len(r)
        /\ SubSeq(r, 1, Len(q)) = q
        /\ \A i \in Len(q) .. Len(r) - 1 :
              r[i + 1] \in Jumps(b, p, SubSeq(r, 1, i)) \ ToSet(SubSeq(r, 1, i))
    BY <1>3 DEF Grown
  <2>2. Len(r) \in K
    <3>1. SubSeq(r, 1, Len(r)) = r
      BY <2>1, PrefixFacts
    <3>2. r \in g[r]
      BY <1>1, <2>1
    <3>3. Len(r) \in Nat /\ Len(q) <= Len(r)
      BY <2>1
    <3>4. r \in g[SubSeq(r, 1, Len(r))]
      BY Zenon, <3>1, <3>2
    <3> QED BY <3>3, <3>4
  <2>3. PICK k \in K : \A j \in K : k <= j
    <3>1. K \subseteq Nat /\ K # {}
      BY <2>2
    <3> HIDE DEF K
    <3> QED BY <3>1, LeastElement
  <2>4. ASSUME k # Len(q) PROVE FALSE
    <3>1. /\ k - 1 \in Nat /\ k - 1 \in 0 .. Len(r) /\ k - 1 < Len(r) /\ (k - 1) + 1 = k
          /\ k - 1 \in Len(q) .. Len(r) - 1 /\ Len(q) <= k - 1
      <4>1. Len(q) \in Nat /\ Len(r) \in Nat /\ Len(q) <= Len(r)
        BY <2>1
      <4>2. k \in Nat /\ Len(q) <= k /\ k <= Len(r)
        OBVIOUS
      <4> HIDE DEF K
      <4> QED BY <2>4, <4>1, <4>2
    <3> DEFINE s == SubSeq(r, 1, k - 1)
    <3>2. s \in Seq(Squares) /\ SubSeq(r, 1, k) = Append(s, r[k])
      BY <2>1, <3>1, PrefixFacts
    <3>3. r[k] \in Jumps(b, p, s) \ ToSet(s)
      BY <2>1, <3>1
    <3>4. r \in g[s]
      <4>1. r \in g[Append(s, r[k])]
        BY <3>2
      <4> HIDE DEF s
      <4> QED BY <1>1, <3>2, <3>3, <4>1
    <3>5. k - 1 \in K
      <4>1. Len(r) \in Nat
        BY <2>1
      <4> QED BY <3>1, <3>4, <4>1
    <3> QED BY <2>3, <3>1, <3>5
  <2> QED BY <2>1, <2>3, <2>4
<1>4. ASSUME r \in g[q], ~Grown(b, p, q, r) PROVE FALSE
  <2> DEFINE Left(s) == Cardinality(Squares \ ToSet(s))
             Wrong == {s \in Seq(Squares) : r \in g[s] /\ ~Grown(b, p, s, r)}
             N == {Left(s) : s \in Wrong}
  <2>1. \A s \in Seq(Squares) : Left(s) \in Nat
    BY SquaresFinite, FS_Difference, FS_CardinalityType
  <2>2. PICK s \in Wrong : \A t \in Wrong : Left(s) <= Left(t)
    <3>1. N \subseteq Nat /\ N # {}
      BY <1>4, <2>1
    <3>2. PICK n \in N : \A k \in N : n <= k
      <4> HIDE DEF N
      <4> QED BY <3>1, LeastElement
    <3>3. PICK s \in Wrong : n = Left(s)
      OBVIOUS
    <3> QED BY <3>2, <3>3
  <2>3. s \in Seq(Squares) /\ r \in g[s] /\ ~Grown(b, p, s, r)
    OBVIOUS
  <2>4. r # s
    BY <2>3, GrownStep
  <2>5. PICK sq \in Jumps(b, p, s) \ ToSet(s) : r \in g[Append(s, sq)]
    BY <1>1, <2>3, <2>4
  <2>6. ~Grown(b, p, Append(s, sq), r)
    BY <2>3, <2>5, GrownStep
  <2>7. Append(s, sq) \in Seq(Squares) /\ sq \in Squares /\ sq \notin ToSet(s)
    BY <1>2, <2>3, <2>5
  <2>8. Append(s, sq) \in Wrong
    BY <2>5, <2>6, <2>7
  <2>9. Squares \ ToSet(Append(s, sq)) = (Squares \ ToSet(s)) \ {sq}
    BY <2>3, <2>7, ToSetFacts
  <2>10. IsFiniteSet(Squares \ ToSet(s)) /\ sq \in Squares \ ToSet(s)
    BY <2>7, SquaresFinite, FS_Difference
  <2>11. Left(Append(s, sq)) = Left(s) - 1
    BY <2>9, <2>10, FS_RemoveElement
  <2>12. Left(s) \in Nat /\ Left(s) <= Left(s) - 1
    BY <2>1, <2>2, <2>3, <2>8, <2>11
  <2> HIDE DEF Left
  <2> QED BY <2>12
<1> QED BY <1>3, <1>4

(* The routes of the recursion are the jump routes without a repetition.   *)
LEMMA RoutesAreGrown ==
    ASSUME NEW b, NEW p, NEW start \in Squares, NEW r
    PROVE  r \in RoutesFrom(b, p, start) <=> Grown(b, p, <<start>>, r)
<1> DEFINE G == CHOOSE g : Grows(b, p, g)
<1>1. Grows(b, p, G)
  <2>1. \E g : Grows(b, p, g)
    BY GrownGrows
  <2> QED BY <2>1
<1>2. RoutesFrom(b, p, start) = G[<<start>>]
  BY GrowDef
<1>3. <<start>> \in Seq(Squares)
  OBVIOUS
<1> HIDE DEF G
<1> QED BY <1>1, <1>2, <1>3, GrowsAreGrown

(* One jump more is one hop, and not back to where the last one began.     *)
LEMMA JumpIsHop ==
    ASSUME NEW b, NEW p, NEW r \in Seq(Squares), Len(r) >= 1, NEW sq
    PROVE  /\ Last(r) \in Squares
           /\ sq \in Jumps(b, p, r) <=>
                /\ Hop(b, p, Last(r), sq)
                /\ Len(r) > 1 => sq # r[Len(r) - 1]
<1>1. Last(r) \in Squares
  BY DEF Last
<1> QED BY <1>1 DEF Jumps, CanJump, Hop

(* A path: hops from the piece's own square on, no square twice.           *)
Path(b, p, r) ==
    /\ r \in Seq(Squares)
    /\ Len(r) >= 1
    /\ r[1] = p.at
    /\ \A i \in 1 .. Len(r) - 1 : Hop(b, p, r[i], r[i + 1])
    /\ \A i, j \in 1 .. Len(r) : r[i] = r[j] => i = j

(* The prefix of a sequence, as the conditions on its next square see it.  *)
LEMMA PrefixLast ==
    ASSUME NEW r \in Seq(Squares), NEW i \in 1 .. Len(r) - 1
    PROVE  /\ SubSeq(r, 1, i) \in Seq(Squares)
           /\ Len(SubSeq(r, 1, i)) = i
           /\ Last(SubSeq(r, 1, i)) = r[i]
           /\ i > 1 => SubSeq(r, 1, i)[i - 1] = r[i - 1]
           /\ ToSet(SubSeq(r, 1, i)) = {r[j] : j \in 1 .. i}
<1>1. Len(r) \in Nat /\ i \in 0 .. Len(r) /\ i \in 1 .. i
  OBVIOUS
<1>2. /\ SubSeq(r, 1, i) \in Seq(Squares)
      /\ Len(SubSeq(r, 1, i)) = i
      /\ \A j \in 1 .. i : SubSeq(r, 1, i)[j] = r[j]
  BY <1>1, PrefixFacts
<1> HIDE DEF Last
<1>3. Last(SubSeq(r, 1, i)) = r[i]
  BY <1>1, <1>2 DEF Last
<1>4. i > 1 => SubSeq(r, 1, i)[i - 1] = r[i - 1]
  BY <1>1, <1>2
<1>5. ToSet(SubSeq(r, 1, i)) = {SubSeq(r, 1, i)[j] : j \in 1 .. i}
  BY <1>2, ToSetFacts
<1> QED BY <1>2, <1>3, <1>4, <1>5

(* What the recursion visits are exactly the paths.                        *)
LEMMA RoutesArePaths ==
    ASSUME NEW b, NEW p, p.at \in Squares, NEW r
    PROVE  r \in RoutesFrom(b, p, p.at) <=> Path(b, p, r)
<1> DEFINE Onward(i) == r[i + 1] \in Jumps(b, p, SubSeq(r, 1, i)) \ ToSet(SubSeq(r, 1, i))
<1>1. Len(<<p.at>>) = 1
  OBVIOUS
<1>2. ASSUME r \in Seq(Squares), Len(r) >= 1
      PROVE  SubSeq(r, 1, 1) = <<p.at>> <=> r[1] = p.at
  <2>1. Len(r) \in Nat /\ 1 \in 0 .. Len(r) /\ 1 \in 1 .. 1
    BY <1>2
  <2>2. /\ SubSeq(r, 1, 1) \in Seq(Squares) /\ Len(SubSeq(r, 1, 1)) = 1
        /\ SubSeq(r, 1, 1)[1] = r[1]
    BY <1>2, <2>1, PrefixFacts
  <2>3. <<p.at>> \in Seq(Squares) /\ Len(<<p.at>>) = 1 /\ <<p.at>>[1] = p.at
    OBVIOUS
  <2> HIDE DEF Onward
  <2>4. ASSUME r[1] = p.at PROVE SubSeq(r, 1, 1) = <<p.at>>
    <3>1. \A k \in 1 .. 1 : k = 1
      OBVIOUS
    <3> QED BY <2>2, <2>3, <2>4, <3>1, SeqEqual
  <2> QED BY <2>2, <2>3, <2>4
<1>3. r \in RoutesFrom(b, p, p.at) <=>
         /\ r \in Seq(Squares) /\ Len(r) >= 1 /\ r[1] = p.at
         /\ \A i \in 1 .. Len(r) - 1 : Onward(i)
  <2>1. r \in RoutesFrom(b, p, p.at) <=> Grown(b, p, <<p.at>>, r)
    BY RoutesAreGrown
  <2>2. Grown(b, p, <<p.at>>, r) <=>
           /\ r \in Seq(Squares) /\ Len(r) >= 1 /\ SubSeq(r, 1, 1) = <<p.at>>
           /\ \A i \in 1 .. Len(r) - 1 : Onward(i)
    BY <1>1 DEF Grown
  <2> HIDE DEF Onward
  <2> QED BY <1>2, <2>1, <2>2
<1>4. ASSUME r \in Seq(Squares), NEW i \in 1 .. Len(r) - 1
      PROVE  Onward(i) <=> /\ Hop(b, p, r[i], r[i + 1])
                         /\ \A j \in 1 .. i : r[j] # r[i + 1]
  <2> DEFINE s == SubSeq(r, 1, i)
  <2>1. /\ s \in Seq(Squares) /\ Len(s) = i /\ Last(s) = r[i]
        /\ i > 1 => s[i - 1] = r[i - 1]
        /\ ToSet(s) = {r[j] : j \in 1 .. i}
    BY <1>4, PrefixLast
  <2>2. i \in Nat /\ i >= 1 /\ (i > 1 => i - 1 \in 1 .. i)
    BY <1>4
  <2>3. Onward(i) <=> r[i + 1] \in Jumps(b, p, s) /\ r[i + 1] \notin ToSet(s)
    OBVIOUS
  <2> HIDE DEF s, Onward
  <2>4. r[i + 1] \in Jumps(b, p, s) <=>
           Hop(b, p, r[i], r[i + 1]) /\ (i > 1 => r[i + 1] # r[i - 1])
    BY <2>1, <2>2, JumpIsHop
  <2> QED BY <2>1, <2>2, <2>3, <2>4
<1> HIDE DEF Onward
<1>5. ASSUME r \in RoutesFrom(b, p, p.at) PROVE Path(b, p, r)
  <2>1. /\ r \in Seq(Squares) /\ Len(r) >= 1 /\ r[1] = p.at /\ Len(r) \in Nat
        /\ \A i \in 1 .. Len(r) - 1 : /\ Hop(b, p, r[i], r[i + 1])
                                      /\ \A j \in 1 .. i : r[j] # r[i + 1]
    BY <1>3, <1>4, <1>5
  <2>2. ASSUME NEW i \in 1 .. Len(r), NEW j \in 1 .. Len(r), i < j
        PROVE  r[i] # r[j]
    <3>1. j - 1 \in 1 .. Len(r) - 1 /\ i \in 1 .. j - 1 /\ (j - 1) + 1 = j
      <4>1. i \in Int /\ j \in Int /\ 1 <= i /\ j <= Len(r) /\ Len(r) \in Nat
        BY <2>1, <2>2
      <4> QED BY <2>2, <4>1
    <3> QED BY <2>1, <3>1
  <2>3. ASSUME NEW i \in 1 .. Len(r), NEW j \in 1 .. Len(r), r[i] = r[j]
        PROVE  i = j
    <3>1. i \in Int /\ j \in Int
      BY <2>3
    <3>2. ~(i < j) /\ ~(j < i)
      BY <2>2, <2>3
    <3> QED BY <3>1, <3>2
  <2> QED BY <2>1, <2>3 DEF Path
<1>6. ASSUME Path(b, p, r) PROVE r \in RoutesFrom(b, p, p.at)
  <2>1. /\ r \in Seq(Squares) /\ Len(r) >= 1 /\ r[1] = p.at /\ Len(r) \in Nat
        /\ \A i \in 1 .. Len(r) - 1 : Hop(b, p, r[i], r[i + 1])
        /\ \A i, j \in 1 .. Len(r) : r[i] = r[j] => i = j
    BY <1>6 DEF Path
  <2>2. ASSUME NEW i \in 1 .. Len(r) - 1, NEW j \in 1 .. i PROVE r[j] # r[i + 1]
    <3>1. j \in 1 .. Len(r) /\ i + 1 \in 1 .. Len(r) /\ j # i + 1
      <4>1. Len(r) \in Nat
        BY <2>1
      <4> QED BY <2>2, <4>1
    <3> QED BY <2>1, <3>1
  <2> QED BY <1>3, <1>4, <2>1, <2>2
<1> QED BY <1>5, <1>6

(* The jumps offered are exactly the paths of at least one hop.            *)
LEMMA JumpsArePaths ==
    ASSUME NEW b, NEW p, p.at \in Squares, NEW r
    PROVE  r \in getAllPossibleJumps(b, p) <=> Path(b, p, r) /\ Len(r) > 1
<1>1. r \in RoutesFrom(b, p, p.at) <=> Path(b, p, r)
  BY RoutesArePaths
<1>2. ASSUME Path(b, p, r), Len(r) > 1 PROVE IsJumpRoute(b, p, r)
  <2>1. /\ r \in Seq(Squares) /\ r[1] = p.at /\ Len(r) \in Nat
        /\ \A i \in 1 .. Len(r) - 1 : Hop(b, p, r[i], r[i + 1])
        /\ \A i, j \in 1 .. Len(r) : r[i] = r[j] => i = j
    BY <1>2 DEF Path
  <2>2. ASSUME NEW i \in 1 .. Len(r) - 1 PROVE r[i + 1] \in Jumps(b, p, SubSeq(r, 1, i))
    <3>1. /\ i + 1 \in 1 .. Len(r) /\ i >= 1 /\ i \in Nat
          /\ i > 1 => i - 1 \in 1 .. Len(r) /\ i - 1 # i + 1
      <4>1. Len(r) \in Nat
        BY <2>1
      <4> QED BY <2>2, <4>1
    <3>2. /\ SubSeq(r, 1, i) \in Seq(Squares)
          /\ Len(SubSeq(r, 1, i)) = i
          /\ Last(SubSeq(r, 1, i)) = r[i]
          /\ i > 1 => SubSeq(r, 1, i)[i - 1] = r[i - 1]
      BY <2>1, PrefixLast
    <3>3. Hop(b, p, r[i], r[i + 1]) /\ (i > 1 => r[i + 1] # r[i - 1])
      BY <2>1, <3>1
    <3> QED BY <3>1, <3>2, <3>3, JumpIsHop
  <2> QED BY <1>2, <2>1, <2>2 DEF IsJumpRoute
<1>3. IsJumpRoute(b, p, r) => Len(r) > 1
  BY DEF IsJumpRoute
<1> QED BY <1>1, <1>2, <1>3 DEF getAllPossibleJumps

-----------------------------------------------------------------------------
(* Walks: what a sequence of integers that goes in steps of two passes     *)
(* over. A jump is one such walk in each coordinate.                       *)

(* A walk over the integers in steps of two keeps its parity.              *)
LEMMA WalkKeepsParity ==
    ASSUME NEW n \in Nat, n >= 1, NEW f, \A i \in 1 .. n : f[i] \in Int,
           \A i \in 1 .. n - 1 : f[i + 1] - f[i] \in {-2, 2},
           NEW k \in 1 .. n
    PROVE  (f[k] - f[1]) % 2 = 0
<1> DEFINE Odd == {i \in 1 .. n : (f[i] - f[1]) % 2 # 0}
<1>1. ASSUME Odd # {} PROVE FALSE
  <2>1. PICK i \in Odd : \A j \in Odd : i <= j
    <3>1. Odd \subseteq Nat
      OBVIOUS
    <3> HIDE DEF Odd
    <3> QED BY <1>1, <3>1, LeastElement
  <2>2. i \in 1 .. n /\ (f[i] - f[1]) % 2 # 0
    OBVIOUS
  <2>3. f[1] \in Int /\ i # 1
    <3>1. f[1] \in Int
      OBVIOUS
    <3> QED BY <2>2, <3>1
  <2>4. i - 1 \in 1 .. n /\ i - 1 \in 1 .. n - 1 /\ (i - 1) + 1 = i /\ ~(i <= i - 1)
    BY <2>2, <2>3
  <2>5. (f[i - 1] - f[1]) % 2 = 0
    BY <2>1, <2>4
  <2>6. f[i] - f[i - 1] \in {-2, 2} /\ f[i] \in Int /\ f[i - 1] \in Int
    BY <2>2, <2>4
  <2>7. \A x, y, z \in Int : (y - x) % 2 = 0 /\ z - y \in {-2, 2} => (z - x) % 2 = 0
    OBVIOUS
  <2> QED BY <2>2, <2>3, <2>5, <2>6, <2>7
<1> QED BY <1>1

(* A walk that climbs to f[n] passes between every two rungs on its way.   *)
LEMMA WalkPasses ==
    ASSUME NEW n \in Nat, n >= 1, NEW f, \A i \in 1 .. n : f[i] \in Int,
           \A i \in 1 .. n - 1 : f[i + 1] - f[i] \in {-2, 2},
           NEW c \in Int, f[1] < c, c < f[n], (c - f[1]) % 2 # 0
    PROVE  \E i \in 1 .. n - 1 : f[i] + f[i + 1] = 2 * c
<1> DEFINE Above == {i \in 1 .. n : f[i] > c}
<1>1. n \in Above
  OBVIOUS
<1>2. PICK i \in Above : \A j \in Above : i <= j
  <2>1. Above \subseteq Nat
    OBVIOUS
  <2> HIDE DEF Above
  <2> QED BY <1>1, <2>1, LeastElement
<1>3. i \in 1 .. n /\ f[i] > c /\ f[1] \in Int /\ f[i] \in Int
  OBVIOUS
<1>4. i # 1
  BY <1>3
<1>5. i - 1 \in 1 .. n /\ i - 1 \in 1 .. n - 1 /\ (i - 1) + 1 = i /\ ~(i <= i - 1)
  BY <1>3, <1>4
<1>6. ~(f[i - 1] > c)
  BY <1>2, <1>5
<1>7. f[i] - f[i - 1] \in {-2, 2} /\ f[i - 1] \in Int
  BY <1>5
<1>8. (f[i - 1] - f[1]) % 2 = 0
  BY <1>5, WalkKeepsParity
<1>9. f[i - 1] # c
  BY <1>8
<1>10. ASSUME NEW x \in Int, NEW y \in Int, y > c, ~(x > c), x # c, y - x \in {-2, 2}
       PROVE  x + y = 2 * c
  BY <1>10
<1>11. f[i - 1] + f[i] = 2 * c
  BY <1>3, <1>6, <1>7, <1>9, <1>10
<1> QED BY <1>5, <1>11

(* So the places between which it passes bound how far it comes.           *)
LEMMA WalkClimbs ==
    ASSUME NEW n \in Nat, n >= 1, NEW f, \A i \in 1 .. n : f[i] \in Int,
           \A i \in 1 .. n - 1 : f[i + 1] - f[i] \in {-2, 2},
           NEW C, IsFiniteSet(C),
           \A i \in 1 .. n - 1 : (f[i] + f[i + 1]) \div 2 \in C
    PROVE  f[n] - f[1] <= 2 * Cardinality(C)
<1>1. f[n] \in Int /\ f[1] \in Int /\ (f[n] - f[1]) % 2 = 0
  <2>1. n \in 1 .. n
    OBVIOUS
  <2>2. f[n] \in Int /\ f[1] \in Int
    BY <2>1
  <2>3. (f[n] - f[1]) % 2 = 0
    BY <2>1, WalkKeepsParity
  <2> QED BY <2>2, <2>3
<1>2. Cardinality(C) \in Nat
  BY FS_CardinalityType
<1>3. ASSUME f[n] - f[1] > 0 PROVE f[n] - f[1] <= 2 * Cardinality(C)
  <2>1. PICK d \in Nat : f[n] - f[1] = 2 * d
    <3>1. f[n] - f[1] \in Int
      BY <1>1
    <3>2. ASSUME NEW e \in Int, e > 0, e % 2 = 0 PROVE \E d \in Nat : e = 2 * d
      <4>1. e \div 2 \in Nat /\ e = 2 * (e \div 2)
        BY <3>2
      <4> QED BY <4>1
    <3> QED BY <1>1, <1>3, <3>1, <3>2
  <2> DEFINE at == [j \in 1 .. d |-> f[1] + 2 * j - 1]
  <2>2. ASSUME NEW j \in 1 .. d PROVE at[j] \in C
    <3>1. at[j] = f[1] + 2 * j - 1 /\ at[j] \in Int
      BY <1>1
    <3> HIDE DEF at
    <3>2. f[1] < at[j] /\ at[j] < f[n] /\ (at[j] - f[1]) % 2 # 0
      BY <1>1, <2>1, <3>1
    <3>3. PICK i \in 1 .. n - 1 : f[i] + f[i + 1] = 2 * at[j]
      BY <3>1, <3>2, WalkPasses
    <3>4. (f[i] + f[i + 1]) \div 2 = at[j]
      BY <3>1, <3>3
    <3> QED BY <3>4
  <2>3. at \in Injection(1 .. d, C)
    <3>1. at \in [1 .. d -> C]
      BY <2>2
    <3>2. \A i, j \in 1 .. d : at[i] = at[j] => i = j
      BY <1>1
    <3> HIDE DEF at
    <3> QED BY <3>1, <3>2 DEF Injection, IsInjective
  <2>4. Cardinality(1 .. d) <= Cardinality(C)
    BY <2>3, FS_Injection
  <2>5. Cardinality(1 .. d) = d
    BY <2>1, FS_Interval
  <2> QED BY <1>2, <2>1, <2>4, <2>5
<1> QED BY <1>1, <1>2, <1>3

(* The same in both directions.                                            *)
LEMMA WalkSpans ==
    ASSUME NEW n \in Nat, n >= 1, NEW f, \A i \in 1 .. n : f[i] \in Int,
           \A i \in 1 .. n - 1 : f[i + 1] - f[i] \in {-2, 2},
           NEW C, IsFiniteSet(C),
           \A i \in 1 .. n - 1 : (f[i] + f[i + 1]) \div 2 \in C
    PROVE  /\ f[n] - f[1] <= 2 * Cardinality(C)
           /\ f[1] - f[n] <= 2 * Cardinality(C)
<1> DEFINE g == [i \in 1 .. n |-> f[n + 1 - i]]
<1>1. ASSUME NEW i \in 1 .. n
      PROVE  /\ n + 1 - i \in 1 .. n /\ g[i] = f[n + 1 - i] /\ g[i] \in Int
  OBVIOUS
<1>2. g[1] = f[n] /\ g[n] = f[1]
  OBVIOUS
<1>3. ASSUME NEW i \in 1 .. n - 1
      PROVE  /\ n - i \in 1 .. n - 1
             /\ g[i] = f[(n - i) + 1] /\ g[i + 1] = f[n - i]
  <2>1. /\ n - i \in 1 .. n - 1 /\ i \in 1 .. n /\ i + 1 \in 1 .. n
        /\ n + 1 - i = (n - i) + 1 /\ n + 1 - (i + 1) = n - i
    OBVIOUS
  <2> HIDE DEF g
  <2> QED BY <1>1, <2>1
<1> HIDE DEF g
<1>4. ASSUME NEW i \in 1 .. n - 1
      PROVE  g[i + 1] - g[i] \in {-2, 2} /\ (g[i] + g[i + 1]) \div 2 \in C
  <2> DEFINE k == n - i
  <2>1. /\ k \in 1 .. n - 1 /\ k \in 1 .. n /\ k + 1 \in 1 .. n
        /\ g[i] = f[k + 1] /\ g[i + 1] = f[k]
    BY <1>3
  <2> HIDE DEF k
  <2>2. f[k] \in Int /\ f[k + 1] \in Int /\ f[k + 1] - f[k] \in {-2, 2}
        /\ (f[k] + f[k + 1]) \div 2 \in C
    BY <2>1
  <2>3. f[k] - f[k + 1] \in {-2, 2} /\ f[k + 1] + f[k] = f[k] + f[k + 1]
    BY <2>2
  <2> QED BY <2>1, <2>2, <2>3
<1>5. g[n] - g[1] <= 2 * Cardinality(C)
  BY <1>1, <1>4, WalkClimbs
<1>6. f[n] - f[1] <= 2 * Cardinality(C)
  BY WalkClimbs
<1> QED BY <1>2, <1>5, <1>6

-----------------------------------------------------------------------------
(* What kinds of move there are, and how far each goes.                    *)

(* A hop takes two columns and two rows, a man's two rows forward.         *)
LEMMA HopFacts ==
    ASSUME NEW b, NEW p, NEW s, NEW t, Hop(b, p, s, t)
    PROVE  /\ s \in Squares /\ t \in Squares
           /\ s[1] \in Int /\ s[2] \in Int /\ t[1] \in Int /\ t[2] \in Int
           /\ t[1] - s[1] \in {-2, 2}
           /\ t[2] - s[2] \in {-2, 2}
           /\ ~p.isKing => t[2] - s[2] = 2 * Forward(p)
           /\ Midpoint(s, t) \in Squares
           /\ Midpoint(s, t)[1] = (s[1] + t[1]) \div 2
           /\ Midpoint(s, t)[2] = (s[2] + t[2]) \div 2
<1>1. s \in Squares /\ t \in Squares
  BY DEF Hop
<1>2. s[1] \in Int /\ s[2] \in Int /\ t[1] \in Int /\ t[2] \in Int
  BY <1>1, SquareFields, BoardAssumption
<1>3. PICK d \in Directions(p) : t = Shift(s, d, 2)
  BY DEF Hop
<1>4. d[1] \in {-1, 1} /\ d[2] \in {-1, 1} /\ (~p.isKing => d[2] = Forward(p))
  BY DirectionsType DEF Directions
<1>5. t[1] = s[1] + 2 * d[1] /\ t[2] = s[2] + 2 * d[2]
  BY <1>3 DEF Shift
<1>6. t[1] - s[1] \in {-2, 2} /\ t[2] - s[2] \in {-2, 2}
  BY <1>2, <1>4, <1>5
<1>7. ~p.isKing => t[2] - s[2] = 2 * Forward(p)
  <2>1. t[2] - s[2] = 2 * d[2]
    BY <1>2, <1>4, <1>5
  <2> QED BY <1>4, <2>1
<1> QED BY <1>1, <1>2, <1>6, <1>7, MidpointType DEF Midpoint

(* A plain move takes nothing and goes one square along a diagonal.        *)
LEMMA QuietFacts ==
    ASSUME NEW b, NEW p, InPlace(b, p), NEW m \in PlainMoves(b, p)
    PROVE  /\ ~IsJump(m)
           /\ Cleared(b, m) = {}
           /\ m[1] = p.at /\ Len(m) = 2 /\ Last(m) = m[2]
           /\ m[2][1] - p.at[1] \in {-1, 1}
           /\ m[2][2] - p.at[2] \in {-1, 1}
           /\ ~p.isKing => m[2][2] = p.at[2] + Forward(p)
           /\ \E d \in Directions(p) : m[2] = Shift(p.at, d, 1)
<1>1. PICK d \in Directions(p) : m = <<p.at, Shift(p.at, d, 1)>>
  BY DEF PlainMoves
<1>2. d[1] \in {-1, 1} /\ d[2] \in {-1, 1} /\ (~p.isKing => d[2] = Forward(p))
  BY DirectionsType DEF Directions
<1>3. p.at[1] \in Int /\ p.at[2] \in Int
  BY PieceFields, SquareFields, BoardAssumption DEF InPlace
<1>4. /\ m[1] = p.at /\ m[2] = Shift(p.at, d, 1) /\ Len(m) = 2 /\ Last(m) = m[2]
      /\ m[2][1] = p.at[1] + d[1] /\ m[2][2] = p.at[2] + d[2]
  BY <1>1, <1>2, <1>3 DEF Last, Shift
<1>5. (m[1][1] - m[2][1]) % 2 # 0
  BY <1>2, <1>3, <1>4
<1>6. ~IsJump(m) /\ Cleared(b, m) = {}
  BY <1>5 DEF IsJump, Cleared, getJumpedPieces
<1>7. m[2][1] - p.at[1] \in {-1, 1} /\ m[2][2] - p.at[2] \in {-1, 1}
  BY <1>2, <1>3, <1>4
<1> QED BY <1>2, <1>4, <1>6, <1>7

(* A jump clears the squares between those it lands on, each an enemy's.   *)
LEMMA JumpClears ==
    ASSUME NEW b, NEW p, InPlace(b, p), NEW m, Path(b, p, m), Len(m) > 1
    PROVE  /\ IsJump(m)
           /\ Cleared(b, m) = {Midpoint(m[i], m[i + 1]) : i \in 1 .. Len(m) - 1}
           /\ Cleared(b, m) # {}
           /\ IsFiniteSet(Cleared(b, m))
           /\ Cardinality(Cleared(b, m)) \in Nat
           /\ Cardinality(Cleared(b, m)) > 0
           /\ Cardinality(Cleared(b, m)) <= Len(m) - 1
<1> DEFINE between == [i \in 1 .. Len(m) - 1 |-> Midpoint(m[i], m[i + 1])]
<1>1. /\ m \in Seq(Squares) /\ Len(m) \in Nat /\ m[1] = p.at
      /\ \A i \in 1 .. Len(m) - 1 : Hop(b, p, m[i], m[i + 1])
  BY DEF Path
<1>2. IsJump(m)
  <2>1. Hop(b, p, m[1], m[1 + 1]) /\ 1 + 1 = 2
    <3>1. 1 \in 1 .. Len(m) - 1
      BY <1>1
    <3> QED BY <1>1, <3>1
  <2>2. m[2][1] - m[1][1] \in {-2, 2} /\ m[1][1] \in Int /\ m[2][1] \in Int
    BY <2>1, HopFacts
  <2>3. ASSUME NEW x \in Int, NEW y \in Int, y - x \in {-2, 2} PROVE (x - y) % 2 = 0
    BY <2>3
  <2>4. (m[1][1] - m[2][1]) % 2 = 0
    BY <2>2, <2>3
  <2> QED BY <2>4 DEF IsJump
<1>3. ASSUME NEW i \in 1 .. Len(m) - 1
      PROVE  /\ b[Midpoint(m[i], m[i + 1])] # None
             /\ b[Midpoint(m[i], m[i + 1])].at = Midpoint(m[i], m[i + 1])
  <2>1. Hop(b, p, m[i], m[i + 1])
    BY <1>1
  <2>2. Midpoint(m[i], m[i + 1]) \in Squares /\ b[Midpoint(m[i], m[i + 1])] # None
    BY <2>1, HopFacts DEF Hop
  <2> QED BY <2>2, FoundInPlace DEF InPlace
<1>4. Cleared(b, m) = {Midpoint(m[i], m[i + 1]) : i \in 1 .. Len(m) - 1}
  <2>1. getJumpedPieces(b, m) = {b[Midpoint(m[i], m[i + 1])] : i \in 1 .. Len(m) - 1}
    BY <1>2 DEF getJumpedPieces
  <2>2. getJumpedPieces(b, m) \ {None}
          = {b[Midpoint(m[i], m[i + 1])] : i \in 1 .. Len(m) - 1}
    BY <1>3, <2>1
  <2>3. {q.at : q \in {b[Midpoint(m[i], m[i + 1])] : i \in 1 .. Len(m) - 1}}
          = {Midpoint(m[i], m[i + 1]) : i \in 1 .. Len(m) - 1}
    BY <1>3
  <2> QED BY <2>2, <2>3 DEF Cleared
<1>5. between \in Surjection(1 .. Len(m) - 1, Cleared(b, m))
  <2>1. between \in [1 .. Len(m) - 1 -> Cleared(b, m)]
    BY <1>4
  <2>2. \A x \in Cleared(b, m) : \E i \in 1 .. Len(m) - 1 : between[i] = x
    BY <1>4
  <2> HIDE DEF between
  <2> QED BY <2>1, <2>2 DEF Surjection
<1>6. /\ IsFiniteSet(1 .. Len(m) - 1)
      /\ Cardinality(1 .. Len(m) - 1) = Len(m) - 1
  BY <1>1, FS_Interval
<1>7. IsFiniteSet(Cleared(b, m)) /\ Cardinality(Cleared(b, m)) <= Len(m) - 1
  BY <1>5, <1>6, FS_Surjection
<1>8. Cleared(b, m) # {}
  <2>1. 1 \in 1 .. Len(m) - 1
    BY <1>1
  <2> QED BY <1>4, <2>1
<1>9. Cardinality(Cleared(b, m)) \in Nat /\ Cardinality(Cleared(b, m)) # 0
  BY <1>7, <1>8, FS_CardinalityType, FS_EmptySet
<1> QED BY <1>2, <1>4, <1>7, <1>8, <1>9

(* It spans two columns and two rows at most for each piece it takes.      *)
LEMMA JumpSpans ==
    ASSUME NEW b, NEW p, InPlace(b, p), NEW m, Path(b, p, m), Len(m) > 1,
           NEW k \in {1, 2}
    PROVE  /\ (Last(m)[k] - p.at[k]) % 2 = 0
           /\ Last(m)[k] - p.at[k] <= 2 * Cardinality(Cleared(b, m))
           /\ p.at[k] - Last(m)[k] <= 2 * Cardinality(Cleared(b, m))
<1> DEFINE f == [i \in 1 .. Len(m) |-> m[i][k]]
           C == {x[k] : x \in Cleared(b, m)}
           coordinate == [x \in Cleared(b, m) |-> x[k]]
<1>1. /\ m \in Seq(Squares) /\ Len(m) \in Nat /\ m[1] = p.at
      /\ \A i \in 1 .. Len(m) - 1 : Hop(b, p, m[i], m[i + 1])
  BY DEF Path
<1>2. Last(m) = m[Len(m)]
  BY DEF Last
<1>3. ASSUME NEW i \in 1 .. Len(m) PROVE f[i] \in Int /\ f[i] = m[i][k]
  <2>1. m[i] \in Squares
    BY <1>1
  <2>2. m[i][1] \in Int /\ m[i][2] \in Int
    BY <2>1, SquareFields, BoardAssumption
  <2> QED BY <2>2
<1>4. ASSUME NEW i \in 1 .. Len(m) - 1
      PROVE  f[i + 1] - f[i] \in {-2, 2} /\ (f[i] + f[i + 1]) \div 2 \in C
  <2>1. Hop(b, p, m[i], m[i + 1]) /\ i \in 1 .. Len(m) /\ i + 1 \in 1 .. Len(m)
    BY <1>1
  <2>2. m[i + 1][k] - m[i][k] \in {-2, 2}
    BY <2>1, HopFacts
  <2>3. Midpoint(m[i], m[i + 1])[k] = (m[i][k] + m[i + 1][k]) \div 2
    BY <2>1, HopFacts
  <2>4. Midpoint(m[i], m[i + 1]) \in Cleared(b, m)
    BY JumpClears
  <2>5. f[i] = m[i][k] /\ f[i + 1] = m[i + 1][k]
    BY <1>3, <2>1
  <2> HIDE DEF f
  <2> QED BY <2>2, <2>3, <2>4, <2>5
<1>5. IsFiniteSet(Cleared(b, m)) /\ Cardinality(Cleared(b, m)) \in Nat
  BY JumpClears
<1>6. coordinate \in Surjection(Cleared(b, m), C)
  <2>1. coordinate \in [Cleared(b, m) -> C]
    OBVIOUS
  <2>2. \A y \in C : \E x \in Cleared(b, m) : coordinate[x] = y
    OBVIOUS
  <2> HIDE DEF coordinate, C
  <2> QED BY <2>1, <2>2 DEF Surjection
<1> HIDE DEF f, C, coordinate
<1>7. IsFiniteSet(C) /\ Cardinality(C) <= Cardinality(Cleared(b, m))
  BY <1>5, <1>6, FS_Surjection
<1>8. Cardinality(C) \in Nat
  BY <1>7, FS_CardinalityType
<1>9. Len(m) >= 1 /\ Len(m) \in 1 .. Len(m) /\ 1 \in 1 .. Len(m)
  BY <1>1
<1>10. /\ f[Len(m)] - f[1] <= 2 * Cardinality(C)
       /\ f[1] - f[Len(m)] <= 2 * Cardinality(C)
  BY <1>1, <1>3, <1>4, <1>7, <1>9, WalkSpans
<1>11. (f[Len(m)] - f[1]) % 2 = 0
  BY <1>1, <1>3, <1>4, <1>9, WalkKeepsParity
<1>12. f[Len(m)] = Last(m)[k] /\ f[1] = p.at[k] /\ f[Len(m)] \in Int /\ f[1] \in Int
  BY <1>1, <1>2, <1>3, <1>9
<1>13. ASSUME NEW x \in Int, NEW y \in Int, NEW c \in Nat, NEW d \in Nat,
              x - y <= 2 * c, y - x <= 2 * c, c <= d
       PROVE  x - y <= 2 * d /\ y - x <= 2 * d
  BY <1>13
<1> QED BY <1>5, <1>7, <1>8, <1>10, <1>11, <1>12, <1>13

(* A man's path goes two rows forward with each hop.                       *)
LEMMA ManPath ==
    ASSUME NEW b, NEW p, NEW m, Path(b, p, m), ~p.isKing, NEW k \in 1 .. Len(m)
    PROVE  m[k][2] = m[1][2] + 2 * (k - 1) * Forward(p)
<1> DEFINE Off == {i \in 1 .. Len(m) : m[i][2] # m[1][2] + 2 * (i - 1) * Forward(p)}
<1>1. /\ m \in Seq(Squares) /\ Len(m) \in Nat
      /\ \A i \in 1 .. Len(m) - 1 : Hop(b, p, m[i], m[i + 1])
  BY DEF Path
<1>2. ASSUME Off # {} PROVE FALSE
  <2>1. PICK i \in Off : \A j \in Off : i <= j
    <3>1. Off \subseteq Nat
      OBVIOUS
    <3> HIDE DEF Off
    <3> QED BY <1>2, <3>1, LeastElement
  <2>2. i \in 1 .. Len(m) /\ m[i][2] # m[1][2] + 2 * (i - 1) * Forward(p)
    OBVIOUS
  <2>3. Forward(p) \in {1, -1}
    BY DEF Forward
  <2>4. m[1][2] \in Int /\ m[i][2] \in Int
    <3>1. 1 \in 1 .. Len(m)
      BY <2>2
    <3>2. m[1] \in Squares /\ m[i] \in Squares
      BY <1>1, <2>2, <3>1
    <3>3. m[1][2] \in 0 .. Size - 1 /\ m[i][2] \in 0 .. Size - 1
      BY <3>2, SquareFields
    <3> QED BY <3>3, BoardAssumption
  <2>5. i # 1
    BY <2>2, <2>3, <2>4
  <2>6. /\ i - 1 \in 1 .. Len(m) /\ i - 1 \in 1 .. Len(m) - 1 /\ (i - 1) + 1 = i
        /\ ~(i <= i - 1)
    BY <1>1, <2>2, <2>5
  <2>7. m[i - 1][2] = m[1][2] + 2 * ((i - 1) - 1) * Forward(p)
    BY <2>1, <2>6
  <2>8. m[i][2] - m[i - 1][2] = 2 * Forward(p) /\ m[i - 1][2] \in Int
    BY <1>1, <2>6, HopFacts
  <2> HIDE DEF Off
  <2>9. i \in Int
    BY <2>2
  <2> DEFINE x == m[i][2]
             y == m[i - 1][2]
             z == m[1][2]
             f == Forward(p)
  <2>10. /\ x \in Int /\ y \in Int /\ z \in Int /\ f \in {1, -1}
         /\ x # z + 2 * (i - 1) * f
         /\ y = z + 2 * ((i - 1) - 1) * f
         /\ x - y = 2 * f
    BY <2>2, <2>3, <2>4, <2>7, <2>8
  <2> HIDE DEF x, y, z, f
  <2>11. CASE f = 1
    BY <2>9, <2>10, <2>11
  <2>12. CASE f = -1
    BY <2>9, <2>10, <2>12
  <2> QED BY <2>10, <2>11, <2>12
<1> QED BY <1>2

(* So it comes out exactly two rows further for each piece it takes.       *)
LEMMA ManComesOut ==
    ASSUME NEW b, NEW p, InPlace(b, p), NEW m, Path(b, p, m), Len(m) > 1, ~p.isKing
    PROVE  Last(m)[2] = p.at[2] + Forward(p) * (2 * Cardinality(Cleared(b, m)))
<1> DEFINE n == Cardinality(Cleared(b, m))
<1>1. m \in Seq(Squares) /\ Len(m) \in Nat /\ m[1] = p.at /\ Last(m) = m[Len(m)]
  BY DEF Path, Last
<1>2. Len(m) \in 1 .. Len(m)
  BY <1>1
<1>3. Last(m)[2] = p.at[2] + 2 * (Len(m) - 1) * Forward(p)
  BY <1>1, <1>2, ManPath
<1>4. n \in Nat /\ n <= Len(m) - 1
  BY JumpClears
<1>5. Last(m)[2] - p.at[2] <= 2 * n /\ p.at[2] - Last(m)[2] <= 2 * n
  BY JumpSpans
<1>6. p.at[2] \in Int /\ Last(m)[2] \in Int
  <2>1. p.at \in Squares /\ m[Len(m)] \in Squares
    BY <1>1, <1>2, PieceFields DEF InPlace
  <2> QED BY <1>1, <2>1, SquareFields, BoardAssumption
<1>7. Forward(p) \in {1, -1}
  BY DEF Forward
<1> HIDE DEF n
<1>8. n = Len(m) - 1
  <2>1. CASE Forward(p) = 1
    BY <1>1, <1>3, <1>4, <1>5, <1>6, <2>1
  <2>2. CASE Forward(p) = -1
    BY <1>1, <1>3, <1>4, <1>5, <1>6, <2>2
  <2> QED BY <1>7, <2>1, <2>2
<1>9. Last(m)[2] = p.at[2] + Forward(p) * (2 * n)
  <2>1. CASE Forward(p) = 1
    BY <1>1, <1>3, <1>6, <1>8, <2>1
  <2>2. CASE Forward(p) = -1
    BY <1>1, <1>3, <1>6, <1>8, <2>2
  <2> QED BY <1>7, <2>1, <2>2
<1> QED BY <1>9 DEF n

-----------------------------------------------------------------------------
(* The order of the move list, and the first move to a square.             *)

(* The order of two squares one step away from where two moves part.       *)
Before(p, s, t) ==
    \/ s[1] < t[1]
    \/ s[1] = t[1] /\ (s[2] - t[2]) * Forward(p) > 0

(* The moves m and n part at index i, and m goes first.                    *)
PartAt(p, m, n, i) ==
    /\ i \in 2 .. Len(m) /\ i <= Len(n)
    /\ \A j \in 1 .. i - 1 : m[j] = n[j]
    /\ Before(p, m[i], n[i])

(* Before orders the squares that may follow one another in a list.        *)
LEMMA BeforeOrder ==
    ASSUME NEW p
    PROVE  /\ \A s \in Squares : ~Before(p, s, s)
           /\ \A s, t \in Squares : s # t => Before(p, s, t) \/ Before(p, t, s)
           /\ \A s, t, u \in Squares :
                 Before(p, s, t) /\ Before(p, t, u) => Before(p, s, u)
<1>1. Forward(p) \in {1, -1}
  BY DEF Forward
<1>2. \A s \in Squares : s[1] \in Int /\ s[2] \in Int /\ s = <<s[1], s[2]>>
  BY SquareFields, BoardAssumption
<1>3. ASSUME NEW s \in Squares, NEW t \in Squares
      PROVE  Before(p, s, t) <=>
                \/ s[1] < t[1]
                \/ /\ s[1] = t[1]
                   /\ IF Forward(p) = 1 THEN s[2] > t[2] ELSE s[2] < t[2]
  <2>1. CASE Forward(p) = 1
    BY <1>2, <2>1 DEF Before
  <2>2. CASE Forward(p) = -1
    BY <1>2, <2>2 DEF Before
  <2> QED BY <1>1, <2>1, <2>2
<1>4. \A s \in Squares : ~Before(p, s, s)
  BY <1>2, <1>3
<1>5. ASSUME NEW s \in Squares, NEW t \in Squares, s # t
      PROVE  Before(p, s, t) \/ Before(p, t, s)
  <2>1. s[1] # t[1] \/ s[2] # t[2]
    BY <1>2, <1>5
  <2> QED BY <1>2, <1>3, <2>1
<1>6. ASSUME NEW s \in Squares, NEW t \in Squares, NEW u \in Squares,
             Before(p, s, t), Before(p, t, u)
      PROVE  Before(p, s, u)
  BY <1>2, <1>3, <1>6
<1> QED BY <1>4, <1>5, <1>6

(* Precedes compares two moves at the first square they part at.           *)
LEMMA PrecedesParts ==
    ASSUME NEW p, NEW m \in Seq(Squares), NEW n \in Seq(Squares)
    PROVE  Precedes(p, m, n) <=> \E i \in 2 .. Len(m) : PartAt(p, m, n, i)
<1>1. ASSUME NEW i \in 2 .. Len(m), i <= Len(n)
      PROVE  SubSeq(m, 1, i - 1) = SubSeq(n, 1, i - 1) <=>
                \A j \in 1 .. i - 1 : m[j] = n[j]
  <2>1. Len(m) \in Nat /\ Len(n) \in Nat
    OBVIOUS
  <2>2. i - 1 \in 0 .. Len(m) /\ i - 1 \in 0 .. Len(n)
    BY <1>1, <2>1
  <2>3. /\ SubSeq(m, 1, i - 1) \in Seq(Squares)
        /\ Len(SubSeq(m, 1, i - 1)) = i - 1
        /\ \A j \in 1 .. i - 1 : SubSeq(m, 1, i - 1)[j] = m[j]
    BY <2>2, PrefixFacts
  <2>4. /\ SubSeq(n, 1, i - 1) \in Seq(Squares)
        /\ Len(SubSeq(n, 1, i - 1)) = i - 1
        /\ \A j \in 1 .. i - 1 : SubSeq(n, 1, i - 1)[j] = n[j]
    BY <2>2, PrefixFacts
  <2>5. ASSUME \A j \in 1 .. i - 1 : m[j] = n[j]
        PROVE  SubSeq(m, 1, i - 1) = SubSeq(n, 1, i - 1)
    BY <2>3, <2>4, <2>5, SeqEqual
  <2>6. ASSUME SubSeq(m, 1, i - 1) = SubSeq(n, 1, i - 1), NEW j \in 1 .. i - 1
        PROVE  m[j] = n[j]
    BY <2>3, <2>4, <2>6
  <2> QED BY <2>5, <2>6
<1> QED BY <1>1 DEF Precedes, PartAt, Before

(* Precedes is transitive and irreflexive.                                 *)
LEMMA PrecedesStrict ==
    ASSUME NEW p, NEW l \in Seq(Squares), NEW m \in Seq(Squares), NEW n \in Seq(Squares)
    PROVE  /\ ~Precedes(p, m, m)
           /\ Precedes(p, l, m) /\ Precedes(p, m, n) => Precedes(p, l, n)
<1>1. ~Precedes(p, m, m)
  <2> SUFFICES ASSUME NEW i \in 2 .. Len(m), PartAt(p, m, m, i) PROVE FALSE
    BY PrecedesParts
  <2>1. m[i] \in Squares /\ Before(p, m[i], m[i])
    BY DEF PartAt
  <2> QED BY <2>1, BeforeOrder
<1>2. ASSUME Precedes(p, l, m), Precedes(p, m, n) PROVE Precedes(p, l, n)
  <2>1. PICK i \in 2 .. Len(l) : PartAt(p, l, m, i)
    BY <1>2, PrecedesParts
  <2>2. PICK j \in 2 .. Len(m) : PartAt(p, m, n, j)
    BY <1>2, PrecedesParts
  <2>3. /\ Len(l) \in Nat /\ Len(m) \in Nat /\ Len(n) \in Nat
        /\ i \in 1 .. Len(l) /\ i \in 1 .. Len(m) /\ j \in 1 .. Len(m) /\ j \in 1 .. Len(n)
    BY <2>1, <2>2 DEF PartAt
  <2>4. l[i] \in Squares /\ m[i] \in Squares /\ m[j] \in Squares /\ n[j] \in Squares
    BY <2>3
  <2>5. /\ \A k \in 1 .. i - 1 : l[k] = m[k]
        /\ \A k \in 1 .. j - 1 : m[k] = n[k]
        /\ Before(p, l[i], m[i]) /\ Before(p, m[j], n[j])
    BY <2>1, <2>2 DEF PartAt
  <2>6. CASE i < j
    <3>1. i \in 1 .. j - 1 /\ i <= Len(n) /\ \A k \in 1 .. i - 1 : k \in 1 .. j - 1
      BY <2>3, <2>6
    <3>2. PartAt(p, l, n, i)
      BY <2>5, <3>1 DEF PartAt
    <3> QED BY <3>2, PrecedesParts
  <2>7. CASE i = j
    <3>1. Before(p, l[i], n[i])
      BY <2>4, <2>5, <2>7, BeforeOrder
    <3>2. PartAt(p, l, n, i)
      BY <2>3, <2>5, <2>7, <3>1 DEF PartAt
    <3> QED BY <3>2, PrecedesParts
  <2>8. CASE j < i
    <3>1. j \in 1 .. i - 1 /\ j \in 2 .. Len(l) /\ j <= Len(n)
          /\ \A k \in 1 .. j - 1 : k \in 1 .. i - 1
      BY <2>3, <2>8
    <3>2. PartAt(p, l, n, j)
      BY <2>5, <3>1 DEF PartAt
    <3> QED BY <3>1, <3>2, PrecedesParts
  <2>9. i \in Int /\ j \in Int
    OBVIOUS
  <2> QED BY <2>6, <2>7, <2>8, <2>9
<1> QED BY <1>1, <1>2

(* A move lands on no square twice, a plain one included.                  *)
LEMMA MoveIsFresh ==
    ASSUME NEW b, NEW p, InPlace(b, p), NEW m \in getAllPossibleMoves(b, p)
    PROVE  /\ m \in Seq(Squares) /\ Len(m) \in Nat /\ Len(m) > 1
           /\ m[1] = p.at /\ Last(m) = m[Len(m)]
           /\ \A i, j \in 1 .. Len(m) : m[i] = m[j] => i = j
<1>1. /\ m \in Seq(Squares) /\ Len(m) \in Nat /\ Len(m) > 1
      /\ m[1] = p.at /\ Last(m) # p.at /\ Last(m) = m[Len(m)]
  BY MoveFacts DEF Last
<1>2. CASE Path(b, p, m)
  BY <1>1, <1>2 DEF Path
<1>3. CASE m \in PlainMoves(b, p)
  <2>1. Len(m) = 2
    BY <1>3, QuietFacts
  <2>2. m[1] # m[2]
    BY <1>1, <2>1
  <2>3. \A i \in 1 .. Len(m) : i = 1 \/ i = 2
    BY <2>1
  <2> QED BY <1>1, <2>2, <2>3
<1>4. p.at \in Squares
  BY PieceFields DEF InPlace
<1> QED BY <1>2, <1>3, <1>4, JumpsArePaths DEF getAllPossibleMoves

(* Of two moves with the same end, one comes first.                        *)
LEMMA PrecedesTotal ==
    ASSUME NEW b, NEW p, InPlace(b, p),
           NEW m \in getAllPossibleMoves(b, p), NEW n \in getAllPossibleMoves(b, p),
           Last(m) = Last(n), m # n
    PROVE  Precedes(p, m, n) \/ Precedes(p, n, m)
<1> DEFINE D == {i \in Nat : 1 <= i /\ i <= Len(m) /\ i <= Len(n) /\ m[i] # n[i]}
<1>1. /\ m \in Seq(Squares) /\ Len(m) \in Nat /\ Len(m) > 1
      /\ m[1] = p.at /\ Last(m) = m[Len(m)]
      /\ \A i, j \in 1 .. Len(m) : m[i] = m[j] => i = j
  BY MoveIsFresh
<1>2. /\ n \in Seq(Squares) /\ Len(n) \in Nat /\ Len(n) > 1
      /\ n[1] = p.at /\ Last(n) = n[Len(n)]
      /\ \A i, j \in 1 .. Len(n) : n[i] = n[j] => i = j
  BY MoveIsFresh
<1>3. ASSUME D = {} PROVE FALSE
  <2>1. \A i \in Nat : 1 <= i /\ i <= Len(m) /\ i <= Len(n) => m[i] = n[i]
    BY <1>3
  <2> HIDE DEF D
  <2>2. CASE Len(m) < Len(n)
    <3>1. Len(m) \in 1 .. Len(n) /\ Len(n) \in 1 .. Len(n) /\ Len(m) # Len(n)
      BY <1>1, <1>2, <2>2
    <3>2. m[Len(m)] = n[Len(m)]
      BY <1>1, <1>2, <2>1, <2>2
    <3> QED BY <1>1, <1>2, <3>1, <3>2
  <2>3. CASE Len(n) < Len(m)
    <3>1. Len(n) \in 1 .. Len(m) /\ Len(m) \in 1 .. Len(m) /\ Len(m) # Len(n)
      BY <1>1, <1>2, <2>3
    <3>2. m[Len(n)] = n[Len(n)]
      BY <1>1, <1>2, <2>1, <2>3
    <3> QED BY <1>1, <1>2, <3>1, <3>2
  <2>4. CASE Len(m) = Len(n)
    <3>1. \A i \in 1 .. Len(m) : m[i] = n[i]
      BY <1>1, <1>2, <2>1, <2>4
    <3> QED BY <1>1, <1>2, <2>4, <3>1, SeqEqual
  <2> QED BY <1>1, <1>2, <2>2, <2>3, <2>4
<1>4. PICK i \in D : \A j \in D : i <= j
  <2>1. D \subseteq Nat
    OBVIOUS
  <2> HIDE DEF D
  <2> QED BY <1>3, <2>1, LeastElement
<1>5. i \in Nat /\ 1 <= i /\ i <= Len(m) /\ i <= Len(n) /\ m[i] # n[i]
  OBVIOUS
<1>6. i # 1
  BY <1>1, <1>2, <1>5
<1>7. i \in 2 .. Len(m) /\ i \in 2 .. Len(n) /\ i \in 1 .. Len(m) /\ i \in 1 .. Len(n)
  BY <1>1, <1>2, <1>5, <1>6
<1>8. ASSUME NEW j \in 1 .. i - 1 PROVE m[j] = n[j]
  <2>1. j \in Nat /\ 1 <= j /\ j <= Len(m) /\ j <= Len(n) /\ ~(i <= j)
    BY <1>1, <1>2, <1>5, <1>8
  <2>2. j \notin D
    BY <1>4, <2>1
  <2> QED BY <2>1, <2>2
<1> HIDE DEF D
<1>9. m[i] \in Squares /\ n[i] \in Squares
  BY <1>1, <1>2, <1>7
<1>10. CASE Before(p, m[i], n[i])
  BY <1>1, <1>2, <1>5, <1>7, <1>8, <1>10, PrecedesParts DEF PartAt
<1>11. CASE Before(p, n[i], m[i])
  BY <1>1, <1>2, <1>5, <1>7, <1>8, <1>11, PrecedesParts DEF PartAt
<1> QED BY <1>5, <1>9, <1>10, <1>11, BeforeOrder

(* A sequence without a repetition is no longer than there are squares.    *)
LEMMA FreshIsShort ==
    ASSUME NEW r \in Seq(Squares), \A i, j \in 1 .. Len(r) : r[i] = r[j] => i = j
    PROVE  Len(r) <= Cardinality(Squares)
<1>1. r \in [1 .. Len(r) -> Squares] /\ Len(r) \in Nat
  OBVIOUS
<1>2. r \in Injection(1 .. Len(r), Squares)
  BY <1>1 DEF Injection, IsInjective
<1>3. Cardinality(1 .. Len(r)) <= Cardinality(Squares)
  BY <1>2, SquaresFinite, FS_Injection
<1>4. Cardinality(1 .. Len(r)) = Len(r)
  <2>1. \A n \in Nat : Cardinality(1 .. n) = n
    BY FS_Interval
  <2> QED BY <1>1, <2>1
<1> QED BY <1>3, <1>4

(* So a piece has finitely many moves.                                     *)
LEMMA MovesFinite ==
    ASSUME NEW b, NEW p, InPlace(b, p)
    PROVE  IsFiniteSet(getAllPossibleMoves(b, p))
<1> DEFINE N == Cardinality(Squares)
           moves == getAllPossibleMoves(b, p)
           Graph(m) == {<<i, m[i]>> : i \in 1 .. Len(m)}
           graph == [m \in moves |-> Graph(m)]
           T == SUBSET ((1 .. N) \X Squares)
<1>1. N \in Nat /\ IsFiniteSet(Squares)
  BY SquaresFinite
<1>2. IsFiniteSet(T)
  <2>1. IsFiniteSet(1 .. N)
    BY <1>1, FS_Interval
  <2>2. IsFiniteSet((1 .. N) \X Squares)
    BY <1>1, <2>1, FS_Product
  <2> QED BY <2>2, FS_SUBSET
<1>3. ASSUME NEW m \in moves
      PROVE  m \in Seq(Squares) /\ Len(m) \in Nat /\ Len(m) <= N
  BY MoveIsFresh, FreshIsShort
<1> HIDE DEF N
<1>4. ASSUME NEW m \in moves PROVE Graph(m) \in T
  <2>1. \A i \in 1 .. Len(m) : i \in 1 .. N /\ m[i] \in Squares
    BY <1>1, <1>3
  <2> QED BY <2>1
<1>5. ASSUME NEW m \in moves, NEW n \in moves, Graph(m) = Graph(n)
      PROVE  m = n
  <2>1. /\ m \in Seq(Squares) /\ Len(m) \in Nat
        /\ n \in Seq(Squares) /\ Len(n) \in Nat
    BY <1>3
  <2>2. \A i \in 1 .. Len(m) : i \in 1 .. Len(n) /\ n[i] = m[i]
    <3> SUFFICES ASSUME NEW i \in 1 .. Len(m) PROVE i \in 1 .. Len(n) /\ n[i] = m[i]
      OBVIOUS
    <3>1. <<i, m[i]>> \in Graph(n)
      BY <1>5
    <3>2. PICK j \in 1 .. Len(n) : <<i, m[i]>> = <<j, n[j]>>
      BY <3>1
    <3> QED BY <3>2
  <2>3. \A i \in 1 .. Len(n) : i \in 1 .. Len(m)
    <3> SUFFICES ASSUME NEW i \in 1 .. Len(n) PROVE i \in 1 .. Len(m)
      OBVIOUS
    <3>1. <<i, n[i]>> \in Graph(m)
      BY <1>5
    <3>2. PICK j \in 1 .. Len(m) : <<i, n[i]>> = <<j, m[j]>>
      BY <3>1
    <3> QED BY <3>2
  <2> HIDE DEF Graph
  <2>4. Len(m) = Len(n)
    <3>1. Len(m) <= Len(n)
      BY <2>1, <2>2
    <3>2. Len(n) <= Len(m)
      BY <2>1, <2>3
    <3> QED BY <2>1, <3>1, <3>2
  <2> QED BY <2>1, <2>2, <2>4, SeqEqual
<1> HIDE DEF Graph, T
<1>6. graph \in Injection(moves, T)
  <2>1. graph \in [moves -> T]
    BY <1>4
  <2>2. \A m, n \in moves : graph[m] = graph[n] => m = n
    BY <1>5
  <2> HIDE DEF graph, moves
  <2> QED BY <2>1, <2>2 DEF Injection, IsInjective
<1> QED BY <1>2, <1>6, FS_Injection

(* Among the moves that end on a square the list singles out one.          *)
LEMMA OneComesFirst ==
    ASSUME NEW b, NEW p, InPlace(b, p), NEW m0 \in getAllPossibleMoves(b, p)
    PROVE  \E m \in getAllPossibleMoves(b, p) :
              /\ Last(m) = Last(m0)
              /\ \A n : n \in FirstTo(p, getAllPossibleMoves(b, p), Last(m0)) <=> n = m
<1> DEFINE S == {m \in getAllPossibleMoves(b, p) : Last(m) = Last(m0)}
           Earlier(m) == {n \in S : Precedes(p, n, m)}
           N == {Cardinality(Earlier(m)) : m \in S}
<1>1. IsFiniteSet(S)
  BY MovesFinite, FS_Subset
<1>2. \A m \in S : m \in Seq(Squares)
  BY MoveIsFresh
<1>3. \A m, n \in S : m # n => Precedes(p, m, n) \/ Precedes(p, n, m)
  BY PrecedesTotal
<1>4. FirstTo(p, getAllPossibleMoves(b, p), Last(m0)) =
         {m \in S : \A n \in S \ {m} : Precedes(p, m, n)}
  BY DEF FirstTo
<1>5. m0 \in S
  OBVIOUS
<1> HIDE DEF S
<1>6. \A m \in S : IsFiniteSet(Earlier(m)) /\ Cardinality(Earlier(m)) \in Nat
  BY <1>1, FS_Subset, FS_CardinalityType
<1>7. PICK m \in S : \A n \in S : Cardinality(Earlier(m)) <= Cardinality(Earlier(n))
  <2>1. N \subseteq Nat /\ N # {}
    BY <1>5, <1>6
  <2>2. PICK k \in N : \A j \in N : k <= j
    <3> HIDE DEF N
    <3> QED BY <2>1, LeastElement
  <2>3. PICK m \in S : k = Cardinality(Earlier(m))
    OBVIOUS
  <2>4. \A n \in S : Cardinality(Earlier(m)) <= Cardinality(Earlier(n))
    BY <2>2, <2>3
  <2> QED BY <2>4
<1>8. ASSUME NEW n \in S \ {m} PROVE Precedes(p, m, n)
  <2>1. ASSUME Precedes(p, n, m) PROVE FALSE
    <3>1. Earlier(n) \subseteq Earlier(m)
      BY <1>2, <2>1, PrecedesStrict
    <3>2. n \in Earlier(m) /\ n \notin Earlier(n)
      BY <1>2, <2>1, PrecedesStrict
    <3>3. /\ Cardinality(Earlier(n)) <= Cardinality(Earlier(m))
          /\ Cardinality(Earlier(n)) # Cardinality(Earlier(m))
      BY <1>6, <3>1, <3>2, FS_Subset
    <3>4. Cardinality(Earlier(m)) <= Cardinality(Earlier(n))
      BY <1>7
    <3>5. Cardinality(Earlier(m)) \in Nat /\ Cardinality(Earlier(n)) \in Nat
      BY <1>6
    <3> HIDE DEF Earlier
    <3> QED BY <3>3, <3>4, <3>5
  <2> QED BY <1>3, <2>1
<1>9. ASSUME NEW n \in S, \A l \in S \ {n} : Precedes(p, n, l) PROVE n = m
  <2>1. ASSUME n # m PROVE FALSE
    <3>1. Precedes(p, m, n) /\ Precedes(p, n, m)
      BY <1>8, <1>9, <2>1
    <3> QED BY <1>2, <3>1, PrecedesStrict
  <2> QED BY <2>1
<1>10. {l \in S : \A n \in S \ {l} : Precedes(p, l, n)} = {m}
  BY <1>8, <1>9
<1>11. m \in getAllPossibleMoves(b, p) /\ Last(m) = Last(m0)
  BY DEF S
<1> QED BY <1>4, <1>10, <1>11

(* Where a move ends tells whether it is a jump.                           *)
LEMMA EndTellsJump ==
    ASSUME NEW b, NEW p, InPlace(b, p), NEW m
    PROVE  /\ m \in PlainMoves(b, p) => (Last(m)[1] - p.at[1]) % 2 # 0
           /\ Path(b, p, m) /\ Len(m) > 1 => (Last(m)[1] - p.at[1]) % 2 = 0
<1>1. ASSUME m \in PlainMoves(b, p) PROVE (Last(m)[1] - p.at[1]) % 2 # 0
  <2>1. Last(m)[1] - p.at[1] \in {-1, 1}
    BY <1>1, QuietFacts
  <2> QED BY <2>1
<1>2. ASSUME Path(b, p, m), Len(m) > 1 PROVE (Last(m)[1] - p.at[1]) % 2 = 0
  <2>1. 1 \in {1, 2}
    OBVIOUS
  <2> QED BY <1>2, <2>1, JumpSpans
<1> QED BY <1>1, <1>2

(* What a generated move is: a plain one, or a path of hops.               *)
LEMMA MoveKinds ==
    ASSUME NEW b, NEW p, InPlace(b, p), NEW m
    PROVE  /\ m \in getAllPossibleMoves(b, p) <=>
                m \in PlainMoves(b, p) \/ (Path(b, p, m) /\ Len(m) > 1)
           /\ m \in PlainMoves(b, p) => ~IsJump(m)
           /\ Path(b, p, m) /\ Len(m) > 1 => IsJump(m)
<1>1. p.at \in Squares
  BY PieceFields DEF InPlace
<1>2. m \in getAllPossibleJumps(b, p) <=> Path(b, p, m) /\ Len(m) > 1
  BY <1>1, JumpsArePaths
<1> QED BY <1>2, QuietFacts, JumpClears DEF getAllPossibleMoves

-----------------------------------------------------------------------------
(* The runaway recursion: when it happens, and what it needs.              *)

(* The recursion runs away when a path can hop on to one of its own        *)
(* squares.                                                                *)
LEMMA RunsAway ==
    ASSUME NEW b, NEW p, p.at \in Squares
    PROVE  Diverges(b, p) <=>
              \E r : /\ Path(b, p, r)
                     /\ \E j \in 1 .. Len(r) :
                           /\ Hop(b, p, Last(r), r[j])
                           /\ Len(r) > 1 => r[j] # r[Len(r) - 1]
<1>1. ASSUME NEW r, Path(b, p, r)
      PROVE  Jumps(b, p, r) \cap ToSet(r) # {} <=>
                \E j \in 1 .. Len(r) : /\ Hop(b, p, Last(r), r[j])
                                       /\ Len(r) > 1 => r[j] # r[Len(r) - 1]
  <2>1. r \in Seq(Squares) /\ Len(r) >= 1
    BY <1>1 DEF Path
  <2>2. ToSet(r) = {r[j] : j \in 1 .. Len(r)}
    BY <2>1, ToSetFacts
  <2>3. \A sq : sq \in Jumps(b, p, r) <=>
           /\ Hop(b, p, Last(r), sq)
           /\ Len(r) > 1 => sq # r[Len(r) - 1]
    BY <2>1, JumpIsHop
  <2> QED BY <2>2, <2>3
<1>2. Diverges(b, p) <=> \E r : Path(b, p, r) /\ Jumps(b, p, r) \cap ToSet(r) # {}
  BY RoutesArePaths DEF Diverges
<1> QED BY <1>1, <1>2

(* A square at which a path ends.                                          *)
Reached(b, p, s) == \E r : Path(b, p, r) /\ Last(r) = s

(* The free squares of a circuit: two hops lead from each to others of it. *)
IsCircuit(b, p, S) ==
    /\ S # {}
    /\ \A s \in S : /\ s \in Squares /\ b[s] = None
                    /\ \E t, u \in S : t # u /\ Hop(b, p, s, t) /\ Hop(b, p, s, u)

(* Every square of a path is the end of one.                               *)
LEMMA PathPrefix ==
    ASSUME NEW b, NEW p, NEW r, Path(b, p, r), NEW i \in 1 .. Len(r)
    PROVE  Path(b, p, SubSeq(r, 1, i)) /\ Last(SubSeq(r, 1, i)) = r[i]
<1>1. /\ r \in Seq(Squares) /\ r[1] = p.at /\ Len(r) \in Nat
      /\ \A k \in 1 .. Len(r) - 1 : Hop(b, p, r[k], r[k + 1])
      /\ \A k, l \in 1 .. Len(r) : r[k] = r[l] => k = l
  BY DEF Path
<1> DEFINE q == SubSeq(r, 1, i)
<1>2. i \in 0 .. Len(r) /\ i \in Nat /\ i >= 1 /\ i <= Len(r)
  BY <1>1
<1>3. q \in Seq(Squares) /\ Len(q) = i /\ \A k \in 1 .. i : q[k] = r[k]
  BY <1>1, <1>2, PrefixFacts
<1> HIDE DEF q
<1>4. ASSUME NEW k \in 1 .. i - 1 PROVE Hop(b, p, q[k], q[k + 1])
  <2>1. k \in 1 .. i /\ k + 1 \in 1 .. i /\ k \in 1 .. Len(r) - 1
    BY <1>1, <1>2
  <2> QED BY <1>1, <1>3, <2>1
<1>5. \A k, l \in 1 .. i : q[k] = q[l] => k = l
  <2>1. \A k \in 1 .. i : k \in 1 .. Len(r)
    BY <1>1, <1>2
  <2> QED BY <1>1, <1>3, <2>1
<1>6. q[1] = p.at /\ Last(q) = r[i]
  <2>1. 1 \in 1 .. i /\ i \in 1 .. i
    BY <1>2
  <2> QED BY <1>1, <1>3, <2>1 DEF Last
<1> QED BY <1>2, <1>3, <1>4, <1>5, <1>6 DEF Path, q

(* A king's hop to a free square can be made back from it to a free one.   *)
LEMMA HopBack ==
    ASSUME NEW b, NEW p, p.isKing, NEW s, NEW t, Hop(b, p, s, t), b[s] = None
    PROVE  Hop(b, p, t, s)
<1>1. PICK d \in Directions(p) : t = Shift(s, d, 2)
  BY DEF Hop
<1>2. s \in Squares /\ t \in Squares /\ s[1] \in Int /\ s[2] \in Int
      /\ t[1] \in Int /\ t[2] \in Int /\ s = <<s[1], s[2]>>
  <2>1. s \in Squares /\ t \in Squares
    BY DEF Hop
  <2> QED BY <2>1, SquareFields, BoardAssumption
<1>3. d[1] \in {-1, 1} /\ d[2] \in {-1, 1}
  BY DirectionsType
<1>4. t[1] = s[1] + 2 * d[1] /\ t[2] = s[2] + 2 * d[2]
  BY <1>1 DEF Shift
<1> DEFINE e == <<-d[1], -d[2]>>
<1>5. e \in Directions(p)
  <2>1. -d[1] \in {-1, 1} /\ -d[2] \in {-1, 1}
    BY <1>3
  <2> QED BY <2>1 DEF Directions
<1>6. s = Shift(t, e, 2)
  <2>1. \A x \in Int, y \in {-1, 1} : (x + 2 * y) + 2 * (-y) = x
    OBVIOUS
  <2>2. t[1] + 2 * (-d[1]) = s[1] /\ t[2] + 2 * (-d[2]) = s[2]
    BY <1>2, <1>3, <1>4, <2>1
  <2>3. Shift(t, e, 2) = <<s[1], s[2]>>
    BY <2>2 DEF Shift
  <2> QED BY <1>2, <2>3
<1>7. Midpoint(t, s) = Midpoint(s, t)
  BY <1>2 DEF Midpoint
<1> QED BY <1>2, <1>5, <1>6, <1>7 DEF Hop

(* A path that can hop on to one of its squares shows a king's circuit.    *)
LEMMA CircuitOfRun ==
    ASSUME NEW b, NEW p, InPlace(b, p), Diverges(b, p)
    PROVE  /\ p.isKing
           /\ \E S : /\ IsCircuit(b, p, S)
                     /\ \A s \in S : Reached(b, p, s)
<1>1. p.at \in Squares /\ b[p.at] = p /\ p # None
  BY PieceFields DEF InPlace
<1>2. PICK r : /\ Path(b, p, r)
               /\ \E j \in 1 .. Len(r) :
                     /\ Hop(b, p, Last(r), r[j])
                     /\ Len(r) > 1 => r[j] # r[Len(r) - 1]
  BY <1>1, RunsAway
<1>3. PICK j \in 1 .. Len(r) : /\ Hop(b, p, Last(r), r[j])
                               /\ Len(r) > 1 => r[j] # r[Len(r) - 1]
  BY <1>2
<1> DEFINE L == Len(r)
<1>4. /\ r \in Seq(Squares) /\ r[1] = p.at /\ L \in Nat /\ j \in Int /\ 1 <= j /\ j <= L
      /\ \A k \in 1 .. L - 1 : Hop(b, p, r[k], r[k + 1])
      /\ \A k, l \in 1 .. L : r[k] = r[l] => k = l
      /\ Last(r) = r[L]
  BY <1>2 DEF Path, Last
<1>5. b[r[j]] = None /\ r[L] # r[j]
  <2>1. b[r[j]] = None
    BY <1>3 DEF Hop
  <2>2. r[j][1] - r[L][1] \in {-2, 2} /\ r[L][1] \in Int
    BY <1>3, <1>4, HopFacts
  <2> QED BY <2>1, <2>2
<1>6. 1 < j /\ j + 2 <= L
  <2>1. j # 1
    BY <1>1, <1>4, <1>5
  <2>2. j # L
    BY <1>5
  <2>3. j # L - 1
    BY <1>3, <1>4, <2>1
  <2> HIDE DEF L
  <2> QED BY <1>4, <2>1, <2>2, <2>3
<1>7. p.isKing
  <2> SUFFICES ASSUME ~p.isKing PROVE FALSE
    OBVIOUS
  <2>1. L \in 1 .. Len(r) /\ j \in 1 .. Len(r)
    BY <1>4
  <2>2. r[L][2] = r[1][2] + 2 * (L - 1) * Forward(p)
    BY <1>2, <2>1, ManPath
  <2>3. r[j][2] = r[1][2] + 2 * (j - 1) * Forward(p)
    BY <1>2, <2>1, ManPath
  <2>4. r[j][2] - r[L][2] = 2 * Forward(p) /\ r[L][2] \in Int /\ r[j][2] \in Int
    <3>1. Hop(b, p, r[L], r[j])
      BY <1>3, <1>4
    <3> HIDE DEF L
    <3> QED BY <3>1, HopFacts
  <2>5. r[1][2] \in Int
    BY <1>1, <1>4, SquareFields, BoardAssumption
  <2>6. Forward(p) \in {1, -1}
    BY DEF Forward
  <2> HIDE DEF L
  <2>7. L \in Nat /\ j <= L /\ j \in Int
    BY <1>4
  <2>8. ASSUME NEW a \in Int, NEW x \in Int, NEW y \in Int,
                NEW l \in Int, NEW k \in Int, k <= l
         PROVE  /\ ~(x = a + 2 * (l - 1) /\ y = a + 2 * (k - 1) /\ y - x = 2)
                /\ ~(x = a - 2 * (l - 1) /\ y = a - 2 * (k - 1) /\ y - x = -2)
    BY <2>8
  <2>9. CASE Forward(p) = 1
    <3>1. /\ r[L][2] = r[1][2] + 2 * (L - 1)
          /\ r[j][2] = r[1][2] + 2 * (j - 1)
          /\ r[j][2] - r[L][2] = 2
      BY <2>2, <2>3, <2>4, <2>5, <2>7, <2>9
    <3> QED BY <2>4, <2>5, <2>7, <2>8, <3>1
  <2>10. CASE Forward(p) = -1
    <3>1. /\ r[L][2] = r[1][2] - 2 * (L - 1)
          /\ r[j][2] = r[1][2] - 2 * (j - 1)
          /\ r[j][2] - r[L][2] = -2
      BY <2>2, <2>3, <2>4, <2>5, <2>7, <2>10
    <3> QED BY <2>4, <2>5, <2>7, <2>8, <3>1
  <2> QED BY <2>6, <2>9, <2>10
<1> HIDE DEF L
<1> DEFINE S == {r[i] : i \in j .. L}
           next(i) == IF i = L THEN j ELSE i + 1
           last(i) == IF i = j THEN L ELSE i - 1
<1>8. ASSUME NEW i \in j .. L
      PROVE  /\ i \in 1 .. L /\ next(i) \in j .. L /\ last(i) \in j .. L
             /\ next(i) \in 1 .. L /\ last(i) \in 1 .. L
             /\ next(i) # last(i)
             /\ i # L => i \in 1 .. L - 1
             /\ i # 1 /\ i - 1 \in 1 .. L - 1 /\ (i - 1) + 1 = i
  BY <1>4, <1>6
<1>9. ASSUME NEW i \in j .. L PROVE b[r[i]] = None /\ r[i] \in Squares
  <2>1. Hop(b, p, r[i - 1], r[i])
    BY <1>4, <1>8
  <2> QED BY <2>1 DEF Hop
<1>10. ASSUME NEW i \in j .. L PROVE Hop(b, p, r[i], r[next(i)])
  <2>1. CASE i = L
    BY <1>3, <1>4, <2>1
  <2>2. CASE i # L
    BY <1>4, <1>8, <2>2
  <2> QED BY <2>1, <2>2
<1>11. ASSUME NEW i \in j .. L PROVE Hop(b, p, r[i], r[last(i)])
  <2>1. Hop(b, p, r[last(i)], r[i])
    <3>1. CASE i = j
      BY <1>3, <1>4, <3>1
    <3>2. CASE i # j
      BY <1>4, <1>8, <3>2
    <3> QED BY <3>1, <3>2
  <2>2. b[r[last(i)]] = None
    BY <1>8, <1>9
  <2> QED BY <1>7, <2>1, <2>2, HopBack
<1>12. IsCircuit(b, p, S)
  <2>1. S # {}
    <3>1. j \in j .. L
      BY <1>4
    <3> QED BY <3>1
  <2>2. ASSUME NEW i \in j .. L
        PROVE  \E t, u \in S : t # u /\ Hop(b, p, r[i], t) /\ Hop(b, p, r[i], u)
    <3>1. next(i) \in j .. L /\ last(i) \in j .. L /\ r[next(i)] # r[last(i)]
      <4>1. next(i) \in 1 .. L /\ last(i) \in 1 .. L /\ next(i) # last(i)
        BY <1>8
      <4> HIDE DEF next, last
      <4> QED BY <1>4, <1>8, <4>1
    <3> HIDE DEF next, last
    <3> QED BY <1>10, <1>11, <3>1
  <2>3. ASSUME NEW s \in S
        PROVE  /\ s \in Squares /\ b[s] = None
               /\ \E t, u \in S : t # u /\ Hop(b, p, s, t) /\ Hop(b, p, s, u)
    <3>1. PICK i \in j .. L : s = r[i]
      OBVIOUS
    <3> HIDE DEF S, next, last
    <3> QED BY <1>9, <2>2, <3>1
  <2> HIDE DEF S, next, last
  <2> QED BY <2>1, <2>3 DEF IsCircuit
<1>13. ASSUME NEW i \in j .. L PROVE Reached(b, p, r[i])
  <2>1. i \in 1 .. Len(r)
    BY <1>8 DEF L
  <2> QED BY <1>2, <2>1, PathPrefix DEF Reached
<1>14. \A s \in S : Reached(b, p, s)
  BY <1>13
<1> QED BY <1>7, <1>12, <1>14

(* The enemy a hop passes over.                                            *)
LEMMA EnemyBetween ==
    ASSUME NEW b \in Board, NEW p \in Piece, NEW s, NEW t, Hop(b, p, s, t),
           NEW dx \in {-1, 1}, NEW dy \in {-1, 1},
           t[1] - s[1] = 2 * dx, t[2] - s[2] = 2 * dy
    PROVE  <<s[1] + dx, s[2] + dy>> \in Occupied(b, ~p.isWhite)
<1>1. /\ Midpoint(s, t) \in Squares
      /\ Midpoint(s, t)[1] = (s[1] + t[1]) \div 2
      /\ Midpoint(s, t)[2] = (s[2] + t[2]) \div 2
      /\ s[1] \in Int /\ s[2] \in Int /\ t[1] \in Int /\ t[2] \in Int
      /\ Midpoint(s, t) = <<Midpoint(s, t)[1], Midpoint(s, t)[2]>>
  BY HopFacts, SquareFields
<1>2. \A x, y \in Int, e \in {-1, 1} : y - x = 2 * e => (x + y) \div 2 = x + e
  OBVIOUS
<1>3. Midpoint(s, t) = <<s[1] + dx, s[2] + dy>>
  BY <1>1, <1>2
<1>4. b[Midpoint(s, t)] # None /\ b[Midpoint(s, t)].isWhite # p.isWhite
  BY DEF Hop
<1>5. b[Midpoint(s, t)].isWhite \in BOOLEAN /\ p.isWhite \in BOOLEAN
  BY <1>1, <1>4, PieceFields DEF Board
<1> QED BY <1>1, <1>3, <1>4, <1>5 DEF Occupied

(* At the highest square of a circuit both hops go down, at the lowest up. *)
LEMMA CircuitEnds ==
    ASSUME NEW b \in Board, NEW p \in Piece, NEW S, IsCircuit(b, p, S)
    PROVE  \E top, bottom \in {sq \in Squares : b[sq] = None} :
              /\ top[2] > bottom[2]
              /\ \A dx \in {-1, 1} :
                    /\ <<top[1] + dx, top[2] - 1>> \in Occupied(b, ~p.isWhite)
                    /\ <<bottom[1] + dx, bottom[2] + 1>> \in Occupied(b, ~p.isWhite)
<1>1. /\ S # {}
      /\ \A s \in S : /\ s \in Squares /\ b[s] = None
                      /\ \E t, u \in S : t # u /\ Hop(b, p, s, t) /\ Hop(b, p, s, u)
  BY DEF IsCircuit
<1>2. \A s \in S : /\ s[1] \in Int /\ s[2] \in 0 .. Size - 1 /\ s = <<s[1], s[2]>>
                   /\ Size - 1 - s[2] \in Nat /\ s[2] \in Nat /\ Size \in Nat
  <2>1. Size \in Nat
    BY BoardAssumption
  <2>2. ASSUME NEW s \in S
        PROVE  s[1] \in 0 .. Size - 1 /\ s[2] \in 0 .. Size - 1 /\ s = <<s[1], s[2]>>
    <3>1. s \in Squares
      BY <1>1
    <3> QED BY <3>1, SquareFields
  <2>3. \A y \in 0 .. Size - 1 : Size - 1 - y \in Nat /\ y \in Nat /\ y \in Int
    BY <2>1
  <2> QED BY <2>1, <2>2, <2>3
<1>3. PICK top \in S : \A s \in S : s[2] <= top[2]
  <2> DEFINE N == {Size - 1 - s[2] : s \in S}
  <2>1. N \subseteq Nat /\ N # {}
    <3>1. \A s \in S : Size - 1 - s[2] \in Nat
      BY <1>2
    <3> QED BY <1>1, <3>1
  <2>2. PICK n \in N : \A k \in N : n <= k
    <3> HIDE DEF N
    <3> QED BY <2>1, LeastElement
  <2>3. PICK s \in S : n = Size - 1 - s[2]
    OBVIOUS
  <2>4. \A t \in S : Size - 1 - s[2] <= Size - 1 - t[2]
    BY <2>2, <2>3
  <2>5. \A t \in S : t[2] <= s[2]
    BY <1>2, <2>4
  <2> QED BY <2>5
<1>4. PICK bottom \in S : \A s \in S : bottom[2] <= s[2]
  <2> DEFINE N == {s[2] : s \in S}
  <2>1. N \subseteq Nat /\ N # {}
    <3>1. \A s \in S : s[2] \in Nat
      BY <1>2
    <3> QED BY <1>1, <3>1
  <2>2. PICK n \in N : \A k \in N : n <= k
    <3> HIDE DEF N
    <3> QED BY <2>1, LeastElement
  <2> QED BY <2>2
<1>5. ASSUME NEW s \in S, NEW t \in S, NEW u \in S, t # u,
             Hop(b, p, s, t), Hop(b, p, s, u), t[2] = u[2]
      PROVE  \A dx \in {-1, 1} : \E v \in {t, u} : v[1] - s[1] = 2 * dx
  <2>1. t[1] - s[1] \in {-2, 2} /\ u[1] - s[1] \in {-2, 2} /\ s[1] \in Int
        /\ t[1] \in Int /\ u[1] \in Int
    BY <1>5, HopFacts
  <2>2. t[1] # u[1]
    BY <1>2, <1>5
  <2>3. \/ t[1] - s[1] = 2 /\ u[1] - s[1] = -2
        \/ t[1] - s[1] = -2 /\ u[1] - s[1] = 2
    BY <2>1, <2>2
  <2> QED BY <2>3
<1>6. ASSUME NEW dx \in {-1, 1}
      PROVE  <<top[1] + dx, top[2] - 1>> \in Occupied(b, ~p.isWhite)
  <2>1. PICK t, u \in S : t # u /\ Hop(b, p, top, t) /\ Hop(b, p, top, u)
    BY <1>1
  <2>2. ASSUME NEW v \in S, Hop(b, p, top, v) PROVE v[2] - top[2] = -2
    <3>1. v[2] - top[2] \in {-2, 2} /\ v[2] <= top[2] /\ v[2] \in Int /\ top[2] \in Int
      BY <1>3, <2>2, HopFacts
    <3> QED BY <3>1
  <2>3. t[2] = u[2]
    BY <1>2, <2>1, <2>2
  <2>4. PICK v \in {t, u} : v[1] - top[1] = 2 * dx
    BY <1>5, <2>1, <2>3
  <2>5. Hop(b, p, top, v) /\ v[2] - top[2] = 2 * (-1)
    BY <2>1, <2>2
  <2>6. <<top[1] + dx, top[2] + (-1)>> \in Occupied(b, ~p.isWhite)
    BY <2>4, <2>5, EnemyBetween
  <2>7. top[2] + (-1) = top[2] - 1
    BY <1>2
  <2> QED BY <2>6, <2>7
<1>7. ASSUME NEW dx \in {-1, 1}
      PROVE  <<bottom[1] + dx, bottom[2] + 1>> \in Occupied(b, ~p.isWhite)
  <2>1. PICK t, u \in S : t # u /\ Hop(b, p, bottom, t) /\ Hop(b, p, bottom, u)
    BY <1>1
  <2>2. ASSUME NEW v \in S, Hop(b, p, bottom, v) PROVE v[2] - bottom[2] = 2
    <3>1. /\ v[2] - bottom[2] \in {-2, 2} /\ bottom[2] <= v[2] /\ v[2] \in Int
          /\ bottom[2] \in Int
      BY <1>4, <2>2, HopFacts
    <3> QED BY <3>1
  <2>3. t[2] = u[2]
    BY <1>2, <2>1, <2>2
  <2>4. PICK v \in {t, u} : v[1] - bottom[1] = 2 * dx
    BY <1>5, <2>1, <2>3
  <2>5. Hop(b, p, bottom, v) /\ v[2] - bottom[2] = 2 * 1
    BY <2>1, <2>2
  <2> QED BY <2>4, <2>5, EnemyBetween
<1>8. top[2] > bottom[2]
  <2>1. PICK t \in S : Hop(b, p, top, t)
    BY <1>1
  <2>2. t[2] - top[2] \in {-2, 2} /\ t[2] <= top[2] /\ bottom[2] <= t[2]
        /\ t[2] \in Int /\ top[2] \in Int /\ bottom[2] \in Int
    BY <1>2, <1>3, <1>4, <2>1, HopFacts
  <2> QED BY <2>2
<1> QED BY <1>1, <1>6, <1>7, <1>8

-----------------------------------------------------------------------------
(* The generator against the definitions of MCRules, for a piece of either *)
(* colour and rank on any board and any number of enemies.                 *)

(* A path goes on by a hop to a square it has not been on.                 *)
LEMMA PathAppend ==
    ASSUME NEW b, NEW p, NEW r, Path(b, p, r), NEW t, Hop(b, p, Last(r), t),
           \A i \in 1 .. Len(r) : r[i] # t
    PROVE  /\ Path(b, p, Append(r, t))
           /\ Last(Append(r, t)) = t
           /\ Len(Append(r, t)) = Len(r) + 1
<1> DEFINE q == Append(r, t)
           L == Len(r)
<1>1. /\ r \in Seq(Squares) /\ L \in Nat /\ L >= 1 /\ r[1] = p.at /\ Last(r) = r[L]
      /\ \A i \in 1 .. L - 1 : Hop(b, p, r[i], r[i + 1])
      /\ \A i, j \in 1 .. L : r[i] = r[j] => i = j
  BY DEF Path, Last
<1>2. t \in Squares
  BY DEF Hop
<1>3. /\ q \in Seq(Squares) /\ Len(q) = L + 1 /\ q[L + 1] = t
      /\ \A i \in 1 .. L : q[i] = r[i]
  BY <1>1, <1>2, AppendProperties
<1> HIDE DEF q
<1>4. q[1] = p.at
  <2>1. 1 \in 1 .. L
    BY <1>1
  <2> QED BY <1>1, <1>3, <2>1
<1>5. ASSUME NEW i \in 1 .. L PROVE Hop(b, p, q[i], q[i + 1])
  <2>1. CASE i = L
    BY <1>1, <1>3, <2>1
  <2>2. CASE i # L
    <3>1. i \in 1 .. L - 1 /\ i + 1 \in 1 .. L
      BY <1>1, <2>2
    <3> QED BY <1>1, <1>3, <3>1
  <2> QED BY <2>1, <2>2
<1>6. ASSUME NEW i \in 1 .. L + 1, NEW j \in 1 .. L + 1, q[i] = q[j]
      PROVE  i = j
  <2>1. /\ i \in 1 .. L \/ i = L + 1
        /\ j \in 1 .. L \/ j = L + 1
    BY <1>1
  <2> HIDE DEF L
  <2>2. CASE i \in 1 .. L /\ j \in 1 .. L
    BY <1>1, <1>3, <1>6, <2>2
  <2>3. CASE i = L + 1 /\ j = L + 1
    BY <2>3
  <2>4. CASE i = L + 1 /\ j \in 1 .. L
    BY <1>3, <1>6, <2>4 DEF L
  <2>5. CASE i \in 1 .. L /\ j = L + 1
    BY <1>3, <1>6, <2>5 DEF L
  <2> QED BY <2>1, <2>2, <2>3, <2>4, <2>5
<1>7. Last(q) = t
  BY <1>3 DEF Last
<1>8. (L + 1) - 1 = L /\ L + 1 >= 1
  BY <1>1
<1>9. Path(b, p, q)
  BY <1>3, <1>4, <1>5, <1>6, <1>8 DEF Path
<1> QED BY <1>3, <1>7, <1>9 DEF q

(* The squares reached: the piece's own, and with one all it can hop to.   *)
LEMMA ReachedCloses ==
    ASSUME NEW b, NEW p, p.at \in Squares
    PROVE  /\ Reached(b, p, p.at)
           /\ \A s, t : Reached(b, p, s) /\ Hop(b, p, s, t) => Reached(b, p, t)
<1>1. Reached(b, p, p.at)
  <2> DEFINE r == <<p.at>>
  <2>1. r \in Seq(Squares) /\ Len(r) = 1 /\ r[1] = p.at
    OBVIOUS
  <2> HIDE DEF r
  <2>2. 1 .. 1 - 1 = {} /\ \A i, j \in 1 .. 1 : i = j
    OBVIOUS
  <2>3. Path(b, p, r)
    BY <2>1, <2>2 DEF Path
  <2> QED BY <2>1, <2>3 DEF Reached, Last
<1>2. ASSUME NEW s, NEW t, Reached(b, p, s), Hop(b, p, s, t)
      PROVE  Reached(b, p, t)
  <2>1. PICK r : Path(b, p, r) /\ Last(r) = s
    BY <1>2 DEF Reached
  <2>2. CASE \E i \in 1 .. Len(r) : r[i] = t
    BY <2>1, <2>2, PathPrefix DEF Reached
  <2>3. CASE \A i \in 1 .. Len(r) : r[i] # t
    BY <1>2, <2>1, <2>3, PathAppend DEF Reached
  <2> QED BY <2>2, <2>3
<1> QED BY <1>1, <1>2

(* Nothing else is reached.                                                *)
LEMMA ReachedLeast ==
    ASSUME NEW b, NEW p, NEW C, p.at \in C,
           \A s \in C : \A t : Hop(b, p, s, t) => t \in C,
           NEW s, Reached(b, p, s)
    PROVE  s \in C
<1>1. PICK r : Path(b, p, r) /\ Last(r) = s
  BY DEF Reached
<1> DEFINE L == Len(r)
           Out == {i \in 1 .. L : r[i] \notin C}
<1>2. /\ L \in Nat /\ L >= 1 /\ r[1] = p.at /\ s = r[L]
      /\ \A i \in 1 .. L - 1 : Hop(b, p, r[i], r[i + 1])
  BY <1>1 DEF Path, Last
<1> HIDE DEF L
<1>3. ASSUME Out # {} PROVE FALSE
  <2>1. PICK i \in Out : \A j \in Out : i <= j
    <3>1. Out \subseteq Nat
      BY <1>2
    <3> HIDE DEF Out
    <3> QED BY <1>3, <3>1, LeastElement
  <2>2. i \in 1 .. L /\ r[i] \notin C /\ i # 1
    BY <1>2
  <2>3. i - 1 \in 1 .. L - 1 /\ i - 1 \in 1 .. L /\ (i - 1) + 1 = i /\ ~(i <= i - 1)
    BY <1>2, <2>2
  <2>4. r[i - 1] \in C
    BY <2>1, <2>3
  <2> QED BY <1>2, <2>2, <2>3, <2>4
<1>4. L \in 1 .. L
  BY <1>2
<1> QED BY <1>2, <1>3, <1>4

(* A hop goes from a dark square to a dark one.                            *)
LEMMA HopStaysDark ==
    ASSUME NEW b, NEW p, NEW s \in DarkSquares, NEW t, Hop(b, p, s, t)
    PROVE  t \in DarkSquares
<1>1. s \in Squares /\ t \in Squares
  BY DEF Hop
<1>2. /\ t[1] - s[1] \in {-2, 2} /\ t[2] - s[2] \in {-2, 2}
      /\ s[1] \in Int /\ s[2] \in Int /\ t[1] \in Int /\ t[2] \in Int
  BY HopFacts
<1>3. \A x, y \in Int : y - x \in {-2, 2} => y % 2 = x % 2
  OBVIOUS
<1>4. s[1] % 2 = s[2] % 2
  BY DEF DarkSquares, isCheckerboardSpace
<1> QED BY <1>1, <1>2, <1>3, <1>4 DEF DarkSquares, isCheckerboardSpace

(* So a piece on a dark square reaches dark squares only.                  *)
LEMMA ReachedDark ==
    ASSUME NEW b, NEW p, p.at \in DarkSquares, NEW s, Reached(b, p, s)
    PROVE  s \in DarkSquares
BY HopStaysDark, ReachedLeast

(* A jump ends on a square reached, other than the first, and on every     *)
(* one.                                                                    *)
LEMMA JumpsReach ==
    ASSUME NEW b, NEW p, p.at \in Squares
    PROVE  {Last(r) : r \in getAllPossibleJumps(b, p)}
              = {s \in Squares : Reached(b, p, s)} \ {p.at}
<1>1. ASSUME NEW r, Path(b, p, r)
      PROVE  Last(r) \in Squares /\ (Len(r) > 1 <=> Last(r) # p.at)
  <2>1. /\ r \in Seq(Squares) /\ Len(r) \in Nat /\ Len(r) >= 1 /\ r[1] = p.at
        /\ Last(r) = r[Len(r)]
        /\ \A i, j \in 1 .. Len(r) : r[i] = r[j] => i = j
    BY <1>1 DEF Path, Last
  <2>2. 1 \in 1 .. Len(r) /\ Len(r) \in 1 .. Len(r) /\ (Len(r) > 1 <=> Len(r) # 1)
    <3> DEFINE L == Len(r)
    <3>1. L \in Nat /\ L >= 1
      BY <2>1
    <3> HIDE DEF L
    <3>2. 1 \in 1 .. L /\ L \in 1 .. L /\ (L > 1 <=> L # 1)
      BY <3>1
    <3> QED BY <3>2 DEF L
  <2> QED BY <2>1, <2>2
<1>2. ASSUME NEW r \in getAllPossibleJumps(b, p)
      PROVE  Last(r) \in {s \in Squares : Reached(b, p, s)} \ {p.at}
  <2>1. Path(b, p, r) /\ Len(r) > 1
    BY <1>2, JumpsArePaths
  <2> QED BY <1>1, <2>1 DEF Reached
<1>3. ASSUME NEW s \in Squares, Reached(b, p, s), s # p.at
      PROVE  \E r \in getAllPossibleJumps(b, p) : Last(r) = s
  <2>1. PICK r : Path(b, p, r) /\ Last(r) = s
    BY <1>3 DEF Reached
  <2>2. r \in getAllPossibleJumps(b, p)
    BY <1>1, <1>3, <2>1, JumpsArePaths
  <2> QED BY <2>1, <2>2
<1> QED BY <1>2, <1>3

(* On a circuit the piece can reach, the recursion runs away.              *)
LEMMA CircuitRuns ==
    ASSUME NEW b, NEW p, p.at \in Squares, NEW S, S # {},
           \A s \in S : Reached(b, p, s),
           \A s \in S : \E t, u \in S : t # u /\ Hop(b, p, s, t) /\ Hop(b, p, s, u)
    PROVE  Diverges(b, p)
<1> DEFINE Into == {r \in Seq(Squares) : Path(b, p, r) /\ Last(r) \in S}
           Spare(r) == Cardinality(Squares) - Len(r)
           N == {Spare(r) : r \in Into}
<1>1. ASSUME NEW r \in Into
      PROVE  /\ Spare(r) \in Nat /\ Len(r) \in Nat /\ Len(r) >= 1
             /\ Cardinality(Squares) \in Nat
  <2>1. /\ r \in Seq(Squares) /\ Len(r) >= 1
        /\ \A i, j \in 1 .. Len(r) : r[i] = r[j] => i = j
    BY DEF Path
  <2>2. Len(r) <= Cardinality(Squares)
    BY <2>1, FreshIsShort
  <2> QED BY <2>1, <2>2, SquaresFinite
<1>2. Into # {}
  <2>1. PICK s \in S : Reached(b, p, s)
    OBVIOUS
  <2>2. PICK r : Path(b, p, r) /\ Last(r) = s
    BY <2>1 DEF Reached
  <2>3. r \in Into
    BY <2>2 DEF Path
  <2> QED BY <2>3
<1>3. PICK r \in Into : \A q \in Into : Spare(r) <= Spare(q)
  <2>1. N \subseteq Nat /\ N # {}
    BY <1>1, <1>2
  <2>2. PICK n \in N : \A k \in N : n <= k
    <3> HIDE DEF N
    <3> QED BY <2>1, LeastElement
  <2>3. PICK r \in Into : n = Spare(r)
    OBVIOUS
  <2> QED BY <2>2, <2>3
<1>4. Path(b, p, r) /\ Last(r) \in S
  OBVIOUS
<1>5. PICK t \in S : Hop(b, p, Last(r), t) /\ (Len(r) > 1 => t # r[Len(r) - 1])
  <2>1. PICK t, u \in S : t # u /\ Hop(b, p, Last(r), t) /\ Hop(b, p, Last(r), u)
    BY <1>4
  <2>2. CASE t # r[Len(r) - 1]
    BY <2>1, <2>2
  <2>3. CASE u # r[Len(r) - 1]
    BY <2>1, <2>3
  <2> QED BY <2>1, <2>2, <2>3
<1>6. CASE \E i \in 1 .. Len(r) : r[i] = t
  BY <1>4, <1>5, <1>6, RunsAway
<1>7. CASE \A i \in 1 .. Len(r) : r[i] # t
  <2> DEFINE q == Append(r, t)
  <2>1. Path(b, p, q) /\ Last(q) = t /\ Len(q) = Len(r) + 1
    BY <1>4, <1>5, <1>7, PathAppend
  <2> HIDE DEF q
  <2>2. q \in Into
    BY <2>1 DEF Path
  <2>3. Spare(r) <= Spare(q)
    BY <1>3, <2>2
  <2> QED BY <1>1, <2>1, <2>2, <2>3
<1> QED BY <1>6, <1>7

(* A set of squares and all that one hop from it adds.                     *)
Onwards(b, p, S) == S \cup {t \in DarkSquares : \E s \in S : Hop(b, p, s, t)}

(* The recursion of Landings, as a condition on a function that solves it. *)
Spreads(b, p, g) ==
    g = [S \in SUBSET DarkSquares |->
            IF Onwards(b, p, S) = S THEN S ELSE g[Onwards(b, p, S)]]

(* No hop leads out of C.                                                  *)
Closed(b, p, C) ==
    /\ C \subseteq DarkSquares
    /\ \A s \in C : \A t \in DarkSquares : Hop(b, p, s, t) => t \in C

(* What every closed set around S has.                                     *)
Closure(b, p, S) ==
    {t \in DarkSquares : \A C \in SUBSET DarkSquares :
                            S \subseteq C /\ Closed(b, p, C) => t \in C}

(* One step of the recursion leaves the closure as it is.                  *)
LEMMA ClosureStep ==
    ASSUME NEW b, NEW p, NEW S \in SUBSET DarkSquares
    PROVE  /\ Onwards(b, p, S) \in SUBSET DarkSquares
           /\ Closure(b, p, S) =
                 IF Onwards(b, p, S) = S THEN S ELSE Closure(b, p, Onwards(b, p, S))
<1> DEFINE T == Onwards(b, p, S)
<1>1. T \in SUBSET DarkSquares
  BY DEF Onwards
<1>2. ASSUME T = S PROVE Closure(b, p, S) = S
  <2>1. Closed(b, p, S)
    BY <1>2 DEF Onwards, Closed
  <2> QED BY <2>1 DEF Closure
<1>3. ASSUME NEW C \in SUBSET DarkSquares, Closed(b, p, C)
      PROVE  S \subseteq C <=> T \subseteq C
  BY <1>3 DEF Closed, Onwards
<1>4. Closure(b, p, T) = Closure(b, p, S)
  <2> HIDE DEF T
  <2> QED BY <1>3 DEF Closure
<1> QED BY <1>1, <1>2, <1>4

(* So the closure solves the recursion, which has a solution.              *)
LEMMA ClosureSpreads ==
    ASSUME NEW b, NEW p
    PROVE  Spreads(b, p, [S \in SUBSET DarkSquares |-> Closure(b, p, S)])
<1> DEFINE h == [S \in SUBSET DarkSquares |-> Closure(b, p, S)]
           step(S) == IF Onwards(b, p, S) = S THEN S ELSE h[Onwards(b, p, S)]
<1>1. ASSUME NEW S \in SUBSET DarkSquares PROVE h[S] = step(S)
  BY ClosureStep
<1>2. h = [S \in SUBSET DarkSquares |-> step(S)]
  <2>1. h = [S \in SUBSET DarkSquares |-> h[S]]
    OBVIOUS
  <2> HIDE DEF h
  <2> QED BY <1>1, <2>1
<1> QED BY <1>2 DEF Spreads

(* The dark squares are finitely many.                                     *)
LEMMA DarkFinite == IsFiniteSet(DarkSquares)
BY SquaresFinite, FS_Subset DEF DarkSquares

(* Whatever solves the recursion is the closure: a smallest set of squares *)
(* left out would have a smaller one after it.                             *)
LEMMA SpreadsAreClosure ==
    ASSUME NEW b, NEW p, NEW g, Spreads(b, p, g), NEW S0 \in SUBSET DarkSquares
    PROVE  g[S0] = Closure(b, p, S0)
<1> DEFINE Left(S) == Cardinality(DarkSquares \ S)
           Wrong == {S \in SUBSET DarkSquares : g[S] # Closure(b, p, S)}
           N == {Left(S) : S \in Wrong}
<1>1. ASSUME NEW S \in SUBSET DarkSquares
      PROVE  IsFiniteSet(DarkSquares \ S) /\ Left(S) \in Nat
  BY DarkFinite, FS_Difference, FS_CardinalityType
<1>2. ASSUME Wrong # {} PROVE FALSE
  <2>1. PICK S \in Wrong : \A R \in Wrong : Left(S) <= Left(R)
    <3>1. N \subseteq Nat /\ N # {}
      BY <1>1, <1>2
    <3>2. PICK n \in N : \A k \in N : n <= k
      <4> HIDE DEF N
      <4> QED BY <3>1, LeastElement
    <3>3. PICK S \in Wrong : n = Left(S)
      OBVIOUS
    <3> QED BY <3>2, <3>3
  <2> DEFINE T == Onwards(b, p, S)
  <2>2. S \in SUBSET DarkSquares /\ g[S] # Closure(b, p, S)
    OBVIOUS
  <2>3. g[S] = IF T = S THEN S ELSE g[T]
    BY <2>2 DEF Spreads
  <2>4. T \in SUBSET DarkSquares /\ S \subseteq T /\ T # S /\ g[T] # Closure(b, p, T)
    BY <2>2, <2>3, ClosureStep DEF Onwards
  <2>5. T \in Wrong
    BY <2>4
  <2>6. DarkSquares \ T \subseteq DarkSquares \ S /\ DarkSquares \ T # DarkSquares \ S
    BY <2>2, <2>4
  <2> HIDE DEF T
  <2>7. Left(T) <= Left(S) /\ Left(T) # Left(S)
    BY <1>1, <2>2, <2>6, FS_Subset
  <2>8. Left(S) <= Left(T)
    BY <2>1, <2>5
  <2>9. Left(S) \in Nat /\ Left(T) \in Nat
    BY <1>1, <2>2, <2>4
  <2> HIDE DEF Left
  <2> QED BY <2>7, <2>8, <2>9
<1> QED BY <1>2

(* The closure of the piece's own square is what its paths reach.          *)
LEMMA ClosureReached ==
    ASSUME NEW b, NEW p, p.at \in DarkSquares
    PROVE  Closure(b, p, {p.at}) = {s \in Squares : Reached(b, p, s)}
<1> DEFINE R == {s \in Squares : Reached(b, p, s)}
<1>0. p.at \in Squares
  BY DEF DarkSquares
<1>1. R \subseteq DarkSquares
  BY ReachedDark
<1>2. p.at \in R /\ Closed(b, p, R)
  <2>1. p.at \in R
    BY <1>0, ReachedCloses
  <2>2. ASSUME NEW s \in R, NEW t \in DarkSquares, Hop(b, p, s, t) PROVE t \in R
    BY <1>0, <2>2, ReachedCloses DEF DarkSquares
  <2> HIDE DEF R
  <2> QED BY <1>1, <2>1, <2>2 DEF Closed
<1>3. ASSUME NEW C \in SUBSET DarkSquares, p.at \in C, Closed(b, p, C), NEW s \in R
      PROVE  s \in C
  <2>1. ASSUME NEW u \in C, NEW t, Hop(b, p, u, t) PROVE t \in C
    <3>1. t \in DarkSquares
      BY <1>3, <2>1, HopStaysDark
    <3> QED BY <1>3, <2>1, <3>1 DEF Closed
  <2> QED BY <1>3, <2>1, ReachedLeast
<1> QED BY <1>1, <1>2, <1>3 DEF Closure

(* So the recursion of Landings finds the squares that paths reach.        *)
LEMMA SpreadReaches ==
    ASSUME NEW b, NEW p, p.at \in DarkSquares
    PROVE  (CHOOSE g : Spreads(b, p, g))[{p.at}] = {s \in Squares : Reached(b, p, s)}
<1> DEFINE G == CHOOSE g : Spreads(b, p, g)
<1>1. Spreads(b, p, G)
  <2>1. \E g : Spreads(b, p, g)
    BY ClosureSpreads
  <2> QED BY <2>1
<1> HIDE DEF G
<1>2. G[{p.at}] = Closure(b, p, {p.at})
  BY <1>1, SpreadsAreClosure
<1>3. G[{p.at}] = {s \in Squares : Reached(b, p, s)}
  BY <1>2, ClosureReached
<1> QED BY <1>3 DEF G

(* The piece in question stands on a dark square of a well-formed board.   *)
RulesInv == InPlace(anyBoard, anyPiece) /\ anyPiece.at \in DarkSquares

(* It does so at first.                                                    *)
LEMMA RulesInvInit == RulesInit => RulesInv
<1> SUFFICES ASSUME RulesInit PROVE RulesInv
  OBVIOUS
<1>1. anyPiece \in Piece /\ anyPiece.at \in DarkSquares /\ anyPiece.at \in Squares
  BY DEF RulesInit, DarkSquares
<1>2. anyBoard = [sq \in Squares |-> IF sq = anyPiece.at THEN anyPiece ELSE None]
  BY DEF RulesInit
<1>3. anyBoard[anyPiece.at] = anyPiece /\ anyBoard \in Board
  BY <1>1, <1>2 DEF Board
<1> QED BY <1>1, <1>3 DEF RulesInv, InPlace

(* One more enemy on a free square changes neither.                        *)
LEMMA RulesInvNext == RulesInv /\ [RulesNext]_rulesVars => RulesInv'
<1> SUFFICES ASSUME RulesInv, [RulesNext]_rulesVars PROVE RulesInv'
  OBVIOUS
<1>1. ASSUME NEW sq \in DarkSquares, PutEnemy(sq) PROVE RulesInv'
  <2>1. sq \in Squares
    BY DEF DarkSquares
  <2>2. /\ anyBoard[sq] = None /\ anyPiece' = anyPiece
        /\ anyBoard' = [anyBoard EXCEPT ![sq] = NewMan(sq, ~anyPiece.isWhite)]
    BY <1>1 DEF PutEnemy
  <2>3. anyBoard \in Board /\ anyPiece \in Piece /\ anyBoard[anyPiece.at] = anyPiece
    BY DEF RulesInv, InPlace
  <2>4. anyPiece.at # sq /\ anyPiece.at \in Squares
    BY <2>2, <2>3, PieceFields
  <2>5. NewMan(sq, ~anyPiece.isWhite) \in Piece /\ NewMan(sq, ~anyPiece.isWhite).at = sq
    BY <2>1 DEF NewMan, Piece
  <2>6. anyBoard' \in Board
    BY <2>1, <2>2, <2>3, <2>5 DEF Board
  <2>7. anyBoard'[anyPiece.at] = anyPiece
    BY <2>1, <2>2, <2>3, <2>4 DEF Board
  <2> QED BY <2>2, <2>3, <2>6, <2>7 DEF RulesInv, InPlace
<1>2. CASE UNCHANGED rulesVars
  BY <1>2 DEF rulesVars, RulesInv
<1> QED BY <1>1, <1>2 DEF RulesNext

(* The hop that MCRules reads off the rules of the game is the one the     *)
(* generator makes.                                                        *)
LEMMA SameHop ==
    ASSUME InPlace(anyBoard, anyPiece), NEW s \in DarkSquares, NEW t \in DarkSquares
    PROVE  HopByRules(s, t) <=> Hop(anyBoard, anyPiece, s, t)
<1> DEFINE b == anyBoard
           p == anyPiece
<1>1. /\ s \in Squares /\ t \in Squares
      /\ s[1] \in Int /\ s[2] \in Int /\ t[1] \in Int /\ t[2] \in Int
      /\ s = <<s[1], s[2]>> /\ t = <<t[1], t[2]>>
  <2>1. s \in Squares /\ t \in Squares
    BY DEF DarkSquares
  <2> QED BY <2>1, SquareFields, BoardAssumption
<1>2. p \in Piece /\ b \in Board /\ p.isWhite \in BOOLEAN
  BY PieceFields DEF InPlace
<1>3. Enemies = Occupied(b, ~p.isWhite)
  BY DEF Enemies
<1>4. ASSUME Hop(b, p, s, t) PROVE HopByRules(s, t)
  <2>1. PICK d \in Directions(p) : t = Shift(s, d, 2)
    BY <1>4 DEF Hop
  <2>2. d[1] \in {-1, 1} /\ d[2] \in {-1, 1}
    BY DirectionsType
  <2>3. t[1] = s[1] + 2 * d[1] /\ t[2] = s[2] + 2 * d[2]
    BY <2>1 DEF Shift
  <2>4. t[1] - s[1] = 2 * d[1] /\ t[2] - s[2] = 2 * d[2]
    BY <1>1, <2>2, <2>3
  <2> DEFINE e == <<s[1] + d[1], s[2] + d[2]>>
  <2>5. e \in Occupied(b, ~p.isWhite)
    BY <1>2, <1>4, <2>2, <2>4, EnemyBetween
  <2>6. /\ e[1] - s[1] \in {-1, 1} /\ t[1] = 2 * e[1] - s[1]
        /\ e[2] - s[2] \in {-1, 1} /\ t[2] = 2 * e[2] - s[2]
    BY <1>1, <2>2, <2>3
  <2> HIDE DEF e
  <2>7. b[t] = None
    BY <1>4 DEF Hop
  <2>8. ASSUME ~p.isKing PROVE IF p.isWhite THEN t[2] > s[2] ELSE t[2] < s[2]
    <3>1. t[2] - s[2] = 2 * Forward(p)
      BY <1>4, <2>8, HopFacts
    <3>2. CASE p.isWhite
      BY <1>1, <3>1, <3>2 DEF Forward
    <3>3. CASE ~p.isWhite
      BY <1>1, <3>1, <3>3 DEF Forward
    <3> QED BY <3>2, <3>3
  <2> QED BY <1>3, <2>5, <2>6, <2>7, <2>8 DEF HopByRules
<1>5. ASSUME HopByRules(s, t) PROVE Hop(b, p, s, t)
  <2>1. PICK e \in Occupied(b, ~p.isWhite) :
          /\ e[1] - s[1] \in {-1, 1} /\ t[1] = 2 * e[1] - s[1]
          /\ e[2] - s[2] \in {-1, 1} /\ t[2] = 2 * e[2] - s[2]
    BY <1>3, <1>5 DEF HopByRules
  <2>2. /\ b[t] = None
        /\ p.isKing \/ (IF p.isWhite THEN t[2] > s[2] ELSE t[2] < s[2])
    BY <1>5 DEF HopByRules
  <2>3. e \in Squares /\ b[e] # None /\ b[e].isWhite = ~p.isWhite
    BY DEF Occupied
  <2>4. e[1] \in Int /\ e[2] \in Int /\ e = <<e[1], e[2]>>
    BY <2>3, SquareFields, BoardAssumption
  <2> DEFINE d == <<e[1] - s[1], e[2] - s[2]>>
  <2>5. t = Shift(s, d, 2)
    <3>1. t[1] = s[1] + 2 * (e[1] - s[1]) /\ t[2] = s[2] + 2 * (e[2] - s[2])
      BY <1>1, <2>1, <2>4
    <3>2. <<t[1], t[2]>> = <<s[1] + 2 * (e[1] - s[1]), s[2] + 2 * (e[2] - s[2])>>
      BY <3>1
    <3> QED BY <1>1, <3>2 DEF Shift
  <2>6. d \in Directions(p)
    <3>1. CASE p.isKing
      BY <2>1, <3>1 DEF Directions
    <3>2. CASE ~p.isKing
      <4>1. e[2] - s[2] = Forward(p)
        <5>1. CASE p.isWhite
          BY <1>1, <2>1, <2>2, <2>4, <3>2, <5>1 DEF Forward
        <5>2. CASE ~p.isWhite
          BY <1>1, <2>1, <2>2, <2>4, <3>2, <5>2 DEF Forward
        <5> QED BY <5>1, <5>2
      <4> QED BY <2>1, <3>2, <4>1 DEF Directions
    <3> QED BY <3>1, <3>2
  <2>7. Midpoint(s, t) = e
    <3>1. (s[1] + t[1]) \div 2 = e[1] /\ (s[2] + t[2]) \div 2 = e[2]
      BY <1>1, <2>1, <2>4
    <3>2. <<(s[1] + t[1]) \div 2, (s[2] + t[2]) \div 2>> = <<e[1], e[2]>>
      BY <3>1
    <3> QED BY <2>4, <3>2 DEF Midpoint
  <2> HIDE DEF d
  <2>8. b[Midpoint(s, t)] # None /\ b[Midpoint(s, t)].isWhite # p.isWhite
    BY <1>2, <2>3, <2>7
  <2> QED BY <1>1, <2>2, <2>5, <2>6, <2>8 DEF Hop
<1> QED BY <1>4, <1>5

(* The landing squares of MCRules are those that paths reach.              *)
LEMMA LandingsReached ==
    ASSUME RulesInv
    PROVE  Landings = {s \in Squares : Reached(anyBoard, anyPiece, s)} \ {anyPiece.at}
<1> DEFINE b == anyBoard
           p == anyPiece
           Step(g, S) == LET T == S \cup {t \in DarkSquares : \E s \in S : HopByRules(s, t)}
                         IN  IF T = S THEN S ELSE g[T]
           Spread(g) == g = [S \in SUBSET DarkSquares |-> Step(g, S)]
<1>1. Landings = (CHOOSE g : Spread(g))[{p.at}] \ {p.at}
  BY ZenonT(60) DEF Landings
<1>2. ASSUME NEW g, NEW S \in SUBSET DarkSquares
      PROVE  Step(g, S) = IF Onwards(b, p, S) = S THEN S ELSE g[Onwards(b, p, S)]
  <2>1. S \cup {t \in DarkSquares : \E s \in S : HopByRules(s, t)} = Onwards(b, p, S)
    BY SameHop DEF Onwards, RulesInv
  <2> QED BY <2>1
<1> HIDE DEF Step
<1>3. \A g : Spread(g) <=> Spreads(b, p, g)
  BY <1>2 DEF Spreads
<1>4. (CHOOSE g : Spread(g)) = (CHOOSE g : Spreads(b, p, g))
  <2> HIDE DEF Spread
  <2> QED BY <1>3
<1>5. p.at \in DarkSquares
  BY DEF RulesInv
<1> HIDE DEF Spread, b, p
<1> QED BY <1>1, <1>4, <1>5, SpreadReaches DEF b, p

(* On every position of MCRules.                                           *)
LEMMA RulesInvariant == RulesSpec => []RulesInv
BY RulesInvInit, RulesInvNext, PTL DEF RulesSpec

(* getAllPossibleJumps offers exactly the squares that chains of hops lead *)
(* to.                                                                     *)
THEOREM LandingsFound == RulesSpec => []JumpsReachEveryLanding
<1>1. RulesInv => JumpsReachEveryLanding
  <2> SUFFICES ASSUME RulesInv PROVE JumpsReachEveryLanding
    OBVIOUS
  <2>1. anyPiece.at \in Squares
    BY DEF RulesInv, DarkSquares
  <2>2. {Last(r) : r \in getAllPossibleJumps(anyBoard, anyPiece)} = Landings
    BY <2>1, JumpsReach, LandingsReached
  <2> QED BY <2>2 DEF JumpsReachEveryLanding
<1> QED BY <1>1, RulesInvariant, PTL

(* A finite set of two elements or more has two different ones.            *)
LEMMA TwoOrMore ==
    ASSUME NEW S, IsFiniteSet(S)
    PROVE  Cardinality(S) >= 2 <=> \E t, u \in S : t # u
<1> DEFINE n == Cardinality(S)
<1>1. n \in Nat
  BY FS_CardinalityType
<1>2. (n = 0 <=> S = {}) /\ (n = 1 <=> \E x : S = {x})
  BY FS_EmptySet, FS_Singleton
<1>3. (S = {} \/ \E x : S = {x}) <=> ~\E t, u \in S : t # u
  <2>1. ASSUME S # {}, ~\E t, u \in S : t # u PROVE \E x : S = {x}
    <3>1. PICK x \in S : TRUE
      BY <2>1
    <3>2. S = {x}
      BY <2>1, <3>1
    <3> QED BY <3>2
  <2>2. ASSUME NEW x, S = {x} PROVE ~\E t, u \in S : t # u
    BY <2>2
  <2> QED BY <2>1, <2>2
<1> HIDE DEF n
<1>4. n >= 2 <=> ~(n = 0 \/ n = 1)
  BY <1>1
<1>5. n >= 2 <=> \E t, u \in S : t # u
  BY <1>2, <1>3, <1>4
<1> QED BY <1>5 DEF n

(* The recursion runs away exactly where a king can land on a circuit.     *)
THEOREM RunawayCircuit == RulesSpec => []DivergesOnCircuit
<1>1. RulesInv => DivergesOnCircuit
  <2> SUFFICES ASSUME RulesInv PROVE DivergesOnCircuit
    OBVIOUS
  <2> DEFINE b == anyBoard
             p == anyPiece
             L == Landings
  <2>1. /\ InPlace(b, p) /\ p.at \in DarkSquares /\ p.at \in Squares
        /\ b[p.at] # None
    BY PieceFields DEF RulesInv, DarkSquares, InPlace
  <2>2. L = {s \in Squares : Reached(b, p, s)} \ {p.at} /\ L \subseteq DarkSquares
    BY <2>1, LandingsReached, ReachedDark DEF RulesInv
  <2>3. ASSUME NEW S \in SUBSET L, NEW s \in S
        PROVE  Cardinality({t \in S : HopByRules(s, t)}) >= 2 <=>
                  \E t, u \in S : t # u /\ Hop(b, p, s, t) /\ Hop(b, p, s, u)
    <3> DEFINE T == {t \in S : HopByRules(s, t)}
    <3>1. T = {t \in S : Hop(b, p, s, t)}
      BY <2>1, <2>2, SameHop
    <3>2. IsFiniteSet(T)
      <4>1. T \subseteq Squares
        BY <2>2
      <4> QED BY <4>1, SquaresFinite, FS_Subset
    <3>3. Cardinality(T) >= 2 <=> \E t, u \in T : t # u
      <4> HIDE DEF T
      <4> QED BY <3>2, TwoOrMore
    <3> HIDE DEF b, p, L
    <3> QED BY <3>1, <3>3
  <2> DEFINE Circuit(S) == \A s \in S : Cardinality({t \in S : HopByRules(s, t)}) >= 2
  <2>4. ASSUME Diverges(b, p)
        PROVE  p.isKing /\ \E S \in (SUBSET L) \ {{}} : Circuit(S)
    <3>1. p.isKing
      BY <2>1, <2>4, CircuitOfRun
    <3>2. PICK S : IsCircuit(b, p, S) /\ \A s \in S : Reached(b, p, s)
      BY <2>1, <2>4, CircuitOfRun
    <3>3. S # {} /\ S \in SUBSET L
      BY <2>1, <2>2, <3>2 DEF IsCircuit
    <3>4. Circuit(S)
      BY <2>3, <3>2, <3>3 DEF IsCircuit
    <3>5. S \in (SUBSET L) \ {{}}
      BY <3>3
    <3> HIDE DEF Circuit, L, p
    <3> QED BY <3>1, <3>4, <3>5
  <2>5. ASSUME NEW S \in (SUBSET L) \ {{}}, Circuit(S) PROVE Diverges(b, p)
    <3>1. S # {} /\ S \subseteq L
      OBVIOUS
    <3>2. \A s \in S : \E t, u \in S : t # u /\ Hop(b, p, s, t) /\ Hop(b, p, s, u)
      BY <2>3, <2>5
    <3> HIDE DEF L
    <3>3. \A s \in S : Reached(b, p, s)
      BY <2>2, <3>1
    <3> QED BY <2>1, <3>1, <3>2, <3>3, CircuitRuns
  <2>6. Diverges(b, p) <=> p.isKing /\ \E S \in (SUBSET L) \ {{}} : Circuit(S)
    <3> HIDE DEF L, Circuit, b, p
    <3> QED BY <2>4, <2>5
  <2> QED BY <2>6 DEF DivergesOnCircuit
<1> QED BY <1>1, RulesInvariant, PTL

(* Each end square of a move list singles out one move of it.              *)
THEOREM OneFirst == RulesSpec => []OneFirstMove
<1>1. RulesInv => OneFirstMove
  <2> SUFFICES ASSUME RulesInv PROVE OneFirstMove
    OBVIOUS
  <2> DEFINE b == anyBoard
             p == anyPiece
             moves == getAllPossibleMoves(b, p)
  <2>1. ASSUME NEW m \in moves
        PROVE  Cardinality(FirstTo(p, moves, Last(m))) = 1
    <3>1. PICK k \in moves : \A n : n \in FirstTo(p, moves, Last(m)) <=> n = k
      BY OneComesFirst DEF RulesInv
    <3>2. FirstTo(p, moves, Last(m)) = {k}
      BY <3>1
    <3> QED BY <3>2, FS_Singleton
  <2> QED BY <2>1 DEF OneFirstMove
<1> QED BY <1>1, RulesInvariant, PTL
=============================================================================
