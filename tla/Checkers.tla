------------------------------ MODULE Checkers ------------------------------
(***************************************************************************)
(* The rules of the game as server/GameLogic computes them: the board, the *)
(* moves a piece may make, the pieces a move captures, and the board after *)
(* a move.  A square is <<x, y>>.  A board maps every square to the piece  *)
(* in its slot or to None; a piece carries, as class Piece does, its own   *)
(* copy of its coordinates.  A move is the sequence of squares the piece   *)
(* stands on, from its own square to the last landing square: what the     *)
(* code reaches by following precedingMove pointers.                       *)
(***************************************************************************)
EXTENDS Integers, SequencesExt

CONSTANTS
    Size,   \* Board::SIZE
    Rows,   \* rows of men each side starts with: the literal 3 of Board::Board
    None    \* nullptr in a slot of the board

(* Both armies have men and they fit on the board.                         *)
ASSUME BoardAssumption == /\ Size \in Nat
                          /\ Rows \in Nat \ {0}
                          /\ 2 * Rows <= Size

Squares == (0 .. Size - 1) \X (0 .. Size - 1)

Piece == [isWhite : BOOLEAN, isKing : BOOLEAN, at : Squares]

(* None is a null pointer, never a piece.                                  *)
ASSUME NoneAssumption == None \notin Piece

(* The slot a piece is stored in and the coordinates it believes it has    *)
(* agree: applyMoveToBoard clears slots by the pieces' own coordinates.    *)
Board == {b \in [Squares -> Piece \cup {None}] :
            \A sq \in Squares : b[sq] # None => b[sq].at = sq}

Occupied(b, white) ==
    {sq \in Squares : b[sq] # None /\ b[sq].isWhite = white}

isCheckerboardSpace(sq) == sq[1] % 2 = sq[2] % 2

NewMan(sq, white) == [isWhite |-> white, isKing |-> FALSE, at |-> sq]

InitialBoard ==
    [sq \in Squares |->
        IF ~isCheckerboardSpace(sq)  THEN None
        ELSE IF sq[2] < Rows         THEN NewMan(sq, TRUE)
        ELSE IF sq[2] >= Size - Rows THEN NewMan(sq, FALSE)
        ELSE None]

-----------------------------------------------------------------------------
(* Moves.                                                                  *)

Forward(p) == IF p.isWhite THEN 1 ELSE -1

(* Mutated form of Directions: rowsToCheck stays 1 for a king.             *)
ForwardOnly(p) == {-1, 1} \X {Forward(p)}

(* The diagonal directions a piece may take: a man only forward.           *)
Directions(p) ==
    {-1, 1} \X (IF p.isKing THEN {-1, 1} ELSE {Forward(p)})

Shift(sq, d, n) == <<sq[1] + n * d[1], sq[2] + n * d[2]>>

Midpoint(s, t) == <<(s[1] + t[1]) \div 2, (s[2] + t[2]) \div 2>>

PlainMoves(b, p) ==
    {<<p.at, Shift(p.at, d, 1)>> : d \in
        {d \in Directions(p) : /\ Shift(p.at, d, 1) \in Squares
                               /\ b[Shift(p.at, d, 1)] = None}}

(* Mutated form of CanJump: the square the piece came from is not refused. *)
CanJumpBack(b, p, r, sq) ==
    /\ sq \in Squares
    /\ b[Midpoint(Last(r), sq)] # None
    /\ b[Midpoint(Last(r), sq)].isWhite # p.isWhite
    /\ b[sq] = None

(* Mutated form of CanJump: the colour of the piece between is not tested. *)
CanJumpOverAnything(b, p, r, sq) ==
    /\ sq \in Squares
    /\ Len(r) > 1 => sq # r[Len(r) - 1]
    /\ b[Midpoint(Last(r), sq)] # None
    /\ b[sq] = None

(* One jump of the imaginary piece standing at the end of route r.  Only   *)
(* the square it has just come from is refused; the board is the one the   *)
(* whole move starts from, so a piece already jumped is still there.       *)
CanJump(b, p, r, sq) ==
    /\ sq \in Squares
    /\ Len(r) > 1 => sq # r[Len(r) - 1]
    /\ b[Midpoint(Last(r), sq)] # None
    /\ b[Midpoint(Last(r), sq)].isWhite # p.isWhite
    /\ b[sq] = None

Jumps(b, p, r) ==
    {sq \in {Shift(Last(r), d, 2) : d \in Directions(p)} : CanJump(b, p, r, sq)}

(* The routes the recursion of getAllPossibleJumps visits before it meets  *)
(* a landing square for the second time.                                   *)
RoutesFrom(b, p, start) ==
    LET grow[r \in Seq(Squares)] ==
            {r} \cup UNION {grow[Append(r, sq)] : sq \in Jumps(b, p, r) \ ToSet(r)}
    IN  grow[<<start>>]

IsJumpRoute(b, p, r) ==
    /\ r \in Seq(Squares)
    /\ Len(r) > 1
    /\ r[1] = p.at
    /\ \A i \in 1 .. Len(r) - 1 : r[i + 1] \in Jumps(b, p, SubSeq(r, 1, i))

(* Every chain of jumps, and every beginning of one: the piece may stop    *)
(* anywhere on the way.  Meaningful when the recursion returns.            *)
getAllPossibleJumps(b, p) ==
    {r \in RoutesFrom(b, p, p.at) : IsJumpRoute(b, p, r)}

getAllPossibleMoves(b, p) == PlainMoves(b, p) \cup getAllPossibleJumps(b, p)

(* The recursion never returns when a chain can land again on a square it  *)
(* has landed on: from there on it repeats itself.                         *)
Diverges(b, p) ==
    \E r \in RoutesFrom(b, p, p.at) : Jumps(b, p, r) \cap ToSet(r) # {}

IsJump(move) == (move[1][1] - move[2][1]) % 2 = 0

(* Mutated form of Precedes: forward and backward are not told apart.      *)
PrecedesByColumn(p, m, n) ==
    \E i \in 2 .. Len(m) :
        /\ i <= Len(n)
        /\ SubSeq(m, 1, i - 1) = SubSeq(n, 1, i - 1)
        /\ m[i][1] < n[i][1]

(* The order of the move list: x - n before x + n, then forward before     *)
(* backward, and the continuations of a jump right after it.               *)
Precedes(p, m, n) ==
    \E i \in 2 .. Len(m) :
        /\ i <= Len(n)
        /\ SubSeq(m, 1, i - 1) = SubSeq(n, 1, i - 1)
        /\ \/ m[i][1] < n[i][1]
           \/ m[i][1] = n[i][1] /\ (m[i][2] - n[i][2]) * Forward(p) > 0

(* The moves of a list that end on sq with none before them that does: one *)
(* at most.                                                                *)
FirstTo(p, moves, sq) ==
    {m \in moves : /\ Last(m) = sq
                   /\ \A n \in moves \ {m} : Last(n) = sq => Precedes(p, m, n)}

-----------------------------------------------------------------------------
(* Effects.                                                                *)

(* Mutated form of getJumpedPieces: precedingMove is not followed.         *)
LastJumpedPiece(b, move) ==
    IF IsJump(move)
    THEN {b[Midpoint(move[Len(move) - 1], Last(move))]}
    ELSE {}

getJumpedPieces(b, move) ==
    IF IsJump(move)
    THEN {b[Midpoint(move[i], move[i + 1])] : i \in 1 .. Len(move) - 1}
    ELSE {}

(* Mutated form of checkIfShouldBeKing: the far rows are swapped.          *)
CrownOnHomeRow(p) ==
    IF p.at[2] = (IF p.isWhite THEN 0 ELSE Size - 1)
    THEN [p EXCEPT !.isKing = TRUE]
    ELSE p

checkIfShouldBeKing(p) ==
    IF p.at[2] = (IF p.isWhite THEN Size - 1 ELSE 0)
    THEN [p EXCEPT !.isKing = TRUE]
    ELSE p

(* Mutated form of applyMoveToBoard: moveTo is not called, the piece keeps *)
(* its old coordinates.                                                    *)
ApplyWithoutMoveTo(b, move, p) ==
    LET jumped == getJumpedPieces(b, move) \ {None}
    IN  [sq \in Squares |->
            IF sq = Last(move) THEN checkIfShouldBeKing(p)
            ELSE IF sq = p.at \/ \E q \in jumped : q.at = sq THEN None
            ELSE b[sq]]

applyMoveToBoard(b, move, p) ==
    LET jumped == getJumpedPieces(b, move) \ {None}
        moved  == checkIfShouldBeKing([p EXCEPT !.at = Last(move)])
    IN  [sq \in Squares |->
            IF sq = Last(move) THEN moved
            ELSE IF sq = p.at \/ \E q \in jumped : q.at = sq THEN None
            ELSE b[sq]]
=============================================================================
