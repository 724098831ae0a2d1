---------------------------- MODULE GameSession -----------------------------
(***************************************************************************)
(* One GameSession object of the server.  joinGame, makeMove and           *)
(* addClientSocket hold gameMutex from their first line to their last, so  *)
(* each call is one step here.  A call that returns false changes nothing: *)
(* it is the stuttering step.  The broadcasts a call makes on its way are  *)
(* in Connections; the win message is kept, because what it says is        *)
(* decided here.                                                           *)
(***************************************************************************)
EXTENDS Checkers, FiniteSets

CONSTANTS
    Names,      \* what a caller may give as its user name
    NoPlayer    \* "", a name too if a caller may log in with nothing after LOGIN

VARIABLES
    player1Id,      \* the creator's name
    player2Id,      \* NoPlayer until somebody joins
    gameStarted,
    boardArray,     \* gameBoard
    isPlayer1Turn,
    results,        \* the calls of incrementWins and incrementLosses, in order
    announced,      \* the win messages sent to the clients, in order
    crashed         \* the process has died of a stack overflow

vars == <<player1Id, player2Id, gameStarted, boardArray, isPlayer1Turn,
          results, announced, crashed>>

Seated == Names \cup {NoPlayer}

Result == [win : Seated, loss : Seated]

Messages == {"BLACK WINS", "WHITE WINS", ""}

(* Types and representation: every piece knows the slot it is stored in.   *)
TypeOK ==
    /\ player1Id \in Names
    /\ player2Id \in Seated
    /\ gameStarted \in BOOLEAN
    /\ boardArray \in Board
    /\ isPlayer1Turn \in BOOLEAN
    /\ results \in Seq(Result)
    /\ announced \in Seq(Messages)
    /\ crashed \in BOOLEAN

-----------------------------------------------------------------------------
Init ==
    /\ player1Id \in Names
    /\ player2Id = NoPlayer
    /\ gameStarted = FALSE
    /\ boardArray = InitialBoard
    /\ isPlayer1Turn = TRUE
    /\ results = <<>>
    /\ announced = <<>>
    /\ crashed = FALSE

joinGame(p2Id) ==
    /\ ~crashed
    /\ player2Id = NoPlayer
    /\ p2Id # player1Id
    /\ player2Id' = p2Id
    /\ gameStarted' = TRUE
    /\ UNCHANGED <<player1Id, boardArray, isPlayer1Turn, results, announced, crashed>>

(* The piece a caller may move: its turn and its colour.  Whoever is not   *)
(* player 1 plays black, and gameStarted is not looked at.                 *)
MayMove(playerId, from) ==
    /\ (playerId = player1Id) = isPlayer1Turn
    /\ from \in Occupied(boardArray, playerId = player1Id)

(* makeMove generates the moves of every piece of the caller's colour.     *)
OwnPieces == {boardArray[sq] : sq \in Occupied(boardArray, isPlayer1Turn)}

(* Mutated form of anyJumpAvailable: it looks at the other side's pieces.  *)
AnyJumpOfOther ==
    \E sq \in Occupied(boardArray, ~isPlayer1Turn) :
        \E m \in getAllPossibleMoves(boardArray, boardArray[sq]) : IsJump(m)

anyJumpAvailable ==
    \E p \in OwnPieces : \E m \in getAllPossibleMoves(boardArray, p) : IsJump(m)

(* The move of the piece that a request is taken for, if any: the first    *)
(* that ends where it should, a jump if one of its side can jump.          *)
validMove(from, to) ==
    {m \in FirstTo(boardArray[from], getAllPossibleMoves(boardArray, boardArray[from]), to) :
        anyJumpAvailable => IsJump(m)}

(* Mutated form of checkForWinner: only white's pieces are counted.        *)
CheckWhiteOnly(b) ==
    IF Occupied(b, TRUE) = {}
    THEN /\ results' = Append(results, [win |-> player2Id, loss |-> player1Id])
         /\ announced' = Append(announced, "BLACK WINS")
    ELSE UNCHANGED <<results, announced>>

(* checkForWinner on board b, with its statements where its braces put     *)
(* them: the else belongs to "if (db)", and db is never null.              *)
checkForWinner(b) ==
    IF Occupied(b, TRUE) = {} \/ Occupied(b, FALSE) = {}
    THEN /\ results' = Append(results, [win |-> player2Id, loss |-> player1Id])
         /\ announced' = Append(announced,
                IF Occupied(b, TRUE) = {} THEN "BLACK WINS" ELSE "")
    ELSE UNCHANGED <<results, announced>>

makeMove(playerId, from, to) ==
    /\ ~crashed
    /\ MayMove(playerId, from)
    /\ \A p \in OwnPieces : ~Diverges(boardArray, p)
    /\ \E move \in validMove(from, to) :
          boardArray' = applyMoveToBoard(boardArray, move, boardArray[from])
    /\ isPlayer1Turn' = ~isPlayer1Turn
    /\ checkForWinner(boardArray')
    /\ UNCHANGED <<player1Id, player2Id, gameStarted, crashed>>

(* The same call when the recursion of the move generator does not return. *)
makeMoveOverflow(playerId, from) ==
    /\ ~crashed
    /\ MayMove(playerId, from)
    /\ \E p \in OwnPieces : Diverges(boardArray, p)
    /\ crashed' = TRUE
    /\ UNCHANGED <<player1Id, player2Id, gameStarted, boardArray, isPlayer1Turn,
                   results, announced>>

(* The squares a requested move may end on without being refused for it.   *)
Destinations(from) ==
    IF boardArray[from] = None THEN {}
    ELSE {Last(m) : m \in getAllPossibleMoves(boardArray, boardArray[from])}

Next ==
    \E name \in Names :
        \/ joinGame(name)
        \/ \E from \in Squares :
              \/ \E to \in Destinations(from) : makeMove(name, from, to)
              \/ makeMoveOverflow(name, from)

Spec == Init /\ [][Next]_vars
-----------------------------------------------------------------------------
(* Properties.                                                             *)

(* Pieces stand on dark squares only, however many jumps a move chains,    *)
(* and no man stands uncrowned on the row where its kind is crowned: a     *)
(* move that ends there always ends as a king (Piece::checkIfShouldBeKing, *)
(* called by applyMoveToBoard and nowhere else).                           *)
PiecesWellPlaced ==
    \A sq \in Squares : boardArray[sq] # None =>
        /\ isCheckerboardSpace(sq)
        /\ sq[2] = (IF boardArray[sq].isWhite THEN Size - 1 ELSE 0)
              => boardArray[sq].isKing

(* A result is credited and announced exactly once, by the move that takes *)
(* the last piece of a side, and never again: nothing in makeMove asks     *)
(* whether the game is over, only that it is now the turn of the side with *)
(* nothing to move keeps checkForWinner from being reached a second time.  *)
DecidedOnce ==
    LET over == \E white \in BOOLEAN : Occupied(boardArray, white) = {}
    IN  /\ Len(results) = IF over THEN 1 ELSE 0
        /\ Len(announced) = Len(results)
        /\ over => Occupied(boardArray, isPlayer1Turn) = {}

(* The definition of "a jump is available" a player would give: an enemy   *)
(* next to a piece on a diagonal it may take, and a free square behind.    *)
CouldCapture(b, white) ==
    \E s \in Occupied(b, white), t \in Occupied(b, ~white) :
        LET dx == t[1] - s[1]
            dy == t[2] - s[2]
            behind == <<t[1] + dx, t[2] + dy>>
        IN  /\ dx \in {-1, 1}
            /\ dy \in IF b[s].isKing THEN {-1, 1} ELSE {Forward(b[s])}
            /\ behind \in Squares
            /\ b[behind] = None

Lost(white) ==
    Cardinality(Occupied(boardArray, white)) - Cardinality(Occupied(boardArray', white))

(* "If a jump is available, you must take it" (server/ReadMe.txt): a move  *)
(* of a side that could capture with any of its pieces does capture, and   *)
(* one of a side that could not takes nothing.                             *)
MandatoryCapture ==
    [][boardArray' # boardArray =>
          (CouldCapture(boardArray, isPlayer1Turn) <=> Lost(~isPlayer1Turn) > 0)]_vars

Distance(i, j) == IF i < j THEN j - i ELSE i - j

(* The piece that stood on from now stands on to, a free square: every     *)
(* other piece stays as it is or is taken, a quiet move is one diagonal    *)
(* step, a capturing one spans at most two squares per piece it takes, and *)
(* a man comes out exactly two rows further for each of them.              *)
OnePieceMoved(from, to) ==
    LET piece == boardArray[from]
        taken == Lost(~isPlayer1Turn)
        dx    == Distance(from[1], to[1])
        dy    == Distance(from[2], to[2])
    IN  /\ boardArray[to] = None
        /\ boardArray'[from] = None
        /\ piece.isKing => boardArray'[to].isKing
        /\ \A sq \in Squares \ {from, to} :
              \/ boardArray'[sq] = boardArray[sq]
              \/ sq \in Occupied(boardArray, ~isPlayer1Turn) /\ boardArray'[sq] = None
        /\ IF taken = 0 THEN dx = 1 /\ dy = 1
           ELSE /\ dx % 2 = 0 /\ dx <= 2 * taken
                /\ dy % 2 = 0 /\ dy <= 2 * taken
        /\ ~piece.isKing =>
              to[2] = from[2] + Forward(piece) * (IF taken = 0 THEN 1 ELSE 2 * taken)

(* A move does no more to the board than that, although the move list, its *)
(* search by end square and the chain of precedingMove pointers decide it. *)
MoveGeometry ==
    [][boardArray' # boardArray =>
          \E from \in Occupied(boardArray, isPlayer1Turn)
                        \ Occupied(boardArray', isPlayer1Turn),
             to \in Occupied(boardArray', isPlayer1Turn)
                        \ Occupied(boardArray, isPlayer1Turn) : OnePieceMoved(from, to)]_vars

(* The mandatory jump and the search by end square never refuse everything: *)
(* a side that has a move, by its own list, has a request that is accepted, *)
(* and if it could capture, one that captures.  What remains are the games  *)
(* where no piece of the side can move, which stay open for ever:           *)
(* checkForWinner counts pieces only (Session.cpp:266, :546).               *)
SomeMoveAccepted ==
    LET own == Occupied(boardArray, isPlayer1Turn)
    IN  ~crashed /\ (\A p \in OwnPieces : ~Diverges(boardArray, p)) =>
            /\ CouldCapture(boardArray, isPlayer1Turn) =>
                  \E from \in own : \E to \in Destinations(from) :
                      \E m \in validMove(from, to) : IsJump(m)
            /\ (\E from \in own : Destinations(from) # {}) =>
                  \E from \in own : \E to \in Destinations(from) : validMove(from, to) # {}

(* The session implements Match: alternate plies of one piece each, enemy  *)
(* pieces only ever removed, one decision at the ply that wipes out a      *)
(* side, nothing after it.  joinGame and the overflow are stuttering there.*)
M == INSTANCE Match WITH
        white     <- Occupied(boardArray, TRUE),
        black     <- Occupied(boardArray, FALSE),
        whiteTurn <- isPlayer1Turn,
        decided   <- results # <<>>

ImplementsMatch == M!Spec

(* The server process survives every request (Piece.cpp:194 refuses the    *)
(* square a jump came from "so we don't get in infinite recursion loops"). *)
NeverOverflows == ~crashed

(* When the recursion does run away, the side to move has a king, and the  *)
(* others stand round a closed circuit of jumps: below both sides of its   *)
(* highest landing square and above both sides of its lowest.              *)
OverflowNeedsCircuit ==
    crashed =>
        LET others == Occupied(boardArray, ~isPlayer1Turn)
            free   == {sq \in Squares : boardArray[sq] = None}
        IN  /\ \E p \in OwnPieces : p.isKing
            /\ \E top, bottom \in free :
                  /\ top[2] > bottom[2]
                  /\ \A dx \in {-1, 1} :
                        /\ <<top[1] + dx, top[2] - 1>> \in others
                        /\ <<bottom[1] + dx, bottom[2] + 1>> \in others

(* "If either player has no pieces left, the other player wins"            *)
(* (Session.cpp:546): the win is credited to the player who has pieces.    *)
WinnerCredited ==
    \A i \in DOMAIN results :
        results[i].win = IF Occupied(boardArray, TRUE) = {} THEN player2Id ELSE player1Id
=============================================================================
