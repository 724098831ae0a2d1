------------------------------ MODULE Console -------------------------------
(***************************************************************************)
(* The two-player game at one terminal (main.cpp, HumanPlayer): the same   *)
(* board and moves as the server's, no mandatory jump, and an end of game  *)
(* of its own, which counts the pieces that can move.  Each line typed is  *)
(* a step; what is refused and asked for again is a stuttering step, and   *)
(* so is all that follows the end of the input: both prompts then ask for  *)
(* ever.                                                                   *)
(***************************************************************************)
EXTENDS Checkers

VARIABLES
    board,
    isPlayer1,      \* white is, or will be, asked
    endGameNow,
    pc,             \* the test of the loop, a prompt, or the end of the program
    pieceMoving,    \* the square of the piece a move is asked for, or None
    verdict         \* what endGame has printed

vars == <<board, isPlayer1, endGameNow, pc, pieceMoving, verdict>>

Verdicts == {"", "stalemate", "black", "white"}

TypeOK ==
    /\ board \in Board
    /\ isPlayer1 \in BOOLEAN
    /\ endGameNow \in BOOLEAN
    /\ pc \in {"endGame", "getPiece", "getMove", "over", "overflow"}
    /\ pieceMoving \in Squares \cup {None}
    /\ verdict \in Verdicts

Init ==
    /\ board = InitialBoard
    /\ isPlayer1 = TRUE
    /\ endGameNow = FALSE
    /\ pc = "endGame"
    /\ pieceMoving = None
    /\ verdict = ""

Moves(sq) == getAllPossibleMoves(board, board[sq])

(* Mutated form of Movable: it counts pieces, as the server does.          *)
OnBoard(white) == Occupied(board, white)

Movable(white) == {sq \in Occupied(board, white) : Moves(sq) # {}}

Overflows == \E white \in BOOLEAN : \E sq \in Occupied(board, white) : Diverges(board, board[sq])

Judged ==
    CASE Movable(TRUE) = {} /\ Movable(FALSE) = {} -> "stalemate"
      [] Movable(TRUE) = {} /\ Movable(FALSE) # {} -> "black"
      [] Movable(TRUE) # {} /\ Movable(FALSE) = {} -> "white"
      [] OTHER -> ""

(* Mutated form of endGame: the board is looked at first.                  *)
BoardFirst ==
    /\ pc = "endGame"
    /\ verdict' = IF Overflows THEN "" ELSE Judged
    /\ pc' = IF Overflows THEN "overflow"
             ELSE IF verdict' # "" THEN "over"
             ELSE "getPiece"
    /\ UNCHANGED <<board, isPlayer1, endGameNow, pieceMoving>>

(* The test of main's loop, and the beginning of getMove when it goes on.  *)
endGame ==
    /\ pc = "endGame"
    /\ verdict' = IF endGameNow \/ Overflows THEN "" ELSE Judged
    /\ pc' = IF endGameNow THEN "over"
             ELSE IF Overflows THEN "overflow"
             ELSE IF verdict' # "" THEN "over"
             ELSE "getPiece"
    /\ UNCHANGED <<board, isPlayer1, endGameNow, pieceMoving>>

(* A piece of one's own, with some move.                                   *)
getPieceFromUser(sq) ==
    /\ pc = "getPiece"
    /\ sq \in Movable(isPlayer1)
    /\ pc' = "getMove"
    /\ pieceMoving' = sq
    /\ UNCHANGED <<board, isPlayer1, endGameNow, verdict>>

(* "exit", which only this prompt knows: getMove returns, and main switches*)
(* players as after a move.                                                *)
triggerEndGame ==
    /\ pc = "getPiece"
    /\ endGameNow' = TRUE
    /\ isPlayer1' = ~isPlayer1
    /\ pc' = "endGame"
    /\ UNCHANGED <<board, pieceMoving, verdict>>

(* Mutated form of goBack: getMove returns with nothing moved.             *)
Pass ==
    /\ pc = "getMove"
    /\ pc' = "endGame"
    /\ isPlayer1' = ~isPlayer1
    /\ pieceMoving' = None
    /\ UNCHANGED <<board, endGameNow, verdict>>

(* A 0 at the prompt for a move.                                           *)
goBack ==
    /\ pc = "getMove"
    /\ pc' = "getPiece"
    /\ pieceMoving' = None
    /\ UNCHANGED <<board, isPlayer1, endGameNow, verdict>>

(* The number of a move that was listed.                                   *)
getMoveFromUser(move) ==
    /\ pc = "getMove"
    /\ move \in Moves(pieceMoving)
    /\ board' = applyMoveToBoard(board, move, board[pieceMoving])
    /\ isPlayer1' = ~isPlayer1
    /\ pc' = "endGame"
    /\ pieceMoving' = None
    /\ UNCHANGED <<endGameNow, verdict>>

Next ==
    \/ endGame
    \/ \E sq \in Squares : getPieceFromUser(sq)
    \/ triggerEndGame
    \/ goBack
    \/ pc = "getMove" /\ \E move \in Moves(pieceMoving) : getMoveFromUser(move)

(* The program goes on by itself; a player need not answer.                *)
Spec == Init /\ [][Next]_vars /\ WF_vars(endGame)

-----------------------------------------------------------------------------
(* Properties.                                                             *)

(* Whoever is asked has a piece that can move, so the two prompts, which   *)
(* ask until they get a move, can be answered; the server has no such test *)
(* and leaves a side without a move stuck.                                 *)
AskedCanMove ==
    /\ pc \in {"getPiece", "getMove"} =>
            \E sq \in Occupied(board, isPlayer1) : Moves(sq) # {}
    /\ pc = "getMove" => pieceMoving \in Occupied(board, isPlayer1) /\ Moves(pieceMoving) # {}

(* The console plays Match too: choosing, going back and leaving the game  *)
(* change nothing, and every other turn is one ply of the side to move.    *)
M == INSTANCE Match WITH
        white     <- Occupied(board, TRUE),
        black     <- Occupied(board, FALSE),
        whiteTurn <- isPlayer1 # endGameNow,
        decided   <- \E white \in BOOLEAN : Occupied(board, white) = {}

ImplementsMatch == M!Spec

(* "exit" ends the program, and with no verdict on the game.               *)
ExitEnds == endGameNow ~> pc = "over" /\ verdict = ""
=============================================================================
