------------------------------- MODULE Match --------------------------------
(***************************************************************************)
(* What a game session promises, with nothing said about how moves are     *)
(* found: two armies on a board, plies that alternate, a ply moves exactly *)
(* one piece of the side to move onto a free square and may take pieces of *)
(* the other side only, and the match is decided once, at the ply that     *)
(* takes the last piece of a side, after which nothing moves.              *)
(***************************************************************************)
CONSTANT Squares

VARIABLES white, black, whiteTurn, decided

vars == <<white, black, whiteTurn, decided>>

Init ==
    /\ white \in SUBSET Squares
    /\ black \in SUBSET Squares
    /\ white \cap black = {}
    /\ whiteTurn = TRUE
    /\ decided = FALSE

(* One side's ply: own and other are the armies before it.                 *)
Ply(own, other, newOwn, newOther) ==
    /\ ~decided
    /\ \E from \in own, to \in newOwn :
          /\ to \in Squares \ (own \cup other)
          /\ newOwn = (own \ {from}) \cup {to}
    /\ newOther \in SUBSET other
    /\ whiteTurn' = ~whiteTurn
    /\ decided' = (newOther = {})

Next ==
    \/ whiteTurn  /\ Ply(white, black, white', black')
    \/ ~whiteTurn /\ Ply(black, white, black', white')

Spec == Init /\ [][Next]_vars
=============================================================================
