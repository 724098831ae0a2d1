--------------------------- MODULE MCConnections ----------------------------
(***************************************************************************)
(* Connections from the moment every client has logged in: the first two   *)
(* under names of their own, the others under the second one's.            *)
(***************************************************************************)
EXTENDS Connections

CONSTANTS First, Alice, Bob     \* a connection, and two of the Names

Login == [c \in Conns |-> IF c = First THEN Alice ELSE Bob]

MCSpec == InitAs(Login) /\ [][Next]_vars /\ Fairness
=============================================================================
