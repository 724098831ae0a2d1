----------------------------- MODULE MCBrowser ------------------------------
(***************************************************************************)
(* Browser from the start, and from the moment every browser has logged    *)
(* in, so that no requests are spent on logging in.                        *)
(***************************************************************************)
EXTENDS Browser

MCSpec == (Init \/ InitAs(Browsers)) /\ [][Next]_vars /\ Fairness
=============================================================================
