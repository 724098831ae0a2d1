------------------------------ MODULE TaskPool ------------------------------
(***************************************************************************)
(* What a thread pool promises to those who hand it tasks: a task accepted *)
(* is started once, in the order of acceptance, by one of the pool's       *)
(* threads, and no more tasks run at a time than there are threads; once   *)
(* closed the pool refuses new tasks and still runs all it has accepted.   *)
(***************************************************************************)
EXTENDS Naturals, Sequences, FiniteSets

CONSTANTS Tasks, Threads

VARIABLES pending, running, finished, refused, closed

vars == <<pending, running, finished, refused, closed>>

Init ==
    /\ pending = <<>>
    /\ running = {}
    /\ finished = {}
    /\ refused = {}
    /\ closed = FALSE

Known(t) ==
    \/ t \in running \cup finished \cup refused
    \/ \E i \in DOMAIN pending : pending[i] = t

Accept(t) ==
    /\ ~closed /\ ~Known(t)
    /\ pending' = Append(pending, t)
    /\ UNCHANGED <<running, finished, refused, closed>>

Refuse(t) ==
    /\ closed /\ ~Known(t)
    /\ refused' = refused \cup {t}
    /\ UNCHANGED <<pending, running, finished, closed>>

Start ==
    /\ pending # <<>>
    /\ Cardinality(running) < Cardinality(Threads)
    /\ pending' = Tail(pending)
    /\ running' = running \cup {Head(pending)}
    /\ UNCHANGED <<finished, refused, closed>>

Finish(t) ==
    /\ t \in running
    /\ running' = running \ {t}
    /\ finished' = finished \cup {t}
    /\ UNCHANGED <<pending, refused, closed>>

Close ==
    /\ ~closed
    /\ closed' = TRUE
    /\ UNCHANGED <<pending, running, finished, refused>>

Next ==
    \/ \E t \in Tasks : Accept(t) \/ Refuse(t) \/ Finish(t)
    \/ Start
    \/ Close

(* A task that can start does, and tasks end: then all accepted tasks do.  *)
Fairness ==
    /\ WF_vars(Start)
    /\ \A t \in Tasks : WF_vars(Finish(t))

Safety == Init /\ [][Next]_vars

Spec == Safety /\ Fairness
=============================================================================
