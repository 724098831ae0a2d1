----------------------------- MODULE ThreadPool -----------------------------
(***************************************************************************)
(* The server's ThreadPool: worker threads that wait on a condition        *)
(* variable for tasks or for the order to stop, callers of enqueue, and    *)
(* the thread that runs the destructor.  queueMutex is held only over the  *)
(* blocks between braces in the code, none of which blocks except in       *)
(* condition.wait, so each such block is one step; the notifications,      *)
(* which the code makes after releasing the mutex, are steps of their own. *)
(***************************************************************************)
EXTENDS Naturals, Sequences, FiniteSets

CONSTANTS
    Workers,    \* the threads of the vector workers
    Callers,    \* the threads that call enqueue
    Tasks,      \* the tasks they may hand over, each at most once
    NoTask      \* an empty std::function

ASSUME WorkersAssumption == IsFiniteSet(Workers) /\ Workers # {}
ASSUME CallersAssumption == IsFiniteSet(Callers)
ASSUME TasksAssumption == NoTask \notin Tasks

VARIABLES
    tasks,      \* the queue
    stop,
    worker,     \* where each worker is
    task,       \* the task each worker holds
    caller,     \* where each caller of enqueue is
    destructor, \* where the destructor is
    finished,   \* tasks that were executed to their end
    refused     \* tasks whose enqueue threw

vars == <<tasks, stop, worker, task, caller, destructor, finished, refused>>

(* A worker is about to lock queueMutex, blocked in condition.wait,        *)
(* executing its task, or has returned.                                    *)
WorkerStates == {"locking", "waiting", "running", "returned"}

(* A caller has pushed its task and not yet notified, or is outside.       *)
CallerStates == {"outside", "notifying"}

(* The destructor has not begun, is before notify_all, joins the workers,  *)
(* or has returned.                                                        *)
DestructorStates == {"none", "notifying", "joining", "returned"}

TypeOK ==
    /\ tasks \in Seq(Tasks)
    /\ stop \in BOOLEAN
    /\ worker \in [Workers -> WorkerStates]
    /\ task \in [Workers -> Tasks \cup {NoTask}]
    /\ caller \in [Callers -> CallerStates]
    /\ destructor \in DestructorStates
    /\ finished \in SUBSET Tasks
    /\ refused \in SUBSET Tasks

In(state) == {w \in Workers : worker[w] = state}

Notifying == {c \in Callers : caller[c] = "notifying"}

Queued == {tasks[i] : i \in DOMAIN tasks}

Running == {task[w] : w \in In("running")}

-----------------------------------------------------------------------------
Init ==
    /\ tasks = <<>>
    /\ stop = FALSE
    /\ worker = [w \in Workers |-> "locking"]
    /\ task = [w \in Workers |-> NoTask]
    /\ caller = [c \in Callers |-> "outside"]
    /\ destructor = "none"
    /\ finished = {}
    /\ refused = {}

(* Callers hand over a task once, and none after the pool is gone.         *)
MayEnqueue(c, t) ==
    /\ caller[c] = "outside"
    /\ destructor # "returned"
    /\ t \notin Queued \cup Running \cup finished \cup refused

(* Mutated form of enqueue: the call ends without notify_one.              *)
EnqueueSilently(c, t) ==
    /\ MayEnqueue(c, t)
    /\ ~stop
    /\ tasks' = Append(tasks, t)
    /\ UNCHANGED <<stop, worker, task, caller, destructor, finished, refused>>

enqueue(c, t) ==
    /\ MayEnqueue(c, t)
    /\ ~stop
    /\ tasks' = Append(tasks, t)
    /\ caller' = [caller EXCEPT ![c] = "notifying"]
    /\ UNCHANGED <<stop, worker, task, destructor, finished, refused>>

(* enqueue throws "Enqueue on stopped ThreadPool".                         *)
enqueueThrows(c, t) ==
    /\ MayEnqueue(c, t)
    /\ stop
    /\ refused' = refused \cup {t}
    /\ UNCHANGED <<tasks, stop, worker, task, caller, destructor, finished>>

(* condition.notify_one() wakes any one waiting worker, or nobody.         *)
notify_one(c) ==
    /\ caller[c] = "notifying"
    /\ caller' = [caller EXCEPT ![c] = "outside"]
    /\ \/ In("waiting") = {} /\ UNCHANGED worker
       \/ \E w \in In("waiting") : worker' = [worker EXCEPT ![w] = "locking"]
    /\ UNCHANGED <<tasks, stop, task, destructor, finished, refused>>

(* Mutated form of wait: stop is missing from the predicate.               *)
WaitThroughStop(w) ==
    /\ worker[w] = "locking"
    /\ tasks = <<>>
    /\ worker' = [worker EXCEPT ![w] = "waiting"]
    /\ UNCHANGED <<tasks, stop, task, caller, destructor, finished, refused>>

(* The predicate of condition.wait is false: the worker blocks.            *)
wait(w) ==
    /\ worker[w] = "locking"
    /\ ~stop /\ tasks = <<>>
    /\ worker' = [worker EXCEPT ![w] = "waiting"]
    /\ UNCHANGED <<tasks, stop, task, caller, destructor, finished, refused>>

(* A condition variable may wake up with nobody having notified it.        *)
spuriousWakeup(w) ==
    /\ worker[w] = "waiting"
    /\ worker' = [worker EXCEPT ![w] = "locking"]
    /\ UNCHANGED <<tasks, stop, task, caller, destructor, finished, refused>>

(* Mutated form of takeTask: tasks.pop() is missing.                       *)
TakeWithoutPop(w) ==
    /\ worker[w] = "locking"
    /\ tasks # <<>>
    /\ task' = [task EXCEPT ![w] = Head(tasks)]
    /\ worker' = [worker EXCEPT ![w] = "running"]
    /\ UNCHANGED <<tasks, stop, caller, destructor, finished, refused>>

takeTask(w) ==
    /\ worker[w] = "locking"
    /\ tasks # <<>>
    /\ task' = [task EXCEPT ![w] = Head(tasks)]
    /\ tasks' = Tail(tasks)
    /\ worker' = [worker EXCEPT ![w] = "running"]
    /\ UNCHANGED <<stop, caller, destructor, finished, refused>>

(* Mutated form of endTask: the function is emptied before it is called.   *)
EndEmptiedTask(w) ==
    /\ worker[w] = "running"
    /\ finished' = finished \cup {NoTask}
    /\ task' = [task EXCEPT ![w] = NoTask]
    /\ worker' = [worker EXCEPT ![w] = "locking"]
    /\ UNCHANGED <<tasks, stop, caller, destructor, refused>>

(* task() returns; the next iteration begins with an empty function.       *)
endTask(w) ==
    /\ worker[w] = "running"
    /\ finished' = finished \cup {task[w]}
    /\ task' = [task EXCEPT ![w] = NoTask]
    /\ worker' = [worker EXCEPT ![w] = "locking"]
    /\ UNCHANGED <<tasks, stop, caller, destructor, refused>>

(* Mutated form of exit: the worker leaves on stop with tasks queued.      *)
ExitOnStop(w) ==
    /\ worker[w] = "locking"
    /\ stop
    /\ worker' = [worker EXCEPT ![w] = "returned"]
    /\ UNCHANGED <<tasks, stop, task, caller, destructor, finished, refused>>

exit(w) ==
    /\ worker[w] = "locking"
    /\ stop /\ tasks = <<>>
    /\ worker' = [worker EXCEPT ![w] = "returned"]
    /\ UNCHANGED <<tasks, stop, task, caller, destructor, finished, refused>>

(* ~ThreadPool, in its three parts.                                        *)
setStop ==
    /\ destructor = "none"
    /\ stop' = TRUE
    /\ destructor' = "notifying"
    /\ UNCHANGED <<tasks, worker, task, caller, finished, refused>>

(* Mutated form of notify_all: one worker is woken, as by notify_one.      *)
NotifyOnlyOne ==
    /\ destructor = "notifying"
    /\ \/ In("waiting") = {} /\ UNCHANGED worker
       \/ \E w \in In("waiting") : worker' = [worker EXCEPT ![w] = "locking"]
    /\ destructor' = "joining"
    /\ UNCHANGED <<tasks, stop, task, caller, finished, refused>>

notify_all ==
    /\ destructor = "notifying"
    /\ worker' = [w \in Workers |-> IF worker[w] = "waiting" THEN "locking" ELSE worker[w]]
    /\ destructor' = "joining"
    /\ UNCHANGED <<tasks, stop, task, caller, finished, refused>>

join ==
    /\ destructor = "joining"
    /\ In("returned") = Workers
    /\ destructor' = "returned"
    /\ UNCHANGED <<tasks, stop, worker, task, caller, finished, refused>>

(* The pool is gone and no caller is left inside enqueue.                  *)
Terminated ==
    /\ destructor = "returned"
    /\ Notifying = {}
    /\ UNCHANGED vars

WorkerStep(w) == wait(w) \/ takeTask(w) \/ exit(w)

Next ==
    \/ \E c \in Callers : \E t \in Tasks : enqueue(c, t) \/ enqueueThrows(c, t)
    \/ \E c \in Callers : notify_one(c)
    \/ \E w \in Workers : WorkerStep(w) \/ endTask(w) \/ spuriousWakeup(w)
    \/ setStop \/ notify_all \/ join
    \/ Terminated

(* Threads that are neither blocked nor waiting go on, and tasks end.      *)
(* Nothing obliges a caller to enqueue, the owner to destroy the pool, or  *)
(* a worker to wake up spuriously.                                         *)
Fairness ==
    /\ \A c \in Callers : WF_vars(notify_one(c))
    /\ \A w \in Workers : WF_vars(WorkerStep(w)) /\ WF_vars(endTask(w))
    /\ WF_vars(notify_all) /\ WF_vars(join)

Spec == Init /\ [][Next]_vars /\ Fairness

-----------------------------------------------------------------------------
(* Properties.                                                             *)

(* No wake-up is lost although notify_one is called after the mutex is     *)
(* released: while some worker waits, every queued task has a worker on    *)
(* its way to the queue or a caller about to wake one.                     *)
NoLostWakeup ==
    In("waiting") # {} =>
        Len(tasks) <= Cardinality(In("locking")) + Cardinality(Notifying)

(* The destructor never joins a worker that nobody will wake: from         *)
(* notify_all on, no worker waits.                                         *)
NobodyWaitsAtJoin == destructor \in {"joining", "returned"} => In("waiting") = {}

(* When the destructor has returned, every task accepted was executed.     *)
DrainedAtReturn ==
    destructor = "returned" => Queued = {} /\ Running = {}

(* The pool implements TaskPool.                                           *)
P == INSTANCE TaskPool WITH
        Threads <- Workers,
        pending <- tasks,
        running <- Running,
        closed  <- stop

ImplementsTaskPool == P!Spec

(* Once begun, the destructor returns.                                     *)
DestructorReturns == destructor = "notifying" ~> destructor = "returned"
=============================================================================
