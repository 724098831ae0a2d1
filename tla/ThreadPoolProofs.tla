-------------------------- MODULE ThreadPoolProofs --------------------------
(***************************************************************************)
(* The safety of the thread pool for any number of workers, callers and    *)
(* tasks.                                                                  *)
(***************************************************************************)
EXTENDS ThreadPool, FiniteSetTheorems, SequenceTheorems, TLAPS

(* A running worker holds a task.                                          *)
Holding == \A w \in In("running") : task[w] # NoTask

(* stop is raised by the destructor's first step.                          *)
StopMeansDestroyed == stop <=> destructor # "none"

(* Workers leave a stopped and empty pool only; nothing is queued later.   *)
LeftEmpty == In("returned") # {} => stop /\ tasks = <<>>

AllJoined == destructor = "returned" => In("returned") = Workers

IndInv ==
    /\ TypeOK
    /\ Holding
    /\ StopMeansDestroyed
    /\ NobodyWaitsAtJoin
    /\ LeftEmpty
    /\ AllJoined

(* No task is in two places at once.                                       *)
Once ==
    /\ \A i, j \in DOMAIN tasks : tasks[i] = tasks[j] => i = j
    /\ \A w, v \in In("running") : task[w] = task[v] => w = v
    /\ Queued \cap Running = {}

-----------------------------------------------------------------------------
(* The sets that are counted are finite.                                   *)
LEMMA FiniteParts ==
    ASSUME NEW state
    PROVE  /\ IsFiniteSet(In(state)) /\ Cardinality(In(state)) \in Nat
           /\ IsFiniteSet(Notifying) /\ Cardinality(Notifying) \in Nat
<1>1. In(state) \subseteq Workers /\ Notifying \subseteq Callers
  BY DEF In, Notifying
<1> QED BY <1>1, WorkersAssumption, CallersAssumption, FS_Subset, FS_CardinalityType

(* The queue after a push and after a pop.                                 *)
LEMMA QueueFacts ==
    ASSUME tasks \in Seq(Tasks)
    PROVE  /\ \A t \in Tasks :
                 /\ Append(tasks, t) \in Seq(Tasks)
                 /\ Len(Append(tasks, t)) = Len(tasks) + 1
           /\ tasks # <<>> =>
                 /\ Head(tasks) \in Tasks
                 /\ Head(tasks) = tasks[1]
                 /\ Tail(tasks) \in Seq(Tasks)
                 /\ Len(Tail(tasks)) = Len(tasks) - 1
                 /\ \A i \in 1 .. Len(tasks) - 1 : Tail(tasks)[i] = tasks[i + 1]
           /\ Len(tasks) \in Nat
           /\ tasks = <<>> <=> Len(tasks) = 0
BY AppendProperties, HeadTailProperties, LenProperties, EmptySeq

-----------------------------------------------------------------------------
LEMMA IndInvInit == Init => IndInv
<1> SUFFICES ASSUME Init PROVE IndInv
  OBVIOUS
<1>1. TypeOK
  <2>1. <<>> \in Seq(Tasks)
    BY EmptySeq
  <2> QED BY <2>1 DEF Init, TypeOK, WorkerStates, CallerStates, DestructorStates
<1>2. In("running") = {} /\ In("returned") = {}
  BY DEF Init, In
<1> QED BY <1>1, <1>2 DEF Init, IndInv, Holding, StopMeansDestroyed,
                            NobodyWaitsAtJoin, LeftEmpty, AllJoined

(* The inductive step, one action at a time.                               *)
LEMMA IndInvNext == IndInv /\ [Next]_vars => IndInv'
<1> SUFFICES ASSUME IndInv, [Next]_vars PROVE IndInv'
  OBVIOUS
<1> USE DEF IndInv
<1>a. WorkerStates = {"locking", "waiting", "running", "returned"}
  BY DEF WorkerStates
<1>b. NoTask \notin Tasks
  BY TasksAssumption
<1>1. ASSUME NEW c \in Callers, NEW t \in Tasks, enqueue(c, t) PROVE IndInv'
  <2>1. TypeOK'
    BY <1>1, QueueFacts DEF enqueue, TypeOK, CallerStates
  <2>2. In("returned") = {}
    BY <1>1 DEF enqueue, LeftEmpty
  <2>3. /\ In("returned")' = In("returned")
        /\ In("waiting")' = In("waiting")
        /\ In("running")' = In("running")
    BY <1>1 DEF enqueue, In
  <2> QED BY <1>1, <2>1, <2>2, <2>3 DEF enqueue, Holding, StopMeansDestroyed,
                                NobodyWaitsAtJoin, LeftEmpty, AllJoined
<1>2. ASSUME NEW c \in Callers, NEW t \in Tasks, enqueueThrows(c, t) PROVE IndInv'
  BY <1>2 DEF enqueueThrows, TypeOK, Holding, StopMeansDestroyed,
              NobodyWaitsAtJoin, LeftEmpty, AllJoined, In
<1>3. ASSUME NEW c \in Callers, notify_one(c) PROVE IndInv'
  <2>1. CASE UNCHANGED worker
    BY <1>3, <2>1 DEF notify_one, TypeOK, CallerStates, Holding, StopMeansDestroyed,
                      NobodyWaitsAtJoin, LeftEmpty, AllJoined, In
  <2>2. CASE \E w \in In("waiting") : worker' = [worker EXCEPT ![w] = "locking"]
    <3>1. PICK w \in In("waiting") : worker' = [worker EXCEPT ![w] = "locking"]
      BY <2>2
    <3>2. w \in Workers /\ worker[w] = "waiting"
      BY <3>1 DEF In
    <3>3. /\ worker' \in [Workers -> WorkerStates]
          /\ In("waiting")' = In("waiting") \ {w}
          /\ In("running")' = In("running")
          /\ In("returned")' = In("returned")
      BY <1>a, <3>1, <3>2 DEF TypeOK, In
    <3>4. TypeOK'
      BY <1>3, <3>3 DEF notify_one, TypeOK, CallerStates
    <3> QED BY <1>3, <3>3, <3>4 DEF notify_one, Holding, StopMeansDestroyed,
                                    NobodyWaitsAtJoin, LeftEmpty, AllJoined
  <2> QED BY <1>3, <2>1, <2>2 DEF notify_one
<1>4. ASSUME NEW w \in Workers, wait(w) PROVE IndInv'
  <2>1. /\ worker' \in [Workers -> WorkerStates]
        /\ In("running")' = In("running")
        /\ In("returned")' = In("returned")
    BY <1>4, <1>a DEF wait, TypeOK, In
  <2>2. ~stop /\ destructor = "none"
    BY <1>4 DEF wait, StopMeansDestroyed
  <2> QED BY <1>4, <2>1, <2>2 DEF wait, TypeOK, Holding, StopMeansDestroyed,
                                  NobodyWaitsAtJoin, LeftEmpty, AllJoined
<1>5. ASSUME NEW w \in Workers, spuriousWakeup(w) PROVE IndInv'
  <2>1. /\ worker' \in [Workers -> WorkerStates]
        /\ In("waiting")' \subseteq In("waiting")
        /\ In("running")' = In("running")
        /\ In("returned")' = In("returned")
    BY <1>5, <1>a DEF spuriousWakeup, TypeOK, In
  <2> QED BY <1>5, <2>1 DEF spuriousWakeup, TypeOK, Holding, StopMeansDestroyed,
                            NobodyWaitsAtJoin, LeftEmpty, AllJoined
<1>6. ASSUME NEW w \in Workers, takeTask(w) PROVE IndInv'
  <2>1. /\ worker' \in [Workers -> WorkerStates]
        /\ In("waiting")' = In("waiting")
        /\ In("running")' = In("running") \cup {w}
        /\ In("returned")' = In("returned")
    BY <1>6, <1>a DEF takeTask, TypeOK, In
  <2>2. Head(tasks) \in Tasks /\ Tail(tasks) \in Seq(Tasks)
    BY <1>6, QueueFacts DEF takeTask, TypeOK
  <2>3. TypeOK'
    BY <1>6, <2>1, <2>2 DEF takeTask, TypeOK
  <2>4. In("returned") = {}
    BY <1>6 DEF takeTask, LeftEmpty
  <2>5. Holding'
    BY <1>6, <1>b, <2>1, <2>2 DEF takeTask, TypeOK, Holding, In
  <2>6. AllJoined'
    BY <1>6, <2>1 DEF takeTask, AllJoined
  <2> QED BY <1>6, <2>1, <2>3, <2>4, <2>5, <2>6 DEF takeTask, StopMeansDestroyed,
                                                    NobodyWaitsAtJoin, LeftEmpty
<1>7. ASSUME NEW w \in Workers, endTask(w) PROVE IndInv'
  <2>1. /\ worker' \in [Workers -> WorkerStates]
        /\ In("waiting")' = In("waiting")
        /\ In("running")' = In("running") \ {w}
        /\ In("returned")' = In("returned")
    BY <1>7, <1>a DEF endTask, TypeOK, In
  <2>2. w \in In("running") /\ task[w] \in Tasks
    BY <1>7 DEF endTask, In, Holding, TypeOK
  <2>3. TypeOK'
    BY <1>7, <2>1, <2>2 DEF endTask, TypeOK
  <2>4. Holding'
    BY <1>7, <2>1 DEF endTask, TypeOK, Holding, In
  <2> QED BY <1>7, <2>1, <2>3, <2>4 DEF endTask, StopMeansDestroyed,
                                        NobodyWaitsAtJoin, LeftEmpty, AllJoined
<1>8. ASSUME NEW w \in Workers, exit(w) PROVE IndInv'
  <2>1. /\ worker' \in [Workers -> WorkerStates]
        /\ In("waiting")' = In("waiting")
        /\ In("running")' = In("running")
        /\ In("returned")' = In("returned") \cup {w}
    BY <1>8, <1>a DEF exit, TypeOK, In
  <2>2. In("returned") = Workers => In("returned")' = Workers
    BY <2>1
  <2> QED BY <1>8, <2>1, <2>2 DEF exit, TypeOK, Holding, StopMeansDestroyed,
                                  NobodyWaitsAtJoin, LeftEmpty, AllJoined
<1>9. CASE setStop
  BY <1>9 DEF setStop, TypeOK, DestructorStates, Holding, StopMeansDestroyed,
              NobodyWaitsAtJoin, LeftEmpty, AllJoined, In
<1>10. CASE notify_all
  <2>1. /\ worker' \in [Workers -> WorkerStates]
        /\ In("waiting")' = {}
        /\ In("running")' = In("running")
        /\ In("returned")' = In("returned")
    BY <1>10, <1>a DEF notify_all, TypeOK, In
  <2> QED BY <1>10, <2>1 DEF notify_all, TypeOK, DestructorStates, Holding,
                StopMeansDestroyed, NobodyWaitsAtJoin, LeftEmpty, AllJoined
<1>11. CASE join
  BY <1>11 DEF join, TypeOK, DestructorStates, Holding, StopMeansDestroyed,
               NobodyWaitsAtJoin, LeftEmpty, AllJoined, In
<1>12. CASE UNCHANGED vars
  BY <1>12 DEF vars, TypeOK, Holding, StopMeansDestroyed, NobodyWaitsAtJoin,
               LeftEmpty, AllJoined, In
<1> QED BY <1>1, <1>2, <1>3, <1>4, <1>5, <1>6, <1>7, <1>8, <1>9, <1>10, <1>11, <1>12
        DEF Next, WorkerStep, Terminated

LEMMA Inductive == Spec => []IndInv
BY IndInvInit, IndInvNext, PTL DEF Spec

(* The state of the pool keeps its types: no empty function is ever run.   *)
THEOREM TypeCorrect == Spec => []TypeOK
BY Inductive, PTL DEF IndInv

(* No worker waits once the destructor has called notify_all, for any      *)
(* number of workers: the join at the end waits for none of them.          *)
THEOREM NoWaitAtJoin == Spec => []NobodyWaitsAtJoin
BY Inductive, PTL DEF IndInv

(* When the destructor has returned, no accepted task is left over.        *)
THEOREM Drained == Spec => []DrainedAtReturn
<1>1. IndInv => DrainedAtReturn
  <2> SUFFICES ASSUME IndInv, destructor = "returned"
               PROVE  Queued = {} /\ Running = {}
    BY DEF DrainedAtReturn
  <2>1. In("returned") = Workers /\ In("returned") # {}
    BY WorkersAssumption DEF IndInv, AllJoined
  <2>2. tasks = <<>>
    BY <2>1 DEF IndInv, LeftEmpty
  <2>3. In("running") = {}
    BY <2>1 DEF In
  <2> QED BY <2>2, <2>3 DEF Queued, Running
<1> QED BY <1>1, Inductive, PTL

-----------------------------------------------------------------------------
(* A set that gains an element, and one that loses an element.             *)
LEMMA Counting ==
    ASSUME NEW S, IsFiniteSet(S), NEW x
    PROVE  /\ x \notin S => Cardinality(S \cup {x}) = Cardinality(S) + 1
           /\ x \in S => Cardinality(S \ {x}) = Cardinality(S) - 1
           /\ Cardinality(S) \in Nat
BY FS_AddElement, FS_RemoveElement, FS_CardinalityType

(* No wake-up is lost, however many threads push, wake and take at the     *)
(* same time: each push brings a caller that has yet to notify, each       *)
(* notification a worker on its way, each worker that goes takes a task.   *)
THEOREM WakeupsKept == Spec => []NoLostWakeup
<1>1. Init => NoLostWakeup
  <2> SUFFICES ASSUME Init PROVE In("waiting") = {}
    BY DEF NoLostWakeup
  <2> QED BY DEF Init, In
<1>2. IndInv /\ NoLostWakeup /\ [Next]_vars => NoLostWakeup'
  <2> SUFFICES ASSUME IndInv, NoLostWakeup, [Next]_vars, In("waiting")' # {}
               PROVE  (Len(tasks) <= Cardinality(In("locking")) + Cardinality(Notifying))'
    BY DEF NoLostWakeup
  <2>t. TypeOK
    BY DEF IndInv
  <2>f. /\ IsFiniteSet(In("locking")) /\ Cardinality(In("locking")) \in Nat
        /\ IsFiniteSet(Notifying) /\ Cardinality(Notifying) \in Nat
    BY FiniteParts
  <2>q. Len(tasks) \in Nat
    BY <2>t, QueueFacts DEF TypeOK
  <2>u. In("waiting") # {} =>
           Len(tasks) <= Cardinality(In("locking")) + Cardinality(Notifying)
    BY DEF NoLostWakeup
  <2>1. ASSUME NEW c \in Callers, NEW t \in Tasks, enqueue(c, t)
        PROVE  (Len(tasks) <= Cardinality(In("locking")) + Cardinality(Notifying))'
    <3>1. Len(tasks') = Len(tasks) + 1
      BY <2>1, <2>t, QueueFacts DEF enqueue, TypeOK
    <3>2. In("waiting")' = In("waiting") /\ In("locking")' = In("locking")
      BY <2>1 DEF enqueue, In
    <3>3. c \notin Notifying /\ Notifying' = Notifying \cup {c}
      BY <2>1, <2>t DEF enqueue, MayEnqueue, TypeOK, Notifying
    <3>4. Cardinality(Notifying') = Cardinality(Notifying) + 1
      BY <2>f, <3>3, Counting
    <3> QED BY <2>f, <2>q, <2>u, <3>1, <3>2, <3>4
  <2>2. ASSUME NEW c \in Callers, notify_one(c)
        PROVE  (Len(tasks) <= Cardinality(In("locking")) + Cardinality(Notifying))'
    <3>1. PICK w \in In("waiting") : worker' = [worker EXCEPT ![w] = "locking"]
      BY <2>2 DEF notify_one, In
    <3>2. w \notin In("locking") /\ In("locking")' = In("locking") \cup {w}
      BY <2>t, <3>1 DEF TypeOK, In
    <3>3. c \in Notifying /\ Notifying' = Notifying \ {c}
      BY <2>2, <2>t DEF notify_one, TypeOK, Notifying
    <3>4. /\ Cardinality(In("locking")') = Cardinality(In("locking")) + 1
          /\ Cardinality(Notifying') = Cardinality(Notifying) - 1
      BY <2>f, <3>2, <3>3, Counting
    <3>5. tasks' = tasks
      BY <2>2 DEF notify_one
    <3> QED BY <2>f, <2>q, <2>u, <3>1, <3>4, <3>5
  <2>3. ASSUME NEW w \in Workers, takeTask(w)
        PROVE  (Len(tasks) <= Cardinality(In("locking")) + Cardinality(Notifying))'
    <3>1. Len(tasks') = Len(tasks) - 1
      BY <2>3, <2>t, QueueFacts DEF takeTask, TypeOK
    <3>2. /\ w \in In("locking") /\ In("locking")' = In("locking") \ {w}
          /\ In("waiting")' = In("waiting")
      BY <2>3, <2>t DEF takeTask, TypeOK, In
    <3>3. Cardinality(In("locking")') = Cardinality(In("locking")) - 1
      BY <2>f, <3>2, Counting
    <3>4. Notifying' = Notifying
      BY <2>3 DEF takeTask, Notifying
    <3> QED BY <2>f, <2>q, <2>u, <3>1, <3>2, <3>3, <3>4
  <2>4. ASSUME tasks = <<>>, tasks' = tasks
        PROVE  (Len(tasks) <= Cardinality(In("locking")) + Cardinality(Notifying))'
    <3>1. Len(tasks') = 0
      BY <2>4, <2>t, QueueFacts DEF TypeOK
    <3>2. Cardinality(In("locking")') \in Nat /\ Cardinality(Notifying') \in Nat
      <4>1. In("locking")' \subseteq Workers /\ Notifying' \subseteq Callers
        BY DEF In, Notifying
      <4> QED BY <4>1, WorkersAssumption, CallersAssumption, FS_Subset, FS_CardinalityType
    <3> QED BY <3>1, <3>2
  <2>5. ASSUME NEW w \in Workers, worker[w] \in {"waiting", "running"},
               worker' = [worker EXCEPT ![w] = "locking"],
               UNCHANGED <<tasks, caller>>,
               In("waiting") # {}
        PROVE  (Len(tasks) <= Cardinality(In("locking")) + Cardinality(Notifying))'
    <3>1. w \notin In("locking") /\ In("locking")' = In("locking") \cup {w}
      BY <2>5, <2>t DEF TypeOK, In
    <3>2. Cardinality(In("locking")') = Cardinality(In("locking")) + 1
      BY <2>f, <3>1, Counting
    <3>3. Notifying' = Notifying
      BY <2>5 DEF Notifying
    <3> QED BY <2>5, <2>f, <2>q, <2>u, <3>2, <3>3
  <2>6. ASSUME UNCHANGED <<tasks, worker, caller>>
        PROVE  (Len(tasks) <= Cardinality(In("locking")) + Cardinality(Notifying))'
    <3>1. /\ In("waiting")' = In("waiting") /\ In("locking")' = In("locking")
          /\ Notifying' = Notifying
      BY <2>6 DEF In, Notifying
    <3> QED BY <2>6, <2>u, <3>1
  <2>7. ASSUME NEW w \in Workers, wait(w) \/ exit(w)
        PROVE  (Len(tasks) <= Cardinality(In("locking")) + Cardinality(Notifying))'
    BY <2>4, <2>7 DEF wait, exit
  <2>8. ASSUME NEW w \in Workers, spuriousWakeup(w) \/ endTask(w)
        PROVE  (Len(tasks) <= Cardinality(In("locking")) + Cardinality(Notifying))'
    <3>1. In("waiting") # {}
      BY <2>8, <2>t DEF spuriousWakeup, endTask, TypeOK, In
    <3> QED BY <2>5, <2>8, <3>1 DEF spuriousWakeup, endTask
  <2>9. ~notify_all
    BY <2>t DEF notify_all, TypeOK, In
  <2> QED BY <2>1, <2>2, <2>3, <2>6, <2>7, <2>8, <2>9
          DEF Next, WorkerStep, enqueueThrows, setStop, join, Terminated, vars
<1> QED BY <1>1, <1>2, Inductive, PTL DEF Spec

-----------------------------------------------------------------------------
(* What the steps that hand a task on do to the sets of tasks.             *)
LEMMA Pushed ==
    ASSUME TypeOK, NEW c \in Callers, NEW t \in Tasks, enqueue(c, t)
    PROVE  /\ Queued' = Queued \cup {t} /\ Running' = Running
           /\ In("running")' = In("running")
<1>1. /\ tasks' \in Seq(Tasks) /\ Len(tasks') = Len(tasks) + 1 /\ Len(tasks) \in Nat
      /\ \A i \in 1 .. Len(tasks) : tasks'[i] = tasks[i]
      /\ tasks'[Len(tasks) + 1] = t
  BY QueueFacts, AppendProperties DEF enqueue, TypeOK
<1>2. DOMAIN tasks = 1 .. Len(tasks) /\ DOMAIN tasks' = 1 .. Len(tasks) + 1
  BY <1>1, LenProperties DEF TypeOK
<1>3. Queued' = Queued \cup {t}
  BY <1>1, <1>2 DEF Queued
<1> QED BY <1>3 DEF enqueue, Running, In

LEMMA Taken ==
    ASSUME TypeOK, Once, NEW w \in Workers, takeTask(w)
    PROVE  /\ Queued' = Queued \ {Head(tasks)} /\ Head(tasks) \in Queued
           /\ In("running")' = In("running") \cup {w} /\ w \notin In("running")
           /\ \A v \in In("running") : task'[v] = task[v]
           /\ task'[w] = Head(tasks)
           /\ Running' = Running \cup {Head(tasks)}
           /\ \A i, j \in DOMAIN tasks' : tasks'[i] = tasks'[j] => i = j
<1>1. /\ tasks # <<>> /\ tasks' = Tail(tasks) /\ tasks \in Seq(Tasks)
      /\ worker[w] = "locking"
      /\ worker' = [worker EXCEPT ![w] = "running"]
      /\ task' = [task EXCEPT ![w] = Head(tasks)]
  BY DEF takeTask, TypeOK
<1>2. /\ Len(tasks) \in Nat /\ Len(tasks) # 0
      /\ Head(tasks) = tasks[1]
      /\ Tail(tasks) \in Seq(Tasks)
      /\ Len(tasks') = Len(tasks) - 1
      /\ \A i \in 1 .. Len(tasks) - 1 : tasks'[i] = tasks[i + 1]
  BY <1>1, QueueFacts
<1>3. DOMAIN tasks = 1 .. Len(tasks) /\ DOMAIN tasks' = 1 .. Len(tasks) - 1
  BY <1>1, <1>2, LenProperties
<1>4. \A i, j \in 1 .. Len(tasks) : tasks[i] = tasks[j] => i = j
  BY <1>3 DEF Once
<1>5. \A i, j \in DOMAIN tasks' : tasks'[i] = tasks'[j] => i = j
  <2> SUFFICES ASSUME NEW i \in 1 .. Len(tasks) - 1, NEW j \in 1 .. Len(tasks) - 1,
                      tasks'[i] = tasks'[j]
               PROVE  i = j
    BY <1>3
  <2>1. i + 1 \in 1 .. Len(tasks) /\ j + 1 \in 1 .. Len(tasks)
    BY <1>2
  <2>2. tasks[i + 1] = tasks[j + 1]
    BY <1>2
  <2> QED BY <1>4, <2>1, <2>2
<1>6. Queued' = Queued \ {tasks[1]}
  <2>1. Queued' = {tasks'[i] : i \in 1 .. Len(tasks) - 1} /\ Queued = {tasks[i] : i \in 1 .. Len(tasks)}
    BY <1>3 DEF Queued
  <2>2. ASSUME NEW i \in 1 .. Len(tasks) - 1 PROVE tasks'[i] \in Queued \ {tasks[1]}
    <3>1. i + 1 \in 1 .. Len(tasks) /\ 1 \in 1 .. Len(tasks) /\ i + 1 # 1
      BY <1>2
    <3>2. tasks'[i] = tasks[i + 1] /\ tasks[i + 1] # tasks[1]
      BY <1>2, <1>4, <3>1
    <3> QED BY <2>1, <3>1, <3>2
  <2>3. ASSUME NEW i \in 1 .. Len(tasks), tasks[i] # tasks[1] PROVE tasks[i] \in Queued'
    <3>1. i - 1 \in 1 .. Len(tasks) - 1 /\ (i - 1) + 1 = i
      BY <1>2, <2>3
    <3>2. tasks'[i - 1] = tasks[i]
      BY <1>2, <3>1
    <3> QED BY <2>1, <3>1, <3>2
  <2> QED BY <2>1, <2>2, <2>3
<1>7. tasks[1] \in Queued
  BY <1>2, <1>3 DEF Queued
<1>8. /\ In("running")' = In("running") \cup {w} /\ w \notin In("running")
      /\ \A v \in In("running") : task'[v] = task[v]
      /\ task'[w] = Head(tasks)
  BY <1>1 DEF TypeOK, In
<1>9. Running' = Running \cup {Head(tasks)}
  BY <1>8 DEF Running
<1> QED BY <1>2, <1>5, <1>6, <1>7, <1>8, <1>9

LEMMA Ended ==
    ASSUME TypeOK, Once, NEW w \in Workers, endTask(w)
    PROVE  /\ In("running")' = In("running") \ {w} /\ w \in In("running")
           /\ \A v \in In("running") \ {w} : task'[v] = task[v]
           /\ Running' = Running \ {task[w]}
<1>1. /\ In("running")' = In("running") \ {w} /\ w \in In("running")
      /\ \A v \in In("running") \ {w} : task'[v] = task[v]
  BY DEF endTask, TypeOK, In
<1>2. \A v \in In("running") \ {w} : task[v] # task[w]
  BY <1>1 DEF Once
<1>3. Running' = {task[v] : v \in In("running") \ {w}}
  BY <1>1 DEF Running
<1> QED BY <1>1, <1>2, <1>3 DEF Running

(* Every other step leaves the tasks where they are.                       *)
OtherStep ==
    /\ UNCHANGED <<tasks, task>>
    /\ In("running")' = In("running")

LEMMA StepKinds ==
    ASSUME TypeOK, [Next]_vars
    PROVE  \/ \E c \in Callers, t \in Tasks : enqueue(c, t)
           \/ \E w \in Workers : takeTask(w)
           \/ \E w \in Workers : endTask(w)
           \/ OtherStep /\ UNCHANGED finished
<1>1. ASSUME NEW c \in Callers, NEW t \in Tasks, enqueueThrows(c, t) PROVE OtherStep
  BY <1>1 DEF enqueueThrows, OtherStep, In
<1>2. ASSUME NEW c \in Callers, notify_one(c) PROVE OtherStep
  BY <1>2 DEF notify_one, OtherStep, In, TypeOK
<1>3. ASSUME NEW w \in Workers, wait(w) \/ exit(w) \/ spuriousWakeup(w) PROVE OtherStep
  BY <1>3 DEF wait, exit, spuriousWakeup, OtherStep, In, TypeOK
<1>4. ASSUME setStop \/ notify_all \/ join \/ UNCHANGED vars PROVE OtherStep
  BY <1>4 DEF setStop, notify_all, join, vars, OtherStep, In, TypeOK
<1> QED BY <1>1, <1>2, <1>3, <1>4
        DEF Next, WorkerStep, Terminated, enqueueThrows, notify_one, wait, exit,
            spuriousWakeup, setStop, notify_all, join, vars

LEMMA OnceInit == Init => Once
<1> SUFFICES ASSUME Init PROVE Once
  OBVIOUS
<1>1. In("running") = {} /\ tasks = <<>>
  BY DEF Init, In
<1> QED BY <1>1 DEF Once, Queued, Running

LEMMA OnceNext == IndInv /\ Once /\ [Next]_vars => Once'
<1> SUFFICES ASSUME IndInv, Once, [Next]_vars PROVE Once'
  OBVIOUS
<1>t. TypeOK
  BY DEF IndInv
<1>1. ASSUME NEW c \in Callers, NEW t \in Tasks, enqueue(c, t) PROVE Once'
  <2>1. /\ Queued' = Queued \cup {t} /\ Running' = Running
        /\ In("running")' = In("running")
    BY <1>1, <1>t, Pushed
  <2>2. t \notin Queued /\ t \notin Running /\ task' = task
    BY <1>1 DEF enqueue, MayEnqueue
  <2>3. \A i, j \in DOMAIN tasks' : tasks'[i] = tasks'[j] => i = j
    <3>1. /\ tasks' \in Seq(Tasks) /\ Len(tasks') = Len(tasks) + 1 /\ Len(tasks) \in Nat
          /\ \A i \in 1 .. Len(tasks) : tasks'[i] = tasks[i]
          /\ tasks'[Len(tasks) + 1] = t
      BY <1>1, <1>t, QueueFacts, AppendProperties DEF enqueue, TypeOK
    <3>2. DOMAIN tasks = 1 .. Len(tasks) /\ DOMAIN tasks' = 1 .. Len(tasks) + 1
      BY <1>t, <3>1, LenProperties DEF TypeOK
    <3>3. \A i \in 1 .. Len(tasks) : tasks[i] # t
      BY <2>2, <3>2 DEF Queued
    <3> QED BY <3>1, <3>2, <3>3 DEF Once
  <2> QED BY <2>1, <2>2, <2>3 DEF Once
<1>2. ASSUME NEW w \in Workers, takeTask(w) PROVE Once'
  <2>1. \A v \in In("running") : task[v] # Head(tasks)
    BY <1>2, <1>t, Taken DEF Once, Running
  <2> QED BY <1>2, <1>t, <2>1, Taken DEF Once
<1>3. ASSUME NEW w \in Workers, endTask(w) PROVE Once'
  <2>1. tasks' = tasks
    BY <1>3 DEF endTask
  <2>2. Queued' = Queued
    BY <2>1 DEF Queued
  <2> QED BY <1>3, <1>t, <2>1, <2>2, Ended DEF Once
<1>4. ASSUME OtherStep PROVE Once'
  BY <1>4 DEF OtherStep, Once, Queued, Running
<1> QED BY <1>t, <1>1, <1>2, <1>3, <1>4, StepKinds

(* Fewer tasks run than there are workers when one of them takes a task.   *)
LEMMA Room ==
    ASSUME TypeOK, NEW w \in Workers, w \notin In("running")
    PROVE  /\ Cardinality(Running) \in Nat /\ Cardinality(Workers) \in Nat
           /\ Cardinality(Running) < Cardinality(Workers)
<1>1. IsFiniteSet(Workers) /\ In("running") \subseteq Workers \ {w}
  BY WorkersAssumption DEF In
<1>2. /\ IsFiniteSet(Workers \ {w})
      /\ Cardinality(Workers \ {w}) = Cardinality(Workers) - 1
      /\ Cardinality(Workers) \in Nat
  BY <1>1, FS_RemoveElement, FS_CardinalityType
<1>3. /\ IsFiniteSet(In("running")) /\ Cardinality(In("running")) \in Nat
      /\ Cardinality(In("running")) <= Cardinality(Workers \ {w})
  BY <1>1, <1>2, FS_Subset, FS_CardinalityType
<1>4. /\ IsFiniteSet(Running) /\ Cardinality(Running) \in Nat
      /\ Cardinality(Running) <= Cardinality(In("running"))
  <2> DEFINE held == [v \in In("running") |-> task[v]]
  <2>1. held \in Surjection(In("running"), Running)
    BY DEF Surjection, Running
  <2> HIDE DEF held
  <2> QED BY <1>3, <2>1, FS_Surjection, FS_CardinalityType
<1> QED BY <1>2, <1>3, <1>4

(* The pool does what TaskPool allows and nothing else (its safety part):  *)
(* every accepted task is started at most once, in the order of            *)
(* acceptance, and a stopped pool accepts none.                            *)
THEOREM Refinement == Spec => P!Safety
<1>1. Init => P!Init
  <2> SUFFICES ASSUME Init PROVE P!Init
    OBVIOUS
  <2>1. In("running") = {}
    BY DEF Init, In
  <2> QED BY <2>1 DEF Init, P!Init, Running
<1>2. IndInv /\ Once /\ [Next]_vars => [P!Next]_(P!vars)
  <2> SUFFICES ASSUME IndInv, Once, [Next]_vars PROVE P!Next \/ UNCHANGED P!vars
    OBVIOUS
  <2>t. TypeOK
    BY DEF IndInv
  <2>k. ASSUME NEW t, t \notin Queued \cup Running \cup finished \cup refused
        PROVE  ~P!Known(t)
    BY <2>k DEF P!Known, Queued
  <2>1. ASSUME NEW c \in Callers, NEW t \in Tasks, enqueue(c, t) PROVE P!Accept(t)
    <3>1. Running' = Running
      BY <2>1, <2>t, Pushed
    <3> QED BY <2>1, <2>k, <3>1 DEF enqueue, MayEnqueue, P!Accept
  <2>2. ASSUME NEW c \in Callers, NEW t \in Tasks, enqueueThrows(c, t) PROVE P!Refuse(t)
    <3>1. Running' = Running
      BY <2>2 DEF enqueueThrows, Running, In
    <3> QED BY <2>2, <2>k, <3>1 DEF enqueueThrows, MayEnqueue, P!Refuse
  <2>3. ASSUME NEW w \in Workers, takeTask(w) PROVE P!Start
    <3>1. Running' = Running \cup {Head(tasks)} /\ w \notin In("running")
      BY <2>3, <2>t, Taken
    <3>2. Cardinality(Running) < Cardinality(Workers)
      BY <2>t, <3>1, Room
    <3>3. tasks # <<>> /\ tasks' = Tail(tasks) /\ UNCHANGED <<finished, refused, stop>>
      BY <2>3 DEF takeTask
    <3>4. P!Cardinality(Running) < P!Cardinality(Workers)
      BY <3>2, Zenon DEF Cardinality, P!Cardinality
    <3> QED BY <3>1, <3>3, <3>4, Zenon DEF P!Start
  <2>4. ASSUME NEW w \in Workers, endTask(w) PROVE \E t \in Tasks : P!Finish(t)
    <3>1. w \in In("running") /\ Running' = Running \ {task[w]}
      BY <2>4, <2>t, Ended
    <3>2. task[w] \in Tasks /\ task[w] \in Running
      BY <2>4, <2>t, <3>1 DEF IndInv, Holding, TypeOK, Running
    <3>3. P!Finish(task[w])
      BY <2>4, <3>1, <3>2 DEF endTask, P!Finish
    <3> QED BY <3>2, <3>3
  <2>5. ASSUME setStop PROVE P!Close
    <3>1. ~stop
      BY <2>5 DEF setStop, IndInv, StopMeansDestroyed
    <3> QED BY <2>5, <3>1 DEF setStop, P!Close, Running, In
  <2>6. ASSUME NEW c \in Callers, notify_one(c) PROVE UNCHANGED P!vars
    <3>1. In("running")' = In("running")
      BY <2>6, <2>t DEF notify_one, TypeOK, In
    <3> QED BY <2>6, <3>1 DEF notify_one, P!vars, Running
  <2>7. ASSUME NEW w \in Workers, wait(w) \/ exit(w) \/ spuriousWakeup(w)
        PROVE  UNCHANGED P!vars
    <3>1. In("running")' = In("running")
      BY <2>7, <2>t DEF wait, exit, spuriousWakeup, TypeOK, In
    <3> QED BY <2>7, <3>1 DEF wait, exit, spuriousWakeup, P!vars, Running
  <2>8. ASSUME notify_all \/ join \/ UNCHANGED vars PROVE UNCHANGED P!vars
    <3>1. In("running")' = In("running")
      BY <2>8, <2>t DEF notify_all, join, vars, TypeOK, In
    <3> QED BY <2>8, <3>1 DEF notify_all, join, vars, P!vars, Running
  <2> QED BY <2>1, <2>2, <2>3, <2>4, <2>5, <2>6, <2>7, <2>8
          DEF Next, WorkerStep, Terminated, P!Next
<1> QED BY <1>1, <1>2, Inductive, OnceInit, OnceNext, PTL DEF Spec, P!Safety
=============================================================================
