-------------------------- MODULE LifecycleProofs ---------------------------
(***************************************************************************)
(* Descriptor numbers and whom they belong to, for any number of           *)
(* connections, workers and numbers.                                       *)
(***************************************************************************)
EXTENDS Lifecycle, FiniteSetTheorems, WellFoundedInduction, SequenceTheorems, TLAPS

Serving == main \in {"start", "started", "close", "join"}

Busy(w) == worker[w] # IdleWorker

(* Each number is where its holder has it.                                 *)
Owned ==
    Serving =>
        /\ \A i \in DOMAIN tasks : table[tasks[i].fd] = tasks[i].conn
        /\ \A w \in Workers : Busy(w) => table[worker[w].fd] = worker[w].conn
        /\ \A b \in Browsers : browserFd[b] # NoFd => table[browserFd[b]] = b

(* Nor does the server's own business take a number from a connection.     *)
OwnNumbers ==
    /\ main \in {"started", "close"} /\ serverSocket \in Fds =>
          table[serverSocket] = IF acceptor.at = "none" THEN Free ELSE Listener
    /\ Serving /\ acceptor.at = "accept" => table[acceptor.fd] = Reserved

(* A connection is queued once, or served once, or not accepted yet.       *)
Once ==
    /\ \A i, j \in DOMAIN tasks : tasks[i].conn = tasks[j].conn => i = j
    /\ \A v, w \in Workers : Busy(v) /\ Busy(w) /\ worker[v].conn = worker[w].conn => v = w
    /\ \A i \in DOMAIN tasks, w \in Workers : Busy(w) => tasks[i].conn # worker[w].conn
    /\ \A i \in DOMAIN tasks : tasks[i].conn \notin backlog
    /\ \A w \in Workers : Busy(w) => worker[w].conn \notin backlog

(* No thread has a connection or a number before start.                    *)
NotStarted ==
    main = "start" => /\ tasks = <<>> /\ \A w \in Workers : ~Busy(w)
                      /\ acceptor.at = "none"
                      /\ \A b \in Browsers : browserFd[b] = NoFd

IndInv == TypeOK /\ Owned /\ OwnNumbers /\ Once /\ NotStarted

-----------------------------------------------------------------------------
(* The lowest free number is there: the intervals 0 .. x up to the free     *)
(* numbers x are finite sets, among which one has no other inside it.      *)
LEMMA LowestIsFree ==
    ASSUME FreeFds # {}
    PROVE  Lowest \in Fds /\ table[Lowest] = Free
<1> DEFINE Below == {0 .. x : x \in FreeFds}
<1>1. FreeFds \subseteq Nat
  BY ConstantsAssumption DEF FreeFds
<1>2. Below \subseteq FiniteSubsetsOf(Nat)
  <2> SUFFICES ASSUME NEW x \in Nat PROVE IsFiniteSet(0 .. x) /\ 0 .. x \subseteq Nat
    BY <1>1 DEF FiniteSubsetsOf
  <2> QED BY FS_Interval
<1>3. PICK B \in Below : \A C \in Below : <<C, B>> \notin StrictSubsetOrdering(Nat)
  <2>1. Below # {}
    OBVIOUS
  <2> HIDE DEF Below
  <2> QED BY <1>2, <2>1, FS_StrictSubsetOrderingWellFounded, WFMin
<1>4. PICK x \in FreeFds : B = 0 .. x
  OBVIOUS
<1>5. ASSUME NEW y \in FreeFds, ~(x <= y) PROVE FALSE
  <2>1. 0 .. y \in Below /\ 0 .. y \subseteq 0 .. x /\ x \in 0 .. x /\ x \notin 0 .. y
    BY <1>1, <1>5
  <2>2. <<0 .. y, 0 .. x>> \in StrictSubsetOrdering(Nat)
    BY <1>1, <2>1 DEF StrictSubsetOrdering
  <2> QED BY <1>3, <1>4, <2>1, <2>2
<1>6. Lowest \in FreeFds
  BY <1>4, <1>5 DEF Lowest, Min
<1> QED BY <1>6 DEF FreeFds

LEMMA CloseFacts ==
    ASSUME TypeOK, NEW fd
    PROVE  /\ closeSocket(fd) \in [Fds -> Clients \cup Browsers \cup {Listener, Reserved, Free}]
           /\ \A f \in Fds : /\ f # fd => closeSocket(fd)[f] = table[f]
                             /\ table[f] = Reserved => closeSocket(fd)[f] = Reserved
                             /\ table[f] = Free => closeSocket(fd)[f] = Free
BY DEF TypeOK, closeSocket

(* The types of what the parts of the state are made of.                   *)
LEMMA Parts ==
    ASSUME TypeOK
    PROVE  /\ \A i \in DOMAIN tasks : tasks[i] \in Connection
           /\ \A i \in DOMAIN tasks : tasks[i].conn \in Clients /\ tasks[i].fd \in Fds
           /\ \A w \in Workers : Busy(w) =>
                 /\ worker[w] \in [at : {"test", "recv", "close"}, conn : Clients, fd : Fds]
                 /\ worker[w].conn \in Clients /\ worker[w].fd \in Fds
           /\ \A w \in Workers : Busy(w) <=> worker[w].at # "idle"
           /\ \A b \in Browsers : browserFd[b] \in Fds \cup {NoFd}
           /\ acceptor.at = "accept" => acceptor.fd \in Fds
           /\ Len(tasks) \in Nat /\ DOMAIN tasks = 1 .. Len(tasks)
<1>1. \A i \in DOMAIN tasks : tasks[i] \in Connection
  BY ElementOfSeq, LenProperties DEF TypeOK
<1>2. \A w \in Workers :
         worker[w] \in {IdleWorker} \cup [at : {"test", "recv", "close"}, conn : Clients, fd : Fds]
  BY DEF TypeOK
<1>3. \A w \in Workers : Busy(w) <=> worker[w].at # "idle"
  BY <1>2 DEF Busy, IdleWorker
<1>4. Len(tasks) \in Nat /\ DOMAIN tasks = 1 .. Len(tasks)
  BY LenProperties DEF TypeOK
<1> QED BY <1>1, <1>2, <1>3, <1>4 DEF Busy, Connection, TypeOK

LEMMA InitIndInv == Init => IndInv
<1> SUFFICES ASSUME Init PROVE IndInv
  OBVIOUS
<1>1. TypeOK
  BY EmptySeq DEF Init, TypeOK, MainPlaces
<1> QED BY <1>1, ConstantsAssumption
        DEF Init, IndInv, Owned, OwnNumbers, Once, NotStarted, Busy

-----------------------------------------------------------------------------
(* Main: start, its failure, stop and the destructor.                      *)
LEMMA MainStep ==
    ASSUME IndInv, startFails \/ start \/ stop \/ Shutdown
    PROVE  IndInv'
<1> USE DEF IndInv
<1>1. CASE startFails
  <2>1. serverSocket' \in Fds \cup {NoFd}
        /\ (serverSocket' \in Fds => table[serverSocket'] = Free)
    BY <1>1, LowestIsFree, ConstantsAssumption DEF startFails
  <2>2. TypeOK'
    BY <1>1, <2>1 DEF startFails, TypeOK, MainPlaces, Connection
  <2> QED BY <1>1, <2>1, <2>2 DEF startFails, Owned, OwnNumbers, Once, NotStarted, Serving, Busy
<1>2. CASE start
  <2>1. Lowest \in Fds /\ table[Lowest] = Free
    BY <1>2, LowestIsFree DEF start
  <2>2. TypeOK'
    BY <1>2, <2>1 DEF start, TypeOK, MainPlaces, Connection
  <2>3. table' = [table EXCEPT ![Lowest] = Listener] /\ serverSocket' = Lowest
    BY <1>2 DEF start
  <2> HIDE DEF Lowest
  <2>4. table'[serverSocket'] = Listener
    BY <2>1, <2>3 DEF TypeOK
  <2> QED BY <1>2, <2>2, <2>4 DEF start, Owned, OwnNumbers, Once, NotStarted, Serving, Busy
<1>3. CASE stop
  <2>1. TypeOK'
    BY <1>3 DEF stop, TypeOK, MainPlaces, Connection
  <2> QED BY <1>3, <2>1 DEF stop, Owned, OwnNumbers, Once, NotStarted, Serving, Busy
<1>4. CASE closeServerSocket
  <2>1. table' = closeSocket(serverSocket) /\ backlog' \subseteq backlog
    BY <1>4 DEF closeServerSocket
  <2>2. /\ table' \in [Fds -> Clients \cup Browsers \cup {Listener, Reserved, Free}]
        /\ \A f \in Fds : /\ f # serverSocket => table'[f] = table[f]
                          /\ table[f] = Reserved => table'[f] = Reserved
    BY <2>1, CloseFacts
  <2>3. \A f \in Fds : table[f] \in Clients \cup Browsers => table'[f] = table[f]
    BY <1>4, <2>2, ConstantsAssumption DEF closeServerSocket, OwnNumbers
  <2>4. TypeOK'
    BY <1>4, <2>1, <2>2 DEF closeServerSocket, TypeOK, MainPlaces, Connection
  <2>5. Owned'
    BY <1>4, <2>3, Parts DEF closeServerSocket, Owned, Serving, Busy
  <2>6. OwnNumbers'
    BY <1>4, <2>2, Parts DEF closeServerSocket, OwnNumbers, Serving
  <2> QED BY <1>4, <2>1, <2>4, <2>5, <2>6 DEF closeServerSocket, Once, NotStarted, Busy
<1>5. CASE joinAcceptThread \/ sessionsDeleted \/ poolDeleted
  <2>1. TypeOK'
    BY <1>5 DEF joinAcceptThread, sessionsDeleted, poolDeleted, TypeOK, MainPlaces, Connection
  <2> QED BY <1>5, <2>1 DEF joinAcceptThread, sessionsDeleted, poolDeleted, Owned, OwnNumbers,
             Once, NotStarted, Serving, Busy
<1>6. ASSUME NEW fd \in Fds, deleteSessions(fd)
      PROVE  IndInv'
  <2>1. TypeOK'
    BY <1>6, CloseFacts DEF deleteSessions, TypeOK, MainPlaces, Connection
  <2> QED BY <1>6, <2>1 DEF deleteSessions, Owned, OwnNumbers, Once, NotStarted, Serving, Busy
<1> QED BY <1>1, <1>2, <1>3, <1>4, <1>5, <1>6 DEF Shutdown

-----------------------------------------------------------------------------
(* The accept thread.                                                      *)
LEMMA AcceptStep ==
    ASSUME IndInv, Accepting
    PROVE  IndInv'
<1> USE DEF IndInv
<1>1. CASE testRunning
  <2>1. acceptor' \in [at : {"none", "test", "call", "ended"}, fd : {NoFd}]
        /\ acceptor'.at \in {"call", "ended"}
    BY <1>1 DEF testRunning, TypeOK
  <2>2. TypeOK'
    BY <1>1, <2>1 DEF testRunning, TypeOK, Connection
  <2> QED BY <1>1, <2>1, <2>2 DEF testRunning, Owned, OwnNumbers, Once, NotStarted, Serving, Busy
<1>2. CASE callAccept /\ table' = table
  <2>1. acceptor' \in [at : {"none", "test", "call", "ended"}, fd : {NoFd}]
        /\ acceptor'.at \in {"test", "ended"}
    <3>1. CASE serverSocket \in Fds /\ table[serverSocket] = Listener /\ FreeFds # {}
      <4>1. Lowest \in Fds /\ table[Lowest] = Free /\ table' = [table EXCEPT ![Lowest] = Reserved]
        BY <1>2, <3>1, LowestIsFree DEF callAccept
      <4> HIDE DEF Lowest
      <4>2. table'[Lowest] = Reserved
        BY <4>1 DEF TypeOK
      <4> QED BY <1>2, <4>1, <4>2, ConstantsAssumption
    <3>2. CASE ~(serverSocket \in Fds /\ table[serverSocket] = Listener /\ FreeFds # {})
      BY <1>2, <3>2 DEF callAccept, TypeOK
    <3> QED BY <3>1, <3>2
  <2>2. TypeOK'
    BY <1>2, <2>1 DEF callAccept, TypeOK, Connection
  <2> QED BY <1>2, <2>1, <2>2 DEF callAccept, Owned, OwnNumbers, Once, NotStarted, Serving, Busy
<1>3. CASE callAccept /\ table' # table
  <2>1. /\ FreeFds # {} /\ acceptor' = [at |-> "accept", fd |-> Lowest]
        /\ table' = [table EXCEPT ![Lowest] = Reserved] /\ table[serverSocket] = Listener
        /\ UNCHANGED <<main, running, serverSocket, backlog, tasks, worker,
                       clientSockets, browserFd, left>>
    BY <1>3 DEF callAccept
  <2>2. Lowest \in Fds /\ table[Lowest] = Free
    BY <2>1, LowestIsFree
  <2> HIDE DEF Lowest
  <2>3. /\ table' \in [Fds -> Clients \cup Browsers \cup {Listener, Reserved, Free}]
        /\ table'[Lowest] = Reserved /\ \A f \in Fds \ {Lowest} : table'[f] = table[f]
    BY <2>1, <2>2 DEF TypeOK
  <2>4. TypeOK'
    BY <2>1, <2>2, <2>3 DEF TypeOK, Connection
  <2>5. \A f \in Fds : table[f] \in Clients \cup Browsers => table'[f] = table[f]
    BY <2>2, <2>3, ConstantsAssumption
  <2>6. Owned'
    BY <2>1, <2>5, Parts DEF Owned, Serving, Busy
  <2>7. OwnNumbers'
    BY <2>1, <2>2, <2>3, ConstantsAssumption DEF OwnNumbers, Serving
  <2>8. main # "start"
    BY <1>3 DEF callAccept, NotStarted
  <2> QED BY <2>1, <2>4, <2>6, <2>7, <2>8 DEF Once, NotStarted, Busy
<1>4. ASSUME NEW c \in Clients, acceptConnection(c)
      PROVE  IndInv'
  <2> DEFINE e == [conn |-> c, fd |-> acceptor.fd]
  <2>1. /\ acceptor.at = "accept" /\ acceptor.fd \in Fds /\ c \in backlog
        /\ table' = [table EXCEPT ![acceptor.fd] = c] /\ tasks' = Append(tasks, e)
        /\ acceptor' = [at |-> "test", fd |-> NoFd] /\ backlog' \subseteq backlog \ {c}
        /\ UNCHANGED <<main, running, serverSocket, worker, clientSockets, browserFd, left>>
    BY <1>4, Parts DEF acceptConnection
  <2>2. e \in Connection /\ e.conn = c /\ e.fd = acceptor.fd
    BY <2>1 DEF Connection
  <2> HIDE DEF e
  <2>3. /\ tasks' \in Seq(Connection) /\ DOMAIN tasks' = DOMAIN tasks \cup {Len(tasks) + 1}
        /\ tasks'[Len(tasks) + 1] = e /\ Len(tasks) + 1 \notin DOMAIN tasks
        /\ \A i \in DOMAIN tasks : tasks'[i] = tasks[i]
    BY <2>1, <2>2, Parts, AppendProperties, LenProperties DEF TypeOK
  <2>4. /\ table' \in [Fds -> Clients \cup Browsers \cup {Listener, Reserved, Free}]
        /\ table'[acceptor.fd] = c /\ \A f \in Fds \ {acceptor.fd} : table'[f] = table[f]
    BY <2>1 DEF TypeOK
  <2>5. TypeOK'
    BY <2>1, <2>3, <2>4 DEF TypeOK
  <2>6. main # "start"
    BY <2>1 DEF NotStarted
  <2>7. Serving => \A f \in Fds : table[f] # Reserved => table'[f] = table[f]
    BY <2>1, <2>4 DEF OwnNumbers
  <2>8. Owned'
    <3> SUFFICES ASSUME Serving PROVE Owned'
      BY <2>1 DEF Owned, Serving
    <3>1. \A i \in DOMAIN tasks : table'[tasks[i].fd] = tasks[i].conn
      BY <2>7, Parts, ConstantsAssumption, ZenonT(60) DEF Owned
    <3>2. \A w \in Workers : Busy(w) => table'[worker[w].fd] = worker[w].conn
      BY <2>7, Parts, ConstantsAssumption, ZenonT(60) DEF Owned
    <3>3. \A b \in Browsers : browserFd[b] # NoFd => table'[browserFd[b]] = b
      BY <2>7, Parts, ConstantsAssumption DEF Owned
    <3> QED BY <2>1, <2>2, <2>3, <2>4, <3>1, <3>2, <3>3 DEF Owned, Busy
  <2>9. OwnNumbers'
    <3>1. main \in {"started", "close"} /\ serverSocket \in Fds
              => table'[serverSocket] = table[serverSocket]
      BY <2>7, ConstantsAssumption DEF OwnNumbers, Serving
    <3> QED BY <2>1, <3>1 DEF OwnNumbers
  <2>10. Once'
    <3>1. \A i \in DOMAIN tasks : tasks[i].conn # c
      BY <2>1 DEF Once
    <3>2. \A w \in Workers : Busy(w) => worker[w].conn # c
      BY <2>1 DEF Once
    <3> QED BY <2>1, <2>2, <2>3, <3>1, <3>2 DEF Once, Busy
  <2> QED BY <2>1, <2>5, <2>6, <2>8, <2>9, <2>10 DEF NotStarted
<1> QED BY <1>1, <1>2, <1>3, <1>4 DEF Accepting

-----------------------------------------------------------------------------
(* A worker.                                                               *)
LEMMA TakeStep ==
    ASSUME IndInv, NEW w \in Workers, takeTask(w)
    PROVE  IndInv'
<1> USE DEF IndInv
<1>1. tasks # <<>> /\ ~Busy(w) /\ tasks' = Tail(tasks)
  BY DEF takeTask, Busy
<1>2. /\ Head(tasks) = tasks[1] /\ 1 \in DOMAIN tasks
      /\ tasks' \in Seq(Connection) /\ Len(tasks') = Len(tasks) - 1
      /\ DOMAIN tasks' = 1 .. Len(tasks) - 1
      /\ \A i \in DOMAIN tasks' : tasks'[i] = tasks[i + 1] /\ i + 1 \in DOMAIN tasks /\ i + 1 # 1
  <2>1. Len(tasks) \in Nat \ {0} /\ DOMAIN tasks = 1 .. Len(tasks)
    BY <1>1, LenProperties, EmptySeq DEF TypeOK
  <2>2. tasks' \in Seq(Connection) /\ Len(tasks') = Len(tasks) - 1
        /\ \A i \in 1 .. Len(tasks') : tasks'[i] = tasks[i + 1]
    BY <1>1, HeadTailProperties DEF TypeOK
  <2>3. DOMAIN tasks' = 1 .. Len(tasks')
    BY <2>2, LenProperties
  <2>4. Head(tasks) = tasks[1]
    BY <1>1 DEF TypeOK
  <2> QED BY <2>1, <2>2, <2>3, <2>4
<1> DEFINE e == [at |-> "test", conn |-> tasks[1].conn, fd |-> tasks[1].fd]
<1>3. /\ worker' = [worker EXCEPT ![w] = e]
      /\ UNCHANGED <<main, running, serverSocket, table, acceptor, backlog,
                     clientSockets, browserFd, left>>
  BY <1>2 DEF takeTask
<1>4. /\ e \in [at : {"test", "recv", "close"}, conn : Clients, fd : Fds]
      /\ e.conn = tasks[1].conn /\ e.fd = tasks[1].fd /\ e # IdleWorker
  BY <1>2, Parts DEF IdleWorker
<1> HIDE DEF e
<1>5. worker'[w] = e /\ \A v \in Workers \ {w} : worker'[v] = worker[v]
  BY <1>3 DEF TypeOK
<1>6. TypeOK'
  BY <1>2, <1>3, <1>4 DEF TypeOK
<1>7. Busy(w)' /\ \A v \in Workers \ {w} : Busy(v)' = Busy(v)
  BY <1>4, <1>5 DEF Busy
<1>8. Owned'
  BY <1>2, <1>3, <1>4, <1>5, <1>7 DEF Owned, Serving
<1>9. Once'
  BY <1>2, <1>3, <1>4, <1>5, <1>7 DEF Once
<1>10. main # "start"
  BY <1>1 DEF NotStarted
<1> QED BY <1>3, <1>6, <1>8, <1>9, <1>10 DEF OwnNumbers, NotStarted, Serving

LEMMA HandlerStep ==
    ASSUME IndInv, NEW w \in Workers, NEW keeps \in BOOLEAN,
           loop(w) \/ command(w, keeps) \/ disconnected(w)
    PROVE  IndInv'
<1> USE DEF IndInv
<1>1. /\ Busy(w) /\ worker' \in [Workers -> {IdleWorker}
                        \cup [at : {"test", "recv", "close"}, conn : Clients, fd : Fds]]
      /\ worker'[w].at \in {"test", "recv", "close"}
      /\ worker'[w].conn = worker[w].conn /\ worker'[w].fd = worker[w].fd
      /\ \A v \in Workers \ {w} : worker'[v] = worker[v]
      /\ UNCHANGED <<main, running, serverSocket, table, acceptor, backlog, tasks,
                     browserFd, left>>
  <2>1. Busy(w) /\ worker[w] \in [at : {"test", "recv", "close"}, conn : Clients, fd : Fds]
    BY Parts DEF loop, command, disconnected
  <2>2. \E at \in {"test", "recv", "close"} : worker' = [worker EXCEPT ![w].at = at]
    BY DEF loop, command, disconnected
  <2> QED BY <2>1, <2>2 DEF TypeOK, loop, command, disconnected
<1>2. clientSockets' \subseteq Fds
  BY <1>1, Parts DEF loop, command, disconnected, TypeOK
<1>3. TypeOK'
  BY <1>1, <1>2 DEF TypeOK
<1>4. \A v \in Workers : /\ Busy(v)' = Busy(v)
                         /\ Busy(v) => /\ worker'[v].conn = worker[v].conn
                                       /\ worker'[v].fd = worker[v].fd
  BY <1>1 DEF Busy, IdleWorker
<1> QED BY <1>1, <1>3, <1>4 DEF Owned, OwnNumbers, Once, NotStarted, Serving

LEMMA CloseStep ==
    ASSUME IndInv, NEW w \in Workers, closeClient(w)
    PROVE  IndInv'
<1> USE DEF IndInv
<1>1. /\ Busy(w) /\ worker[w].fd \in Fds /\ table' = closeSocket(worker[w].fd)
      /\ worker' = [worker EXCEPT ![w] = IdleWorker]
      /\ UNCHANGED <<main, running, serverSocket, acceptor, backlog, tasks,
                     clientSockets, browserFd, left>>
  BY Parts DEF closeClient
<1>2. /\ table' \in [Fds -> Clients \cup Browsers \cup {Listener, Reserved, Free}]
      /\ \A f \in Fds : /\ f # worker[w].fd => table'[f] = table[f]
                        /\ table[f] = Reserved => table'[f] = Reserved
                        /\ table[f] = Free => table'[f] = Free
  BY <1>1, CloseFacts
<1>3. TypeOK'
  BY <1>1, <1>2 DEF TypeOK
<1>4. ~Busy(w)' /\ \A v \in Workers \ {w} : worker'[v] = worker[v] /\ Busy(v)' = Busy(v)
  BY <1>1 DEF Busy, TypeOK
<1>5. main # "start"
  BY <1>1 DEF NotStarted
<1>6. Serving => \A f \in Fds : table[f] # worker[w].conn => table'[f] = table[f]
  BY <1>1, <1>2 DEF Owned
<1>7. worker[w].conn \in Clients
  BY <1>1, Parts
<1>8. Owned'
  <2> SUFFICES ASSUME Serving PROVE Owned'
    BY <1>1 DEF Owned, Serving
  <2>1. \A i \in DOMAIN tasks : table'[tasks[i].fd] = tasks[i].conn
    BY <1>1, <1>6, Parts DEF Owned, Once
  <2>2. \A v \in Workers \ {w} : Busy(v) => table'[worker[v].fd] = worker[v].conn
    BY <1>1, <1>6, Parts DEF Owned, Once
  <2>3. \A b \in Browsers : browserFd[b] # NoFd => table'[browserFd[b]] = b
    BY <1>6, <1>7, Parts, ConstantsAssumption, ZenonT(60) DEF Owned
  <2> QED BY <1>1, <1>4, <2>1, <2>2, <2>3 DEF Owned
<1>9. OwnNumbers'
  <2>1. Serving /\ serverSocket \in Fds /\ table[serverSocket] \in {Listener, Free}
            => table'[serverSocket] = table[serverSocket]
    BY <1>6, <1>7, ConstantsAssumption
  <2> QED BY <1>1, <1>2, <2>1, Parts DEF OwnNumbers, Serving
<1>10. Once'
  BY <1>1, <1>4 DEF Once
<1> QED BY <1>1, <1>3, <1>5, <1>8, <1>9, <1>10 DEF NotStarted

-----------------------------------------------------------------------------
(* Clients and browsers.                                                   *)
LEMMA OutsideStep ==
    ASSUME IndInv, \/ \E c \in Clients : Connect(c) \/ Leave(c)
                   \/ \E b \in Browsers : onWebSocketOpen(b) \/ onWebSocketClose(b)
    PROVE  IndInv'
<1> USE DEF IndInv
<1>1. ASSUME NEW c \in Clients, Connect(c)
      PROVE  IndInv'
  <2>1. /\ backlog' = backlog \cup {c}
        /\ UNCHANGED <<main, running, serverSocket, table, acceptor, tasks, worker,
                       clientSockets, browserFd, left>>
    BY <1>1 DEF Connect
  <2>2. /\ \A i \in DOMAIN tasks : tasks[i].conn # c
        /\ \A w \in Workers : Busy(w) => worker[w].conn # c
    BY <1>1 DEF Connect, InProcess, Busy
  <2>3. TypeOK'
    BY <2>1 DEF TypeOK
  <2> QED BY <2>1, <2>2, <2>3 DEF Owned, OwnNumbers, Once, NotStarted, Serving, Busy
<1>2. ASSUME NEW c \in Clients, Leave(c)
      PROVE  IndInv'
  <2>1. TypeOK'
    BY <1>2 DEF Leave, TypeOK
  <2> QED BY <1>2, <2>1 DEF Leave, Owned, OwnNumbers, Once, NotStarted, Serving, Busy
<1>3. ASSUME NEW b \in Browsers, onWebSocketOpen(b)
      PROVE  IndInv'
  <2>1. /\ main # "start" /\ FreeFds # {} /\ browserFd' = [browserFd EXCEPT ![b] = Lowest]
        /\ table' = [table EXCEPT ![Lowest] = b] /\ browserFd[b] = NoFd
        /\ UNCHANGED <<main, running, serverSocket, acceptor, backlog, tasks, worker,
                       clientSockets, left>>
    BY <1>3 DEF onWebSocketOpen
  <2>2. Lowest \in Fds /\ table[Lowest] = Free
    BY <2>1, LowestIsFree
  <2> HIDE DEF Lowest
  <2>3. TypeOK'
    BY <2>1, <2>2 DEF TypeOK
  <2>4. table'[Lowest] = b /\ \A f \in Fds : table[f] # Free => table'[f] = table[f]
    BY <2>1, <2>2 DEF TypeOK
  <2>5. browserFd'[b] = Lowest /\ \A a \in Browsers \ {b} : browserFd'[a] = browserFd[a]
    BY <2>1 DEF TypeOK
  <2>6. Owned'
    <3> SUFFICES ASSUME Serving PROVE Owned'
      BY <2>1 DEF Owned, Serving
    <3>1. \A i \in DOMAIN tasks : table'[tasks[i].fd] = tasks[i].conn
      BY <2>4, Parts, ConstantsAssumption, ZenonT(60) DEF Owned
    <3>2. \A w \in Workers : Busy(w) => table'[worker[w].fd] = worker[w].conn
      BY <2>4, Parts, ConstantsAssumption, ZenonT(60) DEF Owned
    <3>3. \A a \in Browsers : browserFd'[a] # NoFd => table'[browserFd'[a]] = a
      <4>1. \A a \in Browsers \ {b} :
               browserFd[a] # NoFd => browserFd[a] \in Fds /\ table[browserFd[a]] = a /\ a # Free
        BY Parts, ConstantsAssumption DEF Owned
      <4> QED BY <2>4, <2>5, <4>1
    <3> QED BY <2>1, <3>1, <3>2, <3>3 DEF Owned, Busy
  <2>7. OwnNumbers'
    <3>1. Serving /\ acceptor.at = "accept" => table'[acceptor.fd] = Reserved
      BY <2>4, Parts, ConstantsAssumption DEF OwnNumbers
    <3>2. acceptor.at # "none"
      BY <1>3 DEF onWebSocketOpen
    <3>3. main \in {"started", "close"} /\ serverSocket \in Fds
              => table'[serverSocket] = Listener
      BY <2>4, <3>2, ConstantsAssumption DEF OwnNumbers
    <3> QED BY <2>1, <3>1, <3>2, <3>3 DEF OwnNumbers, Serving
  <2> QED BY <2>1, <2>3, <2>6, <2>7 DEF Once, NotStarted, Busy
<1>4. ASSUME NEW b \in Browsers, onWebSocketClose(b)
      PROVE  IndInv'
  <2>1. /\ browserFd[b] \in Fds /\ browserFd' = [browserFd EXCEPT ![b] = NoFd]
        /\ table' = closeSocket(browserFd[b])
        /\ UNCHANGED <<main, running, serverSocket, acceptor, backlog, tasks, worker,
                       clientSockets, left>>
    BY <1>4, Parts DEF onWebSocketClose
  <2>2. /\ table' \in [Fds -> Clients \cup Browsers \cup {Listener, Reserved, Free}]
        /\ \A f \in Fds : /\ f # browserFd[b] => table'[f] = table[f]
                          /\ table[f] = Reserved => table'[f] = Reserved
    BY <2>1, CloseFacts
  <2>3. TypeOK'
    BY <2>1, <2>2 DEF TypeOK
  <2>4. main # "start"
    BY <2>1, ConstantsAssumption DEF NotStarted
  <2>5. Serving => \A f \in Fds : table[f] # b => table'[f] = table[f]
    BY <2>1, <2>2, ConstantsAssumption DEF Owned
  <2>6. browserFd'[b] = NoFd /\ \A a \in Browsers \ {b} : browserFd'[a] = browserFd[a]
    BY <2>1 DEF TypeOK
  <2>7. \A c \in Clients : c # b
    BY ConstantsAssumption
  <2>8. Owned'
    <3> SUFFICES ASSUME Serving PROVE Owned'
      BY <2>1 DEF Owned, Serving
    <3>1. \A i \in DOMAIN tasks : table'[tasks[i].fd] = tasks[i].conn
      BY <2>5, <2>7, Parts DEF Owned
    <3>2. \A w \in Workers : Busy(w) => table'[worker[w].fd] = worker[w].conn
      BY <2>5, <2>7, Parts DEF Owned
    <3>3. \A a \in Browsers : browserFd'[a] # NoFd => table'[browserFd'[a]] = a
      BY <2>5, <2>6, Parts DEF Owned
    <3> QED BY <2>1, <3>1, <3>2, <3>3 DEF Owned, Busy
  <2>9. OwnNumbers'
    <3>1. Serving /\ serverSocket \in Fds /\ table[serverSocket] \in {Listener, Free}
              => table'[serverSocket] = table[serverSocket]
      BY <2>5, ConstantsAssumption
    <3> QED BY <2>1, <2>2, <3>1, Parts DEF OwnNumbers, Serving
  <2> QED BY <2>1, <2>3, <2>4, <2>8, <2>9 DEF Once, NotStarted, Busy
<1> QED BY <1>1, <1>2, <1>3, <1>4

-----------------------------------------------------------------------------
LEMMA IndInvNext == IndInv /\ [Next]_vars => IndInv'
<1> SUFFICES ASSUME IndInv, [Next]_vars
             PROVE  IndInv'
  OBVIOUS
<1>1. CASE UNCHANGED vars
  BY <1>1 DEF vars, IndInv, TypeOK, Connection, Owned, OwnNumbers, Once, NotStarted,
     Serving, Busy
<1>2. CASE Next
  <2>1. ASSUME NEW w \in Workers, Work(w) \/ \E keeps \in BOOLEAN : command(w, keeps)
        PROVE  IndInv'
    <3>1. TRUE \in BOOLEAN
      OBVIOUS
    <3> QED BY <2>1, <3>1, TakeStep, HandlerStep, CloseStep DEF Work
  <2> QED BY <1>2, <2>1, MainStep, AcceptStep, OutsideStep DEF Next
<1> QED BY <1>1, <1>2

LEMMA Inductive == Spec => []IndInv
BY InitIndInv, IndInvNext, PTL DEF Spec

(* Descriptors, queue and handlers keep their types.                       *)
THEOREM TypeCorrect == Spec => []TypeOK
<1>1. IndInv => TypeOK
  BY DEF IndInv
<1> QED BY <1>1, Inductive, PTL

(* Until the sessions are deleted nobody's number changes hands under them.*)
THEOREM Descriptors == Spec => []OwnDescriptor
<1>1. IndInv => OwnDescriptor
  BY DEF IndInv, Owned, Serving, Busy, OwnDescriptor
<1> QED BY <1>1, Inductive, PTL
=============================================================================
