----------------------------- MODULE Lifecycle ------------------------------
(***************************************************************************)
(* The life of a Server: start, the accept loop, connections that wait for *)
(* one of a few workers and keep it until they close, stop and the         *)
(* destructor.  Connections are told apart from the descriptor numbers     *)
(* they have, because the code passes numbers about and the kernel gives   *)
(* out the lowest one that is free.  The pool is TaskPool, and what        *)
(* commands do is in Connections; here a command adds its socket to a      *)
(* session or does nothing.  stop is called by nothing but the destructor, *)
(* which test_server reaches only when start has failed; it is public.     *)
(***************************************************************************)
EXTENDS Integers, FiniteSets, Sequences, FiniteSetsExt

CONSTANTS
    Clients,    \* TCP connections, each made once
    Browsers,   \* WebSocket connections, served by websocketpp's thread
    Workers,
    Fds,        \* descriptor numbers the process has left
    Listener,   \* the listening socket
    Reserved,   \* a number accept has taken and not yet filled
    Free,       \* a number not in use
    NoFd        \* SOCKET_ERROR_VALUE

ASSUME ConstantsAssumption ==
    /\ Fds \subseteq Nat /\ NoFd \notin Fds
    /\ {Listener, Reserved, Free} \cap (Clients \cup Browsers) = {}
    /\ Listener # Reserved /\ Listener # Free /\ Reserved # Free
    /\ Clients \cap Browsers = {}

VARIABLES
    main,           \* where start, stop or the destructor is
    running,
    serverSocket,
    table,          \* the process's descriptors, as the kernel sees them
    acceptor,       \* where acceptThread is, and the number accept has reserved
    backlog,        \* connections nobody has accepted yet
    tasks,          \* the pool's queue: connections and the numbers they had
    worker,         \* the handler each worker runs
    clientSockets,  \* the numbers kept in the sessions
    browserFd,      \* the number websocketpp uses for each browser, or NoFd
    left            \* the clients that have closed their end

vars == <<main, running, serverSocket, table, acceptor, backlog, tasks, worker,
          clientSockets, browserFd, left>>

MainPlaces == {"start", "started", "close", "join", "sessions", "sessionsAgain", "pool", "done"}

Connection == [conn : Clients, fd : Fds]

IdleWorker == [at |-> "idle"]

TypeOK ==
    /\ main \in MainPlaces
    /\ running \in BOOLEAN
    /\ serverSocket \in Fds \cup {NoFd}
    /\ table \in [Fds -> Clients \cup Browsers \cup {Listener, Reserved, Free}]
    /\ acceptor \in [at : {"none", "test", "call", "ended"}, fd : {NoFd}]
                    \cup [at : {"accept"}, fd : Fds]
    /\ backlog \in SUBSET Clients
    /\ tasks \in Seq(Connection)
    /\ worker \in [Workers -> {IdleWorker} \cup [at : {"test", "recv", "close"},
                                                 conn : Clients, fd : Fds]]
    /\ clientSockets \in SUBSET Fds
    /\ browserFd \in [Browsers -> Fds \cup {NoFd}]
    /\ left \in SUBSET Clients

Init ==
    /\ main = "start"
    /\ running = FALSE
    /\ serverSocket = NoFd
    /\ table = [fd \in Fds |-> Free]
    /\ acceptor = [at |-> "none", fd |-> NoFd]
    /\ backlog = {}
    /\ tasks = <<>>
    /\ worker = [w \in Workers |-> IdleWorker]
    /\ clientSockets = {}
    /\ browserFd = [b \in Browsers |-> NoFd]
    /\ left = {}

-----------------------------------------------------------------------------
(* Descriptors.                                                            *)

FreeFds == {fd \in Fds : table[fd] = Free}

Lowest == Min(FreeFds)

(* close, whoever the number belongs to; of a free one it fails.  A number *)
(* that a call of accept has reserved is not in use yet, and fails too.    *)
closeSocket(fd) ==
    IF fd \in Fds /\ table[fd] # Reserved THEN [table EXCEPT ![fd] = Free] ELSE table

(* A thread in accept keeps the listening socket alive after it is closed. *)
Listening == acceptor.at = "accept" \/ \E fd \in Fds : table[fd] = Listener

-----------------------------------------------------------------------------
(* Server::start.                                                          *)

(* Some call fails: the socket, if there was one, is closed and its number *)
(* kept.                                                                   *)
startFails ==
    /\ main = "start"
    /\ main' = "close"
    /\ serverSocket' \in {NoFd} \cup (IF FreeFds = {} THEN {} ELSE {Lowest})
    /\ UNCHANGED <<running, table, acceptor, backlog, tasks, worker,
                   clientSockets, browserFd, left>>

start ==
    /\ main = "start"
    /\ FreeFds # {}
    /\ main' = "started"
    /\ serverSocket' = Lowest
    /\ table' = [table EXCEPT ![Lowest] = Listener]
    /\ running' = TRUE
    /\ acceptor' = [at |-> "test", fd |-> NoFd]
    /\ UNCHANGED <<backlog, tasks, worker, clientSockets, browserFd, left>>

-----------------------------------------------------------------------------
(* Server::acceptConnections.                                              *)

testRunning ==
    /\ acceptor.at = "test"
    /\ acceptor' = [acceptor EXCEPT !.at = IF running THEN "call" ELSE "ended"]
    /\ UNCHANGED <<main, running, serverSocket, table, backlog, tasks, worker,
                   clientSockets, browserFd, left>>

(* accept reserves a number before it waits.  It fails without a listening *)
(* socket or a number; the loop then goes on, or ends, by running.         *)
callAccept ==
    /\ acceptor.at = "call"
    /\ IF serverSocket \in Fds /\ table[serverSocket] = Listener /\ FreeFds # {}
       THEN /\ acceptor' = [at |-> "accept", fd |-> Lowest]
            /\ table' = [table EXCEPT ![Lowest] = Reserved]
       ELSE /\ acceptor' = [acceptor EXCEPT !.at = IF running THEN "test" ELSE "ended"]
            /\ UNCHANGED table
    /\ UNCHANGED <<main, running, serverSocket, backlog, tasks, worker,
                   clientSockets, browserFd, left>>

(* accept returns, and the connection is queued for a worker.  The others  *)
(* are refused if the listening socket has been closed meanwhile.          *)
acceptConnection(c) ==
    /\ acceptor.at = "accept"
    /\ c \in backlog
    /\ table' = [table EXCEPT ![acceptor.fd] = c]
    /\ tasks' = Append(tasks, [conn |-> c, fd |-> acceptor.fd])
    /\ acceptor' = [at |-> "test", fd |-> NoFd]
    /\ backlog' = IF \E fd \in Fds : table[fd] = Listener THEN backlog \ {c} ELSE {}
    /\ UNCHANGED <<main, running, serverSocket, worker, clientSockets, browserFd, left>>

-----------------------------------------------------------------------------
(* A worker of the pool and Server::handleClientConnection.                *)

takeTask(w) ==
    /\ worker[w] = IdleWorker
    /\ tasks # <<>>
    /\ worker' = [worker EXCEPT ![w] =
            [at |-> "test", conn |-> Head(tasks).conn, fd |-> Head(tasks).fd]]
    /\ tasks' = Tail(tasks)
    /\ UNCHANGED <<main, running, serverSocket, table, acceptor, backlog,
                   clientSockets, browserFd, left>>

(* The welcome has gone out, or a command has been answered.               *)
loop(w) ==
    /\ worker[w].at = "test"
    /\ worker' = [worker EXCEPT ![w].at = IF running THEN "recv" ELSE "close"]
    /\ UNCHANGED <<main, running, serverSocket, table, acceptor, backlog, tasks,
                   clientSockets, browserFd, left>>

(* A command, which may be the CREATE or JOIN that keeps the number.       *)
command(w, keeps) ==
    /\ worker[w].at = "recv"
    /\ worker[w].conn \notin left
    /\ worker' = [worker EXCEPT ![w].at = "test"]
    /\ clientSockets' = IF keeps THEN clientSockets \cup {worker[w].fd} ELSE clientSockets
    /\ UNCHANGED <<main, running, serverSocket, table, acceptor, backlog, tasks,
                   browserFd, left>>

(* Mutated form of disconnected: continue instead of break.                *)
RecvAgain(w) ==
    /\ worker[w].at = "recv"
    /\ worker[w].conn \in left
    /\ worker' = [worker EXCEPT ![w].at = "test"]
    /\ UNCHANGED <<main, running, serverSocket, table, acceptor, backlog, tasks,
                   clientSockets, browserFd, left>>

(* recv returns 0.  A recv on its way when a session's destructor closes   *)
(* the number goes on until the peer leaves.                               *)
disconnected(w) ==
    /\ worker[w].at = "recv"
    /\ worker[w].conn \in left
    /\ worker' = [worker EXCEPT ![w].at = "close"]
    /\ UNCHANGED <<main, running, serverSocket, table, acceptor, backlog, tasks,
                   clientSockets, browserFd, left>>

(* Mutated form of closeClient: the socket is closed twice.                *)
CloseTwice(w) ==
    /\ worker[w].at = "close"
    /\ table' = closeSocket(worker[w].fd)
    /\ worker' = IF table[worker[w].fd] = worker[w].conn THEN worker
                 ELSE [worker EXCEPT ![w] = IdleWorker]
    /\ UNCHANGED <<main, running, serverSocket, acceptor, backlog, tasks,
                   clientSockets, browserFd, left>>

closeClient(w) ==
    /\ worker[w].at = "close"
    /\ table' = closeSocket(worker[w].fd)
    /\ worker' = [worker EXCEPT ![w] = IdleWorker]
    /\ UNCHANGED <<main, running, serverSocket, acceptor, backlog, tasks,
                   clientSockets, browserFd, left>>

-----------------------------------------------------------------------------
(* Server::stop and Server::~Server.                                       *)

(* Mutated form of stop: running is set when the accept thread is joined.  *)
StopLate ==
    /\ main = "started"
    /\ main' = "close"
    /\ UNCHANGED <<running, serverSocket, table, acceptor, backlog, tasks, worker,
                   clientSockets, browserFd, left>>

stop ==
    /\ main = "started"
    /\ main' = "close"
    /\ running' = FALSE
    /\ UNCHANGED <<serverSocket, table, acceptor, backlog, tasks, worker,
                   clientSockets, browserFd, left>>

(* Connections not accepted are refused, unless accept is on its way.      *)
closeServerSocket ==
    /\ main = "close"
    /\ main' = "join"
    /\ table' = closeSocket(serverSocket)
    /\ serverSocket' = NoFd
    /\ backlog' = IF acceptor.at = "accept" THEN backlog ELSE {}
    /\ UNCHANGED <<running, acceptor, tasks, worker, clientSockets, browserFd, left>>

joinAcceptThread ==
    /\ main = "join"
    /\ acceptor.at \in {"none", "ended"}
    /\ main' = "sessions"
    /\ UNCHANGED <<running, serverSocket, table, acceptor, backlog, tasks, worker,
                   clientSockets, browserFd, left>>

(* ~GameSession closes every number its clientSockets holds.               *)
deleteSessions(fd) ==
    /\ main \in {"sessions", "sessionsAgain"}
    /\ fd \in clientSockets
    /\ table' = closeSocket(fd)
    /\ clientSockets' = clientSockets \ {fd}
    /\ UNCHANGED <<main, running, serverSocket, acceptor, backlog, tasks, worker,
                   browserFd, left>>

(* stop returns; the destructor deletes the sessions created since, and    *)
(* then the pool.                                                          *)
sessionsDeleted ==
    /\ clientSockets = {}
    /\ \/ main = "sessions" /\ main' = "sessionsAgain"
       \/ main = "sessionsAgain" /\ main' = "pool"
    /\ UNCHANGED <<running, serverSocket, table, acceptor, backlog, tasks, worker,
                   clientSockets, browserFd, left>>

(* ~ThreadPool returns when every task has run.                            *)
poolDeleted ==
    /\ main = "pool"
    /\ tasks = <<>> /\ \A w \in Workers : worker[w] = IdleWorker
    /\ main' = "done"
    /\ UNCHANGED <<running, serverSocket, table, acceptor, backlog, tasks, worker,
                   clientSockets, browserFd, left>>

-----------------------------------------------------------------------------
(* The outside: TCP clients, and browsers, whose thread nothing ever stops.*)

InProcess(c) ==
    \/ \E i \in DOMAIN tasks : tasks[i].conn = c
    \/ \E w \in Workers : worker[w] # IdleWorker /\ worker[w].conn = c

Connect(c) ==
    /\ Listening
    /\ c \notin backlog \cup left /\ ~InProcess(c)
    /\ \A fd \in Fds : table[fd] # c
    /\ backlog' = backlog \cup {c}
    /\ UNCHANGED <<main, running, serverSocket, table, acceptor, tasks, worker,
                   clientSockets, browserFd, left>>

Leave(c) ==
    /\ InProcess(c) /\ c \notin left
    /\ left' = left \cup {c}
    /\ UNCHANGED <<main, running, serverSocket, table, acceptor, backlog, tasks,
                   worker, clientSockets, browserFd>>

onWebSocketOpen(b) ==
    /\ main \notin {"start", "done"} /\ acceptor.at # "none"
    /\ browserFd[b] = NoFd
    /\ FreeFds # {}
    /\ browserFd' = [browserFd EXCEPT ![b] = Lowest]
    /\ table' = [table EXCEPT ![Lowest] = b]
    /\ UNCHANGED <<main, running, serverSocket, acceptor, backlog, tasks, worker,
                   clientSockets, left>>

onWebSocketClose(b) ==
    /\ main # "done"
    /\ browserFd[b] # NoFd
    /\ table' = closeSocket(browserFd[b])
    /\ browserFd' = [browserFd EXCEPT ![b] = NoFd]
    /\ UNCHANGED <<main, running, serverSocket, acceptor, backlog, tasks, worker,
                   clientSockets, left>>

-----------------------------------------------------------------------------
Accepting == testRunning \/ callAccept \/ \E c \in Clients : acceptConnection(c)

Work(w) == takeTask(w) \/ loop(w) \/ disconnected(w) \/ closeClient(w)

Shutdown ==
    \/ closeServerSocket \/ joinAcceptThread
    \/ \E fd \in Fds : deleteSessions(fd)
    \/ sessionsDeleted \/ poolDeleted

Next ==
    \/ startFails \/ start \/ stop
    \/ Accepting
    \/ \E w \in Workers : Work(w) \/ \E keeps \in BOOLEAN : command(w, keeps)
    \/ Shutdown
    \/ \E c \in Clients : Connect(c) \/ Leave(c)
    \/ \E b \in Browsers : onWebSocketOpen(b) \/ onWebSocketClose(b)

(* Threads that are not blocked go on.  Nobody has to connect, to send a   *)
(* command, or to leave; nobody has to stop the server.                    *)
Fairness == WF_vars(Accepting) /\ WF_vars(Shutdown) /\ \A w \in Workers : WF_vars(Work(w))

Spec == Init /\ [][Next]_vars /\ Fairness

-----------------------------------------------------------------------------
(* Properties.                                                             *)

(* Until stop deletes the sessions, a queued or served connection, and a   *)
(* browser's, keeps the number it was accepted with: no close hits a       *)
(* number that has changed hands, neither a handler's, nor the one of a    *)
(* start that failed.  After that ~GameSession and the handlers close the  *)
(* same numbers.                                                           *)
OwnDescriptor ==
    main \in {"started", "close", "join"} =>
        /\ \A i \in DOMAIN tasks : table[tasks[i].fd] = tasks[i].conn
        /\ \A w \in Workers : worker[w] # IdleWorker => table[worker[w].fd] = worker[w].conn
        /\ \A b \in Browsers : browserFd[b] # NoFd => table[browserFd[b]] = b

Queued(c) == \E i \in DOMAIN tasks : tasks[i].conn = c

(* All workers serve clients that have not left.                           *)
AllBusy == \A w \in Workers : worker[w] # IdleWorker /\ worker[w].conn \notin left

(* A connection waits for its welcome for ever only if so many clients     *)
(* stay for ever as there are workers.                                     *)
WelcomedUnlessBusy == \A c \in Clients : []<>~Queued(c) \/ <>[]AllBusy

(* Once stop is called the destructor returns, unless no connection ever   *)
(* comes to wake the thread in accept, or a client never leaves.           *)
StopEnds ==
    [](main = "close" =>
        \/ <>(main = "done")
        \/ <>[](acceptor.at = "accept" /\ backlog = {})
        \/ <>[](\E w \in Workers : worker[w].at = "recv" /\ worker[w].conn \notin left))
=============================================================================
