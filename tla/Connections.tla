----------------------------- MODULE Connections ----------------------------
(***************************************************************************)
(* The TCP side of the server: one handler per connection, the registry of *)
(* game sessions behind sessionsMutex, and in each session the sockets its *)
(* broadcasts go to behind gameMutex.  A block under a mutex that calls    *)
(* nothing that may block is one step; joinGameSession, which waits for    *)
(* gameMutex with sessionsMutex held, and the broadcasts, which send with  *)
(* gameMutex held, are taken apart.  The board is the number of moves      *)
(* made: GameSession says which moves are legal and which one decides.     *)
(* The WebSocket side, and what is read without a lock, are in Browser.    *)
(***************************************************************************)
EXTENDS Integers, FiniteSets, Sequences

CONSTANTS
    Conns,      \* connections accepted, each with a worker of the pool to itself
    Names,      \* user names
    Unknown,    \* the clientId of a connection that has not logged in
    Nobody,     \* an empty player2Id
    Free,       \* an unlocked mutex
    Capacity,   \* messages a socket takes before send blocks
    MaxGames, MaxMoves, MaxCommands     \* bounds: sessions, moves in each, commands in all

ASSUME ConstantsAssumption ==
    /\ Unknown \notin Names /\ Nobody \notin Names /\ Free \notin Conns
    /\ Capacity \in Nat \ {0}
    /\ MaxGames \in Nat /\ MaxMoves \in Nat /\ MaxCommands \in Nat

VARIABLES
    games,          \* gameSessions, by session id
    sessionsMutex,  \* its holder, or Free
    handler,        \* handleClientConnection of each connection
    socket,         \* each connection as the kernel sees it
    crashed,        \* the process was killed by SIGPIPE
    commands        \* the number of commands sent, for the bound

vars == <<games, sessionsMutex, handler, socket, crashed, commands>>

Game == [player1 : Names, player2 : Names \cup {Nobody}, version : 0 .. MaxMoves,
         over : BOOLEAN, clientSockets : Seq(Conns), gameMutex : Conns \cup {Free}]

(* An answer, "Joined game", a board, the announcement of black's win, or  *)
(* the empty one of white's.                                               *)
Message == [type : {"text", "joined", "state", "win", "empty"},
            game : Nat, version : 0 .. MaxMoves]

Text == [type |-> "text", game |-> 0, version |-> 0]

(* Where a handler is: in recv, before a call it has to make, in the loop  *)
(* of sends under gameMutex, before its answer, or gone.                   *)
Places == {"receive", "create", "join", "joinGame", "lookup", "addSocket",
           "broadcast", "makeMove", "sending", "reply", "closed"}

Commands == {"none", "CREATE", "JOIN", "MOVE", "STATE"}

Outgoing == [to : Conns, msg : Message]

Handler == [pc : Places, command : Commands, clientId : Names \cup {Unknown},
            gameSessionId : Nat,    \* 0 is the code's -1
            joining : Nat,          \* the session a JOIN is about
            toSend : Seq(Outgoing)]

(* The peer reads, has closed its end, or has answered a send with a reset.*)
(* sent is what the peer was sent, without the answers of no consequence;  *)
(* unread counts what is in the buffer, answers included.                  *)
Socket == [peer : {"open", "closed", "reset"}, sent : Seq(Message), unread : 0 .. Capacity]

TypeOK ==
    /\ games \in Seq(Game)
    /\ sessionsMutex \in Conns \cup {Free}
    /\ handler \in [Conns -> Handler]
    /\ \A c \in Conns : handler[c].gameSessionId \in 0 .. Len(games)
    /\ socket \in [Conns -> Socket]
    /\ crashed \in BOOLEAN
    /\ commands \in 0 .. MaxCommands

At(c, pc) == ~crashed /\ handler[c].pc = pc

Goto(c, pc) == handler' = [handler EXCEPT ![c].pc = pc]

(* The command is done with, and its local variables are gone.             *)
Done(c) ==
    handler' = [handler EXCEPT ![c].pc = "receive", ![c].command = "none",
                               ![c].joining = 0, ![c].toSend = <<>>]

Answer(c, msg) ==
    handler' = [handler EXCEPT ![c].pc = "reply", ![c].toSend = <<[to |-> c, msg |-> msg]>>]

-----------------------------------------------------------------------------
(* Every connection has been accepted and welcomed.                        *)
InitAs(login) ==
    /\ games = <<>>
    /\ sessionsMutex = Free
    /\ handler = [c \in Conns |->
            [pc |-> "receive", command |-> "none", clientId |-> login[c],
             gameSessionId |-> 0, joining |-> 0, toSend |-> <<>>]]
    /\ socket = [c \in Conns |-> [peer |-> "open", sent |-> <<>>, unread |-> 0]]
    /\ crashed = FALSE
    /\ commands = 0

Init == InitAs([c \in Conns |-> Unknown])

(* A command arrives, sent perhaps before the peer closed.                 *)
Receives(c) ==
    /\ At(c, "receive")
    /\ socket[c].peer # "reset"
    /\ commands < MaxCommands
    /\ commands' = commands + 1

Dispatch(c, command, pc) ==
    /\ Receives(c)
    /\ handler' = [handler EXCEPT ![c].pc = pc, ![c].command = command]
    /\ UNCHANGED <<games, sessionsMutex, socket, crashed>>

LOGIN(c, username) ==
    /\ Receives(c)
    /\ handler' = [handler EXCEPT ![c].clientId = username,
                      ![c].pc = "reply", ![c].toSend = <<[to |-> c, msg |-> Text]>>]
    /\ UNCHANGED <<games, sessionsMutex, socket, crashed>>

(* A command answered at once: HELP, an unknown one, one out of place.  A  *)
(* command that gets no answer, as JOIN before LOGIN, is a stuttering step.*)
AnswerAtOnce(c) ==
    /\ Receives(c)
    /\ Answer(c, Text)
    /\ UNCHANGED <<games, sessionsMutex, socket, crashed>>

CREATE(c) ==
    /\ handler[c].clientId # Unknown
    /\ Len(games) + Cardinality({d \in Conns : handler[d].pc = "create"}) < MaxGames
    /\ Dispatch(c, "CREATE", "create")

(* Mutated form of JOIN: gameSessionId is set before the session has       *)
(* accepted the player.                                                    *)
JoinEagerly(c, sessionId) ==
    /\ Receives(c)
    /\ handler[c].clientId # Unknown
    /\ handler' = [handler EXCEPT ![c].pc = "join", ![c].command = "JOIN",
                      ![c].joining = sessionId, ![c].gameSessionId = sessionId]
    /\ UNCHANGED <<games, sessionsMutex, socket, crashed>>

JOIN(c, sessionId) ==
    /\ Receives(c)
    /\ handler[c].clientId # Unknown
    /\ handler' = [handler EXCEPT ![c].pc = "join", ![c].command = "JOIN",
                      ![c].joining = sessionId]
    /\ UNCHANGED <<games, sessionsMutex, socket, crashed>>

MOVE(c) == handler[c].gameSessionId # 0 /\ Dispatch(c, "MOVE", "lookup")

(* The STATE command; STATE is a reserved word.                            *)
ShowState(c) == handler[c].gameSessionId # 0 /\ Dispatch(c, "STATE", "lookup")

(* recv returns 0 or an error: the handler closes its socket and ends.     *)
disconnected(c) ==
    /\ At(c, "receive")
    /\ socket[c].peer # "open"
    /\ Goto(c, "closed")
    /\ UNCHANGED <<games, sessionsMutex, socket, crashed, commands>>

-----------------------------------------------------------------------------
(* The registry.                                                           *)

createGameSession(c) ==
    /\ At(c, "create")
    /\ sessionsMutex = Free
    /\ games' = Append(games,
            [player1 |-> handler[c].clientId, player2 |-> Nobody, version |-> 0,
             over |-> FALSE, clientSockets |-> <<>>, gameMutex |-> Free])
    /\ handler' = [handler EXCEPT ![c].gameSessionId = Len(games) + 1, ![c].pc = "lookup"]
    /\ UNCHANGED <<sessionsMutex, socket, crashed, commands>>

(* joinGameSession, up to the call of joinGame on the session found.       *)
joinGameSession(c) ==
    /\ At(c, "join")
    /\ sessionsMutex = Free
    /\ IF handler[c].joining \in DOMAIN games
       THEN sessionsMutex' = c /\ Goto(c, "joinGame")
       ELSE sessionsMutex' = Free /\ Answer(c, Text)
    /\ UNCHANGED <<games, socket, crashed, commands>>

(* Mutated form of joinGame: a refused join leaves sessionsMutex locked.   *)
JoinGameLeaksLock(c) ==
    LET s == handler[c].joining
    IN  /\ At(c, "joinGame")
        /\ games[s].gameMutex = Free
        /\ IF games[s].player2 = Nobody /\ games[s].player1 # handler[c].clientId
           THEN /\ games' = [games EXCEPT ![s].player2 = handler[c].clientId]
                /\ handler' = [handler EXCEPT ![c].gameSessionId = s, ![c].pc = "lookup"]
                /\ sessionsMutex' = Free
           ELSE Answer(c, Text) /\ UNCHANGED <<games, sessionsMutex>>
        /\ UNCHANGED <<socket, crashed, commands>>

(* joinGame and the end of joinGameSession.                                *)
joinGame(c) ==
    LET s == handler[c].joining
    IN  /\ At(c, "joinGame")
        /\ games[s].gameMutex = Free
        /\ IF games[s].player2 = Nobody /\ games[s].player1 # handler[c].clientId
           THEN /\ games' = [games EXCEPT ![s].player2 = handler[c].clientId]
                /\ handler' = [handler EXCEPT ![c].gameSessionId = s, ![c].pc = "lookup"]
           ELSE Answer(c, Text) /\ UNCHANGED games
        /\ sessionsMutex' = Free
        /\ UNCHANGED <<socket, crashed, commands>>

(* The session is found: none is ever removed.                             *)
getGameSession(c) ==
    /\ At(c, "lookup")
    /\ sessionsMutex = Free
    /\ \/ handler[c].command \in {"CREATE", "JOIN"} /\ Goto(c, "addSocket")
       \/ handler[c].command = "MOVE" /\ Goto(c, "makeMove")
       \/ handler[c].command = "STATE" /\ Answer(c, Text)
    /\ UNCHANGED <<games, sessionsMutex, socket, crashed, commands>>

-----------------------------------------------------------------------------
(* The session.                                                            *)

Session(c) == games[handler[c].gameSessionId]

(* A joiner's answer is queued behind its broadcast.                       *)
AfterAdding(c) ==
    IF handler[c].command = "JOIN" THEN Goto(c, "broadcast") ELSE Answer(c, Text)

Joined(c) == [type |-> "joined", game |-> handler[c].gameSessionId, version |-> 0]

(* Mutated form of addClientSocket: the joiner is not sent the board.      *)
AddWithoutBroadcast(c) ==
    /\ At(c, "addSocket")
    /\ Session(c).gameMutex = Free
    /\ games' = [games EXCEPT ![handler[c].gameSessionId].clientSockets = Append(@, c)]
    /\ Answer(c, Joined(c))
    /\ UNCHANGED <<sessionsMutex, socket, crashed, commands>>

(* Mutated form of addClientSocket: gameMutex is still held when the       *)
(* broadcast comes to lock it.                                             *)
AddHoldingLock(c) ==
    /\ At(c, "addSocket")
    /\ Session(c).gameMutex = Free
    /\ games' = [games EXCEPT ![handler[c].gameSessionId].clientSockets = Append(@, c),
                              ![handler[c].gameSessionId].gameMutex = c]
    /\ AfterAdding(c)
    /\ UNCHANGED <<sessionsMutex, socket, crashed, commands>>

addClientSocket(c) ==
    /\ At(c, "addSocket")
    /\ Session(c).gameMutex = Free
    /\ games' = [games EXCEPT ![handler[c].gameSessionId].clientSockets = Append(@, c)]
    /\ AfterAdding(c)
    /\ UNCHANGED <<sessionsMutex, socket, crashed, commands>>

(* One message for each of the session's sockets, in the order they came.  *)
ToAll(sockets, msg) == [i \in DOMAIN sockets |-> [to |-> sockets[i], msg |-> msg]]

(* Mutated form of MoveMessages: the winner is announced first.            *)
WinFirst(sockets, state, result) ==
    (IF result = "none" THEN <<>> ELSE ToAll(sockets, [state EXCEPT !.type = result]))
        \o ToAll(sockets, state)

(* What a move sends: the board, then what checkForWinner announces.       *)
MoveMessages(sockets, state, result) ==
    ToAll(sockets, state)
        \o (IF result = "none" THEN <<>> ELSE ToAll(sockets, [state EXCEPT !.type = result]))

(* broadcastGameState locks gameMutex and keeps it over its sends.         *)
broadcastGameState(c) ==
    LET s == handler[c].gameSessionId
    IN  /\ At(c, "broadcast")
        /\ games[s].gameMutex = Free
        /\ games' = [games EXCEPT ![s].gameMutex = c]
        /\ handler' = [handler EXCEPT ![c].pc = "sending",
               ![c].toSend = ToAll(games[s].clientSockets,
                   [type |-> "state", game |-> s, version |-> games[s].version])]
        /\ UNCHANGED <<sessionsMutex, socket, crashed, commands>>

(* makeMove refuses: not the caller's turn, or an illegal move.            *)
makeMoveRefused(c) ==
    /\ At(c, "makeMove")
    /\ Session(c).gameMutex = Free
    /\ Answer(c, Text)
    /\ UNCHANGED <<games, sessionsMutex, socket, crashed, commands>>

(* What checkForWinner may find: no winner, or the side that moves, black  *)
(* ("win": announced) or white ("empty": announced with an empty message). *)
Results(game) == {"none", IF game.version % 2 = 0 THEN "empty" ELSE "win"}

(* Whoever is not player 1 plays for player 2; of a decided game no move   *)
(* is legal (GameSession!DecidedOnce).                                     *)
MayMove(game, clientId) ==
    /\ (clientId = game.player1) = (game.version % 2 = 0)
    /\ ~game.over
    /\ game.version < MaxMoves

(* Mutated form of makeMove: the lock is released before the sends.        *)
MoveUnlocked(c, result) ==
    LET s == handler[c].gameSessionId
        state == [type |-> "state", game |-> s, version |-> games[s].version + 1]
    IN  /\ At(c, "makeMove")
        /\ games[s].gameMutex = Free
        /\ MayMove(games[s], handler[c].clientId) /\ result \in Results(games[s])
        /\ games' = [games EXCEPT ![s].version = @ + 1, ![s].over = result # "none"]
        /\ handler' = [handler EXCEPT ![c].pc = "sending",
               ![c].toSend = MoveMessages(games[s].clientSockets, state, result)]
        /\ UNCHANGED <<sessionsMutex, socket, crashed, commands>>

(* Mutated form of makeMove: the board is captured before the move.        *)
StaleBoard(c, result) ==
    LET s == handler[c].gameSessionId
        state == [type |-> "state", game |-> s, version |-> games[s].version]
    IN  /\ At(c, "makeMove")
        /\ games[s].gameMutex = Free
        /\ MayMove(games[s], handler[c].clientId) /\ result \in Results(games[s])
        /\ games' = [games EXCEPT ![s].version = @ + 1, ![s].over = result # "none",
                                  ![s].gameMutex = c]
        /\ handler' = [handler EXCEPT ![c].pc = "sending",
               ![c].toSend = MoveMessages(games[s].clientSockets, state, result)]
        /\ UNCHANGED <<sessionsMutex, socket, crashed, commands>>

(* A legal move, with all that makeMove does before it returns queued up.  *)
makeMove(c, result) ==
    LET s == handler[c].gameSessionId
        state == [type |-> "state", game |-> s, version |-> games[s].version + 1]
    IN  /\ At(c, "makeMove")
        /\ games[s].gameMutex = Free
        /\ MayMove(games[s], handler[c].clientId) /\ result \in Results(games[s])
        /\ games' = [games EXCEPT ![s].version = @ + 1, ![s].over = result # "none",
                                  ![s].gameMutex = c]
        /\ handler' = [handler EXCEPT ![c].pc = "sending",
               ![c].toSend = MoveMessages(games[s].clientSockets, state, result)]
        /\ UNCHANGED <<sessionsMutex, socket, crashed, commands>>

-----------------------------------------------------------------------------
(* Sending.                                                                *)

(* send on d's socket: it fails if d's handler has closed it, blocks while *)
(* the buffer is full, draws a reset from a peer that has closed, and on a *)
(* connection that was reset fails, with SIGPIPE unless the error is older.*)
Transmit(d, msg) ==
    \/ /\ handler[d].pc = "closed" \/ (msg.type = "empty" /\ socket[d].peer # "reset")
       /\ UNCHANGED <<socket, crashed>>
    \/ /\ handler[d].pc # "closed" /\ msg.type # "empty" /\ socket[d].peer = "open"
       /\ socket[d].unread < Capacity
       /\ socket' = [socket EXCEPT ![d].unread = @ + 1,
               ![d].sent = IF msg.type = "text" THEN @ ELSE Append(@, msg)]
       /\ UNCHANGED crashed
    \/ /\ handler[d].pc # "closed" /\ msg.type # "empty" /\ socket[d].peer = "closed"
       /\ socket' = [socket EXCEPT ![d].peer = "reset"]
       /\ UNCHANGED crashed
    \/ /\ handler[d].pc # "closed" /\ socket[d].peer = "reset"
       /\ crashed' \in BOOLEAN
       /\ UNCHANGED socket

(* The next send of a loop over clientSockets.                             *)
sendToClient(c) ==
    LET next == Head(handler[c].toSend)
    IN  /\ At(c, "sending")
        /\ handler[c].toSend # <<>>
        /\ Transmit(next.to, next.msg)
        /\ handler' = [handler EXCEPT ![c].toSend = Tail(@)]
        /\ UNCHANGED <<games, sessionsMutex, commands>>

(* The lock_guard goes out of scope at the end of the function.            *)
unlock(c) ==
    /\ At(c, "sending")
    /\ handler[c].toSend = <<>>
    /\ games' = [games EXCEPT ![handler[c].gameSessionId].gameMutex = Free]
    /\ IF handler[c].command = "JOIN" THEN Answer(c, Joined(c)) ELSE Done(c)
    /\ UNCHANGED <<sessionsMutex, socket, crashed, commands>>

reply(c) ==
    /\ At(c, "reply")
    /\ Transmit(c, Head(handler[c].toSend).msg)
    /\ Done(c)
    /\ UNCHANGED <<games, sessionsMutex, commands>>

-----------------------------------------------------------------------------
(* The clients.                                                            *)

(* Nothing is looked at once the server has been killed.                   *)
ClientReads(c) ==
    /\ ~crashed /\ socket[c].peer = "open"
    /\ socket[c].unread > 0
    /\ socket' = [socket EXCEPT ![c].unread = @ - 1]
    /\ UNCHANGED <<games, sessionsMutex, handler, crashed, commands>>

ClientCloses(c) ==
    /\ ~crashed /\ socket[c].peer = "open"
    /\ socket' = [socket EXCEPT ![c].peer = "closed", ![c].unread = 0]
    /\ UNCHANGED <<games, sessionsMutex, handler, crashed, commands>>

-----------------------------------------------------------------------------
Command(c) ==
    \/ \E username \in Names : LOGIN(c, username)
    \/ CREATE(c)
    \/ \E sessionId \in 1 .. MaxGames : JOIN(c, sessionId)
    \/ MOVE(c)
    \/ ShowState(c)
    \/ AnswerAtOnce(c)

(* What the handler does by itself.                                        *)
Handle(c) ==
    \/ createGameSession(c) \/ joinGameSession(c) \/ joinGame(c) \/ getGameSession(c)
    \/ addClientSocket(c) \/ broadcastGameState(c)
    \/ makeMoveRefused(c) \/ \E result \in {"none", "win", "empty"} : makeMove(c, result)
    \/ sendToClient(c) \/ unlock(c) \/ reply(c)
    \/ disconnected(c)

Next == \E c \in Conns : Command(c) \/ Handle(c) \/ ClientReads(c) \/ ClientCloses(c)

(* Threads that are not blocked go on, and clients read what they are sent.*)
(* Nobody has to send a command or to close.                               *)
Fairness == \A c \in Conns : WF_vars(Handle(c)) /\ WF_vars(ClientReads(c))

Spec == Init /\ [][Next]_vars /\ Fairness

-----------------------------------------------------------------------------
(* Properties.                                                             *)

(* The i-th message a client was sent is a board of game s.                *)
BoardAt(c, s, i) ==
    /\ i \in DOMAIN socket[c].sent
    /\ socket[c].sent[i].type = "state" /\ socket[c].sent[i].game = s

(* Every client is sent the boards of its game in the order of the moves,  *)
(* none left out, although each move is broadcast by the thread of the     *)
(* player who made it: makeMove keeps gameMutex over its sends, whatever   *)
(* its comments say.                                                       *)
BoardsInOrder ==
    \A c \in Conns, s \in DOMAIN games :
        \A i, j \in DOMAIN socket[c].sent :
            i < j /\ BoardAt(c, s, i) /\ BoardAt(c, s, j)
            /\ (\A k \in DOMAIN socket[c].sent : i < k /\ k < j => ~BoardAt(c, s, k))
                => socket[c].sent[j].version - socket[c].sent[i].version \in {0, 1}

(* The last board of s a client was sent.                                  *)
LatestBoard(c, s, i) ==
    /\ BoardAt(c, s, i)
    /\ \A k \in DOMAIN socket[c].sent : k > i => ~BoardAt(c, s, k)

(* When nobody holds a game's mutex, a client that was ever sent a board   *)
(* of it, and has not left, was sent the latest.                           *)
UpToDate ==
    \A s \in DOMAIN games, c \in Conns :
        games[s].gameMutex = Free /\ socket[c].peer = "open" =>
            \A i \in DOMAIN socket[c].sent :
                LatestBoard(c, s, i) => socket[c].sent[i].version = games[s].version

(* A client that is told it has joined has been sent the board before.     *)
JoinedClientSeesBoard ==
    \A c \in Conns : \A j \in DOMAIN socket[c].sent :
        socket[c].sent[j].type = "joined" =>
            \E i \in DOMAIN socket[c].sent : i < j /\ BoardAt(c, socket[c].sent[j].game, i)

(* A client is shown the final board before it is told who has won.        *)
WinAfterBoard ==
    \A c \in Conns : \A j \in DOMAIN socket[c].sent :
        socket[c].sent[j].type = "win" =>
            \E i \in DOMAIN socket[c].sent :
                i < j /\ socket[c].sent[i] = [socket[c].sent[j] EXCEPT !.type = "state"]

(* The handler that c waits for to unlock a mutex, if any.                 *)
WaitsFor(c) ==
    CASE handler[c].pc \in {"create", "join", "lookup"} -> sessionsMutex
      [] handler[c].pc = "joinGame" -> games[handler[c].joining].gameMutex
      [] handler[c].pc \in {"addSocket", "broadcast", "makeMove"} -> Session(c).gameMutex
      [] OTHER -> Free

(* No handlers wait for one another, or one for itself, although joining   *)
(* takes gameMutex under sessionsMutex.                                    *)
NoCircularWait ==
    \A S \in (SUBSET Conns) \ {{}} : \E c \in S : WaitsFor(c) \notin S

(* As long as the clients read what they are sent, every command comes to  *)
(* its end and the handler back to its next recv, unless SIGPIPE ends all. *)
CommandsEnd ==
    \A c \in Conns :
        handler[c].pc \notin {"receive", "closed"} ~>
            handler[c].pc \in {"receive", "closed"} \/ crashed
=============================================================================
