------------------------------ MODULE Browser -------------------------------
(***************************************************************************)
(* The browser client and the server's WebSocket thread: the one thread    *)
(* that answers every browser, the connections a session sends its boards  *)
(* to, and what each browser makes of what it is sent.  TCP players may    *)
(* sit in the same sessions; their handlers are cut down to the steps a    *)
(* browser can tell apart (the TCP side itself is Connections).  The board *)
(* is the number of moves made, as in Connections.  A browser is also its  *)
(* user's name, and a session's number also its invite code: codes are     *)
(* random strings of eight characters, told apart here.                    *)
(***************************************************************************)
EXTENDS Integers, FiniteSets, Sequences, SequencesExt

CONSTANTS
    Browsers,       \* browsers, each with an account of its own
    TcpPlayers,     \* players on TCP connections, logged in by name
    LineEnders,     \* those of them whose name holds the line end of its LOGIN
    Nobody,         \* "", "Unknown", and an unlocked mutex
    MaxGames, MaxMoves, MaxRequests, MaxDrops   \* bounds

ASSUME ConstantsAssumption ==
    /\ Browsers \cap TcpPlayers = {}
    /\ LineEnders \subseteq TcpPlayers
    /\ Nobody \notin Browsers \cup TcpPlayers
    /\ {MaxGames, MaxMoves, MaxRequests, MaxDrops} \subseteq Nat
    /\ IsFiniteSet(Browsers)

VARIABLES
    games,      \* gameSessions
    wsThread,   \* what the WebSocket thread is doing
    tcp,        \* the handler of each TCP player
    link,       \* each browser's connection, the server's end included
    requests,   \* sent by a browser, not yet handled
    inbox,      \* sent to a browser, not yet handled
    client,     \* the state of useGameState and App in each browser
    requested   \* the number of requests sent, for the bound

vars == <<games, wsThread, tcp, link, requests, inbox, client, requested>>

Names == Browsers \cup TcpPlayers

(* No board has been shown; the board was read while a move was being      *)
(* applied to it.                                                          *)
Blank == -1
Torn  == -2

Version == {Blank, Torn} \cup 0 .. MaxMoves

(* A connection, told from its browser's earlier ones.                     *)
Handle == Browsers \X (0 .. MaxDrops)

Game == [player1 : Names, player2 : Names \cup {Nobody}, version : 0 .. MaxMoves,
         applying : BOOLEAN,            \* applyMoveToBoard is at work
         isPlayer1Turn : BOOLEAN,
         over : {"none", "black", "white"},
         wsConnections : SUBSET Handle,
         gameMutex : TcpPlayers \cup {Nobody}]

Message == [type : {"login_success", "invalid", "error", "game_created", "game_joined",
                    "MoveResult", "wins", "garbled"},
            game : 0 .. MaxGames, version : Version, turn : Names \cup {Nobody}]

Client == [player : Browsers \cup {Nobody}, gameId : 0 .. MaxGames,
           view : {"login", "lobby", "game"},
           gameStatus : {"waiting", "playing", "finished"},
           board : [game : 0 .. MaxGames, version : Version],
           currentPlayer : Names \cup {Nobody}]

(* Types, and a seat is never shared: whoever joins is not the creator.    *)
TypeOK ==
    /\ games \in Seq(Game) /\ Len(games) <= MaxGames
    /\ \A s \in DOMAIN games : games[s].player1 # games[s].player2
    /\ wsThread \in [pc : {"idle", "created", "makeMove", "readTurn", "sendResult"},
                     from : Handle \cup {Nobody}, game : 0 .. MaxGames, turn : BOOLEAN]
    /\ tcp \in [TcpPlayers -> [pc : {"receive", "broadcast", "applying", "applied"},
                               game : 0 .. MaxGames]]
    /\ link \in [Browsers -> [open : BOOLEAN, number : 0 .. MaxDrops,
                              user : Browsers \cup {Nobody}]]
    /\ \A c \in Browsers : link[c].user \in {c, Nobody}
    /\ requests \in [Browsers -> Seq([command : {"login", "create", "join", "move"},
                                      game : 0 .. MaxGames])]
    /\ inbox \in [Browsers -> Seq(Message)]
    /\ client \in [Browsers -> Client]
    /\ requested \in 0 .. MaxRequests

-----------------------------------------------------------------------------
(* Messages.                                                               *)

Note(type) == [type |-> type, game |-> 0, version |-> Blank, turn |-> Nobody]

(* The player a turn stands for, as the browser works it out.              *)
Mover(game, turn) == IF turn THEN game.player1 ELSE game.player2

(* getBoardStateJson of session s, its turn read before its board.  A line *)
(* end in a player's name makes the text something no browser can parse.   *)
BoardJson(type, s, game, turn) ==
    IF {game.player1, game.player2} \cap LineEnders # {}
    THEN Note("garbled")
    ELSE [type |-> type, game |-> s, turn |-> Mover(game, turn),
          version |-> IF game.player2 = Nobody THEN Blank
                      ELSE IF game.applying THEN Torn
                      ELSE game.version]

Current(c) == <<c, link[c].number>>

(* A message to each of the handles; sending to a closed one does nothing. *)
SendTo(handles, message) ==
    inbox' = [c \in Browsers |->
                IF Current(c) \in handles /\ link[c].open
                THEN Append(inbox[c], message) ELSE inbox[c]]

-----------------------------------------------------------------------------
Idle == [pc |-> "idle", from |-> Nobody, game |-> 0, turn |-> TRUE]

(* The browsers in users have logged in.                                   *)
InitAs(users) ==
    /\ games = <<>>
    /\ wsThread = Idle
    /\ tcp = [t \in TcpPlayers |-> [pc |-> "receive", game |-> 0]]
    /\ link = [c \in Browsers |->
            [open |-> TRUE, number |-> 0, user |-> IF c \in users THEN c ELSE Nobody]]
    /\ requests = [c \in Browsers |-> <<>>]
    /\ inbox = [c \in Browsers |-> <<>>]
    /\ client = [c \in Browsers |->
            [player |-> IF c \in users THEN c ELSE Nobody, gameId |-> 0,
             view |-> IF c \in users THEN "lobby" ELSE "login", gameStatus |-> "waiting",
             board |-> [game |-> 0, version |-> Blank], currentPlayer |-> Nobody]]
    /\ requested = 0

Init == InitAs({})

-----------------------------------------------------------------------------
(* The user of a browser.                                                  *)

(* sendMessage: nothing is sent unless the connection is open.             *)
sendMessage(c, command, s) ==
    /\ requested < MaxRequests
    /\ requested' = requested + 1
    /\ requests' = IF link[c].open
                   THEN [requests EXCEPT ![c] = Append(@, [command |-> command, game |-> s])]
                   ELSE requests

(* The effect that chooses the view whenever player or gameId has changed. *)
Viewed(state) ==
    IF state.player = Nobody THEN state
    ELSE [state EXCEPT !.view = IF state.gameId = 0 THEN "lobby" ELSE "game"]

handleLogin(c) ==
    /\ client[c].view = "login"
    /\ sendMessage(c, "login", 0)
    /\ UNCHANGED <<games, wsThread, tcp, link, inbox, client>>

(* The creates under way, for the bound on games.                          *)
Creating == {r \in Browsers \X (1 .. MaxRequests) :
                r[2] \in DOMAIN requests[r[1]] /\ requests[r[1]][r[2]].command = "create"}

handleCreateGame(c) ==
    /\ client[c].view = "lobby"
    /\ Len(games) + Cardinality(Creating) < MaxGames
    /\ sendMessage(c, "create", 0)
    /\ UNCHANGED <<games, wsThread, tcp, link, inbox, client>>

(* gameId is set, and the game shown, before the server has answered.      *)
handleJoinGame(c, code) ==
    /\ client[c].view = "lobby"
    /\ sendMessage(c, "join", code)
    /\ client' = [client EXCEPT ![c] = Viewed([@ EXCEPT !.gameId = code])]
    /\ UNCHANGED <<games, wsThread, tcp, link, inbox>>

isMyTurn(c) == client[c].currentPlayer = client[c].player /\ client[c].gameStatus = "playing"

(* Two clicks on the board.  Which squares is left open: the server judges.*)
handleMakeMove(c) ==
    /\ client[c].view = "game"
    /\ isMyTurn(c)
    /\ client[c].board.version # Blank
    /\ sendMessage(c, "move", 0)
    /\ UNCHANGED <<games, wsThread, tcp, link, inbox, client>>

(* The name and the password typed to log in are still there.              *)
returnToLobby(c) ==
    /\ client[c].view = "game"
    /\ sendMessage(c, "login", 0)
    /\ client' = [client EXCEPT ![c].gameId = 0, ![c].view = "lobby"]
    /\ UNCHANGED <<games, wsThread, tcp, link, inbox>>

-----------------------------------------------------------------------------
(* The connection.                                                         *)

(* The connections that have broken, for the bound on them.                *)
Broken == {h \in Handle : \/ h[2] < link[h[1]].number
                          \/ h[2] = link[h[1]].number /\ ~link[h[1]].open}

(* It breaks, with all that was under way on it.  onclose and the server's *)
(* onWebSocketClose come later; until then as after it sends go nowhere.   *)
connectionLost(c) ==
    /\ link[c].open
    /\ Cardinality(Broken) < MaxDrops
    /\ link' = [link EXCEPT ![c].open = FALSE]
    /\ requests' = [requests EXCEPT ![c] = <<>>]
    /\ inbox' = [inbox EXCEPT ![c] = <<>>]
    /\ UNCHANGED <<games, wsThread, tcp, client, requested>>

(* What the closure of connectWebSocket holds: the player and the gameId   *)
(* of the first render, whatever they are by now.                          *)
Captured == [player |-> Nobody, gameId |-> 0]

(* The timer of onclose, the new connection, and onopen; onWebSocketOpen   *)
(* knows nobody yet.                                                       *)
reconnect(c) ==
    /\ ~link[c].open
    /\ link' = [link EXCEPT ![c] = [open |-> TRUE, number |-> @.number + 1, user |-> Nobody]]
    /\ requests' = IF Captured.gameId # 0 /\ Captured.player # Nobody
                   THEN [requests EXCEPT ![c] =
                            <<[command |-> "join", game |-> Captured.gameId]>>]
                   ELSE requests
    /\ UNCHANGED <<games, wsThread, tcp, inbox, client, requested>>

-----------------------------------------------------------------------------
(* What a browser does with a message.                                     *)

Shown(m) == [game |-> m.game, version |-> m.version]

Updated(state, c, m) ==
    CASE m.type = "login_success" -> Viewed([state EXCEPT !.player = c])
      [] m.type = "invalid" -> [state EXCEPT !.player = Nobody]
      [] m.type = "game_created" ->
            Viewed([state EXCEPT !.gameStatus = "waiting", !.currentPlayer = Nobody,
                                 !.gameId = m.game])
      [] m.type = "game_joined" ->
            [state EXCEPT !.board = Shown(m), !.gameStatus = "playing",
                          !.currentPlayer = m.turn]
      [] m.type = "MoveResult" ->
            [state EXCEPT !.board = Shown(m), !.currentPlayer = m.turn]
      [] m.type = "wins" -> [state EXCEPT !.gameStatus = "finished"]
      [] OTHER -> state

(* Mutated form of updateFromServer: the newest message is handled first.  *)
UpdateFromNewest(c) ==
    /\ inbox[c] # <<>>
    /\ client' = [client EXCEPT ![c] = Updated(@, c, Last(inbox[c]))]
    /\ inbox' = [inbox EXCEPT ![c] = Front(@)]
    /\ UNCHANGED <<games, wsThread, tcp, link, requests, requested>>

updateFromServer(c) ==
    /\ inbox[c] # <<>>
    /\ client' = [client EXCEPT ![c] = Updated(@, c, Head(inbox[c]))]
    /\ inbox' = [inbox EXCEPT ![c] = Tail(@)]
    /\ UNCHANGED <<games, wsThread, tcp, link, requests, requested>>

-----------------------------------------------------------------------------
(* The WebSocket thread.                                                   *)

(* onWebSocketMessage is called with the next message of a connection.     *)
Receives(c, command) ==
    /\ wsThread.pc = "idle"
    /\ requests[c] # <<>>
    /\ Head(requests[c]).command = command
    /\ requests' = [requests EXCEPT ![c] = Tail(@)]
    /\ UNCHANGED <<tcp, client, requested>>

Plays(user) ==
    {s \in DOMAIN games : user \in {games[s].player1, games[s].player2}}

(* validateUser has the account and the hash of the password, or has not.  *)
LOGIN(c, valid) ==
    /\ Receives(c, "login")
    /\ IF valid
       THEN /\ link' = [link EXCEPT ![c].user = c]
            /\ SendTo({Current(c)}, Note("login_success"))
       ELSE UNCHANGED link /\ SendTo({Current(c)}, Note("invalid"))
    /\ UNCHANGED <<games, wsThread>>

(* createGameSession: from here on a TCP player can join by number.        *)
CREATE(c) ==
    /\ Receives(c, "create")
    /\ IF link[c].user = Nobody
       THEN SendTo({Current(c)}, Note("error")) /\ UNCHANGED <<games, wsThread>>
       ELSE /\ games' = Append(games,
                 [player1 |-> link[c].user, player2 |-> Nobody, version |-> 0,
                  applying |-> FALSE, isPlayer1Turn |-> TRUE, over |-> "none",
                  wsConnections |-> {}, gameMutex |-> Nobody])
            /\ wsThread' = [Idle EXCEPT !.pc = "created", !.from = Current(c),
                                        !.game = Len(games) + 1]
            /\ UNCHANGED inbox
    /\ UNCHANGED link

(* addWebSocketHandle and the answer of CREATE.                            *)
addWebSocketHandle ==
    LET s == wsThread.game
    IN  /\ wsThread.pc = "created"
        /\ games' = [games EXCEPT ![s].wsConnections = @ \cup {wsThread.from}]
        /\ SendTo({wsThread.from}, [Note("game_created") EXCEPT !.game = s])
        /\ wsThread' = Idle
        /\ UNCHANGED <<tcp, link, requests, client, requested>>

(* joinGame's tests.                                                       *)
MayJoin(s, name) == games[s].player2 = Nobody /\ games[s].player1 # name

(* Mutated form of JOIN: the creator may take the second seat as well.     *)
JoinOwnGame(c) ==
    LET s == Head(requests[c]).game
        joined == [games[s] EXCEPT !.player2 = c, !.wsConnections = @ \cup {Current(c)}]
        board == BoardJson("game_joined", s, joined, joined.isPlayer1Turn)
    IN  /\ Receives(c, "join")
        /\ IF link[c].user # Nobody /\ s \in DOMAIN games /\ games[s].player2 = Nobody
           THEN /\ games[s].gameMutex = Nobody
                /\ games' = [games EXCEPT ![s] = joined]
                /\ SendTo(joined.wsConnections, board)
           ELSE SendTo({Current(c)}, Note("error")) /\ UNCHANGED games
        /\ UNCHANGED <<wsThread, link>>

(* JOIN with all it calls, in one step: no TCP player is in a session that *)
(* a browser can join.  The answer repeats the board that was broadcast.   *)
(* What follows in the code, the code taken for a user name and looked up  *)
(* with an empty password, finds nobody.                                   *)
JOIN(c) ==
    LET s == Head(requests[c]).game
        joined == [games[s] EXCEPT !.player2 = c, !.wsConnections = @ \cup {Current(c)}]
        board == BoardJson("game_joined", s, joined, joined.isPlayer1Turn)
    IN  /\ Receives(c, "join")
        /\ IF link[c].user # Nobody /\ s \in DOMAIN games /\ MayJoin(s, c)
           THEN /\ games[s].gameMutex = Nobody
                /\ games' = [games EXCEPT ![s] = joined]
                /\ SendTo(joined.wsConnections, board)
           ELSE SendTo({Current(c)}, Note("error")) /\ UNCHANGED games
        /\ UNCHANGED <<wsThread, link>>

(* A MOVE goes to the first session, in the order of a hash table, that    *)
(* the user plays in.                                                      *)
MOVE(c) ==
    /\ Receives(c, "move")
    /\ IF link[c].user = Nobody \/ Plays(link[c].user) = {}
       THEN SendTo({Current(c)}, Note("error")) /\ UNCHANGED wsThread
       ELSE /\ \E s \in Plays(link[c].user) :
                  wsThread' = [Idle EXCEPT !.pc = "makeMove", !.from = Current(c), !.game = s]
            /\ UNCHANGED inbox
    /\ UNCHANGED <<games, link>>

(* A session's answer to makeMove: the turn, a game still open, the bound. *)
MayMove(s, name) ==
    /\ (name = games[s].player1) = games[s].isPlayer1Turn
    /\ games[s].over = "none"
    /\ games[s].version < MaxMoves

(* A move may win for the side that makes it (GameSession!DecidedOnce).    *)
Results(s) == {"none", IF games[s].isPlayer1Turn THEN "white" ELSE "black"}

(* What checkForWinner sends the browsers; of white's win, an empty text.  *)
Announce(s, result) ==
    IF result = "black" THEN SendTo(games[s].wsConnections, Note("wins")) ELSE UNCHANGED inbox

(* Mutated form of makeMove: the turn stays where it was.                  *)
MakeMoveKeepTurn ==
    LET s == wsThread.game
    IN  /\ wsThread.pc = "makeMove"
        /\ games[s].gameMutex = Nobody
        /\ MayMove(s, wsThread.from[1])
        /\ \E result \in Results(s) :
              /\ games' = [games EXCEPT ![s].version = @ + 1, ![s].over = result]
              /\ Announce(s, result)
        /\ wsThread' = [wsThread EXCEPT !.pc = "readTurn"]
        /\ UNCHANGED <<tcp, link, requests, client, requested>>

(* Mutated form of makeMove: checkForWinner tells the TCP players only.    *)
MakeMoveTellTcp ==
    LET s == wsThread.game
    IN  /\ wsThread.pc = "makeMove"
        /\ games[s].gameMutex = Nobody
        /\ MayMove(s, wsThread.from[1])
        /\ \E result \in Results(s) :
              games' = [games EXCEPT ![s].version = @ + 1, ![s].over = result,
                                     ![s].isPlayer1Turn = ~@]
        /\ wsThread' = [wsThread EXCEPT !.pc = "readTurn"]
        /\ UNCHANGED <<tcp, link, requests, inbox, client, requested>>

(* makeMove, from its lock to its unlock.                                  *)
makeMove ==
    LET s == wsThread.game
    IN  /\ wsThread.pc = "makeMove"
        /\ games[s].gameMutex = Nobody
        /\ MayMove(s, wsThread.from[1])
        /\ \E result \in Results(s) :
              /\ games' = [games EXCEPT ![s].version = @ + 1, ![s].over = result,
                                        ![s].isPlayer1Turn = ~@]
              /\ Announce(s, result)
        /\ wsThread' = [wsThread EXCEPT !.pc = "readTurn"]
        /\ UNCHANGED <<tcp, link, requests, client, requested>>

(* Refused: out of turn, or not a legal move.                              *)
makeMoveRefused ==
    /\ wsThread.pc = "makeMove"
    /\ games[wsThread.game].gameMutex = Nobody
    /\ wsThread' = [wsThread EXCEPT !.pc = "readTurn"]
    /\ UNCHANGED <<games, tcp, link, requests, inbox, client, requested>>

(* getBoardStateJson, with no lock: the turn first.                        *)
readTurn ==
    /\ wsThread.pc = "readTurn"
    /\ wsThread' = [wsThread EXCEPT !.pc = "sendResult",
                                    !.turn = games[wsThread.game].isPlayer1Turn]
    /\ UNCHANGED <<games, tcp, link, requests, inbox, client, requested>>

(* Mutated form of sendResult: only the mover is sent the result.          *)
SendToMover ==
    LET s == wsThread.game
    IN  /\ wsThread.pc = "sendResult"
        /\ SendTo({wsThread.from}, BoardJson("MoveResult", s, games[s], wsThread.turn))
        /\ wsThread' = Idle
        /\ UNCHANGED <<games, tcp, link, requests, client, requested>>

(* Then the board, and the MoveResult to all connections of the session;   *)
(* the mover's own empty response after it is ignored by the browser.      *)
sendResult ==
    LET s == wsThread.game
    IN  /\ wsThread.pc = "sendResult"
        /\ SendTo(games[s].wsConnections,
                  BoardJson("MoveResult", s, games[s], wsThread.turn))
        /\ wsThread' = Idle
        /\ UNCHANGED <<games, tcp, link, requests, client, requested>>

-----------------------------------------------------------------------------
(* TCP players: each joins one session, by its number, and plays it.       *)

tcpJoin(t, s) ==
    /\ tcp[t] = [pc |-> "receive", game |-> 0]
    /\ games[s].gameMutex = Nobody
    /\ MayJoin(s, t)
    /\ games' = [games EXCEPT ![s].player2 = t]
    /\ tcp' = [tcp EXCEPT ![t] = [pc |-> "broadcast", game |-> s]]
    /\ UNCHANGED <<wsThread, link, requests, inbox, client, requested>>

broadcastGameState(t) ==
    LET s == tcp[t].game
    IN  /\ tcp[t].pc = "broadcast"
        /\ games[s].gameMutex = Nobody
        /\ SendTo(games[s].wsConnections,
                  BoardJson("game_joined", s, games[s], games[s].isPlayer1Turn))
        /\ tcp' = [tcp EXCEPT ![t].pc = "receive"]
        /\ UNCHANGED <<games, wsThread, link, requests, client, requested>>

(* makeMove, begun with the lock taken: applyMoveToBoard is at work ...    *)
tcpMove(t) ==
    LET s == tcp[t].game
    IN  /\ tcp[t].pc = "receive" /\ s # 0
        /\ games[s].gameMutex = Nobody
        /\ MayMove(s, t)
        /\ games' = [games EXCEPT ![s].gameMutex = t, ![s].applying = TRUE]
        /\ tcp' = [tcp EXCEPT ![t].pc = "applying"]
        /\ UNCHANGED <<wsThread, link, requests, inbox, client, requested>>

(* ... is done ...                                                         *)
tcpApplied(t) ==
    LET s == tcp[t].game
    IN  /\ tcp[t].pc = "applying"
        /\ games' = [games EXCEPT ![s].applying = FALSE, ![s].version = @ + 1]
        /\ tcp' = [tcp EXCEPT ![t].pc = "applied"]
        /\ UNCHANGED <<wsThread, link, requests, inbox, client, requested>>

(* Mutated form of tcpMoved: gameMutex is not released.                    *)
TcpMovedKeepsLock(t) ==
    LET s == tcp[t].game
    IN  /\ tcp[t].pc = "applied"
        /\ \E result \in Results(s) :
              /\ games' = [games EXCEPT ![s].isPlayer1Turn = ~@, ![s].over = result]
              /\ Announce(s, result)
        /\ tcp' = [tcp EXCEPT ![t].pc = "receive"]
        /\ UNCHANGED <<wsThread, link, requests, client, requested>>

(* ... the turn is toggled, a winner announced, and the lock released.  No *)
(* board goes to the browsers.                                             *)
tcpMoved(t) ==
    LET s == tcp[t].game
    IN  /\ tcp[t].pc = "applied"
        /\ \E result \in Results(s) :
              /\ games' = [games EXCEPT ![s].gameMutex = Nobody, ![s].isPlayer1Turn = ~@,
                                        ![s].over = result]
              /\ Announce(s, result)
        /\ tcp' = [tcp EXCEPT ![t].pc = "receive"]
        /\ UNCHANGED <<wsThread, link, requests, client, requested>>

-----------------------------------------------------------------------------
User(c) ==
    \/ handleLogin(c) \/ handleCreateGame(c) \/ handleMakeMove(c) \/ returnToLobby(c)
    \/ \E code \in 1 .. MaxGames : handleJoinGame(c, code)

WsThread ==
    \/ \E c \in Browsers :
          \/ \E valid \in BOOLEAN : LOGIN(c, valid)
          \/ CREATE(c) \/ JOIN(c) \/ MOVE(c)
    \/ addWebSocketHandle \/ makeMoveRefused \/ makeMove
    \/ readTurn \/ sendResult

(* What a TCP handler does once it has begun.                              *)
TcpHandler(t) ==
    broadcastGameState(t) \/ tcpApplied(t) \/ tcpMoved(t)

Next ==
    \/ \E c \in Browsers :
          User(c) \/ updateFromServer(c) \/ connectionLost(c) \/ reconnect(c)
    \/ WsThread
    \/ \E t \in TcpPlayers :
          TcpHandler(t) \/ tcpMove(t) \/ \E s \in DOMAIN games : tcpJoin(t, s)

(* The server's threads and the browsers' event loops go on.  Nobody has   *)
(* to play, and a connection need neither break nor come back.             *)
Fairness ==
    /\ WF_vars(WsThread)
    /\ \A t \in TcpPlayers : WF_vars(TcpHandler(t))
    /\ \A c \in Browsers : WF_vars(updateFromServer(c))

Spec == Init /\ [][Next]_vars /\ Fairness

-----------------------------------------------------------------------------
(* Properties.                                                             *)

(* The session is played by two browsers.                                  *)
BrowserGame(s) == {games[s].player1, games[s].player2} \subseteq Browsers

(* The boards of a game between two browsers are read with no lock after   *)
(* makeMove has returned (Server.cpp:448), yet are always whole, and go    *)
(* with the turn sent beside them: only its one thread writes them.  With  *)
(* a TCP player in the game neither holds.                                 *)
ShownWhole ==
    \A c \in Browsers :
        LET s == client[c].board.game
        IN  s # 0 /\ BrowserGame(s) /\ client[c].board.version # Blank =>
                /\ client[c].board.version # Torn
                /\ client[c].currentPlayer # Nobody => client[c].currentPlayer =
                      Mover(games[s], client[c].board.version % 2 = 0)

(* When nothing is under way, a browser whose connection was there when    *)
(* its only game began shows that game as it is: board, turn, and whether  *)
(* black has won it.                                                       *)
QuietAgreement ==
    \A c \in Browsers, s \in DOMAIN games :
        /\ BrowserGame(s) /\ Plays(c) = {s}
        /\ Current(c) \in games[s].wsConnections /\ link[c].open
        /\ wsThread = Idle /\ inbox[c] = <<>>
        => /\ client[c].board = [game |-> s, version |-> games[s].version]
           /\ client[c].currentPlayer = Mover(games[s], games[s].isPlayer1Turn)
           /\ client[c].gameStatus = IF games[s].over = "black" THEN "finished" ELSE "playing"

(* A browser never goes back to an earlier board of the game it shows,     *)
(* whether the WebSocket thread or a TCP player's handler has sent it.     *)
BoardsForward ==
    [][\A c \in Browsers :
          LET now == client[c].board
              next == client'[c].board
          IN  now.game = next.game /\ now.version >= 0 /\ next.version >= 0
                  => next.version >= now.version]_vars

(* Black has won s, the only game of c, which is connected to it and does  *)
(* not show the end of it.                                                 *)
EndUnseen(c, s) ==
    /\ games[s].over = "black" /\ BrowserGame(s) /\ Plays(c) = {s}
    /\ Current(c) \in games[s].wsConnections /\ link[c].open
    /\ \/ client[c].gameStatus # "finished"
       \/ client[c].board # [game |-> s, version |-> games[s].version]

SomeEndUnseen == \E c \in Browsers, s \in DOMAIN games : EndUnseen(c, s)

(* A win of black reaches each browser still connected, and the final      *)
(* board, which is sent after it, as well.                                 *)
FinishedShown == SomeEndUnseen ~> ~SomeEndUnseen

(* The one thread of all browsers never stays with a request: it may wait  *)
(* for a TCP player's move, which ends.                                    *)
RequestsEnd ==
    \A c \in Browsers : requests[c] # <<>> ~> requests[c] = <<>>

(* "Rejoin game automatically if player is still in state"                 *)
(* (useWebSocket.js:22).                                                   *)
RejoinsAutomatically ==
    [][\A c \in Browsers :
          /\ ~link[c].open /\ link'[c].open
          /\ client[c].player # Nobody /\ client[c].gameId # 0
          => requests'[c] = <<[command |-> "join", game |-> client[c].gameId]>>]_vars
=============================================================================
