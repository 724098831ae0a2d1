--------------------------- MODULE BrowserProofs ----------------------------
(***************************************************************************)
(* What the browsers are shown, for any number of browsers, TCP players,   *)
(* games, moves, requests and broken connections.  The argument is about   *)
(* the messages under way: each board in an inbox fits the game it is a    *)
(* board of, boards of one game are in the order of its moves, and the     *)
(* last one in an inbox is the game as it is unless the WebSocket thread   *)
(* is still to send it.                                                    *)
(***************************************************************************)
EXTENDS Browser, FiniteSetTheorems, SequenceTheorems, TLAPS

(* The bounds: on the games there are or will be, on the requests under    *)
(* way, and on the connections that have broken.                           *)
Bounded ==
    /\ Len(games) + Cardinality(Creating) <= MaxGames
    /\ Cardinality(Broken) <= MaxDrops
    /\ \A c \in Browsers : Len(requests[c]) <= requested

(* A handler of a TCP player that has begun is at work in its own game,    *)
(* whose mutex it holds exactly while its move is being made.              *)
Holds(t) == tcp[t].pc \in {"applying", "applied"}

Handlers ==
    /\ \A t \in TcpPlayers :
          /\ tcp[t].pc # "receive" => tcp[t].game # 0
          /\ tcp[t].game # 0 => /\ tcp[t].game \in DOMAIN games
                                /\ games[tcp[t].game].player2 = t
          /\ Holds(t) => games[tcp[t].game].gameMutex = t
          /\ tcp[t].pc = "applying" => games[tcp[t].game].version < MaxMoves
    /\ \A s \in DOMAIN games :
          games[s].gameMutex # Nobody =>
              /\ games[s].gameMutex = games[s].player2
              /\ Holds(games[s].player2) /\ tcp[games[s].player2].game = s

(* A game with no TCP player in it is written by the WebSocket thread only: *)
(* nobody holds its lock, its board is whole, and its turn is that of the  *)
(* number of moves made.  Black cannot have won before it has come.        *)
Unshared ==
    \A s \in DOMAIN games :
        /\ games[s].player1 \in Browsers
        /\ games[s].player2 \notin TcpPlayers =>
              /\ games[s].gameMutex = Nobody /\ ~games[s].applying
              /\ games[s].isPlayer1Turn = (games[s].version % 2 = 0)
        /\ games[s].player2 = Nobody => games[s].over # "black"

(* The connections a session sends its boards to are its players', and     *)
(* none is newer than its browser's.                                       *)
Registered ==
    \A s \in DOMAIN games : \A h \in games[s].wsConnections :
        /\ h[1] \in {games[s].player1, games[s].player2}
        /\ h[2] <= link[h[1]].number

(* Where the WebSocket thread is with a request.                           *)
AtWork ==
    wsThread.pc # "idle" =>
        LET s == wsThread.game
        IN  /\ s \in DOMAIN games /\ wsThread.from \in Handle
            /\ wsThread.from[1] \in {games[s].player1, games[s].player2}
            /\ wsThread.from[2] <= link[wsThread.from[1]].number
            /\ wsThread.pc = "created" => games[s].player2 \notin Browsers
            /\ wsThread.pc = "sendResult" /\ games[s].player2 \notin TcpPlayers =>
                  wsThread.turn = games[s].isPlayer1Turn

IsBoard(m) == m.type \in {"game_joined", "MoveResult"}

(* A board of session s among sessions, at some number of moves, with a    *)
(* turn beside it.                                                         *)
Fits(sessions, s, version, turn) ==
    version # Blank =>
        /\ s \in DOMAIN sessions /\ sessions[s].player2 # Nobody
        /\ version <= sessions[s].version
        /\ sessions[s].player2 \in Browsers =>
              /\ version # Torn
              /\ turn # Nobody => turn = Mover(sessions[s], version % 2 = 0)

BoardsFit ==
    \A c \in Browsers :
        /\ Fits(games, client[c].board.game, client[c].board.version, client[c].currentPlayer)
        /\ \A i \in DOMAIN inbox[c] : IsBoard(inbox[c][i]) =>
              Fits(games, inbox[c][i].game, inbox[c][i].version, inbox[c][i].turn)

(* One board is not of a later move than another of the same game.         *)
Before(old, new) ==
    old.game = new.game /\ old.version >= 0 /\ new.version >= 0 =>
        old.version <= new.version

BoardsOrdered ==
    \A c \in Browsers : \A j \in DOMAIN inbox[c] :
        IsBoard(inbox[c][j]) =>
            /\ Before(client[c].board, inbox[c][j])
            /\ \A i \in 1 .. j : IsBoard(inbox[c][i]) => Before(inbox[c][i], inbox[c][j])

(* Session s is the only one of browser c, and sends it its boards.        *)
Follows(c, s) ==
    /\ BrowserGame(s) /\ Plays(c) = {s}
    /\ Current(c) \in games[s].wsConnections /\ link[c].open

(* The k-th message of c, or its state for k = 0, is the last to say which *)
(* board and turn c shows, and they are those of session s.                *)
BoardSettled(c, s, k) ==
    /\ \A j \in k + 1 .. Len(inbox[c]) :
          inbox[c][j].type \notin {"game_created", "game_joined", "MoveResult"}
    /\ IF k = 0
       THEN /\ client[c].board = [game |-> s, version |-> games[s].version]
            /\ client[c].currentPlayer = Mover(games[s], games[s].isPlayer1Turn)
       ELSE /\ IsBoard(inbox[c][k])
            /\ inbox[c][k].game = s /\ inbox[c][k].version = games[s].version
            /\ inbox[c][k].turn = Mover(games[s], games[s].isPlayer1Turn)

(* The same of whether the game is over.                                   *)
StatusSettled(c, s, k) ==
    /\ \A j \in k + 1 .. Len(inbox[c]) :
          inbox[c][j].type \notin {"game_created", "game_joined", "wins"}
    /\ IF k = 0
       THEN client[c].gameStatus = IF games[s].over = "black" THEN "finished" ELSE "playing"
       ELSE inbox[c][k].type = IF games[s].over = "black" THEN "wins" ELSE "game_joined"

Sending(s) == wsThread.pc \in {"readTurn", "sendResult"} /\ wsThread.game = s

SettledFor(c, s) ==
    /\ Sending(s) \/ \E k \in 0 .. Len(inbox[c]) : BoardSettled(c, s, k)
    /\ \E k \in 0 .. Len(inbox[c]) : StatusSettled(c, s, k)

Settled == \A c \in Browsers : \A s \in DOMAIN games : Follows(c, s) => SettledFor(c, s)

IndInv ==
    /\ TypeOK /\ Bounded /\ Handlers /\ Unshared /\ Registered /\ AtWork
    /\ BoardsFit /\ BoardsOrdered /\ Settled

Request == [command : {"login", "create", "join", "move"}, game : 0 .. MaxGames]
WsState == [pc : {"idle", "created", "makeMove", "readTurn", "sendResult"},
            from : Handle \cup {Nobody}, game : 0 .. MaxGames, turn : BOOLEAN]
TcpState == [pc : {"receive", "broadcast", "applying", "applied"}, game : 0 .. MaxGames]
Link == [open : BOOLEAN, number : 0 .. MaxDrops, user : Browsers \cup {Nobody}]

-----------------------------------------------------------------------------
(* What TypeOK says of one element.                                        *)
LEMMA Elements ==
    ASSUME TypeOK
    PROVE  /\ Len(games) \in 0 .. MaxGames /\ DOMAIN games = 1 .. Len(games)
           /\ \A s \in DOMAIN games : s \in 1 .. MaxGames /\ games[s] \in Game
           /\ wsThread \in WsState
           /\ tcp \in [TcpPlayers -> TcpState]
           /\ link \in [Browsers -> Link]
           /\ requests \in [Browsers -> Seq(Request)]
           /\ {MaxGames, MaxMoves, MaxRequests, MaxDrops} \subseteq Nat
<1>1. games \in Seq(Game) /\ Len(games) <= MaxGames
  BY DEF TypeOK
<1>2. Len(games) \in Nat /\ DOMAIN games = 1 .. Len(games)
      /\ \A s \in 1 .. Len(games) : games[s] \in Game
  BY <1>1, LenProperties, ElementOfSeq
<1>3. {MaxGames, MaxMoves, MaxRequests, MaxDrops} \subseteq Nat
  BY ConstantsAssumption
<1>4. wsThread \in WsState /\ tcp \in [TcpPlayers -> TcpState]
      /\ link \in [Browsers -> Link] /\ requests \in [Browsers -> Seq(Request)]
  BY DEF TypeOK, WsState, TcpState, Link, Request
<1>5. Len(games) \in 0 .. MaxGames
  BY <1>1, <1>2, <1>3
<1>6. \A s \in DOMAIN games : s \in 1 .. MaxGames /\ games[s] \in Game
  BY <1>1, <1>2, <1>3
<1> QED BY <1>2, <1>3, <1>4, <1>5, <1>6

LEMMA ARequest ==
    ASSUME TypeOK, NEW c \in Browsers, requests[c] # <<>>
    PROVE  /\ Head(requests[c]) \in Request /\ Head(requests[c]) = requests[c][1]
           /\ 1 \in DOMAIN requests[c]
           /\ Tail(requests[c]) \in Seq(Request)
           /\ Len(requests[c]) \in Nat \ {0}
           /\ Len(Tail(requests[c])) = Len(requests[c]) - 1
           /\ \A i \in 1 .. Len(requests[c]) - 1 : Tail(requests[c])[i] = requests[c][i + 1]
<1>1. requests[c] \in Seq(Request)
  BY Elements
<1> QED BY <1>1, HeadTailProperties, LenProperties, EmptySeq

(* A message comes last in the inbox of c.                                 *)
Arrives(c, m) ==
    /\ Len(inbox'[c]) = Len(inbox[c]) + 1
    /\ inbox'[c][Len(inbox[c]) + 1] = m
    /\ \A i \in 1 .. Len(inbox[c]) : inbox'[c][i] = inbox[c][i]

LEMMA SendFacts ==
    ASSUME TypeOK, NEW handles, NEW m \in Message, SendTo(handles, m)
    PROVE  /\ inbox' \in [Browsers -> Seq(Message)]
           /\ \A c \in Browsers :
                 IF Current(c) \in handles /\ link[c].open
                 THEN Arrives(c, m) ELSE inbox'[c] = inbox[c]
<1>1. ASSUME NEW c \in Browsers
      PROVE  /\ inbox'[c] \in Seq(Message)
             /\ IF Current(c) \in handles /\ link[c].open
                THEN Arrives(c, m) ELSE inbox'[c] = inbox[c]
  <2>1. inbox[c] \in Seq(Message)
    BY DEF TypeOK
  <2>2. inbox'[c] = IF Current(c) \in handles /\ link[c].open
                    THEN Append(inbox[c], m) ELSE inbox[c]
    BY DEF SendTo
  <2> QED BY <2>1, <2>2, AppendProperties DEF Arrives
<1> QED BY <1>1 DEF SendTo

LEMMA NoteType ==
    ASSUME NEW type \in {"login_success", "invalid", "error", "wins", "garbled"}
    PROVE  Note(type) \in Message /\ Note(type).type = type
<1>1. 0 \in 0 .. MaxGames
  BY ConstantsAssumption
<1> QED BY <1>1 DEF Note, Message, Version

LEMMA CreatedType ==
    ASSUME NEW s \in 0 .. MaxGames
    PROVE  /\ [Note("game_created") EXCEPT !.game = s] \in Message
           /\ [Note("game_created") EXCEPT !.game = s].type = "game_created"
<1>1. [Note("game_created") EXCEPT !.game = s] =
        [type |-> "game_created", game |-> s, version |-> Blank, turn |-> Nobody]
  BY DEF Note
<1> QED BY <1>1 DEF Message, Version

LEMMA BoardJsonFacts ==
    ASSUME NEW type \in {"game_joined", "MoveResult"}, NEW s \in 0 .. MaxGames,
           NEW game \in Game, NEW turn \in BOOLEAN
    PROVE  LET m == BoardJson(type, s, game, turn)
           IN  /\ m \in Message
               /\ IF {game.player1, game.player2} \cap LineEnders # {}
                  THEN m.type = "garbled"
                  ELSE /\ m.type = type /\ m.game = s /\ m.turn = Mover(game, turn)
                       /\ m.version = IF game.player2 = Nobody THEN Blank
                                      ELSE IF game.applying THEN Torn ELSE game.version
<1>1. CASE {game.player1, game.player2} \cap LineEnders # {}
  BY <1>1, NoteType DEF BoardJson
<1>2. CASE {game.player1, game.player2} \cap LineEnders = {}
  <2> DEFINE version == IF game.player2 = Nobody THEN Blank
                        ELSE IF game.applying THEN Torn ELSE game.version
  <2>1. BoardJson(type, s, game, turn) =
            [type |-> type, game |-> s, turn |-> Mover(game, turn), version |-> version]
    BY <1>2 DEF BoardJson
  <2>2. Mover(game, turn) \in Names \cup {Nobody} /\ version \in Version
    BY DEF Mover, Game, Version
  <2> HIDE DEF version
  <2>3. [type |-> type, game |-> s, turn |-> Mover(game, turn), version |-> version] \in Message
    BY <2>2 DEF Message
  <2> QED BY <1>2, <2>1, <2>3 DEF version
<1> QED BY <1>1, <1>2

(* A change of one session.                                                *)
LEMMA GameChange ==
    ASSUME TypeOK, NEW s \in DOMAIN games, NEW game \in Game, game.player1 # game.player2,
           games' = [games EXCEPT ![s] = game]
    PROVE  /\ games' \in Seq(Game) /\ Len(games') <= MaxGames /\ Len(games') = Len(games)
           /\ \A r \in DOMAIN games' : games'[r].player1 # games'[r].player2
           /\ DOMAIN games' = DOMAIN games /\ games'[s] = game
           /\ \A r \in DOMAIN games \ {s} : games'[r] = games[r]
<1>1. games \in Seq(Game) /\ Len(games) <= MaxGames
      /\ \A r \in DOMAIN games : games[r].player1 # games[r].player2
  BY DEF TypeOK
<1>2. s \in 1 .. Len(games)
  BY Elements
<1>3. games' \in Seq(Game) /\ Len(games') = Len(games) /\ DOMAIN games' = DOMAIN games
  BY <1>1, <1>2, ExceptSeq
<1>4. games'[s] = game /\ \A r \in DOMAIN games \ {s} : games'[r] = games[r]
  OBVIOUS
<1> QED BY <1>1, <1>3, <1>4

-----------------------------------------------------------------------------
(* Counting for the bounds.                                                *)
LEMMA FiniteCounts ==
    ASSUME TypeOK
    PROVE  /\ IsFiniteSet(Creating) /\ Cardinality(Creating) \in Nat
           /\ IsFiniteSet(Broken) /\ Cardinality(Broken) \in Nat
<1>3. IsFiniteSet(Browsers) /\ MaxRequests \in Int /\ MaxDrops \in Int /\ 1 \in Int /\ 0 \in Int
  BY ConstantsAssumption
<1>4. IsFiniteSet(1 .. MaxRequests) /\ IsFiniteSet(0 .. MaxDrops)
  BY <1>3, FS_Interval
<1>1. IsFiniteSet(Browsers \X (1 .. MaxRequests)) /\ IsFiniteSet(Handle)
  BY <1>3, <1>4, FS_Product DEF Handle
<1>2. Creating \subseteq Browsers \X (1 .. MaxRequests) /\ Broken \subseteq Handle
  BY DEF Creating, Broken
<1> QED BY <1>1, <1>2, FS_Subset, FS_CardinalityType

(* A closed connection and its browser's earlier ones have all broken.     *)
LEMMA DropsLeft ==
    ASSUME TypeOK, Cardinality(Broken) <= MaxDrops, NEW c \in Browsers, ~link[c].open
    PROVE  link[c].number + 1 \in 0 .. MaxDrops
<1> DEFINE n == link[c].number
           Own == {c} \X (0 .. n)
<1>1. n \in 0 .. MaxDrops /\ MaxDrops \in Nat
  BY Elements DEF Link
<1>2. Own \subseteq Broken
  BY <1>1 DEF Broken, Handle
<1>3. IsFiniteSet({c}) /\ Cardinality({c}) = 1
  BY FS_Singleton
<1>6. IsFiniteSet(0 .. n) /\ Cardinality(0 .. n) = n + 1
  <2> HIDE DEF n
  <2>1. 0 \in Int /\ n \in Int /\ ~(0 > n) /\ n - 0 + 1 = n + 1
    BY <1>1
  <2> QED BY <2>1, FS_Interval
<1>4. Cardinality(Own) = 1 * (n + 1)
  <2> HIDE DEF n
  <2>1. Cardinality({c} \X (0 .. n)) = Cardinality({c}) * Cardinality(0 .. n)
    BY <1>3, <1>6, FS_Product
  <2> QED BY <1>3, <1>6, <2>1
<1>5. Cardinality(Own) <= Cardinality(Broken) /\ Cardinality(Broken) \in Nat
  BY <1>2, FiniteCounts, FS_Subset
<1> HIDE DEF Own
<1> QED BY <1>1, <1>4, <1>5

(* While a CREATE is under way there is room for its session.              *)
LEMMA RoomToCreate ==
    ASSUME TypeOK, Bounded, NEW c \in Browsers, requests[c] # <<>>,
           Head(requests[c]).command = "create"
    PROVE  Len(games) + 1 <= MaxGames
<1>1. Len(requests[c]) <= requested /\ requested \in 0 .. MaxRequests
  BY DEF Bounded, TypeOK
<1>2. /\ 1 \in 1 .. MaxRequests
      /\ requests[c][1].command = "create"
      /\ 1 \in DOMAIN requests[c]
  BY <1>1, ARequest, Elements
<1>3. <<c, 1>> \in Creating
  BY <1>2 DEF Creating
<1>4. Cardinality(Creating) # 0 /\ Cardinality(Creating) \in Nat
  BY <1>3, FiniteCounts, FS_EmptySet
<1> QED BY <1>4, Elements DEF Bounded

(* What a step does to the requests.                                       *)
LEMMA SendMessageFacts ==
    ASSUME TypeOK, NEW c \in Browsers, NEW command \in {"login", "create", "join", "move"},
           NEW s \in 0 .. MaxGames, sendMessage(c, command, s)
    PROVE  /\ requests' \in [Browsers -> Seq(Request)]
           /\ requested \in Nat /\ requested' = requested + 1
           /\ requested' \in 0 .. MaxRequests
           /\ \A d \in Browsers \ {c} : requests'[d] = requests[d]
           /\ \/ requests'[c] = requests[c]
              \/ requests'[c] = Append(requests[c], [command |-> command, game |-> s])
<1>1. requests \in [Browsers -> Seq(Request)] /\ {MaxRequests} \subseteq Nat
      /\ requested \in 0 .. MaxRequests
  BY Elements DEF TypeOK
<1>2. [command |-> command, game |-> s] \in Request
  BY DEF Request
<1>3. Append(requests[c], [command |-> command, game |-> s]) \in Seq(Request)
  BY <1>1, <1>2, AppendProperties
<1>4. requested' = requested + 1 /\ requested < MaxRequests
  BY DEF sendMessage
<1>5. \/ requests' = requests
      \/ requests' = [requests EXCEPT ![c] =
                        Append(requests[c], [command |-> command, game |-> s])]
  BY DEF sendMessage
<1>6. requested \in Nat /\ requested' \in 0 .. MaxRequests
  BY <1>1, <1>4
<1>7. /\ requests' \in [Browsers -> Seq(Request)]
      /\ \A d \in Browsers \ {c} : requests'[d] = requests[d]
      /\ \/ requests'[c] = requests[c]
         \/ requests'[c] = Append(requests[c], [command |-> command, game |-> s])
  BY <1>1, <1>3, <1>5
<1> QED BY <1>4, <1>6, <1>7

LEMMA ReceivesFacts ==
    ASSUME TypeOK, NEW c \in Browsers, NEW command, Receives(c, command)
    PROVE  /\ wsThread.pc = "idle" /\ requests[c] # <<>>
           /\ Head(requests[c]) \in Request /\ Head(requests[c]).command = command
           /\ requests' \in [Browsers -> Seq(Request)]
           /\ requests'[c] = Tail(requests[c])
           /\ \A d \in Browsers \ {c} : requests'[d] = requests[d]
           /\ UNCHANGED <<tcp, client, requested>>
<1>1. requests \in [Browsers -> Seq(Request)]
  BY Elements
<1> QED BY <1>1, ARequest DEF Receives

LEMMA UpdatedType ==
    ASSUME NEW state \in Client, NEW c \in Browsers, NEW m \in Message
    PROVE  Updated(state, c, m) \in Client
<1>1. Shown(m) \in [game : 0 .. MaxGames, version : Version] /\ m.turn \in Names \cup {Nobody}
      /\ m.game \in 0 .. MaxGames
  BY DEF Shown, Message
<1>2. ASSUME NEW state2 \in Client PROVE Viewed(state2) \in Client
  BY DEF Viewed, Client
<1>3. [state EXCEPT !.player = c] \in Client /\ [state EXCEPT !.player = Nobody] \in Client
  BY DEF Client
<1>4. [state EXCEPT !.gameStatus = "waiting", !.currentPlayer = Nobody, !.gameId = m.game]
        \in Client
  BY <1>1 DEF Client
<1>5. [state EXCEPT !.board = Shown(m), !.gameStatus = "playing",
                          !.currentPlayer = m.turn] \in Client
  BY <1>1 DEF Client
<1>6. [state EXCEPT !.board = Shown(m), !.currentPlayer = m.turn] \in Client
  BY <1>1 DEF Client
<1>7. [state EXCEPT !.gameStatus = "finished"] \in Client
  BY DEF Client
<1> QED BY <1>2, <1>3, <1>4, <1>5, <1>6, <1>7 DEF Updated

-----------------------------------------------------------------------------
(* Types, one group of actions after the other.                            *)
LEMMA UserTypes ==
    ASSUME TypeOK, NEW c \in Browsers, User(c)
    PROVE  TypeOK'
<1>1. UNCHANGED <<games, wsThread, tcp, link, inbox>>
  BY DEF User, handleLogin, handleCreateGame, handleMakeMove, returnToLobby, handleJoinGame
<1>2. requests' \in [Browsers -> Seq(Request)] /\ requested' \in 0 .. MaxRequests
  <2>1. PICK command \in {"login", "create", "join", "move"}, s \in 0 .. MaxGames :
            sendMessage(c, command, s)
    <3>1. 0 \in 0 .. MaxGames /\ \A code \in 1 .. MaxGames : code \in 0 .. MaxGames
      BY ConstantsAssumption
    <3>2. CASE handleLogin(c)
      BY <3>1, <3>2 DEF handleLogin
    <3>3. CASE handleCreateGame(c)
      BY <3>1, <3>3 DEF handleCreateGame
    <3>4. CASE handleMakeMove(c)
      BY <3>1, <3>4 DEF handleMakeMove
    <3>5. CASE returnToLobby(c)
      BY <3>1, <3>5 DEF returnToLobby
    <3>6. CASE \E code \in 1 .. MaxGames : handleJoinGame(c, code)
      BY <3>1, <3>6 DEF handleJoinGame
    <3> QED BY <3>2, <3>3, <3>4, <3>5, <3>6 DEF User
  <2> QED BY <2>1, SendMessageFacts
<1>3. client' \in [Browsers -> Client]
  <2>1. client[c] \in Client /\ client \in [Browsers -> Client] /\ 0 \in 0 .. MaxGames
    BY ConstantsAssumption DEF TypeOK
  <2>2. CASE UNCHANGED client
    BY <2>1, <2>2
  <2>3. CASE returnToLobby(c)
    <3>1. [client[c] EXCEPT !.gameId = 0, !.view = "lobby"] \in Client
      BY <2>1 DEF Client
    <3>2. client' = [client EXCEPT ![c] = [client[c] EXCEPT !.gameId = 0, !.view = "lobby"]]
      BY <2>1, <2>3 DEF returnToLobby
    <3> QED BY <2>1, <3>1, <3>2
  <2>4. ASSUME NEW code \in 1 .. MaxGames, handleJoinGame(c, code)
        PROVE  client' \in [Browsers -> Client]
    <3>1. Viewed([client[c] EXCEPT !.gameId = code]) \in Client
      <4>1. [client[c] EXCEPT !.gameId = code] \in Client
        BY <2>1 DEF Client
      <4> QED BY <4>1 DEF Viewed, Client
    <3> QED BY <2>1, <2>4, <3>1 DEF handleJoinGame
  <2> QED BY <2>2, <2>3, <2>4 DEF User, handleLogin, handleCreateGame, handleMakeMove
<1> QED BY <1>1, <1>2, <1>3 DEF TypeOK, Request

LEMMA ConnectionTypes ==
    ASSUME TypeOK, Bounded, NEW c \in Browsers,
           connectionLost(c) \/ reconnect(c) \/ updateFromServer(c)
    PROVE  TypeOK'
<1>1. link \in [Browsers -> Link] /\ requests \in [Browsers -> Seq(Request)]
      /\ inbox \in [Browsers -> Seq(Message)] /\ inbox[c] \in Seq(Message)
  BY Elements DEF TypeOK
<1>2. CASE connectionLost(c)
  <2>1. UNCHANGED <<games, wsThread, tcp, client, requested>>
    BY <1>2 DEF connectionLost
  <2>2. link' \in [Browsers -> Link] /\ \A d \in Browsers : link'[d].user = link[d].user
    BY <1>1, <1>2 DEF connectionLost, Link
  <2>3. requests' \in [Browsers -> Seq(Request)] /\ inbox' \in [Browsers -> Seq(Message)]
    BY <1>1, <1>2, EmptySeq DEF connectionLost
  <2> QED BY <2>1, <2>2, <2>3 DEF TypeOK, Link, Request
<1>3. CASE reconnect(c)
  <2>1. UNCHANGED <<games, wsThread, tcp, inbox, client, requested>> /\ requests' = requests
    BY <1>3 DEF reconnect, Captured
  <2>2. link[c].number + 1 \in 0 .. MaxDrops
    BY <1>3, DropsLeft DEF reconnect, Bounded
  <2>3. link' = [link EXCEPT ![c] = [open |-> TRUE, number |-> link[c].number + 1,
                                     user |-> Nobody]]
    BY <1>1, <1>3 DEF reconnect
  <2>4. link' \in [Browsers -> Link] /\ \A d \in Browsers : link'[d].user \in {d, Nobody}
    BY <1>1, <2>2, <2>3 DEF Link, TypeOK
  <2> QED BY <2>1, <2>4 DEF TypeOK, Link
<1>4. CASE updateFromServer(c)
  <2>1. UNCHANGED <<games, wsThread, tcp, link, requests, requested>> /\ inbox[c] # <<>>
    BY <1>4 DEF updateFromServer
  <2>2. Head(inbox[c]) \in Message /\ Tail(inbox[c]) \in Seq(Message)
    BY <1>1, <2>1, HeadTailProperties
  <2>3. Updated(client[c], c, Head(inbox[c])) \in Client
    BY <2>2, UpdatedType DEF TypeOK
  <2>4. client' \in [Browsers -> Client] /\ inbox' \in [Browsers -> Seq(Message)]
    BY <1>1, <1>4, <2>2, <2>3 DEF updateFromServer, TypeOK
  <2> QED BY <2>1, <2>4 DEF TypeOK
<1> QED BY <1>2, <1>3, <1>4

(* The session that a browser's CREATE makes.                              *)
NewGame(user) ==
    [player1 |-> user, player2 |-> Nobody, version |-> 0, applying |-> FALSE,
     isPlayer1Turn |-> TRUE, over |-> "none", wsConnections |-> {}, gameMutex |-> Nobody]

LEMMA CreateFacts ==
    ASSUME TypeOK, Bounded, NEW c \in Browsers, CREATE(c), link[c].user # Nobody
    PROVE  /\ link[c].user = c
           /\ games' = Append(games, NewGame(c)) /\ games' \in Seq(Game)
           /\ DOMAIN games' = 1 .. Len(games) + 1 /\ Len(games') = Len(games) + 1
           /\ Len(games') <= MaxGames
           /\ \A s \in DOMAIN games : games'[s] = games[s]
           /\ games'[Len(games) + 1] = NewGame(c)
           /\ wsThread' = [pc |-> "created", from |-> Current(c), game |-> Len(games) + 1,
                           turn |-> TRUE]
           /\ Current(c) \in Handle
           /\ UNCHANGED inbox
<1>1. link[c].user = c /\ c \in Browsers /\ Nobody \notin Browsers
  BY ConstantsAssumption DEF TypeOK
<1>2. NewGame(c) \in Game
  BY ConstantsAssumption DEF NewGame, Game, Names
<1>3. games' = Append(games, NewGame(c))
  BY <1>1 DEF CREATE, NewGame
<1>4. games \in Seq(Game)
  BY DEF TypeOK
<1>5. /\ games' \in Seq(Game) /\ Len(games') = Len(games) + 1
      /\ \A s \in 1 .. Len(games) : games'[s] = games[s]
      /\ games'[Len(games) + 1] = NewGame(c)
  BY <1>2, <1>3, <1>4, AppendProperties
<1>6. Len(games) + 1 <= MaxGames
  BY RoomToCreate, ReceivesFacts DEF CREATE
<1>7. DOMAIN games' = 1 .. Len(games) + 1 /\ DOMAIN games = 1 .. Len(games)
  BY <1>4, <1>5, LenProperties
<1>8. Current(c) \in Handle
  BY Elements DEF Current, Handle, Link
<1> QED BY <1>1, <1>3, <1>5, <1>6, <1>7, <1>8 DEF CREATE, Idle

LEMMA RequestTypes ==
    ASSUME TypeOK, Bounded, NEW c \in Browsers,
           (\E valid \in BOOLEAN : LOGIN(c, valid)) \/ CREATE(c) \/ MOVE(c)
    PROVE  TypeOK'
<1>1. /\ requests' \in [Browsers -> Seq(Request)]
      /\ UNCHANGED <<tcp, client, requested>>
  BY ReceivesFacts DEF LOGIN, CREATE, MOVE
<1>2. ASSUME NEW type \in {"login_success", "invalid", "error"},
             SendTo({Current(c)}, Note(type))
      PROVE  inbox' \in [Browsers -> Seq(Message)]
  BY <1>2, NoteType, SendFacts
<1>3. ASSUME NEW valid \in BOOLEAN, LOGIN(c, valid)
      PROVE  TypeOK'
  <2>1. UNCHANGED <<games, wsThread>>
    BY <1>3 DEF LOGIN
  <2>2. inbox' \in [Browsers -> Seq(Message)]
    BY <1>2, <1>3 DEF LOGIN
  <2>3. link' = link \/ link' = [link EXCEPT ![c].user = c]
    BY <1>3 DEF LOGIN
  <2>4. link' \in [Browsers -> Link] /\ \A d \in Browsers : link'[d].user \in {d, Nobody}
    <3>1. link \in [Browsers -> Link] /\ \A d \in Browsers : link[d].user \in {d, Nobody}
      BY Elements DEF TypeOK
    <3>2. [link[c] EXCEPT !.user = c] \in Link /\ [link[c] EXCEPT !.user = c].user = c
      BY <3>1 DEF Link
    <3>3. link' = link \/ link' = [link EXCEPT ![c] = [link[c] EXCEPT !.user = c]]
      BY <2>3
    <3> HIDE DEF Link
    <3> QED BY <3>1, <3>2, <3>3
  <2> QED BY <1>1, <2>1, <2>2, <2>4 DEF TypeOK, Link, Request
<1>4. CASE CREATE(c) /\ link[c].user = Nobody
  <2>1. UNCHANGED <<games, wsThread, link>> /\ inbox' \in [Browsers -> Seq(Message)]
    BY <1>2, <1>4 DEF CREATE
  <2> QED BY <1>1, <2>1 DEF TypeOK, Request
<1>5. CASE CREATE(c) /\ link[c].user # Nobody
  <2>1. UNCHANGED <<link, inbox>> /\ wsThread' \in WsState
    <3>1. Len(games) + 1 \in 0 .. MaxGames
      <4>1. Len(games) + 1 <= MaxGames /\ Len(games) \in Nat /\ MaxGames \in Nat
        BY <1>5, RoomToCreate, ReceivesFacts, Elements, ConstantsAssumption DEF CREATE
      <4> QED BY <4>1
    <3>2. wsThread' = [pc |-> "created", from |-> Current(c), game |-> Len(games) + 1,
                       turn |-> TRUE] /\ Current(c) \in Handle
      BY <1>5, CreateFacts
    <3>3. wsThread' \in WsState
      BY <3>1, <3>2 DEF WsState
    <3> QED BY <1>5, <3>3, CreateFacts DEF CREATE
  <2>2. \A s \in DOMAIN games' : games'[s].player1 # games'[s].player2
    <3>1. NewGame(c).player1 # NewGame(c).player2
      BY ConstantsAssumption DEF NewGame
    <3>2. DOMAIN games' = DOMAIN games \cup {Len(games) + 1}
      <4>1. /\ DOMAIN games' = 1 .. Len(games) + 1 /\ DOMAIN games = 1 .. Len(games)
            /\ Len(games) \in Nat
        BY <1>5, CreateFacts, Elements
      <4> QED BY <4>1
    <3>3. \A s \in DOMAIN games : games'[s] = games[s]
      BY <1>5, CreateFacts
    <3>4. games'[Len(games) + 1] = NewGame(c)
      BY <1>5, CreateFacts
    <3>5. \A s \in DOMAIN games : games[s].player1 # games[s].player2
      BY DEF TypeOK
    <3> QED BY <3>1, <3>2, <3>3, <3>4, <3>5
  <2> QED BY <1>1, <1>5, <2>1, <2>2, CreateFacts DEF TypeOK, WsState, Request
<1>6. CASE MOVE(c)
  <2>1. UNCHANGED <<games, link>>
    BY <1>6 DEF MOVE
  <2>2. CASE UNCHANGED wsThread
    BY <1>1, <1>2, <1>6, <2>1, <2>2, Elements DEF MOVE, TypeOK, Request
  <2>3. CASE \E s \in Plays(link[c].user) :
                wsThread' = [Idle EXCEPT !.pc = "makeMove", !.from = Current(c), !.game = s]
             /\ UNCHANGED inbox
    <3>1. PICK s \in DOMAIN games :
            wsThread' = [pc |-> "makeMove", from |-> Current(c), game |-> s, turn |-> TRUE]
      BY <2>3 DEF Plays, Idle
    <3>2. s \in 0 .. MaxGames /\ Current(c) \in Handle
      BY Elements DEF Current, Handle, Link
    <3>3. wsThread' \in WsState
      BY <3>1, <3>2 DEF WsState
    <3> QED BY <1>1, <2>1, <2>3, <3>3 DEF TypeOK, WsState, Request
  <2> QED BY <1>2, <1>6, <2>1, <2>2, <2>3 DEF MOVE
<1> QED BY <1>3, <1>4, <1>5, <1>6

(* The actions that change one session: the session they leave behind.     *)
Seats(game) == <<game.player1, game.player2>>

(* The session that c joins, as it is then, and what is sent to it.        *)
Joining(c) == Head(requests[c]).game
MayEnter(c) == link[c].user # Nobody /\ Joining(c) \in DOMAIN games /\ MayJoin(Joining(c), c)
JoinedGame(c) ==
    [games[Joining(c)] EXCEPT !.player2 = c, !.wsConnections = @ \cup {Current(c)}]
JoinBoard(c) ==
    BoardJson("game_joined", Joining(c), JoinedGame(c), JoinedGame(c).isPlayer1Turn)

LEMMA JoinFacts ==
    ASSUME TypeOK, NEW c \in Browsers, JOIN(c), MayEnter(c),
           NEW s, s = Joining(c)
    PROVE  /\ s \in DOMAIN games /\ games' = [games EXCEPT ![s] = JoinedGame(c)]
           /\ games[s].player2 = Nobody /\ games[s].gameMutex = Nobody
           /\ JoinedGame(c) \in Game /\ games[s].player1 # c
           /\ JoinedGame(c).player1 = games[s].player1 /\ JoinedGame(c).player2 = c
           /\ JoinedGame(c).version = games[s].version
           /\ JoinedGame(c).applying = games[s].applying
           /\ JoinedGame(c).isPlayer1Turn = games[s].isPlayer1Turn
           /\ JoinedGame(c).over = games[s].over
           /\ JoinedGame(c).gameMutex = games[s].gameMutex
           /\ JoinedGame(c).wsConnections = games[s].wsConnections \cup {Current(c)}
           /\ JoinBoard(c) \in Message
           /\ SendTo(JoinedGame(c).wsConnections, JoinBoard(c))
           /\ Current(c) \in Handle
           /\ UNCHANGED <<wsThread, tcp, link, client, requested>>
<1>1. s \in DOMAIN games /\ MayJoin(s, c)
  BY DEF MayEnter
<1>2. games[s] \in Game /\ s \in 0 .. MaxGames
  BY <1>1, Elements
<1>3. Current(c) \in Handle
  BY Elements DEF Current, Handle, Link
<1>4. /\ JoinedGame(c) \in Game
      /\ JoinedGame(c).player1 = games[s].player1 /\ JoinedGame(c).player2 = c
      /\ JoinedGame(c).version = games[s].version
      /\ JoinedGame(c).applying = games[s].applying
      /\ JoinedGame(c).isPlayer1Turn = games[s].isPlayer1Turn
      /\ JoinedGame(c).over = games[s].over
      /\ JoinedGame(c).gameMutex = games[s].gameMutex
      /\ JoinedGame(c).wsConnections = games[s].wsConnections \cup {Current(c)}
  BY <1>2, <1>3 DEF Game, Names, JoinedGame
<1>5. JoinedGame(c).isPlayer1Turn \in BOOLEAN
  BY <1>4 DEF Game
<1>6. JoinBoard(c) \in Message
  BY <1>2, <1>4, <1>5, BoardJsonFacts DEF JoinBoard
<1>7. /\ games' = [games EXCEPT ![s] = JoinedGame(c)] /\ games[s].gameMutex = Nobody
      /\ SendTo(JoinedGame(c).wsConnections, JoinBoard(c))
      /\ UNCHANGED <<wsThread, tcp, link, client, requested>>
  BY DEF JOIN, Receives, MayEnter, Joining, JoinedGame, JoinBoard
<1> QED BY <1>1, <1>3, <1>4, <1>6, <1>7 DEF MayJoin

(* A refused JOIN.                                                         *)
LEMMA NoJoin ==
    ASSUME NEW c \in Browsers, JOIN(c), ~MayEnter(c)
    PROVE  SendTo({Current(c)}, Note("error")) /\ UNCHANGED <<games, wsThread, link>>
BY DEF JOIN, MayEnter, Joining

(* The session a browser has created, and the answer of its CREATE.        *)
HandledGame == [games[wsThread.game] EXCEPT !.wsConnections = @ \cup {wsThread.from}]
CreatedNote == [Note("game_created") EXCEPT !.game = wsThread.game]

LEMMA HandleFacts ==
    ASSUME TypeOK, AtWork, addWebSocketHandle,
           NEW s, s = wsThread.game
    PROVE  /\ s \in DOMAIN games
           /\ HandledGame \in Game
           /\ Seats(HandledGame) = Seats(games[s])
           /\ HandledGame.player1 # HandledGame.player2
           /\ games' = [games EXCEPT ![s] = HandledGame]
           /\ HandledGame.version = games[s].version
           /\ HandledGame.applying = games[s].applying
           /\ HandledGame.isPlayer1Turn = games[s].isPlayer1Turn
           /\ HandledGame.over = games[s].over
           /\ HandledGame.gameMutex = games[s].gameMutex
           /\ HandledGame.wsConnections = games[s].wsConnections \cup {wsThread.from}
           /\ CreatedNote \in Message /\ CreatedNote.type = "game_created"
           /\ SendTo({wsThread.from}, CreatedNote)
           /\ wsThread.from \in Handle /\ wsThread' = Idle
           /\ UNCHANGED <<tcp, link, requests, client, requested>>
<1>1. s \in DOMAIN games /\ wsThread.from \in Handle
  BY DEF AtWork, addWebSocketHandle
<1>2. games[s] \in Game /\ s \in 0 .. MaxGames /\ games[s].player1 # games[s].player2
  BY <1>1, Elements DEF TypeOK
<1>3. /\ HandledGame \in Game
      /\ Seats(HandledGame) = Seats(games[s])
      /\ HandledGame.player1 # HandledGame.player2
      /\ HandledGame.version = games[s].version /\ HandledGame.applying = games[s].applying
      /\ HandledGame.isPlayer1Turn = games[s].isPlayer1Turn
      /\ HandledGame.over = games[s].over
      /\ HandledGame.gameMutex = games[s].gameMutex
      /\ HandledGame.wsConnections = games[s].wsConnections \cup {wsThread.from}
  BY <1>1, <1>2 DEF Game, Seats, HandledGame
<1>4. games' = [games EXCEPT ![s] = HandledGame]
      /\ SendTo({wsThread.from}, CreatedNote) /\ wsThread' = Idle
      /\ UNCHANGED <<tcp, link, requests, client, requested>>
  BY DEF addWebSocketHandle, HandledGame, CreatedNote
<1>5. CreatedNote \in Message /\ CreatedNote.type = "game_created"
  BY <1>2, CreatedType DEF CreatedNote
<1> QED BY <1>1, <1>2, <1>3, <1>4, <1>5

LEMMA MoveFacts ==
    ASSUME TypeOK, AtWork, Unshared, makeMove,
           NEW s, s = wsThread.game
    PROVE  /\ s \in DOMAIN games /\ games[s].gameMutex = Nobody /\ games[s].over = "none"
           /\ games[s].version + 1 \in 0 .. MaxMoves
           /\ \E game \in Game :
                 /\ games' = [games EXCEPT ![s] = game]
                 /\ Seats(game) = Seats(games[s]) /\ game.player1 # game.player2
                 /\ game.version = games[s].version + 1
                 /\ game.applying = games[s].applying
                 /\ game.isPlayer1Turn = ~games[s].isPlayer1Turn
                 /\ game.gameMutex = games[s].gameMutex
                 /\ game.wsConnections = games[s].wsConnections
                 /\ Announce(s, game.over)
                 /\ game.over = "black" => games[s].player2 # Nobody
           /\ wsThread' = [wsThread EXCEPT !.pc = "readTurn"]
           /\ UNCHANGED <<tcp, link, requests, client, requested>>
<1>1. s \in DOMAIN games /\ games[s].gameMutex = Nobody /\ MayMove(s, wsThread.from[1])
      /\ wsThread.from \in Handle
      /\ wsThread.from[1] \in {games[s].player1, games[s].player2}
  BY DEF AtWork, makeMove
<1>2. games[s] \in Game /\ games[s].player1 # games[s].player2 /\ MaxMoves \in Nat
  BY <1>1, Elements DEF TypeOK
<1>3. games[s].version + 1 \in 0 .. MaxMoves /\ games[s].over = "none"
  BY <1>1, <1>2 DEF MayMove, Game
<1>4. PICK result \in Results(s) :
        /\ games' = [games EXCEPT ![s].version = @ + 1, ![s].over = result,
                                  ![s].isPlayer1Turn = ~@]
        /\ Announce(s, result)
  BY DEF makeMove
<1> DEFINE game == [games[s] EXCEPT !.version = @ + 1, !.over = result, !.isPlayer1Turn = ~@]
<1>5. games' = [games EXCEPT ![s] = game]
  BY <1>1, <1>4
<1>6. /\ game \in Game /\ game.version = games[s].version + 1
      /\ Seats(game) = Seats(games[s]) /\ game.player1 # game.player2
      /\ game.applying = games[s].applying
      /\ game.isPlayer1Turn = ~games[s].isPlayer1Turn /\ game.over = result
      /\ game.gameMutex = games[s].gameMutex
      /\ game.wsConnections = games[s].wsConnections
  BY <1>2, <1>3 DEF Game, Seats, Results
<1>7. result = "black" => games[s].player2 # Nobody
  <2>1. wsThread.from[1] \in Browsers /\ games[s].isPlayer1Turn \in BOOLEAN
    BY <1>1, <1>2 DEF Handle, Game
  <2>2. result = "black" => ~games[s].isPlayer1Turn
    BY DEF Results
  <2>3. ~games[s].isPlayer1Turn => wsThread.from[1] # games[s].player1
    BY <1>1, <2>1 DEF MayMove
  <2> QED BY <1>1, <2>1, <2>2, <2>3, ConstantsAssumption
<1>8. Announce(s, game.over) /\ game.over = result
  BY <1>4, <1>6
<1>9. wsThread' = [wsThread EXCEPT !.pc = "readTurn"]
      /\ UNCHANGED <<tcp, link, requests, client, requested>>
  BY DEF makeMove
<1> HIDE DEF game
<1> QED BY <1>1, <1>3, <1>5, <1>6, <1>7, <1>8, <1>9

LEMMA AnnounceFacts ==
    ASSUME TypeOK, NEW s \in DOMAIN games, NEW result, Announce(s, result)
    PROVE  /\ inbox' \in [Browsers -> Seq(Message)]
           /\ \A c \in Browsers :
                 IF result = "black" /\ Current(c) \in games[s].wsConnections /\ link[c].open
                 THEN Arrives(c, Note("wins")) ELSE inbox'[c] = inbox[c]
<1>1. CASE result = "black"
  BY <1>1, SendFacts, NoteType DEF Announce
<1>2. CASE result # "black"
  BY <1>2 DEF Announce, TypeOK
<1> QED BY <1>1, <1>2

TcpJoinedGame(t, s) == [games[s] EXCEPT !.player2 = t]

LEMMA TcpJoinFacts ==
    ASSUME TypeOK, NEW t \in TcpPlayers, NEW s \in DOMAIN games, tcpJoin(t, s)
    PROVE  /\ games[s].gameMutex = Nobody /\ games[s].player2 = Nobody
           /\ TcpJoinedGame(t, s) \in Game
           /\ TcpJoinedGame(t, s).player1 # TcpJoinedGame(t, s).player2
           /\ games' = [games EXCEPT ![s] = TcpJoinedGame(t, s)]
           /\ TcpJoinedGame(t, s).player1 = games[s].player1
           /\ TcpJoinedGame(t, s).player2 = t
           /\ TcpJoinedGame(t, s).version = games[s].version
           /\ TcpJoinedGame(t, s).applying = games[s].applying
           /\ TcpJoinedGame(t, s).isPlayer1Turn = games[s].isPlayer1Turn
           /\ TcpJoinedGame(t, s).over = games[s].over
           /\ TcpJoinedGame(t, s).gameMutex = games[s].gameMutex
           /\ TcpJoinedGame(t, s).wsConnections = games[s].wsConnections
           /\ tcp[t].game = 0 /\ tcp[t].pc = "receive"
           /\ tcp' = [tcp EXCEPT ![t] = [pc |-> "broadcast", game |-> s]]
           /\ tcp' \in [TcpPlayers -> TcpState]
           /\ UNCHANGED <<wsThread, link, requests, inbox, client, requested>>
<1>1. games[s] \in Game /\ s \in 0 .. MaxGames /\ tcp \in [TcpPlayers -> TcpState]
  BY Elements
<1>2. games' = [games EXCEPT ![s] = TcpJoinedGame(t, s)] /\ games[s].gameMutex = Nobody
      /\ games[s].player2 = Nobody /\ games[s].player1 # t
  BY DEF tcpJoin, MayJoin, TcpJoinedGame
<1>3. /\ TcpJoinedGame(t, s) \in Game
      /\ TcpJoinedGame(t, s).player1 = games[s].player1
      /\ TcpJoinedGame(t, s).player2 = t
      /\ TcpJoinedGame(t, s).version = games[s].version
      /\ TcpJoinedGame(t, s).applying = games[s].applying
      /\ TcpJoinedGame(t, s).isPlayer1Turn = games[s].isPlayer1Turn
      /\ TcpJoinedGame(t, s).over = games[s].over
      /\ TcpJoinedGame(t, s).gameMutex = games[s].gameMutex
      /\ TcpJoinedGame(t, s).wsConnections = games[s].wsConnections
  BY <1>1 DEF Game, Names, TcpJoinedGame
<1>4. [pc |-> "broadcast", game |-> s] \in TcpState
  BY <1>1 DEF TcpState
<1>5. tcp[t].game = 0 /\ tcp[t].pc = "receive"
      /\ tcp' = [tcp EXCEPT ![t] = [pc |-> "broadcast", game |-> s]]
      /\ UNCHANGED <<wsThread, link, requests, inbox, client, requested>>
  BY DEF tcpJoin
<1>6. tcp' \in [TcpPlayers -> TcpState]
  BY <1>1, <1>4, <1>5
<1> QED BY <1>2, <1>3, <1>5, <1>6

(* The steps of a TCP player's move.                                       *)
LEMMA TcpMoveFacts ==
    ASSUME TypeOK, Handlers, NEW t \in TcpPlayers, tcpMove(t) \/ tcpApplied(t) \/ tcpMoved(t),
           NEW s, s = tcp[t].game
    PROVE  /\ s \in DOMAIN games /\ games[s].player2 = t /\ games[s].gameMutex \in {Nobody, t}
           /\ \E game \in Game :
                 /\ games' = [games EXCEPT ![s] = game]
                 /\ Seats(game) = Seats(games[s]) /\ game.player1 # game.player2
                 /\ game.version \in {games[s].version, games[s].version + 1}
                 /\ game.wsConnections = games[s].wsConnections
                 /\ tcpMove(t) => /\ games[s].gameMutex = Nobody
                                  /\ game.gameMutex = t /\ game.version < MaxMoves
                 /\ tcpApplied(t) => game.gameMutex = games[s].gameMutex
                 /\ tcpMoved(t) => game.gameMutex = Nobody
           /\ tcp[t].pc = IF tcpMove(t) THEN "receive"
                          ELSE IF tcpApplied(t) THEN "applying" ELSE "applied"
           /\ tcp' = [tcp EXCEPT ![t].pc = IF tcpMove(t) THEN "applying"
                                           ELSE IF tcpApplied(t) THEN "applied" ELSE "receive"]
           /\ tcp' \in [TcpPlayers -> TcpState]
           /\ inbox' \in [Browsers -> Seq(Message)]
           /\ \A c \in Browsers :
                 \/ inbox'[c] = inbox[c]
                 \/ /\ Current(c) \in games[s].wsConnections
                    /\ Arrives(c, Note("wins"))
           /\ UNCHANGED <<wsThread, link, requests, client, requested>>
<1>1. s \in DOMAIN games /\ games[s].player2 = t /\ games[s].gameMutex \in {Nobody, t}
  BY DEF Handlers, Holds, tcpMove, tcpApplied, tcpMoved
<1>2. games[s] \in Game /\ games[s].player1 # games[s].player2 /\ MaxMoves \in Nat
      /\ tcp \in [TcpPlayers -> TcpState] /\ inbox \in [Browsers -> Seq(Message)]
      /\ t \in Names
  BY <1>1, Elements DEF TypeOK, Names
<1>3. ASSUME NEW pc \in {"receive", "applying", "applied"}
      PROVE  [tcp EXCEPT ![t].pc = pc] \in [TcpPlayers -> TcpState]
  BY <1>2, <1>3 DEF TcpState
<1>4. CASE tcpMove(t)
  <2> DEFINE game == [games[s] EXCEPT !.gameMutex = t, !.applying = TRUE]
  <2>1. games' = [games EXCEPT ![s] = game] /\ games[s].version < MaxMoves
        /\ games[s].gameMutex = Nobody
    BY <1>1, <1>4 DEF tcpMove, MayMove
  <2>2. game \in Game /\ Seats(game) = Seats(games[s]) /\ game.player1 # game.player2
        /\ game.version = games[s].version /\ game.gameMutex = t
        /\ game.wsConnections = games[s].wsConnections
    BY <1>2 DEF Game, Seats
  <2>3. ~tcpApplied(t) /\ ~tcpMoved(t) /\ tcp[t].pc = "receive"
        /\ tcp' = [tcp EXCEPT ![t].pc = "applying"]
        /\ UNCHANGED <<wsThread, link, requests, inbox, client, requested>>
    BY <1>4 DEF tcpMove, tcpApplied, tcpMoved
  <2> QED BY <1>1, <1>2, <1>3, <1>4, <2>1, <2>2, <2>3
<1>5. CASE tcpApplied(t)
  <2> DEFINE game == [games[s] EXCEPT !.applying = FALSE, !.version = @ + 1]
  <2>1. games' = [games EXCEPT ![s] = game] /\ games[s].version < MaxMoves
    BY <1>1, <1>5 DEF tcpApplied, Handlers
  <2>2. game \in Game /\ Seats(game) = Seats(games[s]) /\ game.player1 # game.player2
        /\ game.version = games[s].version + 1 /\ game.gameMutex = games[s].gameMutex
        /\ game.wsConnections = games[s].wsConnections
    <3>1. games[s].version + 1 \in 0 .. MaxMoves
      BY <1>2, <2>1 DEF Game
    <3> QED BY <1>2, <3>1 DEF Game, Seats
  <2>3. ~tcpMove(t) /\ ~tcpMoved(t) /\ tcp[t].pc = "applying"
        /\ tcp' = [tcp EXCEPT ![t].pc = "applied"]
        /\ UNCHANGED <<wsThread, link, requests, inbox, client, requested>>
    BY <1>5 DEF tcpMove, tcpApplied, tcpMoved
  <2> QED BY <1>1, <1>2, <1>3, <1>5, <2>1, <2>2, <2>3
<1>6. CASE tcpMoved(t)
  <2>1. PICK result \in Results(s) :
            /\ games' = [games EXCEPT ![s].gameMutex = Nobody, ![s].isPlayer1Turn = ~@,
                                        ![s].over = result]
            /\ Announce(s, result)
    BY <1>6 DEF tcpMoved
  <2> DEFINE game == [games[s] EXCEPT !.gameMutex = Nobody, !.isPlayer1Turn = ~@,
                                      !.over = result]
  <2>2. games' = [games EXCEPT ![s] = game]
    BY <1>1, <2>1
  <2>3. game \in Game /\ Seats(game) = Seats(games[s]) /\ game.player1 # game.player2
        /\ game.version = games[s].version /\ game.gameMutex = Nobody
        /\ game.wsConnections = games[s].wsConnections
    BY <1>2 DEF Game, Seats, Results
  <2>4. ~tcpMove(t) /\ ~tcpApplied(t) /\ tcp[t].pc = "applied"
        /\ tcp' = [tcp EXCEPT ![t].pc = "receive"]
        /\ UNCHANGED <<wsThread, link, requests, client, requested>>
    BY <1>6 DEF tcpMove, tcpApplied, tcpMoved
  <2>5. /\ inbox' \in [Browsers -> Seq(Message)]
        /\ \A c \in Browsers :
              \/ inbox'[c] = inbox[c]
              \/ /\ Current(c) \in games[s].wsConnections
                 /\ Arrives(c, Note("wins"))
    BY <1>1, <2>1, AnnounceFacts
  <2> HIDE DEF game
  <2> QED BY <1>1, <1>2, <1>3, <1>6, <2>2, <2>3, <2>4, <2>5
<1> QED BY <1>4, <1>5, <1>6

LEMMA SendResultFacts ==
    ASSUME TypeOK, AtWork, sendResult, NEW s, s = wsThread.game,
           NEW board, board = BoardJson("MoveResult", s, games[s], wsThread.turn)
    PROVE  /\ s \in DOMAIN games /\ board \in Message /\ SendTo(games[s].wsConnections, board)
           /\ wsThread.turn \in BOOLEAN /\ wsThread' = Idle
           /\ UNCHANGED <<games, tcp, link, requests, client, requested>>
<1>1. s \in DOMAIN games
  BY DEF AtWork, sendResult
<1>2. games[s] \in Game /\ s \in 0 .. MaxGames /\ wsThread.turn \in BOOLEAN
  BY <1>1, Elements DEF WsState
<1> QED BY <1>1, <1>2, BoardJsonFacts DEF sendResult

LEMMA BroadcastFacts ==
    ASSUME TypeOK, Handlers, NEW t \in TcpPlayers, broadcastGameState(t),
           NEW s, s = tcp[t].game,
           NEW board, board = BoardJson("game_joined", s, games[s], games[s].isPlayer1Turn)
    PROVE  /\ s \in DOMAIN games /\ games[s].player2 = t
           /\ board \in Message /\ SendTo(games[s].wsConnections, board)
           /\ tcp[t].pc = "broadcast"
           /\ tcp' = [tcp EXCEPT ![t].pc = "receive"]
           /\ tcp' \in [TcpPlayers -> TcpState]
           /\ UNCHANGED <<games, wsThread, link, requests, client, requested>>
<1>1. s \in DOMAIN games /\ games[s].player2 = t
  BY DEF Handlers, broadcastGameState
<1>2. games[s] \in Game /\ s \in 0 .. MaxGames /\ tcp \in [TcpPlayers -> TcpState]
  BY <1>1, Elements
<1>3. games[s].isPlayer1Turn \in BOOLEAN
  BY <1>2 DEF Game
<1>4. [tcp EXCEPT ![t].pc = "receive"] \in [TcpPlayers -> TcpState]
  BY <1>2 DEF TcpState
<1> QED BY <1>1, <1>2, <1>3, <1>4, BoardJsonFacts DEF broadcastGameState

LEMMA WsTypes ==
    ASSUME TypeOK, Bounded, Unshared, AtWork,
           \/ \E c \in Browsers : JOIN(c)
           \/ addWebSocketHandle \/ makeMoveRefused \/ makeMove \/ readTurn \/ sendResult
    PROVE  TypeOK'
<1>0. Idle \in WsState
  BY ConstantsAssumption DEF Idle, WsState
<1>1. ASSUME NEW c \in Browsers, JOIN(c)
      PROVE  TypeOK'
  <2>1. requests' \in [Browsers -> Seq(Request)] /\ UNCHANGED <<wsThread, tcp, link, client, requested>>
    BY <1>1, ReceivesFacts DEF JOIN
  <2>2. CASE MayEnter(c)
    <3>1. PICK s \in DOMAIN games :
            games' = [games EXCEPT ![s] = JoinedGame(c)] /\ JoinedGame(c).player1 # c
      BY <1>1, <2>2, JoinFacts
    <3>2. JoinedGame(c) \in Game /\ JoinedGame(c).player2 = c
      BY <1>1, <2>2, JoinFacts
    <3>3. games' \in Seq(Game) /\ Len(games') <= MaxGames
          /\ \A r \in DOMAIN games' : games'[r].player1 # games'[r].player2
      BY <3>1, <3>2, GameChange
    <3>4. inbox' \in [Browsers -> Seq(Message)]
      BY <1>1, <2>2, JoinFacts, SendFacts
    <3> QED BY <2>1, <3>3, <3>4 DEF TypeOK, Request
  <2>3. CASE ~MayEnter(c)
    <3>1. SendTo({Current(c)}, Note("error")) /\ UNCHANGED games
      BY <1>1, <2>3, NoJoin
    <3>2. inbox' \in [Browsers -> Seq(Message)]
      BY <3>1, SendFacts, NoteType
    <3> QED BY <2>1, <3>1, <3>2 DEF TypeOK, Request
  <2> QED BY <2>2, <2>3
<1>2. CASE addWebSocketHandle
  <2> DEFINE s == wsThread.game
  <2>1. /\ s \in DOMAIN games /\ wsThread' = Idle
        /\ HandledGame \in Game /\ HandledGame.player1 # HandledGame.player2
        /\ games' = [games EXCEPT ![s] = HandledGame]
        /\ UNCHANGED <<tcp, link, requests, client, requested>>
    BY <1>2, HandleFacts
  <2> HIDE DEF s
  <2>2. games' \in Seq(Game) /\ Len(games') <= MaxGames
        /\ \A r \in DOMAIN games' : games'[r].player1 # games'[r].player2
    BY <2>1, GameChange
  <2>3. inbox' \in [Browsers -> Seq(Message)]
    BY <1>2, HandleFacts, SendFacts
  <2> QED BY <1>0, <2>1, <2>2, <2>3 DEF TypeOK, WsState
<1>3. CASE makeMoveRefused \/ readTurn
  <2>1. wsThread' \in WsState
    <3>1. wsThread \in WsState
      BY Elements
    <3>2. CASE makeMoveRefused
      BY <3>1, <3>2 DEF makeMoveRefused, WsState
    <3>3. CASE readTurn
      <4>1. games[wsThread.game].isPlayer1Turn \in BOOLEAN
        <5>1. wsThread.game \in DOMAIN games
          BY <3>3 DEF AtWork, readTurn
        <5> QED BY <5>1, Elements DEF Game
      <4> QED BY <3>1, <3>3, <4>1 DEF readTurn, WsState
    <3> QED BY <1>3, <3>2, <3>3
  <2> QED BY <1>3, <2>1 DEF TypeOK, WsState, makeMoveRefused, readTurn
<1>4. CASE makeMove
  <2> DEFINE s == wsThread.game
  <2>1. /\ s \in DOMAIN games /\ wsThread' = [wsThread EXCEPT !.pc = "readTurn"]
        /\ UNCHANGED <<tcp, link, requests, client, requested>>
    BY <1>4, MoveFacts
  <2>2. PICK game \in Game :
            games' = [games EXCEPT ![s] = game] /\ game.player1 # game.player2
            /\ Announce(s, game.over)
    BY <1>4, MoveFacts
  <2>3. inbox' \in [Browsers -> Seq(Message)]
    BY <2>1, <2>2, AnnounceFacts
  <2>4. wsThread' \in WsState
    BY <2>1, Elements DEF WsState
  <2> HIDE DEF s
  <2>5. games' \in Seq(Game) /\ Len(games') <= MaxGames
        /\ \A r \in DOMAIN games' : games'[r].player1 # games'[r].player2
    BY <2>1, <2>2, GameChange
  <2> QED BY <2>1, <2>3, <2>4, <2>5 DEF TypeOK, WsState
<1>5. CASE sendResult
  <2>1. inbox' \in [Browsers -> Seq(Message)] /\ wsThread' = Idle
        /\ UNCHANGED <<games, tcp, link, requests, client, requested>>
    BY <1>5, SendResultFacts, SendFacts
  <2> QED BY <1>0, <2>1 DEF TypeOK, WsState
<1> QED BY <1>1, <1>2, <1>3, <1>4, <1>5

LEMMA TcpTypes ==
    ASSUME TypeOK, Handlers, NEW t \in TcpPlayers,
           TcpHandler(t) \/ tcpMove(t) \/ \E s \in DOMAIN games : tcpJoin(t, s)
    PROVE  TypeOK'
<1>1. CASE broadcastGameState(t)
  <2>1. inbox' \in [Browsers -> Seq(Message)] /\ tcp' \in [TcpPlayers -> TcpState]
        /\ UNCHANGED <<games, wsThread, link, requests, client, requested>>
    BY <1>1, BroadcastFacts, SendFacts
  <2> QED BY <2>1 DEF TypeOK, TcpState
<1>2. CASE tcpMove(t) \/ tcpApplied(t) \/ tcpMoved(t)
  <2> DEFINE s == tcp[t].game
  <2>1. /\ s \in DOMAIN games
        /\ \E game \in Game : /\ games' = [games EXCEPT ![s] = game]
                              /\ game.player1 # game.player2
        /\ inbox' \in [Browsers -> Seq(Message)] /\ tcp' \in [TcpPlayers -> TcpState]
        /\ UNCHANGED <<wsThread, link, requests, client, requested>>
    BY <1>2, TcpMoveFacts
  <2> HIDE DEF s
  <2>2. games' \in Seq(Game) /\ Len(games') <= MaxGames
        /\ \A r \in DOMAIN games' : games'[r].player1 # games'[r].player2
    BY <2>1, GameChange
  <2> QED BY <2>1, <2>2 DEF TypeOK, TcpState
<1>3. ASSUME NEW s \in DOMAIN games, tcpJoin(t, s)
      PROVE  TypeOK'
  <2>1. /\ TcpJoinedGame(t, s) \in Game
        /\ TcpJoinedGame(t, s).player1 # TcpJoinedGame(t, s).player2
        /\ games' = [games EXCEPT ![s] = TcpJoinedGame(t, s)]
        /\ tcp' \in [TcpPlayers -> TcpState]
        /\ UNCHANGED <<wsThread, link, requests, inbox, client, requested>>
    BY <1>3, TcpJoinFacts
  <2>2. games' \in Seq(Game) /\ Len(games') <= MaxGames
        /\ \A r \in DOMAIN games' : games'[r].player1 # games'[r].player2
    BY <2>1, GameChange
  <2> QED BY <2>1, <2>2 DEF TypeOK, TcpState
<1> QED BY <1>1, <1>2, <1>3 DEF TcpHandler

-----------------------------------------------------------------------------
(* The bounds.                                                             *)

(* A request is taken out of the queue of c: those behind it move up.      *)
LEMMA CreatingShift ==
    ASSUME TypeOK, Bounded, NEW c \in Browsers, NEW command, Receives(c, command)
    PROVE  /\ Cardinality(Creating') \in Nat
           /\ Cardinality(Creating') <= IF command = "create" THEN Cardinality(Creating) - 1
                                        ELSE Cardinality(Creating)
<1> DEFINE First == <<c, 1>>
           Rest == Creating \ {First}
           up == [r \in Creating' |-> IF r[1] = c THEN <<c, r[2] + 1>> ELSE r]
<1>1. /\ requests[c] # <<>> /\ Head(requests[c]).command = command
      /\ requests'[c] = Tail(requests[c])
      /\ \A d \in Browsers \ {c} : requests'[d] = requests[d]
  BY ReceivesFacts
<1>2. /\ Len(requests[c]) \in Nat \ {0} /\ DOMAIN requests[c] = 1 .. Len(requests[c])
      /\ DOMAIN Tail(requests[c]) = 1 .. Len(requests[c]) - 1
      /\ requests[c][1].command = command
      /\ \A i \in 1 .. Len(requests[c]) - 1 : Tail(requests[c])[i] = requests[c][i + 1]
  BY <1>1, ARequest, Elements, LenProperties
<1>3. IsFiniteSet(Creating) /\ Cardinality(Creating) \in Nat
  BY FiniteCounts
<1>4. Len(requests[c]) <= MaxRequests
  <2>1. Len(requests[c]) <= requested /\ requested \in 0 .. MaxRequests /\ MaxRequests \in Nat
    BY Elements DEF Bounded, TypeOK
  <2> QED BY <1>2, <2>1
<1>5. ASSUME NEW r \in Creating'
      PROVE  up[r] \in Rest /\ r \in Browsers \X (1 .. MaxRequests)
  <2>1. r \in Browsers \X (1 .. MaxRequests) /\ r[2] \in DOMAIN requests'[r[1]]
        /\ requests'[r[1]][r[2]].command = "create"
    BY DEF Creating
  <2>2. CASE r[1] = c
    <3>1. r[2] \in 1 .. Len(requests[c]) - 1 /\ requests[c][r[2] + 1].command = "create"
      BY <1>1, <1>2, <2>1, <2>2
    <3>2. r[2] + 1 \in 1 .. MaxRequests /\ r[2] + 1 \in DOMAIN requests[c] /\ r[2] + 1 # 1
      <4>1. MaxRequests \in Nat /\ r[2] \in Nat
        BY <3>1, Elements
      <4> QED BY <1>2, <1>4, <3>1, <4>1
    <3>3. <<c, r[2] + 1>> \in Creating
      BY <3>1, <3>2 DEF Creating
    <3> QED BY <2>1, <2>2, <3>2, <3>3
  <2>3. CASE r[1] # c
    <3>1. up[r] = r /\ r[1] \in Browsers \ {c} /\ r # First
      BY <2>1, <2>3
    <3>2. r \in Creating
      BY <1>1, <2>1, <3>1 DEF Creating
    <3> QED BY <2>1, <3>1, <3>2
  <2> QED BY <2>2, <2>3
<1>6. ASSUME NEW r \in Creating'
       PROVE  /\ r = <<r[1], r[2]>> /\ r[2] \in Int
              /\ up[r][1] = r[1] /\ up[r][2] = IF r[1] = c THEN r[2] + 1 ELSE r[2]
  <2>2. up[r] = IF r[1] = c THEN <<c, r[2] + 1>> ELSE r
    OBVIOUS
  <2>5. r \in Browsers \X (1 .. MaxRequests)
    BY <1>5
  <2> HIDE DEF up
  <2>1. r = <<r[1], r[2]>> /\ r[2] \in Int
    BY <2>5
  <2>3. CASE r[1] = c
    BY <2>1, <2>2, <2>3
  <2>4. CASE r[1] # c
    BY <2>1, <2>2, <2>4
  <2> QED BY <2>3, <2>4
<1>7. \A r, q \in Creating' : up[r] = up[q] => r = q
  <2> HIDE DEF up
  <2> SUFFICES ASSUME NEW r \in Creating', NEW q \in Creating', up[r] = up[q]
               PROVE  r = q
    OBVIOUS
  <2>1. r[1] = q[1] /\ up[r][2] = up[q][2]
    BY <1>6
  <2>2. r[2] = q[2]
    BY <1>6, <2>1
  <2>3. r = <<r[1], r[2]>> /\ q = <<q[1], q[2]>>
    BY <1>6
  <2> QED BY <2>1, <2>2, <2>3
<1>8. up \in Injection(Creating', Rest)
  BY <1>5, <1>7 DEF Injection, IsInjective
<1>9. IsFiniteSet(Rest)
      /\ Cardinality(Rest) = IF First \in Creating THEN Cardinality(Creating) - 1
                             ELSE Cardinality(Creating)
  BY <1>3, FS_RemoveElement
<1>10. Cardinality(Creating') <= Cardinality(Rest)
  BY <1>8, <1>9, FS_Injection
<1>11. command = "create" => First \in Creating
  <2>1. 1 \in 1 .. MaxRequests /\ 1 \in DOMAIN requests[c]
    BY <1>2, <1>4, Elements
  <2> QED BY <1>2, <2>1 DEF Creating
<1>12. Cardinality(Creating') \in Nat
  BY <1>8, <1>9, FS_Injection, FS_CardinalityType
<1> HIDE DEF First, Rest, up
<1> QED BY <1>3, <1>4, <1>9, <1>10, <1>11, <1>12

(* A request joins the queue of c.                                         *)
LEMMA CreatingSent ==
    ASSUME TypeOK, Bounded, NEW c \in Browsers,
           NEW command \in {"login", "create", "join", "move"}, NEW s \in 0 .. MaxGames,
           sendMessage(c, command, s)
    PROVE  /\ Cardinality(Creating') \in Nat
           /\ Cardinality(Creating') <= IF command = "create" THEN Cardinality(Creating) + 1
                                        ELSE Cardinality(Creating)
           /\ \A d \in Browsers : Len(requests'[d]) <= requested'
<1> DEFINE request == [command |-> command, game |-> s]
           New == <<c, Len(requests[c]) + 1>>
<1>1. /\ \A d \in Browsers \ {c} : requests'[d] = requests[d]
      /\ requests'[c] = requests[c] \/ requests'[c] = Append(requests[c], request)
      /\ requested \in Nat /\ requested' = requested + 1
  BY SendMessageFacts
<1>2. request \in Request /\ request.command = command
  BY DEF Request
<1>3. \A d \in Browsers : requests[d] \in Seq(Request) /\ Len(requests[d]) \in Nat
                          /\ DOMAIN requests[d] = 1 .. Len(requests[d])
  BY Elements, LenProperties
<1> HIDE DEF request
<1>4. requests'[c] # requests[c] =>
        /\ DOMAIN requests'[c] = 1 .. Len(requests[c]) + 1
        /\ Len(requests'[c]) = Len(requests[c]) + 1
        /\ \A i \in 1 .. Len(requests[c]) : requests'[c][i] = requests[c][i]
        /\ requests'[c][Len(requests[c]) + 1] = request
  BY <1>1, <1>2, <1>3, AppendProperties
<1>5. ASSUME NEW r \in Creating', r \notin Creating
      PROVE  r = New /\ command = "create"
  <2>1. r \in Browsers \X (1 .. MaxRequests) /\ r[2] \in DOMAIN requests'[r[1]]
        /\ requests'[r[1]][r[2]].command = "create"
    BY DEF Creating
  <2>2. ~(r[2] \in DOMAIN requests[r[1]] /\ requests[r[1]][r[2]].command = "create")
    BY <1>5, <2>1 DEF Creating
  <2>3. r[1] = c /\ requests'[c] # requests[c]
    BY <1>1, <2>1, <2>2
  <2>4. r[2] = Len(requests[c]) + 1
    BY <1>3, <1>4, <2>1, <2>2, <2>3
  <2>5. request.command = "create"
    BY <1>4, <2>1, <2>3, <2>4
  <2> QED BY <1>2, <2>1, <2>3, <2>4, <2>5
<1>6. IsFiniteSet(Creating) /\ Cardinality(Creating) \in Nat
  BY FiniteCounts
<1>9. \A d \in Browsers : Len(requests'[d]) <= requested'
  BY <1>1, <1>3, <1>4 DEF Bounded
<1> HIDE DEF New
<1>7. CASE command = "create"
  <2>1. Creating' \subseteq Creating \cup {New}
    BY <1>5
  <2>2. IsFiniteSet(Creating \cup {New})
        /\ Cardinality(Creating \cup {New}) <= Cardinality(Creating) + 1
        /\ Cardinality(Creating \cup {New}) \in Nat
    <3>1. Cardinality(Creating \cup {New}) = IF New \in Creating THEN Cardinality(Creating)
                                             ELSE Cardinality(Creating) + 1
      BY <1>6, FS_AddElement
    <3>2. IsFiniteSet(Creating \cup {New})
      BY <1>6, FS_AddElement
    <3> QED BY <1>6, <3>1, <3>2
  <2>3. Cardinality(Creating') <= Cardinality(Creating \cup {New})
        /\ Cardinality(Creating') \in Nat
    BY <2>1, <2>2, FS_Subset, FS_CardinalityType
  <2>4. Cardinality(Creating') <= Cardinality(Creating) + 1
    BY <1>6, <2>2, <2>3
  <2> QED BY <1>7, <1>9, <2>3, <2>4
<1>8. CASE command # "create"
  <2>1. Creating' \subseteq Creating
    BY <1>5, <1>8
  <2>2. Cardinality(Creating') <= Cardinality(Creating) /\ Cardinality(Creating') \in Nat
    BY <1>6, <2>1, FS_Subset, FS_CardinalityType
  <2> QED BY <1>8, <1>9, <2>2
<1> QED BY <1>7, <1>8

(* A browser's connection breaks, and comes back.                          *)
LEMMA BrokenStep ==
    ASSUME TypeOK, Bounded, NEW c \in Browsers, connectionLost(c) \/ reconnect(c)
    PROVE  Cardinality(Broken') <= MaxDrops
<1> DEFINE Lost == <<c, link[c].number>>
<1>1. link \in [Browsers -> Link] /\ MaxDrops \in Nat
  BY Elements
<1>2. IsFiniteSet(Broken) /\ Cardinality(Broken) \in Nat
  BY FiniteCounts
<1>3. \A d \in Browsers \ {c} : link'[d] = link[d]
  BY <1>1 DEF connectionLost, reconnect
<1>4. CASE connectionLost(c)
  <2>1. link'[c].number = link[c].number
    BY <1>1, <1>4 DEF connectionLost, Link
  <2>2. Broken' \subseteq Broken \cup {Lost}
    <3> SUFFICES ASSUME NEW h \in Broken', h \notin Broken
                 PROVE  h = Lost
      OBVIOUS
    <3>1. h \in Handle /\ h[1] \in Browsers /\ h[2] \in Nat /\ h = <<h[1], h[2]>>
      BY DEF Broken, Handle
    <3>2. h[2] < link'[h[1]].number \/ (h[2] = link'[h[1]].number /\ ~link'[h[1]].open)
      BY DEF Broken
    <3>3. ~(h[2] < link[h[1]].number \/ (h[2] = link[h[1]].number /\ ~link[h[1]].open))
      BY <3>1 DEF Broken
    <3>4. h[1] = c /\ h[2] = link[c].number
      BY <1>3, <2>1, <3>1, <3>2, <3>3
    <3> QED BY <3>1, <3>4
  <2>3. Cardinality(Broken) < MaxDrops
    BY <1>4 DEF connectionLost
  <2> HIDE DEF Lost
  <2>4. IsFiniteSet(Broken \cup {Lost})
        /\ Cardinality(Broken \cup {Lost}) <= Cardinality(Broken) + 1
        /\ Cardinality(Broken \cup {Lost}) \in Nat
    BY <1>2, FS_AddElement
  <2>5. Cardinality(Broken') <= Cardinality(Broken \cup {Lost}) /\ Cardinality(Broken') \in Nat
    BY <2>2, <2>4, FS_Subset, FS_CardinalityType
  <2> QED BY <1>1, <1>2, <2>3, <2>4, <2>5
<1>5. CASE reconnect(c)
  <2>1. link'[c].number = link[c].number + 1 /\ link'[c].open /\ ~link[c].open
        /\ link[c].number \in Nat
    BY <1>1, <1>5 DEF reconnect, Link
  <2>2. Broken' \subseteq Broken
    <3> SUFFICES ASSUME NEW h \in Broken'
                 PROVE  h \in Broken
      OBVIOUS
    <3>1. h \in Handle /\ h[1] \in Browsers /\ h[2] \in Nat
      BY DEF Broken, Handle
    <3>2. h[2] < link'[h[1]].number \/ (h[2] = link'[h[1]].number /\ ~link'[h[1]].open)
      BY DEF Broken
    <3>3. h[2] < link[h[1]].number \/ (h[2] = link[h[1]].number /\ ~link[h[1]].open)
      BY <1>3, <2>1, <3>1, <3>2
    <3> QED BY <3>1, <3>3 DEF Broken
  <2>3. Cardinality(Broken') <= Cardinality(Broken) /\ Cardinality(Broken') \in Nat
    BY <1>2, <2>2, FS_Subset, FS_CardinalityType
  <2> QED BY <1>1, <1>2, <2>3 DEF Bounded
<1> QED BY <1>4, <1>5

LEMMA BrokenKept ==
    ASSUME \A c \in Browsers : link'[c].number = link[c].number /\ link'[c].open = link[c].open
    PROVE  Broken' = Broken
<1>1. ASSUME NEW h \in Handle
      PROVE  h \in Broken' <=> h \in Broken
  <2>1. h[1] \in Browsers
    BY DEF Handle
  <2> QED BY <2>1 DEF Broken
<1>2. Broken' \subseteq Handle /\ Broken \subseteq Handle
  BY DEF Broken
<1> QED BY <1>1, <1>2

(* The number of games stays, but for CREATE.                              *)
LEMMA GamesStay ==
    ASSUME TypeOK, AtWork, Handlers, Unshared,
           \/ addWebSocketHandle \/ makeMove \/ \E c \in Browsers : JOIN(c)
           \/ \E t \in TcpPlayers : \/ tcpMove(t) \/ tcpApplied(t) \/ tcpMoved(t)
                                    \/ \E s \in DOMAIN games : tcpJoin(t, s)
    PROVE  Len(games') = Len(games)
<1>1. ASSUME NEW s \in DOMAIN games, NEW game \in Game, game.player1 # game.player2,
             games' = [games EXCEPT ![s] = game]
      PROVE  Len(games') = Len(games)
  BY <1>1, GameChange
<1>2. CASE addWebSocketHandle
  BY <1>1, <1>2, HandleFacts
<1>3. CASE makeMove
  <2>1. wsThread.game \in DOMAIN games
    BY <1>3, MoveFacts
  <2>2. \E game \in Game : game.player1 # game.player2
                           /\ games' = [games EXCEPT ![wsThread.game] = game]
    BY <1>3, MoveFacts
  <2> QED BY <1>1, <2>1, <2>2
<1>4. ASSUME NEW c \in Browsers, JOIN(c)
      PROVE  Len(games') = Len(games)
  <2>1. CASE MayEnter(c)
    BY <1>1, <1>4, <2>1, JoinFacts
  <2>2. CASE ~MayEnter(c)
    BY <1>4, <2>2, NoJoin
  <2> QED BY <2>1, <2>2
<1>5. ASSUME NEW t \in TcpPlayers, tcpMove(t) \/ tcpApplied(t) \/ tcpMoved(t)
      PROVE  Len(games') = Len(games)
  <2>1. \E s \in DOMAIN games : \E game \in Game :
            game.player1 # game.player2 /\ games' = [games EXCEPT ![s] = game]
    BY <1>5, TcpMoveFacts
  <2> QED BY <1>1, <2>1
<1>6. ASSUME NEW t \in TcpPlayers, NEW s \in DOMAIN games, tcpJoin(t, s)
      PROVE  Len(games') = Len(games)
  <2>1. \E game \in Game : game.player1 # game.player2 /\ games' = [games EXCEPT ![s] = game]
    BY <1>6, TcpJoinFacts
  <2> QED BY <1>1, <2>1
<1> QED BY <1>2, <1>3, <1>4, <1>5, <1>6

LEMMA BoundedStep ==
    ASSUME TypeOK, Bounded, AtWork, Handlers, Unshared, Next
    PROVE  Bounded'
<1>1. /\ Cardinality(Creating) \in Nat /\ Cardinality(Broken) \in Nat
      /\ Len(games) \in Nat /\ MaxGames \in Nat
  BY FiniteCounts, Elements
<1>2. ASSUME NEW c \in Browsers, User(c)
      PROVE  Bounded'
  <2>1. UNCHANGED <<games, link>> /\ Broken' = Broken
    BY <1>2, BrokenKept
    DEF User, handleLogin, handleCreateGame, handleMakeMove, returnToLobby, handleJoinGame
  <2>2. CASE handleCreateGame(c)
    <3>1. sendMessage(c, "create", 0) /\ Len(games) + Cardinality(Creating) < MaxGames
      BY <2>2 DEF handleCreateGame
    <3>2. /\ Cardinality(Creating') \in Nat /\ Cardinality(Creating') <= Cardinality(Creating) + 1
          /\ \A d \in Browsers : Len(requests'[d]) <= requested'
      BY <3>1, CreatingSent, ConstantsAssumption
    <3>3. Len(games) + Cardinality(Creating') <= MaxGames
      BY <1>1, <3>1, <3>2
    <3> QED BY <2>1, <3>2, <3>3 DEF Bounded
  <2>3. ASSUME NEW command \in {"login", "join", "move"}, NEW s \in 0 .. MaxGames,
               sendMessage(c, command, s)
        PROVE  Bounded'
    <3>1. /\ Cardinality(Creating') \in Nat /\ Cardinality(Creating') <= Cardinality(Creating)
          /\ \A d \in Browsers : Len(requests'[d]) <= requested'
      BY <2>3, CreatingSent
    <3>2. Len(games) + Cardinality(Creating) <= MaxGames
      BY DEF Bounded
    <3>3. Len(games) + Cardinality(Creating') <= MaxGames
      BY <1>1, <3>1, <3>2
    <3> QED BY <2>1, <3>1, <3>3 DEF Bounded
  <2>4. 0 \in 0 .. MaxGames /\ \A code \in 1 .. MaxGames : code \in 0 .. MaxGames
    BY <1>1
  <2>5. CASE handleLogin(c) \/ returnToLobby(c) \/ handleMakeMove(c)
    BY <2>3, <2>4, <2>5 DEF handleLogin, returnToLobby, handleMakeMove
  <2>6. CASE \E code \in 1 .. MaxGames : handleJoinGame(c, code)
    BY <2>3, <2>4, <2>6 DEF handleJoinGame
  <2> QED BY <1>2, <2>2, <2>5, <2>6 DEF User
<1>3. ASSUME NEW c \in Browsers, connectionLost(c) \/ reconnect(c)
      PROVE  Bounded'
  <2>1. UNCHANGED <<games, requested>> /\ Cardinality(Broken') <= MaxDrops
    BY <1>3, BrokenStep DEF connectionLost, reconnect
  <2>2. \A d \in Browsers : requests'[d] = requests[d] \/ requests'[d] = <<>>
    BY <1>3, Elements DEF connectionLost, reconnect, Captured
  <2>3. Creating' \subseteq Creating
    <3> SUFFICES ASSUME NEW r \in Creating'
                 PROVE  r \in Creating
      OBVIOUS
    <3>1. r \in Browsers \X (1 .. MaxRequests) /\ r[2] \in DOMAIN requests'[r[1]]
          /\ requests'[r[1]][r[2]].command = "create" /\ r[1] \in Browsers
      BY DEF Creating
    <3>2. requests'[r[1]] # <<>>
      BY <3>1
    <3> QED BY <2>2, <3>1, <3>2 DEF Creating
  <2>4. Cardinality(Creating') <= Cardinality(Creating) /\ Cardinality(Creating') \in Nat
    BY <2>3, FiniteCounts, FS_Subset, FS_CardinalityType
  <2>5. Len(games) + Cardinality(Creating') <= MaxGames
    BY <1>1, <2>4 DEF Bounded
  <2>6. \A d \in Browsers : Len(requests'[d]) <= requested
    <3>1. Len(<<>>) = 0 /\ requested \in Nat
      BY DEF TypeOK
    <3> QED BY <2>2, <3>1 DEF Bounded
  <2> QED BY <2>1, <2>5, <2>6 DEF Bounded
<1>4. ASSUME NEW c \in Browsers, NEW command, Receives(c, command),
             \A d \in Browsers : link'[d].number = link[d].number /\ link'[d].open = link[d].open,
             Len(games') = IF command = "create" /\ link[c].user # Nobody
                           THEN Len(games) + 1 ELSE Len(games)
      PROVE  Bounded'
  <2>1. Broken' = Broken
    BY <1>4, BrokenKept
  <2>2. /\ Cardinality(Creating') \in Nat
        /\ Cardinality(Creating') <= IF command = "create" THEN Cardinality(Creating) - 1
                                     ELSE Cardinality(Creating)
    BY <1>4, CreatingShift
  <2>3. Len(games') + Cardinality(Creating') <= MaxGames
    BY <1>1, <1>4, <2>2 DEF Bounded
  <2>4. /\ requests[c] # <<>> /\ requests'[c] = Tail(requests[c]) /\ UNCHANGED requested
        /\ \A d \in Browsers \ {c} : requests'[d] = requests[d]
    BY <1>4, ReceivesFacts
  <2>5. \A d \in Browsers : Len(requests'[d]) <= requested'
    <3>1. Len(requests'[c]) <= Len(requests[c]) /\ Len(requests[c]) \in Nat
          /\ Len(requests'[c]) \in Nat /\ requested \in Nat
      BY SMTT(30), <2>4, ARequest DEF TypeOK
    <3>2. \A d \in Browsers : Len(requests[d]) <= requested
      BY DEF Bounded
    <3>3. Len(requests'[c]) <= requested
      BY <3>1, <3>2
    <3> QED BY <2>4, <3>2, <3>3
  <2> QED BY <2>1, <2>3, <2>5 DEF Bounded
<1>5. ASSUME NEW c \in Browsers,
             (\E valid \in BOOLEAN : LOGIN(c, valid)) \/ CREATE(c) \/ JOIN(c) \/ MOVE(c)
      PROVE  Bounded'
  <2>1. CASE \E valid \in BOOLEAN : LOGIN(c, valid)
    <3>1. Receives(c, "login") /\ UNCHANGED games
      BY <2>1 DEF LOGIN
    <3>2. \A d \in Browsers : link'[d].number = link[d].number /\ link'[d].open = link[d].open
      <4>1. link \in [Browsers -> Link]
        BY Elements
      <4>2. UNCHANGED link \/ link' = [link EXCEPT ![c].user = c]
        BY <2>1 DEF LOGIN
      <4> QED BY <4>1, <4>2 DEF Link
    <3> QED BY <1>4, <3>1, <3>2
  <2>2. CASE CREATE(c)
    <3>1. Receives(c, "create") /\ UNCHANGED link
      BY <2>2 DEF CREATE
    <3>2. CASE link[c].user = Nobody
      BY <1>4, <2>2, <3>1, <3>2 DEF CREATE
    <3>3. CASE link[c].user # Nobody
      BY <1>4, <2>2, <3>1, <3>3, CreateFacts
    <3> QED BY <3>2, <3>3
  <2>3. CASE JOIN(c)
    BY <1>4, <2>3, GamesStay DEF JOIN
  <2>4. CASE MOVE(c)
    BY <1>4, <2>4 DEF MOVE
  <2> QED BY <1>5, <2>1, <2>2, <2>3, <2>4
<1>6. ASSUME UNCHANGED <<link, requests, requested>>, Len(games') = Len(games)
      PROVE  Bounded'
  <2>1. Broken' = Broken /\ Creating' = Creating
    BY <1>6, BrokenKept DEF Creating
  <2> QED BY <1>6, <2>1 DEF Bounded
<1>7. ASSUME NEW c \in Browsers, updateFromServer(c)
      PROVE  Bounded'
  BY <1>6, <1>7 DEF updateFromServer
<1>8. CASE addWebSocketHandle \/ makeMoveRefused \/ makeMove \/ readTurn \/ sendResult
  BY <1>6, <1>8, GamesStay
  DEF addWebSocketHandle, makeMoveRefused, makeMove, readTurn, sendResult
<1>9. ASSUME NEW t \in TcpPlayers,
             TcpHandler(t) \/ tcpMove(t) \/ \E s \in DOMAIN games : tcpJoin(t, s)
      PROVE  Bounded'
  <2>1. Len(games') = Len(games)
    BY <1>9, GamesStay DEF TcpHandler, broadcastGameState
  <2> QED BY <1>6, <1>9, <2>1
      DEF TcpHandler, broadcastGameState, tcpMove, tcpApplied, tcpMoved, tcpJoin
<1> QED BY <1>2, <1>3, <1>5, <1>7, <1>8, <1>9 DEF Next, WsThread

-----------------------------------------------------------------------------
(* The parts of the invariant that are about sessions and who works in     *)
(* them.                                                                   *)

(* The actions that leave every session and every TCP handler alone.       *)
Elsewhere ==
    \/ \E c \in Browsers :
          \/ User(c) \/ updateFromServer(c) \/ connectionLost(c) \/ reconnect(c)
          \/ \E valid \in BOOLEAN : LOGIN(c, valid)
          \/ MOVE(c)
          \/ CREATE(c) /\ link[c].user = Nobody
          \/ JOIN(c) /\ ~MayEnter(c)
    \/ makeMoveRefused \/ readTurn \/ sendResult

(* The actions that change sessions or TCP handlers.                       *)
AtGames ==
    \/ \E c \in Browsers :
          \/ CREATE(c) /\ link[c].user # Nobody
          \/ JOIN(c) /\ MayEnter(c)
    \/ addWebSocketHandle \/ makeMove
    \/ \E t \in TcpPlayers :
          \/ broadcastGameState(t)
          \/ tcpMove(t) \/ tcpApplied(t) \/ tcpMoved(t)
          \/ \E s \in DOMAIN games : tcpJoin(t, s)

LEMMA NextCases ==
    ASSUME Next
    PROVE  Elsewhere \/ AtGames
BY DEF Next, WsThread, TcpHandler, Elsewhere, AtGames

LEMMA ElsewhereFacts ==
    ASSUME Elsewhere
    PROVE  UNCHANGED <<games, tcp>>
<1>1. ASSUME NEW c \in Browsers, JOIN(c), ~MayEnter(c)
      PROVE  UNCHANGED <<games, tcp>>
  BY <1>1, NoJoin DEF JOIN, Receives
<1>2. ASSUME NEW c \in Browsers, User(c)
      PROVE  UNCHANGED <<games, tcp>>
  BY <1>2
  DEF User, handleLogin, handleCreateGame, handleJoinGame, handleMakeMove, returnToLobby
<1>3. ASSUME NEW c \in Browsers, updateFromServer(c) \/ connectionLost(c) \/ reconnect(c)
      PROVE  UNCHANGED <<games, tcp>>
  BY <1>3 DEF updateFromServer, connectionLost, reconnect
<1>4. ASSUME NEW c \in Browsers, \/ \E valid \in BOOLEAN : LOGIN(c, valid)
                                 \/ MOVE(c)
                                 \/ CREATE(c) /\ link[c].user = Nobody
      PROVE  UNCHANGED <<games, tcp>>
  BY <1>4 DEF LOGIN, MOVE, CREATE, Receives
<1>5. CASE makeMoveRefused \/ readTurn \/ sendResult
  BY <1>5 DEF makeMoveRefused, readTurn, sendResult
<1> QED BY <1>1, <1>2, <1>3, <1>4, <1>5 DEF Elsewhere

(* One session has changed.                                                *)
OneGame(s, game) ==
    /\ s \in DOMAIN games /\ DOMAIN games' = DOMAIN games /\ games'[s] = game
    /\ \A r \in DOMAIN games \ {s} : games'[r] = games[r]

LEMMA OneGameFacts ==
    ASSUME TypeOK, NEW s \in DOMAIN games, NEW game, games' = [games EXCEPT ![s] = game]
    PROVE  OneGame(s, game)
BY DEF OneGame

LEMMA HandlersStep ==
    ASSUME TypeOK, Bounded, Handlers, Unshared, AtWork, Next
    PROVE  Handlers'
<1>0. tcp \in [TcpPlayers -> TcpState] /\ Nobody \notin TcpPlayers /\ 0 \notin DOMAIN games
  BY Elements, ConstantsAssumption
<1>1. CASE Elsewhere
  BY <1>1, ElsewhereFacts DEF Handlers, Holds
<1>2. ASSUME NEW c \in Browsers, CREATE(c), link[c].user # Nobody
      PROVE  Handlers'
  <2>1. UNCHANGED tcp
    BY <1>2, ReceivesFacts DEF CREATE
  <2>2. \A s \in DOMAIN games' : s \in DOMAIN games \/ games'[s].gameMutex = Nobody
    <3>1. DOMAIN games' = 1 .. Len(games) + 1 /\ DOMAIN games = 1 .. Len(games)
          /\ Len(games) \in Nat
      BY <1>2, CreateFacts, Elements
    <3>2. games'[Len(games) + 1] = NewGame(c) /\ NewGame(c).gameMutex = Nobody
      <4>1. NewGame(c).gameMutex = Nobody
        BY DEF NewGame
      <4> QED BY <1>2, <4>1, CreateFacts
    <3> QED BY <3>1, <3>2
  <2>3. \A s \in DOMAIN games : s \in DOMAIN games' /\ games'[s] = games[s]
    BY <1>2, CreateFacts, Elements
  <2> QED BY <2>1, <2>2, <2>3 DEF Handlers, Holds
<1>3. ASSUME NEW c \in Browsers, JOIN(c), MayEnter(c)
      PROVE  Handlers'
  <2> DEFINE s == Joining(c)
  <2>1. /\ OneGame(s, JoinedGame(c)) /\ UNCHANGED tcp
        /\ games[s].player2 = Nobody /\ games[s].gameMutex = Nobody
        /\ JoinedGame(c).gameMutex = Nobody
    BY <1>3, JoinFacts, OneGameFacts
  <2> HIDE DEF s
  <2>2. \A t \in TcpPlayers : tcp[t].game # s
    BY <1>0, <2>1 DEF Handlers, OneGame
  <2> QED BY <2>1, <2>2 DEF Handlers, Holds, OneGame
<1>4. CASE addWebSocketHandle
  <2> DEFINE s == wsThread.game
  <2>1. /\ OneGame(s, HandledGame) /\ UNCHANGED tcp
        /\ Seats(HandledGame) = Seats(games[s]) /\ HandledGame.version = games[s].version
        /\ HandledGame.gameMutex = games[s].gameMutex
    BY <1>4, HandleFacts, OneGameFacts
  <2> QED BY <2>1 DEF Handlers, Holds, OneGame, Seats
<1>5. CASE makeMove
  <2> DEFINE s == wsThread.game
  <2>1. PICK game \in Game :
            /\ games' = [games EXCEPT ![s] = game] /\ Seats(game) = Seats(games[s])
            /\ game.gameMutex = games[s].gameMutex
    BY <1>5, MoveFacts
  <2>2. OneGame(s, game) /\ UNCHANGED tcp /\ games[s].gameMutex = Nobody
    BY <1>5, <2>1, MoveFacts, OneGameFacts
  <2>3. \A t \in TcpPlayers : tcp[t].game = s => ~Holds(t)
    BY <1>0, <2>2 DEF Handlers
  <2> HIDE DEF s
  <2> QED BY <2>1, <2>2, <2>3 DEF Handlers, Holds, OneGame, Seats
<1>6. ASSUME NEW t \in TcpPlayers, broadcastGameState(t)
      PROVE  Handlers'
  <2>1. /\ UNCHANGED games
        /\ tcp' = [tcp EXCEPT ![t].pc = "receive"]
        /\ tcp[t].pc = "broadcast"
    BY <1>6, BroadcastFacts
  <2>2. \A u \in TcpPlayers \ {t} : tcp'[u] = tcp[u]
    BY <1>0, <2>1
  <2>3. tcp'[t].game = tcp[t].game /\ tcp'[t].pc = "receive" /\ ~Holds(t)
    BY <1>0, <2>1 DEF TcpState, Holds
  <2>4. \A s \in DOMAIN games : games[s].gameMutex # t
    BY <1>0, <2>3 DEF Handlers
  <2> QED BY <2>1, <2>2, <2>3, <2>4 DEF Handlers, Holds
<1>7. ASSUME NEW t \in TcpPlayers, tcpMove(t) \/ tcpApplied(t) \/ tcpMoved(t)
      PROVE  Handlers'
  <2> DEFINE s == tcp[t].game
  <2>1. PICK game \in Game :
            /\ games' = [games EXCEPT ![s] = game] /\ Seats(game) = Seats(games[s])
            /\ tcpMove(t) => game.gameMutex = t /\ game.version < MaxMoves
            /\ tcpApplied(t) => game.gameMutex = games[s].gameMutex
            /\ tcpMoved(t) => game.gameMutex = Nobody
    BY <1>7, TcpMoveFacts
  <2>2. /\ OneGame(s, game) /\ games[s].player2 = t /\ games[s].gameMutex \in {Nobody, t}
        /\ tcp[t].pc = IF tcpMove(t) THEN "receive"
                       ELSE IF tcpApplied(t) THEN "applying" ELSE "applied"
        /\ tcp' = [tcp EXCEPT ![t].pc = IF tcpMove(t) THEN "applying"
                                        ELSE IF tcpApplied(t) THEN "applied" ELSE "receive"]
    BY <1>7, <2>1, TcpMoveFacts, OneGameFacts
  <2>3. \A u \in TcpPlayers \ {t} : tcp'[u] = tcp[u] /\ tcp[u].game # s
    BY <1>0, <2>2 DEF Handlers, OneGame
  <2>4. tcp'[t].game = s /\ tcp'[t].pc = IF tcpMove(t) THEN "applying"
                                         ELSE IF tcpApplied(t) THEN "applied" ELSE "receive"
    BY <1>0, <2>2 DEF TcpState
  <2>5. s # 0 /\ game.player2 = t
    BY <2>1, <2>2, Elements DEF OneGame, Seats
  <2>6. game.gameMutex = IF tcp'[t].pc = "receive" THEN Nobody ELSE t
    BY <1>7, <2>1, <2>2, <2>4 DEF Handlers, Holds
  <2>7. tcp'[t].pc = "applying" => game.version < MaxMoves
    BY <1>7, <2>1, <2>4
  <2>8. tcp'[t].pc \in {"receive", "applying", "applied"}
    BY <2>4
  <2> HIDE DEF s
  <2>9. ASSUME NEW u \in TcpPlayers
        PROVE  /\ tcp'[u].pc # "receive" => tcp'[u].game # 0
               /\ tcp'[u].game # 0 => /\ tcp'[u].game \in DOMAIN games'
                                      /\ games'[tcp'[u].game].player2 = u
               /\ Holds(u)' => games'[tcp'[u].game].gameMutex = u
               /\ tcp'[u].pc = "applying" => games'[tcp'[u].game].version < MaxMoves
    <3>1. CASE u = t
      BY <2>2, <2>4, <2>5, <2>6, <2>7, <2>8, <3>1 DEF OneGame, Holds
    <3>2. CASE u # t
      BY <2>2, <2>3, <3>2 DEF OneGame, Holds, Handlers
    <3> QED BY <3>1, <3>2
  <2>10. ASSUME NEW r \in DOMAIN games', games'[r].gameMutex # Nobody
         PROVE  /\ games'[r].gameMutex = games'[r].player2
                /\ tcp'[games'[r].player2].pc \in {"applying", "applied"}
                /\ tcp'[games'[r].player2].game = r
    <3>1. CASE r = s
      <4>1. games'[r] = game
        BY <2>2, <3>1 DEF OneGame
      <4>2. game.gameMutex = t /\ tcp'[t].pc \in {"applying", "applied"}
        BY <2>6, <2>8, <2>10, <4>1
      <4> QED BY <2>4, <2>5, <3>1, <4>1, <4>2
    <3>2. CASE r # s
      <4>1. r \in DOMAIN games /\ games'[r] = games[r]
        BY <2>2, <2>10, <3>2 DEF OneGame
      <4>2. /\ games[r].gameMutex = games[r].player2
            /\ tcp[games[r].player2].pc \in {"applying", "applied"}
            /\ tcp[games[r].player2].game = r
        BY <2>10, <4>1 DEF Handlers, Holds
      <4>3. games[r].player2 # t /\ games[r].player2 \in TcpPlayers
        <5>1. games[r].gameMutex \in TcpPlayers \cup {Nobody}
          BY <4>1, Elements DEF Game
        <5>2. tcp[t].game = s
          BY <1>0, <2>4, <2>2 DEF TcpState
        <5> QED BY <2>10, <3>2, <4>1, <4>2, <5>1, <5>2
      <4> QED BY <2>3, <4>1, <4>2, <4>3
    <3> QED BY <3>1, <3>2
  <2> QED BY <2>9, <2>10 DEF Handlers, Holds
<1>8. ASSUME NEW t \in TcpPlayers, NEW s \in DOMAIN games, tcpJoin(t, s)
      PROVE  Handlers'
  <2> DEFINE game == TcpJoinedGame(t, s)
  <2>1. /\ OneGame(s, game) /\ game.player2 = t /\ game.gameMutex = Nobody
        /\ games[s].player2 = Nobody /\ tcp[t].game = 0 /\ tcp[t].pc = "receive"
        /\ tcp' = [tcp EXCEPT ![t] = [pc |-> "broadcast", game |-> s]]
    BY <1>8, TcpJoinFacts, OneGameFacts
  <2> HIDE DEF game
  <2>2. \A u \in TcpPlayers \ {t} : tcp'[u] = tcp[u] /\ tcp[u].game # s
    BY <1>0, <2>1 DEF Handlers, OneGame
  <2>3. tcp'[t].pc = "broadcast" /\ tcp'[t].game = s
    BY <1>0, <2>1
  <2>4. \A r \in DOMAIN games : games[r].gameMutex # t
    BY <1>0, <2>1 DEF Handlers, Holds
  <2> QED BY <1>8, <2>1, <2>2, <2>3, <2>4, Elements DEF Handlers, Holds, OneGame
<1> QED BY <1>1, <1>2, <1>3, <1>4, <1>5, <1>6, <1>7, <1>8, NextCases DEF AtGames

LEMMA UnsharedStep ==
    ASSUME TypeOK, Bounded, Handlers, Unshared, AtWork, Next
    PROVE  Unshared'
<1>0. Nobody \notin TcpPlayers /\ Browsers \cap TcpPlayers = {} /\ Nobody \notin Browsers
  BY ConstantsAssumption
<1>1. CASE Elsewhere
  BY <1>1, ElsewhereFacts DEF Unshared
<1>2. ASSUME NEW s, NEW game, OneGame(s, game),
             game.player1 = games[s].player1,
             game.player2 \notin TcpPlayers =>
                /\ games[s].player2 \notin TcpPlayers
                /\ game.gameMutex = games[s].gameMutex /\ game.applying = games[s].applying
                /\ game.isPlayer1Turn = (game.version % 2 = 0),
             game.player2 = Nobody => game.over # "black"
      PROVE  Unshared'
  BY <1>2 DEF Unshared, OneGame
<1>3. ASSUME NEW c \in Browsers, CREATE(c), link[c].user # Nobody
      PROVE  Unshared'
  <2>1. \A s \in DOMAIN games' : \/ s \in DOMAIN games /\ games'[s] = games[s]
                                 \/ games'[s] = NewGame(c)
    <3>1. DOMAIN games' = 1 .. Len(games) + 1 /\ DOMAIN games = 1 .. Len(games)
          /\ Len(games) \in Nat
      BY <1>3, CreateFacts, Elements
    <3>2. /\ \A s \in DOMAIN games : games'[s] = games[s]
          /\ games'[Len(games) + 1] = NewGame(c)
      BY <1>3, CreateFacts
    <3> QED BY <3>1, <3>2
  <2>2. /\ NewGame(c).player1 = c /\ NewGame(c).gameMutex = Nobody /\ ~NewGame(c).applying
        /\ NewGame(c).isPlayer1Turn = TRUE /\ NewGame(c).version = 0
        /\ NewGame(c).over = "none"
    BY DEF NewGame
  <2>3. (0 % 2 = 0) = TRUE
    OBVIOUS
  <2>4. /\ NewGame(c).isPlayer1Turn = (NewGame(c).version % 2 = 0)
        /\ NewGame(c).over # "black"
    BY <2>2, <2>3
  <2> QED BY <2>1, <2>2, <2>4 DEF Unshared
<1>4. ASSUME NEW c \in Browsers, JOIN(c), MayEnter(c)
      PROVE  Unshared'
  <2> DEFINE s == Joining(c)
  <2>1. /\ OneGame(s, JoinedGame(c))
        /\ games[s].player2 = Nobody /\ JoinedGame(c).player2 = c
        /\ JoinedGame(c).player1 = games[s].player1
        /\ JoinedGame(c).gameMutex = games[s].gameMutex
        /\ JoinedGame(c).applying = games[s].applying
        /\ JoinedGame(c).isPlayer1Turn = games[s].isPlayer1Turn
        /\ JoinedGame(c).version = games[s].version
    BY <1>4, JoinFacts, OneGameFacts
  <2>2. games[s].isPlayer1Turn = (games[s].version % 2 = 0)
    BY <1>0, <2>1 DEF Unshared, OneGame
  <2> QED BY <1>0, <1>2, <2>1, <2>2
<1>5. CASE addWebSocketHandle
  <2> DEFINE s == wsThread.game
  <2>1. /\ OneGame(s, HandledGame) /\ Seats(HandledGame) = Seats(games[s])
        /\ HandledGame.gameMutex = games[s].gameMutex
        /\ HandledGame.applying = games[s].applying
        /\ HandledGame.isPlayer1Turn = games[s].isPlayer1Turn
        /\ HandledGame.version = games[s].version /\ HandledGame.over = games[s].over
    BY <1>5, HandleFacts, OneGameFacts
  <2>2. HandledGame.player1 = games[s].player1 /\ HandledGame.player2 = games[s].player2
    BY <2>1 DEF Seats
  <2>3. /\ games[s].player2 \notin TcpPlayers =>
              games[s].isPlayer1Turn = (games[s].version % 2 = 0)
        /\ games[s].player2 = Nobody => games[s].over # "black"
    BY <2>1 DEF Unshared, OneGame
  <2> QED BY <1>2, <2>1, <2>2, <2>3
<1>6. CASE makeMove
  <2> DEFINE s == wsThread.game
  <2>1. s \in DOMAIN games
    BY <1>6, MoveFacts
  <2>2. PICK game \in Game :
            /\ games' = [games EXCEPT ![s] = game] /\ Seats(game) = Seats(games[s])
            /\ game.version = games[s].version + 1 /\ game.applying = games[s].applying
            /\ game.isPlayer1Turn = ~games[s].isPlayer1Turn
            /\ game.gameMutex = games[s].gameMutex
            /\ game.over = "black" => games[s].player2 # Nobody
    BY <1>6, MoveFacts
  <2>3. OneGame(s, game) /\ game.player1 = games[s].player1 /\ game.player2 = games[s].player2
    BY <2>1, <2>2, OneGameFacts DEF Seats
  <2>4. games[s].version \in Nat
    BY <2>1, Elements DEF Game
  <2>5. games[s].player2 \notin TcpPlayers =>
            games[s].isPlayer1Turn = (games[s].version % 2 = 0)
    BY <2>1 DEF Unshared
  <2>6. (games[s].version % 2 = 0) = ~((games[s].version + 1) % 2 = 0)
    BY <2>4
  <2> HIDE DEF s
  <2>7. game.player2 \notin TcpPlayers => game.isPlayer1Turn = (game.version % 2 = 0)
    BY <2>2, <2>3, <2>5, <2>6
  <2> QED BY <1>2, <2>2, <2>3, <2>7
<1>7. ASSUME NEW t \in TcpPlayers, broadcastGameState(t)
      PROVE  Unshared'
  BY <1>7 DEF broadcastGameState, Unshared
<1>8. ASSUME NEW t \in TcpPlayers, tcpMove(t) \/ tcpApplied(t) \/ tcpMoved(t)
      PROVE  Unshared'
  <2> DEFINE s == tcp[t].game
  <2>1. PICK game \in Game :
            games' = [games EXCEPT ![s] = game] /\ Seats(game) = Seats(games[s])
    BY <1>8, TcpMoveFacts
  <2>2. OneGame(s, game) /\ games[s].player2 = t
    BY <1>8, <2>1, TcpMoveFacts, OneGameFacts
  <2>3. game.player1 = games[s].player1 /\ game.player2 = t
    BY <2>1, <2>2 DEF Seats
  <2> QED BY <1>0, <1>2, <2>2, <2>3
<1>9. ASSUME NEW t \in TcpPlayers, NEW s \in DOMAIN games, tcpJoin(t, s)
      PROVE  Unshared'
  <2>1. /\ OneGame(s, TcpJoinedGame(t, s)) /\ TcpJoinedGame(t, s).player2 = t
        /\ TcpJoinedGame(t, s).player1 = games[s].player1
    BY <1>9, TcpJoinFacts, OneGameFacts
  <2> QED BY <1>0, <1>2, <2>1
<1> QED BY <1>1, <1>3, <1>4, <1>5, <1>6, <1>7, <1>8, <1>9, NextCases DEF AtGames

(* What no step takes from a session: its creator, a second player that    *)
(* has come, moves made; a turn is only changed by the move of one side.   *)
Grows(s) ==
    /\ s \in DOMAIN games' /\ games'[s].player1 = games[s].player1
    /\ games'[s].player2 # games[s].player2 =>
          games[s].player2 = Nobody /\ (wsThread.pc = "idle" \/ games'[s].player2 \in TcpPlayers)
    /\ games'[s].version \in {games[s].version, games[s].version + 1}
    /\ games'[s].isPlayer1Turn # games[s].isPlayer1Turn =>
          makeMove \/ games'[s].player2 \in TcpPlayers

LEMMA GamesGrow ==
    ASSUME TypeOK, Bounded, Handlers, Unshared, AtWork, Next
    PROVE  \A s \in DOMAIN games : Grows(s)
<1>0. \A s \in DOMAIN games : games[s].version \in Nat
  BY Elements DEF Game
<1>1. CASE Elsewhere
  BY <1>0, <1>1, ElsewhereFacts DEF Grows
<1>2. ASSUME NEW s, NEW game, OneGame(s, game), game.player1 = games[s].player1,
             game.player2 # games[s].player2 =>
                games[s].player2 = Nobody /\ (wsThread.pc = "idle" \/ game.player2 \in TcpPlayers),
             game.version \in {games[s].version, games[s].version + 1},
             game.isPlayer1Turn # games[s].isPlayer1Turn =>
                makeMove \/ game.player2 \in TcpPlayers
      PROVE  \A r \in DOMAIN games : Grows(r)
  BY <1>0, <1>2 DEF Grows, OneGame
<1>3. ASSUME NEW c \in Browsers, CREATE(c), link[c].user # Nobody
      PROVE  \A s \in DOMAIN games : Grows(s)
  <2>1. \A s \in DOMAIN games : s \in DOMAIN games' /\ games'[s] = games[s]
    BY <1>3, CreateFacts, Elements
  <2> QED BY <1>0, <2>1 DEF Grows
<1>4. ASSUME NEW c \in Browsers, JOIN(c), MayEnter(c)
      PROVE  \A s \in DOMAIN games : Grows(s)
  <2> DEFINE s == Joining(c)
  <2>1. /\ OneGame(s, JoinedGame(c)) /\ games[s].player2 = Nobody
        /\ JoinedGame(c).player1 = games[s].player1
        /\ JoinedGame(c).isPlayer1Turn = games[s].isPlayer1Turn
        /\ JoinedGame(c).version = games[s].version
    BY <1>4, JoinFacts, OneGameFacts
  <2>2. wsThread.pc = "idle"
    BY <1>4 DEF JOIN, Receives
  <2> QED BY <1>2, <2>1, <2>2
<1>5. CASE addWebSocketHandle
  <2> DEFINE s == wsThread.game
  <2>1. /\ OneGame(s, HandledGame) /\ Seats(HandledGame) = Seats(games[s])
        /\ HandledGame.isPlayer1Turn = games[s].isPlayer1Turn
        /\ HandledGame.version = games[s].version
    BY <1>5, HandleFacts, OneGameFacts
  <2>2. HandledGame.player1 = games[s].player1 /\ HandledGame.player2 = games[s].player2
    BY <2>1 DEF Seats
  <2> QED BY <1>2, <2>1, <2>2
<1>6. CASE makeMove
  <2> DEFINE s == wsThread.game
  <2>1. PICK game \in Game :
            /\ games' = [games EXCEPT ![s] = game] /\ Seats(game) = Seats(games[s])
            /\ game.version = games[s].version + 1
    BY <1>6, MoveFacts
  <2>2. OneGame(s, game)
    BY <1>6, <2>1, MoveFacts, OneGameFacts
  <2>3. game.player1 = games[s].player1 /\ game.player2 = games[s].player2
    BY <2>1 DEF Seats
  <2> QED BY <1>2, <1>6, <2>1, <2>2, <2>3
<1>7. ASSUME NEW t \in TcpPlayers, broadcastGameState(t)
      PROVE  \A s \in DOMAIN games : Grows(s)
  BY <1>0, <1>7 DEF broadcastGameState, Grows
<1>8. ASSUME NEW t \in TcpPlayers, tcpMove(t) \/ tcpApplied(t) \/ tcpMoved(t)
      PROVE  \A s \in DOMAIN games : Grows(s)
  <2> DEFINE s == tcp[t].game
  <2>1. PICK game \in Game :
            /\ games' = [games EXCEPT ![s] = game] /\ Seats(game) = Seats(games[s])
            /\ game.version \in {games[s].version, games[s].version + 1}
    BY <1>8, TcpMoveFacts
  <2>2. OneGame(s, game) /\ games[s].player2 = t
    BY <1>8, <2>1, TcpMoveFacts, OneGameFacts
  <2>3. game.player1 = games[s].player1 /\ game.player2 = games[s].player2
    BY <2>1 DEF Seats
  <2> QED BY <1>2, <2>1, <2>2, <2>3
<1>9. ASSUME NEW t \in TcpPlayers, NEW s \in DOMAIN games, tcpJoin(t, s)
      PROVE  \A r \in DOMAIN games : Grows(r)
  <2>1. /\ OneGame(s, TcpJoinedGame(t, s)) /\ TcpJoinedGame(t, s).player2 = t
        /\ TcpJoinedGame(t, s).player1 = games[s].player1 /\ games[s].player2 = Nobody
        /\ TcpJoinedGame(t, s).isPlayer1Turn = games[s].isPlayer1Turn
        /\ TcpJoinedGame(t, s).version = games[s].version
    BY <1>9, TcpJoinFacts, OneGameFacts
  <2> QED BY <1>2, <2>1
<1> QED BY <1>1, <1>3, <1>4, <1>5, <1>6, <1>7, <1>8, <1>9, NextCases DEF AtGames

(* A connection is only ever replaced by a newer one, by reconnect.        *)
LEMMA LinksGrow ==
    ASSUME TypeOK, Next
    PROVE  \A c \in Browsers :
              /\ link[c].number \in Nat
              /\ link'[c].number \in {link[c].number, link[c].number + 1}
              /\ link'[c].open => /\ link[c].open \/ reconnect(c)
                                  /\ link[c].open => link'[c].number = link[c].number
<1>1. link \in [Browsers -> Link]
  BY Elements
<1>2. ASSUME NEW c \in Browsers, connectionLost(c)
      PROVE  \A d \in Browsers : link'[d].number = link[d].number /\ (link'[d].open => link[d].open)
  BY <1>1, <1>2 DEF connectionLost, Link
<1>3. ASSUME NEW c \in Browsers, reconnect(c)
      PROVE  /\ link'[c].number = link[c].number + 1 /\ ~link[c].open
             /\ \A d \in Browsers \ {c} : link'[d] = link[d]
  BY <1>1, <1>3 DEF reconnect, Link
<1>4. ASSUME NEW c \in Browsers, NEW valid \in BOOLEAN, LOGIN(c, valid)
      PROVE  \A d \in Browsers : link'[d].number = link[d].number /\ link'[d].open = link[d].open
  <2>1. UNCHANGED link \/ link' = [link EXCEPT ![c].user = c]
    BY <1>4 DEF LOGIN
  <2> QED BY <1>1, <2>1 DEF Link
<1>5. \/ UNCHANGED link
      \/ \E c \in Browsers : connectionLost(c) \/ reconnect(c)
      \/ \E c \in Browsers, valid \in BOOLEAN : LOGIN(c, valid)
  BY DEF Next, WsThread, TcpHandler, User, updateFromServer, handleLogin, handleCreateGame,
     handleJoinGame, handleMakeMove, returnToLobby, CREATE, JOIN, MOVE, addWebSocketHandle,
     makeMove, makeMoveRefused, readTurn, sendResult, broadcastGameState, tcpJoin, tcpMove,
     tcpApplied, tcpMoved
<1>6. \A c \in Browsers : link[c].number \in Nat
  BY <1>1 DEF Link
<1> QED BY <1>2, <1>3, <1>4, <1>5, <1>6

(* The connections that a session's boards go to are as many as before,    *)
(* but for the one of who creates or joins it.                             *)
LEMMA ConnectionsGrow ==
    ASSUME TypeOK, Bounded, Handlers, Unshared, AtWork, Next,
           NEW s \in DOMAIN games', NEW h \in games'[s].wsConnections
    PROVE  \/ s \in DOMAIN games /\ h \in games[s].wsConnections
           \/ s \in DOMAIN games /\ addWebSocketHandle /\ s = wsThread.game /\ h = wsThread.from
           \/ \E c \in Browsers : /\ JOIN(c) /\ MayEnter(c) /\ s = Joining(c)
                                  /\ h = Current(c) /\ games'[s].player2 = c
<1>1. CASE Elsewhere
  BY <1>1, ElsewhereFacts
<1>2. ASSUME NEW r, NEW game, OneGame(r, game), game.wsConnections = games[r].wsConnections
      PROVE  s \in DOMAIN games /\ h \in games[s].wsConnections
  BY <1>2 DEF OneGame
<1>3. ASSUME NEW c \in Browsers, CREATE(c), link[c].user # Nobody
      PROVE  s \in DOMAIN games /\ h \in games[s].wsConnections
  <2>1. DOMAIN games' = 1 .. Len(games) + 1 /\ DOMAIN games = 1 .. Len(games)
        /\ Len(games) \in Nat
    BY <1>3, CreateFacts, Elements
  <2>2. NewGame(c).wsConnections = {}
    BY DEF NewGame
  <2>3. games'[Len(games) + 1] = NewGame(c) /\ \A r \in DOMAIN games : games'[r] = games[r]
    BY <1>3, CreateFacts
  <2> QED BY <2>1, <2>2, <2>3
<1>4. ASSUME NEW c \in Browsers, JOIN(c), MayEnter(c)
      PROVE  \/ s \in DOMAIN games /\ h \in games[s].wsConnections
             \/ s = Joining(c) /\ h = Current(c) /\ games'[s].player2 = c
  <2>1. /\ OneGame(Joining(c), JoinedGame(c)) /\ JoinedGame(c).player2 = c
        /\ JoinedGame(c).wsConnections = games[Joining(c)].wsConnections \cup {Current(c)}
    BY <1>4, JoinFacts, OneGameFacts
  <2> QED BY <2>1 DEF OneGame
<1>5. CASE addWebSocketHandle
  <2>1. /\ OneGame(wsThread.game, HandledGame)
        /\ HandledGame.wsConnections = games[wsThread.game].wsConnections \cup {wsThread.from}
    BY <1>5, HandleFacts, OneGameFacts
  <2> QED BY <1>5, <2>1 DEF OneGame
<1>6. CASE makeMove
  <2>1. wsThread.game \in DOMAIN games
        /\ \E game \in Game : /\ games' = [games EXCEPT ![wsThread.game] = game]
                              /\ game.wsConnections = games[wsThread.game].wsConnections
    BY <1>6, MoveFacts
  <2> QED BY <1>2, <2>1, OneGameFacts
<1>7. ASSUME NEW t \in TcpPlayers, broadcastGameState(t)
      PROVE  s \in DOMAIN games /\ h \in games[s].wsConnections
  BY <1>7 DEF broadcastGameState
<1>8. ASSUME NEW t \in TcpPlayers, tcpMove(t) \/ tcpApplied(t) \/ tcpMoved(t)
      PROVE  s \in DOMAIN games /\ h \in games[s].wsConnections
  <2>1. tcp[t].game \in DOMAIN games
        /\ \E game \in Game : /\ games' = [games EXCEPT ![tcp[t].game] = game]
                              /\ game.wsConnections = games[tcp[t].game].wsConnections
    BY <1>8, TcpMoveFacts
  <2> QED BY <1>2, <2>1, OneGameFacts
<1>9. ASSUME NEW t \in TcpPlayers, NEW r \in DOMAIN games, tcpJoin(t, r)
      PROVE  s \in DOMAIN games /\ h \in games[s].wsConnections
  <2>1. OneGame(r, TcpJoinedGame(t, r))
        /\ TcpJoinedGame(t, r).wsConnections = games[r].wsConnections
    BY <1>9, TcpJoinFacts, OneGameFacts
  <2> QED BY <1>2, <2>1
<1> QED BY <1>1, <1>3, <1>4, <1>5, <1>6, <1>7, <1>8, <1>9, NextCases DEF AtGames

(* A player's connection stays a player's, and no newer than it was.       *)
LEMMA HandleStays ==
    ASSUME TypeOK, Bounded, Handlers, Unshared, AtWork, Next,
           NEW s \in DOMAIN games, NEW h \in Handle,
           h[1] \in {games[s].player1, games[s].player2}, h[2] <= link[h[1]].number
    PROVE  /\ s \in DOMAIN games' /\ h[1] \in {games'[s].player1, games'[s].player2}
           /\ h[2] <= link'[h[1]].number
<1>1. h[1] \in Browsers /\ h[1] # Nobody /\ h[2] \in Nat
  BY ConstantsAssumption DEF Handle
<1>2. link[h[1]].number \in Nat
      /\ link'[h[1]].number \in {link[h[1]].number, link[h[1]].number + 1}
  BY <1>1, LinksGrow
<1>3. Grows(s)
  BY GamesGrow
<1> QED BY <1>1, <1>2, <1>3 DEF Grows

LEMMA RegisteredStep ==
    ASSUME TypeOK, Bounded, Handlers, Unshared, Registered, AtWork, Next
    PROVE  Registered'
<1> SUFFICES ASSUME NEW s \in DOMAIN games', NEW h \in games'[s].wsConnections
             PROVE  /\ h[1] \in {games'[s].player1, games'[s].player2}
                    /\ h[2] <= link'[h[1]].number
  BY DEF Registered
<1>1. CASE s \in DOMAIN games /\ h \in games[s].wsConnections
  <2>1. h \in Handle /\ h[1] \in {games[s].player1, games[s].player2}
        /\ h[2] <= link[h[1]].number
    BY <1>1, Elements DEF Registered, Game
  <2> QED BY <1>1, <2>1, HandleStays
<1>2. CASE s \in DOMAIN games /\ addWebSocketHandle /\ s = wsThread.game /\ h = wsThread.from
  <2>1. h \in Handle /\ h[1] \in {games[s].player1, games[s].player2}
        /\ h[2] <= link[h[1]].number
    BY <1>2 DEF AtWork, addWebSocketHandle
  <2> QED BY <1>2, <2>1, HandleStays
<1>3. ASSUME NEW c \in Browsers, JOIN(c), MayEnter(c), h = Current(c), games'[s].player2 = c
      PROVE  h[1] = games'[s].player2 /\ h[2] <= link'[h[1]].number
  <2>1. link[c].number \in Nat /\ UNCHANGED link
    BY <1>3, LinksGrow DEF JOIN
  <2> QED BY <1>3, <2>1 DEF Current
<1> QED BY <1>1, <1>2, <1>3, ConnectionsGrow

(* What the WebSocket thread turns to.                                     *)
LEMMA WsThreadSteps ==
    ASSUME TypeOK, Next
    PROVE  \/ UNCHANGED wsThread /\ ~makeMove
           \/ wsThread' = Idle
           \/ makeMove \/ makeMoveRefused \/ readTurn
           \/ \E c \in Browsers : (CREATE(c) \/ MOVE(c)) /\ link[c].user # Nobody
<1>1. ASSUME NEW c \in Browsers,
             User(c) \/ updateFromServer(c) \/ connectionLost(c) \/ reconnect(c)
      PROVE  UNCHANGED wsThread
  BY <1>1 DEF User, handleLogin, handleCreateGame, handleJoinGame, handleMakeMove,
     returnToLobby, updateFromServer, connectionLost, reconnect
<1>2. ASSUME NEW c \in Browsers, NEW valid \in BOOLEAN, LOGIN(c, valid)
      PROVE  UNCHANGED wsThread /\ ~makeMove
  BY <1>2 DEF LOGIN, Receives, makeMove
<1>3. ASSUME NEW c \in Browsers, JOIN(c)
      PROVE  UNCHANGED wsThread /\ ~makeMove
  BY <1>3 DEF JOIN, Receives, makeMove
<1>4. ASSUME NEW c \in Browsers, CREATE(c) \/ MOVE(c), link[c].user = Nobody
      PROVE  UNCHANGED wsThread /\ ~makeMove
  BY <1>4 DEF CREATE, MOVE, Receives, makeMove
<1>5. ASSUME NEW t \in TcpPlayers,
             TcpHandler(t) \/ tcpMove(t) \/ \E s \in DOMAIN games : tcpJoin(t, s)
      PROVE  UNCHANGED wsThread
  BY <1>5 DEF TcpHandler, broadcastGameState, tcpJoin, tcpMove, tcpApplied, tcpMoved
<1>6. CASE addWebSocketHandle \/ sendResult
  BY <1>6 DEF addWebSocketHandle, sendResult
<1>7. makeMove => wsThread' # wsThread
  BY Elements DEF makeMove, WsState
<1> QED BY <1>1, <1>2, <1>3, <1>4, <1>5, <1>6, <1>7 DEF Next, WsThread

LEMMA AtWorkStep ==
    ASSUME TypeOK, Bounded, Handlers, Unshared, AtWork, Next
    PROVE  AtWork'
<1> DEFINE s == wsThread.game
           h == wsThread.from
<1>0. ASSUME wsThread.pc # "idle"
      PROVE  /\ s \in DOMAIN games /\ Grows(s) /\ s \in DOMAIN games' /\ h \in Handle
             /\ h[1] \in {games'[s].player1, games'[s].player2}
             /\ h[2] <= link'[h[1]].number
  BY <1>0, GamesGrow, HandleStays DEF AtWork
<1>1. CASE UNCHANGED wsThread /\ ~makeMove
  <2> SUFFICES ASSUME wsThread.pc # "idle"
               PROVE  AtWork'
    BY <1>1 DEF AtWork
  <2>1. wsThread.pc = "created" => games'[s].player2 \notin Browsers
    BY <1>0, ConstantsAssumption DEF AtWork, Grows
  <2>2. wsThread.pc = "sendResult" /\ games'[s].player2 \notin TcpPlayers =>
            wsThread.turn = games'[s].isPlayer1Turn
    BY <1>0, <1>1 DEF AtWork, Grows
  <2> QED BY <1>0, <1>1, <2>1, <2>2 DEF AtWork
<1>2. CASE wsThread' = Idle
  BY <1>2 DEF AtWork, Idle
<1>3. CASE makeMove \/ makeMoveRefused
  <2>1. wsThread.pc = "makeMove" /\ wsThread' = [wsThread EXCEPT !.pc = "readTurn"]
    BY <1>3 DEF makeMove, makeMoveRefused
  <2>2. wsThread'.pc = "readTurn" /\ wsThread'.from = h /\ wsThread'.game = s
    BY <2>1, Elements DEF WsState
  <2> HIDE DEF s, h
  <2> QED BY <1>0, <2>1, <2>2 DEF AtWork
<1>4. CASE readTurn
  <2>1. wsThread.pc = "readTurn" /\ UNCHANGED games
        /\ wsThread' = [wsThread EXCEPT !.pc = "sendResult", !.turn = games[s].isPlayer1Turn]
    BY <1>4 DEF readTurn
  <2>2. wsThread'.pc = "sendResult" /\ wsThread'.from = h /\ wsThread'.game = s
        /\ wsThread'.turn = games'[s].isPlayer1Turn
    BY <2>1, Elements DEF WsState
  <2> HIDE DEF s, h
  <2> QED BY <1>0, <2>1, <2>2 DEF AtWork
<1>5. ASSUME NEW c \in Browsers, CREATE(c), link[c].user # Nobody
      PROVE  AtWork'
  <2>1. wsThread' = [pc |-> "created", from |-> Current(c), game |-> Len(games) + 1,
                     turn |-> TRUE]
        /\ Current(c) \in Handle /\ UNCHANGED link
    BY <1>5, CreateFacts DEF CREATE
  <2>2. Len(games) + 1 \in DOMAIN games' /\ games'[Len(games) + 1] = NewGame(c)
    <3>1. DOMAIN games' = 1 .. Len(games) + 1 /\ Len(games) \in Nat
      BY <1>5, CreateFacts, Elements
    <3> QED BY <1>5, <3>1, CreateFacts
  <2>3. NewGame(c).player1 = c /\ NewGame(c).player2 = Nobody
    BY DEF NewGame
  <2>4. wsThread'.from = Current(c) /\ Current(c)[1] = c
        /\ Current(c)[2] <= link'[c].number
    BY <2>1, LinksGrow DEF Current
  <2> QED BY <2>1, <2>2, <2>3, <2>4, ConstantsAssumption DEF AtWork
<1>6. ASSUME NEW c \in Browsers, MOVE(c), link[c].user # Nobody
      PROVE  AtWork'
  <2>1. link[c].user = c /\ UNCHANGED <<games, link>> /\ Current(c) \in Handle
    BY <1>6, Elements DEF TypeOK, MOVE, Current, Handle, Link
  <2>2. CASE UNCHANGED wsThread
    BY <1>6, <2>2 DEF MOVE, Receives, AtWork
  <2>3. CASE \E r \in Plays(c) :
                wsThread' = [Idle EXCEPT !.pc = "makeMove", !.from = Current(c), !.game = r]
    <3>1. PICK r \in Plays(c) :
            wsThread' = [pc |-> "makeMove", from |-> Current(c), game |-> r, turn |-> TRUE]
      BY <2>3 DEF Idle
    <3>2. r \in DOMAIN games /\ c \in {games[r].player1, games[r].player2}
      BY DEF Plays
    <3>3. wsThread'.from = Current(c) /\ Current(c)[1] = c
          /\ Current(c)[2] <= link'[c].number
      BY <2>1, <3>1, LinksGrow DEF Current
    <3> QED BY <2>1, <3>1, <3>2, <3>3 DEF AtWork
  <2> QED BY <1>6, <2>1, <2>2, <2>3 DEF MOVE
<1> QED BY <1>1, <1>2, <1>3, <1>4, <1>5, <1>6, WsThreadSteps

-----------------------------------------------------------------------------
(* The boards under way.                                                   *)

LEMMA FitsStay ==
    ASSUME TypeOK, Bounded, Handlers, Unshared, AtWork, Next,
           NEW s, NEW version \in Version, NEW turn, Fits(games, s, version, turn)
    PROVE  Fits(games', s, version, turn)
<1> SUFFICES ASSUME version # Blank
             PROVE  Fits(games', s, version, turn)
  BY DEF Fits
<1>1. s \in DOMAIN games /\ games[s].player2 # Nobody /\ version <= games[s].version
  BY DEF Fits
<1>2. Grows(s) /\ games'[s].player2 = games[s].player2 /\ games'[s].player1 = games[s].player1
  BY <1>1, GamesGrow DEF Grows
<1>3. version <= games'[s].version
  <2>1. games[s].version \in Int /\ games'[s].version \in Int /\ version \in Int
    <3>1. games[s].version \in Int /\ version \in Int
      BY <1>1, Elements DEF Game, Version, Blank, Torn
    <3>2. games'[s].version \in {games[s].version, games[s].version + 1}
      BY <1>2 DEF Grows
    <3> QED BY <3>1, <3>2
  <2> QED BY <1>1, <1>2, <2>1 DEF Grows
<1>4. \A b \in BOOLEAN : Mover(games'[s], b) = Mover(games[s], b)
  BY <1>2 DEF Mover
<1>5. (version % 2 = 0) \in BOOLEAN
  OBVIOUS
<1> QED BY <1>1, <1>2, <1>3, <1>4, <1>5 DEF Fits, Grows

(* A board as it is sent: that of its game then, unless it is torn.        *)
Fresh(sessions, m) ==
    IsBoard(m) =>
        /\ Fits(sessions, m.game, m.version, m.turn)
        /\ m.version >= 0 => m.version = sessions[m.game].version

LEMMA BoardFresh ==
    ASSUME NEW sessions, NEW s \in DOMAIN sessions, s \in 0 .. MaxGames, sessions[s] \in Game,
           NEW turn \in BOOLEAN, NEW type \in {"game_joined", "MoveResult"},
           sessions[s].player2 \notin TcpPlayers =>
                ~sessions[s].applying /\ turn = (sessions[s].version % 2 = 0)
    PROVE  Fresh(sessions, BoardJson(type, s, sessions[s], turn))
<1> DEFINE m == BoardJson(type, s, sessions[s], turn)
<1> SUFFICES ASSUME IsBoard(m)
             PROVE  Fresh(sessions, m)
  BY DEF Fresh
<1>1. /\ m.game = s /\ m.turn = Mover(sessions[s], turn)
      /\ m.version = IF sessions[s].player2 = Nobody THEN Blank
                     ELSE IF sessions[s].applying THEN Torn ELSE sessions[s].version
  BY BoardJsonFacts DEF IsBoard
<1> HIDE DEF m
<1>2. sessions[s].version \in Nat /\ sessions[s].player2 \in Names \cup {Nobody}
      /\ sessions[s].applying \in BOOLEAN
  BY DEF Game
<1>3. CASE sessions[s].player2 = Nobody
  BY <1>1, <1>3 DEF Fresh, Fits, Blank
<1>4. CASE sessions[s].player2 # Nobody /\ sessions[s].applying
  <2>1. m.version = Torn /\ sessions[s].player2 \notin Browsers
    BY <1>1, <1>4, ConstantsAssumption
  <2> QED BY <1>1, <1>2, <1>4, <2>1 DEF Fresh, Fits, Torn
<1>5. CASE sessions[s].player2 # Nobody /\ ~sessions[s].applying
  <2>1. m.version = sessions[s].version
    BY <1>1, <1>5
  <2>2. sessions[s].player2 \in Browsers => turn = (sessions[s].version % 2 = 0)
    BY ConstantsAssumption
  <2> QED BY <1>1, <1>2, <1>5, <2>1, <2>2 DEF Fresh, Fits, Torn
<1> QED BY <1>3, <1>4, <1>5

LEMMA NotesAreFresh ==
    ASSUME NEW sessions, NEW m, ~IsBoard(m)
    PROVE  Fresh(sessions, m)
BY DEF Fresh

(* What a step sends, if it is none of a browser that reads or is cut off. *)
Sends == \E handles : \E m \in Message : SendTo(handles, m) /\ Fresh(games', m)

LEMMA InboxSteps ==
    ASSUME TypeOK, Bounded, Handlers, Unshared, AtWork, Next
    PROVE  Sends \/ \E c \in Browsers : connectionLost(c) \/ updateFromServer(c)
<1>1. ASSUME NEW handles, NEW type \in {"login_success", "invalid", "error", "wins"},
             SendTo(handles, Note(type))
      PROVE  Sends
  <2>1. Note(type) \in Message /\ ~IsBoard(Note(type))
    BY NoteType DEF IsBoard
  <2> QED BY <1>1, <2>1, NotesAreFresh DEF Sends
<1>2. ASSUME UNCHANGED inbox
      PROVE  Sends
  <2>1. SendTo({}, Note("error"))
    BY <1>2 DEF SendTo, TypeOK
  <2> QED BY <1>1, <2>1
<1>3. ASSUME NEW s, NEW result, Announce(s, result)
      PROVE  Sends
  BY <1>1, <1>2, <1>3 DEF Announce
<1>4. ASSUME NEW c \in Browsers, User(c) \/ reconnect(c)
      PROVE  Sends
  BY <1>2, <1>4 DEF User, handleLogin, handleCreateGame, handleJoinGame, handleMakeMove,
     returnToLobby, reconnect
<1>5. ASSUME NEW c \in Browsers, (\E valid \in BOOLEAN : LOGIN(c, valid)) \/ CREATE(c) \/ MOVE(c)
      PROVE  Sends
  BY <1>1, <1>2, <1>5 DEF LOGIN, CREATE, MOVE
<1>6. ASSUME NEW c \in Browsers, JOIN(c)
      PROVE  Sends
  <2>1. CASE ~MayEnter(c)
    BY <1>1, <1>6, <2>1, NoJoin
  <2>2. CASE MayEnter(c)
    <3> DEFINE s == Joining(c)
    <3>1. /\ OneGame(s, JoinedGame(c)) /\ s \in DOMAIN games
          /\ games[s].player2 = Nobody /\ JoinedGame(c) \in Game /\ JoinBoard(c) \in Message
          /\ JoinedGame(c).applying = games[s].applying
          /\ JoinedGame(c).isPlayer1Turn = games[s].isPlayer1Turn
          /\ JoinedGame(c).version = games[s].version
          /\ SendTo(JoinedGame(c).wsConnections, JoinBoard(c))
      BY <1>6, <2>2, JoinFacts, OneGameFacts
    <3>2. ~games[s].applying /\ games[s].isPlayer1Turn = (games[s].version % 2 = 0)
      BY <3>1, ConstantsAssumption DEF Unshared
    <3>3. s \in DOMAIN games' /\ games'[s] = JoinedGame(c) /\ s \in 0 .. MaxGames
          /\ JoinedGame(c).isPlayer1Turn \in BOOLEAN
      BY <3>1, Elements DEF OneGame, Game
    <3>4. JoinBoard(c) = BoardJson("game_joined", s, games'[s], JoinedGame(c).isPlayer1Turn)
      BY <3>3 DEF JoinBoard
    <3>5. games'[s] \in Game /\ ~games'[s].applying
          /\ JoinedGame(c).isPlayer1Turn = (games'[s].version % 2 = 0)
      BY <3>1, <3>2, <3>3
    <3> HIDE DEF s
    <3>6. Fresh(games', JoinBoard(c))
      BY <3>3, <3>4, <3>5, BoardFresh
    <3> QED BY <3>1, <3>6 DEF Sends
  <2> QED BY <2>1, <2>2
<1>7. CASE addWebSocketHandle
  <2>1. CreatedNote \in Message /\ ~IsBoard(CreatedNote) /\ SendTo({wsThread.from}, CreatedNote)
    BY <1>7, HandleFacts DEF IsBoard
  <2> QED BY <2>1, NotesAreFresh DEF Sends
<1>8. CASE makeMove
  BY <1>3, <1>8, MoveFacts
<1>9. CASE makeMoveRefused \/ readTurn
  BY <1>2, <1>9 DEF makeMoveRefused, readTurn
<1>10. CASE sendResult
  <2> DEFINE s == wsThread.game
             board == BoardJson("MoveResult", s, games[s], wsThread.turn)
  <2>1. /\ s \in DOMAIN games /\ board \in Message /\ SendTo(games[s].wsConnections, board)
        /\ wsThread.turn \in BOOLEAN /\ UNCHANGED games
    BY <1>10, SendResultFacts
  <2>2. games[s].player2 \notin TcpPlayers =>
            ~games[s].applying /\ wsThread.turn = (games[s].version % 2 = 0)
    BY <1>10, <2>1 DEF Unshared, AtWork, sendResult
  <2>3. games[s] \in Game /\ s \in 0 .. MaxGames
    BY <2>1, Elements
  <2> HIDE DEF s
  <2>4. Fresh(games, board)
    BY <2>1, <2>2, <2>3, BoardFresh
  <2> QED BY <2>1, <2>4 DEF Sends
<1>11. ASSUME NEW t \in TcpPlayers, broadcastGameState(t)
       PROVE  Sends
  <2> DEFINE s == tcp[t].game
             board == BoardJson("game_joined", s, games[s], games[s].isPlayer1Turn)
  <2>1. /\ s \in DOMAIN games /\ games[s].player2 = t
        /\ board \in Message /\ SendTo(games[s].wsConnections, board) /\ UNCHANGED games
    BY <1>11, BroadcastFacts
  <2>3. games[s] \in Game /\ s \in 0 .. MaxGames /\ games[s].isPlayer1Turn \in BOOLEAN
    BY <2>1, Elements DEF Game
  <2> HIDE DEF s
  <2>4. Fresh(games, board)
    BY <2>1, <2>3, BoardFresh
  <2> QED BY <2>1, <2>4 DEF Sends
<1>12. ASSUME NEW t \in TcpPlayers, tcpMove(t) \/ tcpApplied(t) \/ \E s \in DOMAIN games : tcpJoin(t, s)
       PROVE  Sends
  BY <1>2, <1>12 DEF tcpMove, tcpApplied, tcpJoin
<1>13. ASSUME NEW t \in TcpPlayers, tcpMoved(t)
       PROVE  Sends
  BY <1>3, <1>13 DEF tcpMoved
<1> QED BY <1>4, <1>5, <1>6, <1>7, <1>8, <1>9, <1>10, <1>11, <1>12, <1>13
    DEF Next, WsThread, TcpHandler

(* What a browser shows changes only as it reads a message.                *)
LEMMA ShownSteps ==
    ASSUME TypeOK, Next, NEW d \in Browsers, ~updateFromServer(d)
    PROVE  /\ client'[d].board = client[d].board
           /\ client'[d].currentPlayer = client[d].currentPlayer
           /\ client'[d].gameStatus = client[d].gameStatus
<1>1. client \in [Browsers -> Client]
  BY DEF TypeOK
<1>2. ASSUME NEW c \in Browsers, User(c)
      PROVE  /\ client'[d].board = client[d].board
             /\ client'[d].currentPlayer = client[d].currentPlayer
             /\ client'[d].gameStatus = client[d].gameStatus
  <2>1. CASE UNCHANGED client
    BY <2>1
  <2>2. CASE returnToLobby(c)
    BY <1>1, <2>2 DEF returnToLobby, Client
  <2>3. ASSUME NEW code \in 1 .. MaxGames, handleJoinGame(c, code)
        PROVE  /\ client'[d].board = client[d].board
               /\ client'[d].currentPlayer = client[d].currentPlayer
               /\ client'[d].gameStatus = client[d].gameStatus
    <3>1. client' = [client EXCEPT ![c] = Viewed([client[c] EXCEPT !.gameId = code])]
      BY <1>1, <2>3 DEF handleJoinGame
    <3> QED BY <1>1, <3>1 DEF Viewed, Client
  <2> QED BY <1>2, <2>1, <2>2, <2>3 DEF User, handleLogin, handleCreateGame, handleMakeMove
<1>3. ASSUME NEW c \in Browsers, updateFromServer(c)
      PROVE  client'[d] = client[d]
  BY <1>1, <1>3 DEF updateFromServer
<1>4. \/ UNCHANGED client
      \/ \E c \in Browsers : User(c) \/ updateFromServer(c)
  BY DEF Next, WsThread, TcpHandler, connectionLost, reconnect, LOGIN, CREATE, JOIN, MOVE,
     Receives, addWebSocketHandle, makeMove, makeMoveRefused, readTurn, sendResult,
     broadcastGameState, tcpJoin, tcpMove, tcpApplied, tcpMoved
<1> QED BY <1>2, <1>3, <1>4

LEMMA TypeStep ==
    ASSUME TypeOK, Bounded, Handlers, Unshared, AtWork, Next
    PROVE  TypeOK'
<1>1. ASSUME NEW c \in Browsers,
             User(c) \/ updateFromServer(c) \/ connectionLost(c) \/ reconnect(c)
      PROVE  TypeOK'
  BY <1>1, UserTypes, ConnectionTypes
<1>2. CASE WsThread
  BY <1>2, RequestTypes, WsTypes DEF WsThread
<1>3. ASSUME NEW t \in TcpPlayers,
             TcpHandler(t) \/ tcpMove(t) \/ \E s \in DOMAIN games : tcpJoin(t, s)
      PROVE  TypeOK'
  BY <1>3, TcpTypes
<1> QED BY <1>1, <1>2, <1>3 DEF Next

LEMMA Inboxes ==
    ASSUME TypeOK, NEW c \in Browsers
    PROVE  /\ inbox[c] \in Seq(Message) /\ Len(inbox[c]) \in Nat
           /\ DOMAIN inbox[c] = 1 .. Len(inbox[c])
           /\ \A i \in 1 .. Len(inbox[c]) : inbox[c][i] \in Message
<1>1. inbox[c] \in Seq(Message)
  BY DEF TypeOK
<1> QED BY <1>1, LenProperties, ElementOfSeq

(* A browser reads its first message.                                      *)
LEMMA ReadFacts ==
    ASSUME TypeOK, NEW c \in Browsers, updateFromServer(c),
           NEW m, m = inbox[c][1]
    PROVE  /\ m \in Message /\ 1 \in DOMAIN inbox[c] /\ Len(inbox[c]) \in Nat \ {0}
           /\ Len(inbox'[c]) = Len(inbox[c]) - 1
           /\ DOMAIN inbox'[c] = 1 .. Len(inbox[c]) - 1
           /\ \A i \in 1 .. Len(inbox[c]) - 1 : inbox'[c][i] = inbox[c][i + 1]
           /\ client'[c].board = IF IsBoard(m) THEN Shown(m) ELSE client[c].board
           /\ client'[c].currentPlayer = IF IsBoard(m) THEN m.turn
                                         ELSE IF m.type = "game_created" THEN Nobody
                                         ELSE client[c].currentPlayer
           /\ client'[c].gameStatus = IF m.type = "game_created" THEN "waiting"
                                      ELSE IF m.type = "game_joined" THEN "playing"
                                      ELSE IF m.type = "wins" THEN "finished"
                                      ELSE client[c].gameStatus
           /\ \A d \in Browsers \ {c} : inbox'[d] = inbox[d] /\ client'[d] = client[d]
           /\ UNCHANGED <<games, wsThread, tcp, link, requests, requested>>
<1>1. inbox[c] \in Seq(Message) /\ inbox[c] # <<>> /\ client[c] \in Client
  BY DEF TypeOK, updateFromServer
<1>2. Head(inbox[c]) = m /\ m \in Message /\ Tail(inbox[c]) \in Seq(Message)
      /\ Len(inbox[c]) \in Nat \ {0} /\ 1 \in DOMAIN inbox[c]
      /\ Len(Tail(inbox[c])) = Len(inbox[c]) - 1
      /\ \A i \in 1 .. Len(inbox[c]) - 1 : Tail(inbox[c])[i] = inbox[c][i + 1]
  BY <1>1, HeadTailProperties, LenProperties, EmptySeq, ElementOfSeq
<1>3. /\ inbox'[c] = Tail(inbox[c]) /\ client'[c] = Updated(client[c], c, m)
      /\ \A d \in Browsers \ {c} : inbox'[d] = inbox[d] /\ client'[d] = client[d]
      /\ UNCHANGED <<games, wsThread, tcp, link, requests, requested>>
  BY <1>2 DEF updateFromServer, TypeOK
<1>4. DOMAIN Tail(inbox[c]) = 1 .. Len(inbox[c]) - 1
  BY <1>2, LenProperties
<1>5. ASSUME NEW state \in Client
      PROVE  /\ Viewed(state).board = state.board
             /\ Viewed(state).currentPlayer = state.currentPlayer
             /\ Viewed(state).gameStatus = state.gameStatus
  BY DEF Viewed, Client
<1>6. /\ [client[c] EXCEPT !.player = c] \in Client
      /\ [client[c] EXCEPT !.gameStatus = "waiting", !.currentPlayer = Nobody,
                           !.gameId = m.game] \in Client
  BY <1>1, <1>2 DEF Client, Message
<1>7. m.type \in {"login_success", "invalid", "error", "game_created", "game_joined",
                  "MoveResult", "wins", "garbled"}
  BY <1>2 DEF Message
<1> DEFINE new == Updated(client[c], c, m)
<1>8. /\ new.board = IF IsBoard(m) THEN Shown(m) ELSE client[c].board
      /\ new.currentPlayer = IF IsBoard(m) THEN m.turn
                             ELSE IF m.type = "game_created" THEN Nobody
                             ELSE client[c].currentPlayer
      /\ new.gameStatus = IF m.type = "game_created" THEN "waiting"
                          ELSE IF m.type = "game_joined" THEN "playing"
                          ELSE IF m.type = "wins" THEN "finished"
                          ELSE client[c].gameStatus
  <2>1. CASE m.type = "login_success"
    <3>1. new = Viewed([client[c] EXCEPT !.player = c])
      BY <2>1 DEF Updated
    <3> QED BY <1>1, <1>5, <1>6, <2>1, <3>1 DEF IsBoard, Client
  <2>2. CASE m.type = "game_created"
    <3>1. new = Viewed([client[c] EXCEPT !.gameStatus = "waiting", !.currentPlayer = Nobody,
                                         !.gameId = m.game])
      BY <2>2 DEF Updated
    <3> DEFINE state == [client[c] EXCEPT !.gameStatus = "waiting",
                             !.currentPlayer = Nobody, !.gameId = m.game]
    <3>2. state.board = client[c].board /\ state.currentPlayer = Nobody
          /\ state.gameStatus = "waiting"
      BY <1>1 DEF Client
    <3>3. new.board = state.board /\ new.currentPlayer = state.currentPlayer
          /\ new.gameStatus = state.gameStatus
      BY <1>5, <1>6, <3>1
    <3> HIDE DEF state, new
    <3> QED BY <2>2, <3>2, <3>3 DEF IsBoard
  <2>3. CASE IsBoard(m)
    BY <1>1, <2>3 DEF IsBoard, Updated, Client
  <2>4. CASE m.type \notin {"login_success", "game_created", "game_joined", "MoveResult"}
    BY <1>1, <1>7, <2>4 DEF IsBoard, Updated, Client
  <2> QED BY <2>1, <2>2, <2>3, <2>4 DEF IsBoard
<1>9. client'[c] = new
  BY <1>3
<1> HIDE DEF new
<1>10. /\ Len(inbox'[c]) = Len(inbox[c]) - 1 /\ DOMAIN inbox'[c] = 1 .. Len(inbox[c]) - 1
       /\ \A i \in 1 .. Len(inbox[c]) - 1 : inbox'[c][i] = inbox[c][i + 1]
  BY <1>2, <1>3, <1>4
<1> QED BY <1>2, <1>3, <1>8, <1>9, <1>10

(* What a step does to one inbox.                                          *)
LEMMA InboxOf ==
    ASSUME TypeOK, Bounded, Handlers, Unshared, AtWork, Next, NEW d \in Browsers
    PROVE  \/ updateFromServer(d)
           \/ connectionLost(d) /\ inbox'[d] = <<>>
           \/ inbox'[d] = inbox[d]
           \/ \E m \in Message : Arrives(d, m) /\ Fresh(games', m)
<1>1. CASE Sends
  <2>1. PICK handles : \E m \in Message : SendTo(handles, m) /\ Fresh(games', m)
    BY <1>1 DEF Sends
  <2>2. PICK m \in Message : SendTo(handles, m) /\ Fresh(games', m)
    BY <2>1
  <2>3. inbox'[d] = inbox[d] \/ Arrives(d, m)
    BY <2>2, SendFacts
  <2> QED BY <2>2, <2>3
<1>2. ASSUME NEW c \in Browsers, connectionLost(c)
      PROVE  inbox'[d] = inbox[d] \/ (c = d /\ inbox'[d] = <<>>)
  BY <1>2 DEF connectionLost, TypeOK
<1>3. ASSUME NEW c \in Browsers, updateFromServer(c)
      PROVE  inbox'[d] = inbox[d] \/ c = d
  BY <1>3 DEF updateFromServer
<1> QED BY <1>1, <1>2, <1>3, InboxSteps

LEMMA BoardsFitStep ==
    ASSUME TypeOK, Bounded, Handlers, Unshared, AtWork, BoardsFit, Next
    PROVE  BoardsFit'
<1>0. TypeOK'
  BY TypeStep
<1>1. ASSUME NEW d \in Browsers
      PROVE  Fits(games', client'[d].board.game, client'[d].board.version,
                  client'[d].currentPlayer)
  <2>1. Fits(games', client[d].board.game, client[d].board.version, client[d].currentPlayer)
    <3>1. client[d].board.version \in Version
      BY DEF TypeOK, Client
    <3> QED BY <3>1, FitsStay DEF BoardsFit
  <2>2. CASE ~updateFromServer(d)
    BY <2>1, <2>2, ShownSteps
  <2>3. CASE updateFromServer(d)
    <3> DEFINE m == inbox[d][1]
    <3>1. /\ m \in Message /\ 1 \in DOMAIN inbox[d] /\ UNCHANGED games
          /\ client'[d].board = IF IsBoard(m) THEN Shown(m) ELSE client[d].board
          /\ client'[d].currentPlayer = IF IsBoard(m) THEN m.turn
                                        ELSE IF m.type = "game_created" THEN Nobody
                                        ELSE client[d].currentPlayer
      BY <2>3, ReadFacts
    <3>2. IsBoard(m) => Fits(games, m.game, m.version, m.turn)
      BY <3>1 DEF BoardsFit
    <3>3. Shown(m).game = m.game /\ Shown(m).version = m.version
      BY DEF Shown
    <3> HIDE DEF m
    <3>4. CASE IsBoard(m)
      BY <3>1, <3>2, <3>3, <3>4
    <3>5. CASE ~IsBoard(m)
      BY <2>1, <3>1, <3>5 DEF Fits
    <3> QED BY <3>4, <3>5
  <2> QED BY <2>2, <2>3
<1>2. ASSUME NEW d \in Browsers, NEW i \in DOMAIN inbox'[d], IsBoard(inbox'[d][i])
      PROVE  Fits(games', inbox'[d][i].game, inbox'[d][i].version, inbox'[d][i].turn)
  <2>0. Len(inbox[d]) \in Nat /\ DOMAIN inbox[d] = 1 .. Len(inbox[d])
        /\ Len(inbox'[d]) \in Nat /\ DOMAIN inbox'[d] = 1 .. Len(inbox'[d])
    BY <1>0, Inboxes, LenProperties DEF TypeOK
  <2>1. ASSUME NEW j \in DOMAIN inbox[d], IsBoard(inbox[d][j])
        PROVE  Fits(games', inbox[d][j].game, inbox[d][j].version, inbox[d][j].turn)
    <3>1. inbox[d][j].version \in Version
      BY <2>0, Inboxes DEF Message
    <3> QED BY <2>1, <3>1, FitsStay DEF BoardsFit
  <2>2. CASE updateFromServer(d)
    <3>1. /\ Len(inbox'[d]) = Len(inbox[d]) - 1
          /\ \A k \in 1 .. Len(inbox[d]) - 1 : inbox'[d][k] = inbox[d][k + 1]
      BY <2>2, ReadFacts
    <3>2. i \in 1 .. Len(inbox[d]) - 1 /\ i + 1 \in DOMAIN inbox[d]
      BY <1>2, <2>0, <3>1
    <3> QED BY <1>2, <2>1, <3>1, <3>2
  <2>3. ASSUME NEW m \in Message, Arrives(d, m), Fresh(games', m)
        PROVE  Fits(games', inbox'[d][i].game, inbox'[d][i].version, inbox'[d][i].turn)
    BY SMTT(30), <1>2, <2>0, <2>1, <2>3 DEF Arrives, Fresh
  <2>4. CASE inbox'[d] = <<>> \/ inbox'[d] = inbox[d]
    BY <1>2, <2>0, <2>1, <2>4
  <2> QED BY <2>2, <2>3, <2>4, InboxOf
<1> QED BY <1>1, <1>2 DEF BoardsFit

LEMMA BoardsOrderedStep ==
    ASSUME TypeOK, Bounded, Handlers, Unshared, AtWork, BoardsFit, BoardsOrdered, Next
    PROVE  BoardsOrdered'
<1>0. TypeOK' /\ BoardsFit'
  BY TypeStep, BoardsFitStep
<1> SUFFICES ASSUME NEW d \in Browsers, NEW j \in DOMAIN inbox'[d], IsBoard(inbox'[d][j])
             PROVE  /\ Before(client'[d].board, inbox'[d][j])
                    /\ \A i \in 1 .. j : IsBoard(inbox'[d][i]) =>
                            Before(inbox'[d][i], inbox'[d][j])
  BY DEF BoardsOrdered
<1>1. Len(inbox[d]) \in Nat /\ DOMAIN inbox[d] = 1 .. Len(inbox[d])
      /\ Len(inbox'[d]) \in Nat /\ DOMAIN inbox'[d] = 1 .. Len(inbox'[d])
  BY <1>0, Inboxes, LenProperties DEF TypeOK
<1>2. CASE updateFromServer(d)
  <2> DEFINE m == inbox[d][1]
  <2>1. /\ 1 \in DOMAIN inbox[d] /\ Len(inbox'[d]) = Len(inbox[d]) - 1
        /\ \A k \in 1 .. Len(inbox[d]) - 1 : inbox'[d][k] = inbox[d][k + 1]
        /\ client'[d].board = IF IsBoard(m) THEN Shown(m) ELSE client[d].board
    BY <1>2, ReadFacts
  <2>2. /\ j + 1 \in DOMAIN inbox[d] /\ inbox'[d][j] = inbox[d][j + 1]
        /\ 1 \in 1 .. j + 1
        /\ \A i \in 1 .. j : i + 1 \in 1 .. j + 1 /\ inbox'[d][i] = inbox[d][i + 1]
    BY <1>1, <2>1
  <2>3. /\ Before(client[d].board, inbox[d][j + 1])
        /\ \A i \in 1 .. j + 1 : IsBoard(inbox[d][i]) => Before(inbox[d][i], inbox[d][j + 1])
    BY <2>2 DEF BoardsOrdered
  <2>4. Before(client'[d].board, inbox[d][j + 1])
    <3>1. Shown(m).game = m.game /\ Shown(m).version = m.version
      BY DEF Shown
    <3>2. IsBoard(m) => Before(m, inbox[d][j + 1])
      BY <2>2, <2>3
    <3> HIDE DEF m
    <3> QED BY <2>1, <2>3, <3>1, <3>2 DEF Before
  <2> QED BY <2>2, <2>3, <2>4
<1>3. CASE ~updateFromServer(d) /\ inbox'[d] = inbox[d]
  <2>1. client'[d].board = client[d].board
    BY <1>3, ShownSteps
  <2> QED BY <1>3, <2>1 DEF BoardsOrdered
<1>4. CASE inbox'[d] = <<>>
  BY <1>4
<1>5. ASSUME ~updateFromServer(d), NEW m \in Message, Arrives(d, m), Fresh(games', m)
      PROVE  /\ Before(client'[d].board, inbox'[d][j])
             /\ \A i \in 1 .. j : IsBoard(inbox'[d][i]) => Before(inbox'[d][i], inbox'[d][j])
  <2>1. client'[d].board = client[d].board
    BY <1>5, ShownSteps
  <2>2. CASE j = Len(inbox[d]) + 1
    <3>1. inbox'[d][j] = m /\ (m.version >= 0 => m.version = games'[m.game].version)
      BY <1>5, <2>2 DEF Arrives, Fresh
    <3>2. Fits(games', client'[d].board.game, client'[d].board.version, client'[d].currentPlayer)
      BY <1>0 DEF BoardsFit
    <3>3. \A i \in 1 .. j : IsBoard(inbox'[d][i]) =>
              Fits(games', inbox'[d][i].game, inbox'[d][i].version, inbox'[d][i].turn)
      BY <1>0, <1>1 DEF BoardsFit
    <3>4. ASSUME NEW old, NEW turn, Fits(games', old.game, old.version, turn)
          PROVE  Before(old, m)
      BY <3>1, <3>4 DEF Fits, Before, Blank
    <3> QED BY <3>1, <3>2, <3>3, <3>4
  <2>3. CASE j # Len(inbox[d]) + 1
    <3>1. j \in DOMAIN inbox[d] /\ inbox'[d][j] = inbox[d][j]
          /\ \A i \in 1 .. j : inbox'[d][i] = inbox[d][i]
      BY <1>1, <1>5, <2>3 DEF Arrives
    <3> QED BY <2>1, <3>1 DEF BoardsOrdered
  <2> QED BY <2>2, <2>3
<1> QED BY <1>2, <1>3, <1>4, <1>5, InboxOf

-----------------------------------------------------------------------------
(* What a browser with one session will show when all is read.             *)

(* A browser that follows s is in no other session.                        *)
LEMMA OnlyIn ==
    ASSUME TypeOK, Registered, NEW c \in Browsers, NEW s \in DOMAIN games, Follows(c, s),
           NEW r \in DOMAIN games, r # s
    PROVE  /\ c \notin {games[r].player1, games[r].player2}
           /\ \A h \in games[r].wsConnections : h # Current(c)
           /\ c \in {games[s].player1, games[s].player2}
<1>1. r \notin Plays(c) /\ s \in Plays(c)
  BY DEF Follows
<1>2. c \notin {games[r].player1, games[r].player2}
      /\ c \in {games[s].player1, games[s].player2}
  BY <1>1 DEF Plays
<1>3. Current(c)[1] = c
  BY DEF Current
<1> QED BY <1>2, <1>3 DEF Registered

(* A second player that is none of TCP comes by JOIN.                      *)
LEMMA NewPlayer ==
    ASSUME TypeOK, Bounded, Handlers, Unshared, AtWork, Next, NEW s \in DOMAIN games,
           games'[s].player2 # games[s].player2, games'[s].player2 \notin TcpPlayers
    PROVE  \E d \in Browsers : JOIN(d) /\ MayEnter(d) /\ s = Joining(d)
<1>1. ASSUME NEW r, NEW game, OneGame(r, game), game.player2 = games[r].player2
      PROVE  FALSE
  BY <1>1 DEF OneGame
<1>2. CASE Elsewhere
  BY <1>2, ElsewhereFacts
<1>3. ASSUME NEW c \in Browsers, CREATE(c), link[c].user # Nobody
      PROVE  FALSE
  BY <1>3, CreateFacts
<1>4. ASSUME NEW c \in Browsers, JOIN(c), MayEnter(c)
      PROVE  s = Joining(c)
  <2>1. OneGame(Joining(c), JoinedGame(c))
    BY <1>4, JoinFacts, OneGameFacts
  <2> QED BY <2>1 DEF OneGame
<1>5. CASE addWebSocketHandle
  <2>1. OneGame(wsThread.game, HandledGame)
        /\ Seats(HandledGame) = Seats(games[wsThread.game])
    BY <1>5, HandleFacts, OneGameFacts
  <2>2. HandledGame.player2 = games[wsThread.game].player2
    BY <2>1 DEF Seats
  <2> QED BY <1>1, <2>1, <2>2
<1>6. CASE makeMove
  <2>1. wsThread.game \in DOMAIN games
        /\ \E game \in Game : /\ games' = [games EXCEPT ![wsThread.game] = game]
                              /\ Seats(game) = Seats(games[wsThread.game])
    BY <1>6, MoveFacts
  <2> QED BY <1>1, <2>1, OneGameFacts DEF Seats
<1>7. ASSUME NEW t \in TcpPlayers, broadcastGameState(t)
      PROVE  FALSE
  BY <1>7 DEF broadcastGameState
<1>8. ASSUME NEW t \in TcpPlayers, tcpMove(t) \/ tcpApplied(t) \/ tcpMoved(t)
      PROVE  FALSE
  <2>1. tcp[t].game \in DOMAIN games
        /\ \E game \in Game : /\ games' = [games EXCEPT ![tcp[t].game] = game]
                              /\ Seats(game) = Seats(games[tcp[t].game])
    BY <1>8, TcpMoveFacts
  <2> QED BY <1>1, <2>1, OneGameFacts DEF Seats
<1>9. ASSUME NEW t \in TcpPlayers, NEW r \in DOMAIN games, tcpJoin(t, r)
      PROVE  FALSE
  <2>1. OneGame(r, TcpJoinedGame(t, r)) /\ TcpJoinedGame(t, r).player2 = t
    BY <1>9, TcpJoinFacts, OneGameFacts
  <2> QED BY <2>1 DEF OneGame
<1> QED BY <1>2, <1>3, <1>4, <1>5, <1>6, <1>7, <1>8, <1>9, NextCases DEF AtGames

(* Who follows a session after a step has followed it, or it is joined.    *)
LEMMA FollowsBack ==
    ASSUME TypeOK, Bounded, Handlers, Unshared, Registered, AtWork, Next,
           NEW c \in Browsers, NEW s \in DOMAIN games', Follows(c, s)'
    PROVE  /\ s \in DOMAIN games
           /\ \/ Follows(c, s) /\ link'[c].open /\ link[c].open
              \/ \E d \in Browsers : JOIN(d) /\ MayEnter(d) /\ s = Joining(d)
<1> SUFFICES ASSUME ~ \E d \in Browsers : JOIN(d) /\ MayEnter(d) /\ s = Joining(d)
             PROVE  s \in DOMAIN games /\ Follows(c, s) /\ link'[c].open /\ link[c].open
  BY JoinFacts
<1>1. /\ {games'[s].player1, games'[s].player2} \subseteq Browsers
      /\ Plays(c)' = {s} /\ Current(c)' \in games'[s].wsConnections /\ link'[c].open
  BY DEF Follows, BrowserGame
<1>2. /\ s \in DOMAIN games
      /\ \/ Current(c)' \in games[s].wsConnections
         \/ addWebSocketHandle /\ s = wsThread.game
  BY <1>1, ConnectionsGrow
<1>3. Grows(s) /\ \A r \in DOMAIN games : Grows(r)
  BY <1>2, GamesGrow
<1>4. games'[s].player2 = games[s].player2
  <2> SUFFICES ASSUME games'[s].player2 # games[s].player2
               PROVE  FALSE
    OBVIOUS
  <2>1. games[s].player2 = Nobody /\ games'[s].player2 \notin TcpPlayers
    BY <1>1, <1>3, ConstantsAssumption DEF Grows
  <2>2. \E d \in Browsers : JOIN(d) /\ MayEnter(d) /\ s = Joining(d)
    BY <1>2, <2>1, NewPlayer
  <2> QED BY <2>2
<1>5. ~addWebSocketHandle \/ s # wsThread.game
  BY <1>1, <1>4 DEF AtWork, addWebSocketHandle
<1>6. Current(c)' \in games[s].wsConnections
  BY <1>2, <1>5
<1>7. link[c].open /\ Current(c)' = Current(c)
  <2>1. Current(c)'[1] = c /\ Current(c)'[2] = link'[c].number
    BY DEF Current
  <2>2. link'[c].number <= link[c].number /\ link[c].number \in Nat
    BY <1>2, <1>6, <2>1, LinksGrow DEF Registered
  <2>3. ~reconnect(c)
    <3>1. reconnect(c) => link'[c].number = link[c].number + 1
      BY Elements DEF reconnect, Link
    <3> QED BY <2>2, <3>1
  <2> QED BY <1>1, <2>3, LinksGrow DEF Current
<1>8. Plays(c) = {s}
  <2>1. s \in Plays(c)
    <3>1. c \in {games'[s].player1, games'[s].player2}
      BY <1>1 DEF Plays
    <3> QED BY <1>2, <1>3, <1>4, <3>1 DEF Plays, Grows
  <2>2. \A r \in Plays(c) : r \in Plays(c)'
    <3> SUFFICES ASSUME NEW r \in DOMAIN games, c \in {games[r].player1, games[r].player2}
                 PROVE  r \in DOMAIN games' /\ c \in {games'[r].player1, games'[r].player2}
      BY DEF Plays
    <3> QED BY <1>3, ConstantsAssumption DEF Grows
  <2> QED BY <1>1, <2>1, <2>2
<1> QED BY <1>1, <1>2, <1>3, <1>4, <1>6, <1>7, <1>8 DEF Follows, BrowserGame, Grows

(* Session s is for browser c as it was; whether black has won may be left *)
(* open.                                                                   *)
SameBoard(c, s) ==
    /\ games'[s].version = games[s].version /\ games'[s].player1 = games[s].player1
    /\ games'[s].player2 = games[s].player2
    /\ games'[s].isPlayer1Turn = games[s].isPlayer1Turn
    /\ client'[c].board = client[c].board
    /\ client'[c].currentPlayer = client[c].currentPlayer

SameStatus(c, s) ==
    /\ (games'[s].over = "black") = (games[s].over = "black")
    /\ client'[c].gameStatus = client[c].gameStatus

(* Nothing has come to c but what is none of these.                        *)
Nothing(c, types) ==
    inbox'[c] = inbox[c] \/ \E m \in Message : Arrives(c, m) /\ m.type \notin types

BoardTypes == {"game_created", "game_joined", "MoveResult"}
StatusTypes == {"game_created", "game_joined", "wins"}

LEMMA Longer ==
    ASSUME TypeOK, NEW c \in Browsers, NEW types, Nothing(c, types),
           NEW k \in 0 .. Len(inbox[c]),
           \A j \in k + 1 .. Len(inbox[c]) : inbox[c][j].type \notin types
    PROVE  /\ k \in 0 .. Len(inbox'[c])
           /\ \A j \in k + 1 .. Len(inbox'[c]) : inbox'[c][j].type \notin types
           /\ k # 0 => inbox'[c][k] = inbox[c][k]
<1>1. Len(inbox[c]) \in Nat
  BY Inboxes
<1>2. CASE inbox'[c] = inbox[c]
  BY <1>2
<1>3. ASSUME NEW m \in Message, Arrives(c, m), m.type \notin types
      PROVE  /\ k \in 0 .. Len(inbox'[c])
             /\ \A j \in k + 1 .. Len(inbox'[c]) : inbox'[c][j].type \notin types
             /\ k # 0 => inbox'[c][k] = inbox[c][k]
  BY SMTT(30), <1>1, <1>3 DEF Arrives
<1> QED BY <1>2, <1>3 DEF Nothing

LEMMA BoardKept ==
    ASSUME TypeOK, NEW c \in Browsers, NEW s, SameBoard(c, s), Nothing(c, BoardTypes),
           \E k \in 0 .. Len(inbox[c]) : BoardSettled(c, s, k)
    PROVE  \E k \in 0 .. Len(inbox'[c]) : BoardSettled(c, s, k)'
<1>1. PICK k \in 0 .. Len(inbox[c]) : BoardSettled(c, s, k)
  OBVIOUS
<1>2. \A j \in k + 1 .. Len(inbox[c]) : inbox[c][j].type \notin BoardTypes
  BY <1>1 DEF BoardSettled, BoardTypes
<1>3. /\ k \in 0 .. Len(inbox'[c])
      /\ \A j \in k + 1 .. Len(inbox'[c]) : inbox'[c][j].type \notin BoardTypes
      /\ k # 0 => inbox'[c][k] = inbox[c][k]
  BY <1>2, Longer
<1>4. BoardSettled(c, s, k)'
  BY <1>1, <1>3 DEF BoardSettled, BoardTypes, SameBoard, Mover
<1> QED BY <1>3, <1>4

LEMMA StatusKept ==
    ASSUME TypeOK, NEW c \in Browsers, NEW s, SameStatus(c, s), Nothing(c, StatusTypes),
           \E k \in 0 .. Len(inbox[c]) : StatusSettled(c, s, k)
    PROVE  \E k \in 0 .. Len(inbox'[c]) : StatusSettled(c, s, k)'
<1>1. PICK k \in 0 .. Len(inbox[c]) : StatusSettled(c, s, k)
  OBVIOUS
<1>2. \A j \in k + 1 .. Len(inbox[c]) : inbox[c][j].type \notin StatusTypes
  BY <1>1 DEF StatusSettled, StatusTypes
<1>3. /\ k \in 0 .. Len(inbox'[c])
      /\ \A j \in k + 1 .. Len(inbox'[c]) : inbox'[c][j].type \notin StatusTypes
      /\ k # 0 => inbox'[c][k] = inbox[c][k]
  BY <1>2, Longer
<1>4. StatusSettled(c, s, k)'
  BY <1>1, <1>3 DEF StatusSettled, StatusTypes, SameStatus
<1> QED BY <1>3, <1>4

(* A message that has come last settles it.                                *)
LEMMA BoardCame ==
    ASSUME TypeOK, NEW c \in Browsers, NEW s, NEW m \in Message, Arrives(c, m), IsBoard(m),
           m.game = s, m.version = games'[s].version,
           m.turn = Mover(games'[s], games'[s].isPlayer1Turn)
    PROVE  \E k \in 0 .. Len(inbox'[c]) : BoardSettled(c, s, k)'
<1>1. PICK k \in Nat : k = Len(inbox[c]) + 1
  BY Inboxes
<1>2. k \in 0 .. Len(inbox'[c]) /\ k # 0 /\ inbox'[c][k] = m /\ Len(inbox'[c]) = k
  BY <1>1, Inboxes DEF Arrives
<1>3. k + 1 .. Len(inbox'[c]) = {}
  BY <1>2
<1>4. BoardSettled(c, s, k)'
  BY <1>2, <1>3 DEF BoardSettled
<1> QED BY <1>2, <1>4

LEMMA StatusCame ==
    ASSUME TypeOK, NEW c \in Browsers, NEW s, NEW m \in Message, Arrives(c, m),
           m.type = IF games'[s].over = "black" THEN "wins" ELSE "game_joined"
    PROVE  \E k \in 0 .. Len(inbox'[c]) : StatusSettled(c, s, k)'
<1>1. PICK k \in Nat : k = Len(inbox[c]) + 1
  BY Inboxes
<1>2. k \in 0 .. Len(inbox'[c]) /\ k # 0 /\ inbox'[c][k] = m /\ Len(inbox'[c]) = k
  BY <1>1, Inboxes DEF Arrives
<1>3. k + 1 .. Len(inbox'[c]) = {}
  BY <1>2
<1>4. StatusSettled(c, s, k)'
  BY <1>2, <1>3 DEF StatusSettled
<1> QED BY <1>2, <1>4

(* The first message is read.                                              *)
LEMMA ReadSettled ==
    ASSUME TypeOK, NEW c \in Browsers, updateFromServer(c), NEW s, SettledFor(c, s)
    PROVE  SettledFor(c, s)'
<1> DEFINE m == inbox[c][1]
<1>1. /\ 1 \in DOMAIN inbox[c] /\ Len(inbox[c]) \in Nat \ {0}
      /\ Len(inbox'[c]) = Len(inbox[c]) - 1
      /\ \A i \in 1 .. Len(inbox[c]) - 1 : inbox'[c][i] = inbox[c][i + 1]
      /\ client'[c].board = IF IsBoard(m) THEN Shown(m) ELSE client[c].board
      /\ client'[c].currentPlayer = IF IsBoard(m) THEN m.turn
                                    ELSE IF m.type = "game_created" THEN Nobody
                                    ELSE client[c].currentPlayer
      /\ client'[c].gameStatus = IF m.type = "game_created" THEN "waiting"
                                 ELSE IF m.type = "game_joined" THEN "playing"
                                 ELSE IF m.type = "wins" THEN "finished"
                                 ELSE client[c].gameStatus
      /\ UNCHANGED <<games, wsThread>>
  BY ReadFacts
<1>2. ASSUME NEW k \in 0 .. Len(inbox[c])
      PROVE  LET l == IF k = 0 THEN 0 ELSE k - 1
             IN  /\ l \in 0 .. Len(inbox'[c])
                 /\ \A j \in l + 1 .. Len(inbox'[c]) :
                        j + 1 \in k + 1 .. Len(inbox[c]) /\ inbox'[c][j] = inbox[c][j + 1]
                 /\ l # 0 => inbox'[c][l] = inbox[c][k]
                 /\ k = 0 => 1 \in k + 1 .. Len(inbox[c])
                 /\ l = 0 => k \in {0, 1}
  <2>1. Len(inbox[c]) \in Nat
    BY Inboxes
  <2>2. CASE k = 0
    BY <1>1, <2>1, <2>2
  <2>3. CASE k # 0
    BY <1>1, <2>1, <2>3
  <2> QED BY <2>2, <2>3
<1>3. ASSUME NEW k \in 0 .. Len(inbox[c]), BoardSettled(c, s, k)
      PROVE  \E l \in 0 .. Len(inbox'[c]) : BoardSettled(c, s, l)'
  <2> DEFINE l == IF k = 0 THEN 0 ELSE k - 1
  <2>1. /\ l \in 0 .. Len(inbox'[c])
        /\ \A j \in l + 1 .. Len(inbox'[c]) :
                j + 1 \in k + 1 .. Len(inbox[c]) /\ inbox'[c][j] = inbox[c][j + 1]
        /\ l # 0 => inbox'[c][l] = inbox[c][k] /\ k # 0
        /\ k = 0 => 1 \in k + 1 .. Len(inbox[c])
        /\ l = 0 => k \in {0, 1}
    BY <1>2
  <2> HIDE DEF l, m
  <2>2. \A j \in l + 1 .. Len(inbox'[c]) : inbox'[c][j].type \notin BoardTypes
    BY <1>3, <2>1 DEF BoardSettled, BoardTypes
  <2>3. CASE k = 0
    <3>1. m.type \notin BoardTypes /\ l = 0
      BY <1>3, <2>1, <2>3 DEF BoardSettled, BoardTypes, m, l
    <3>2. /\ client'[c].board = client[c].board
          /\ client'[c].currentPlayer = client[c].currentPlayer
      BY <1>1, <3>1 DEF IsBoard, BoardTypes
    <3>3. BoardSettled(c, s, l)'
      BY <1>1, <1>3, <2>2, <2>3, <3>1, <3>2 DEF BoardSettled, BoardTypes
    <3> QED BY <2>1, <3>3
  <2>4. CASE k = 1
    <3>1. IsBoard(m) /\ m.game = s /\ m.version = games[s].version
          /\ m.turn = Mover(games[s], games[s].isPlayer1Turn) /\ l = 0
      BY <1>3, <2>4 DEF BoardSettled, m, l
    <3>2. Shown(m) = [game |-> s, version |-> games[s].version]
      BY <3>1 DEF Shown
    <3>3. BoardSettled(c, s, l)'
      BY <1>1, <2>2, <3>1, <3>2 DEF BoardSettled, BoardTypes
    <3> QED BY <2>1, <3>3
  <2>5. CASE l # 0
    <3>1. BoardSettled(c, s, l)'
      BY <1>1, <1>3, <2>1, <2>2, <2>5 DEF BoardSettled, BoardTypes
    <3> QED BY <2>1, <3>1
  <2> QED BY <2>1, <2>3, <2>4, <2>5
<1>4. ASSUME NEW k \in 0 .. Len(inbox[c]), StatusSettled(c, s, k)
      PROVE  \E l \in 0 .. Len(inbox'[c]) : StatusSettled(c, s, l)'
  <2> DEFINE l == IF k = 0 THEN 0 ELSE k - 1
  <2>1. /\ l \in 0 .. Len(inbox'[c])
        /\ \A j \in l + 1 .. Len(inbox'[c]) :
                j + 1 \in k + 1 .. Len(inbox[c]) /\ inbox'[c][j] = inbox[c][j + 1]
        /\ l # 0 => inbox'[c][l] = inbox[c][k] /\ k # 0
        /\ k = 0 => 1 \in k + 1 .. Len(inbox[c])
        /\ l = 0 => k \in {0, 1}
    BY <1>2
  <2> HIDE DEF l, m
  <2>2. \A j \in l + 1 .. Len(inbox'[c]) : inbox'[c][j].type \notin StatusTypes
    BY <1>4, <2>1 DEF StatusSettled, StatusTypes
  <2>3. CASE k = 0
    <3>1. m.type \notin StatusTypes /\ l = 0
      BY <1>4, <2>1, <2>3 DEF StatusSettled, StatusTypes, m, l
    <3>2. client'[c].gameStatus = client[c].gameStatus
      BY <1>1, <3>1 DEF StatusTypes
    <3>3. StatusSettled(c, s, l)'
      BY <1>1, <1>4, <2>2, <2>3, <3>1, <3>2 DEF StatusSettled, StatusTypes
    <3> QED BY <2>1, <3>3
  <2>4. CASE k = 1
    <3>1. m.type = (IF games[s].over = "black" THEN "wins" ELSE "game_joined") /\ l = 0
      BY <1>4, <2>4 DEF StatusSettled, m, l
    <3>2. StatusSettled(c, s, l)'
      BY <1>1, <2>2, <3>1 DEF StatusSettled, StatusTypes
    <3> QED BY <2>1, <3>2
  <2>5. CASE l # 0
    <3>1. StatusSettled(c, s, l)'
      BY <1>1, <1>4, <2>1, <2>2, <2>5 DEF StatusSettled, StatusTypes
    <3> QED BY <2>1, <3>1
  <2> QED BY <2>1, <2>3, <2>4, <2>5
<1>5. Sending(s) => Sending(s)'
  BY <1>1 DEF Sending
<1> HIDE DEF m
<1> QED BY <1>3, <1>4, <1>5 DEF SettledFor

(* The second browser has come: its board is the last that any of the two  *)
(* is sent.                                                                *)
LEMMA JoinSettles ==
    ASSUME TypeOK, Unshared, NEW d \in Browsers, JOIN(d), MayEnter(d),
           NEW c \in Browsers, NEW s, s = Joining(d), Follows(c, s)'
    PROVE  SettledFor(c, s)'
<1> DEFINE m == JoinBoard(d)
<1>1. /\ OneGame(s, JoinedGame(d)) /\ m \in Message /\ UNCHANGED link
      /\ SendTo(JoinedGame(d).wsConnections, m)
      /\ games[s].player2 = Nobody /\ JoinedGame(d) \in Game
      /\ JoinedGame(d).applying = games[s].applying /\ JoinedGame(d).over = games[s].over
      /\ JoinedGame(d).player2 = d
  BY JoinFacts, OneGameFacts
<1>2. /\ games'[s] = JoinedGame(d) /\ s \in 0 .. MaxGames
      /\ ~JoinedGame(d).applying /\ JoinedGame(d).over # "black"
      /\ JoinedGame(d).isPlayer1Turn \in BOOLEAN
  BY <1>1, Elements, ConstantsAssumption DEF OneGame, Unshared, Game
<1>3. /\ {JoinedGame(d).player1, JoinedGame(d).player2} \subseteq Browsers
      /\ Current(c) \in JoinedGame(d).wsConnections /\ link[c].open
  BY <1>1, <1>2 DEF Follows, BrowserGame, Current
<1>4. {JoinedGame(d).player1, JoinedGame(d).player2} \cap LineEnders = {}
      /\ JoinedGame(d).player2 # Nobody
  BY <1>3, ConstantsAssumption
<1>5. /\ m.type = "game_joined" /\ m.game = s /\ m.version = JoinedGame(d).version
      /\ m.turn = Mover(JoinedGame(d), JoinedGame(d).isPlayer1Turn)
  BY <1>1, <1>2, <1>4, BoardJsonFacts DEF JoinBoard
<1>6. Arrives(c, m)
  BY <1>1, <1>3, SendFacts
<1> HIDE DEF m
<1>7. \E k \in 0 .. Len(inbox'[c]) : BoardSettled(c, s, k)'
  BY <1>1, <1>2, <1>5, <1>6, BoardCame DEF IsBoard
<1>8. \E k \in 0 .. Len(inbox'[c]) : StatusSettled(c, s, k)'
  BY <1>1, <1>2, <1>5, <1>6, StatusCame
<1> QED BY <1>7, <1>8 DEF SettledFor

(* A move of the WebSocket thread in the session that c follows: whether   *)
(* black has won is told at once, the board is to be sent.                 *)
LEMMA MoveSettles ==
    ASSUME TypeOK, Unshared, AtWork, makeMove,
           NEW c \in Browsers, NEW s, s = wsThread.game, Follows(c, s), SettledFor(c, s)
    PROVE  SettledFor(c, s)'
<1>1. /\ s \in DOMAIN games /\ games[s].over = "none"
      /\ wsThread' = [wsThread EXCEPT !.pc = "readTurn"] /\ UNCHANGED client
  BY MoveFacts
<1>2. PICK game \in Game : games' = [games EXCEPT ![s] = game] /\ Announce(s, game.over)
  BY MoveFacts
<1>3. games'[s] = game
  BY <1>1, <1>2
<1>4. Sending(s)'
  BY <1>1, Elements DEF Sending, WsState
<1>5. IF game.over = "black" THEN Arrives(c, Note("wins")) ELSE inbox'[c] = inbox[c]
  BY <1>1, <1>2, AnnounceFacts DEF Follows
<1>6. \E k \in 0 .. Len(inbox'[c]) : StatusSettled(c, s, k)'
  <2>1. CASE game.over = "black"
    BY <1>3, <1>5, <2>1, NoteType, StatusCame
  <2>2. CASE game.over # "black"
    <3>1. SameStatus(c, s) /\ Nothing(c, StatusTypes)
      BY <1>1, <1>3, <1>5, <2>2 DEF SameStatus, Nothing
    <3> QED BY <3>1, StatusKept DEF SettledFor
  <2> QED BY <2>1, <2>2
<1> QED BY <1>4, <1>6 DEF SettledFor

(* The board of the session that c follows is sent.                        *)
LEMMA ResultSettles ==
    ASSUME TypeOK, Unshared, AtWork, sendResult,
           NEW c \in Browsers, NEW s, s = wsThread.game, Follows(c, s), SettledFor(c, s)
    PROVE  SettledFor(c, s)'
<1> DEFINE m == BoardJson("MoveResult", s, games[s], wsThread.turn)
<1>1. /\ s \in DOMAIN games /\ m \in Message /\ SendTo(games[s].wsConnections, m)
      /\ wsThread.turn \in BOOLEAN /\ UNCHANGED <<games, client>>
  BY SendResultFacts
<1>2. {games[s].player1, games[s].player2} \subseteq Browsers
  BY DEF Follows, BrowserGame
<1>3. /\ {games[s].player1, games[s].player2} \cap LineEnders = {}
      /\ games[s].player2 # Nobody /\ games[s].player2 \notin TcpPlayers
  BY <1>2, ConstantsAssumption
<1>4. ~games[s].applying /\ wsThread.turn = games[s].isPlayer1Turn
      /\ games[s] \in Game /\ s \in 0 .. MaxGames
  BY <1>1, <1>3, Elements DEF Unshared, AtWork, sendResult
<1>5. /\ m.type = "MoveResult" /\ m.game = s /\ m.version = games[s].version
      /\ m.turn = Mover(games[s], games[s].isPlayer1Turn)
  BY <1>1, <1>3, <1>4, BoardJsonFacts
<1>6. Arrives(c, m)
  BY <1>1, SendFacts DEF Follows
<1> HIDE DEF m
<1>7. \E k \in 0 .. Len(inbox'[c]) : BoardSettled(c, s, k)'
  BY <1>1, <1>5, <1>6, BoardCame DEF IsBoard
<1>8. \E k \in 0 .. Len(inbox'[c]) : StatusSettled(c, s, k)'
  <2>1. SameStatus(c, s) /\ Nothing(c, StatusTypes)
    BY <1>1, <1>5, <1>6 DEF SameStatus, Nothing, StatusTypes
  <2> QED BY <2>1, StatusKept DEF SettledFor
<1> QED BY <1>7, <1>8 DEF SettledFor

(* A step that leaves session s alone, and sends c nothing about a game.   *)
LEMMA QuietSettles ==
    ASSUME TypeOK, Next, NEW c \in Browsers, ~updateFromServer(c), NEW s, SettledFor(c, s),
           games'[s] = games[s], Sending(s) => Sending(s)',
           Nothing(c, BoardTypes \cup StatusTypes)
    PROVE  SettledFor(c, s)'
<1>1. SameBoard(c, s) /\ SameStatus(c, s)
  BY ShownSteps DEF SameBoard, SameStatus
<1>2. Nothing(c, BoardTypes) /\ Nothing(c, StatusTypes)
  BY DEF Nothing
<1> QED BY <1>1, <1>2, BoardKept, StatusKept DEF SettledFor

LEMMA SettledStep ==
    ASSUME TypeOK, Bounded, Handlers, Unshared, Registered, AtWork, Settled, Next
    PROVE  Settled'
<1> SUFFICES ASSUME NEW c \in Browsers, NEW s \in DOMAIN games', Follows(c, s)'
             PROVE  SettledFor(c, s)'
  BY DEF Settled
<1>1. /\ s \in DOMAIN games
      /\ \/ Follows(c, s) /\ link'[c].open /\ link[c].open
         \/ \E d \in Browsers : JOIN(d) /\ MayEnter(d) /\ s = Joining(d)
  BY FollowsBack
<1> SUFFICES ASSUME Follows(c, s), link'[c].open, link[c].open, ~updateFromServer(c),
                    ~ \E d \in Browsers : JOIN(d) /\ MayEnter(d) /\ s = Joining(d)
             PROVE  SettledFor(c, s)'
  BY <1>1, JoinSettles, ReadSettled DEF Settled
<1>2. SettledFor(c, s)
  BY <1>1 DEF Settled
<1>3. ASSUME games'[s] = games[s], Sending(s) => Sending(s)',
             \/ inbox'[c] = inbox[c]
             \/ \E type \in {"login_success", "invalid", "error"} : Arrives(c, Note(type))
      PROVE  SettledFor(c, s)'
  <2>1. Nothing(c, BoardTypes \cup StatusTypes)
    BY <1>3, NoteType DEF Nothing, BoardTypes, StatusTypes
  <2> QED BY <1>2, <1>3, <2>1, QuietSettles
<1>4. ASSUME NEW handles, NEW m \in Message, SendTo(handles, m), Current(c) \notin handles
      PROVE  inbox'[c] = inbox[c]
  BY <1>4, SendFacts
<1>5. ASSUME NEW handles, NEW type \in {"login_success", "invalid", "error"},
             SendTo(handles, Note(type))
      PROVE  inbox'[c] = inbox[c] \/ Arrives(c, Note(type))
  BY <1>5, NoteType, SendFacts
<1>6. ASSUME NEW d \in Browsers, User(d) \/ updateFromServer(d) \/ connectionLost(d) \/ reconnect(d)
      PROVE  SettledFor(c, s)'
  <2>1. UNCHANGED <<games, wsThread>>
    BY <1>6 DEF User, handleLogin, handleCreateGame, handleJoinGame, handleMakeMove,
       returnToLobby, updateFromServer, connectionLost, reconnect
  <2>2. inbox'[c] = inbox[c]
    <3>1. CASE User(d) \/ reconnect(d)
      BY <3>1 DEF User, handleLogin, handleCreateGame, handleJoinGame, handleMakeMove,
         returnToLobby, reconnect
    <3>2. CASE updateFromServer(d)
      <4>1. d # c
        BY <3>2
      <4> QED BY <3>2, <4>1, ReadFacts
    <3>3. CASE connectionLost(d)
      <4>1. d # c
        BY <3>3 DEF connectionLost, TypeOK
      <4> QED BY <3>3, <4>1 DEF connectionLost
    <3> QED BY <1>6, <3>1, <3>2, <3>3
  <2> QED BY <1>3, <2>1, <2>2 DEF Sending
<1>7. ASSUME NEW d \in Browsers, \/ \E valid \in BOOLEAN : LOGIN(d, valid)
                                 \/ CREATE(d) /\ link[d].user = Nobody
                                 \/ JOIN(d) /\ ~MayEnter(d)
                                 \/ MOVE(d)
      PROVE  SettledFor(c, s)'
  <2>1. UNCHANGED games /\ ~Sending(s)
    BY <1>7, NoJoin DEF LOGIN, CREATE, JOIN, MOVE, Receives, Sending
  <2>2. \/ UNCHANGED inbox
        \/ \E type \in {"login_success", "invalid", "error"} : SendTo({Current(d)}, Note(type))
    BY <1>7, NoJoin DEF LOGIN, CREATE, MOVE
  <2> QED BY <1>3, <1>5, <2>1, <2>2
<1>8. ASSUME NEW d \in Browsers, CREATE(d), link[d].user # Nobody
      PROVE  SettledFor(c, s)'
  <2>1. games'[s] = games[s] /\ UNCHANGED inbox
    BY <1>1, <1>8, CreateFacts
  <2>2. ~Sending(s)
    BY <1>8 DEF CREATE, Receives, Sending
  <2> QED BY <1>3, <2>1, <2>2
<1>9. ASSUME NEW d \in Browsers, JOIN(d), MayEnter(d)
      PROVE  SettledFor(c, s)'
  <2> DEFINE r == Joining(d)
  <2>1. /\ OneGame(r, JoinedGame(d)) /\ r \in DOMAIN games /\ r # s
        /\ JoinedGame(d).player2 = d
        /\ JoinedGame(d).wsConnections = games[r].wsConnections \cup {Current(d)}
        /\ JoinBoard(d) \in Message /\ SendTo(JoinedGame(d).wsConnections, JoinBoard(d))
    BY <1>9, JoinFacts, OneGameFacts
  <2> HIDE DEF r
  <2>2. d # c
    <3>1. c = d => r \in Plays(c)'
      BY <2>1 DEF Plays, OneGame
    <3> QED BY <2>1, <3>1 DEF Follows
  <2>3. Current(c) \notin JoinedGame(d).wsConnections
    <3>1. Current(c) # Current(d)
      BY <2>2 DEF Current
    <3> QED BY <1>1, <2>1, <3>1, OnlyIn
  <2>4. games'[s] = games[s] /\ ~Sending(s)
    BY <1>1, <1>9, <2>1 DEF OneGame, JOIN, Receives, Sending
  <2> QED BY <1>3, <1>4, <2>1, <2>3, <2>4
<1>10. CASE addWebSocketHandle
  <2> DEFINE r == wsThread.game
  <2>1. /\ OneGame(r, HandledGame) /\ r \in DOMAIN games
        /\ CreatedNote \in Message /\ SendTo({wsThread.from}, CreatedNote)
    BY <1>10, HandleFacts, OneGameFacts
  <2>2. wsThread.from[1] \in {games[r].player1, games[r].player2}
        /\ games[r].player2 \notin Browsers /\ wsThread.pc = "created"
    BY <1>10 DEF AtWork, addWebSocketHandle
  <2>3. r # s
    BY <2>2 DEF Follows, BrowserGame
  <2>4. wsThread.from # Current(c)
    <3>1. wsThread.from[1] # c
      BY <1>1, <2>1, <2>2, <2>3, OnlyIn
    <3> QED BY <3>1 DEF Current
  <2>5. games'[s] = games[s] /\ ~Sending(s)
    BY <1>1, <2>1, <2>2, <2>3 DEF OneGame, Sending
  <2> HIDE DEF r
  <2> QED BY <1>3, <1>4, <2>1, <2>4, <2>5
<1>11. CASE makeMove
  <2>1. CASE s = wsThread.game
    BY <1>2, <1>11, <2>1, MoveSettles
  <2>2. CASE s # wsThread.game
    <3>1. PICK game : OneGame(wsThread.game, game) /\ Announce(wsThread.game, game.over)
      BY <1>11, MoveFacts, OneGameFacts
    <3>2. inbox'[c] = inbox[c]
      BY <1>1, <2>2, <3>1, AnnounceFacts, OnlyIn DEF OneGame
    <3>3. games'[s] = games[s] /\ ~Sending(s)
      BY <1>1, <1>11, <2>2, <3>1 DEF OneGame, Sending, makeMove
    <3> QED BY <1>3, <3>2, <3>3
  <2> QED BY <2>1, <2>2
<1>12. CASE makeMoveRefused \/ readTurn
  <2>1. UNCHANGED <<games, inbox>>
    BY <1>12 DEF makeMoveRefused, readTurn
  <2>2. Sending(s) => Sending(s)'
    BY <1>12, Elements DEF makeMoveRefused, readTurn, Sending, WsState
  <2> QED BY <1>3, <2>1, <2>2
<1>13. CASE sendResult
  <2>1. CASE s = wsThread.game
    BY <1>2, <1>13, <2>1, ResultSettles
  <2>2. CASE s # wsThread.game
    <3>1. \E m \in Message : SendTo(games[wsThread.game].wsConnections, m)
          /\ wsThread.game \in DOMAIN games /\ UNCHANGED games
      BY <1>13, SendResultFacts
    <3>2. Current(c) \notin games[wsThread.game].wsConnections
      BY <1>1, <2>2, <3>1, OnlyIn
    <3>3. inbox'[c] = inbox[c] /\ ~Sending(s)
      BY <1>4, <2>2, <3>1, <3>2 DEF Sending
    <3> QED BY <1>3, <3>1, <3>3
  <2> QED BY <2>1, <2>2
<1>14. games[s].player2 \notin TcpPlayers \cup {Nobody}
  BY ConstantsAssumption DEF Follows, BrowserGame
<1>15. ASSUME NEW t \in TcpPlayers,
              TcpHandler(t) \/ tcpMove(t) \/ \E r \in DOMAIN games : tcpJoin(t, r)
       PROVE  SettledFor(c, s)'
  <2>0. Sending(s) => Sending(s)'
    BY <1>15 DEF TcpHandler, broadcastGameState, tcpApplied, tcpMoved, tcpMove, tcpJoin, Sending
  <2>1. CASE broadcastGameState(t)
    <3>1. PICK r \in DOMAIN games : /\ games[r].player2 = t /\ UNCHANGED games
                                    /\ \E m \in Message : SendTo(games[r].wsConnections, m)
      BY <2>1, BroadcastFacts
    <3>2. Current(c) \notin games[r].wsConnections
      BY <1>1, <1>14, <3>1, OnlyIn
    <3> QED BY <1>3, <1>4, <2>0, <3>1, <3>2
  <2>2. CASE tcpMove(t) \/ tcpApplied(t) \/ tcpMoved(t)
    <3> DEFINE r == tcp[t].game
    <3>1. /\ r \in DOMAIN games /\ games[r].player2 = t
          /\ \E game \in Game : games' = [games EXCEPT ![r] = game]
          /\ inbox'[c] = inbox[c] \/ Current(c) \in games[r].wsConnections
      BY <2>2, TcpMoveFacts
    <3> HIDE DEF r
    <3>2. r # s
      BY <1>14, <3>1
    <3>3. inbox'[c] = inbox[c] /\ games'[s] = games[s]
      BY <1>1, <3>1, <3>2, OnlyIn
    <3> QED BY <1>3, <2>0, <3>3
  <2>3. ASSUME NEW r \in DOMAIN games, tcpJoin(t, r)
        PROVE  SettledFor(c, s)'
    <3>1. games[r].player2 = Nobody /\ OneGame(r, TcpJoinedGame(t, r)) /\ UNCHANGED inbox
      BY <2>3, TcpJoinFacts, OneGameFacts
    <3> QED BY <1>1, <1>3, <1>14, <2>0, <3>1 DEF OneGame
  <2> QED BY <1>15, <2>1, <2>2, <2>3 DEF TcpHandler
<1> QED BY <1>6, <1>7, <1>8, <1>9, <1>10, <1>11, <1>12, <1>13, <1>15 DEF Next, WsThread

-----------------------------------------------------------------------------
(* The invariant, and what follows from it.                                *)

(* Nothing is there yet, whichever browsers have logged in.                *)
LEMMA IndInvInit ==
    ASSUME NEW users, InitAs(users)
    PROVE  IndInv
<1>0. /\ {MaxGames, MaxMoves, MaxRequests, MaxDrops} \subseteq Nat /\ IsFiniteSet(Browsers)
      /\ Nobody \notin Browsers \cup TcpPlayers
  BY ConstantsAssumption
<1>1. /\ games = <<>> /\ wsThread = Idle /\ requested = 0
      /\ tcp = [t \in TcpPlayers |-> [pc |-> "receive", game |-> 0]]
      /\ link = [c \in Browsers |->
            [open |-> TRUE, number |-> 0, user |-> IF c \in users THEN c ELSE Nobody]]
      /\ requests = [c \in Browsers |-> <<>>] /\ inbox = [c \in Browsers |-> <<>>]
  BY DEF InitAs
<1>2. DOMAIN games = {} /\ Len(games) = 0 /\ games \in Seq(Game)
      /\ <<>> \in Seq(Request) /\ <<>> \in Seq(Message) /\ Len(<<>>) = 0 /\ DOMAIN <<>> = {}
  BY <1>1
<1>3. TypeOK
  <2>1. 0 \in 0 .. MaxGames /\ 0 \in 0 .. MaxDrops /\ 0 \in 0 .. MaxRequests
        /\ Len(games) <= MaxGames
    BY <1>0, <1>2
  <2>2. wsThread \in WsState
    BY <1>1, <2>1 DEF Idle, WsState
  <2>3. /\ tcp \in [TcpPlayers -> TcpState] /\ link \in [Browsers -> Link]
        /\ \A c \in Browsers : link[c].user \in {c, Nobody}
    BY <1>1, <2>1 DEF TcpState, Link
  <2>4. client \in [Browsers -> Client]
    BY <2>1 DEF InitAs, Client, Version
  <2>5. requests \in [Browsers -> Seq(Request)] /\ inbox \in [Browsers -> Seq(Message)]
    BY <1>1, <1>2
  <2> QED BY <1>1, <1>2, <2>1, <2>2, <2>3, <2>4, <2>5 DEF TypeOK, WsState, TcpState, Link, Request
<1>4. Bounded
  <2>1. Creating = {}
    BY <1>1 DEF Creating
  <2>2. Broken = {}
    <3> SUFFICES ASSUME NEW h \in Broken
                 PROVE  FALSE
      OBVIOUS
    <3>1. h[1] \in Browsers /\ h[2] \in 0 .. MaxDrops
          /\ (h[2] < link[h[1]].number \/ (h[2] = link[h[1]].number /\ ~link[h[1]].open))
      BY DEF Broken, Handle
    <3>2. link[h[1]].number = 0 /\ link[h[1]].open
      BY <1>1, <3>1
    <3> QED BY <3>1, <3>2
  <2>3. Cardinality({}) = 0
    BY FS_EmptySet
  <2>4. \A c \in Browsers : Len(requests[c]) <= requested
    BY <1>1, <1>2
  <2> QED BY <1>0, <1>2, <2>1, <2>2, <2>3, <2>4 DEF Bounded
<1>5. Handlers /\ Unshared /\ Registered /\ AtWork /\ Settled
  <2>1. Handlers
    BY <1>1, <1>2 DEF Handlers, Holds
  <2>2. Unshared /\ Registered /\ Settled
    BY <1>2 DEF Unshared, Registered, Settled
  <2>3. AtWork
    BY <1>1 DEF AtWork, Idle
  <2> QED BY <2>1, <2>2, <2>3
<1>6. BoardsFit /\ BoardsOrdered
  <2>1. \A c \in Browsers : inbox[c] = <<>> /\ client[c].board.version = Blank
    BY <1>1 DEF InitAs
  <2> QED BY <1>2, <2>1 DEF BoardsFit, BoardsOrdered, Fits
<1> QED BY <1>3, <1>4, <1>5, <1>6 DEF IndInv

LEMMA IndInvStep ==
    ASSUME IndInv, [Next]_vars
    PROVE  IndInv'
<1>1. CASE Next
  BY <1>1, TypeStep, BoundedStep, HandlersStep, UnsharedStep, RegisteredStep, AtWorkStep,
     BoardsFitStep, BoardsOrderedStep, SettledStep DEF IndInv
<1>2. CASE UNCHANGED vars
  <2>1. UNCHANGED <<games, wsThread, tcp, link, requests, inbox, client, requested>>
    BY <1>2 DEF vars
  <2>2. TypeOK' /\ Bounded'
    BY <2>1 DEF IndInv, TypeOK, Bounded, Creating, Broken
  <2>3. Handlers' /\ Unshared' /\ Registered' /\ AtWork'
    BY <2>1 DEF IndInv, Handlers, Holds, Unshared, Registered, AtWork
  <2>4. BoardsFit' /\ BoardsOrdered'
    BY <2>1 DEF IndInv, BoardsFit, BoardsOrdered
  <2>5. Settled'
    <3> SUFFICES ASSUME NEW c \in Browsers, NEW s \in DOMAIN games, Follows(c, s)'
                 PROVE  SettledFor(c, s)'
      BY <2>1 DEF Settled
    <3>1. SettledFor(c, s)
      BY <2>1 DEF IndInv, Settled, Follows, BrowserGame, Plays, Current
    <3> QED BY <2>1, <3>1 DEF SettledFor, BoardSettled, StatusSettled, Sending
  <2> QED BY <2>2, <2>3, <2>4, <2>5 DEF IndInv
<1> QED BY <1>1, <1>2

-----------------------------------------------------------------------------
(* The results.                                                            *)

(* The messages under way and the boards shown are those of their games,   *)
(* in the order of the moves, and a browser that has one game will show it *)
(* as it is: the inductive invariant holds in every behaviour, whichever   *)
(* browsers have logged in at the start.                                   *)
THEOREM Invariance ==
    (\E users \in SUBSET Browsers : InitAs(users)) /\ [][Next]_vars => []IndInv
<1>1. (\E users \in SUBSET Browsers : InitAs(users)) => IndInv
  BY IndInvInit
<1>2. IndInv /\ [Next]_vars => IndInv'
  BY IndInvStep
<1> QED BY <1>1, <1>2, PTL

LEMMA SpecInvariance == Spec => []IndInv
<1>1. Init => \E users \in SUBSET Browsers : InitAs(users)
  BY DEF Init
<1> QED BY <1>1, Invariance, PTL DEF Spec

(* Every variable of the browser module keeps its type: the queues, the    *)
(* sessions within their bounds, each connection's user its own browser's; *)
(* and joinGame never seats a player against itself.                       *)
THEOREM TypeCorrect == Spec => []TypeOK
<1>1. IndInv => TypeOK
  BY DEF IndInv
<1> QED BY <1>1, SpecInvariance, PTL

(* A board of two browsers' game is read without the session's lock        *)
(* (getBoardStateJson after makeMove), yet no browser is ever shown a torn *)
(* one, or one with the turn of another move beside it.                    *)
THEOREM WholeShown == Spec => []ShownWhole
<1>1. IndInv => ShownWhole
  BY DEF IndInv, BoardsFit, Fits, ShownWhole, BrowserGame, Mover
<1> QED BY <1>1, SpecInvariance, PTL

(* Nothing under way: a browser connected to its only game shows its board,*)
(* the player to move and whether black has won (useGameState against the  *)
(* session).                                                               *)
THEOREM QuietAgrees == Spec => []QuietAgreement
<1>1. ASSUME IndInv PROVE QuietAgreement
  <2> SUFFICES ASSUME NEW c \in Browsers, NEW s \in DOMAIN games, Follows(c, s),
                      wsThread = Idle, inbox[c] = <<>>
               PROVE  /\ client[c].board = [game |-> s, version |-> games[s].version]
                      /\ client[c].currentPlayer = Mover(games[s], games[s].isPlayer1Turn)
                      /\ client[c].gameStatus =
                            IF games[s].over = "black" THEN "finished" ELSE "playing"
    BY DEF QuietAgreement, Follows
  <2>1. SettledFor(c, s) /\ ~Sending(s) /\ Len(inbox[c]) = 0
    BY <1>1 DEF IndInv, Settled, Sending, Idle
  <2>2. BoardSettled(c, s, 0) /\ StatusSettled(c, s, 0)
    BY <2>1 DEF SettledFor
  <2> QED BY <2>2 DEF BoardSettled, StatusSettled
<1> QED BY <1>1, SpecInvariance, PTL

(* The boards of one game reach a browser in the order of its moves: none  *)
(* ever shows an earlier one than it has shown (updateFromServer).         *)
THEOREM ForwardOnly == Spec => BoardsForward
<1>1. ASSUME IndInv, [Next]_vars
      PROVE  [\A c \in Browsers :
                LET now == client[c].board
                    next == client'[c].board
                IN  now.game = next.game /\ now.version >= 0 /\ next.version >= 0
                        => next.version >= now.version]_vars
  <2> SUFFICES ASSUME Next, NEW c \in Browsers, client[c].board.game = client'[c].board.game,
                      client[c].board.version >= 0, client'[c].board.version >= 0
               PROVE  client'[c].board.version >= client[c].board.version
    BY <1>1
  <2>1. client[c].board.version \in Int
    <3>1. client[c] \in Client
      BY <1>1 DEF IndInv, TypeOK
    <3> QED BY <3>1 DEF Client, Version, Blank, Torn
  <2>2. CASE ~updateFromServer(c)
    BY <1>1, <2>1, <2>2, ShownSteps DEF IndInv
  <2>3. CASE updateFromServer(c)
    <3> DEFINE m == inbox[c][1]
    <3>1. /\ 1 \in DOMAIN inbox[c] /\ m \in Message
          /\ client'[c].board = IF IsBoard(m) THEN Shown(m) ELSE client[c].board
      BY <1>1, <2>3, ReadFacts DEF IndInv
    <3>2. IsBoard(m) => Before(client[c].board, m)
      BY <1>1, <3>1 DEF IndInv, BoardsOrdered
    <3>3. Shown(m).game = m.game /\ Shown(m).version = m.version
      BY DEF Shown
    <3>4. m.version \in Int
      BY <3>1 DEF Message, Version, Blank, Torn
    <3> HIDE DEF m
    <3> QED BY <2>1, <3>1, <3>2, <3>3, <3>4 DEF Before
  <2> QED BY <2>2, <2>3
<1> QED BY <1>1, SpecInvariance, PTL DEF Spec, BoardsForward
=============================================================================
