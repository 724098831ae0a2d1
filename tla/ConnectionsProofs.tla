------------------------- MODULE ConnectionsProofs --------------------------
(***************************************************************************)
(* The locks and the broadcasts of the TCP server for any number of        *)
(* connections, games, moves and commands.                                 *)
(***************************************************************************)
EXTENDS Connections, SequenceTheorems, TLAPS

(* Where a handler works on a session, the session exists; it holds        *)
(* sessionsMutex exactly in joinGame, and its game's mutex while it sends. *)
Located ==
    \A c \in Conns :
        /\ handler[c].pc \in {"lookup", "addSocket", "broadcast", "makeMove", "sending"}
              => handler[c].gameSessionId \in DOMAIN games
        /\ handler[c].pc = "joinGame" =>
              handler[c].joining \in DOMAIN games /\ sessionsMutex = c
        /\ handler[c].pc = "sending" => games[handler[c].gameSessionId].gameMutex = c
        /\ handler[c].pc = "reply" => handler[c].toSend # <<>>
        /\ handler[c].pc \in {"create", "join", "joinGame"} => handler[c].clientId \in Names

(* A mutex that is held has a holder at the place that will release it.    *)
Held ==
    /\ \A c \in Conns : sessionsMutex = c => handler[c].pc = "joinGame"
    /\ \A s \in DOMAIN games, c \in Conns :
          games[s].gameMutex = c =>
              handler[c].pc = "sending" /\ handler[c].gameSessionId = s

IndInv == TypeOK /\ Located /\ Held

-----------------------------------------------------------------------------
(* What the loops over clientSockets send, one message after the other.    *)
LEMMA ToAllFacts ==
    ASSUME NEW sockets \in Seq(Conns), NEW msg \in Message
    PROVE  /\ ToAll(sockets, msg) \in Seq(Outgoing)
           /\ Len(ToAll(sockets, msg)) = Len(sockets)
           /\ \A i \in 1 .. Len(sockets) :
                 ToAll(sockets, msg)[i] = [to |-> sockets[i], msg |-> msg]
<1>1. Len(sockets) \in Nat /\ DOMAIN sockets = 1 .. Len(sockets)
  BY LenProperties
<1>2. ToAll(sockets, msg) = [i \in 1 .. Len(sockets) |-> [to |-> sockets[i], msg |-> msg]]
  BY <1>1 DEF ToAll
<1>3. \A i \in 1 .. Len(sockets) : sockets[i] \in Conns
  BY ElementOfSeq
<1>4. \A i \in 1 .. Len(sockets) : [to |-> sockets[i], msg |-> msg] \in Outgoing
  BY <1>3 DEF Outgoing
<1>5. ToAll(sockets, msg) \in [1 .. Len(sockets) -> Outgoing]
  BY <1>2, <1>4
<1>6. ToAll(sockets, msg) \in Seq(Outgoing)
  BY <1>1, <1>5, SeqDef
<1>7. Len(ToAll(sockets, msg)) = Len(sockets)
  BY <1>1, <1>2, <1>6, LenProperties
<1> QED BY <1>2, <1>6, <1>7

LEMMA MoveMessagesType ==
    ASSUME NEW sockets \in Seq(Conns), NEW state \in Message,
           NEW result \in {"none", "win", "empty"}
    PROVE  MoveMessages(sockets, state, result) \in Seq(Outgoing)
<1>1. [state EXCEPT !.type = result] \in Message \/ result = "none"
  BY DEF Message
<1>2. ToAll(sockets, state) \in Seq(Outgoing)
  BY ToAllFacts
<1>3. CASE result = "none"
  BY <1>2, <1>3, EmptySeq, ConcatProperties DEF MoveMessages
<1>4. CASE result # "none"
  <2>1. ToAll(sockets, [state EXCEPT !.type = result]) \in Seq(Outgoing)
    BY <1>1, <1>4, ToAllFacts
  <2> QED BY <1>2, <1>4, <2>1, ConcatProperties DEF MoveMessages
<1> QED BY <1>3, <1>4

LEMMA AnswerType ==
    ASSUME NEW c \in Conns, NEW msg \in Message
    PROVE  <<[to |-> c, msg |-> msg]>> \in Seq(Outgoing) /\ <<[to |-> c, msg |-> msg]>> # <<>>
BY DEF Outgoing

LEMMA TextType == Text \in Message
BY ConstantsAssumption DEF Text, Message

-----------------------------------------------------------------------------
(* How the actions change the state of one handler, and of one session.    *)
LEMMA GotoFacts ==
    ASSUME IndInv, NEW c \in Conns, NEW pc \in Places, Goto(c, pc)
    PROVE  /\ handler' \in [Conns -> Handler]
           /\ \A d \in Conns \ {c} : handler'[d] = handler[d]
           /\ handler'[c].pc = pc
           /\ handler'[c].command = handler[c].command
           /\ handler'[c].clientId = handler[c].clientId
           /\ handler'[c].gameSessionId = handler[c].gameSessionId
           /\ handler'[c].joining = handler[c].joining
           /\ handler'[c].toSend = handler[c].toSend
BY DEF IndInv, TypeOK, Goto, Handler

LEMMA AnswerFacts ==
    ASSUME IndInv, NEW c \in Conns, NEW msg \in Message, Answer(c, msg)
    PROVE  /\ handler' \in [Conns -> Handler]
           /\ \A d \in Conns \ {c} : handler'[d] = handler[d]
           /\ handler'[c].pc = "reply"
           /\ handler'[c].command = handler[c].command
           /\ handler'[c].clientId = handler[c].clientId
           /\ handler'[c].gameSessionId = handler[c].gameSessionId
           /\ handler'[c].joining = handler[c].joining
           /\ handler'[c].toSend = <<[to |-> c, msg |-> msg]>>
           /\ handler'[c].toSend # <<>>
BY AnswerType DEF IndInv, TypeOK, Answer, Handler, Places

LEMMA DoneFacts ==
    ASSUME IndInv, NEW c \in Conns, Done(c)
    PROVE  /\ handler' \in [Conns -> Handler]
           /\ \A d \in Conns \ {c} : handler'[d] = handler[d]
           /\ handler'[c].pc = "receive"
           /\ handler'[c].gameSessionId = handler[c].gameSessionId
           /\ handler'[c].toSend = <<>>
<1>1. handler[c] \in Handler /\ <<>> \in Seq(Outgoing)
  BY EmptySeq DEF IndInv, TypeOK
<1>2. handler'[c] = [pc |-> "receive", command |-> "none", clientId |-> handler[c].clientId,
                     gameSessionId |-> handler[c].gameSessionId, joining |-> 0, toSend |-> <<>>]
  BY <1>1 DEF IndInv, TypeOK, Done, Handler
<1>3. handler'[c] \in Handler
  BY <1>1, <1>2 DEF Handler, Places, Commands
<1>4. \A d \in Conns \ {c} : handler'[d] = handler[d]
  BY DEF IndInv, TypeOK, Done
<1> QED BY <1>2, <1>3, <1>4 DEF IndInv, TypeOK, Done

LEMMA JoinedType ==
    ASSUME IndInv, NEW c \in Conns
    PROVE  Joined(c) \in Message
BY ConstantsAssumption DEF IndInv, TypeOK, Handler, Joined, Message

(* A change of one field of one session.                                   *)
LEMMA GamesType ==
    ASSUME games \in Seq(Game), NEW s \in DOMAIN games, NEW game \in Game
    PROVE  /\ [games EXCEPT ![s] = game] \in Seq(Game)
           /\ Len([games EXCEPT ![s] = game]) = Len(games)
           /\ DOMAIN [games EXCEPT ![s] = game] = DOMAIN games
BY ExceptSeq

(* What a socket is after a send on it.                                    *)
LEMMA TransmitType ==
    ASSUME IndInv, NEW d \in Conns, NEW msg \in Message, Transmit(d, msg)
    PROVE  socket' \in [Conns -> Socket] /\ crashed' \in BOOLEAN
<1>1. socket[d].sent \in Seq(Message) /\ socket[d] \in Socket
  BY DEF IndInv, TypeOK, Socket
<1>2. Append(socket[d].sent, msg) \in Seq(Message)
  BY <1>1, AppendProperties
<1>3. CASE UNCHANGED socket
  BY <1>3 DEF IndInv, TypeOK, Transmit
<1>4. CASE /\ socket[d].unread < Capacity
           /\ socket' = [socket EXCEPT ![d].unread = @ + 1,
                 ![d].sent = IF msg.type = "text" THEN @ ELSE Append(@, msg)]
           /\ UNCHANGED crashed
  <2>1. socket'[d] = [peer |-> socket[d].peer, unread |-> socket[d].unread + 1,
                      sent |-> IF msg.type = "text" THEN socket[d].sent
                               ELSE Append(socket[d].sent, msg)]
    BY <1>1, <1>4 DEF IndInv, TypeOK, Socket
  <2>2. socket[d].unread + 1 \in 0 .. Capacity
    BY <1>1, <1>4, ConstantsAssumption DEF Socket
  <2>3. socket'[d] \in Socket
    BY <1>1, <1>2, <2>1, <2>2 DEF Socket
  <2> QED BY <1>4, <2>3 DEF IndInv, TypeOK
<1>5. CASE socket' = [socket EXCEPT ![d].peer = "reset"] /\ UNCHANGED crashed
  BY <1>1, <1>5 DEF IndInv, TypeOK, Socket
<1> QED BY <1>3, <1>4, <1>5 DEF Transmit

-----------------------------------------------------------------------------
LEMMA IndInvInit == ASSUME NEW login \in [Conns -> Names \cup {Unknown}], InitAs(login)
                    PROVE  IndInv
<1>1. TypeOK
  <2>1. <<>> \in Seq(Game) /\ <<>> \in Seq(Outgoing) /\ <<>> \in Seq(Message)
    BY EmptySeq
  <2>2. \A c \in Conns :
            [pc |-> "receive", command |-> "none", clientId |-> login[c],
             gameSessionId |-> 0, joining |-> 0, toSend |-> <<>>] \in Handler
    BY <2>1 DEF Handler, Places, Commands
  <2>3. [peer |-> "open", sent |-> <<>>, unread |-> 0] \in Socket
    BY <2>1, ConstantsAssumption DEF Socket
  <2>4. handler \in [Conns -> Handler] /\ socket \in [Conns -> Socket]
        /\ \A c \in Conns : handler[c].gameSessionId = 0
    BY <2>2, <2>3 DEF InitAs
  <2>5. 0 \in 0 .. Len(games)
    BY <2>1, LenProperties DEF InitAs
  <2>6. games \in Seq(Game) /\ sessionsMutex \in Conns \cup {Free}
    BY <2>1 DEF InitAs
  <2>8. commands \in 0 .. MaxCommands
    <3>1. commands = 0
      BY DEF InitAs
    <3> QED BY <3>1, ConstantsAssumption
  <2>9. crashed \in BOOLEAN
    BY DEF InitAs
  <2>7. \A c \in Conns : handler[c].gameSessionId \in 0 .. Len(games)
    BY <2>4, <2>5
  <2> QED BY <2>4, <2>6, <2>7, <2>8, <2>9 DEF TypeOK
<1>2. Located /\ Held
  BY ConstantsAssumption DEF InitAs, Located, Held
<1> QED BY <1>1, <1>2 DEF IndInv

(* A step that changes the handler of c alone, and no session and no mutex.*)
LEMMA HandlerStep ==
    ASSUME IndInv, NEW c \in Conns,
           UNCHANGED <<games, sessionsMutex>>,
           handler' \in [Conns -> Handler], socket' \in [Conns -> Socket],
           crashed' \in BOOLEAN, commands' \in 0 .. MaxCommands,
           \A d \in Conns \ {c} : handler'[d] = handler[d],
           handler'[c].gameSessionId = handler[c].gameSessionId,
           handler[c].pc \notin {"joinGame", "sending"},
           handler'[c].pc \notin {"joinGame", "sending"},
           handler'[c].pc \in {"lookup", "addSocket", "broadcast", "makeMove"} =>
                handler[c].gameSessionId \in DOMAIN games,
           handler'[c].pc = "reply" => handler'[c].toSend # <<>>,
           handler'[c].pc \in {"create", "join"} => handler'[c].clientId \in Names
    PROVE  IndInv'
<1>1. TypeOK'
  <2>1. \A d \in Conns : handler'[d].gameSessionId = handler[d].gameSessionId
    OBVIOUS
  <2> QED BY <2>1 DEF IndInv, TypeOK
<1>2. Located'
  BY DEF IndInv, Located
<1>3. Held'
  BY DEF IndInv, Held
<1> QED BY <1>1, <1>2, <1>3 DEF IndInv

LEMMA CommandStep ==
    ASSUME IndInv, NEW c \in Conns, Command(c)
    PROVE  IndInv'
<1> USE DEF IndInv
<1>1. handler[c] \in Handler
  BY DEF TypeOK
<1>2. ASSUME Receives(c)
      PROVE  handler[c].pc = "receive" /\ commands' \in 0 .. MaxCommands
  BY <1>2, ConstantsAssumption DEF TypeOK, Receives, At
<1>3. ASSUME NEW command \in Commands, NEW pc \in Places, Dispatch(c, command, pc),
             pc \notin {"joinGame", "sending", "reply"},
             pc \in {"lookup", "addSocket", "broadcast", "makeMove"} =>
                handler[c].gameSessionId # 0,
             pc \in {"create", "join"} => handler[c].clientId \in Names
      PROVE  IndInv'
  <2>1. handler[c].gameSessionId \in DOMAIN games \/ handler[c].gameSessionId = 0
    BY LenProperties DEF TypeOK
  <2>2. handler' \in [Conns -> Handler] /\ handler'[c].pc = pc
        /\ handler'[c].clientId = handler[c].clientId
        /\ handler'[c].gameSessionId = handler[c].gameSessionId
        /\ \A d \in Conns \ {c} : handler'[d] = handler[d]
    BY <1>1, <1>3 DEF TypeOK, Handler, Dispatch
  <2>3. Receives(c) /\ UNCHANGED <<games, sessionsMutex, socket, crashed>>
    BY <1>3 DEF Dispatch
  <2> QED BY <1>2, <1>3, <2>1, <2>2, <2>3, HandlerStep DEF TypeOK
<1>4. ASSUME NEW username \in Names, LOGIN(c, username)
      PROVE  IndInv'
  <2>1. <<[to |-> c, msg |-> Text]>> \in Seq(Outgoing) /\ <<[to |-> c, msg |-> Text]>> # <<>>
    BY AnswerType, TextType
  <2>2. /\ handler' \in [Conns -> Handler]
        /\ handler'[c].pc = "reply" /\ handler'[c].toSend # <<>>
        /\ handler'[c].gameSessionId = handler[c].gameSessionId
        /\ \A d \in Conns \ {c} : handler'[d] = handler[d]
    BY <1>1, <1>4, <2>1 DEF TypeOK, Handler, LOGIN, Places
  <2>3. Receives(c) /\ UNCHANGED <<games, sessionsMutex, socket, crashed>>
    BY <1>4 DEF LOGIN
  <2> QED BY <1>2, <2>2, <2>3, HandlerStep DEF TypeOK
<1>5. ASSUME CREATE(c)
      PROVE  IndInv'
  BY <1>1, <1>3, <1>5 DEF CREATE, Commands, Places, Handler
<1>6. ASSUME NEW sessionId \in 1 .. MaxGames, JOIN(c, sessionId)
      PROVE  IndInv'
  <2>1. /\ handler' \in [Conns -> Handler]
        /\ handler'[c].pc = "join" /\ handler'[c].clientId \in Names
        /\ handler'[c].gameSessionId = handler[c].gameSessionId
        /\ \A d \in Conns \ {c} : handler'[d] = handler[d]
    <3>1. handler'[c] = [pc |-> "join", command |-> "JOIN", clientId |-> handler[c].clientId,
                         gameSessionId |-> handler[c].gameSessionId, joining |-> sessionId,
                         toSend |-> handler[c].toSend]
      BY <1>1, <1>6 DEF TypeOK, Handler, JOIN
    <3>3. handler[c].clientId \in Names
      BY <1>1, <1>6 DEF JOIN, Handler
    <3>2. handler'[c] \in Handler
      BY <1>1, <3>1, ConstantsAssumption DEF Handler, Places, Commands
    <3> QED BY <1>6, <3>1, <3>2, <3>3 DEF TypeOK, JOIN
  <2>2. Receives(c) /\ UNCHANGED <<games, sessionsMutex, socket, crashed>>
    BY <1>6 DEF JOIN
  <2> QED BY <1>2, <2>1, <2>2, HandlerStep DEF TypeOK
<1>7. ASSUME MOVE(c) \/ ShowState(c)
      PROVE  IndInv'
  BY <1>3, <1>7 DEF MOVE, ShowState, Commands, Places
<1>8. ASSUME AnswerAtOnce(c)
      PROVE  IndInv'
  <2>1. Receives(c) /\ UNCHANGED <<games, sessionsMutex, socket, crashed>> /\ Answer(c, Text)
    BY <1>8 DEF AnswerAtOnce
  <2> QED BY <1>1, <1>2, <2>1, TextType, AnswerFacts, HandlerStep DEF TypeOK
<1> QED BY <1>4, <1>5, <1>6, <1>7, <1>8 DEF Command

(* The calls that change no session and no mutex.                          *)
LEMMA PlainStep ==
    ASSUME IndInv, NEW c \in Conns,
           getGameSession(c) \/ makeMoveRefused(c) \/ reply(c) \/ disconnected(c)
    PROVE  IndInv'
<1> USE DEF IndInv
<1>1. handler[c] \in Handler /\ socket \in [Conns -> Socket] /\ crashed \in BOOLEAN
      /\ commands \in 0 .. MaxCommands
  BY DEF TypeOK
<1>2. CASE getGameSession(c)
  <2>1. handler[c].pc = "lookup" /\ handler[c].gameSessionId \in DOMAIN games
    BY <1>2 DEF getGameSession, At, Located
  <2>2. CASE Goto(c, "addSocket") \/ Goto(c, "makeMove")
    <3>1. PICK pc \in {"addSocket", "makeMove"} : Goto(c, pc)
      BY <2>2
    <3>2. pc \in Places
      BY <3>1 DEF Places
    <3> QED BY <1>1, <1>2, <2>1, <3>1, <3>2, GotoFacts, HandlerStep DEF getGameSession
  <2>3. CASE Answer(c, Text)
    BY <1>1, <1>2, <2>1, <2>3, TextType, AnswerFacts, HandlerStep DEF getGameSession
  <2> QED BY <1>2, <2>2, <2>3 DEF getGameSession
<1>3. CASE makeMoveRefused(c)
  BY <1>1, <1>3, TextType, AnswerFacts, HandlerStep DEF makeMoveRefused, At
<1>4. CASE reply(c)
  <2>1. handler[c].pc = "reply" /\ handler[c].toSend \in Seq(Outgoing) /\ handler[c].toSend # <<>>
    BY <1>1, <1>4 DEF reply, At, Located, Handler
  <2>2. Head(handler[c].toSend).msg \in Message
    <3>1. Head(handler[c].toSend) \in Outgoing
      BY <2>1, HeadTailProperties
    <3> QED BY <3>1 DEF Outgoing
  <2>3. socket' \in [Conns -> Socket] /\ crashed' \in BOOLEAN
    BY <1>4, <2>2, TransmitType DEF reply
  <2> QED BY <1>1, <1>4, <2>1, <2>3, DoneFacts, HandlerStep DEF reply
<1>5. CASE disconnected(c)
  <2>1. "closed" \in Places
    BY DEF Places
  <2> QED BY <1>1, <1>5, <2>1, GotoFacts, HandlerStep DEF disconnected, At
<1> QED BY <1>2, <1>3, <1>4, <1>5

(* A step that changes one session and the handler of c.                   *)
SessionChange(c, s, game) ==
    /\ games' = [games EXCEPT ![s] = game]
    /\ handler' \in [Conns -> Handler] /\ socket' \in [Conns -> Socket]
    /\ crashed' \in BOOLEAN /\ commands' \in 0 .. MaxCommands
    /\ \A d \in Conns \ {c} : handler'[d] = handler[d]
    /\ handler'[c].pc \notin {"joinGame", "create", "join"}
    /\ handler[c].pc = "joinGame" <=> sessionsMutex = c
    /\ sessionsMutex' = IF handler[c].pc = "joinGame" THEN Free ELSE sessionsMutex
    /\ handler'[c].pc # "reply" => handler'[c].gameSessionId = s
    /\ handler'[c].gameSessionId \in {s, handler[c].gameSessionId}
    /\ handler[c].pc = "sending" => handler[c].gameSessionId = s
    /\ handler'[c].pc = "sending" <=> game.gameMutex = c
    /\ \A d \in Conns \ {c} : game.gameMutex = d <=> games[s].gameMutex = d
    /\ handler'[c].pc = "reply" => handler'[c].toSend # <<>>

LEMMA SessionStep ==
    ASSUME IndInv, NEW c \in Conns, NEW s \in DOMAIN games, NEW game \in Game,
           SessionChange(c, s, game)
    PROVE  IndInv'
<1> USE DEF SessionChange
<1> USE DEF IndInv
<1>1. games \in Seq(Game) /\ games' \in Seq(Game) /\ Len(games') = Len(games)
      /\ DOMAIN games' = DOMAIN games /\ Free \notin Conns
  BY GamesType, ConstantsAssumption DEF TypeOK
<1>2. Len(games) \in Nat /\ DOMAIN games = 1 .. Len(games)
  BY <1>1, LenProperties
<1>3. games'[s] = game /\ \A r \in DOMAIN games : r # s => games'[r] = games[r]
  BY <1>1
<1>4. TypeOK'
  <2>1. \A d \in Conns : handler'[d].gameSessionId \in 0 .. Len(games')
    BY <1>1, <1>2 DEF TypeOK
  <2> QED BY <1>1, <2>1 DEF TypeOK
<1>5. Located'
  <2>1. ASSUME NEW d \in Conns \ {c}
        PROVE  /\ handler'[d].pc \in {"lookup", "addSocket", "broadcast", "makeMove", "sending"}
                     => handler'[d].gameSessionId \in DOMAIN games'
               /\ handler'[d].pc = "joinGame" =>
                     handler'[d].joining \in DOMAIN games' /\ sessionsMutex' = d
               /\ handler'[d].pc = "sending" => games'[handler'[d].gameSessionId].gameMutex = d
               /\ handler'[d].pc = "reply" => handler'[d].toSend # <<>>
               /\ handler'[d].pc \in {"create", "join", "joinGame"} => handler'[d].clientId \in Names
    BY <1>1, <1>3, <2>1 DEF Located
  <2>2. /\ handler'[c].pc \in {"lookup", "addSocket", "broadcast", "makeMove", "sending"}
              => handler'[c].gameSessionId \in DOMAIN games'
        /\ handler'[c].pc = "sending" => games'[handler'[c].gameSessionId].gameMutex = c
    BY <1>1, <1>3
  <2> QED BY <2>1, <2>2 DEF Located
<1>6. Held'
  <2>1. \A d \in Conns : sessionsMutex' = d => handler'[d].pc = "joinGame"
    BY <1>1 DEF Held
  <2>2. ASSUME NEW r \in DOMAIN games, NEW d \in Conns, games'[r].gameMutex = d
        PROVE  handler'[d].pc = "sending" /\ handler'[d].gameSessionId = r
    BY <1>1, <1>3, <2>2 DEF Held, Located
  <2> QED BY <1>1, <2>1, <2>2 DEF Held
<1> QED BY <1>4, <1>5, <1>6

(* The registry.                                                           *)
LEMMA RegistryStep ==
    ASSUME IndInv, NEW c \in Conns,
           createGameSession(c) \/ joinGameSession(c) \/ joinGame(c)
    PROVE  IndInv'
<1> USE DEF IndInv
<1>1. handler[c] \in Handler /\ games \in Seq(Game) /\ sessionsMutex \in Conns \cup {Free}
      /\ Free \notin Conns
  BY ConstantsAssumption DEF TypeOK
<1>2. Len(games) \in Nat /\ DOMAIN games = 1 .. Len(games)
  BY <1>1, LenProperties
<1>3. CASE createGameSession(c)
  <2> DEFINE game == [player1 |-> handler[c].clientId, player2 |-> Nobody, version |-> 0,
                      over |-> FALSE, clientSockets |-> <<>>, gameMutex |-> Free]
  <2>1. handler[c].pc = "create" /\ sessionsMutex = Free
    BY <1>3 DEF createGameSession, At
  <2>2. games' = Append(games, game)
    BY <1>3 DEF createGameSession
  <2>3. game \in Game
    <3>1. handler[c].clientId \in Names
      BY <2>1 DEF Located
    <3> QED BY <3>1, EmptySeq, ConstantsAssumption DEF Game
  <2>4. /\ games' \in Seq(Game) /\ Len(games') = Len(games) + 1
        /\ DOMAIN games' = 1 .. Len(games) + 1
        /\ \A r \in DOMAIN games : games'[r] = games[r]
        /\ games'[Len(games) + 1] = game
    BY <1>1, <1>2, <2>2, <2>3, AppendProperties, LenProperties
  <2>5. /\ handler' \in [Conns -> Handler]
        /\ \A d \in Conns \ {c} : handler'[d] = handler[d]
        /\ handler'[c].pc = "lookup" /\ handler'[c].gameSessionId = Len(games) + 1
    <3>1. handler'[c] = [pc |-> "lookup", command |-> handler[c].command,
                         clientId |-> handler[c].clientId, gameSessionId |-> Len(games) + 1,
                         joining |-> handler[c].joining, toSend |-> handler[c].toSend]
      BY <1>1, <1>3 DEF TypeOK, createGameSession, Handler
    <3>2. handler'[c] \in Handler
      BY <1>1, <1>2, <3>1 DEF Handler, Places
    <3> QED BY <1>3, <3>1, <3>2 DEF TypeOK, createGameSession
  <2>6. UNCHANGED <<sessionsMutex, socket, crashed, commands>>
    BY <1>3 DEF createGameSession
  <2>7. TypeOK'
    <3>1. \A d \in Conns : handler'[d].gameSessionId \in 0 .. Len(games')
      BY <1>2, <2>4, <2>5 DEF TypeOK
    <3> QED BY <2>4, <2>5, <2>6, <3>1 DEF TypeOK
  <2>8. Located'
    <3>1. Len(games) + 1 \in DOMAIN games' /\ DOMAIN games \subseteq DOMAIN games'
      BY <1>2, <2>4
    <3>2. \A d \in Conns \ {c} :
              handler[d].pc = "sending" =>
                games'[handler[d].gameSessionId].gameMutex = d
      BY <2>4 DEF Located
    <3> QED BY <2>5, <2>6, <3>1, <3>2 DEF Located
  <2>9. Held'
    <3>1. \A d \in Conns : sessionsMutex' # d
      BY <1>1, <2>1, <2>6
    <3>2. ASSUME NEW r \in DOMAIN games', NEW d \in Conns, games'[r].gameMutex = d
          PROVE  handler'[d].pc = "sending" /\ handler'[d].gameSessionId = r
      <4>1. r \in DOMAIN games
        BY <1>1, <1>2, <2>4, <3>2
      <4>2. handler[d].pc = "sending" /\ handler[d].gameSessionId = r
        BY <2>4, <3>2, <4>1 DEF Held
      <4> QED BY <2>1, <2>5, <4>2
    <3> QED BY <3>1, <3>2 DEF Held
  <2> QED BY <2>7, <2>8, <2>9
<1>4. CASE joinGameSession(c)
  <2>1. handler[c].pc = "join" /\ sessionsMutex = Free /\ UNCHANGED <<games, socket, crashed, commands>>
    BY <1>4 DEF joinGameSession, At
  <2>2. CASE handler[c].joining \notin DOMAIN games
    <3>1. sessionsMutex' = sessionsMutex /\ Answer(c, Text)
      BY <1>4, <2>1, <2>2 DEF joinGameSession
    <3> QED BY <1>1, <2>1, <3>1, TextType, AnswerFacts, HandlerStep DEF TypeOK
  <2>3. CASE handler[c].joining \in DOMAIN games
    <3>1. sessionsMutex' = c /\ Goto(c, "joinGame") /\ "joinGame" \in Places
      BY <1>4, <2>3 DEF joinGameSession, Places
    <3>2. /\ handler' \in [Conns -> Handler]
          /\ \A d \in Conns \ {c} : handler'[d] = handler[d]
          /\ handler'[c].clientId = handler[c].clientId
          /\ handler'[c].pc = "joinGame" /\ handler'[c].joining = handler[c].joining
          /\ handler'[c].gameSessionId = handler[c].gameSessionId
      BY <1>1, <3>1, GotoFacts
    <3>3. TypeOK'
      BY <1>1, <2>1, <3>1, <3>2 DEF TypeOK
    <3>4. \A d \in Conns : handler[d].pc # "joinGame"
      BY <1>1, <2>1 DEF Located
    <3>5. Located'
      BY <2>1, <2>3, <3>1, <3>2, <3>4 DEF Located
    <3>6. Held'
      BY <2>1, <3>1, <3>2 DEF Held
    <3> QED BY <3>3, <3>5, <3>6
  <2> QED BY <2>2, <2>3
<1>5. CASE joinGame(c)
  <2> DEFINE s == handler[c].joining
  <2>1. /\ handler[c].pc = "joinGame" /\ sessionsMutex = c /\ s \in DOMAIN games
        /\ handler[c].clientId \in Names /\ sessionsMutex' = Free
        /\ UNCHANGED <<socket, crashed, commands>>
    BY <1>5 DEF joinGame, At, Located
  <2>2. games[s] \in Game
    BY <1>1, <1>2, <2>1, ElementOfSeq
  <2>3. games[s].gameMutex # c
    BY <2>1 DEF Held
  <2>4. CASE games[s].player2 = Nobody /\ games[s].player1 # handler[c].clientId
    <3> DEFINE game == [games[s] EXCEPT !.player2 = handler[c].clientId]
    <3>1. game \in Game /\ game.gameMutex = games[s].gameMutex
      BY <2>1, <2>2 DEF Game
    <3>2. games' = [games EXCEPT ![s] = game]
      BY <1>5, <2>4 DEF joinGame
    <3>3. /\ handler' \in [Conns -> Handler]
          /\ \A d \in Conns \ {c} : handler'[d] = handler[d]
          /\ handler'[c].pc = "lookup" /\ handler'[c].gameSessionId = s
      <4>1. handler'[c] = [pc |-> "lookup", command |-> handler[c].command,
                           clientId |-> handler[c].clientId, gameSessionId |-> s,
                           joining |-> s, toSend |-> handler[c].toSend]
        BY <1>1, <1>5, <2>4 DEF TypeOK, joinGame, Handler
      <4>2. handler'[c] \in Handler
        BY <1>1, <4>1 DEF Handler, Places
      <4> QED BY <1>5, <2>4, <4>1, <4>2 DEF TypeOK, joinGame
    <3>4. socket' \in [Conns -> Socket] /\ crashed' \in BOOLEAN /\ commands' \in 0 .. MaxCommands
      BY <2>1 DEF TypeOK
    <3> HIDE DEF game, s
    <3> QED
      <4>1. /\ game.gameMutex # c
            /\ \A d \in Conns \ {c} : game.gameMutex = d <=> games[s].gameMutex = d
        BY <2>3, <3>1
      <4>2. s \in DOMAIN games /\ game \in Game
        BY <2>1, <3>1
      <4>3. SessionChange(c, s, game)
        BY <1>1, <2>1, <3>2, <3>3, <3>4, <4>1 DEF SessionChange
      <4> QED BY <4>2, <4>3, SessionStep
  <2>5. CASE ~(games[s].player2 = Nobody /\ games[s].player1 # handler[c].clientId)
    <3>1. games' = games /\ Answer(c, Text)
      BY <1>5, <2>5 DEF joinGame
    <3>2. games' = [games EXCEPT ![s] = games[s]]
      BY <1>1, <1>2, <3>1
    <3>3. /\ handler' \in [Conns -> Handler]
          /\ \A d \in Conns \ {c} : handler'[d] = handler[d]
          /\ handler'[c].pc = "reply" /\ handler'[c].toSend # <<>>
          /\ handler'[c].gameSessionId = handler[c].gameSessionId
      BY <3>1, TextType, AnswerFacts
    <3>4. socket' \in [Conns -> Socket] /\ crashed' \in BOOLEAN /\ commands' \in 0 .. MaxCommands
      BY <2>1 DEF TypeOK
    <3> HIDE DEF s
    <3> QED
      <4>1. SessionChange(c, s, games[s])
        BY <1>1, <2>1, <2>3, <3>2, <3>3, <3>4 DEF SessionChange
      <4> QED BY <2>1, <2>2, <4>1, SessionStep
  <2> QED BY <2>4, <2>5
<1> QED BY <1>3, <1>4, <1>5

(* The calls on a session, with gameMutex taken, held or released.         *)
LEMMA LockedStep ==
    ASSUME IndInv, NEW c \in Conns,
           \/ addClientSocket(c) \/ broadcastGameState(c) \/ unlock(c)
           \/ \E result \in {"none", "win", "empty"} : makeMove(c, result)
    PROVE  IndInv'
<1> DEFINE s == handler[c].gameSessionId
<1>1. handler[c] \in Handler /\ games \in Seq(Game) /\ sessionsMutex \in Conns \cup {Free}
      /\ handler \in [Conns -> Handler] /\ Free \notin Conns
  BY ConstantsAssumption DEF IndInv, TypeOK
<1>2. /\ handler[c].pc \in {"addSocket", "broadcast", "makeMove", "sending"}
      /\ UNCHANGED <<sessionsMutex, socket, crashed, commands>>
  BY DEF addClientSocket, broadcastGameState, unlock, makeMove, At
<1>3. s \in DOMAIN games /\ sessionsMutex # c
  BY <1>2 DEF IndInv, Located, Held
<1>4. games[s] \in Game /\ Len(games) \in Nat /\ DOMAIN games = 1 .. Len(games)
  BY <1>1, <1>3, ElementOfSeq, LenProperties
<1>5. /\ socket' \in [Conns -> Socket] /\ crashed' \in BOOLEAN
      /\ commands' \in 0 .. MaxCommands
  BY <1>2 DEF IndInv, TypeOK
<1>6. CASE addClientSocket(c)
  <2> DEFINE game == [games[s] EXCEPT !.clientSockets = Append(games[s].clientSockets, c)]
  <2>1. games' = [games EXCEPT ![s] = game]
    BY <1>1, <1>3, <1>4, <1>6 DEF addClientSocket
  <2>2. Append(games[s].clientSockets, c) \in Seq(Conns)
    BY <1>4, AppendProperties DEF Game
  <2>3. game \in Game /\ game.gameMutex = Free /\ games[s].gameMutex = Free
    BY <1>4, <1>6, <2>2 DEF Game, addClientSocket, Session
  <2>4. handler[c].pc = "addSocket"
    BY <1>6 DEF addClientSocket, At
  <2>5. /\ handler' \in [Conns -> Handler]
        /\ \A d \in Conns \ {c} : handler'[d] = handler[d]
        /\ handler'[c].gameSessionId = s
        /\ handler'[c].pc \in {"broadcast", "reply"}
        /\ handler'[c].pc = "reply" => handler'[c].toSend # <<>>
    <3>1. "broadcast" \in Places
      BY DEF Places
    <3>2. Goto(c, "broadcast") \/ Answer(c, Text)
      BY <1>6 DEF addClientSocket, AfterAdding
    <3> QED BY <3>1, <3>2, GotoFacts, AnswerFacts, TextType
  <2> HIDE DEF game, s
  <2>6. SessionChange(c, s, game)
    BY <1>1, <1>2, <1>3, <1>5, <2>1, <2>3, <2>4, <2>5 DEF SessionChange
  <2> QED BY <1>3, <2>3, <2>6, SessionStep
<1>7. CASE broadcastGameState(c)
  <2> DEFINE game == [games[s] EXCEPT !.gameMutex = c]
             state == [type |-> "state", game |-> s, version |-> games[s].version]
  <2>1. games' = [games EXCEPT ![s] = game] /\ handler[c].pc = "broadcast"
        /\ games[s].gameMutex = Free
    BY <1>1, <1>3, <1>4, <1>7 DEF broadcastGameState, At
  <2>2. game \in Game /\ game.gameMutex = c
    BY <1>4 DEF Game
  <2>3. ToAll(games[s].clientSockets, state) \in Seq(Outgoing)
    <3>1. state \in Message /\ games[s].clientSockets \in Seq(Conns)
      BY <1>1, <1>4 DEF Message, Game, Handler
    <3> QED BY <3>1, ToAllFacts
  <2>4. handler'[c] = [pc |-> "sending", command |-> handler[c].command,
                       clientId |-> handler[c].clientId, gameSessionId |-> s,
                       joining |-> handler[c].joining,
                       toSend |-> ToAll(games[s].clientSockets, state)]
    BY <1>1, <1>7 DEF broadcastGameState, Handler
  <2>5. /\ handler' \in [Conns -> Handler]
        /\ \A d \in Conns \ {c} : handler'[d] = handler[d]
    <3>1. handler'[c] \in Handler
      BY <1>1, <2>3, <2>4 DEF Handler, Places
    <3> QED BY <1>1, <1>7, <3>1 DEF broadcastGameState
  <2>6. handler'[c].pc = "sending" /\ handler'[c].gameSessionId = s
    BY <2>4
  <2> HIDE DEF game, s
  <2>7. SessionChange(c, s, game)
    BY <1>1, <1>2, <1>3, <1>5, <2>1, <2>2, <2>5, <2>6 DEF SessionChange
  <2> QED BY <1>3, <2>2, <2>7, SessionStep
<1>8. ASSUME NEW result \in {"none", "win", "empty"}, makeMove(c, result)
      PROVE  IndInv'
  <2> DEFINE game == [games[s] EXCEPT !.version = games[s].version + 1,
                                      !.over = result # "none", !.gameMutex = c]
             state == [type |-> "state", game |-> s, version |-> games[s].version + 1]
  <2>1. games' = [games EXCEPT ![s] = game] /\ handler[c].pc = "makeMove"
        /\ games[s].gameMutex = Free /\ games[s].version < MaxMoves
    BY <1>1, <1>3, <1>4, <1>8 DEF makeMove, At, MayMove
  <2>2. games[s].version + 1 \in 0 .. MaxMoves
    <3>1. games[s].version \in 0 .. MaxMoves
      BY <1>4 DEF Game
    <3> QED BY <2>1, <3>1, ConstantsAssumption
  <2>3. game \in Game /\ game.gameMutex = c
    BY <1>4, <2>2 DEF Game
  <2>4. MoveMessages(games[s].clientSockets, state, result) \in Seq(Outgoing)
    <3>1. state \in Message /\ games[s].clientSockets \in Seq(Conns)
      BY <1>1, <1>4, <2>2 DEF Message, Game, Handler
    <3> QED BY <1>8, <3>1, MoveMessagesType
  <2>5. handler'[c] = [pc |-> "sending", command |-> handler[c].command,
                       clientId |-> handler[c].clientId, gameSessionId |-> s,
                       joining |-> handler[c].joining,
                       toSend |-> MoveMessages(games[s].clientSockets, state, result)]
    BY <1>1, <1>8 DEF makeMove, Handler
  <2>6. /\ handler' \in [Conns -> Handler]
        /\ \A d \in Conns \ {c} : handler'[d] = handler[d]
    <3>1. handler'[c] \in Handler
      BY <1>1, <2>4, <2>5 DEF Handler, Places
    <3> QED BY <1>1, <1>8, <3>1 DEF makeMove
  <2>7. handler'[c].pc = "sending" /\ handler'[c].gameSessionId = s
    BY <2>5
  <2> HIDE DEF game, s
  <2>8. SessionChange(c, s, game)
    BY <1>1, <1>2, <1>3, <1>5, <2>1, <2>3, <2>6, <2>7 DEF SessionChange
  <2> QED BY <1>3, <2>3, <2>8, SessionStep
<1>9. CASE unlock(c)
  <2> DEFINE game == [games[s] EXCEPT !.gameMutex = Free]
  <2>1. games' = [games EXCEPT ![s] = game] /\ handler[c].pc = "sending"
    BY <1>1, <1>3, <1>4, <1>9 DEF unlock, At
  <2>2. game \in Game /\ game.gameMutex = Free /\ games[s].gameMutex = c
    BY <1>4, <2>1 DEF Game, IndInv, Located
  <2>3. /\ handler' \in [Conns -> Handler]
        /\ \A d \in Conns \ {c} : handler'[d] = handler[d]
        /\ handler'[c].gameSessionId = s
        /\ handler'[c].pc \in {"receive", "reply"}
        /\ handler'[c].pc = "reply" => handler'[c].toSend # <<>>
    <3>1. Answer(c, Joined(c)) \/ Done(c)
      BY <1>9 DEF unlock
    <3> QED BY <3>1, JoinedType, AnswerFacts, DoneFacts
  <2>5. handler[c].gameSessionId = s
    OBVIOUS
  <2> HIDE DEF game, s
  <2>4. SessionChange(c, s, game)
    <3>1. \A d \in Conns \ {c} : game.gameMutex # d /\ games[s].gameMutex # d
      BY <1>1, <2>2
    <3>2. game.gameMutex # c
      BY <1>1, <2>2
    <3>3. handler[c].pc = "joinGame" <=> sessionsMutex = c
      BY <1>3, <2>1
    <3>4. sessionsMutex' = sessionsMutex /\ handler[c].pc # "joinGame"
      BY <1>2, <1>9, <2>1 DEF unlock
    <3> QED BY <1>1, <1>5, <2>1, <2>3, <2>5, <3>1, <3>2, <3>3, <3>4 DEF SessionChange
  <2> QED BY <1>3, <2>2, <2>4, SessionStep
<1> QED BY <1>6, <1>7, <1>8, <1>9

(* A send of a loop under gameMutex, and what the clients do.              *)
LEMMA SocketStep ==
    ASSUME IndInv, NEW c \in Conns,
           sendToClient(c) \/ ClientReads(c) \/ ClientCloses(c)
    PROVE  IndInv'
<1>1. handler[c] \in Handler /\ handler \in [Conns -> Handler]
      /\ socket[c] \in Socket /\ socket \in [Conns -> Socket]
  BY DEF IndInv, TypeOK
<1>2. CASE sendToClient(c)
  <2> DEFINE next == Head(handler[c].toSend)
  <2>1. /\ handler[c].pc = "sending" /\ handler[c].toSend # <<>>
        /\ handler[c].toSend \in Seq(Outgoing)
        /\ UNCHANGED <<games, sessionsMutex, commands>>
    BY <1>1, <1>2 DEF sendToClient, At, Handler
  <2>2. next \in Outgoing /\ Tail(handler[c].toSend) \in Seq(Outgoing)
    BY <2>1, HeadTailProperties
  <2>3. next.to \in Conns /\ next.msg \in Message /\ Transmit(next.to, next.msg)
    BY <1>2, <2>2 DEF Outgoing, sendToClient
  <2>4. socket' \in [Conns -> Socket] /\ crashed' \in BOOLEAN
    BY <2>3, TransmitType
  <2>5. handler' \in [Conns -> Handler]
    BY <1>1, <1>2, <2>2 DEF sendToClient, Handler
  <2>6. \A d \in Conns : /\ handler'[d].pc = handler[d].pc
                         /\ handler'[d].gameSessionId = handler[d].gameSessionId
                         /\ handler'[d].joining = handler[d].joining
                         /\ handler'[d].clientId = handler[d].clientId
                         /\ d # c => handler'[d].toSend = handler[d].toSend
    BY <1>1, <1>2 DEF sendToClient, Handler
  <2>7. TypeOK'
    BY <2>1, <2>4, <2>5, <2>6 DEF IndInv, TypeOK
  <2>8. Located' /\ Held'
    BY <2>1, <2>6 DEF IndInv, Located, Held
  <2> QED BY <2>7, <2>8 DEF IndInv
<1>3. CASE ClientReads(c) \/ ClientCloses(c)
  <2>1. UNCHANGED <<games, sessionsMutex, handler, crashed, commands>>
    BY <1>3 DEF ClientReads, ClientCloses
  <2>2. socket' \in [Conns -> Socket]
    <3>1. CASE ClientReads(c)
      <4>1. socket[c].unread \in 0 .. Capacity /\ socket[c].unread > 0
        BY <1>1, <3>1 DEF Socket, ClientReads
      <4>2. socket[c].unread - 1 \in 0 .. Capacity
        BY <4>1, ConstantsAssumption
      <4> QED BY <1>1, <3>1, <4>2 DEF ClientReads, Socket
    <3>2. CASE ClientCloses(c)
      <4>1. 0 \in 0 .. Capacity
        BY ConstantsAssumption
      <4> QED BY <1>1, <3>2, <4>1 DEF ClientCloses, Socket
    <3> QED BY <1>3, <3>1, <3>2
  <2>3. TypeOK' /\ Located' /\ Held'
    BY <2>1, <2>2 DEF IndInv, TypeOK, Located, Held
  <2> QED BY <2>3 DEF IndInv
<1> QED BY <1>2, <1>3

LEMMA IndInvNext == IndInv /\ [Next]_vars => IndInv'
<1> SUFFICES ASSUME IndInv, [Next]_vars
             PROVE  IndInv'
  OBVIOUS
<1>1. CASE UNCHANGED vars
  BY <1>1 DEF vars, IndInv, TypeOK, Located, Held
<1>2. ASSUME NEW c \in Conns,
             Command(c) \/ Handle(c) \/ ClientReads(c) \/ ClientCloses(c)
      PROVE  IndInv'
  BY <1>2, CommandStep, PlainStep, RegistryStep, LockedStep, SocketStep DEF Handle
<1> QED BY <1>1, <1>2 DEF Next

LEMMA Inductive == Spec => []IndInv
<1>1. Init => IndInv
  <2> SUFFICES ASSUME Init PROVE IndInv
    OBVIOUS
  <2>1. [c \in Conns |-> Unknown] \in [Conns -> Names \cup {Unknown}]
    OBVIOUS
  <2> QED BY <2>1, IndInvInit DEF Init
<1> QED BY <1>1, IndInvNext, PTL DEF Spec

(* The types, and that a handler that works on a session has one.          *)
THEOREM TypeCorrect == Spec => []TypeOK
<1>1. IndInv => TypeOK
  BY DEF IndInv
<1> QED BY <1>1, Inductive, PTL

(* No handlers wait for one another: the holder of a game's mutex is in    *)
(* its sends and waits for no mutex, and the holder of sessionsMutex waits *)
(* for a game's at most.                                                   *)
THEOREM NoDeadlock == Spec => []NoCircularWait
<1>1. IndInv => NoCircularWait
  <2> SUFFICES ASSUME IndInv, NEW S \in SUBSET Conns, S # {}, \A c \in S : WaitsFor(c) \in S
               PROVE  FALSE
    BY DEF NoCircularWait
  <2>1. \A d \in S : handler[d].pc # "sending"
    BY ConstantsAssumption DEF WaitsFor
  <2>2. \A d \in S : handler[d].pc # "joinGame"
    <3> SUFFICES ASSUME NEW d \in S, handler[d].pc = "joinGame" PROVE FALSE
      OBVIOUS
    <3>1. WaitsFor(d) = games[handler[d].joining].gameMutex /\ WaitsFor(d) \in S
      BY DEF WaitsFor
    <3>2. handler[d].joining \in DOMAIN games
      BY DEF IndInv, Located
    <3>3. handler[WaitsFor(d)].pc = "sending"
      BY <3>1, <3>2 DEF IndInv, Held
    <3> QED BY <2>1, <3>1, <3>3
  <2>3. PICK c \in S : TRUE
    OBVIOUS
  <2>4. CASE handler[c].pc \in {"create", "join", "lookup"}
    <3>1. WaitsFor(c) = sessionsMutex
      BY <2>4 DEF WaitsFor
    <3> QED BY <2>2, <3>1 DEF IndInv, Held
  <2>5. CASE handler[c].pc \in {"addSocket", "broadcast", "makeMove"}
    <3>1. WaitsFor(c) = games[handler[c].gameSessionId].gameMutex
      BY <2>5 DEF WaitsFor, Session
    <3>2. handler[c].gameSessionId \in DOMAIN games
      BY <2>5 DEF IndInv, Located
    <3> QED BY <2>1, <3>1, <3>2 DEF IndInv, Held
  <2>6. CASE handler[c].pc \notin {"create", "join", "lookup", "addSocket", "broadcast",
                                   "makeMove", "joinGame"}
    BY <2>6, ConstantsAssumption DEF WaitsFor
  <2> QED BY <2>2, <2>4, <2>5, <2>6
<1> QED BY <1>1, Inductive, PTL

-----------------------------------------------------------------------------
(* What is on its way to the clients of the sessions, and what they have.  *)
Among(c, s) == \E k \in DOMAIN games[s].clientSockets : games[s].clientSockets[k] = c

Shown(c, s) == \E i \in DOMAIN socket[c].sent : BoardAt(c, s, i)

Pending(h, c) ==
    \E k \in DOMAIN handler[h].toSend :
        handler[h].toSend[k].to = c /\ handler[h].toSend[k].msg.type = "state"

(* Boards are sent to those who are among a session's sockets.             *)
Listed ==
    \A c \in Conns : \A i \in DOMAIN socket[c].sent :
        socket[c].sent[i].type = "state" =>
            socket[c].sent[i].game \in DOMAIN games /\ Among(c, socket[c].sent[i].game)

(* The board a winner is announced after.                                  *)
FinalBoard(msg) == [msg EXCEPT !.type = "state"]

(* A broadcast sends its session's board as it is, and a winner after it.  *)
Sound(h, k) ==
    LET out == handler[h].toSend[k]
    IN  /\ out.msg.type \in {"state", "win", "empty"}
        /\ out.msg.type = "state" =>
              /\ out.msg.game = handler[h].gameSessionId
              /\ out.msg.version = games[handler[h].gameSessionId].version
              /\ Among(out.to, handler[h].gameSessionId)
        /\ out.msg.type = "win" /\ socket[out.to].peer = "open" =>
              \/ \E j \in DOMAIN handler[h].toSend :
                    /\ j < k /\ handler[h].toSend[j].to = out.to
                    /\ handler[h].toSend[j].msg = FinalBoard(out.msg)
              \/ \E i \in DOMAIN socket[out.to].sent :
                    socket[out.to].sent[i] = FinalBoard(out.msg)

InFlight ==
    \A h \in Conns : handler[h].pc = "sending" =>
        \A k \in DOMAIN handler[h].toSend : Sound(h, k)

(* An answer is no board, and "Joined game" goes to one who has the board. *)
Replies ==
    \A h \in Conns : handler[h].pc = "reply" =>
        \A k \in DOMAIN handler[h].toSend :
            LET msg == handler[h].toSend[k].msg
            IN  /\ msg.type \in {"text", "joined"}
                /\ msg.type = "joined" /\ socket[h].peer = "open" => Shown(h, msg.game)

(* The last board a client has is the session's, or the one before while   *)
(* the holder of the mutex has still to send it the new one.               *)
Latest ==
    \A c \in Conns, s \in DOMAIN games : \A i \in DOMAIN socket[c].sent :
        socket[c].peer = "open" /\ LatestBoard(c, s, i) =>
            \/ socket[c].sent[i].version = games[s].version
            \/ /\ socket[c].sent[i].version = games[s].version - 1
               /\ \E h \in Conns : games[s].gameMutex = h /\ Pending(h, c)

(* A handler goes when its client has gone.                                *)
Gone == \A h \in Conns : handler[h].pc = "closed" => socket[h].peer # "open"

(* A joiner is added to the sockets before the broadcast, which is for it. *)
Joining ==
    \A h \in Conns :
        /\ handler[h].pc = "broadcast" => Among(h, handler[h].gameSessionId)
        /\ handler[h].pc = "makeMove" => handler[h].command # "JOIN"
        /\ handler[h].pc = "sending" /\ handler[h].command = "JOIN" /\ socket[h].peer = "open" =>
              Pending(h, h) \/ Shown(h, handler[h].gameSessionId)

Broadcasting ==
    /\ Listed /\ InFlight /\ Replies /\ Latest /\ Gone /\ Joining
    /\ BoardsInOrder /\ JoinedClientSeesBoard /\ WinAfterBoard

-----------------------------------------------------------------------------
(* A step of h after which it sends nothing and has nothing new to claim.  *)
Harmless(h) ==
    /\ handler[h].pc # "sending" /\ handler'[h].pc # "sending"
    /\ handler'[h].pc = "reply" =>
          \A k \in DOMAIN handler'[h].toSend : handler'[h].toSend[k].msg.type = "text"
    /\ handler'[h].pc = "broadcast" => Among(h, handler[h].gameSessionId)'
    /\ handler'[h].pc = "makeMove" => handler'[h].command # "JOIN"
    /\ handler'[h].pc = "closed" => socket[h].peer # "open"

(* A step that sends nothing, and neither takes nor releases a game's      *)
(* mutex.                                                                  *)
LEMMA SilentStep ==
    ASSUME IndInv, Broadcasting,
           \A c \in Conns : /\ socket'[c].sent = socket[c].sent
                            /\ socket'[c].peer = "open" => socket[c].peer = "open",
           DOMAIN games \subseteq DOMAIN games',
           \A s \in DOMAIN games :
                /\ games'[s].version = games[s].version
                /\ games'[s].gameMutex = games[s].gameMutex
                /\ \A c \in Conns : Among(c, s) => Among(c, s)',
           \A h \in Conns : handler'[h] = handler[h] \/ Harmless(h)
    PROVE  Broadcasting'
<1> USE DEF Broadcasting
<1>2. \A c \in Conns : \A s, i : /\ BoardAt(c, s, i)' = BoardAt(c, s, i)
                                 /\ LatestBoard(c, s, i)' = LatestBoard(c, s, i)
                                 /\ Shown(c, s)' = Shown(c, s)
  BY DEF BoardAt, LatestBoard, Shown
<1>3. \A h \in Conns : handler[h].pc = "sending" =>
          handler'[h] = handler[h] /\ handler[h].gameSessionId \in DOMAIN games
  BY DEF Harmless, IndInv, Located
<1>4. Listed'
  BY DEF Listed
<1>5. \A h \in Conns : \A k \in DOMAIN handler[h].toSend :
          handler[h].pc = "sending" => handler[h].toSend[k].to \in Conns
  <2> SUFFICES ASSUME NEW h \in Conns, NEW k \in DOMAIN handler[h].toSend
               PROVE  handler[h].toSend[k].to \in Conns
    OBVIOUS
  <2>1. handler[h].toSend \in Seq(Outgoing)
    BY DEF IndInv, TypeOK, Handler
  <2>2. handler[h].toSend[k] \in Outgoing
    BY <2>1, ElementOfSeq, LenProperties
  <2> QED BY <2>2 DEF Outgoing
<1>6. InFlight'
  <2> SUFFICES ASSUME NEW h \in Conns, handler'[h].pc = "sending",
                      NEW k \in DOMAIN handler'[h].toSend
               PROVE  Sound(h, k)'
    BY DEF InFlight
  <2>1. handler[h].pc = "sending" /\ handler'[h] = handler[h]
        /\ handler[h].gameSessionId \in DOMAIN games
    BY <1>3 DEF Harmless
  <2>2. handler[h].toSend[k].to \in Conns
    BY <1>5, <2>1
  <2>3. Sound(h, k)
    BY <2>1 DEF InFlight
  <2> QED BY <2>1, <2>2, <2>3 DEF Sound
<1>7. Replies'
  BY <1>2 DEF Replies, Harmless
<1>8. Latest'
  <2> SUFFICES ASSUME NEW c \in Conns, NEW s \in DOMAIN games', NEW i \in DOMAIN socket'[c].sent,
                      socket'[c].peer = "open", LatestBoard(c, s, i)'
               PROVE  \/ socket'[c].sent[i].version = games'[s].version
                      \/ /\ socket'[c].sent[i].version = games'[s].version - 1
                         /\ \E h \in Conns : games'[s].gameMutex = h /\ Pending(h, c)'
    BY DEF Latest
  <2>1. LatestBoard(c, s, i) /\ i \in DOMAIN socket[c].sent /\ socket[c].peer = "open"
    BY <1>2
  <2>2. s \in DOMAIN games
    BY <2>1 DEF Listed, LatestBoard, BoardAt
  <2>3. \A h \in Conns : games[s].gameMutex = h /\ Pending(h, c) => Pending(h, c)'
    BY <1>3, <2>2 DEF IndInv, Held, Pending
  <2> QED BY <2>1, <2>2, <2>3 DEF Latest
<1>9. Gone'
  BY DEF Gone, Harmless
<1>10. Joining'
  <2> SUFFICES ASSUME NEW h \in Conns
               PROVE  /\ handler'[h].pc = "broadcast" => Among(h, handler[h].gameSessionId)'
                      /\ handler'[h].pc = "makeMove" => handler'[h].command # "JOIN"
                      /\ handler'[h].pc = "sending" /\ handler'[h].command = "JOIN"
                            /\ socket'[h].peer = "open" =>
                            Pending(h, h)' \/ Shown(h, handler[h].gameSessionId)'
    BY DEF Joining
  <2>1. CASE handler'[h] = handler[h]
    <3>1. handler[h].pc = "broadcast" => handler[h].gameSessionId \in DOMAIN games
      BY DEF IndInv, Located
    <3>2. handler[h].pc = "broadcast" => Among(h, handler[h].gameSessionId)'
      BY <2>1, <3>1 DEF Joining, Among
    <3>3. Pending(h, h)' = Pending(h, h)
      BY <2>1 DEF Pending
    <3> QED BY <1>2, <2>1, <3>2, <3>3 DEF Joining, Shown, BoardAt
  <2>2. CASE Harmless(h)
    BY <2>2 DEF Harmless
  <2> QED BY <2>1, <2>2
<1>11. BoardsInOrder'
  <2>1. ASSUME NEW c \in Conns, NEW s \in DOMAIN games', NEW i \in DOMAIN socket[c].sent,
               BoardAt(c, s, i)
        PROVE  s \in DOMAIN games
    BY <2>1 DEF Listed, BoardAt
  <2> QED BY <1>2, <2>1 DEF BoardsInOrder
<1>12. JoinedClientSeesBoard' /\ WinAfterBoard'
  BY <1>2, SMTT(30) DEF JoinedClientSeesBoard, WinAfterBoard
<1> QED BY <1>4, <1>6, <1>7, <1>8, <1>9, <1>10, <1>11, <1>12

(* Commands, and what a handler does without sending.                      *)
LEMMA SilentActions ==
    ASSUME IndInv, Broadcasting, NEW c \in Conns,
           \/ Command(c) \/ getGameSession(c) \/ makeMoveRefused(c) \/ disconnected(c)
           \/ createGameSession(c) \/ joinGameSession(c) \/ joinGame(c) \/ addClientSocket(c)
    PROVE  Broadcasting'
<1> DEFINE s == handler[c].gameSessionId
<1>1. /\ handler \in [Conns -> Handler] /\ games \in Seq(Game) /\ Free \notin Conns
      /\ Len(games) \in Nat /\ DOMAIN games = 1 .. Len(games)
  BY LenProperties, ConstantsAssumption DEF IndInv, TypeOK
<1>2. /\ UNCHANGED socket
      /\ handler[c].pc \in {"receive", "lookup", "makeMove", "create", "join", "joinGame", "addSocket"}
      /\ \A d \in Conns \ {c} : handler'[d] = handler[d]
  BY <1>1 DEF Command, LOGIN, CREATE, JOIN, MOVE, ShowState, AnswerAtOnce, Dispatch, Receives,
     getGameSession, makeMoveRefused, disconnected, createGameSession, joinGameSession, joinGame,
     addClientSocket, AfterAdding, Answer, Goto, At
<1>3. ASSUME Answer(c, Text)
      PROVE  Harmless(c)
  <2>1. handler'[c].toSend = <<[to |-> c, msg |-> Text]>> /\ handler'[c].pc = "reply"
    BY <1>3, TextType, AnswerFacts
  <2>2. \A k \in DOMAIN handler'[c].toSend : handler'[c].toSend[k].msg.type = "text"
    BY <2>1 DEF Text
  <2> QED BY <1>2, <2>1, <2>2 DEF Harmless
<1>4. CASE UNCHANGED games
  <2>1. Harmless(c)
    <3>1. CASE Command(c)
      <4>1. CASE \E username \in Names : LOGIN(c, username)
        <5>1. /\ handler'[c].toSend = <<[to |-> c, msg |-> Text]>> /\ handler'[c].pc = "reply"
          BY <1>1, <4>1 DEF LOGIN, Handler
        <5>2. \A k \in DOMAIN handler'[c].toSend : handler'[c].toSend[k].msg.type = "text"
          BY <5>1 DEF Text
        <5> QED BY <1>2, <5>1, <5>2 DEF Harmless
      <4>2. CASE AnswerAtOnce(c)
        BY <1>3, <4>2 DEF AnswerAtOnce
      <4>3. CASE CREATE(c) \/ MOVE(c) \/ ShowState(c) \/ \E sessionId \in 1 .. MaxGames : JOIN(c, sessionId)
        <5>1. handler'[c].pc \in {"create", "lookup", "join"}
          BY <1>1, <4>3 DEF CREATE, MOVE, ShowState, JOIN, Dispatch, Handler
        <5> QED BY <1>2, <5>1 DEF Harmless
      <4> QED BY <3>1, <4>1, <4>2, <4>3 DEF Command
    <3>2. CASE getGameSession(c)
      <4>1. \/ Goto(c, "addSocket") \/ (handler[c].command = "MOVE" /\ Goto(c, "makeMove"))
            \/ Answer(c, Text)
        BY <3>2 DEF getGameSession
      <4>2. CASE Goto(c, "addSocket") \/ (handler[c].command = "MOVE" /\ Goto(c, "makeMove"))
        <5>1. /\ handler'[c].pc \in {"addSocket", "makeMove"}
              /\ handler'[c].command = handler[c].command
              /\ handler'[c].pc = "makeMove" => handler[c].command = "MOVE"
          BY <1>1, <4>2 DEF Goto, Handler
        <5> QED BY <1>2, <5>1 DEF Harmless
      <4> QED BY <1>3, <4>1, <4>2
    <3>3. CASE makeMoveRefused(c)
      BY <1>3, <3>3 DEF makeMoveRefused
    <3>4. CASE disconnected(c)
      <4>1. handler'[c].pc = "closed" /\ socket[c].peer # "open"
        BY <1>1, <3>4 DEF disconnected, Goto, Handler
      <4> QED BY <1>2, <4>1 DEF Harmless
    <3>5. CASE joinGameSession(c)
      <4>1. Goto(c, "joinGame") \/ Answer(c, Text)
        BY <3>5 DEF joinGameSession
      <4>2. CASE Goto(c, "joinGame")
        <5>1. handler'[c].pc = "joinGame"
          BY <1>1, <4>2 DEF Goto, Handler
        <5> QED BY <1>2, <5>1 DEF Harmless
      <4> QED BY <1>3, <4>1, <4>2
    <3>6. CASE joinGame(c)
      <4>1. Answer(c, Text) \/ handler'[c].pc = "lookup"
        BY <1>1, <3>6 DEF joinGame, Handler
      <4> QED BY <1>2, <1>3, <4>1 DEF Harmless
    <3>7. CASE createGameSession(c)
      BY <1>1, <1>2, <3>7 DEF createGameSession, Harmless, Handler
    <3>8. CASE addClientSocket(c)
      <4>1. games[s] \in Game /\ s \in DOMAIN games
        BY <1>1, <3>8, ElementOfSeq DEF addClientSocket, At, IndInv, Located
      <4>2. games'[s].clientSockets = Append(games[s].clientSockets, c)
        BY <1>1, <3>8, <4>1 DEF addClientSocket, Game
      <4>3. Len(Append(games[s].clientSockets, c)) = Len(games[s].clientSockets) + 1
            /\ games[s].clientSockets \in Seq(Conns)
        BY <4>1, AppendProperties DEF Game
      <4>4. games'[s].clientSockets # games[s].clientSockets
        BY <4>2, <4>3, LenProperties
      <4> QED BY <1>4, <4>4
    <3> QED BY <3>1, <3>2, <3>3, <3>4, <3>5, <3>6, <3>7, <3>8
  <2>2. \A r \in DOMAIN games, d \in Conns : Among(d, r) => Among(d, r)'
    BY <1>4 DEF Among
  <2> QED BY <1>2, <1>4, <2>1, <2>2, SilentStep
<1>5. CASE createGameSession(c)
  <2> DEFINE game == [player1 |-> handler[c].clientId, player2 |-> Nobody, version |-> 0,
                      over |-> FALSE, clientSockets |-> <<>>, gameMutex |-> Free]
  <2>1. games' = Append(games, game) /\ handler[c].pc = "create"
    BY <1>5 DEF createGameSession, At
  <2>2. game \in Game
    <3>1. handler[c].clientId \in Names
      BY <2>1 DEF IndInv, Located
    <3> QED BY <3>1, EmptySeq, ConstantsAssumption DEF Game
  <2> HIDE DEF game
  <2>3. DOMAIN games \subseteq DOMAIN games' /\ \A r \in DOMAIN games : games'[r] = games[r]
    BY <1>1, <2>1, <2>2, AppendProperties, LenProperties
  <2>4. \A r \in DOMAIN games, d \in Conns : Among(d, r) => Among(d, r)'
    BY <2>3 DEF Among
  <2>5. Harmless(c)
    <3>1. handler'[c].pc = "lookup"
      BY <1>1, <1>5 DEF createGameSession, Handler
    <3> QED BY <1>2, <3>1 DEF Harmless
  <2> QED BY <1>2, <2>3, <2>4, <2>5, SilentStep
<1>6. CASE joinGame(c) /\ ~UNCHANGED games
  <2> DEFINE r == handler[c].joining
  <2>1. /\ games' = [games EXCEPT ![r].player2 = handler[c].clientId]
        /\ r \in DOMAIN games /\ handler'[c].pc = "lookup"
    <3>1. r \in DOMAIN games
      BY <1>6 DEF joinGame, At, IndInv, Located
    <3>2. games[r].player2 = Nobody /\ games[r].player1 # handler[c].clientId
      BY <1>6 DEF joinGame
    <3> QED BY <1>1, <1>6, <3>1, <3>2 DEF joinGame, Handler
  <2>2. games[r] \in Game
    BY <1>1, <2>1, ElementOfSeq
  <2> HIDE DEF r
  <2>3. /\ DOMAIN games' = DOMAIN games
        /\ \A q \in DOMAIN games : /\ games'[q].version = games[q].version
                                   /\ games'[q].gameMutex = games[q].gameMutex
                                   /\ games'[q].clientSockets = games[q].clientSockets
    BY <1>1, <2>1, <2>2 DEF Game
  <2>4. \A q \in DOMAIN games, d \in Conns : Among(d, q) => Among(d, q)'
    BY <2>3 DEF Among
  <2>5. Harmless(c)
    BY <1>2, <2>1 DEF Harmless
  <2> QED BY <1>2, <2>3, <2>4, <2>5, SilentStep
<1>7. CASE addClientSocket(c)
  <2>1. s \in DOMAIN games
    BY <1>7 DEF addClientSocket, At, IndInv, Located
  <2>2. games[s] \in Game /\ games[s].clientSockets \in Seq(Conns)
    <3>1. games[s] \in Game
      BY <1>1, <2>1, ElementOfSeq
    <3> QED BY <3>1 DEF Game
  <2>3. games' = [games EXCEPT ![s].clientSockets = Append(games[s].clientSockets, c)]
    BY <1>1, <1>7, <2>1 DEF addClientSocket
  <2>4. handler'[c].gameSessionId = s /\ handler'[c].pc \in {"broadcast", "reply"}
        /\ (handler'[c].pc = "reply" => Answer(c, Text))
    <3>1. Goto(c, "broadcast") \/ Answer(c, Text)
      BY <1>7 DEF addClientSocket, AfterAdding
    <3>2. CASE Goto(c, "broadcast")
      BY <1>1, <3>2 DEF Goto, Handler
    <3>3. CASE Answer(c, Text)
      BY <3>3, AnswerFacts, TextType
    <3> QED BY <3>1, <3>2, <3>3
  <2> HIDE DEF s
  <2>5. LET n == Len(games[s].clientSockets)
            more == Append(games[s].clientSockets, c)
        IN  /\ DOMAIN games[s].clientSockets = 1 .. n /\ DOMAIN more = 1 .. n + 1 /\ n \in Nat
            /\ more[n + 1] = c /\ \A k \in 1 .. n : more[k] = games[s].clientSockets[k]
    BY <2>2, AppendProperties, LenProperties
  <2>6. /\ DOMAIN games' = DOMAIN games
        /\ \A q \in DOMAIN games : /\ games'[q].version = games[q].version
                                   /\ games'[q].gameMutex = games[q].gameMutex
                                   /\ q # s => games'[q].clientSockets = games[q].clientSockets
        /\ games'[s].clientSockets = Append(games[s].clientSockets, c)
    BY <1>1, <2>1, <2>2, <2>3 DEF Game
  <2>7. \A q \in DOMAIN games, d \in Conns : Among(d, q) => Among(d, q)'
    <3> SUFFICES ASSUME NEW q \in DOMAIN games, NEW d \in Conns, Among(d, q)
                 PROVE  Among(d, q)'
      OBVIOUS
    <3>1. CASE q = s
      BY <2>5, <2>6, <3>1 DEF Among
    <3>2. CASE q # s
      BY <2>6, <3>2 DEF Among
    <3> QED BY <3>1, <3>2
  <2>8. Among(c, handler[c].gameSessionId)'
    <3>1. \E k \in DOMAIN games'[s].clientSockets : games'[s].clientSockets[k] = c
      BY <2>5, <2>6
    <3> QED BY <2>4, <3>1 DEF Among
  <2>9. Harmless(c)
    <3>1. CASE handler'[c].pc = "reply"
      BY <1>3, <2>4, <3>1
    <3>2. CASE handler'[c].pc = "broadcast"
      BY <1>2, <2>8, <3>2 DEF Harmless
    <3> QED BY <2>4, <3>1, <3>2
  <2> QED BY <1>2, <2>6, <2>7, <2>9, SilentStep
<1>8. UNCHANGED games \/ createGameSession(c) \/ joinGame(c) \/ addClientSocket(c)
  BY DEF Command, LOGIN, CREATE, JOIN, MOVE, ShowState, AnswerAtOnce, Dispatch,
     getGameSession, makeMoveRefused, disconnected, joinGameSession
<1> QED BY <1>4, <1>5, <1>6, <1>7, <1>8

(* What the clients do, and a step that does nothing.                      *)
LEMMA ClientActions ==
    ASSUME IndInv, Broadcasting,
           UNCHANGED vars \/ \E c \in Conns : ClientReads(c) \/ ClientCloses(c)
    PROVE  Broadcasting'
<1>1. UNCHANGED <<games, handler>>
  BY DEF vars, ClientReads, ClientCloses
<1>2. \A c \in Conns : /\ socket'[c].sent = socket[c].sent
                       /\ socket'[c].peer = "open" => socket[c].peer = "open"
  <2>1. socket \in [Conns -> Socket]
    BY DEF IndInv, TypeOK
  <2>2. CASE socket' = socket
    BY <2>2
  <2>3. ASSUME NEW c \in Conns, ClientReads(c)
        PROVE  \A d \in Conns : socket'[d].sent = socket[d].sent /\ socket'[d].peer = socket[d].peer
    BY <2>1, <2>3 DEF ClientReads, Socket
  <2>4. ASSUME NEW c \in Conns, ClientCloses(c)
        PROVE  \A d \in Conns : /\ socket'[d].sent = socket[d].sent
                                /\ socket'[d].peer = "open" => socket[d].peer = "open"
    BY <2>1, <2>4 DEF ClientCloses, Socket
  <2>5. CASE UNCHANGED vars
    BY <2>2, <2>5 DEF vars
  <2>6. CASE \E c \in Conns : ClientReads(c) \/ ClientCloses(c)
    <3>1. PICK c \in Conns : ClientReads(c) \/ ClientCloses(c)
      BY <2>6
    <3>2. CASE ClientReads(c)
      BY <2>3, <3>2
    <3>3. CASE ClientCloses(c)
      BY <2>4, <3>3
    <3> QED BY <3>1, <3>2, <3>3
  <2> QED BY <2>5, <2>6
<1>3. \A s \in DOMAIN games, c \in Conns : Among(c, s) => Among(c, s)'
  BY <1>1 DEF Among
<1> QED BY <1>1, <1>2, <1>3, SilentStep

(* What is kept when no socket changes.                                    *)
LEMMA SameSockets ==
    ASSUME UNCHANGED socket
    PROVE  /\ JoinedClientSeesBoard => JoinedClientSeesBoard'
           /\ WinAfterBoard => WinAfterBoard'
BY DEF JoinedClientSeesBoard, WinAfterBoard, BoardAt

(* What is on its way from another handler stays sound.                    *)
LEMMA SameQueue ==
    ASSUME NEW h, NEW k, Sound(h, k), UNCHANGED socket, handler'[h] = handler[h],
           games'[handler[h].gameSessionId].version = games[handler[h].gameSessionId].version,
           games'[handler[h].gameSessionId].clientSockets = games[handler[h].gameSessionId].clientSockets
    PROVE  Sound(h, k)'
BY DEF Sound, Among

(* A step of c that sends nothing itself, but takes or releases the mutex  *)
(* of its game, or changes the game's version or c's queue.                *)
LEMMA MutexStep ==
    ASSUME IndInv, Broadcasting, NEW c \in Conns, NEW s \in DOMAIN games,
           handler[c].gameSessionId = s, games[s].gameMutex \in {Free, c},
           UNCHANGED socket, DOMAIN games' = DOMAIN games,
           \A r \in DOMAIN games : games'[r].clientSockets = games[r].clientSockets,
           \A r \in DOMAIN games \ {s} : /\ games'[r].version = games[r].version
                                         /\ games'[r].gameMutex = games[r].gameMutex,
           \A h \in Conns \ {c} : handler'[h] = handler[h],
           handler'[c].gameSessionId = s,
           handler'[c].pc \in {"sending", "reply", "receive"},
           handler'[c].pc = "sending" => \A k \in DOMAIN handler'[c].toSend : Sound(c, k)',
           handler'[c].pc = "reply" =>
                \A k \in DOMAIN handler'[c].toSend :
                    LET msg == handler'[c].toSend[k].msg
                    IN  /\ msg.type \in {"text", "joined"}
                        /\ msg.type = "joined" /\ socket[c].peer = "open" => Shown(c, msg.game),
           \A d \in Conns : \A i \in DOMAIN socket[d].sent :
                socket[d].peer = "open" /\ LatestBoard(d, s, i) =>
                    \/ socket[d].sent[i].version = games'[s].version
                    \/ /\ socket[d].sent[i].version = games'[s].version - 1
                       /\ games'[s].gameMutex = c /\ Pending(c, d)',
           handler'[c].pc = "sending" /\ handler'[c].command = "JOIN" /\ socket[c].peer = "open" =>
                Pending(c, c)' \/ Shown(c, s)
    PROVE  Broadcasting'
<1> USE DEF Broadcasting
<1>1. \A d \in Conns : \A r, i : /\ BoardAt(d, r, i)' = BoardAt(d, r, i)
                                 /\ LatestBoard(d, r, i)' = LatestBoard(d, r, i)
                                 /\ Shown(d, r)' = Shown(d, r)
  BY DEF BoardAt, LatestBoard, Shown
<1>9. \A d \in Conns, r \in DOMAIN games : Among(d, r)' = Among(d, r)
  BY DEF Among
<1>2. \A h \in Conns \ {c} : handler[h].pc = "sending" =>
          handler[h].gameSessionId \in DOMAIN games \ {s}
  BY ConstantsAssumption DEF IndInv, Located
<1>3. Listed' /\ BoardsInOrder' /\ JoinedClientSeesBoard' /\ WinAfterBoard'
  <2>1. Listed'
    BY <1>9 DEF Listed
  <2>2. BoardsInOrder'
    BY <1>1 DEF BoardsInOrder
  <2>3. JoinedClientSeesBoard' /\ WinAfterBoard'
    BY SameSockets
  <2> QED BY <2>1, <2>2, <2>3
<1>4. InFlight'
  <2> SUFFICES ASSUME NEW h \in Conns \ {c}, handler[h].pc = "sending",
                      NEW k \in DOMAIN handler[h].toSend
               PROVE  Sound(h, k)'
    BY DEF InFlight
  <2>1. Sound(h, k)
    BY DEF InFlight
  <2>2. /\ handler'[h] = handler[h]
        /\ games'[handler[h].gameSessionId].version = games[handler[h].gameSessionId].version
        /\ games'[handler[h].gameSessionId].clientSockets = games[handler[h].gameSessionId].clientSockets
    BY <1>2
  <2> QED BY <2>1, <2>2, SameQueue
<1>5. Replies'
  <2> SUFFICES ASSUME NEW h \in Conns, handler'[h].pc = "reply",
                      NEW k \in DOMAIN handler'[h].toSend
               PROVE  LET msg == handler'[h].toSend[k].msg
                      IN  /\ msg.type \in {"text", "joined"}
                          /\ msg.type = "joined" /\ socket[h].peer = "open" => Shown(h, msg.game)
    BY <1>1 DEF Replies
  <2>1. CASE h = c
    BY <2>1
  <2>2. CASE h # c
    BY <2>2 DEF Replies
  <2> QED BY <2>1, <2>2
<1>6. Latest'
  <2> SUFFICES ASSUME NEW d \in Conns, NEW r \in DOMAIN games, NEW i \in DOMAIN socket[d].sent,
                      socket[d].peer = "open", LatestBoard(d, r, i)
               PROVE  \/ socket[d].sent[i].version = games'[r].version
                      \/ /\ socket[d].sent[i].version = games'[r].version - 1
                         /\ \E h \in Conns : games'[r].gameMutex = h /\ Pending(h, d)'
    BY <1>1 DEF Latest
  <2>1. CASE r = s
    BY <2>1
  <2>2. CASE r # s
    <3>1. \A h \in Conns : games[r].gameMutex = h => h # c
      BY <2>2 DEF IndInv, Held
    <3>2. \A h \in Conns \ {c} : Pending(h, d)' = Pending(h, d)
      BY DEF Pending
    <3> QED BY <2>2, <3>1, <3>2 DEF Latest
  <2> QED BY <2>1, <2>2
<1>7. Gone'
  BY DEF Gone
<1>8. Joining'
  <2> SUFFICES ASSUME NEW h \in Conns
               PROVE  /\ handler'[h].pc = "broadcast" => Among(h, handler[h].gameSessionId)'
                      /\ handler'[h].pc = "makeMove" => handler'[h].command # "JOIN"
                      /\ handler'[h].pc = "sending" /\ handler'[h].command = "JOIN"
                            /\ socket[h].peer = "open" =>
                            Pending(h, h)' \/ Shown(h, handler[h].gameSessionId)
    BY <1>1 DEF Joining
  <2>1. CASE h = c
    BY <2>1
  <2>2. CASE h # c
    <3>1. handler'[h] = handler[h] /\ Pending(h, h)' = Pending(h, h)
      BY <2>2 DEF Pending
    <3>2. handler[h].pc = "broadcast" => handler[h].gameSessionId \in DOMAIN games
      BY DEF IndInv, Located
    <3>3. handler[h].pc = "broadcast" => Among(h, handler[h].gameSessionId)'
      BY <3>1, <3>2 DEF Joining, Among
    <3> QED BY <3>1, <3>3 DEF Joining
  <2> QED BY <2>1, <2>2
<1> QED BY <1>3, <1>4, <1>5, <1>6, <1>7, <1>8

(* The end of a loop of sends.                                             *)
LEMMA UnlockStep ==
    ASSUME IndInv, Broadcasting, NEW c \in Conns, unlock(c)
    PROVE  Broadcasting'
<1> DEFINE s == handler[c].gameSessionId
<1>1. /\ handler[c].pc = "sending" /\ handler[c].toSend = <<>> /\ UNCHANGED socket
      /\ s \in DOMAIN games /\ games[s].gameMutex = c
      /\ games' = [games EXCEPT ![s].gameMutex = Free]
  BY DEF unlock, At, IndInv, Located
<1>2. /\ games \in Seq(Game) /\ games[s] \in Game
      /\ handler \in [Conns -> Handler] /\ handler[c] \in Handler
  <2>1. games \in Seq(Game) /\ handler \in [Conns -> Handler]
    BY DEF IndInv, TypeOK
  <2> QED BY <1>1, <2>1, ElementOfSeq, LenProperties
<1>3. DOMAIN games' = DOMAIN games
      /\ games'[s].version = games[s].version /\ games'[s].clientSockets = games[s].clientSockets
      /\ \A r \in DOMAIN games \ {s} : games'[r] = games[r]
  BY <1>1, <1>2 DEF Game
<1>4. \A d : ~Pending(c, d)
  BY <1>1 DEF Pending
<1>5. \A d \in Conns : \A i \in DOMAIN socket[d].sent :
          socket[d].peer = "open" /\ LatestBoard(d, s, i) =>
              socket[d].sent[i].version = games[s].version
  BY <1>1, <1>4 DEF Broadcasting, Latest
<1>6. CASE handler[c].command = "JOIN"
  <2>1. Answer(c, Joined(c))
    BY <1>6 DEF unlock
  <2>2. /\ handler'[c].pc = "reply" /\ handler'[c].gameSessionId = s
        /\ \A h \in Conns \ {c} : handler'[h] = handler[h]
        /\ handler'[c].toSend = <<[to |-> c, msg |-> Joined(c)]>>
    BY <2>1, JoinedType, AnswerFacts
  <2>3. socket[c].peer = "open" => Shown(c, s)
    BY <1>1, <1>4, <1>6 DEF Broadcasting, Joining
  <2>4. \A k \in DOMAIN handler'[c].toSend : handler'[c].toSend[k].msg = Joined(c)
    BY <2>2
  <2>5. Joined(c).type = "joined" /\ Joined(c).game = s
    BY DEF Joined
  <2> HIDE DEF s
  <2>6. handler[c].gameSessionId = s
    BY DEF s
  <2> QED BY <1>1, <1>3, <1>5, <2>2, <2>3, <2>4, <2>5, <2>6, MutexStep
<1>7. CASE handler[c].command # "JOIN"
  <2>1. Done(c)
    BY <1>7 DEF unlock
  <2>2. /\ handler'[c].pc = "receive" /\ handler'[c].gameSessionId = s
        /\ \A h \in Conns \ {c} : handler'[h] = handler[h]
    BY <2>1, DoneFacts
  <2> HIDE DEF s
  <2>6. handler[c].gameSessionId = s
    BY DEF s
  <2> QED BY <1>1, <1>3, <1>5, <2>2, <2>6, MutexStep
<1> QED BY <1>6, <1>7

(* A loop over the sockets of s has a message for each of them.            *)
LEMMA SentToAll ==
    ASSUME games \in Seq(Game), NEW s \in DOMAIN games, NEW msg \in Message, NEW d,
           Among(d, s)
    PROVE  \E k \in DOMAIN ToAll(games[s].clientSockets, msg) :
              ToAll(games[s].clientSockets, msg)[k] = [to |-> d, msg |-> msg]
<1>1. games[s].clientSockets \in Seq(Conns)
  <2>1. games[s] \in Game
    BY ElementOfSeq, LenProperties
  <2> QED BY <2>1 DEF Game
<1>2. PICK k \in DOMAIN games[s].clientSockets : games[s].clientSockets[k] = d
  BY DEF Among
<1>3. /\ k \in 1 .. Len(games[s].clientSockets)
      /\ DOMAIN ToAll(games[s].clientSockets, msg) = 1 .. Len(games[s].clientSockets)
  BY <1>1, <1>2, ToAllFacts, LenProperties
<1>4. ToAll(games[s].clientSockets, msg)[k] = [to |-> games[s].clientSockets[k], msg |-> msg]
  BY <1>1, <1>3, ToAllFacts
<1> QED BY <1>2, <1>3, <1>4

(* The other way round: whom it sends to is among them.                    *)
LEMMA AllSentTo ==
    ASSUME games \in Seq(Game), NEW s \in DOMAIN games, NEW msg \in Message,
           NEW k \in DOMAIN ToAll(games[s].clientSockets, msg)
    PROVE  /\ ToAll(games[s].clientSockets, msg)[k].msg = msg
           /\ ToAll(games[s].clientSockets, msg)[k].to \in Conns
           /\ Among(ToAll(games[s].clientSockets, msg)[k].to, s)
<1>1. games[s].clientSockets \in Seq(Conns)
  <2>1. games[s] \in Game
    BY ElementOfSeq, LenProperties
  <2> QED BY <2>1 DEF Game
<1>2. k \in 1 .. Len(games[s].clientSockets) /\ k \in DOMAIN games[s].clientSockets
  BY <1>1, ToAllFacts, LenProperties
<1>3. ToAll(games[s].clientSockets, msg)[k] = [to |-> games[s].clientSockets[k], msg |-> msg]
  BY <1>1, <1>2, ToAllFacts
<1>4. games[s].clientSockets[k] \in Conns
  BY <1>1, <1>2, ElementOfSeq
<1> QED BY <1>2, <1>3, <1>4 DEF Among

(* The board to all, after a player has joined.                            *)
LEMMA BroadcastStep ==
    ASSUME IndInv, Broadcasting, NEW c \in Conns, broadcastGameState(c)
    PROVE  Broadcasting'
<1> DEFINE s == handler[c].gameSessionId
           msg == [type |-> "state", game |-> s, version |-> games[s].version]
           all == ToAll(games[s].clientSockets, msg)
<1>1. /\ handler[c].pc = "broadcast" /\ UNCHANGED socket
      /\ s \in DOMAIN games /\ games[s].gameMutex = Free /\ Free \notin Conns
      /\ games' = [games EXCEPT ![s].gameMutex = c]
      /\ handler' = [handler EXCEPT ![c].pc = "sending", ![c].toSend = all]
  BY ConstantsAssumption DEF broadcastGameState, At, IndInv, Located
<1>2. /\ games \in Seq(Game) /\ games[s] \in Game
      /\ handler \in [Conns -> Handler] /\ handler[c] \in Handler
  <2>1. games \in Seq(Game) /\ handler \in [Conns -> Handler]
    BY DEF IndInv, TypeOK
  <2> QED BY <1>1, <2>1, ElementOfSeq, LenProperties
<1>3. msg \in Message /\ msg.type = "state" /\ msg.game = s /\ msg.version = games[s].version
  BY <1>2 DEF Message, Game, Handler
<1>9. handler[c].gameSessionId = s
  OBVIOUS
<1>4. /\ DOMAIN games' = DOMAIN games
      /\ games'[s].version = games[s].version /\ games'[s].clientSockets = games[s].clientSockets
      /\ games'[s].gameMutex = c
      /\ \A r \in DOMAIN games \ {s} : games'[r] = games[r]
  BY <1>1, <1>2 DEF Game
<1> HIDE DEF all, msg, s
<1>5. /\ handler'[c].pc = "sending" /\ handler'[c].gameSessionId = s
      /\ handler'[c].toSend = all /\ handler'[c].command = handler[c].command
      /\ \A h \in Conns \ {c} : handler'[h] = handler[h]
  BY <1>1, <1>2, <1>9 DEF Handler
<1>6. \A k \in DOMAIN handler'[c].toSend : Sound(c, k)'
  <2> SUFFICES ASSUME NEW k \in DOMAIN all
               PROVE  Sound(c, k)'
    BY <1>5
  <2>1. all[k].msg = msg /\ all[k].to \in Conns /\ Among(all[k].to, s)
    BY <1>1, <1>2, <1>3, AllSentTo, SMTT(30) DEF all
  <2>2. handler'[c].toSend[k].msg.type = "state" /\ handler'[c].toSend[k].msg.game = s
        /\ handler'[c].toSend[k].msg.version = games'[s].version
    BY <1>3, <1>4, <1>5, <2>1
  <2>3. Among(handler[c].toSend[k].to, handler[c].gameSessionId)'
    BY <1>4, <1>5, <2>1 DEF Among
  <2> QED BY <1>5, <2>2, <2>3 DEF Sound
<1>7. \A d \in Conns : \A i \in DOMAIN socket[d].sent :
          socket[d].peer = "open" /\ LatestBoard(d, s, i) =>
              socket[d].sent[i].version = games[s].version
  BY <1>1 DEF Broadcasting, Latest
<1>8. Pending(c, c)'
  <2>1. Among(c, s)
    BY <1>1, <1>9 DEF Broadcasting, Joining
  <2>2. \E k \in DOMAIN all : all[k] = [to |-> c, msg |-> msg]
    BY <1>1, <1>2, <1>3, <2>1, SentToAll DEF all
  <2> QED BY <1>3, <1>5, <2>2 DEF Pending
<1>10. /\ UNCHANGED socket /\ s \in DOMAIN games /\ games[s].gameMutex \in {Free, c}
       /\ handler'[c].pc \in {"sending", "reply", "receive"} /\ handler'[c].pc # "reply"
       /\ \A d \in Conns : \A i \in DOMAIN socket[d].sent :
              socket[d].peer = "open" /\ LatestBoard(d, s, i) =>
                  socket[d].sent[i].version = games'[s].version
  BY <1>1, <1>4, <1>5, <1>7
<1> QED BY <1>4, <1>5, <1>6, <1>8, <1>9, <1>10, MutexStep

Announcement(state, result) == [state EXCEPT !.type = result]

(* A move sends its board to all, and then to all the winner, if any.      *)
LEMMA MoveMessagesFacts ==
    ASSUME NEW sockets \in Seq(Conns), NEW state \in Message,
           NEW result \in {"none", "win", "empty"},
           NEW all, all = MoveMessages(sockets, state, result)
    PROVE  /\ \A k \in DOMAIN sockets :
                 k \in DOMAIN all /\ all[k] = [to |-> sockets[k], msg |-> state]
           /\ \A k \in DOMAIN all :
                 /\ \E j \in DOMAIN sockets : all[k].to = sockets[j]
                 /\ \/ all[k].msg = state
                    \/ /\ all[k].msg = Announcement(state, result) /\ result # "none"
                       /\ \E j \in DOMAIN all :
                             j < k /\ all[j].to = all[k].to /\ all[j].msg = state
<1> DEFINE n == Len(sockets)
           boards == ToAll(sockets, state)
           winner == Announcement(state, result)
           results == IF result = "none" THEN <<>> ELSE ToAll(sockets, winner)
<1>1. n \in Nat /\ DOMAIN sockets = 1 .. n /\ \A k \in 1 .. n : sockets[k] \in Conns
  BY ElementOfSeq, LenProperties
<1>2. /\ boards \in Seq(Outgoing) /\ Len(boards) = n
      /\ \A k \in 1 .. n : boards[k] = [to |-> sockets[k], msg |-> state]
  BY ToAllFacts
<1>3. CASE result = "none"
  <2>1. all = boards
    BY <1>2, <1>3, ConcatEmptySeq DEF MoveMessages
  <2>2. DOMAIN all = 1 .. n
    BY <1>2, <2>1, LenProperties
  <2> HIDE DEF boards, n
  <2> QED BY <1>1, <1>2, <2>1, <2>2
<1>4. CASE result # "none"
  <2>1. winner \in Message
    BY <1>4 DEF Message, Announcement
  <2>2. /\ results \in Seq(Outgoing) /\ Len(results) = n
        /\ \A k \in 1 .. n : results[k] = [to |-> sockets[k], msg |-> winner]
    BY <1>4, <2>1, ToAllFacts
  <2>3. all = boards \o results
    BY <1>4 DEF MoveMessages, Announcement
  <2> HIDE DEF boards, results, n, winner
  <2>4. /\ DOMAIN all = 1 .. n + n
        /\ \A k \in 1 .. n : all[k] = boards[k]
        /\ \A k \in n + 1 .. n + n : all[k] = results[k - n]
    <3>1. /\ all \in Seq(Outgoing) /\ Len(all) = Len(boards) + Len(results)
          /\ \A k \in 1 .. Len(boards) + Len(results) :
                all[k] = IF k <= Len(boards) THEN boards[k] ELSE results[k - Len(boards)]
      BY <1>2, <2>2, <2>3, ConcatProperties
    <3>2. DOMAIN all = 1 .. Len(all)
      BY <3>1, LenProperties
    <3> QED BY <1>1, <1>2, <2>2, <3>1, <3>2
  <2>5. \A k \in 1 .. n : k \in DOMAIN all /\ all[k] = [to |-> sockets[k], msg |-> state]
    BY <1>1, <1>2, <2>4
  <2>6. ASSUME NEW k \in DOMAIN all
        PROVE  /\ \E j \in DOMAIN sockets : all[k].to = sockets[j]
               /\ \/ all[k].msg = state
                  \/ /\ all[k].msg = winner
                     /\ \E j \in DOMAIN all :
                           j < k /\ all[j].to = all[k].to /\ all[j].msg = state
    <3>1. CASE k \in 1 .. n
      <4>1. all[k] = [to |-> sockets[k], msg |-> state]
        BY <2>5, <3>1
      <4>2. k \in DOMAIN sockets
        BY <1>1, <3>1
      <4>3. all[k].to = sockets[k] /\ all[k].msg = state
        BY <4>1
      <4> QED BY <4>2, <4>3
    <3>2. CASE k \in n + 1 .. n + n
      <4>1. k - n \in 1 .. n /\ k - n < k /\ k - n \in DOMAIN all
        BY <1>1, <2>4, <3>2
      <4>2. all[k] = [to |-> sockets[k - n], msg |-> winner]
        BY <2>2, <2>4, <3>2, <4>1
      <4>3. all[k - n] = [to |-> sockets[k - n], msg |-> state]
        BY <2>5, <4>1
      <4> QED BY <1>1, <4>1, <4>2, <4>3
    <3> QED BY <1>1, <2>4, <3>1, <3>2
  <2> QED BY <1>1, <1>4, <2>5, <2>6 DEF winner
<1> QED BY <1>3, <1>4

(* A move: whoever has a board is among the sockets and is sent the next.  *)
LEMMA MoveStep ==
    ASSUME IndInv, Broadcasting, NEW c \in Conns, NEW result \in {"none", "win", "empty"},
           makeMove(c, result)
    PROVE  Broadcasting'
<1> DEFINE s == handler[c].gameSessionId
           state == [type |-> "state", game |-> s, version |-> games[s].version + 1]
           all == MoveMessages(games[s].clientSockets, state, result)
<1>1. /\ handler[c].pc = "makeMove" /\ UNCHANGED socket
      /\ s \in DOMAIN games /\ games[s].gameMutex = Free /\ Free \notin Conns
      /\ games[s].version < MaxMoves
      /\ games' = [games EXCEPT ![s].version = @ + 1, ![s].over = result # "none",
                                ![s].gameMutex = c]
      /\ handler' = [handler EXCEPT ![c].pc = "sending", ![c].toSend = all]
  BY ConstantsAssumption DEF makeMove, MayMove, At, IndInv, Located
<1>2. /\ games \in Seq(Game) /\ games[s] \in Game /\ games[s].clientSockets \in Seq(Conns)
      /\ handler \in [Conns -> Handler] /\ handler[c] \in Handler
  <2>1. games \in Seq(Game) /\ handler \in [Conns -> Handler]
    BY DEF IndInv, TypeOK
  <2>2. games[s] \in Game
    BY <1>1, <2>1, ElementOfSeq, LenProperties
  <2> QED BY <2>1, <2>2 DEF Game
<1>3. /\ state \in Message /\ state.type = "state" /\ state.game = s
      /\ state.version = games[s].version + 1
  <2>1. games[s].version + 1 \in 0 .. MaxMoves /\ s \in Nat
    BY <1>1, <1>2, ConstantsAssumption, SMTT(30) DEF Game, Handler
  <2> QED BY <2>1 DEF Message
<1>4. /\ DOMAIN games' = DOMAIN games /\ games'[s].version = games[s].version + 1
      /\ games'[s].clientSockets = games[s].clientSockets
      /\ games'[s].gameMutex = c
      /\ \A r \in DOMAIN games \ {s} : games'[r] = games[r]
  BY <1>1, <1>2 DEF Game
<1>5. handler[c].gameSessionId = s /\ games[s].version \in Nat
  BY <1>2 DEF Game
<1> HIDE DEF all, s, state
<1>6. /\ handler'[c].pc = "sending" /\ handler'[c].gameSessionId = s
      /\ handler'[c].toSend = all /\ handler'[c].command = handler[c].command
      /\ \A h \in Conns \ {c} : handler'[h] = handler[h]
  BY <1>1, <1>2, <1>5 DEF Handler
<1>7. /\ \A k \in DOMAIN games[s].clientSockets :
            k \in DOMAIN all /\ all[k] = [to |-> games[s].clientSockets[k], msg |-> state]
      /\ \A k \in DOMAIN all :
            /\ \E j \in DOMAIN games[s].clientSockets : all[k].to = games[s].clientSockets[j]
            /\ \/ all[k].msg = state
               \/ /\ all[k].msg = Announcement(state, result) /\ result # "none"
                  /\ \E j \in DOMAIN all :
                        j < k /\ all[j].to = all[k].to /\ all[j].msg = state
  <2> DEFINE sockets == games[s].clientSockets
  <2>1. sockets \in Seq(Conns) /\ state \in Message /\ all = MoveMessages(sockets, state, result)
    BY <1>2, <1>3 DEF all
  <2> HIDE DEF sockets
  <2>2. /\ \A k \in DOMAIN sockets :
              k \in DOMAIN all /\ all[k] = [to |-> sockets[k], msg |-> state]
        /\ \A k \in DOMAIN all :
              /\ \E j \in DOMAIN sockets : all[k].to = sockets[j]
              /\ \/ all[k].msg = state
                 \/ /\ all[k].msg = Announcement(state, result) /\ result # "none"
                    /\ \E j \in DOMAIN all :
                          j < k /\ all[j].to = all[k].to /\ all[j].msg = state
    <3>1. result \in {"none", "win", "empty"}
      OBVIOUS
    <3> QED BY ONLY <2>1, <3>1, MoveMessagesFacts, SMTT(30)
  <2> QED BY <2>2 DEF sockets
<1>8. \A k \in DOMAIN handler'[c].toSend : Sound(c, k)'
  <2> SUFFICES ASSUME NEW k \in DOMAIN all
               PROVE  Sound(c, k)'
    BY <1>6
  <2>1. Among(handler[c].toSend[k].to, handler[c].gameSessionId)'
    BY <1>4, <1>6, <1>7 DEF Among
  <2>2. CASE all[k].msg = state
    <3>1. /\ handler'[c].toSend[k].msg.type = "state" /\ handler'[c].toSend[k].msg.game = s
          /\ handler'[c].toSend[k].msg.version = games'[s].version
      BY <1>3, <1>4, <1>6, <2>2
    <3> QED BY <1>6, <2>1, <3>1 DEF Sound
  <2>3. CASE all[k].msg # state
    <3>1. /\ all[k].msg = Announcement(state, result) /\ result # "none"
          /\ \E j \in DOMAIN all : j < k /\ all[j].to = all[k].to /\ all[j].msg = state
      BY <1>7, <2>3
    <3>2. FinalBoard(all[k].msg) = state /\ all[k].msg.type \in {"win", "empty"}
      BY <1>3, <3>1 DEF FinalBoard, Message, Announcement
    <3>3. /\ handler'[c].toSend[k].msg.type \in {"win", "empty"}
          /\ \E j \in DOMAIN handler'[c].toSend :
                /\ j < k /\ handler'[c].toSend[j].to = handler'[c].toSend[k].to
                /\ handler'[c].toSend[j].msg = FinalBoard(handler'[c].toSend[k].msg)
      BY <1>6, <3>1, <3>2
    <3> QED BY <3>3 DEF Sound
  <2> QED BY <2>2, <2>3
<1>9. ASSUME NEW d \in Conns, NEW i \in DOMAIN socket[d].sent,
             socket[d].peer = "open", LatestBoard(d, s, i)
      PROVE  /\ socket[d].sent[i].version = games'[s].version - 1
             /\ games'[s].gameMutex = c /\ Pending(c, d)'
  <2>1. socket[d].sent[i].version = games[s].version
    BY <1>1, <1>9 DEF Broadcasting, Latest
  <2>2. Among(d, s)
    BY <1>9 DEF LatestBoard, BoardAt, Broadcasting, Listed
  <2>3. \E k \in DOMAIN all : all[k] = [to |-> d, msg |-> state]
    BY <1>7, <2>2 DEF Among
  <2>4. Pending(c, d)'
    BY <1>3, <1>6, <2>3 DEF Pending
  <2> QED BY <1>4, <1>5, <2>1, <2>4
<1>10. handler[c].command # "JOIN"
  BY <1>1 DEF Broadcasting, Joining
<1>11. /\ UNCHANGED socket /\ s \in DOMAIN games /\ games[s].gameMutex \in {Free, c}
       /\ handler'[c].pc \in {"sending", "reply", "receive"} /\ handler'[c].pc # "reply"
       /\ handler'[c].command # "JOIN"
  BY <1>1, <1>6, <1>10
<1> QED BY <1>4, <1>5, <1>6, <1>8, <1>9, <1>11, MutexStep

-----------------------------------------------------------------------------
(* A send leaves the messages of a client as they are, or adds the last.   *)
LEMMA TransmitFacts ==
    ASSUME IndInv, Gone, NEW d \in Conns, NEW msg \in Message, Transmit(d, msg)
    PROVE  /\ \A e \in Conns \ {d} : socket'[e] = socket[e]
           /\ \/ /\ socket'[d].sent = socket[d].sent
                 /\ socket'[d].peer = "open" =>
                       socket[d].peer = "open" /\ msg.type \in {"empty", "text"}
              \/ /\ socket'[d].sent = Append(socket[d].sent, msg)
                 /\ socket[d].peer = "open" /\ msg.type # "empty"
<1>1. socket \in [Conns -> Socket] /\ socket[d] \in Socket
  BY DEF IndInv, TypeOK
<1>2. CASE /\ handler[d].pc = "closed" \/ (msg.type = "empty" /\ socket[d].peer # "reset")
           /\ UNCHANGED <<socket, crashed>>
  BY <1>2 DEF Gone
<1>3. CASE /\ handler[d].pc # "closed" /\ msg.type # "empty" /\ socket[d].peer = "open"
           /\ socket' = [socket EXCEPT ![d].unread = @ + 1,
                 ![d].sent = IF msg.type = "text" THEN @ ELSE Append(@, msg)]
  <2>1. /\ \A e \in Conns \ {d} : socket'[e] = socket[e]
        /\ socket'[d].sent = IF msg.type = "text" THEN socket[d].sent
                             ELSE Append(socket[d].sent, msg)
    BY <1>1, <1>3 DEF Socket
  <2> QED BY <1>3, <2>1
<1>4. CASE socket' = [socket EXCEPT ![d].peer = "reset"]
  BY <1>1, <1>4 DEF Socket
<1>5. CASE socket[d].peer = "reset" /\ UNCHANGED socket
  BY <1>5
<1> QED BY <1>2, <1>3, <1>4, <1>5 DEF Transmit

(* What a message more, fit to be sent, does to the messages of the        *)
(* clients.                                                                *)
Fit(d, msg) ==
    /\ msg.type = "state" =>
          /\ msg.game \in DOMAIN games /\ Among(d, msg.game)
          /\ msg.version = games[msg.game].version
    /\ msg.type = "joined" /\ socket[d].peer = "open" => Shown(d, msg.game)
    /\ msg.type = "win" /\ socket[d].peer = "open" =>
          \E i \in DOMAIN socket[d].sent : socket[d].sent[i] = FinalBoard(msg)

LEMMA Appended ==
    ASSUME IndInv, Broadcasting, NEW d \in Conns, NEW msg \in Message, Fit(d, msg),
           UNCHANGED games, \A e \in Conns \ {d} : socket'[e] = socket[e],
           socket'[d].sent = Append(socket[d].sent, msg), socket[d].peer = "open"
    PROVE  /\ Listed' /\ BoardsInOrder' /\ JoinedClientSeesBoard' /\ WinAfterBoard'
           /\ \A e \in Conns : \A r : Shown(e, r) => Shown(e, r)'
<1> DEFINE n == Len(socket[d].sent)
<1>1. socket[d].sent \in Seq(Message)
  BY DEF IndInv, TypeOK, Socket
<1>2. /\ n \in Nat /\ DOMAIN socket[d].sent = 1 .. n
      /\ DOMAIN socket'[d].sent = 1 .. n + 1
      /\ socket'[d].sent[n + 1] = msg
      /\ \A i \in 1 .. n : socket'[d].sent[i] = socket[d].sent[i]
  BY <1>1, AppendProperties, LenProperties
<1> HIDE DEF n
<1>3. \A e \in Conns : \A i \in DOMAIN socket[e].sent :
          i \in DOMAIN socket'[e].sent /\ socket'[e].sent[i] = socket[e].sent[i]
  BY <1>2
<1>4. \A e \in Conns : \A i \in DOMAIN socket'[e].sent :
          i \in DOMAIN socket[e].sent \/ (e = d /\ i = n + 1)
  BY <1>2
<1>5. \A e \in Conns : \A r, i : i \in DOMAIN socket[e].sent =>
          BoardAt(e, r, i)' = BoardAt(e, r, i)
  BY <1>3 DEF BoardAt
<1>6. \A r, i : i = n + 1 /\ BoardAt(d, r, i)' => msg.type = "state" /\ msg.game = r
  BY <1>2 DEF BoardAt
<1>7. Listed'
  <2> SUFFICES ASSUME NEW e \in Conns, NEW i \in DOMAIN socket'[e].sent,
                      socket'[e].sent[i].type = "state"
               PROVE  /\ socket'[e].sent[i].game \in DOMAIN games'
                      /\ Among(e, socket[e].sent[i].game)'
    BY DEF Listed
  <2>1. CASE i \in DOMAIN socket[e].sent
    BY <1>3, <2>1 DEF Broadcasting, Listed, Among
  <2>2. CASE e = d /\ i = n + 1
    BY <1>2, <2>2 DEF Fit, Among
  <2> QED BY <1>4, <2>1, <2>2
<1>8. BoardsInOrder'
  <2> SUFFICES ASSUME NEW e \in Conns, NEW s \in DOMAIN games,
                      NEW i \in DOMAIN socket'[e].sent, NEW j \in DOMAIN socket'[e].sent,
                      i < j, BoardAt(e, s, i)', BoardAt(e, s, j)',
                      \A k \in DOMAIN socket'[e].sent : i < k /\ k < j => ~BoardAt(e, s, k)'
               PROVE  socket'[e].sent[j].version - socket'[e].sent[i].version \in {0, 1}
    BY DEF BoardsInOrder
  <2>1. CASE j \in DOMAIN socket[e].sent
    <3>1. i \in DOMAIN socket[e].sent
      <4>1. CASE e = d
        BY <1>2, <2>1, <4>1
      <4>2. CASE e # d
        BY <4>2
      <4> QED BY <4>1, <4>2
    <3>2. BoardAt(e, s, i) /\ BoardAt(e, s, j)
      BY <1>5, <2>1, <3>1
    <3>3. \A k \in DOMAIN socket[e].sent : i < k /\ k < j => ~BoardAt(e, s, k)
      BY <1>3, <1>5
    <3>4. socket[e].sent[j].version - socket[e].sent[i].version \in {0, 1}
      BY <2>1, <3>1, <3>2, <3>3 DEF Broadcasting, BoardsInOrder
    <3> QED BY <1>3, <2>1, <3>1, <3>4
  <2>2. CASE e = d /\ j = n + 1
    <3>1. i \in DOMAIN socket[d].sent
      BY <1>2, <2>2
    <3>2. LatestBoard(d, s, i)
      <4>1. BoardAt(d, s, i)
        BY <1>5, <2>2, <3>1
      <4>2. \A k \in DOMAIN socket[d].sent : k > i => ~BoardAt(d, s, k)
        <5> SUFFICES ASSUME NEW k \in DOMAIN socket[d].sent, k > i
                     PROVE  ~BoardAt(d, s, k)
          OBVIOUS
        <5>1. k \in DOMAIN socket'[d].sent /\ i < k /\ k < j
          BY <1>2, <2>2, <3>1
        <5> QED BY <1>5, <2>2, <5>1
      <4> QED BY <4>1, <4>2 DEF LatestBoard
    <3>3. socket[d].sent[i].version \in {games[s].version, games[s].version - 1}
      BY <3>1, <3>2 DEF Broadcasting, Latest
    <3>4. socket'[d].sent[j].version = games[s].version
      BY <1>2, <1>6, <2>2 DEF Fit
    <3>5. games[s].version \in Nat
      <4>1. games[s] \in Game
        BY ElementOfSeq, LenProperties DEF IndInv, TypeOK
      <4> QED BY <4>1 DEF Game
    <3>6. socket'[d].sent[i].version = socket[d].sent[i].version
      BY <1>3, <3>1
    <3>7. \A v \in Nat : v - v = 0 /\ v - (v - 1) = 1
      OBVIOUS
    <3> QED BY ONLY <2>2, <3>3, <3>4, <3>5, <3>6, <3>7
  <2> QED BY <1>4, <2>1, <2>2
<1>9. \A e \in Conns : \A r : Shown(e, r) => Shown(e, r)'
  BY <1>3, <1>5 DEF Shown
<1>10. JoinedClientSeesBoard'
  <2> SUFFICES ASSUME NEW e \in Conns, NEW j \in DOMAIN socket'[e].sent,
                      socket'[e].sent[j].type = "joined"
               PROVE  \E i \in DOMAIN socket'[e].sent :
                         i < j /\ BoardAt(e, socket[e].sent[j].game, i)'
    BY DEF JoinedClientSeesBoard
  <2>1. CASE j \in DOMAIN socket[e].sent
    <3>1. socket'[e].sent[j] = socket[e].sent[j]
      BY <1>3, <2>1
    <3>2. PICK i \in DOMAIN socket[e].sent : i < j /\ BoardAt(e, socket[e].sent[j].game, i)
      BY <2>1, <3>1 DEF Broadcasting, JoinedClientSeesBoard
    <3>3. i \in DOMAIN socket'[e].sent /\ socket'[e].sent[i] = socket[e].sent[i]
      BY <1>3
    <3> QED BY <3>1, <3>2, <3>3 DEF BoardAt
  <2>2. CASE e = d /\ j = n + 1
    <3>1. PICK i \in DOMAIN socket[d].sent : BoardAt(d, msg.game, i)
      BY <1>2, <2>2 DEF Fit, Shown
    <3>2. i < j /\ i \in DOMAIN socket'[d].sent /\ socket'[d].sent[i] = socket[d].sent[i]
      BY <1>2, <2>2
    <3>3. socket'[d].sent[j].game = msg.game
      BY <1>2, <2>2
    <3> QED BY <2>2, <3>1, <3>2, <3>3 DEF BoardAt
  <2> QED BY <1>4, <2>1, <2>2
<1>11. WinAfterBoard'
  <2> SUFFICES ASSUME NEW e \in Conns, NEW j \in DOMAIN socket'[e].sent,
                      socket'[e].sent[j].type = "win"
               PROVE  \E i \in DOMAIN socket'[e].sent :
                         i < j /\ socket'[e].sent[i] = FinalBoard(socket'[e].sent[j])
    BY DEF WinAfterBoard, FinalBoard
  <2>1. CASE j \in DOMAIN socket[e].sent
    <3>1. socket'[e].sent[j] = socket[e].sent[j]
      BY <1>3, <2>1
    <3>2. PICK i \in DOMAIN socket[e].sent :
              i < j /\ socket[e].sent[i] = FinalBoard(socket[e].sent[j])
      BY <2>1, <3>1 DEF Broadcasting, WinAfterBoard, FinalBoard
    <3> QED BY <1>3, <3>1, <3>2
  <2>2. CASE e = d /\ j = n + 1
    <3>1. PICK i \in DOMAIN socket[d].sent : socket[d].sent[i] = FinalBoard(msg)
      BY <1>2, <2>2 DEF Fit
    <3>2. i < j /\ i \in DOMAIN socket'[d].sent /\ socket'[d].sent[i] = socket[d].sent[i]
      BY <1>2, <2>2
    <3> QED BY <1>2, <2>2, <3>1, <3>2
  <2> QED BY <1>4, <2>1, <2>2
<1> QED BY <1>7, <1>8, <1>9, <1>10, <1>11

(* What holds of the sockets after a send, whatever becomes of it.         *)
LEMMA Sent ==
    ASSUME IndInv, Broadcasting, NEW d \in Conns, NEW msg \in Message, Fit(d, msg),
           UNCHANGED games, Transmit(d, msg)
    PROVE  /\ Listed' /\ BoardsInOrder' /\ JoinedClientSeesBoard' /\ WinAfterBoard'
           /\ \A e \in Conns : \A r : Shown(e, r) => Shown(e, r)'
           /\ \A e \in Conns : socket'[e].peer = "open" => socket[e].peer = "open"
           /\ \A e \in Conns : \A i \in DOMAIN socket[e].sent :
                 i \in DOMAIN socket'[e].sent /\ socket'[e].sent[i] = socket[e].sent[i]
           /\ \A e \in Conns : \A r, i : socket'[e].peer = "open" /\ LatestBoard(e, r, i)' =>
                 \/ /\ LatestBoard(e, r, i) /\ socket'[e].sent[i] = socket[e].sent[i]
                    /\ ~(e = d /\ msg.type = "state" /\ msg.game = r)
                 \/ socket'[e].sent[i].version = games[r].version
           /\ socket'[d].peer = "open" /\ msg.type \notin {"empty", "text"} =>
                 \E i \in DOMAIN socket'[d].sent : socket'[d].sent[i] = msg
<1>1. \A e \in Conns \ {d} : socket'[e] = socket[e]
  BY TransmitFacts DEF Broadcasting
<1>2. CASE /\ socket'[d].sent = socket[d].sent
           /\ socket'[d].peer = "open" => socket[d].peer = "open" /\ msg.type \in {"empty", "text"}
  <2>1. \A e \in Conns : socket'[e].sent = socket[e].sent
    BY <1>1, <1>2
  <2>2. \A e \in Conns : \A r, i : /\ BoardAt(e, r, i)' = BoardAt(e, r, i)
                                   /\ LatestBoard(e, r, i)' = LatestBoard(e, r, i)
                                   /\ Shown(e, r)' = Shown(e, r)
    BY <2>1 DEF BoardAt, LatestBoard, Shown
  <2>3. Listed'
    BY <2>1 DEF Broadcasting, Listed, Among
  <2>4. BoardsInOrder'
    BY <2>1, <2>2 DEF Broadcasting, BoardsInOrder
  <2>5. JoinedClientSeesBoard' /\ WinAfterBoard'
    BY <2>1 DEF Broadcasting, JoinedClientSeesBoard, WinAfterBoard, BoardAt
  <2>6. ASSUME NEW e \in Conns, NEW r, NEW i, socket'[e].peer = "open", LatestBoard(e, r, i)'
        PROVE  /\ LatestBoard(e, r, i) /\ socket'[e].sent[i] = socket[e].sent[i]
               /\ ~(e = d /\ msg.type = "state" /\ msg.game = r)
    BY <1>2, <2>1, <2>2, <2>6
  <2> QED BY <1>1, <1>2, <2>1, <2>2, <2>3, <2>4, <2>5, <2>6
<1>3. CASE /\ socket'[d].sent = Append(socket[d].sent, msg)
           /\ socket[d].peer = "open"
  <2> DEFINE n == Len(socket[d].sent)
  <2>1. /\ Listed' /\ BoardsInOrder' /\ JoinedClientSeesBoard' /\ WinAfterBoard'
        /\ \A e \in Conns : \A r : Shown(e, r) => Shown(e, r)'
    BY <1>1, <1>3, Appended
  <2>2. socket[d].sent \in Seq(Message)
    BY DEF IndInv, TypeOK, Socket
  <2>3. /\ n \in Nat /\ DOMAIN socket[d].sent = 1 .. n
        /\ DOMAIN socket'[d].sent = 1 .. n + 1
        /\ socket'[d].sent[n + 1] = msg
        /\ \A i \in 1 .. n : socket'[d].sent[i] = socket[d].sent[i]
    BY <1>3, <2>2, AppendProperties, LenProperties
  <2> HIDE DEF n
  <2>4. \A e \in Conns : \A i \in DOMAIN socket[e].sent :
            i \in DOMAIN socket'[e].sent /\ socket'[e].sent[i] = socket[e].sent[i]
    BY <1>1, <2>3
  <2>5. \A e \in Conns : \A r, i : i \in DOMAIN socket[e].sent =>
            BoardAt(e, r, i)' = BoardAt(e, r, i)
    BY <2>4 DEF BoardAt
  <2>6. ASSUME NEW e \in Conns, NEW r, NEW i, LatestBoard(e, r, i)'
        PROVE  \/ /\ LatestBoard(e, r, i) /\ socket'[e].sent[i] = socket[e].sent[i]
                  /\ ~(e = d /\ msg.type = "state" /\ msg.game = r)
               \/ socket'[e].sent[i].version = games[r].version
    <3>1. i \in DOMAIN socket'[e].sent /\ BoardAt(e, r, i)'
          /\ \A k \in DOMAIN socket'[e].sent : k > i => ~BoardAt(e, r, k)'
      BY <2>6 DEF LatestBoard, BoardAt
    <3>2. CASE i \in DOMAIN socket[e].sent
      <4>1. LatestBoard(e, r, i)
        BY <2>4, <2>5, <3>1, <3>2 DEF LatestBoard
      <4>2. ASSUME e = d, msg.type = "state", msg.game = r
            PROVE  FALSE
        <5>1. \A k : k = n + 1 => k \in DOMAIN socket'[d].sent /\ k > i
          BY <2>3, <3>2, <4>2
        <5>2. \A k : k = n + 1 => BoardAt(d, r, k)'
          BY <2>3, <4>2 DEF BoardAt
        <5> QED BY <3>1, <4>2, <5>1, <5>2
      <4> QED BY <2>4, <3>2, <4>1, <4>2
    <3>3. CASE i \notin DOMAIN socket[e].sent
      <4>1. e = d /\ i = n + 1
        BY <1>1, <2>3, <3>1, <3>3
      <4>2. socket'[e].sent[i] = msg /\ msg.type = "state" /\ msg.game = r
        BY <2>3, <3>1, <4>1 DEF BoardAt
      <4> QED BY <4>2 DEF Fit
    <3> QED BY <3>2, <3>3
  <2>7. \E i \in DOMAIN socket'[d].sent : socket'[d].sent[i] = msg
    BY <2>3
  <2>8. \A e \in Conns : socket'[e].peer = "open" => socket[e].peer = "open"
    BY <1>1, <1>3
  <2> QED BY <2>1, <2>4, <2>6, <2>7, <2>8
<1> QED BY <1>2, <1>3, TransmitFacts DEF Broadcasting

(* The next send of a broadcast.                                           *)
LEMMA SendStep ==
    ASSUME IndInv, Broadcasting, NEW c \in Conns, sendToClient(c)
    PROVE  Broadcasting'
<1> DEFINE s == handler[c].gameSessionId
           queue == handler[c].toSend
           d == queue[1].to
           msg == queue[1].msg
<1>1. /\ handler[c].pc = "sending" /\ UNCHANGED games
      /\ handler \in [Conns -> Handler] /\ handler[c] \in Handler
      /\ queue \in Seq(Outgoing) /\ queue # <<>>
      /\ handler' = [handler EXCEPT ![c].toSend = Tail(queue)]
  BY DEF sendToClient, At, IndInv, TypeOK, Handler
<1>2. /\ Len(queue) \in Nat /\ DOMAIN queue = 1 .. Len(queue) /\ 1 \in DOMAIN queue
      /\ Head(queue) = queue[1] /\ Tail(queue) \in Seq(Outgoing)
      /\ DOMAIN Tail(queue) = 1 .. Len(queue) - 1
      /\ \A k \in 1 .. Len(queue) - 1 : Tail(queue)[k] = queue[k + 1]
  BY <1>1, EmptySeq, HeadTailProperties, LenProperties
<1>3. /\ d \in Conns /\ msg \in Message /\ Transmit(d, msg)
      /\ \A k \in DOMAIN queue : queue[k].to \in Conns /\ queue[k].msg \in Message
  <2>1. \A k \in DOMAIN queue : queue[k] \in Outgoing
    BY <1>1, <1>2, ElementOfSeq
  <2>2. Transmit(Head(queue).to, Head(queue).msg)
    BY DEF sendToClient
  <2> QED BY <1>2, <2>1, <2>2 DEF Outgoing
<1>4. /\ \A h \in Conns \ {c} : handler'[h] = handler[h]
      /\ handler'[c].toSend = Tail(queue)
      /\ handler'[c].pc = "sending" /\ handler'[c].gameSessionId = s
      /\ handler'[c].command = handler[c].command
  BY <1>1 DEF Handler
<1>5. \A k \in DOMAIN queue : Sound(c, k)
  BY <1>1 DEF Broadcasting, InFlight
<1>6. s \in DOMAIN games /\ games[s].gameMutex = c
  BY <1>1 DEF IndInv, Located
<1>7. /\ msg.type \in {"state", "win", "empty"}
      /\ msg.type = "state" => msg.game = s /\ msg.version = games[s].version /\ Among(d, s)
      /\ msg.type = "win" /\ socket[d].peer = "open" =>
            \E i \in DOMAIN socket[d].sent : socket[d].sent[i] = FinalBoard(msg)
  <2>1. Sound(c, 1)
    BY <1>2, <1>5
  <2>2. ~\E j \in DOMAIN queue : j < 1
    BY <1>2
  <2> QED BY <2>1, <2>2 DEF Sound
<1>8. Fit(d, msg)
  BY <1>6, <1>7 DEF Fit
<1>9. \A e \in Conns : Pending(c, e) =>
          Pending(c, e)' \/ (e = d /\ msg.type = "state" /\ msg.game = s)
  <2> SUFFICES ASSUME NEW e \in Conns, NEW k \in DOMAIN queue,
                      queue[k].to = e, queue[k].msg.type = "state"
               PROVE  Pending(c, e)' \/ (e = d /\ msg.type = "state" /\ msg.game = s)
    BY DEF Pending
  <2>1. CASE k = 1
    BY <1>7, <2>1
  <2>2. CASE k # 1
    <3>1. k - 1 \in 1 .. Len(queue) - 1 /\ (k - 1) + 1 = k
      BY <1>2, <2>2
    <3>2. Tail(queue)[k - 1] = queue[k] /\ k - 1 \in DOMAIN Tail(queue)
      BY <1>2, <3>1
    <3> QED BY <1>4, <3>2 DEF Pending
  <2> QED BY <2>1, <2>2
<1> HIDE DEF queue, d, msg, s
<1>10. handler[c].gameSessionId = s /\ handler[c].toSend = queue
  BY DEF s, queue
<1>11. /\ Listed' /\ BoardsInOrder' /\ JoinedClientSeesBoard' /\ WinAfterBoard'
       /\ \A e \in Conns : \A r : Shown(e, r) => Shown(e, r)'
       /\ \A e \in Conns : socket'[e].peer = "open" => socket[e].peer = "open"
       /\ \A e \in Conns : \A i \in DOMAIN socket[e].sent :
             i \in DOMAIN socket'[e].sent /\ socket'[e].sent[i] = socket[e].sent[i]
       /\ \A e \in Conns : \A r, i : socket'[e].peer = "open" /\ LatestBoard(e, r, i)' =>
             \/ /\ LatestBoard(e, r, i) /\ socket'[e].sent[i] = socket[e].sent[i]
                /\ ~(e = d /\ msg.type = "state" /\ msg.game = r)
             \/ socket'[e].sent[i].version = games[r].version
       /\ socket'[d].peer = "open" /\ msg.type \notin {"empty", "text"} =>
             \E i \in DOMAIN socket'[d].sent : socket'[d].sent[i] = msg
  BY <1>1, <1>3, <1>8, Sent
<1>12. InFlight'
  <2> SUFFICES ASSUME NEW h \in Conns, handler'[h].pc = "sending",
                      NEW k \in DOMAIN handler'[h].toSend
               PROVE  Sound(h, k)'
    BY DEF InFlight
  <2> DEFINE m == IF h = c THEN k + 1 ELSE k
             out == handler[h].toSend[m]
  <2>1. /\ m \in DOMAIN handler[h].toSend /\ handler'[h].toSend[k] = out
        /\ h = c => m = k + 1 /\ k \in 1 .. Len(queue) - 1
        /\ h # c => handler'[h] = handler[h] /\ m = k
    BY <1>2, <1>4, <1>10
  <2>2. handler[h].pc = "sending" /\ handler'[h].gameSessionId = handler[h].gameSessionId
    BY <1>1, <1>4, <1>10
  <2>3. Sound(h, m)
    BY <2>1, <2>2 DEF Broadcasting, InFlight
  <2>4. out.to \in Conns
    <3>1. handler[h].toSend \in Seq(Outgoing)
      BY DEF IndInv, TypeOK, Handler
    <3>2. out \in Outgoing
      BY <2>1, <3>1, ElementOfSeq, LenProperties
    <3> QED BY <3>2 DEF Outgoing
  <2> HIDE DEF m
  <2>5. /\ out.msg.type \in {"state", "win", "empty"}
        /\ out.msg.type = "state" =>
              /\ out.msg.game = handler[h].gameSessionId
              /\ out.msg.version = games[handler[h].gameSessionId].version
              /\ Among(out.to, handler[h].gameSessionId)
        /\ out.msg.type = "win" /\ socket[out.to].peer = "open" =>
              \/ \E j \in DOMAIN handler[h].toSend :
                    /\ j < m /\ handler[h].toSend[j].to = out.to
                    /\ handler[h].toSend[j].msg = FinalBoard(out.msg)
              \/ \E i \in DOMAIN socket[out.to].sent :
                    socket[out.to].sent[i] = FinalBoard(out.msg)
    BY <2>3 DEF Sound
  <2> HIDE DEF out
  <2>6. out.msg.type = "win" /\ socket'[out.to].peer = "open" =>
              \/ \E j \in DOMAIN handler'[h].toSend :
                    /\ j < k /\ handler'[h].toSend[j].to = out.to
                    /\ handler'[h].toSend[j].msg = FinalBoard(out.msg)
              \/ \E i \in DOMAIN socket'[out.to].sent :
                    socket'[out.to].sent[i] = FinalBoard(out.msg)
    <3> SUFFICES ASSUME out.msg.type = "win", socket'[out.to].peer = "open"
                 PROVE  \/ \E j \in DOMAIN handler'[h].toSend :
                              /\ j < k /\ handler'[h].toSend[j].to = out.to
                              /\ handler'[h].toSend[j].msg = FinalBoard(out.msg)
                        \/ \E i \in DOMAIN socket'[out.to].sent :
                              socket'[out.to].sent[i] = FinalBoard(out.msg)
      OBVIOUS
    <3>1. socket[out.to].peer = "open"
      BY <1>11, <2>4
    <3>2. CASE \E i \in DOMAIN socket[out.to].sent :
                   socket[out.to].sent[i] = FinalBoard(out.msg)
      BY <1>11, <2>4, <3>2
    <3>3. CASE \E j \in DOMAIN handler[h].toSend :
                   /\ j < m /\ handler[h].toSend[j].to = out.to
                   /\ handler[h].toSend[j].msg = FinalBoard(out.msg)
      <4>1. PICK j \in DOMAIN handler[h].toSend :
                   /\ j < m /\ handler[h].toSend[j].to = out.to
                   /\ handler[h].toSend[j].msg = FinalBoard(out.msg)
        BY <3>3
      <4>2. CASE h # c
        BY <2>1, <4>1, <4>2
      <4>3. CASE h = c /\ j # 1
        <5>1. j - 1 \in 1 .. Len(queue) - 1 /\ (j - 1) + 1 = j /\ j - 1 < k
          BY <1>2, <1>10, <2>1, <4>1, <4>3
        <5>2. handler'[h].toSend[j - 1] = handler[h].toSend[j] /\ j - 1 \in DOMAIN handler'[h].toSend
          BY <1>2, <1>4, <1>10, <4>3, <5>1
        <5> QED BY <4>1, <5>1, <5>2
      <4>4. CASE h = c /\ j = 1
        <5>1. out.to = d /\ msg = FinalBoard(out.msg)
          BY <1>10, <4>1, <4>4 DEF d, msg
        <5>2. msg.type # "empty"
          <6>1. \E x \in Message : x = out.msg
            <7>1. handler[h].toSend \in Seq(Outgoing)
              BY DEF IndInv, TypeOK, Handler
            <7>2. out \in Outgoing
              BY <2>1, <7>1, ElementOfSeq, LenProperties DEF out
            <7> QED BY <7>2 DEF Outgoing
          <6> QED BY <5>1, <6>1 DEF FinalBoard, Message
        <5>3. \E i \in DOMAIN socket'[d].sent : socket'[d].sent[i] = msg
          BY <1>7, <1>11, <5>1, <5>2
        <5> QED BY <5>1, <5>3
      <4> QED BY <4>2, <4>3, <4>4
    <3> QED BY <2>5, <3>1, <3>2, <3>3
  <2>7. Among(out.to, handler[h].gameSessionId) =>
            Among(handler[h].toSend[k].to, handler[h].gameSessionId)'
    BY <1>1, <2>1, <2>2 DEF Among
  <2> QED BY <1>1, <2>1, <2>2, <2>5, <2>6, <2>7, ZenonT(60) DEF Sound
<1>13. Replies'
  <2> SUFFICES ASSUME NEW h \in Conns, handler'[h].pc = "reply",
                      NEW k \in DOMAIN handler'[h].toSend
               PROVE  /\ handler'[h].toSend[k].msg.type \in {"text", "joined"}
                      /\ handler'[h].toSend[k].msg.type = "joined" /\ socket'[h].peer = "open" =>
                            Shown(h, handler[h].toSend[k].msg.game)'
    BY DEF Replies
  <2>1. handler'[h] = handler[h]
    BY <1>4
  <2>2. /\ handler[h].toSend[k].msg.type \in {"text", "joined"}
        /\ handler[h].toSend[k].msg.type = "joined" /\ socket[h].peer = "open" =>
              Shown(h, handler[h].toSend[k].msg.game)
    BY <2>1 DEF Broadcasting, Replies
  <2>3. Shown(h, handler[h].toSend[k].msg.game) =>
            \E r : r = handler[h].toSend[k].msg.game /\ Shown(h, r)'
    BY <1>11
  <2> QED BY <1>11, <2>1, <2>2, <2>3
<1>14. Latest'
  <2> SUFFICES ASSUME NEW e \in Conns, NEW r \in DOMAIN games, NEW i \in DOMAIN socket'[e].sent,
                      socket'[e].peer = "open", LatestBoard(e, r, i)'
               PROVE  \/ socket'[e].sent[i].version = games[r].version
                      \/ /\ socket'[e].sent[i].version = games[r].version - 1
                         /\ \E h \in Conns : games[r].gameMutex = h /\ Pending(h, e)'
    BY <1>1 DEF Latest
  <2>1. CASE socket'[e].sent[i].version = games[r].version
    BY <2>1
  <2>2. CASE /\ LatestBoard(e, r, i) /\ socket'[e].sent[i] = socket[e].sent[i]
             /\ ~(e = d /\ msg.type = "state" /\ msg.game = r)
    <3>1. socket[e].peer = "open" /\ i \in DOMAIN socket[e].sent
      BY <1>11, <2>2 DEF LatestBoard, BoardAt
    <3>2. ASSUME NEW h \in Conns, games[r].gameMutex = h, Pending(h, e)
          PROVE  Pending(h, e)'
      <4>1. CASE h = c
        <5>1. r = s
          BY <1>10, <3>2, <4>1 DEF IndInv, Held
        <5> QED BY <1>9, <2>2, <3>2, <4>1, <5>1
      <4>2. CASE h # c
        BY <1>4, <3>2, <4>2 DEF Pending
      <4> QED BY <4>1, <4>2
    <3> QED BY <2>2, <3>1, <3>2 DEF Broadcasting, Latest
  <2> QED BY <1>11, <2>1, <2>2
<1>15. Gone'
  <2>1. \A h \in Conns : handler'[h].pc = handler[h].pc
    BY <1>1, <1>4
  <2> QED BY <1>11, <2>1 DEF Broadcasting, Gone
<1>16. Joining'
  <2> SUFFICES ASSUME NEW h \in Conns
               PROVE  /\ handler'[h].pc = "broadcast" => Among(h, handler[h].gameSessionId)'
                      /\ handler'[h].pc = "makeMove" => handler'[h].command # "JOIN"
                      /\ handler'[h].pc = "sending" /\ handler'[h].command = "JOIN"
                            /\ socket'[h].peer = "open" =>
                            Pending(h, h)' \/ Shown(h, handler[h].gameSessionId)'
    BY DEF Joining
  <2>1. /\ handler[h].pc = "broadcast" => Among(h, handler[h].gameSessionId)
        /\ handler[h].pc = "makeMove" => handler[h].command # "JOIN"
        /\ handler[h].pc = "sending" /\ handler[h].command = "JOIN" /\ socket[h].peer = "open" =>
              Pending(h, h) \/ Shown(h, handler[h].gameSessionId)
    BY DEF Broadcasting, Joining
  <2>2. /\ handler'[h].pc = handler[h].pc /\ handler'[h].command = handler[h].command
        /\ handler'[h].gameSessionId = handler[h].gameSessionId
    BY <1>1, <1>4, <1>10
  <2>3. Among(h, handler[h].gameSessionId) => Among(h, handler[h].gameSessionId)'
    BY <1>1, <2>2 DEF Among
  <2>4. Shown(h, handler[h].gameSessionId) => Shown(h, handler[h].gameSessionId)'
    <3>1. \A r : Shown(h, r) => \E i \in DOMAIN socket'[h].sent :
                                   /\ socket'[h].sent[i].type = "state"
                                   /\ socket'[h].sent[i].game = r
      BY <1>11 DEF Shown, BoardAt
    <3> QED BY <2>2, <3>1 DEF Shown, BoardAt
  <2>5. ASSUME Pending(h, h), socket'[h].peer = "open"
        PROVE  Pending(h, h)' \/ Shown(h, handler[h].gameSessionId)'
    <3>1. CASE h # c
      BY <1>4, <2>5, <3>1 DEF Pending
    <3>2. CASE h = c /\ ~(h = d /\ msg.type = "state" /\ msg.game = s)
      BY <1>9, <2>5, <3>2
    <3>3. CASE h = c /\ h = d /\ msg.type = "state" /\ msg.game = s
      <4>1. \E i \in DOMAIN socket'[h].sent : socket'[h].sent[i] = msg
        BY <1>11, <2>5, <3>3
      <4> QED BY <1>10, <2>2, <3>3, <4>1 DEF Shown, BoardAt
    <3> QED BY <3>1, <3>2, <3>3
  <2> QED BY <1>11, <2>1, <2>2, <2>3, <2>4, <2>5
<1> QED BY <1>11, <1>12, <1>13, <1>14, <1>15, <1>16 DEF Broadcasting

(* The answer to a command, which shows no board.                          *)
LEMMA ReplyStep ==
    ASSUME IndInv, Broadcasting, NEW c \in Conns, reply(c)
    PROVE  Broadcasting'
<1> DEFINE queue == handler[c].toSend
           msg == queue[1].msg
<1>1. /\ handler[c].pc = "reply" /\ UNCHANGED games /\ Done(c)
      /\ queue \in Seq(Outgoing) /\ queue # <<>>
  BY DEF reply, At, IndInv, TypeOK, Handler, Located
<1>2. Head(queue) = queue[1] /\ 1 \in DOMAIN queue /\ queue[1] \in Outgoing
  BY <1>1, EmptySeq, HeadTailProperties, LenProperties, ElementOfSeq
<1>3. msg \in Message /\ Transmit(c, msg)
  <2>1. Transmit(c, Head(queue).msg)
    BY DEF reply
  <2> QED BY <1>2, <2>1 DEF Outgoing
<1>4. /\ \A h \in Conns \ {c} : handler'[h] = handler[h]
      /\ handler'[c].pc = "receive"
  BY <1>1, DoneFacts
<1>5. /\ msg.type \in {"text", "joined"}
      /\ msg.type = "joined" /\ socket[c].peer = "open" => Shown(c, msg.game)
  BY <1>1, <1>2 DEF Broadcasting, Replies
<1>6. Fit(c, msg)
  BY <1>5 DEF Fit
<1> HIDE DEF queue, msg
<1>7. /\ Listed' /\ BoardsInOrder' /\ JoinedClientSeesBoard' /\ WinAfterBoard'
      /\ \A e \in Conns : \A r : Shown(e, r) => Shown(e, r)'
      /\ \A e \in Conns : socket'[e].peer = "open" => socket[e].peer = "open"
      /\ \A e \in Conns : \A i \in DOMAIN socket[e].sent :
            i \in DOMAIN socket'[e].sent /\ socket'[e].sent[i] = socket[e].sent[i]
      /\ \A e \in Conns : \A r, i : socket'[e].peer = "open" /\ LatestBoard(e, r, i)' =>
            \/ LatestBoard(e, r, i) /\ socket'[e].sent[i] = socket[e].sent[i]
            \/ socket'[e].sent[i].version = games[r].version
  BY <1>1, <1>3, <1>6, Sent
<1>8. \A h \in Conns : handler'[h].pc \in {"sending", "reply", "broadcast", "makeMove", "closed"} =>
          h # c /\ handler'[h] = handler[h]
  BY <1>4
<1>9. InFlight'
  <2> SUFFICES ASSUME NEW h \in Conns, handler'[h].pc = "sending",
                      NEW k \in DOMAIN handler'[h].toSend
               PROVE  Sound(h, k)'
    BY DEF InFlight
  <2> DEFINE out == handler[h].toSend[k]
  <2>1. handler'[h] = handler[h] /\ k \in DOMAIN handler[h].toSend
    BY <1>8
  <2>2. Sound(h, k)
    BY <2>1 DEF Broadcasting, InFlight
  <2>3. out.to \in Conns
    <3>1. handler[h].toSend \in Seq(Outgoing)
      BY DEF IndInv, TypeOK, Handler
    <3>2. out \in Outgoing
      BY <2>1, <3>1, ElementOfSeq, LenProperties
    <3> QED BY <3>2 DEF Outgoing
  <2>4. /\ out.msg.type \in {"state", "win", "empty"}
        /\ out.msg.type = "state" =>
              /\ out.msg.game = handler[h].gameSessionId
              /\ out.msg.version = games[handler[h].gameSessionId].version
              /\ Among(out.to, handler[h].gameSessionId)
        /\ out.msg.type = "win" /\ socket[out.to].peer = "open" =>
              \/ \E j \in DOMAIN handler[h].toSend :
                    /\ j < k /\ handler[h].toSend[j].to = out.to
                    /\ handler[h].toSend[j].msg = FinalBoard(out.msg)
              \/ \E i \in DOMAIN socket[out.to].sent :
                    socket[out.to].sent[i] = FinalBoard(out.msg)
    BY <2>2 DEF Sound
  <2> HIDE DEF out
  <2>5. out.msg.type = "win" /\ socket'[out.to].peer = "open" =>
              \/ \E j \in DOMAIN handler[h].toSend :
                    /\ j < k /\ handler[h].toSend[j].to = out.to
                    /\ handler[h].toSend[j].msg = FinalBoard(out.msg)
              \/ \E i \in DOMAIN socket'[out.to].sent :
                    socket'[out.to].sent[i] = FinalBoard(out.msg)
    BY <1>7, <2>3, <2>4
  <2>6. Among(out.to, handler[h].gameSessionId) =>
            Among(handler[h].toSend[k].to, handler[h].gameSessionId)'
    BY <1>1, <2>1 DEF Among, out
  <2>7. handler'[h].toSend[k] = out
    BY <2>1 DEF out
  <2> QED BY <1>1, <2>1, <2>4, <2>5, <2>6, <2>7 DEF Sound
<1>10. Replies'
  <2> SUFFICES ASSUME NEW h \in Conns, handler'[h].pc = "reply",
                      NEW k \in DOMAIN handler'[h].toSend
               PROVE  /\ handler'[h].toSend[k].msg.type \in {"text", "joined"}
                      /\ handler'[h].toSend[k].msg.type = "joined" /\ socket'[h].peer = "open" =>
                            Shown(h, handler[h].toSend[k].msg.game)'
    BY DEF Replies
  <2>1. handler'[h] = handler[h]
    BY <1>8
  <2>2. /\ handler[h].toSend[k].msg.type \in {"text", "joined"}
        /\ handler[h].toSend[k].msg.type = "joined" /\ socket[h].peer = "open" =>
              Shown(h, handler[h].toSend[k].msg.game)
    BY <2>1 DEF Broadcasting, Replies
  <2>3. \A r : Shown(h, r) => \E i \in DOMAIN socket'[h].sent :
                                 /\ socket'[h].sent[i].type = "state"
                                 /\ socket'[h].sent[i].game = r
    BY <1>7 DEF Shown, BoardAt
  <2>4. Shown(h, handler[h].toSend[k].msg.game) => Shown(h, handler[h].toSend[k].msg.game)'
    BY <2>1, <2>3 DEF Shown, BoardAt
  <2> QED BY <1>7, <2>1, <2>2, <2>4
<1>11. Latest'
  <2> SUFFICES ASSUME NEW e \in Conns, NEW r \in DOMAIN games, NEW i \in DOMAIN socket'[e].sent,
                      socket'[e].peer = "open", LatestBoard(e, r, i)'
               PROVE  \/ socket'[e].sent[i].version = games[r].version
                      \/ /\ socket'[e].sent[i].version = games[r].version - 1
                         /\ \E h \in Conns : games[r].gameMutex = h /\ Pending(h, e)'
    BY <1>1 DEF Latest
  <2>1. CASE socket'[e].sent[i].version = games[r].version
    BY <2>1
  <2>2. CASE LatestBoard(e, r, i) /\ socket'[e].sent[i] = socket[e].sent[i]
    <3>1. socket[e].peer = "open" /\ i \in DOMAIN socket[e].sent
      BY <1>7, <2>2 DEF LatestBoard, BoardAt
    <3>2. ASSUME NEW h \in Conns, games[r].gameMutex = h, Pending(h, e)
          PROVE  Pending(h, e)'
      <4>1. h # c
        BY <1>1, <3>2 DEF IndInv, Held
      <4> QED BY <1>4, <3>2, <4>1 DEF Pending
    <3> QED BY <2>2, <3>1, <3>2 DEF Broadcasting, Latest
  <2> QED BY <1>7, <2>1, <2>2
<1>12. Gone'
  BY <1>7, <1>8 DEF Broadcasting, Gone
<1>13. Joining'
  <2> SUFFICES ASSUME NEW h \in Conns, h # c, handler'[h] = handler[h]
               PROVE  /\ handler'[h].pc = "broadcast" => Among(h, handler[h].gameSessionId)'
                      /\ handler'[h].pc = "makeMove" => handler'[h].command # "JOIN"
                      /\ handler'[h].pc = "sending" /\ handler'[h].command = "JOIN"
                            /\ socket'[h].peer = "open" =>
                            Pending(h, h)' \/ Shown(h, handler[h].gameSessionId)'
    BY <1>8 DEF Joining
  <2>1. /\ handler[h].pc = "broadcast" => Among(h, handler[h].gameSessionId)
        /\ handler[h].pc = "makeMove" => handler[h].command # "JOIN"
        /\ handler[h].pc = "sending" /\ handler[h].command = "JOIN" /\ socket[h].peer = "open" =>
              Pending(h, h) \/ Shown(h, handler[h].gameSessionId)
    BY DEF Broadcasting, Joining
  <2>2. Among(h, handler[h].gameSessionId) => Among(h, handler[h].gameSessionId)'
    BY <1>1 DEF Among
  <2>3. Shown(h, handler[h].gameSessionId) => Shown(h, handler[h].gameSessionId)'
    <3>1. \A r : Shown(h, r) => \E i \in DOMAIN socket'[h].sent :
                                   /\ socket'[h].sent[i].type = "state"
                                   /\ socket'[h].sent[i].game = r
      BY <1>7 DEF Shown, BoardAt
    <3> QED BY <3>1 DEF Shown, BoardAt
  <2>4. Pending(h, h) => Pending(h, h)'
    BY DEF Pending
  <2> QED BY <1>7, <2>1, <2>2, <2>3, <2>4
<1> QED BY <1>7, <1>9, <1>10, <1>11, <1>12, <1>13 DEF Broadcasting

LEMMA BroadcastingInit == ASSUME NEW login, InitAs(login) PROVE Broadcasting
<1>1. /\ games = <<>> /\ \A c \in Conns : /\ handler[c].pc = "receive"
                                          /\ socket[c].sent = <<>>
                                          /\ socket[c].peer = "open"
  BY DEF InitAs
<1>2. \A c \in Conns : DOMAIN socket[c].sent = {}
  BY <1>1
<1>3. Listed /\ InFlight /\ Replies /\ Latest /\ Gone /\ Joining
  BY <1>1, <1>2 DEF Listed, InFlight, Replies, Latest, Gone, Joining
<1>4. BoardsInOrder /\ JoinedClientSeesBoard /\ WinAfterBoard
  BY <1>2 DEF BoardsInOrder, JoinedClientSeesBoard, WinAfterBoard
<1> QED BY <1>3, <1>4 DEF Broadcasting

LEMMA BroadcastingNext == IndInv /\ Broadcasting /\ [Next]_vars => Broadcasting'
<1> SUFFICES ASSUME IndInv, Broadcasting, [Next]_vars
             PROVE  Broadcasting'
  OBVIOUS
<1>1. CASE UNCHANGED vars
  BY <1>1, ClientActions
<1>2. ASSUME NEW c \in Conns, Command(c)
      PROVE  Broadcasting'
  BY <1>2, SilentActions
<1>3. ASSUME NEW c \in Conns, ClientReads(c) \/ ClientCloses(c)
      PROVE  Broadcasting'
  BY <1>3, ClientActions
<1>4. ASSUME NEW c \in Conns, Handle(c)
      PROVE  Broadcasting'
  <2>1. CASE \/ getGameSession(c) \/ makeMoveRefused(c) \/ disconnected(c)
             \/ createGameSession(c) \/ joinGameSession(c) \/ joinGame(c) \/ addClientSocket(c)
    BY <2>1, SilentActions
  <2>2. CASE broadcastGameState(c)
    BY <2>2, BroadcastStep
  <2>3. CASE \E result \in {"none", "win", "empty"} : makeMove(c, result)
    BY <2>3, MoveStep
  <2>4. CASE sendToClient(c)
    BY <2>4, SendStep
  <2>5. CASE unlock(c)
    BY <2>5, UnlockStep
  <2>6. CASE reply(c)
    BY <2>6, ReplyStep
  <2> QED BY <1>4, <2>1, <2>2, <2>3, <2>4, <2>5, <2>6 DEF Handle
<1> QED BY <1>1, <1>2, <1>3, <1>4 DEF Next

LEMMA Broadcasts == Spec => []Broadcasting
<1>1. Init => Broadcasting
  BY BroadcastingInit DEF Init
<1> QED BY <1>1, Inductive, BroadcastingNext, PTL DEF Spec

(* Every client is sent the boards of its game in the order of the moves   *)
(* and none left out, with any number of players' threads broadcasting.    *)
THEOREM InOrder == Spec => []BoardsInOrder
<1>1. Broadcasting => BoardsInOrder
  BY DEF Broadcasting
<1> QED BY <1>1, Broadcasts, PTL

(* With its game's mutex free a client that is still there has been sent   *)
(* the board as it is, if it was ever sent one.                            *)
THEOREM Current == Spec => []UpToDate
<1>1. IndInv /\ Broadcasting => UpToDate
  <2> SUFFICES ASSUME Latest, NEW s \in DOMAIN games, NEW c \in Conns,
                      games[s].gameMutex = Free, socket[c].peer = "open",
                      NEW i \in DOMAIN socket[c].sent, LatestBoard(c, s, i)
               PROVE  socket[c].sent[i].version = games[s].version
    BY DEF UpToDate, Broadcasting
  <2> QED BY ConstantsAssumption DEF Latest
<1> QED BY <1>1, Inductive, Broadcasts, PTL

(* A client that is told it has joined has been sent the board before.     *)
THEOREM JoinShowsBoard == Spec => []JoinedClientSeesBoard
<1>1. Broadcasting => JoinedClientSeesBoard
  BY DEF Broadcasting
<1> QED BY <1>1, Broadcasts, PTL

(* A client is shown the final board before it is told who has won.        *)
THEOREM WinLast == Spec => []WinAfterBoard
<1>1. Broadcasting => WinAfterBoard
  BY DEF Broadcasting
<1> QED BY <1>1, Broadcasts, PTL
=============================================================================
