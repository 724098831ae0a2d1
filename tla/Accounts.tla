------------------------------ MODULE Accounts ------------------------------
(***************************************************************************)
(* The users table and what the server does to it: REGISTER, the three     *)
(* statements of a browser's LOGIN, and the two UPDATEs of a decided game, *)
(* each statement atomic and durable by itself and none in a transaction   *)
(* with another.  One thread serves every browser; each TCP client has a   *)
(* worker, under whatever name it gave.  A crash loses the log-ins and the *)
(* games, the table stays.  A game is here only to be decided once, as     *)
(* GameSession shows, and to say who is credited.                          *)
(***************************************************************************)
EXTENDS Integers, FiniteSets, Sequences

CONSTANTS
    Users,      \* user names
    Passwords,
    Browsers,   \* WebSocket connections
    TypedNames, \* the names TCP clients play under
    NoPlayer,   \* an empty player2Id
    Unknown,    \* the clientId of a browser that has not logged in
    ws,         \* the WebSocket thread
    Workers,    \* TCP handlers
    MaxGames, MaxCrashes    \* bounds: games decided or open, crashes

ASSUME ConstantsAssumption ==
    /\ Unknown \notin Users /\ NoPlayer \notin Users \cup TypedNames
    /\ ws \notin Workers /\ IsFiniteSet(Workers)
    /\ MaxGames \in Nat /\ MaxCrashes \in Nat

Threads == {ws} \cup Workers
Names == Users \cup TypedNames

VARIABLES
    users,          \* the rows, by username
    columns,        \* the table has the columns wins and losses
    running,        \* the process is
    wsConnections,  \* the user each browser has logged in as
    games,          \* gameSessions
    thread,         \* what each thread is in the middle of
    played,         \* history: the games decided, in order
    cut,            \* history: decided games whose UPDATEs a crash cut short
    crashes         \* for the bound

vars == <<users, columns, running, wsConnections, games, thread, played, cut, crashes>>

SHA256(password) == <<"SHA-256", password>>

Account == [password : {SHA256(p) : p \in Passwords}, wins : Nat, losses : Nat]

(* The row that getWins and getLosses were asked about is kept with their  *)
(* results as it was when validateUser found it.                           *)
Record == [user : Users, wins : Nat, losses : Nat, row : Account]

Game == [player1 : Names, player2 : Names \cup {NoPlayer}, over : BOOLEAN]

(* A decided game, and who of its players had an account then.             *)
Decision == [player1 : Names, player2 : Names \cup {NoPlayer}, rows : SUBSET Users]

Idle == [at |-> "idle"]

Activity ==
    {Idle}
    \cup [at : {"getWins", "getLosses", "answer"}, browser : Browsers, record : Record]
    \cup [at : {"incrementWins", "incrementLosses"}, game : DOMAIN games]

TypeOK ==
    /\ DOMAIN users \in SUBSET Users /\ users \in [DOMAIN users -> Account]
    /\ columns \in BOOLEAN /\ running \in BOOLEAN
    /\ wsConnections \in [Browsers -> Users \cup {Unknown}]
    /\ games \in Seq(Game)
    /\ thread \in [Threads -> Activity]
    /\ played \in Seq(Decision)
    /\ cut \in Nat /\ crashes \in Nat

(* The database file of the repository has the two columns; the one that   *)
(* the server itself creates has not.                                      *)
Init ==
    /\ users = <<>>
    /\ columns \in BOOLEAN
    /\ running = TRUE
    /\ wsConnections = [b \in Browsers |-> Unknown]
    /\ games = <<>>
    /\ thread = [t \in Threads |-> Idle]
    /\ played = <<>>
    /\ cut = 0
    /\ crashes = 0

IsFree(t) == running /\ thread[t] = Idle

-----------------------------------------------------------------------------
(* The table.                                                              *)

WithRow(username, row) ==
    [u \in DOMAIN users \cup {username} |-> IF u = username THEN row ELSE users[u]]

NewAccount(password) == [password |-> SHA256(password), wins |-> 0, losses |-> 0]

(* Mutated form of createUser: INSERT OR REPLACE.                          *)
ReplaceUser(username, password) ==
    /\ IsFree(ws)
    /\ users' = WithRow(username, NewAccount(password))
    /\ UNCHANGED <<columns, running, wsConnections, games, thread, played, cut, crashes>>

(* REGISTER; the INSERT of a username that exists fails, and is no step.   *)
createUser(username, password) ==
    /\ IsFree(ws)
    /\ username \notin DOMAIN users
    /\ users' = WithRow(username, NewAccount(password))
    /\ UNCHANGED <<columns, running, wsConnections, games, thread, played, cut, crashes>>

(* What an UPDATE of one counter leaves: the same table if no row has the  *)
(* name, or the column does not exist.                                     *)
Increment(username, wins, losses) ==
    IF columns /\ username \in DOMAIN users
    THEN [users EXCEPT ![username].wins = @ + wins, ![username].losses = @ + losses]
    ELSE users

-----------------------------------------------------------------------------
(* LOGIN of a browser.                                                     *)

validateUser(b, username, password) ==
    /\ IsFree(ws)
    /\ username \in DOMAIN users
    /\ users[username].password = SHA256(password)
    /\ wsConnections' = [wsConnections EXCEPT ![b] = username]
    /\ thread' = [thread EXCEPT ![ws] =
            [at |-> "getWins", browser |-> b,
             record |-> [user |-> username, wins |-> 0, losses |-> 0, row |-> users[username]]]]
    /\ UNCHANGED <<users, columns, running, games, played, cut, crashes>>

(* A SELECT of a column that does not exist is not prepared: 0 is returned,*)
(* which is what the model's row has.                                      *)
getWins ==
    /\ running /\ thread[ws].at = "getWins"
    /\ thread' = [thread EXCEPT ![ws].at = "getLosses",
                                ![ws].record.wins = users[thread[ws].record.user].wins]
    /\ UNCHANGED <<users, columns, running, wsConnections, games, played, cut, crashes>>

(* Mutated form of getLosses: the query of getWins.                        *)
GetWinsAgain ==
    /\ running /\ thread[ws].at = "getLosses"
    /\ thread' = [thread EXCEPT ![ws].at = "answer",
                                ![ws].record.losses = users[thread[ws].record.user].wins]
    /\ UNCHANGED <<users, columns, running, wsConnections, games, played, cut, crashes>>

getLosses ==
    /\ running /\ thread[ws].at = "getLosses"
    /\ thread' = [thread EXCEPT ![ws].at = "answer",
                                ![ws].record.losses = users[thread[ws].record.user].losses]
    /\ UNCHANGED <<users, columns, running, wsConnections, games, played, cut, crashes>>

(* What the thread has read goes to the browser.                           *)
login_success ==
    /\ running /\ thread[ws].at = "answer"
    /\ thread' = [thread EXCEPT ![ws] = Idle]
    /\ UNCHANGED <<users, columns, running, wsConnections, games, played, cut, crashes>>

(* A connection closes, and the browser opens another.                     *)
Reconnect(b) ==
    /\ IsFree(ws)
    /\ wsConnections' = [wsConnections EXCEPT ![b] = Unknown]
    /\ UNCHANGED <<users, columns, running, games, thread, played, cut, crashes>>

-----------------------------------------------------------------------------
(* Games.                                                                  *)

(* The thread serves somebody who plays as name.                           *)
Serves(t, name) ==
    /\ IsFree(t)
    /\ \/ t = ws /\ \E b \in Browsers : wsConnections[b] = name
       \/ t \in Workers /\ name \in TypedNames

createGameSession(t, name) ==
    /\ Serves(t, name)
    /\ Len(played) + Cardinality({g \in DOMAIN games : ~games[g].over}) < MaxGames
    /\ games' = Append(games, [player1 |-> name, player2 |-> NoPlayer, over |-> FALSE])
    /\ UNCHANGED <<users, columns, running, wsConnections, thread, played, cut, crashes>>

(* makeMove keeps gameMutex until both UPDATEs are done.                   *)
Locked(g) ==
    \E t \in Threads :
        thread[t].at \in {"incrementWins", "incrementLosses"} /\ thread[t].game = g

joinGame(t, g, name) ==
    /\ Serves(t, name)
    /\ ~Locked(g)
    /\ games[g].player2 = NoPlayer /\ games[g].player1 # name
    /\ games' = [games EXCEPT ![g].player2 = name]
    /\ UNCHANGED <<users, columns, running, wsConnections, thread, played, cut, crashes>>

(* A move takes the last piece of a side, perhaps before anybody joined.   *)
checkForWinner(t, g) ==
    /\ Serves(t, games[g].player1) \/ Serves(t, games[g].player2)
    /\ ~Locked(g) /\ ~games[g].over
    /\ games' = [games EXCEPT ![g].over = TRUE]
    /\ thread' = [thread EXCEPT ![t] = [at |-> "incrementWins", game |-> g]]
    /\ played' = Append(played, [player1 |-> games[g].player1, player2 |-> games[g].player2,
                                 rows |-> DOMAIN users])
    /\ UNCHANGED <<users, columns, running, wsConnections, cut, crashes>>

(* Player 2 is credited with the win whoever has won.                      *)
incrementWins(t) ==
    /\ running /\ thread[t].at = "incrementWins"
    /\ users' = Increment(games[thread[t].game].player2, 1, 0)
    /\ thread' = [thread EXCEPT ![t].at = "incrementLosses"]
    /\ UNCHANGED <<columns, running, wsConnections, games, played, cut, crashes>>

(* Mutated form of incrementLosses: the statement of incrementWins.        *)
IncrementWinsAgain(t) ==
    /\ running /\ thread[t].at = "incrementLosses"
    /\ users' = Increment(games[thread[t].game].player1, 1, 0)
    /\ thread' = [thread EXCEPT ![t] = Idle]
    /\ UNCHANGED <<columns, running, wsConnections, games, played, cut, crashes>>

incrementLosses(t) ==
    /\ running /\ thread[t].at = "incrementLosses"
    /\ users' = Increment(games[thread[t].game].player1, 0, 1)
    /\ thread' = [thread EXCEPT ![t] = Idle]
    /\ UNCHANGED <<columns, running, wsConnections, games, played, cut, crashes>>

-----------------------------------------------------------------------------
Crediting == {t \in Threads : thread[t].at \in {"incrementWins", "incrementLosses"}}

(* The process dies, at any point, with all it has in memory.              *)
Crash ==
    /\ running
    /\ crashes < MaxCrashes
    /\ crashes' = crashes + 1
    /\ cut' = cut + Cardinality(Crediting)
    /\ running' = FALSE
    /\ wsConnections' = [b \in Browsers |-> Unknown]
    /\ games' = <<>>
    /\ thread' = [t \in Threads |-> Idle]
    /\ UNCHANGED <<users, columns, played>>

(* It is started again: CREATE TABLE IF NOT EXISTS finds the table.        *)
initialize ==
    /\ ~running
    /\ running' = TRUE
    /\ UNCHANGED <<users, columns, wsConnections, games, thread, played, cut, crashes>>

Next ==
    \/ \E u \in Users, p \in Passwords : createUser(u, p)
    \/ \E b \in Browsers, u \in Users, p \in Passwords : validateUser(b, u, p)
    \/ getWins \/ getLosses \/ login_success
    \/ \E b \in Browsers : Reconnect(b)
    \/ \E t \in Threads, name \in Names : createGameSession(t, name)
    \/ \E t \in Threads, g \in DOMAIN games, name \in Names : joinGame(t, g, name)
    \/ \E t \in Threads, g \in DOMAIN games : checkForWinner(t, g)
    \/ \E t \in Threads : incrementWins(t) \/ incrementLosses(t)
    \/ Crash \/ initialize

Spec == Init /\ [][Next]_vars

-----------------------------------------------------------------------------
(* Properties.                                                             *)

(* The decided games of which u is to be credited with the win, or with    *)
(* the loss, and those for which u had an account by then.                 *)
WinsDue(u)   == {i \in DOMAIN played : played[i].player2 = u}
LossesDue(u) == {i \in DOMAIN played : played[i].player1 = u}
HadRow(u)    == {i \in DOMAIN played : u \in played[i].rows}

(* The UPDATEs of u that are on their way.                                 *)
WinsComing(u) ==
    {t \in Threads : thread[t].at = "incrementWins" /\ games[thread[t].game].player2 = u}
LossesComing(u) ==
    {t \in Crediting : games[thread[t].game].player1 = u}

(* No result is counted twice, and none is lost but to a crash between the *)
(* move and its UPDATEs, or for want of an account or of the columns, with *)
(* several games decided at once, logins and registrations in between.     *)
CreditsMatch ==
    \A u \in DOMAIN users :
        /\ users[u].wins <= Cardinality(WinsDue(u))
        /\ users[u].losses <= Cardinality(LossesDue(u))
        /\ columns =>
              /\ users[u].wins + Cardinality(WinsComing(u)) + cut
                    >= Cardinality(WinsDue(u) \cap HadRow(u))
              /\ users[u].losses + Cardinality(LossesComing(u)) + cut
                    >= Cardinality(LossesDue(u) \cap HadRow(u))

(* The wins and losses a browser is sent were read one after the other, and*)
(* need never have been the row together; each lies between what the row   *)
(* held when the password was checked and what it holds as they are sent.  *)
RecordBetween ==
    thread[ws].at = "answer" =>
        LET record == thread[ws].record
            now == users[record.user]
        IN  /\ record.row.wins <= record.wins /\ record.wins <= now.wins
            /\ record.row.losses <= record.losses /\ record.losses <= now.losses

(* No statement and no crash loses an account, changes its password, or    *)
(* takes back or adds more than one result at a time.                      *)
AccountsSurvive ==
    [][\A u \in DOMAIN users :
            /\ u \in DOMAIN users'
            /\ users'[u].password = users[u].password
            /\ users'[u].wins - users[u].wins \in {0, 1}
            /\ users'[u].losses - users[u].losses \in {0, 1}]_vars
=============================================================================
