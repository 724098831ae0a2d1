--------------------------- MODULE AccountsProofs ---------------------------
(***************************************************************************)
(* The accounts for any number of users, browsers, workers, games and      *)
(* crashes.                                                                *)
(***************************************************************************)
EXTENDS Accounts, FiniteSetTheorems, SequenceTheorems, TLAPS

(* What a LOGIN has read so far lies between the row as validateUser found *)
(* it and the row as it is.                                                *)
Reading ==
    thread[ws].at \in {"getWins", "getLosses", "answer"} =>
        LET record == thread[ws].record
            now == users[record.user]
        IN  /\ record.user \in DOMAIN users
            /\ record.row.wins <= now.wins /\ record.row.losses <= now.losses
            /\ thread[ws].at # "getWins" =>
                  record.row.wins <= record.wins /\ record.wins <= now.wins
            /\ thread[ws].at = "answer" =>
                  record.row.losses <= record.losses /\ record.losses <= now.losses

IndInv == TypeOK /\ Reading

-----------------------------------------------------------------------------
(* An UPDATE changes one counter of one row, or nothing.                   *)
LEMMA IncrementFacts ==
    ASSUME TypeOK, NEW username, NEW wins \in {0, 1}, NEW losses \in {0, 1},
           users' = Increment(username, wins, losses)
    PROVE  /\ DOMAIN users' = DOMAIN users
           /\ users' \in [DOMAIN users -> Account]
           /\ \A u \in DOMAIN users :
                 /\ users'[u].password = users[u].password
                 /\ users'[u].wins = users[u].wins +
                       (IF columns /\ u = username THEN wins ELSE 0)
                 /\ users'[u].losses = users[u].losses +
                       (IF columns /\ u = username THEN losses ELSE 0)
<1>1. users \in [DOMAIN users -> Account]
  BY DEF TypeOK
<1>2. CASE columns /\ username \in DOMAIN users
  <2> DEFINE row == [users[username] EXCEPT !.wins = users[username].wins + wins,
                                            !.losses = users[username].losses + losses]
  <2>1. users' = [users EXCEPT ![username] = row]
    BY <1>1, <1>2 DEF Increment, Account
  <2>2. row \in Account
    <3>1. users[username] \in Account
      BY <1>1, <1>2
    <3>2. /\ users[username].wins + wins \in Nat
          /\ users[username].losses + losses \in Nat
      BY <3>1 DEF Account
    <3> QED BY <3>1, <3>2 DEF Account
  <2>3. /\ row.password = users[username].password
        /\ row.wins = users[username].wins + wins
        /\ row.losses = users[username].losses + losses
    BY <1>1, <1>2 DEF Account
  <2> HIDE DEF row
  <2>4. \A u \in DOMAIN users : users[u].wins \in Nat /\ users[u].losses \in Nat
    BY <1>1 DEF Account
  <2> QED BY <1>1, <1>2, <2>1, <2>2, <2>3, <2>4
<1>3. CASE ~(columns /\ username \in DOMAIN users)
  <2>1. users' = users
    BY <1>3 DEF Increment
  <2>2. \A u \in DOMAIN users : users[u].wins \in Nat /\ users[u].losses \in Nat
    BY <1>1 DEF Account
  <2> QED BY <1>1, <1>3, <2>1, <2>2
<1> QED BY <1>2, <1>3

(* The statement of incrementWins adds at most one win.                    *)
LEMMA WinAdded ==
    ASSUME TypeOK, NEW username, users' = Increment(username, 1, 0)
    PROVE  /\ DOMAIN users' = DOMAIN users /\ users' \in [DOMAIN users -> Account]
           /\ \A u \in DOMAIN users :
                 /\ users'[u].password = users[u].password
                 /\ users'[u].wins >= users[u].wins
                 /\ users'[u].wins - users[u].wins \in {0, 1}
                 /\ users'[u].losses = users[u].losses
                 /\ users'[u].losses - users[u].losses \in {0, 1}
<1>1. /\ DOMAIN users' = DOMAIN users /\ users' \in [DOMAIN users -> Account]
      /\ \A u \in DOMAIN users :
            /\ users'[u].password = users[u].password
            /\ users'[u].wins = users[u].wins + (IF columns /\ u = username THEN 1 ELSE 0)
            /\ users'[u].losses = users[u].losses + (IF columns /\ u = username THEN 0 ELSE 0)
  <2>1. 1 \in {0, 1} /\ 0 \in {0, 1}
    OBVIOUS
  <2> HIDE DEF TypeOK, Increment
  <2> QED BY <2>1, IncrementFacts, ZenonT(60)
<1>2. \A u \in DOMAIN users : users[u].wins \in Nat /\ users[u].losses \in Nat
  BY DEF TypeOK, Account
<1>3. ASSUME NEW u \in DOMAIN users
      PROVE  /\ users'[u].wins >= users[u].wins /\ users'[u].wins - users[u].wins \in {0, 1}
             /\ users'[u].losses = users[u].losses
             /\ users'[u].losses - users[u].losses \in {0, 1}
  BY <1>1, <1>2
<1> QED BY <1>1, <1>3

(* The statement of incrementLosses adds at most one loss.                 *)
LEMMA LossAdded ==
    ASSUME TypeOK, NEW username, users' = Increment(username, 0, 1)
    PROVE  /\ DOMAIN users' = DOMAIN users /\ users' \in [DOMAIN users -> Account]
           /\ \A u \in DOMAIN users :
                 /\ users'[u].password = users[u].password
                 /\ users'[u].losses >= users[u].losses
                 /\ users'[u].losses - users[u].losses \in {0, 1}
                 /\ users'[u].wins = users[u].wins
                 /\ users'[u].wins - users[u].wins \in {0, 1}
<1>1. /\ DOMAIN users' = DOMAIN users /\ users' \in [DOMAIN users -> Account]
      /\ \A u \in DOMAIN users :
            /\ users'[u].password = users[u].password
            /\ users'[u].wins = users[u].wins + (IF columns /\ u = username THEN 0 ELSE 0)
            /\ users'[u].losses = users[u].losses + (IF columns /\ u = username THEN 1 ELSE 0)
  <2>1. 0 \in {0, 1} /\ 1 \in {0, 1}
    OBVIOUS
  <2> HIDE DEF TypeOK, Increment
  <2> QED BY <2>1, IncrementFacts, ZenonT(60)
<1>2. \A u \in DOMAIN users : users[u].wins \in Nat /\ users[u].losses \in Nat
  BY DEF TypeOK, Account
<1>3. ASSUME NEW u \in DOMAIN users
      PROVE  /\ users'[u].losses >= users[u].losses /\ users'[u].losses - users[u].losses \in {0, 1}
             /\ users'[u].wins = users[u].wins /\ users'[u].wins - users[u].wins \in {0, 1}
  BY <1>1, <1>2
<1> QED BY <1>1, <1>3

(* An INSERT adds a row and leaves the others.                             *)
LEMMA InsertFacts ==
    ASSUME TypeOK, NEW username \in Users, NEW password \in Passwords,
           username \notin DOMAIN users, users' = WithRow(username, NewAccount(password))
    PROVE  /\ DOMAIN users' = DOMAIN users \cup {username}
           /\ users' \in [DOMAIN users' -> Account]
           /\ \A u \in DOMAIN users : users'[u] = users[u]
           /\ users'[username].wins = 0 /\ users'[username].losses = 0
<1>1. NewAccount(password) \in Account
  BY DEF NewAccount, Account
<1>2. NewAccount(password).wins = 0 /\ NewAccount(password).losses = 0
  BY DEF NewAccount
<1> QED BY <1>1, <1>2 DEF WithRow, TypeOK

(* What a thread is in the middle of, by where it is.                      *)
LEMMA ActivityFacts ==
    ASSUME TypeOK, NEW t \in Threads
    PROVE  /\ thread[t].at \in {"getWins", "getLosses", "answer"} =>
                 thread[t] \in [at : {"getWins", "getLosses", "answer"},
                                browser : Browsers, record : Record]
           /\ thread[t].at \in {"incrementWins", "incrementLosses"} =>
                 thread[t] \in [at : {"incrementWins", "incrementLosses"}, game : DOMAIN games]
           /\ thread[t].at \in {"idle", "getWins", "getLosses", "answer",
                                "incrementWins", "incrementLosses"}
           /\ thread[t].at = "idle" <=> thread[t] = Idle
BY DEF TypeOK, Activity, Idle

(* The activities of a thread do not depend on games that come later.      *)
LEMMA ActivityGrows ==
    ASSUME DOMAIN games \subseteq DOMAIN games', NEW a \in Activity
    PROVE  a \in Activity'
<1>1. CASE a \in [at : {"incrementWins", "incrementLosses"}, game : DOMAIN games]
  BY <1>1 DEF Activity
<1>2. CASE a \notin [at : {"incrementWins", "incrementLosses"}, game : DOMAIN games]
  BY <1>2 DEF Activity, Idle
<1> QED BY <1>1, <1>2

LEMMA GamesFacts ==
    ASSUME TypeOK
    PROVE  /\ Len(games) \in Nat /\ DOMAIN games = 1 .. Len(games)
           /\ \A g \in DOMAIN games : games[g] \in Game
BY LenProperties, ElementOfSeq DEF TypeOK

-----------------------------------------------------------------------------
LEMMA InitIndInv == Init => IndInv
<1> SUFFICES ASSUME Init PROVE IndInv
  OBVIOUS
<1>1. users \in [DOMAIN users -> Account] /\ DOMAIN users \in SUBSET Users
  BY DEF Init
<1>2. games \in Seq(Game) /\ played \in Seq(Decision)
  BY EmptySeq DEF Init
<1>3. thread \in [Threads -> Activity] /\ thread[ws].at = "idle"
  BY DEF Init, Activity, Idle, Threads
<1>4. wsConnections \in [Browsers -> Users \cup {Unknown}]
  BY DEF Init
<1> QED BY <1>1, <1>2, <1>3, <1>4 DEF Init, IndInv, TypeOK, Reading

(* A statement on the table, by a thread that is not reading for a LOGIN.  *)
LEMMA TableStep ==
    ASSUME IndInv,
           \/ \E u \in Users, p \in Passwords : createUser(u, p)
           \/ \E t \in Threads : incrementWins(t) \/ incrementLosses(t)
    PROVE  IndInv'
<1> USE DEF IndInv
<1>1. CASE \E u \in Users, p \in Passwords : createUser(u, p)
  <2>1. PICK u \in Users, p \in Passwords : createUser(u, p)
    BY <1>1
  <2>2. /\ DOMAIN users' = DOMAIN users \cup {u}
        /\ users' \in [DOMAIN users' -> Account]
    BY <2>1, InsertFacts DEF createUser
  <2>3. TypeOK'
    BY <2>1, <2>2 DEF createUser, TypeOK, Activity
  <2>4. Reading'
    BY <2>1 DEF createUser, IsFree, Idle, Reading
  <2> QED BY <2>3, <2>4
<1>2. ASSUME NEW t \in Threads, incrementWins(t)
      PROVE  IndInv'
  <2>1. users' = Increment(games[thread[t].game].player2, 1, 0)
    BY <1>2 DEF incrementWins
  <2>2. /\ DOMAIN users' = DOMAIN users /\ users' \in [DOMAIN users -> Account]
        /\ \A u \in DOMAIN users : /\ users'[u].wins >= users[u].wins
                                   /\ users'[u].losses = users[u].losses
    BY <2>1, WinAdded
  <2>3. thread' \in [Threads -> Activity]
    <3>1. thread[t] \in [at : {"incrementWins", "incrementLosses"}, game : DOMAIN games]
      BY <1>2, ActivityFacts DEF incrementWins
    <3>2. [thread[t] EXCEPT !.at = "incrementLosses"] \in Activity
      BY <3>1 DEF Activity
    <3> QED BY <1>2, <3>2 DEF incrementWins, TypeOK
  <2>4. TypeOK'
    BY <1>2, <2>2, <2>3 DEF incrementWins, TypeOK, Activity
  <2>5. Reading'
    <3>1. CASE t = ws
      <4>1. thread'[ws].at = "incrementLosses"
        BY <1>2, <3>1 DEF incrementWins, TypeOK, Activity
      <4> QED BY <4>1 DEF Reading
    <3>2. CASE t # ws
      <4>1. thread'[ws] = thread[ws]
        BY <1>2, <3>2 DEF incrementWins, TypeOK
      <4> QED BY <2>2, <4>1, ActivityFacts DEF Reading, TypeOK, Account, Record, Threads
    <3> QED BY <3>1, <3>2
  <2> QED BY <2>4, <2>5
<1>3. ASSUME NEW t \in Threads, incrementLosses(t)
      PROVE  IndInv'
  <2>1. users' = Increment(games[thread[t].game].player1, 0, 1)
    BY <1>3 DEF incrementLosses
  <2>2. /\ DOMAIN users' = DOMAIN users /\ users' \in [DOMAIN users -> Account]
        /\ \A u \in DOMAIN users : /\ users'[u].wins = users[u].wins
                                   /\ users'[u].losses >= users[u].losses
    BY <2>1, LossAdded
  <2>3. thread' \in [Threads -> Activity]
    BY <1>3 DEF incrementLosses, TypeOK, Activity
  <2>4. TypeOK'
    BY <1>3, <2>2, <2>3 DEF incrementLosses, TypeOK, Activity
  <2>5. Reading'
    <3>1. CASE t = ws
      BY <1>3, <3>1 DEF incrementLosses, TypeOK, Reading, Idle
    <3>2. CASE t # ws
      <4>1. thread'[ws] = thread[ws]
        BY <1>3, <3>2 DEF incrementLosses, TypeOK
      <4> QED BY <2>2, <4>1, ActivityFacts DEF Reading, TypeOK, Account, Record, Threads
    <3> QED BY <3>1, <3>2
  <2> QED BY <2>4, <2>5
<1> QED BY <1>1, <1>2, <1>3

(* The statements of a LOGIN.                                              *)
LEMMA LoginStep ==
    ASSUME IndInv,
           \/ \E b \in Browsers, u \in Users, p \in Passwords : validateUser(b, u, p)
           \/ getWins \/ getLosses \/ login_success
    PROVE  IndInv'
<1> USE DEF IndInv
<1>1. /\ ws \in Threads
      /\ thread \in [Threads -> Activity]
      /\ users \in [DOMAIN users -> Account]
  BY DEF Threads, TypeOK
<1>2. UNCHANGED <<users, columns, running, games, played, cut, crashes>>
  BY DEF validateUser, getWins, getLosses, login_success
<1>3. ASSUME NEW b \in Browsers, NEW u \in Users, NEW p \in Passwords, validateUser(b, u, p)
      PROVE  IndInv'
  <2> DEFINE start == [at |-> "getWins", browser |-> b,
                       record |-> [user |-> u, wins |-> 0, losses |-> 0, row |-> users[u]]]
  <2>1. u \in DOMAIN users /\ users[u] \in Account
    BY <1>1, <1>3 DEF validateUser
  <2>2. start \in Activity
    BY <2>1 DEF Activity, Record
  <2>3. thread' = [thread EXCEPT ![ws] = start]
    BY <1>3 DEF validateUser
  <2>4. TypeOK'
    BY <1>1, <1>2, <1>3, <2>2, <2>3 DEF validateUser, TypeOK, Activity
  <2>5. Reading'
    BY <1>1, <1>2, <2>1, <2>3 DEF Reading, Account
  <2> QED BY <2>4, <2>5
<1>4. CASE getWins
  <2> DEFINE record == thread[ws].record
             next == [thread[ws] EXCEPT !.at = "getLosses",
                          !.record = [record EXCEPT !.wins = users[record.user].wins]]
  <2>1. thread[ws] \in [at : {"getWins", "getLosses", "answer"},
                        browser : Browsers, record : Record]
    BY <1>1, <1>4, ActivityFacts DEF getWins
  <2>2. record \in Record /\ record.user \in DOMAIN users /\ users[record.user] \in Account
    BY <1>1, <1>4, <2>1 DEF Reading, getWins
  <2>3. next \in Activity
    BY <2>1, <2>2 DEF Activity, Record, Account
  <2>4. thread' = [thread EXCEPT ![ws] = next]
    BY <1>1, <1>4, <2>1, <2>2 DEF getWins, Record
  <2>5. TypeOK'
    BY <1>1, <1>2, <1>4, <2>3, <2>4, ZenonT(60) DEF getWins, TypeOK, Activity
  <2>6. Reading'
    <3>1. /\ next.at = "getLosses" /\ next.record.row = record.row
          /\ next.record.user = record.user /\ next.record.wins = users[record.user].wins
      BY <2>1, <2>2 DEF Record
    <3>2. thread'[ws] = next
      BY <1>1, <2>4
    <3> HIDE DEF next
    <3> QED BY <1>2, <1>4, <2>2, <3>1, <3>2 DEF Reading, getWins, Account
  <2> QED BY <2>5, <2>6
<1>5. CASE getLosses
  <2> DEFINE record == thread[ws].record
             next == [thread[ws] EXCEPT !.at = "answer",
                          !.record = [record EXCEPT !.losses = users[record.user].losses]]
  <2>1. thread[ws] \in [at : {"getWins", "getLosses", "answer"},
                        browser : Browsers, record : Record]
    BY <1>1, <1>5, ActivityFacts DEF getLosses
  <2>2. record \in Record /\ record.user \in DOMAIN users /\ users[record.user] \in Account
    BY <1>1, <1>5, <2>1 DEF Reading, getLosses
  <2>3. next \in Activity
    BY <2>1, <2>2 DEF Activity, Record, Account
  <2>4. thread' = [thread EXCEPT ![ws] = next]
    BY <1>1, <1>5, <2>1, <2>2 DEF getLosses, Record
  <2>5. TypeOK'
    BY <1>1, <1>2, <1>5, <2>3, <2>4, ZenonT(60) DEF getLosses, TypeOK, Activity
  <2>6. Reading'
    <3>1. /\ next.at = "answer" /\ next.record.row = record.row
          /\ next.record.user = record.user /\ next.record.wins = record.wins
          /\ next.record.losses = users[record.user].losses
      BY <2>1, <2>2 DEF Record
    <3>2. thread'[ws] = next
      BY <1>1, <2>4
    <3> HIDE DEF next
    <3> QED BY <1>2, <1>5, <2>2, <3>1, <3>2 DEF Reading, getLosses, Account
  <2> QED BY <2>5, <2>6
<1>6. CASE login_success
  <2>1. TypeOK'
    BY <1>1, <1>2, <1>6 DEF login_success, TypeOK, Activity
  <2>2. Reading'
    BY <1>1, <1>6 DEF login_success, Reading, Idle
  <2> QED BY <2>1, <2>2
<1> QED BY <1>3, <1>4, <1>5, <1>6

(* Sessions, connections, and the process: no statement, and nothing that  *)
(* touches a LOGIN under way but the crash, which ends it.                 *)
LEMMA OtherStep ==
    ASSUME IndInv,
           \/ \E b \in Browsers : Reconnect(b)
           \/ \E t \in Threads, name \in Names : createGameSession(t, name)
           \/ \E t \in Threads, g \in DOMAIN games, name \in Names : joinGame(t, g, name)
           \/ \E t \in Threads, g \in DOMAIN games : checkForWinner(t, g)
           \/ Crash \/ initialize
    PROVE  IndInv'
<1> USE DEF IndInv
<1>1. ws \in Threads /\ thread \in [Threads -> Activity]
  BY DEF Threads, TypeOK
<1>2. CASE \E b \in Browsers : Reconnect(b)
  <2>1. TypeOK'
    BY <1>2 DEF Reconnect, TypeOK, Activity
  <2>2. Reading'
    BY <1>2 DEF Reconnect, Reading
  <2> QED BY <2>1, <2>2
<1>3. ASSUME NEW t \in Threads, NEW name \in Names, createGameSession(t, name)
      PROVE  IndInv'
  <2> DEFINE game == [player1 |-> name, player2 |-> NoPlayer, over |-> FALSE]
  <2>1. game \in Game
    BY DEF Game
  <2>2. games' = Append(games, game) /\ thread' = thread
    BY <1>3 DEF createGameSession
  <2>3. games' \in Seq(Game) /\ DOMAIN games \subseteq DOMAIN games'
    <3>1. games' \in Seq(Game) /\ Len(games') = Len(games) + 1
      BY <2>1, <2>2, AppendProperties DEF TypeOK
    <3> QED BY <3>1, GamesFacts, LenProperties
  <2>4. thread' \in [Threads -> Activity']
    BY <1>1, <2>2, <2>3, ActivityGrows
  <2>5. TypeOK'
    BY <1>3, <2>3, <2>4 DEF createGameSession, TypeOK
  <2>6. Reading'
    BY <1>3 DEF createGameSession, Reading
  <2> QED BY <2>5, <2>6
<1>4. ASSUME NEW t \in Threads, NEW g \in DOMAIN games, NEW name \in Names, joinGame(t, g, name)
      PROVE  IndInv'
  <2>1. games' \in Seq(Game) /\ DOMAIN games' = DOMAIN games
    <3>1. games[g] \in Game /\ [games[g] EXCEPT !.player2 = name] \in Game
      BY GamesFacts DEF Game
    <3> QED BY <1>4, <3>1, GamesFacts, ExceptSeq DEF joinGame, TypeOK
  <2>2. TypeOK'
    BY <1>1, <1>4, <2>1, ActivityGrows DEF joinGame, TypeOK
  <2>3. Reading'
    BY <1>4 DEF joinGame, Reading
  <2> QED BY <2>2, <2>3
<1>5. ASSUME NEW t \in Threads, NEW g \in DOMAIN games, checkForWinner(t, g)
      PROVE  IndInv'
  <2>1. games[g] \in Game
    BY GamesFacts
  <2>2. games' \in Seq(Game) /\ DOMAIN games' = DOMAIN games
    <3>1. [games[g] EXCEPT !.over = TRUE] \in Game
      BY <2>1 DEF Game
    <3> QED BY <1>5, <3>1, GamesFacts, ExceptSeq DEF checkForWinner, TypeOK
  <2>3. [at |-> "incrementWins", game |-> g] \in Activity
    BY DEF Activity
  <2>4. thread' \in [Threads -> Activity']
    BY <1>1, <1>5, <2>2, <2>3, ActivityGrows DEF checkForWinner
  <2>5. played' \in Seq(Decision)
    BY <1>5, <2>1, AppendProperties DEF checkForWinner, TypeOK, Game, Decision
  <2>6. TypeOK'
    BY <1>5, <2>2, <2>4, <2>5 DEF checkForWinner, TypeOK
  <2>7. Reading'
    BY <1>1, <1>5 DEF checkForWinner, Reading
  <2> QED BY <2>6, <2>7
<1>6. CASE Crash
  <2>1. cut' \in Nat /\ crashes' \in Nat
    <3>1. IsFiniteSet(Crediting) /\ Cardinality(Crediting) \in Nat
      <4>1. IsFiniteSet(Threads)
        BY ConstantsAssumption, FS_AddElement DEF Threads
      <4> QED BY <4>1, FS_Subset, FS_CardinalityType DEF Crediting
    <3> QED BY <1>6, <3>1 DEF Crash, TypeOK
  <2>2. thread' \in [Threads -> Activity'] /\ games' \in Seq(Game)
    BY <1>6, EmptySeq DEF Crash, Activity
  <2>3. TypeOK'
    BY <1>6, <2>1, <2>2 DEF Crash, TypeOK
  <2>4. Reading'
    BY <1>1, <1>6 DEF Crash, Reading, Idle
  <2> QED BY <2>3, <2>4
<1>7. CASE initialize
  BY <1>7 DEF initialize, TypeOK, Activity, Reading
<1> QED BY <1>2, <1>3, <1>4, <1>5, <1>6, <1>7

LEMMA IndInvNext == IndInv /\ [Next]_vars => IndInv'
<1> SUFFICES ASSUME IndInv, [Next]_vars
             PROVE  IndInv'
  OBVIOUS
<1>1. CASE UNCHANGED vars
  BY <1>1 DEF vars, IndInv, TypeOK, Activity, Reading
<1>2. CASE Next
  BY <1>2, TableStep, LoginStep, OtherStep DEF Next
<1> QED BY <1>1, <1>2

LEMMA Inductive == Spec => []IndInv
BY InitIndInv, IndInvNext, PTL DEF Spec

(* Rows, connections, sessions and threads keep their types.               *)
THEOREM TypeCorrect == Spec => []TypeOK
<1>1. IndInv => TypeOK
  BY DEF IndInv
<1> QED BY <1>1, Inductive, PTL

(* What a LOGIN answers lies between the row it found and the row as it is.*)
THEOREM RecordsRead == Spec => []RecordBetween
<1>1. IndInv => RecordBetween
  BY DEF IndInv, Reading, RecordBetween
<1> QED BY <1>1, Inductive, PTL

(* Accounts are never lost, and their counters never go back.              *)
THEOREM Survival == Spec => AccountsSurvive
<1> DEFINE Kept == \A u \in DOMAIN users :
                      /\ u \in DOMAIN users'
                      /\ users'[u].password = users[u].password
                      /\ users'[u].wins - users[u].wins \in {0, 1}
                      /\ users'[u].losses - users[u].losses \in {0, 1}
<1>1. IndInv /\ [Next]_vars => Kept
  <2> SUFFICES ASSUME IndInv, [Next]_vars
               PROVE  Kept
    OBVIOUS
  <2>1. TypeOK /\ \A u \in DOMAIN users : users[u].wins \in Nat /\ users[u].losses \in Nat
    BY DEF IndInv, TypeOK, Account
  <2>2. CASE users' = users
    BY <2>1, <2>2
  <2>3. ASSUME NEW u \in Users, NEW p \in Passwords, createUser(u, p)
        PROVE  Kept
    <3>1. DOMAIN users \subseteq DOMAIN users' /\ \A v \in DOMAIN users : users'[v] = users[v]
      BY <2>1, <2>3, InsertFacts DEF createUser
    <3> QED BY <2>1, <3>1
  <2>4. ASSUME NEW t \in Threads, incrementWins(t)
        PROVE  Kept
    <3>1. users' = Increment(games[thread[t].game].player2, 1, 0)
      BY <2>4 DEF incrementWins
    <3> QED BY <2>1, <3>1, WinAdded
  <2>5. ASSUME NEW t \in Threads, incrementLosses(t)
        PROVE  Kept
    <3>1. users' = Increment(games[thread[t].game].player1, 0, 1)
      BY <2>5 DEF incrementLosses
    <3> QED BY <2>1, <3>1, LossAdded
  <2> QED BY <2>2, <2>3, <2>4, <2>5 DEF Next, vars, validateUser, getWins, getLosses,
             login_success, Reconnect, createGameSession, joinGame, checkForWinner,
             Crash, initialize
<1>2. IndInv /\ [Next]_vars => [Kept]_vars
  BY <1>1
<1>3. Spec => [][Kept]_vars
  BY <1>2, Inductive, PTL DEF Spec
<1> QED BY <1>3 DEF AccountsSurvive

-----------------------------------------------------------------------------
(* The counters, and 0 where there is no row.                              *)
Wins(u)   == IF u \in DOMAIN users THEN users[u].wins ELSE 0
Losses(u) == IF u \in DOMAIN users THEN users[u].losses ELSE 0

(* CreditsMatch with the UPDATEs on their way counted on both sides, and   *)
(* for users that have no account yet.                                     *)
CountedFor(u) ==
    /\ Wins(u) + Cardinality(WinsComing(u)) <= Cardinality(WinsDue(u))
    /\ Losses(u) + Cardinality(LossesComing(u)) <= Cardinality(LossesDue(u))
    /\ u \notin DOMAIN users => HadRow(u) = {}
    /\ columns =>
          /\ Wins(u) + Cardinality(WinsComing(u)) + cut
                >= Cardinality(WinsDue(u) \cap HadRow(u))
          /\ Losses(u) + Cardinality(LossesComing(u)) + cut
                >= Cardinality(LossesDue(u) \cap HadRow(u))

Counted == \A u \in Users : CountedFor(u)

(* All that is counted is finite.                                          *)
LEMMA FiniteCounts ==
    ASSUME TypeOK, NEW u
    PROVE  /\ IsFiniteSet(Crediting)
           /\ IsFiniteSet(WinsComing(u)) /\ IsFiniteSet(LossesComing(u))
           /\ IsFiniteSet(WinsDue(u)) /\ IsFiniteSet(LossesDue(u))
           /\ IsFiniteSet(WinsDue(u) \cap HadRow(u))
           /\ IsFiniteSet(LossesDue(u) \cap HadRow(u))
           /\ Wins(u) \in Nat /\ Losses(u) \in Nat
<1>1. IsFiniteSet(Threads)
  BY ConstantsAssumption, FS_AddElement DEF Threads
<1>2. /\ Crediting \subseteq Threads
      /\ WinsComing(u) \subseteq Threads /\ LossesComing(u) \subseteq Threads
  BY DEF Crediting, WinsComing, LossesComing
<1>3. Len(played) \in Nat /\ DOMAIN played = 1 .. Len(played)
  BY LenProperties DEF TypeOK
<1>4. IsFiniteSet(DOMAIN played)
  <2>1. IsFiniteSet(1 .. Len(played))
    BY <1>3, FS_Interval
  <2> QED BY <1>3, <2>1
<1>5. /\ WinsDue(u) \subseteq DOMAIN played /\ LossesDue(u) \subseteq DOMAIN played
      /\ WinsDue(u) \cap HadRow(u) \subseteq DOMAIN played
      /\ LossesDue(u) \cap HadRow(u) \subseteq DOMAIN played
  BY DEF WinsDue, LossesDue
<1>6. Wins(u) \in Nat /\ Losses(u) \in Nat
  BY DEF Wins, Losses, TypeOK, Account
<1> QED BY <1>1, <1>2, <1>4, <1>5, <1>6, FS_Subset

(* A step that neither credits nor decides a game.                         *)
LEMMA QuietStep ==
    ASSUME TypeOK, Counted, UNCHANGED <<users, columns, played, cut>>,
           \A u \in Users : /\ WinsComing(u)' = WinsComing(u)
                            /\ LossesComing(u)' = LossesComing(u)
    PROVE  Counted'
<1> SUFFICES ASSUME NEW u \in Users
             PROVE  CountedFor(u)'
  BY DEF Counted
<1>1. /\ WinsDue(u)' = WinsDue(u) /\ LossesDue(u)' = LossesDue(u)
      /\ HadRow(u)' = HadRow(u) /\ Wins(u)' = Wins(u) /\ Losses(u)' = Losses(u)
  BY DEF WinsDue, LossesDue, HadRow, Wins, Losses
<1> QED BY <1>1 DEF Counted, CountedFor

(* A LOGIN, a session that is created or joined, a connection, a start.    *)
LEMMA QuietActions ==
    ASSUME TypeOK, Counted,
           \/ \E b \in Browsers, u \in Users, p \in Passwords : validateUser(b, u, p)
           \/ getWins \/ getLosses \/ login_success
           \/ \E b \in Browsers : Reconnect(b)
           \/ \E t \in Threads, name \in Names : createGameSession(t, name)
           \/ \E t \in Threads, g \in DOMAIN games, name \in Names : joinGame(t, g, name)
           \/ initialize \/ UNCHANGED vars
    PROVE  Counted'
<1> DEFINE crediting == {"incrementWins", "incrementLosses"}
<1>1. UNCHANGED <<users, columns, played, cut>>
  BY DEF validateUser, getWins, getLosses, login_success, Reconnect, createGameSession,
         joinGame, initialize, vars
<1>2. thread \in [Threads -> Activity] /\ ws \in Threads
  BY DEF TypeOK, Threads
<1>3. \A t \in Threads : \/ thread'[t] = thread[t]
                         \/ thread'[t].at \notin crediting /\ thread[t].at \notin crediting
  <2>1. CASE \E b \in Browsers, u \in Users, p \in Passwords : validateUser(b, u, p)
    BY <1>2, <2>1 DEF validateUser, IsFree, Idle
  <2>2. CASE getWins
    <3>1. thread'[ws].at = "getLosses"
      BY <1>2, <2>2, ActivityFacts DEF getWins
    <3> QED BY <1>2, <2>2, <3>1 DEF getWins
  <2>3. CASE getLosses
    <3>1. thread'[ws].at = "answer"
      BY <1>2, <2>3, ActivityFacts DEF getLosses
    <3> QED BY <1>2, <2>3, <3>1 DEF getLosses
  <2>4. CASE login_success
    BY <1>2, <2>4 DEF login_success, Idle
  <2>5. CASE thread' = thread
    BY <2>5
  <2> QED BY <2>1, <2>2, <2>3, <2>4, <2>5 DEF Reconnect, createGameSession, joinGame,
             initialize, vars
<1>4. \A t \in Threads : thread[t].at \in crediting =>
          /\ thread[t].game \in DOMAIN games
          /\ games'[thread[t].game].player1 = games[thread[t].game].player1
          /\ games'[thread[t].game].player2 = games[thread[t].game].player2
  <2> SUFFICES ASSUME NEW t \in Threads, thread[t].at \in crediting
               PROVE  /\ thread[t].game \in DOMAIN games
                      /\ games'[thread[t].game].player1 = games[thread[t].game].player1
                      /\ games'[thread[t].game].player2 = games[thread[t].game].player2
    OBVIOUS
  <2>1. thread[t].game \in DOMAIN games
    BY ActivityFacts
  <2>2. CASE games' = games
    BY <2>1, <2>2
  <2>3. ASSUME NEW d \in Threads, NEW name \in Names, createGameSession(d, name)
        PROVE  games'[thread[t].game] = games[thread[t].game]
    <3>1. [player1 |-> name, player2 |-> NoPlayer, over |-> FALSE] \in Game
      BY DEF Game
    <3>2. \A i \in 1 .. Len(games) : games'[i] = games[i]
      BY <2>3, <3>1, AppendProperties DEF createGameSession, TypeOK
    <3> QED BY <2>1, <3>2, GamesFacts
  <2>4. ASSUME NEW d \in Threads, NEW g \in DOMAIN games, NEW name \in Names,
               joinGame(d, g, name)
        PROVE  games'[thread[t].game] = games[thread[t].game]
    <3>1. thread[t].game # g
      BY <2>4 DEF joinGame, Locked
    <3> QED BY <2>1, <2>4, <3>1 DEF joinGame
  <2> QED BY <2>1, <2>2, <2>3, <2>4 DEF validateUser, getWins, getLosses, login_success,
             Reconnect, initialize, vars
<1>5. \A u \in Users : /\ WinsComing(u)' = WinsComing(u)
                       /\ LossesComing(u)' = LossesComing(u)
  BY <1>3, <1>4 DEF WinsComing, LossesComing, Crediting
<1> QED BY <1>1, <1>5, QuietStep

(* A new account starts with no results, and none were due to it.          *)
LEMMA CreateCounted ==
    ASSUME TypeOK, Counted, NEW v \in Users, NEW p \in Passwords, createUser(v, p)
    PROVE  Counted'
<1> SUFFICES ASSUME NEW u \in Users
             PROVE  CountedFor(u)'
  BY DEF Counted
<1>1. /\ WinsDue(u)' = WinsDue(u) /\ LossesDue(u)' = LossesDue(u) /\ HadRow(u)' = HadRow(u)
      /\ WinsComing(u)' = WinsComing(u) /\ LossesComing(u)' = LossesComing(u)
      /\ columns' = columns /\ cut' = cut
  BY DEF createUser, WinsDue, LossesDue, HadRow, WinsComing, LossesComing, Crediting
<1>2. /\ DOMAIN users' = DOMAIN users \cup {v}
      /\ Wins(u)' = Wins(u) /\ Losses(u)' = Losses(u)
  BY InsertFacts DEF createUser, Wins, Losses
<1> QED BY <1>1, <1>2 DEF Counted, CountedFor

(* What a set gains, its cardinality gains.                                *)
LEMMA Gain ==
    ASSUME NEW S, IsFiniteSet(S), NEW x, x \notin S, NEW c \in BOOLEAN
    PROVE  Cardinality(S \cup (IF c THEN {x} ELSE {})) = Cardinality(S) + (IF c THEN 1 ELSE 0)
<1>1. CASE c
  <2>1. Cardinality(S \cup {x}) = Cardinality(S) + 1
    BY FS_AddElement
  <2> QED BY <1>1, <2>1
<1>2. CASE ~c
  <2>1. S \cup {} = S /\ Cardinality(S) \in Nat
    BY FS_CardinalityType
  <2> QED BY <1>2, <2>1
<1> QED BY <1>1, <1>2

(* What a set loses, its cardinality loses.                                *)
LEMMA Loss ==
    ASSUME NEW S, IsFiniteSet(S), NEW x, NEW c \in BOOLEAN, c <=> x \in S
    PROVE  Cardinality(S \ {x}) = Cardinality(S) - (IF c THEN 1 ELSE 0)
<1>1. CASE c
  <2>1. Cardinality(S \ {x}) = Cardinality(S) - 1
    BY <1>1, FS_RemoveElement
  <2> QED BY <1>1, <2>1
<1>2. CASE ~c
  <2>1. S \ {x} = S /\ Cardinality(S) \in Nat
    BY <1>2, FS_CardinalityType
  <2> QED BY <1>2, <2>1, SMTT(30)
<1> QED BY <1>1, <1>2

(* A decided game is due to both its players and on its way to both.       *)
LEMMA DecideCounted ==
    ASSUME TypeOK, Counted, NEW t \in Threads, NEW g \in DOMAIN games, checkForWinner(t, g)
    PROVE  Counted'
<1> SUFFICES ASSUME NEW u \in Users
             PROVE  CountedFor(u)'
  BY DEF Counted
<1> DEFINE n == Len(played) + 1
           e == [player1 |-> games[g].player1, player2 |-> games[g].player2,
                 rows |-> DOMAIN users]
           won == games[g].player2 = u
           lost == games[g].player1 = u
<1>1. /\ thread[t] = Idle /\ UNCHANGED <<users, columns, cut>>
      /\ thread' = [thread EXCEPT ![t] = [at |-> "incrementWins", game |-> g]]
      /\ played' = Append(played, e)
  BY DEF checkForWinner, Serves, IsFree
<1>2. games[g] \in Game /\ games' = [games EXCEPT ![g].over = TRUE]
  BY GamesFacts DEF checkForWinner
<1>3. \A h \in DOMAIN games : /\ games'[h].player1 = games[h].player1
                              /\ games'[h].player2 = games[h].player2
  BY <1>2, GamesFacts DEF Game
<1>4. e \in Decision /\ played \in Seq(Decision)
  BY <1>2 DEF Game, Decision, TypeOK
<1>5. /\ Len(played) \in Nat /\ DOMAIN played = 1 .. Len(played)
      /\ DOMAIN played' = 1 .. n /\ played'[n] = e
      /\ \A i \in DOMAIN played : played'[i] = played[i]
  BY <1>1, <1>4, AppendProperties, LenProperties
<1>6. n \notin DOMAIN played /\ DOMAIN played' = DOMAIN played \cup {n}
  BY <1>5
<1>7. t \notin Crediting
  BY <1>1 DEF Crediting, Idle
<1>8. /\ WinsComing(u)' = WinsComing(u) \cup (IF won THEN {t} ELSE {})
      /\ LossesComing(u)' = LossesComing(u) \cup (IF lost THEN {t} ELSE {})
  <2>1. \A d \in Threads : thread'[d] = IF d = t THEN [at |-> "incrementWins", game |-> g]
                                        ELSE thread[d]
    BY <1>1 DEF TypeOK
  <2>2. \A d \in Threads : thread[d].at \in {"incrementWins", "incrementLosses"} =>
            thread[d].game \in DOMAIN games
    BY ActivityFacts
  <2> QED BY <1>3, <1>7, <2>1, <2>2 DEF WinsComing, LossesComing, Crediting
<1>9. t \notin WinsComing(u) /\ t \notin LossesComing(u)
  BY <1>7 DEF WinsComing, LossesComing, Crediting
<1>10. /\ WinsDue(u)' = WinsDue(u) \cup (IF won THEN {n} ELSE {})
       /\ LossesDue(u)' = LossesDue(u) \cup (IF lost THEN {n} ELSE {})
       /\ HadRow(u)' = HadRow(u) \cup (IF u \in DOMAIN users THEN {n} ELSE {})
       /\ n \notin WinsDue(u) /\ n \notin LossesDue(u) /\ n \notin HadRow(u)
  <2>1. /\ e.player1 = games[g].player1
        /\ e.player2 = games[g].player2
        /\ e.rows = DOMAIN users
    OBVIOUS
  <2> HIDE DEF e, n
  <2> QED BY <1>5, <1>6, <2>1 DEF WinsDue, LossesDue, HadRow
<1>11. Wins(u)' = Wins(u) /\ Losses(u)' = Losses(u)
  BY <1>1 DEF Wins, Losses
<1> DEFINE wc == Cardinality(WinsComing(u))  lc == Cardinality(LossesComing(u))
           wd == Cardinality(WinsDue(u))     ld == Cardinality(LossesDue(u))
           wk == Cardinality(WinsDue(u) \cap HadRow(u))
           lk == Cardinality(LossesDue(u) \cap HadRow(u))
<1>12. /\ wc \in Nat /\ lc \in Nat /\ wd \in Nat /\ ld \in Nat /\ wk \in Nat /\ lk \in Nat
       /\ Wins(u) \in Nat /\ Losses(u) \in Nat /\ cut \in Nat
  BY FiniteCounts, FS_CardinalityType DEF TypeOK
<1> HIDE DEF won, lost
<1>13. won \in BOOLEAN /\ lost \in BOOLEAN
  BY DEF won, lost
<1>14. /\ Cardinality(WinsComing(u)') = wc + (IF won THEN 1 ELSE 0)
       /\ Cardinality(LossesComing(u)') = lc + (IF lost THEN 1 ELSE 0)
  <2>1. IsFiniteSet(WinsComing(u)) /\ IsFiniteSet(LossesComing(u))
    BY FiniteCounts
  <2>2. Cardinality(WinsComing(u) \cup (IF won THEN {t} ELSE {}))
            = Cardinality(WinsComing(u)) + (IF won THEN 1 ELSE 0)
    BY <1>9, <1>13, <2>1, Gain
  <2>3. Cardinality(LossesComing(u) \cup (IF lost THEN {t} ELSE {}))
            = Cardinality(LossesComing(u)) + (IF lost THEN 1 ELSE 0)
    BY <1>9, <1>13, <2>1, Gain
  <2> QED BY <1>8, <2>2, <2>3
<1> HIDE DEF n
<1>15. /\ Cardinality(WinsDue(u)') = wd + (IF won THEN 1 ELSE 0)
       /\ Cardinality(LossesDue(u)') = ld + (IF lost THEN 1 ELSE 0)
  <2>1. IsFiniteSet(WinsDue(u)) /\ IsFiniteSet(LossesDue(u))
    BY FiniteCounts
  <2>2. Cardinality(WinsDue(u) \cup (IF won THEN {n} ELSE {}))
            = Cardinality(WinsDue(u)) + (IF won THEN 1 ELSE 0)
    BY <1>10, <1>13, <2>1, Gain
  <2>3. Cardinality(LossesDue(u) \cup (IF lost THEN {n} ELSE {}))
            = Cardinality(LossesDue(u)) + (IF lost THEN 1 ELSE 0)
    BY <1>10, <1>13, <2>1, Gain
  <2> QED BY <1>10, <2>2, <2>3
<1> DEFINE had == u \in DOMAIN users
<1> HIDE DEF had
<1>16. /\ Cardinality(WinsDue(u)' \cap HadRow(u)') = wk + (IF won /\ had THEN 1 ELSE 0)
       /\ Cardinality(LossesDue(u)' \cap HadRow(u)') = lk + (IF lost /\ had THEN 1 ELSE 0)
  <2>1. /\ IsFiniteSet(WinsDue(u) \cap HadRow(u)) /\ IsFiniteSet(LossesDue(u) \cap HadRow(u))
    BY FiniteCounts
  <2>2. n \notin WinsDue(u) \cap HadRow(u) /\ n \notin LossesDue(u) \cap HadRow(u)
    BY <1>10
  <2>3. (won /\ had) \in BOOLEAN /\ (lost /\ had) \in BOOLEAN
    OBVIOUS
  <2>4. Cardinality((WinsDue(u) \cap HadRow(u)) \cup (IF won /\ had THEN {n} ELSE {}))
            = wk + (IF won /\ had THEN 1 ELSE 0)
    BY <2>1, <2>2, <2>3, Gain
  <2>5. Cardinality((LossesDue(u) \cap HadRow(u)) \cup (IF lost /\ had THEN {n} ELSE {}))
            = lk + (IF lost /\ had THEN 1 ELSE 0)
    BY <2>1, <2>2, <2>3, Gain
  <2>6. WinsDue(u)' \cap HadRow(u)'
            = (WinsDue(u) \cap HadRow(u)) \cup (IF won /\ had THEN {n} ELSE {})
    BY <1>10 DEF had
  <2>7. LossesDue(u)' \cap HadRow(u)'
            = (LossesDue(u) \cap HadRow(u)) \cup (IF lost /\ had THEN {n} ELSE {})
    BY <1>10 DEF had
  <2> QED BY <2>4, <2>5, <2>6, <2>7
<1>17. u \notin DOMAIN users' => HadRow(u)' = {}
  BY <1>1, <1>10 DEF Counted, CountedFor
<1>18. /\ Wins(u) + wc <= wd /\ Losses(u) + lc <= ld
       /\ columns => Wins(u) + wc + cut >= wk /\ Losses(u) + lc + cut >= lk
  BY DEF Counted, CountedFor
<1> HIDE DEF wc, lc, wd, ld, wk, lk
<1>19. /\ Wins(u) + (wc + (IF won THEN 1 ELSE 0)) <= wd + (IF won THEN 1 ELSE 0)
       /\ Losses(u) + (lc + (IF lost THEN 1 ELSE 0)) <= ld + (IF lost THEN 1 ELSE 0)
       /\ columns =>
            /\ Wins(u) + (wc + (IF won THEN 1 ELSE 0)) + cut
                  >= wk + (IF won /\ had THEN 1 ELSE 0)
            /\ Losses(u) + (lc + (IF lost THEN 1 ELSE 0)) + cut
                  >= lk + (IF lost /\ had THEN 1 ELSE 0)
  BY <1>12, <1>18
<1> QED BY <1>1, <1>11, <1>14, <1>15, <1>16, <1>17, <1>19 DEF CountedFor

(* An UPDATE that a decided game has sent on its way arrives: at one row,  *)
(* or at none for want of it or of the columns.                            *)
LEMMA UpdateCounted ==
    ASSUME TypeOK, NEW u \in Users, CountedFor(u), NEW t \in Threads, NEW username,
           NEW wins \in {0, 1}, NEW losses \in {0, 1},
           users' = Increment(username, wins, losses), UNCHANGED <<columns, played, cut>>,
           wins = 1 /\ u = username <=> t \in WinsComing(u) /\ wins = 1,
           losses = 1 /\ u = username <=> t \in LossesComing(u) /\ losses = 1,
           WinsComing(u)' = IF wins = 1 THEN WinsComing(u) \ {t} ELSE WinsComing(u),
           LossesComing(u)' = IF losses = 1 THEN LossesComing(u) \ {t} ELSE LossesComing(u)
    PROVE  CountedFor(u)'
<1> DEFINE won == wins = 1 /\ u = username
           lost == losses = 1 /\ u = username
           had == u \in DOMAIN users
           wc == Cardinality(WinsComing(u))  lc == Cardinality(LossesComing(u))
           wd == Cardinality(WinsDue(u))     ld == Cardinality(LossesDue(u))
           wk == Cardinality(WinsDue(u) \cap HadRow(u))
           lk == Cardinality(LossesDue(u) \cap HadRow(u))
<1>1. /\ wc \in Nat /\ lc \in Nat /\ wd \in Nat /\ ld \in Nat /\ wk \in Nat /\ lk \in Nat
      /\ Wins(u) \in Nat /\ Losses(u) \in Nat /\ cut \in Nat
  BY FiniteCounts, FS_CardinalityType DEF TypeOK
<1>2. /\ WinsDue(u)' = WinsDue(u) /\ LossesDue(u)' = LossesDue(u) /\ HadRow(u)' = HadRow(u)
      /\ columns' = columns /\ cut' = cut
  BY DEF WinsDue, LossesDue, HadRow
<1>3. /\ DOMAIN users' = DOMAIN users
      /\ Wins(u)' = Wins(u) + (IF columns /\ had /\ won THEN 1 ELSE 0)
      /\ Losses(u)' = Losses(u) + (IF columns /\ had /\ lost THEN 1 ELSE 0)
  <2>1. /\ DOMAIN users' = DOMAIN users
        /\ had => /\ users'[u].wins = users[u].wins + (IF columns /\ u = username THEN wins ELSE 0)
                  /\ users'[u].losses =
                        users[u].losses + (IF columns /\ u = username THEN losses ELSE 0)
    BY IncrementFacts
  <2>2. had => users[u].wins \in Nat /\ users[u].losses \in Nat
    BY DEF TypeOK, Account
  <2> QED BY <2>1, <2>2 DEF Wins, Losses
<1>4. won \in BOOLEAN /\ lost \in BOOLEAN
  OBVIOUS
<1>5. Cardinality(WinsComing(u)') = wc - (IF won THEN 1 ELSE 0)
  <2>1. IsFiniteSet(WinsComing(u))
    BY FiniteCounts
  <2>2. CASE wins = 1
    <3>1. won <=> t \in WinsComing(u)
      BY <2>2
    <3>2. Cardinality(WinsComing(u) \ {t}) = Cardinality(WinsComing(u)) - (IF won THEN 1 ELSE 0)
      BY <1>4, <2>1, <3>1, Loss
    <3> QED BY <2>2, <3>2
  <2>3. CASE wins = 0
    BY <1>1, <2>3
  <2> QED BY <2>2, <2>3
<1>6. Cardinality(LossesComing(u)') = lc - (IF lost THEN 1 ELSE 0)
  <2>1. IsFiniteSet(LossesComing(u))
    BY FiniteCounts
  <2>2. CASE losses = 1
    <3>1. lost <=> t \in LossesComing(u)
      BY <2>2
    <3>2. Cardinality(LossesComing(u) \ {t})
              = Cardinality(LossesComing(u)) - (IF lost THEN 1 ELSE 0)
      BY <1>4, <2>1, <3>1, Loss
    <3> QED BY <2>2, <3>2
  <2>3. CASE losses = 0
    BY <1>1, <2>3
  <2> QED BY <2>2, <2>3
<1>7. /\ wc - (IF won THEN 1 ELSE 0) \in Nat /\ lc - (IF lost THEN 1 ELSE 0) \in Nat
  <2>1. IsFiniteSet(WinsComing(u)) /\ IsFiniteSet(LossesComing(u))
    BY FiniteCounts
  <2>2. IsFiniteSet(WinsComing(u)') /\ IsFiniteSet(LossesComing(u)')
    BY <2>1, FS_Subset
  <2> QED BY <1>5, <1>6, <2>2, FS_CardinalityType
<1>8. /\ Wins(u) + wc <= wd /\ Losses(u) + lc <= ld
      /\ columns => Wins(u) + wc + cut >= wk /\ Losses(u) + lc + cut >= lk
  BY DEF CountedFor
<1>9. ~had => HadRow(u) = {} /\ wk = 0 /\ lk = 0
  BY FS_EmptySet DEF CountedFor
<1> HIDE DEF wc, lc, wd, ld, wk, lk, won, lost, had
<1>10. /\ Wins(u) + (IF columns /\ had /\ won THEN 1 ELSE 0) + (wc - (IF won THEN 1 ELSE 0)) <= wd
       /\ Losses(u) + (IF columns /\ had /\ lost THEN 1 ELSE 0)
             + (lc - (IF lost THEN 1 ELSE 0)) <= ld
  BY <1>1, <1>8
<1>11. columns /\ had =>
           /\ Wins(u) + (IF columns /\ had /\ won THEN 1 ELSE 0)
                 + (wc - (IF won THEN 1 ELSE 0)) + cut >= wk
           /\ Losses(u) + (IF columns /\ had /\ lost THEN 1 ELSE 0)
                 + (lc - (IF lost THEN 1 ELSE 0)) + cut >= lk
  BY <1>1, <1>8
<1>12. columns /\ ~had =>
           /\ Wins(u) + (IF columns /\ had /\ won THEN 1 ELSE 0)
                 + (wc - (IF won THEN 1 ELSE 0)) + cut >= wk
           /\ Losses(u) + (IF columns /\ had /\ lost THEN 1 ELSE 0)
                 + (lc - (IF lost THEN 1 ELSE 0)) + cut >= lk
  BY <1>1, <1>7, <1>9
<1>13. u \notin DOMAIN users' => HadRow(u)' = {}
  BY <1>2, <1>3, <1>9 DEF had
<1> QED BY <1>2, <1>3, <1>5, <1>6, <1>10, <1>11, <1>12, <1>13 DEF CountedFor, wd, ld, wk, lk

(* Player 2's win arrives; player 1's loss is still on its way.            *)
LEMMA WinCounted ==
    ASSUME TypeOK, Counted, NEW t \in Threads, incrementWins(t)
    PROVE  Counted'
<1> SUFFICES ASSUME NEW u \in Users
             PROVE  CountedFor(u)'
  BY DEF Counted
<1> DEFINE p == games[thread[t].game].player2
<1>1. /\ users' = Increment(p, 1, 0) /\ UNCHANGED <<columns, played, cut, games>>
      /\ thread[t].at = "incrementWins"
  BY DEF incrementWins
<1>2. \A d \in Threads : /\ d # t => thread'[d] = thread[d]
                         /\ thread'[t].at = "incrementLosses"
                         /\ thread'[t].game = thread[t].game
  BY <1>1, ActivityFacts DEF incrementWins, TypeOK
<1>3. WinsComing(u)' = WinsComing(u) \ {t} /\ LossesComing(u)' = LossesComing(u)
  BY <1>1, <1>2 DEF WinsComing, LossesComing, Crediting
<1>4. u = p <=> t \in WinsComing(u)
  BY <1>1 DEF WinsComing
<1>5. CountedFor(u)
  BY DEF Counted
<1> HIDE DEF p
<1> QED BY <1>1, <1>3, <1>4, <1>5, UpdateCounted

(* Player 1's loss arrives, and the game is done with.                     *)
LEMMA LossCounted ==
    ASSUME TypeOK, Counted, NEW t \in Threads, incrementLosses(t)
    PROVE  Counted'
<1> SUFFICES ASSUME NEW u \in Users
             PROVE  CountedFor(u)'
  BY DEF Counted
<1> DEFINE p == games[thread[t].game].player1
<1>1. /\ users' = Increment(p, 0, 1) /\ UNCHANGED <<columns, played, cut, games>>
      /\ thread[t].at = "incrementLosses"
  BY DEF incrementLosses
<1>2. \A d \in Threads : /\ d # t => thread'[d] = thread[d]
                         /\ thread'[t].at = "idle"
  BY <1>1 DEF incrementLosses, TypeOK, Idle
<1>3. WinsComing(u)' = WinsComing(u) /\ LossesComing(u)' = LossesComing(u) \ {t}
  BY <1>1, <1>2 DEF WinsComing, LossesComing, Crediting
<1>4. u = p <=> t \in LossesComing(u)
  BY <1>1 DEF LossesComing, Crediting
<1>5. CountedFor(u)
  BY DEF Counted
<1> HIDE DEF p
<1> QED BY <1>1, <1>3, <1>4, <1>5, UpdateCounted

(* What a crash cuts short is no longer on its way, and is remembered.     *)
LEMMA CrashCounted ==
    ASSUME TypeOK, Counted, Crash
    PROVE  Counted'
<1> SUFFICES ASSUME NEW u \in Users
             PROVE  CountedFor(u)'
  BY DEF Counted
<1> DEFINE wc == Cardinality(WinsComing(u))  lc == Cardinality(LossesComing(u))
           wd == Cardinality(WinsDue(u))     ld == Cardinality(LossesDue(u))
           wk == Cardinality(WinsDue(u) \cap HadRow(u))
           lk == Cardinality(LossesDue(u) \cap HadRow(u))
           lost == Cardinality(Crediting)
<1>1. /\ wc \in Nat /\ lc \in Nat /\ wd \in Nat /\ ld \in Nat /\ wk \in Nat /\ lk \in Nat
      /\ lost \in Nat /\ Wins(u) \in Nat /\ Losses(u) \in Nat /\ cut \in Nat
  BY FiniteCounts, FS_CardinalityType DEF TypeOK
<1>2. /\ WinsDue(u)' = WinsDue(u) /\ LossesDue(u)' = LossesDue(u) /\ HadRow(u)' = HadRow(u)
      /\ Wins(u)' = Wins(u) /\ Losses(u)' = Losses(u)
      /\ users' = users /\ columns' = columns /\ cut' = cut + lost
  BY DEF Crash, WinsDue, LossesDue, HadRow, Wins, Losses
<1>3. WinsComing(u)' = {} /\ LossesComing(u)' = {}
  BY DEF Crash, WinsComing, LossesComing, Crediting, Idle
<1>4. Cardinality(WinsComing(u)') = 0 /\ Cardinality(LossesComing(u)') = 0
  BY <1>3, FS_EmptySet
<1>5. wc <= lost /\ lc <= lost
  <2>1. WinsComing(u) \subseteq Crediting /\ LossesComing(u) \subseteq Crediting
    BY DEF WinsComing, LossesComing, Crediting
  <2> QED BY <2>1, FiniteCounts, FS_Subset
<1>6. /\ Wins(u) + wc <= wd /\ Losses(u) + lc <= ld
      /\ columns => Wins(u) + wc + cut >= wk /\ Losses(u) + lc + cut >= lk
      /\ u \notin DOMAIN users => HadRow(u) = {}
  BY DEF Counted, CountedFor
<1> HIDE DEF wc, lc, wd, ld, wk, lk, lost
<1>7. /\ Wins(u) + 0 <= wd /\ Losses(u) + 0 <= ld
      /\ columns => /\ Wins(u) + 0 + (cut + lost) >= wk
                    /\ Losses(u) + 0 + (cut + lost) >= lk
  BY <1>1, <1>5, <1>6
<1> QED BY <1>2, <1>4, <1>6, <1>7 DEF CountedFor, wd, ld, wk, lk

(* Nothing is due before the first game.                                   *)
LEMMA InitCounted == Init => Counted
<1> SUFFICES ASSUME Init, NEW u \in Users
             PROVE  CountedFor(u)
  BY DEF Counted
<1>1. /\ WinsDue(u) = {} /\ LossesDue(u) = {} /\ HadRow(u) = {}
      /\ WinsComing(u) = {} /\ LossesComing(u) = {}
  BY DEF Init, WinsDue, LossesDue, HadRow, WinsComing, LossesComing, Crediting, Idle
<1>2. Wins(u) = 0 /\ Losses(u) = 0 /\ cut = 0
  BY DEF Init, Wins, Losses
<1>3. Cardinality({}) = 0 /\ WinsDue(u) \cap HadRow(u) = {} /\ LossesDue(u) \cap HadRow(u) = {}
  BY <1>1, FS_EmptySet
<1> QED BY <1>1, <1>2, <1>3 DEF CountedFor

LEMMA CountedNext == TypeOK /\ Counted /\ [Next]_vars => Counted'
<1> SUFFICES ASSUME TypeOK, Counted, [Next]_vars
             PROVE  Counted'
  OBVIOUS
<1> QED BY QuietActions, CreateCounted, DecideCounted, WinCounted, LossCounted, CrashCounted
        DEF Next

(* Every decided game reaches the rows of its two players once, unless a   *)
(* crash, a missing row or missing columns come in between.                *)
THEOREM Credits == Spec => []CreditsMatch
<1>1. TypeOK /\ Counted => CreditsMatch
  <2> SUFFICES ASSUME TypeOK, Counted, NEW u \in DOMAIN users
               PROVE  /\ users[u].wins <= Cardinality(WinsDue(u))
                      /\ users[u].losses <= Cardinality(LossesDue(u))
                      /\ columns =>
                            /\ users[u].wins + Cardinality(WinsComing(u)) + cut
                                  >= Cardinality(WinsDue(u) \cap HadRow(u))
                            /\ users[u].losses + Cardinality(LossesComing(u)) + cut
                                  >= Cardinality(LossesDue(u) \cap HadRow(u))
    BY DEF CreditsMatch
  <2>1. CountedFor(u) /\ Wins(u) = users[u].wins /\ Losses(u) = users[u].losses
    BY DEF Counted, TypeOK, Wins, Losses
  <2>2. /\ Cardinality(WinsComing(u)) \in Nat /\ Cardinality(LossesComing(u)) \in Nat
        /\ Cardinality(WinsDue(u)) \in Nat /\ Cardinality(LossesDue(u)) \in Nat
        /\ Wins(u) \in Nat /\ Losses(u) \in Nat
    BY FiniteCounts, FS_CardinalityType
  <2> QED BY <2>1, <2>2 DEF CountedFor
<1> QED BY <1>1, InitCounted, CountedNext, TypeCorrect, PTL DEF Spec

=============================================================================
