----------------------------- MODULE AdminProofs -----------------------------
(***************************************************************************)
(* The panel, the start and the tables of the configuration, for every     *)
(* number of requests, accounts, rows and kills.                           *)
(*                                                                         *)
(* The three parts share no variable, so each has its own inductive        *)
(* invariant and a step of the whole is a step or a stutter of each. That  *)
(* of the panel adds to the types that names are unique, that a founder is *)
(* counted only while there is an account, and that a session which was    *)
(* ended is not in the store; that of the start ties each place of the     *)
(* process to what the file must hold there; that of the tables adds the   *)
(* channel of every key and of every row of the pool, without which the    *)
(* import could not be shown to find them empty.                           *)
(***************************************************************************)
EXTENDS MCAdmin, FiniteSetTheorems, NaturalsInduction, TLAPS

(* The sessions and the accounts *)

Table(t, K, V) == DOMAIN t \subseteq K /\ t \in [DOMAIN t -> V]

\* Names of accounts are unique, and a first account is counted only while there is one.
AccountsInv ==
    /\ Table(users, Users, Account)
    /\ writes \in 0..MaxWrites /\ founders \in Nat
    /\ founders <= 1
    /\ DOMAIN users = {} => founders = 0
    /\ \A i, j \in DOMAIN users : users[i].name = users[j].name => i = j

\* Sessions were given out by a login, and what was ended is not in the store.
SessionsInv ==
    /\ Table(sessions, 1..logins, [user : Users, at : 0..now])
    /\ now \in 0..MaxNow /\ logins \in 0..MaxLogins
    /\ ended \subseteq 1..logins
    /\ ended \cap DOMAIN sessions = {}

\* A request that was found to have a session works with one that was given out, and
\* with an account's id.
RequestsInv ==
    /\ pc \in [Handlers -> Steps]
    /\ cookie \in [Handlers -> 0..logins]
    /\ uid \in [Handlers -> Users \cup {0}]
    /\ caller \in [Handlers -> Caller]
    /\ \A h \in Handlers :
          /\ pc[h] \in {"found", "load", "authed"} => cookie[h] \in 1..logins
          /\ pc[h] \in {"verified", "found", "load", "authed"} => uid[h] \in Users

\* A row put in place keeps a table a table.
LEMMA WithTyped ==
    ASSUME NEW K, NEW V, NEW t, Table(t, K, V), NEW id \in K, NEW row \in V
    PROVE  /\ Table(With(t, id, row), K, V) /\ DOMAIN With(t, id, row) = DOMAIN t \cup {id}
           /\ With(t, id, row)[id] = row
           /\ \A i \in DOMAIN t \ {id} : With(t, id, row)[i] = t[i]
  BY DEF Table, With

\* Without accounts the next id is 1.
LEMMA FirstId == DOMAIN users = {} => NextId = 1 /\ 1 \in Users
  <1> SUFFICES ASSUME DOMAIN users = {} PROVE NextId = 1 /\ 1 \in Users
    OBVIOUS
  <1>1. 1 \in 1..(MaxUsers + 1) /\ 1 \in Users
    BY SessionsAssumption DEF Users
  <1> QED
    BY <1>1 DEF NextId

\* A set of numbers that is not empty has a least one.
LEMMA Least ==
    ASSUME NEW T \in SUBSET Nat, T # {}
    PROVE  \E n \in T : \A k \in T : n <= k
  <1>1. IsWellFoundedOn(OpToRel(<, Nat), Nat)
    BY NatLessThanWellFounded, Zenon
  <1>2. PICK n \in T : \A k \in T : <<k, n>> \notin OpToRel(<, Nat)
    BY <1>1, WFMin, Zenon
  <1>3. \A k \in T : ~(k < n)
    BY <1>2, Zenon DEF OpToRel
  <1>4. \A k \in T : k \in Nat /\ n \in Nat
    OBVIOUS
  <1> QED
    BY <1>3, <1>4

\* A row of an account that is put in place under a name no other account has.
LEMMA RowPlaced ==
    ASSUME AccountsInv, NEW id \in Users, NEW row \in Account,
           \A i \in DOMAIN users \ {id} : users[i].name # row.name,
           users' = With(users, id, row), founders' \in Nat, founders' <= 1,
           writes' \in 0..MaxWrites
    PROVE  AccountsInv'
  <1>1. /\ Table(users', Users, Account) /\ DOMAIN users' = DOMAIN users \cup {id}
        /\ users'[id] = row
        /\ \A i \in DOMAIN users \ {id} : users'[i] = users[i]
    <2>1. Table(users, Users, Account)
      BY DEF AccountsInv
    <2> HIDE DEF Table, With
    <2>2. /\ Table(With(users, id, row), Users, Account)
          /\ DOMAIN With(users, id, row) = DOMAIN users \cup {id}
          /\ With(users, id, row)[id] = row
          /\ \A i \in DOMAIN users \ {id} : With(users, id, row)[i] = users[i]
      BY <2>1, WithTyped
    <2> QED
      BY <2>2, Zenon
  <1>2. \A i, j \in DOMAIN users' : users'[i].name = users'[j].name => i = j
    BY <1>1 DEF AccountsInv
  <1>3. DOMAIN users' # {}
    BY <1>1
  <1> QED
    BY <1>1, <1>2, <1>3, Zenon DEF AccountsInv

\* Rows that change, but none of which takes the name of another.
LEMMA RowsChanged ==
    ASSUME AccountsInv, DOMAIN users' = DOMAIN users, users' \in [DOMAIN users -> Account],
           \A i, j \in DOMAIN users : users'[i].name = users'[j].name => i = j,
           UNCHANGED founders, writes' \in 0..MaxWrites
    PROVE  AccountsInv'
  BY DEF AccountsInv, Table

\* What the accounts keep, handler by handler.
LEMMA NextAccounts == AccountsInv /\ [Next]_vars => AccountsInv'
  <1> SUFFICES ASSUME AccountsInv, [Next]_vars PROVE AccountsInv'
    OBVIOUS
  <1>t. DOMAIN users \subseteq Users /\ users \in [DOMAIN users -> Account]
    BY DEF AccountsInv, Table
  <1>w. Write => writes' \in 0..MaxWrites
    BY SessionsAssumption DEF AccountsInv, Write
  <1>0. CASE UNCHANGED accounts
    BY <1>0 DEF AccountsInv, accounts, Table
  <1>1. ASSUME NEW h \in Handlers, NEW old \in Passwords, NEW new \in Passwords,
               ChangeMyPassword(h, old, new)
        PROVE  AccountsInv'
    <2>1. /\ users' = [i \in DOMAIN users |->
                    IF i = caller[h].id THEN [users[i] EXCEPT !.password = new] ELSE users[i]]
          /\ UNCHANGED founders /\ writes' \in 0..MaxWrites
      BY <1>1, <1>w DEF ChangeMyPassword
    <2>2. DOMAIN users' = DOMAIN users /\ users' \in [DOMAIN users -> Account]
      BY <2>1, <1>t DEF Account
    <2>3. \A i \in DOMAIN users : users'[i].name = users[i].name
      BY <2>1, <1>t DEF Account
    <2> QED
      BY <2>1, <2>2, <2>3, RowsChanged DEF AccountsInv
  <1>2. ASSUME NEW h \in Handlers, NEW n \in UserNames, NEW p \in Passwords, NEW r \in Roles,
               CreateUser(h, n, p, r)
        PROVE  AccountsInv'
    <2> DEFINE row == [name |-> n, password |-> p, role |-> r, status |-> "enabled"]
    <2>1. /\ users' = With(users, NextId, row) /\ NextId \in Users
          /\ Named(n) = {}
          /\ UNCHANGED founders /\ writes' \in 0..MaxWrites
      BY <1>2, <1>w DEF CreateUser, Administers
    <2>2. row \in Account /\ row.name = n
      BY DEF Account, Statuses
    <2>3. \A i \in DOMAIN users \ {NextId} : users[i].name # row.name
      BY <2>1, <2>2 DEF Named
    <2>4. founders' \in Nat /\ founders' <= 1
      BY <2>1 DEF AccountsInv
    <2> HIDE DEF row
    <2> QED
      BY <2>1, <2>2, <2>3, <2>4, RowPlaced
  <1>3. ASSUME NEW h \in Handlers, NEW i \in Users, NEW n \in UserNames, NEW r \in Roles,
               NEW s \in Statuses, UpdateUser(h, i, n, r, s)
        PROVE  AccountsInv'
    <2>1. /\ users' = [users EXCEPT ![i].name = n, ![i].role = r, ![i].status = s]
          /\ i \in DOMAIN users /\ Named(n) \subseteq {i}
          /\ UNCHANGED founders /\ writes' \in 0..MaxWrites
      BY <1>3, <1>w DEF UpdateUser, Administers
    <2>2. DOMAIN users' = DOMAIN users /\ users' \in [DOMAIN users -> Account]
      BY <2>1, <1>t DEF Account
    <2>3. /\ users'[i].name = n
          /\ \A j \in DOMAIN users \ {i} : users'[j] = users[j] /\ users[j].name # n
      BY <2>1, <1>t DEF Account, Named
    <2> QED
      BY <2>1, <2>2, <2>3, RowsChanged DEF AccountsInv
  <1>4. ASSUME NEW h \in Handlers, NEW i \in Users, NEW p \in Passwords, UpdatePassword(h, i, p)
        PROVE  AccountsInv'
    <2>1. /\ users' = [users EXCEPT ![i].password = p]
          /\ i \in DOMAIN users
          /\ UNCHANGED founders /\ writes' \in 0..MaxWrites
      BY <1>4, <1>w DEF UpdatePassword, Administers
    <2>2. DOMAIN users' = DOMAIN users /\ users' \in [DOMAIN users -> Account]
      BY <2>1, <1>t DEF Account
    <2>3. \A j \in DOMAIN users : users'[j].name = users[j].name
      BY <2>1, <1>t DEF Account
    <2> QED
      BY <2>1, <2>2, <2>3, RowsChanged DEF AccountsInv
  <1>5. ASSUME NEW h \in Handlers, NEW i \in Users, DeleteUser(h, i)
        PROVE  AccountsInv'
    <2>1. /\ users' = Without(users, {i})
          /\ founders' = IF users' = <<>> THEN 0 ELSE founders
          /\ writes' \in 0..MaxWrites
      BY <1>5, <1>w DEF DeleteUser, Administers
    <2>2. /\ Table(users', Users, Account) /\ DOMAIN users' = DOMAIN users \ {i}
          /\ \A j \in DOMAIN users \ {i} : users'[j] = users[j]
      <3>1. Table(users, Users, Account)
        BY DEF AccountsInv
      <3>2. /\ Table(Without(users, {i}), Users, Account)
            /\ DOMAIN Without(users, {i}) = DOMAIN users \ {i}
            /\ \A j \in DOMAIN users \ {i} : Without(users, {i})[j] = users[j]
        BY <3>1 DEF Table, Without
      <3> QED
        BY <2>1, <3>2, Zenon
    <2>3. \A j, k \in DOMAIN users' : users'[j].name = users'[k].name => j = k
      BY <2>2 DEF AccountsInv
    <2>4. DOMAIN users' = {} => founders' = 0
      <3> SUFFICES ASSUME DOMAIN users' = {} PROVE users' = <<>>
        BY <2>1
      <3>1. users' = [j \in {} |-> users[j]]
        BY <2>1, <2>2 DEF Without
      <3>2. <<>> = [j \in {} |-> users[j]]
        OBVIOUS
      <3> QED BY <3>1, <3>2
    <2>5. founders' \in Nat /\ founders' <= 1
      BY <2>1 DEF AccountsInv
    <2> QED
      BY <2>1, <2>2, <2>3, <2>4, <2>5 DEF AccountsInv
  <1>6. ASSUME NEW n \in UserNames, NEW p \in Passwords, DOMAIN users = {}, Found(n, p), Write
        PROVE  AccountsInv'
    <2> DEFINE row == [name |-> n, password |-> p, role |-> "admin", status |-> "enabled"]
    <2>1. /\ users' = With(users, 1, row) /\ 1 \in Users
          /\ writes' \in 0..MaxWrites
      BY <1>6, <1>w, FirstId DEF Found
    <2>2. row \in Account
      BY DEF Account, Statuses, Roles
    <2>3. \A i \in DOMAIN users \ {1} : users[i].name # row.name
      BY <1>6
    <2>4. founders' \in Nat /\ founders' <= 1
      BY <1>6 DEF AccountsInv, Found
    <2> HIDE DEF row
    <2> QED
      BY <2>1, <2>2, <2>3, <2>4, RowPlaced
  <1>7. ASSUME NEW n \in UserNames, NEW p \in Passwords, SetupInitialize(n, p)
        PROVE  AccountsInv'
    BY <1>6, <1>7 DEF SetupInitialize
  <1>8. CASE Restart
    <2>1. CASE DOMAIN users = {} /\ AdminPassword # NoPassword
      BY <2>1, <1>6, <1>8, SessionsAssumption DEF Restart, EnsureDefaultAdmin
    <2>2. CASE ~(DOMAIN users = {} /\ AdminPassword # NoPassword)
      BY <2>2, <1>8, <1>w DEF Restart, EnsureDefaultAdmin, AccountsInv, Table
    <2> QED
      BY <2>1, <2>2
  <1>9. ASSUME NEW h \in Handlers, Middleware(h) PROVE AccountsInv'
    BY <1>0, <1>9 DEF Middleware, Sweep, Reject, LoadUser, RefuseUser
  <1>10. ASSUME NEW h \in Handlers, Handler(h) PROVE AccountsInv'
    BY <1>0, <1>1, <1>2, <1>3, <1>4, <1>5, <1>10 DEF Handler, Logout, Read
  <1>11. CASE UNCHANGED vars
    BY <1>0, <1>11 DEF vars
  <1>12. ASSUME NEW h \in Handlers, NEW n \in UserNames, NEW p \in Passwords, Login(h, n, p)
        PROVE AccountsInv'
    BY <1>0, <1>12 DEF Login
  <1>13. ASSUME NEW h \in Handlers, StoreSession(h) PROVE AccountsInv'
    BY <1>0, <1>13 DEF StoreSession
  <1>14. ASSUME NEW h \in Handlers, NEW s \in 0..logins, LookUp(h, s) PROVE AccountsInv'
    BY <1>0, <1>14 DEF LookUp
  <1>15. CASE Tick
    BY <1>0, <1>15 DEF Tick
  <1> QED
    BY <1>7, <1>8, <1>9, <1>10, <1>11, <1>12, <1>13, <1>14, <1>15 DEF Next

\* Sweeping only takes sessions away.
LEMMA SweptTyped ==
    ASSUME NEW K, NEW V, NEW t, Table(t, K, V)
    PROVE  \A s \in Swept(t) : Table(s, K, V) /\ DOMAIN s \subseteq DOMAIN t
  BY DEF Swept, Table, Without

\* What a request leaves behind when it has its answer.
LEMMA Answered ==
    ASSUME RequestsInv, logins \in Nat, logins' \in Nat, logins <= logins',
           NEW h \in Handlers, Answers(h)
    PROVE  RequestsInv'
  <1>1. Nobody \in Caller /\ "idle" \in Steps
    BY SessionsAssumption DEF Nobody, Caller, Roles, Steps
  <1>2. /\ pc' = [pc EXCEPT ![h] = "idle"] /\ cookie' = [cookie EXCEPT ![h] = 0]
        /\ uid' = [uid EXCEPT ![h] = 0] /\ caller' = [caller EXCEPT ![h] = Nobody]
    BY DEF Answers, Goes
  <1>3. /\ pc' \in [Handlers -> Steps]
        /\ uid' \in [Handlers -> Users \cup {0}]
        /\ caller' \in [Handlers -> Caller]
    BY <1>1, <1>2 DEF RequestsInv
  <1>4. cookie' \in [Handlers -> 0..logins']
    BY <1>2 DEF RequestsInv
  <1>5. \A q \in Handlers :
          /\ pc'[q] \in {"found", "load", "authed"} => cookie'[q] \in 1..logins'
          /\ pc'[q] \in {"verified", "found", "load", "authed"} => uid'[q] \in Users
    BY <1>2 DEF RequestsInv
  <1> QED
    BY <1>3, <1>4, <1>5 DEF RequestsInv

\* What the sessions and the requests keep, step by step.
LEMMA NextSessions ==
    AccountsInv /\ SessionsInv /\ RequestsInv /\ [Next]_vars => SessionsInv' /\ RequestsInv'
  <1> SUFFICES ASSUME AccountsInv, SessionsInv, RequestsInv, [Next]_vars
               PROVE  SessionsInv' /\ RequestsInv'
    OBVIOUS
  <1>t. logins \in Nat /\ now \in Nat /\ Table(sessions, 1..logins, [user : Users, at : 0..now])
    BY DEF SessionsInv
  <1>s. UNCHANGED store /\ UNCHANGED now => SessionsInv'
    BY DEF SessionsInv, store, Table
  <1>r. UNCHANGED requests /\ UNCHANGED logins => RequestsInv'
    BY DEF RequestsInv, requests
  <1>a. \A h \in Handlers : Answers(h) /\ UNCHANGED logins => RequestsInv'
    BY <1>t, Answered
  <1>w. ASSUME NEW s, Table(s, 1..logins, [user : Users, at : 0..now]),
               DOMAIN s \subseteq DOMAIN sessions, sessions' = s,
               UNCHANGED <<logins, now, ended>>
        PROVE  SessionsInv'
    BY <1>w DEF SessionsInv, Table
  <1>1. ASSUME NEW h \in Handlers, NEW n \in UserNames, NEW p \in Passwords, Login(h, n, p)
        PROVE  SessionsInv' /\ RequestsInv'
    <2>1. PICK i \in Named(n) : uid' = [uid EXCEPT ![h] = i]
      BY <1>1 DEF Login
    <2>2. i \in Users
      BY DEF Named, AccountsInv, Table
    <2>3. pc' = [pc EXCEPT ![h] = "verified"] /\ UNCHANGED <<store, now, cookie, caller>>
      BY <1>1 DEF Login, Goes
    <2>4. RequestsInv'
      BY <2>1, <2>2, <2>3 DEF RequestsInv, store, Steps
    <2> QED
      BY <2>3, <2>4, <1>s
  <1>2. ASSUME NEW h \in Handlers, StoreSession(h)
        PROVE  SessionsInv' /\ RequestsInv'
    <2> DEFINE row == [user |-> uid[h], at |-> now]
    <2>1. /\ logins' = logins + 1 /\ logins' \in 1..MaxLogins
          /\ sessions' = With(sessions, logins', row)
          /\ Answers(h) /\ UNCHANGED <<now, ended>>
          /\ pc[h] = "verified"
      BY <1>2, SessionsAssumption DEF StoreSession, SessionsInv, At
    <2>2. row \in [user : Users, at : 0..now]
      BY <2>1, <1>t DEF RequestsInv
    <2>3. Table(sessions, 1..logins', [user : Users, at : 0..now])
      BY <2>1, <1>t DEF Table
    <2>4. logins' \in 1..logins' /\ logins' \notin ended /\ logins \in 0..MaxLogins
      BY <2>1 DEF SessionsInv
    <2> HIDE DEF row
    <2>5. /\ Table(sessions', 1..logins', [user : Users, at : 0..now])
          /\ DOMAIN sessions' = DOMAIN sessions \cup {logins'}
      <3> DEFINE K == 1..logins'
                 V == [user : Users, at : 0..now]
                 l == logins'
      <3>1. Table(sessions, K, V) /\ l \in K /\ row \in V
        BY <2>2, <2>3, <2>4, Zenon
      <3> HIDE DEF K, V, l
      <3>2. /\ Table(With(sessions, l, row), K, V)
            /\ DOMAIN With(sessions, l, row) = DOMAIN sessions \cup {l}
        BY <3>1 DEF Table, With
      <3> QED
        BY <2>1, <3>2, Zenon DEF K, V, l
    <2>6. SessionsInv'
      BY <2>1, <2>4, <2>5 DEF SessionsInv
    <2>7. RequestsInv'
      BY <2>1, <1>t, Answered
    <2> QED
      BY <2>6, <2>7
  <1>3. ASSUME NEW h \in Handlers, NEW s \in 0..logins, LookUp(h, s)
        PROVE  SessionsInv' /\ RequestsInv'
    <2>1. cookie' = [cookie EXCEPT ![h] = s] /\ UNCHANGED <<store, now, caller>>
      BY <1>3 DEF LookUp
    <2>2. CASE Alive(s)
      <3>1. uid' = [uid EXCEPT ![h] = sessions[s].user] /\ pc' = [pc EXCEPT ![h] = "found"]
        BY <1>3, <2>2 DEF LookUp, Goes
      <3>2. s \in 1..logins /\ sessions[s].user \in Users
        BY <2>2, <1>t DEF Alive, Table
      <3>3. RequestsInv'
        BY <2>1, <3>1, <3>2 DEF RequestsInv, store, Steps
      <3> QED
        BY <2>1, <3>3, <1>s
    <2>3. CASE ~Alive(s)
      <3>1. UNCHANGED uid /\ pc' = [pc EXCEPT ![h] = "missed"]
        BY <1>3, <2>3 DEF LookUp, Goes
      <3>3. RequestsInv'
        BY <2>1, <3>1 DEF RequestsInv, store, Steps
      <3> QED
        BY <2>1, <3>3, <1>s
    <2> QED
      BY <2>2, <2>3
  <1>4. ASSUME NEW h \in Handlers, Sweep(h)
        PROVE  SessionsInv' /\ RequestsInv'
    <2>1. /\ pc[h] = "found" /\ sessions' \in Swept(sessions) /\ pc' = [pc EXCEPT ![h] = "load"]
          /\ UNCHANGED <<logins, ended, now, cookie, uid, caller>>
      BY <1>4 DEF Sweep, Goes, At
    <2>2. SessionsInv'
      <3>1. Table(sessions', 1..logins, [user : Users, at : 0..now])
            /\ DOMAIN sessions' \subseteq DOMAIN sessions
        BY <2>1, <1>t, SweptTyped, Zenon
      <3> QED
        BY <2>1, <3>1, <1>w, Zenon
    <2>3. RequestsInv'
      BY <2>1 DEF RequestsInv, Steps
    <2> QED
      BY <2>2, <2>3
  <1>5. ASSUME NEW h \in Handlers, Reject(h)
        PROVE  SessionsInv' /\ RequestsInv'
    <2> DEFINE t == Without(sessions, {cookie[h]})
    <2>1. sessions' \in Swept(t) /\ Answers(h) /\ UNCHANGED <<logins, ended, now>>
      BY <1>5 DEF Reject
    <2>2. Table(t, 1..logins, [user : Users, at : 0..now]) /\ DOMAIN t \subseteq DOMAIN sessions
      BY <1>t DEF Table, Without
    <2> HIDE DEF t
    <2>3. SessionsInv'
      <3>1. Table(sessions', 1..logins, [user : Users, at : 0..now])
            /\ DOMAIN sessions' \subseteq DOMAIN t
        BY <2>1, <2>2, SweptTyped, Zenon
      <3>2. DOMAIN sessions' \subseteq DOMAIN sessions
        BY <2>2, <3>1, Zenon
      <3> QED
        BY <2>1, <3>1, <3>2, <1>w, Zenon
    <2> QED
      BY <2>1, <2>3, <1>a
  <1>6. ASSUME NEW h \in Handlers, LoadUser(h)
        PROVE  SessionsInv' /\ RequestsInv'
    <2>1. /\ pc[h] = "load" /\ pc' = [pc EXCEPT ![h] = "authed"]
          /\ caller' = [caller EXCEPT ![h] = [id |-> uid[h], name |-> users[uid[h]].name,
                                             role |-> users[uid[h]].role]]
          /\ uid[h] \in DOMAIN users /\ UNCHANGED <<store, now, cookie, uid>>
      BY <1>6 DEF LoadUser, Goes, At
    <2>2. [id |-> uid[h], name |-> users[uid[h]].name, role |-> users[uid[h]].role] \in Caller
      BY <2>1 DEF AccountsInv, Table, Account, Caller
    <2>3. RequestsInv'
      BY <2>1, <2>2 DEF RequestsInv, Steps, store
    <2> QED
      BY <2>1, <2>3, <1>s
  <1>7. ASSUME NEW h \in Handlers, RefuseUser(h) PROVE SessionsInv' /\ RequestsInv'
    BY <1>7, <1>s, <1>a DEF RefuseUser, store
  <1>8. ASSUME NEW h \in Handlers, Logout(h)
        PROVE  SessionsInv' /\ RequestsInv'
    <2>1. /\ pc[h] = "authed" /\ sessions' = Without(sessions, {cookie[h]})
          /\ ended' = ended \cup {cookie[h]} /\ Answers(h) /\ UNCHANGED <<logins, now>>
      BY <1>8 DEF Logout, At
    <2>2. cookie[h] \in 1..logins
      BY <2>1 DEF RequestsInv
    <2>3. /\ Table(sessions', 1..logins, [user : Users, at : 0..now])
          /\ DOMAIN sessions' = DOMAIN sessions \ {cookie[h]}
      BY <1>t, <2>1 DEF Table, Without
    <2>4. SessionsInv'
      BY <2>1, <2>2, <2>3 DEF SessionsInv
    <2> QED
      BY <2>1, <2>4, <1>a
  <1>9. ASSUME NEW h \in Handlers, Answers(h), UNCHANGED <<store, now>>
        PROVE  SessionsInv' /\ RequestsInv'
    BY <1>9, <1>s, <1>a DEF store
  <1>10. ASSUME NEW h \in Handlers, Handler(h) PROVE SessionsInv' /\ RequestsInv'
    BY <1>8, <1>9, <1>10
       DEF Handler, Read, ChangeMyPassword, CreateUser, UpdateUser, UpdatePassword, DeleteUser
  <1>11. CASE Restart
    <2>1. /\ sessions' = <<>> /\ UNCHANGED <<logins, ended, now>>
          /\ pc' = [h \in Handlers |-> "idle"] /\ cookie' = [h \in Handlers |-> 0]
          /\ uid' = [h \in Handlers |-> 0] /\ caller' = [h \in Handlers |-> Nobody]
      BY <1>11 DEF Restart
    <2>2. DOMAIN sessions' = {} /\ Table(sessions', 1..logins, [user : Users, at : 0..now])
      BY <2>1 DEF Table
    <2>3. SessionsInv'
      BY <2>1, <2>2 DEF SessionsInv
    <2>4. Nobody \in Caller /\ "idle" \in Steps
      BY SessionsAssumption DEF Nobody, Caller, Roles, Steps
    <2>5. RequestsInv'
      BY <2>1, <2>4, <1>t DEF RequestsInv
    <2> QED
      BY <2>3, <2>5
  <1>12. CASE Tick
    <2>1. now' = now + 1 /\ now' \in 0..MaxNow /\ UNCHANGED <<store, requests>>
      BY <1>12, <1>t, SessionsAssumption DEF Tick
    <2>2. Table(sessions', 1..logins', [user : Users, at : 0..now'])
      BY <2>1, <1>t DEF Table, store
    <2>3. SessionsInv'
      BY <2>1, <2>2 DEF SessionsInv, store
    <2> QED
      BY <2>1, <2>3, <1>r DEF store
  <1>13. ASSUME NEW n \in UserNames, NEW p \in Passwords, SetupInitialize(n, p)
         PROVE  SessionsInv' /\ RequestsInv'
    BY <1>13, <1>s, <1>r DEF SetupInitialize, store
  <1>14. CASE UNCHANGED vars
    BY <1>14, <1>s, <1>r DEF vars, store
  <1>15. ASSUME NEW h \in Handlers, Middleware(h) PROVE SessionsInv' /\ RequestsInv'
    BY <1>15, <1>4, <1>5, <1>6, <1>7 DEF Middleware
  <1> QED
    BY <1>1, <1>2, <1>3, <1>15, <1>10, <1>11, <1>12, <1>13, <1>14 DEF Next

\* The inductive invariant of the panel.
PanelInv == AccountsInv /\ SessionsInv /\ RequestsInv

\* It holds when nobody has logged in.
LEMMA InitPanel == Init => PanelInv
  <1> SUFFICES ASSUME Init PROVE PanelInv
    OBVIOUS
  <1>1. DOMAIN users = {} /\ DOMAIN sessions = {} /\ writes = 0 /\ founders = 0 /\ now = 0
        /\ logins = 0 /\ ended = {}
    BY DEF Init
  <1>2. AccountsInv
    BY <1>1, SessionsAssumption DEF AccountsInv, Table
  <1>3. SessionsInv
    BY <1>1, SessionsAssumption DEF SessionsInv, Table
  <1>4. Nobody \in Caller /\ "idle" \in Steps
    BY SessionsAssumption DEF Nobody, Caller, Roles, Steps
  <1>5. RequestsInv
    BY <1>4, SessionsAssumption DEF RequestsInv, Init
  <1> QED
    BY <1>2, <1>3, <1>5 DEF PanelInv

\* It says what TypeOK says.
LEMMA PanelTypes == PanelInv => TypeOK
  BY DEF PanelInv, AccountsInv, SessionsInv, RequestsInv, Table, TypeOK

\* Only a request that looks its session up is found to have one.
LEMMA OnlyLiveSessionsAdmit ==
    ASSUME PanelInv, [Next]_vars, NEW h \in Handlers, pc[h] = "idle", pc'[h] = "found"
    PROVE  cookie'[h] \notin ended
  <1>t. pc \in [Handlers -> Steps] /\ cookie \in [Handlers -> 0..logins]
    BY DEF PanelInv, RequestsInv
  <1>1. \A g \in Handlers : Answers(g) => FALSE
    BY <1>t DEF Answers, Goes
  <1>2. \A g \in Handlers : ~Goes(g, "verified") /\ ~Goes(g, "load") /\ ~Goes(g, "authed")
    BY <1>t DEF Goes
  <1>3. pc' # pc /\ ~Restart
    BY <1>t DEF Restart
  <1>4. \A g \in Handlers : ~Middleware(g) /\ ~StoreSession(g)
    BY <1>1, <1>2 DEF Middleware, Sweep, Reject, LoadUser, RefuseUser, StoreSession
  <1>5. \A g \in Handlers : ~Handler(g)
    BY <1>1 DEF Handler, Logout, Read, ChangeMyPassword, CreateUser, UpdateUser,
                UpdatePassword, DeleteUser
  <1>6. \A g \in Handlers, n \in UserNames, p \in Passwords : ~Login(g, n, p)
    BY <1>2 DEF Login
  <1>7. ~Tick /\ \A n \in UserNames, p \in Passwords : ~SetupInitialize(n, p)
    BY <1>3 DEF Tick, SetupInitialize, requests
  <1>8. PICK g \in Handlers, s \in 0..logins : LookUp(g, s)
    BY <1>3, <1>4, <1>5, <1>6, <1>7 DEF Next, vars, requests
  <1>9. g = h /\ Alive(s) /\ cookie'[h] = s
    <2>1. CASE Alive(s)
      BY <1>8, <2>1, <1>t DEF LookUp, Goes
    <2>2. CASE ~Alive(s)
      BY <1>8, <2>2, <1>t DEF LookUp, Goes
    <2> QED BY <2>1, <2>2
  <1> QED
    BY <1>9 DEF Alive, PanelInv, SessionsInv

\* The password that was given is that of the account the caller's name still names.
LEMMA OldPasswordIsOfTheName ==
    ASSUME PanelInv, NEW h \in Handlers, NEW old \in Passwords, NEW new \in Passwords,
           ChangeMyPassword(h, old, new), caller[h].id \in DOMAIN users
    PROVE  \/ users[caller[h].id].password = old
           \/ users[caller[h].id].name # caller[h].name
  <1>1. PICK i \in DOMAIN users : users[i].name = caller[h].name /\ users[i].password = old
    BY DEF ChangeMyPassword, Named
  <1> QED
    BY <1>1 DEF PanelInv, AccountsInv

\* An account that changes was changed by an administrator's request or by its own.
LEMMA ChangedByWhom ==
    ASSUME PanelInv, [Next]_vars, NEW i \in Users,
           i \in DOMAIN users \cap DOMAIN users', users'[i] # users[i]
    PROVE  \E h \in Handlers : /\ At(h, "authed") /\ pc'[h] = "idle"
                               /\ caller[h].role = "admin" \/ caller[h].id = i
  <1>t. pc \in [Handlers -> Steps] /\ users \in [DOMAIN users -> Account]
    BY DEF PanelInv, RequestsInv, AccountsInv, Table
  <1>a. \A h \in Handlers : Answers(h) => pc'[h] = "idle"
    BY <1>t DEF Answers, Goes
  <1>1. users' # users
    OBVIOUS
  <1>2. \A h \in Handlers : ~Middleware(h) /\ ~StoreSession(h) /\ ~Logout(h) /\ ~Read(h)
    BY <1>1 DEF Middleware, Sweep, Reject, LoadUser, RefuseUser, StoreSession, Logout, Read,
                accounts
  <1>3. \A h \in Handlers, n \in UserNames, p \in Passwords : ~Login(h, n, p)
    BY <1>1 DEF Login, accounts
  <1>4. \A h \in Handlers, s \in 0..logins : ~LookUp(h, s)
    BY <1>1 DEF LookUp, accounts
  <1>5. ~Tick /\ ~Restart /\ \A n \in UserNames, p \in Passwords : ~SetupInitialize(n, p)
    BY <1>1 DEF Tick, Restart, EnsureDefaultAdmin, SetupInitialize, accounts
  <1>6. PICK h \in Handlers : Handler(h)
    BY <1>1, <1>2, <1>3, <1>4, <1>5 DEF Next, vars, accounts
  <1>7. ASSUME NEW old \in Passwords, NEW new \in Passwords, ChangeMyPassword(h, old, new)
        PROVE  At(h, "authed") /\ pc'[h] = "idle" /\ caller[h].id = i
    BY <1>7, <1>a DEF ChangeMyPassword
  <1>8. \/ Administers(h) /\ Answers(h)
        \/ \E old, new \in Passwords : ChangeMyPassword(h, old, new)
    BY <1>6, <1>2 DEF Handler, CreateUser, UpdateUser, UpdatePassword, DeleteUser
  <1> QED
    BY <1>7, <1>8, <1>a DEF Administers

-----------------------------------------------------------------------------
(* The start *)

\* What the file holds at each place of the process, and that a foreign file is never
\* passed on to the accounts or the import.
FileInv ==
    /\ Start!TypeOK
    /\ imported \in {0, Rows} /\ admins <= 1
    /\ at \in {"mark", "check", "admin", "empty", "import", "serve"} => tables = Tables
    /\ at \in {"admin", "empty", "import", "serve"} => marker = Version
    /\ at = "refused" => marker # Version
    /\ foreign => /\ tables = Tables /\ marker = Older /\ admins = 1 /\ imported = 0
                  /\ at \in {"off", "create", "check", "refused"}
                  /\ at = "create" => ~fresh

\* The constants of the start.
LEMMA StartAssumed ==
    /\ Tables \in Nat \ {0} /\ Version \in Nat \ {0} /\ Older \in Nat \ {Version}
    /\ Rows \in Nat \ {0} /\ MaxCrashes \in Nat
  BY AdminAssumption DEF Start!StartupAssumption

\* A new file, and one that another release left.
LEMMA InitFile == Start!Init => FileInv
  <1> SUFFICES ASSUME Start!Init PROVE FileInv
    OBVIOUS
  <1> USE StartAssumed DEF Start!Init
  <1>1. Start!TypeOK
    <2>1. foreign \in BOOLEAN /\ fresh \in BOOLEAN
      OBVIOUS
    <2>2. at \in Start!Places /\ imported \in 0..Rows /\ inserted \in 0..Rows
          /\ crashes \in 0..MaxCrashes
      BY DEF Start!Places
    <2>3. tables \in 0..Tables /\ marker \in {0, Version, Older} /\ admins \in Nat
      OBVIOUS
    <2> QED
      BY <2>1, <2>2, <2>3 DEF Start!TypeOK
  <1>2. CASE foreign = FALSE
    BY <1>1, <1>2 DEF FileInv
  <1>3. CASE foreign = TRUE
    BY <1>1, <1>3 DEF FileInv
  <1> QED
    BY <1>2, <1>3

\* What each statement of a start keeps, and a kill between any two.
LEMMA NextFile == FileInv /\ [Start!Next]_startVars => FileInv'
  <1> SUFFICES ASSUME FileInv, [Start!Next]_startVars PROVE FileInv'
    OBVIOUS
  <1> USE StartAssumed DEF FileInv, Start!TypeOK, Start!Places, Start!file
  <1>1. CASE Start!Start
    BY <1>1 DEF Start!Start
  <1>2. CASE Start!CreateTable
    BY <1>2 DEF Start!CreateTable
  <1>3. CASE Start!Created
    BY <1>3 DEF Start!Created
  <1>4. CASE Start!Mark
    BY <1>4 DEF Start!Mark
  <1>5. CASE Start!RunMigrations
    BY <1>5 DEF Start!RunMigrations
  <1>6. CASE Start!EnsureDefaultAdmin
    BY <1>6 DEF Start!EnsureDefaultAdmin
  <1>7. CASE Start!IsDbEmpty
    BY <1>7 DEF Start!IsDbEmpty
  <1>8. CASE Start!InsertRow
    BY <1>8 DEF Start!InsertRow
  <1>9. CASE Start!Commit
    BY <1>9 DEF Start!Commit
  <1>10. CASE Start!ImportFails
    BY <1>10 DEF Start!ImportFails
  <1>11. CASE Start!Crash
    BY <1>11 DEF Start!Crash
  <1>12. CASE UNCHANGED startVars
    BY <1>12 DEF startVars
  <1> QED
    BY <1>1, <1>2, <1>3, <1>4, <1>5, <1>6, <1>7, <1>8, <1>9, <1>10, <1>11, <1>12
       DEF Start!Next, Start!Run

\* From it the properties of the start.
LEMMA FileIsWhole ==
    FileInv => /\ Start!TypeOK /\ Start!ServesWholeFile /\ Start!ForeignIsUntouched
               /\ Start!MarkedIsAccepted /\ Start!OneAdmin
  BY DEF FileInv, Start!ServesWholeFile, Start!ForeignIsUntouched, Start!MarkedIsAccepted,
         Start!OneAdmin

-----------------------------------------------------------------------------
(* The tables *)

\* The constants of the tables.
LEMMA CatalogAssumed ==
    /\ MaxRows \in Nat \ {0} /\ MaxEdits \in Nat /\ MaxWeight \in Nat \ {0}
    /\ MaxInt32 \in Nat /\ MaxInt32 >= 100
    /\ Priorities \subseteq (-MaxInt32 - 1)..MaxInt32
    /\ Prices \cup Quotas \subseteq Nat \ {0}
  BY AdminAssumption DEF Tabled!CatalogAssumption

\* A set of numbers below a bound has a greatest one, finite or not.
LEMMA Greatest ==
    ASSUME NEW S \in SUBSET Int, S # {}, NEW b \in Int, \A x \in S : x <= b
    PROVE  Tabled!Max(S) \in S /\ \A x \in S : Tabled!Max(S) >= x
  <1> DEFINE T == {b - x : x \in S}
  <1>1. T \in SUBSET Nat /\ T # {}
    <2>1. \A x \in S : x \in Int /\ b - x \in Nat
      OBVIOUS
    <2>2. \E x \in S : b - x \in T
      OBVIOUS
    <2> QED BY <2>1, <2>2
  <1>2. PICK n \in T : \A k \in T : n <= k
    <2> HIDE DEF T
    <2> QED BY <1>1, Least
  <1>3. PICK x \in S : n = b - x
    BY <1>2
  <1>4. \A y \in S : b - y \in T
    OBVIOUS
  <1>5. \A y \in S : x >= y
    <2> HIDE DEF T
    <2> TAKE y \in S
    <2>1. n <= b - y
      BY <1>2, <1>4
    <2> QED
      BY <2>1, <1>3
  <1> QED
    BY <1>5 DEF Tabled!Max

\* Arithmetic of i32 stays in i32 ...
LEMMA WrappedInt32 == \A n \in Int : Tabled!Wrapped(n) \in Tabled!Int32
  <1> TAKE n \in Int
  <1>1. \A k \in Nat \ {0}, i \in Int : i % k \in 0..(k - 1)
    OBVIOUS
  <1>2. 2 * (MaxInt32 + 1) \in Nat \ {0} /\ n + MaxInt32 + 1 \in Int
    BY CatalogAssumed
  <1>3. (n + MaxInt32 + 1) % (2 * (MaxInt32 + 1)) \in 0..(2 * (MaxInt32 + 1) - 1)
    BY <1>1, <1>2
  <1> QED
    BY <1>3, CatalogAssumed DEF Tabled!Wrapped, Tabled!Int32

\* ... and is that of the numbers as long as these are.
LEMMA InRange == \A n \in Tabled!Int32 : Tabled!Wrapped(n) = n
  <1> TAKE n \in Tabled!Int32
  <1>1. \A k \in Nat \ {0} : \A i \in 0..(k - 1) : i % k = i
    OBVIOUS
  <1>2. 2 * (MaxInt32 + 1) \in Nat \ {0} /\ n + MaxInt32 + 1 \in 0..(2 * (MaxInt32 + 1) - 1)
    BY CatalogAssumed DEF Tabled!Int32
  <1>3. (n + MaxInt32 + 1) % (2 * (MaxInt32 + 1)) = n + MaxInt32 + 1
    BY <1>1, <1>2
  <1> QED
    BY <1>3, CatalogAssumed DEF Tabled!Wrapped, Tabled!Int32

\* An id that is given out belongs to no row.
LEMMA NextIdFree ==
    ASSUME NEW S \in SUBSET Tabled!Ids
    PROVE  /\ Tabled!NextId(S) \notin S /\ Tabled!NextId(S) \in Nat \ {0}
           /\ S = {} => Tabled!NextId(S) \in Tabled!Ids
  <1>1. CASE S = {}
    BY <1>1, CatalogAssumed DEF Tabled!NextId, Tabled!Ids
  <1>2. CASE S # {}
    <2>1. S \in SUBSET Int /\ MaxRows \in Int /\ \A x \in S : x <= MaxRows
      BY CatalogAssumed DEF Tabled!Ids
    <2>2. Tabled!Max(S) \in S /\ \A x \in S : Tabled!Max(S) >= x
      BY <1>2, <2>1, Greatest
    <2> QED
      <3> DEFINE m == Tabled!Max(S)
      <3>0. S \subseteq 1..MaxRows
        BY DEF Tabled!Ids
      <3>1. m \in 1..MaxRows /\ \A x \in S : x \in Int /\ m >= x
        <4> HIDE DEF m
        <4>1. m \in S /\ \A x \in S : m >= x
          BY <2>2, Zenon DEF m
        <4> QED BY <4>1, <3>0, CatalogAssumed
      <3>2. Tabled!NextId(S) = m + 1
        BY <1>2 DEF Tabled!NextId
      <3> HIDE DEF m
      <3>3. m + 1 \notin S /\ m + 1 \in Nat \ {0}
        BY <3>1, CatalogAssumed
      <3> QED BY <1>2, <3>2, <3>3
  <1> QED
    BY <1>1, <1>2

\* A priority the server hands out is an i32.
LEMMA AfterLastInt32 ==
    ASSUME NEW rows, \A r \in rows : r.priority \in Tabled!Int32
    PROVE  Tabled!AfterLast(rows) \in Tabled!Int32
  <1> DEFINE P == {r.priority : r \in rows}
  <1>1. CASE rows = {}
    BY <1>1, WrappedInt32 DEF Tabled!AfterLast, Tabled!Gap
  <1>2. CASE rows # {}
    <2>1. P \in SUBSET Int /\ P # {} /\ \A x \in P : x <= MaxInt32
      BY <1>2, CatalogAssumed DEF Tabled!Int32
    <2>2. Tabled!Max(P) \in Int
      <3> HIDE DEF P
      <3>1. MaxInt32 \in Int
        BY CatalogAssumed
      <3>2. Tabled!Max(P) \in P
        BY <2>1, <3>1, Greatest
      <3> QED BY <2>1, <3>2
    <2> QED
      BY <1>2, <2>2, WrappedInt32 DEF Tabled!AfterLast, Tabled!Gap
  <1> QED
    BY <1>1, <1>2


\* Each table by itself, with what its rows refer to.
ModelsInv ==
    /\ DOMAIN models \subseteq Tabled!Ids
    /\ models \in [DOMAIN models -> Tabled!Model]
KeysInv ==
    /\ DOMAIN keys \subseteq Tabled!Ids /\ keys \in [DOMAIN keys -> Tabled!Key]
    /\ \A k \in DOMAIN keys : keys[k].channel \in channels
    /\ Tabled!UniqueUnlessCrossed /\ crossed \in BOOLEAN
PoolInv ==
    /\ DOMAIN discovered \subseteq Tabled!Ids \X Raws
    /\ discovered \in [DOMAIN discovered -> Quotas \cup {Tabled!None}]
    /\ \A d \in DOMAIN discovered : d[1] \in channels
BindingsInv ==
    /\ DOMAIN bindings \subseteq Tabled!Ids \X Tabled!Ids \X Raws
    /\ bindings \in [DOMAIN bindings -> Tabled!Binding]
    /\ IsFiniteSet(DOMAIN bindings)
    /\ Tabled!BindingsAreDiscovered
LogInv == logged \subseteq Tabled!Ids \X Tabled!Ids \X Tabled!Ids /\ Tabled!LoggedRowsExist
ChannelsInv == channels \subseteq Tabled!Ids /\ edits \in 0..MaxEdits

\* The inductive invariant of the tables.
TablesInv == ModelsInv /\ KeysInv /\ PoolInv /\ BindingsInv /\ LogInv /\ ChannelsInv

\* Edits are counted up to their bound.
LEMMA Edited == ChannelsInv /\ Tabled!Edit => edits' \in 0..MaxEdits
  BY CatalogAssumed DEF ChannelsInv, Tabled!Edit

\* What an operation that leaves a table alone may do to those it refers to.
LEMMA Untouched ==
    ASSUME TablesInv
    PROVE  /\ UNCHANGED models => ModelsInv'
           /\ UNCHANGED <<keys, channels, crossed>> => KeysInv'
           /\ UNCHANGED discovered /\ channels \subseteq channels' => PoolInv'
           /\ /\ UNCHANGED bindings /\ channels \subseteq channels'
              /\ DOMAIN models \subseteq DOMAIN models'
              /\ DOMAIN discovered \subseteq DOMAIN discovered'
              => BindingsInv'
           /\ /\ UNCHANGED logged /\ channels \subseteq channels'
              /\ DOMAIN models \subseteq DOMAIN models' /\ DOMAIN keys \subseteq DOMAIN keys'
              => LogInv'
           /\ UNCHANGED channels /\ Tabled!Edit => ChannelsInv'
  <1> USE DEF TablesInv
  <1>1. UNCHANGED models => ModelsInv'
    BY DEF ModelsInv
  <1>2. UNCHANGED <<keys, channels, crossed>> => KeysInv'
    BY DEF KeysInv, Tabled!UniqueUnlessCrossed
  <1>3. UNCHANGED discovered /\ channels \subseteq channels' => PoolInv'
    BY DEF PoolInv
  <1>4. /\ UNCHANGED bindings /\ channels \subseteq channels'
        /\ DOMAIN models \subseteq DOMAIN models'
        /\ DOMAIN discovered \subseteq DOMAIN discovered'
        => BindingsInv'
    BY DEF BindingsInv, Tabled!BindingsAreDiscovered
  <1>5. /\ UNCHANGED logged /\ channels \subseteq channels'
        /\ DOMAIN models \subseteq DOMAIN models' /\ DOMAIN keys \subseteq DOMAIN keys'
        => LogInv'
    BY DEF LogInv, Tabled!LoggedRowsExist
  <1>6. UNCHANGED channels /\ Tabled!Edit => ChannelsInv'
    BY Edited DEF ChannelsInv
  <1> QED
    BY <1>1, <1>2, <1>3, <1>4, <1>5, <1>6

\* The handlers of models keep it; a model that is deleted takes its bindings along.
LEMMA ModelsEdited ==
    ASSUME TablesInv, Tabled!EditModel PROVE TablesInv'
  <1>a. ModelsInv /\ BindingsInv /\ LogInv
    BY DEF TablesInv
  <1>1. ASSUME NEW n \in Names, Tabled!CreateModel(n) PROVE TablesInv'
    <2>1. /\ models' = Tabled!With(models, Tabled!NextId(DOMAIN models),
                                   [name |-> n, strategy |-> "priority"])
          /\ UNCHANGED <<channels, keys, discovered, bindings, logged, crossed>>
          /\ Tabled!NextId(DOMAIN models) \in Tabled!Ids /\ Tabled!Edit
      BY <1>1 DEF Tabled!CreateModel
    <2>2. ModelsInv' /\ DOMAIN models \subseteq DOMAIN models'
      BY <2>1, <1>a DEF ModelsInv, Tabled!With, Tabled!Model, Tabled!Strategies
    <2> QED
      BY <2>1, <2>2, Untouched DEF TablesInv
  <1>2. ASSUME NEW m \in DOMAIN models, NEW n \in Names, Tabled!RenameModel(m, n)
        PROVE  TablesInv'
    <2>1. /\ models' = [models EXCEPT ![m].name = n]
          /\ UNCHANGED <<channels, keys, discovered, bindings, logged, crossed>> /\ Tabled!Edit
      BY <1>2 DEF Tabled!RenameModel
    <2>2. ModelsInv' /\ DOMAIN models \subseteq DOMAIN models'
      BY <2>1, <1>a DEF ModelsInv, Tabled!Model
    <2> QED
      BY <2>1, <2>2, Untouched DEF TablesInv
  <1>3. ASSUME NEW m \in DOMAIN models, NEW s \in Tabled!Strategies,
               Tabled!UpdateRoutingStrategy(m, s)
        PROVE  TablesInv'
    <2>1. /\ models' = [models EXCEPT ![m].strategy = s]
          /\ UNCHANGED <<channels, keys, discovered, bindings, logged, crossed>> /\ Tabled!Edit
      BY <1>3 DEF Tabled!UpdateRoutingStrategy
    <2>2. ModelsInv' /\ DOMAIN models \subseteq DOMAIN models'
      BY <2>1, <1>a DEF ModelsInv, Tabled!Model
    <2> QED
      BY <2>1, <2>2, Untouched DEF TablesInv
  <1>4. ASSUME NEW m \in DOMAIN models, Tabled!DeleteModel(m) PROVE TablesInv'
    <2>1. /\ models' = Tabled!Without(models, {m}) /\ \A u \in logged : u[1] # m
          /\ bindings' = Tabled!Without(bindings, Tabled!BindingsOf(m))
          /\ UNCHANGED <<channels, keys, discovered, logged, crossed>> /\ Tabled!Edit
      BY <1>4 DEF Tabled!DeleteModel
    <2>2. ModelsInv' /\ DOMAIN models' = DOMAIN models \ {m}
      BY <2>1, <1>a DEF ModelsInv, Tabled!Without
    <2>3. /\ DOMAIN bindings' = {b \in DOMAIN bindings : b[1] # m}
          /\ \A b \in DOMAIN bindings' : bindings'[b] = bindings[b]
          /\ bindings' \in [DOMAIN bindings' -> Tabled!Binding]
      BY <2>1, <1>a DEF BindingsInv, Tabled!Without, Tabled!BindingsOf
    <2>4. IsFiniteSet(DOMAIN bindings')
      BY <2>3, <1>a, FS_Subset DEF BindingsInv
    <2>5. BindingsInv'
      BY <2>1, <2>2, <2>3, <2>4, <1>a DEF BindingsInv, Tabled!BindingsAreDiscovered
    <2>6. LogInv'
      BY <2>1, <2>2, <1>a DEF LogInv, Tabled!LoggedRowsExist
    <2> QED
      BY <2>1, <2>2, <2>5, <2>6, Untouched DEF TablesInv
  <1> QED
    BY <1>1, <1>2, <1>3, <1>4 DEF Tabled!EditModel

\* The handlers of channels; a channel takes keys, pool and bindings along.
LEMMA ChannelsEdited ==
    ASSUME TablesInv, Tabled!EditChannel PROVE TablesInv'
  <1>a. ModelsInv /\ KeysInv /\ PoolInv /\ BindingsInv /\ LogInv /\ ChannelsInv
    BY DEF TablesInv
  <1>1. CASE Tabled!CreateChannel
    <2>1. /\ channels' = channels \cup {Tabled!NextId(channels)}
          /\ UNCHANGED <<models, keys, discovered, bindings, logged, crossed>>
          /\ Tabled!NextId(channels) \in Tabled!Ids /\ Tabled!Edit
      BY <1>1 DEF Tabled!CreateChannel
    <2>2. ChannelsInv'
      BY <2>1, <1>a, Edited DEF ChannelsInv
    <2>3. KeysInv'
      BY <2>1, <1>a DEF KeysInv, Tabled!UniqueUnlessCrossed
    <2> QED
      BY <2>1, <2>2, <2>3, Untouched DEF TablesInv
  <1>2. ASSUME NEW c \in channels, Tabled!DeleteChannel(c) PROVE TablesInv'
    <2>1. /\ \A u \in logged : u[2] # c /\ u[3] \notin Tabled!KeysOf(c)
          /\ channels' = channels \ {c}
          /\ keys' = Tabled!Without(keys, Tabled!KeysOf(c))
          /\ discovered' = Tabled!Without(discovered, {d \in DOMAIN discovered : d[1] = c})
          /\ bindings' = Tabled!Without(bindings, {b \in DOMAIN bindings : b[2] = c})
          /\ UNCHANGED <<models, logged, crossed>> /\ Tabled!Edit
      BY <1>2 DEF Tabled!DeleteChannel
    <2>2. ChannelsInv'
      BY <2>1, <1>a, Edited DEF ChannelsInv
    <2>3. /\ DOMAIN keys' = {k \in DOMAIN keys : keys[k].channel # c}
          /\ \A k \in DOMAIN keys' : keys'[k] = keys[k]
          /\ keys' \in [DOMAIN keys' -> Tabled!Key]
      BY <2>1, <1>a DEF KeysInv, Tabled!Without, Tabled!KeysOf
    <2>4. KeysInv'
      BY <2>1, <2>3, <1>a DEF KeysInv, Tabled!UniqueUnlessCrossed
    <2>5. /\ DOMAIN discovered' = {d \in DOMAIN discovered : d[1] # c}
          /\ discovered' \in [DOMAIN discovered' -> Quotas \cup {Tabled!None}]
      BY <2>1, <1>a DEF PoolInv, Tabled!Without
    <2>6. PoolInv'
      BY <2>1, <2>5, <1>a DEF PoolInv
    <2>7. /\ DOMAIN bindings' = {b \in DOMAIN bindings : b[2] # c}
          /\ bindings' \in [DOMAIN bindings' -> Tabled!Binding]
      BY <2>1, <1>a DEF BindingsInv, Tabled!Without
    <2>8. IsFiniteSet(DOMAIN bindings')
      BY <2>7, <1>a, FS_Subset DEF BindingsInv
    <2>9. BindingsInv'
      BY <2>1, <2>5, <2>7, <2>8, <1>a DEF BindingsInv, Tabled!BindingsAreDiscovered
    <2>10. LogInv'
      BY <2>1, <2>3, <1>a DEF LogInv, Tabled!LoggedRowsExist, Tabled!KeysOf
    <2> QED
      BY <2>1, <2>2, <2>4, <2>6, <2>9, <2>10, Untouched DEF TablesInv
  <1> QED
    BY <1>1, <1>2 DEF Tabled!EditChannel

\* The handlers of keys; a secret that is taken in the channel of the path is refused.
LEMMA KeysEdited ==
    ASSUME TablesInv, Tabled!EditKey PROVE TablesInv'
  <1>a. KeysInv /\ LogInv /\ ChannelsInv
    BY DEF TablesInv
  <1>1. ASSUME NEW c \in channels, NEW a \in ApiKeys, Tabled!CreateKey(c, a) PROVE TablesInv'
    <2> DEFINE id == Tabled!NextId(DOMAIN keys)
               p == Tabled!AfterLast({keys[k] : k \in Tabled!KeysOf(c)})
               row == [channel |-> c, api_key |-> a, priority |-> p]
    <2>1. /\ keys' = Tabled!With(keys, id, row) /\ id \in Tabled!Ids
          /\ ~Tabled!Taken(c, a, {})
          /\ UNCHANGED <<models, channels, discovered, bindings, logged, crossed>> /\ Tabled!Edit
      BY <1>1 DEF Tabled!CreateKey
    <2>2. p \in Tabled!Int32
      <3>1. \A r \in {keys[k] : k \in Tabled!KeysOf(c)} : r.priority \in Tabled!Int32
        BY <1>a DEF KeysInv, Tabled!KeysOf, Tabled!Key
      <3> QED
        BY <3>1, AfterLastInt32
    <2>3. id \notin DOMAIN keys
      BY <1>a, NextIdFree DEF KeysInv
    <2> HIDE DEF id, p
    <2>4. row \in Tabled!Key /\ row.channel = c /\ row.api_key = a
      BY <2>2, <1>a DEF Tabled!Key, ChannelsInv
    <2> HIDE DEF row
    <2>5. /\ DOMAIN keys' = DOMAIN keys \cup {id} /\ keys'[id] = row
          /\ \A k \in DOMAIN keys : keys'[k] = keys[k]
          /\ keys' \in [DOMAIN keys' -> Tabled!Key]
      BY <2>1, <2>3, <2>4, <1>a DEF KeysInv, Tabled!With
    <2>6. \A k \in DOMAIN keys : ~(keys[k].channel = c /\ keys[k].api_key = a)
      BY <2>1 DEF Tabled!Taken, Tabled!KeysOf
    <2>7. Tabled!UniqueUnlessCrossed'
      BY <2>1, <2>4, <2>5, <2>6, <1>a DEF KeysInv, Tabled!UniqueUnlessCrossed
    <2>8. KeysInv'
      BY <2>1, <2>4, <2>5, <2>7, <1>a DEF KeysInv
    <2> QED
      BY <2>1, <2>5, <2>8, Untouched DEF TablesInv
  <1>2. ASSUME NEW c \in Tabled!Ids, NEW k \in DOMAIN keys, NEW a \in ApiKeys,
               NEW p \in Priorities, Tabled!UpdateKey(c, k, a, p)
        PROVE  TablesInv'
    <2>1. /\ keys' = [keys EXCEPT ![k].api_key = a, ![k].priority = p]
          /\ ~Tabled!Taken(c, a, {k}) /\ crossed' = (crossed \/ keys[k].channel # c)
          /\ UNCHANGED <<models, channels, discovered, bindings, logged>> /\ Tabled!Edit
      BY <1>2 DEF Tabled!UpdateKey
    <2>2. p \in Tabled!Int32
      BY CatalogAssumed DEF Tabled!Int32
    <2>3. /\ DOMAIN keys' = DOMAIN keys
          /\ \A j \in DOMAIN keys : keys'[j].channel = keys[j].channel
          /\ keys'[k].api_key = a
          /\ \A j \in DOMAIN keys \ {k} : keys'[j] = keys[j]
          /\ keys' \in [DOMAIN keys' -> Tabled!Key]
      BY <2>1, <2>2, <1>a DEF KeysInv, Tabled!Key
    <2>4. \A j \in DOMAIN keys \ {k} : ~(keys[j].channel = c /\ keys[j].api_key = a)
      BY <2>1 DEF Tabled!Taken, Tabled!KeysOf
    <2>5. Tabled!UniqueUnlessCrossed'
      <3>1. \A i, j \in DOMAIN keys :
              ~crossed /\ keys[i].channel = keys[j].channel /\ keys[i].api_key = keys[j].api_key
                => i = j
        BY <1>a DEF KeysInv, Tabled!UniqueUnlessCrossed
      <3>2. ~crossed' => ~crossed /\ keys[k].channel = c
        BY <2>1
      <3>3. ASSUME ~crossed', NEW i \in DOMAIN keys, NEW j \in DOMAIN keys,
                   keys'[i].channel = keys'[j].channel, keys'[i].api_key = keys'[j].api_key
            PROVE  i = j
        BY <3>1, <3>2, <3>3, <2>3, <2>4
      <3> QED
        BY <3>3, <2>3 DEF Tabled!UniqueUnlessCrossed
    <2>6. crossed' \in BOOLEAN
      BY <2>1
    <2>7. KeysInv'
      BY <2>1, <2>3, <2>5, <2>6, <1>a DEF KeysInv
    <2> QED
      BY <2>1, <2>3, <2>7, Untouched DEF TablesInv
  <1>3. ASSUME NEW c \in channels, NEW pos \in Tabled!Orders(Tabled!KeysOf(c)),
               Tabled!ReorderKeys(c, pos)
        PROVE  TablesInv'
    <2> DEFINE S == Tabled!KeysOf(c)
    <2>1. /\ keys' = [k \in DOMAIN keys |->
                        IF keys[k].channel = c
                        THEN [keys[k] EXCEPT !.priority = Tabled!Wrapped(Tabled!Gap * pos[k])]
                        ELSE keys[k]]
          /\ UNCHANGED <<models, channels, discovered, bindings, logged, crossed>> /\ Tabled!Edit
      BY <1>3 DEF Tabled!ReorderKeys
    <2>2. \A k \in DOMAIN keys : keys[k].channel = c =>
             Tabled!Wrapped(Tabled!Gap * pos[k]) \in Tabled!Int32
      <3>1. \A k \in S : pos[k] \in Int
        BY DEF Tabled!Orders
      <3>2. \A k \in S : Tabled!Gap * pos[k] \in Int
        BY <3>1 DEF Tabled!Gap
      <3> QED
        BY <3>2, WrappedInt32 DEF Tabled!KeysOf
    <2>3. /\ DOMAIN keys' = DOMAIN keys
          /\ \A j \in DOMAIN keys : /\ keys'[j].channel = keys[j].channel
                                    /\ keys'[j].api_key = keys[j].api_key
          /\ keys' \in [DOMAIN keys' -> Tabled!Key]
      BY <2>1, <2>2, <1>a DEF KeysInv, Tabled!Key
    <2>4. KeysInv'
      BY <2>1, <2>3, <1>a DEF KeysInv, Tabled!UniqueUnlessCrossed
    <2> QED
      BY <2>1, <2>3, <2>4, Untouched DEF TablesInv
  <1>4. ASSUME NEW k \in DOMAIN keys, Tabled!DeleteKey(k) PROVE TablesInv'
    <2>1. /\ keys' = Tabled!Without(keys, {k}) /\ \A u \in logged : u[3] # k
          /\ UNCHANGED <<models, channels, discovered, bindings, logged, crossed>> /\ Tabled!Edit
      BY <1>4 DEF Tabled!DeleteKey
    <2>2. /\ DOMAIN keys' = DOMAIN keys \ {k}
          /\ \A j \in DOMAIN keys' : keys'[j] = keys[j]
          /\ keys' \in [DOMAIN keys' -> Tabled!Key]
      BY <2>1, <1>a DEF KeysInv, Tabled!Without
    <2>3. KeysInv'
      <3>1. Tabled!UniqueUnlessCrossed'
        BY <2>1, <2>2, <1>a DEF KeysInv, Tabled!UniqueUnlessCrossed
      <3> QED
        BY <3>1, <2>1, <2>2, <1>a DEF KeysInv
    <2>4. LogInv'
      BY <2>1, <2>2, <1>a DEF LogInv, Tabled!LoggedRowsExist
    <2> QED
      BY <2>1, <2>3, <2>4, Untouched DEF TablesInv
  <1> QED
    BY <1>1, <1>2, <1>3, <1>4 DEF Tabled!EditKey


\* The handlers of the pool; a row that a binding names is not deleted.
LEMMA PoolEdited ==
    ASSUME TablesInv, Tabled!EditPool PROVE TablesInv'
  <1>a. PoolInv /\ BindingsInv /\ ChannelsInv
    BY DEF TablesInv
  <1>1. ASSUME NEW c \in channels, NEW r \in Raws, Tabled!AddDiscoveredModel(c, r)
        PROVE  TablesInv'
    <2>1. /\ discovered' = Tabled!Upsert(discovered, c, r)
          /\ UNCHANGED <<models, channels, keys, bindings, logged, crossed>> /\ Tabled!Edit
      BY <1>1 DEF Tabled!AddDiscoveredModel
    <2>2. PoolInv' /\ DOMAIN discovered \subseteq DOMAIN discovered'
      BY <2>1, <1>a DEF PoolInv, ChannelsInv, Tabled!Upsert, Tabled!With
    <2> QED
      BY <2>1, <2>2, Untouched DEF TablesInv
  <1>2. ASSUME NEW c \in channels, NEW r \in Raws, NEW q \in Quotas \cup {Tabled!None},
               Tabled!UpdateSmallModelQuota(c, r, q)
        PROVE  TablesInv'
    <2>1. /\ discovered' = Tabled!With(discovered, <<c, r>>, q)
          /\ UNCHANGED <<models, channels, keys, bindings, logged, crossed>> /\ Tabled!Edit
      BY <1>2 DEF Tabled!UpdateSmallModelQuota
    <2>2. PoolInv' /\ DOMAIN discovered \subseteq DOMAIN discovered'
      BY <2>1, <1>a DEF PoolInv, ChannelsInv, Tabled!With
    <2> QED
      BY <2>1, <2>2, Untouched DEF TablesInv
  <1>3. ASSUME NEW d \in DOMAIN discovered, Tabled!DeleteDiscoveredModel(d[1], d[2])
        PROVE  TablesInv'
    <2>1. /\ discovered' = Tabled!Without(discovered, {<<d[1], d[2]>>})
          /\ UNCHANGED <<models, channels, keys, bindings, logged, crossed>> /\ Tabled!Edit
          /\ Tabled!BindingCount(d[1], d[2]) = 0
      BY <1>3 DEF Tabled!DeleteDiscoveredModel
    <2>2. \A b \in DOMAIN bindings : <<b[2], b[3]>> # <<d[1], d[2]>>
      <3> DEFINE B == {b \in DOMAIN bindings : b[2] = d[1] /\ b[3] = d[2]}
      <3>1. IsFiniteSet(B)
        BY <1>a, FS_Subset DEF BindingsInv
      <3>2. B = {}
        <4>1. Cardinality(B) = 0
          BY <2>1 DEF Tabled!BindingCount, Tabled!Cardinality, Cardinality
        <4> HIDE DEF B
        <4> QED BY <3>1, <4>1, FS_EmptySet
      <3> QED
        BY <3>2
    <2>3. PoolInv' /\ DOMAIN discovered' = DOMAIN discovered \ {<<d[1], d[2]>>}
      BY <2>1, <1>a DEF PoolInv, Tabled!Without
    <2>4. BindingsInv'
      BY <2>1, <2>2, <2>3, <1>a DEF BindingsInv, Tabled!BindingsAreDiscovered
    <2> QED
      BY <2>1, <2>3, <2>4, Untouched DEF TablesInv
  <1> QED
    BY <1>1, <1>2, <1>3 DEF Tabled!EditPool

\* Rows of bindings that change without coming or going.
LEMMA BindingRows ==
    ASSUME TablesInv, DOMAIN bindings' = DOMAIN bindings,
           bindings' \in [DOMAIN bindings -> Tabled!Binding],
           UNCHANGED <<models, channels, keys, discovered, logged, crossed>>, Tabled!Edit
    PROVE  TablesInv'
  <1>1. BindingsInv'
    BY DEF TablesInv, BindingsInv, Tabled!BindingsAreDiscovered
  <1> QED
    BY <1>1, Untouched DEF TablesInv

\* The row of a binding put in place.
LEMMA BoundTyped ==
    ASSUME TablesInv, NEW b, NEW p \in Tabled!Int32
    PROVE  Tabled!Bound(b, p) \in Tabled!Binding
  <1>1. (IF b \in DOMAIN bindings THEN bindings[b].price ELSE Tabled!None)
          \in Prices \cup {Tabled!None}
    BY DEF TablesInv, BindingsInv, Tabled!Binding
  <1>2. 1 \in 1..MaxWeight
    BY CatalogAssumed
  <1> QED
    BY <1>1, <1>2 DEF Tabled!Bound, Tabled!Binding

\* The handlers of bindings; one is added only to a row of the pool.
LEMMA BindingsEdited ==
    ASSUME TablesInv, Tabled!EditBinding PROVE TablesInv'
  <1>a. /\ ModelsInv /\ PoolInv /\ ChannelsInv /\ BindingsInv
        /\ bindings \in [DOMAIN bindings -> Tabled!Binding]
    BY DEF TablesInv, BindingsInv
  <1>1. ASSUME NEW m \in DOMAIN models, NEW d \in DOMAIN discovered,
               Tabled!AddBinding(m, d[1], d[2])
        PROVE  TablesInv'
    <2> DEFINE b == <<m, d[1], d[2]>>
               p == Tabled!AfterLast({bindings[a] : a \in Tabled!BindingsOf(m)})
               row == Tabled!Bound(b, p)
    <2>1. /\ bindings' = Tabled!With(bindings, b, row)
          /\ m \in DOMAIN models /\ d[1] \in channels /\ <<d[1], d[2]>> \in DOMAIN discovered
          /\ UNCHANGED <<models, channels, keys, discovered, logged, crossed>> /\ Tabled!Edit
      BY <1>1 DEF Tabled!AddBinding
    <2>2. p \in Tabled!Int32
      <3>1. \A r \in {bindings[a] : a \in Tabled!BindingsOf(m)} : r.priority \in Tabled!Int32
        BY <1>a DEF Tabled!BindingsOf, Tabled!Binding
      <3> QED
        BY <3>1, AfterLastInt32
    <2>3. row \in Tabled!Binding
      <3> HIDE DEF p
      <3> QED BY <2>2, BoundTyped
    <2>4. b \in Tabled!Ids \X Tabled!Ids \X Raws
      BY <1>a, <2>1 DEF ModelsInv, PoolInv
    <2> HIDE DEF row
    <2>5. /\ DOMAIN bindings' = DOMAIN bindings \cup {b}
          /\ bindings' \in [DOMAIN bindings' -> Tabled!Binding]
      BY <2>1, <2>3, <1>a DEF Tabled!With
    <2>6. IsFiniteSet(DOMAIN bindings')
      BY <2>5, <1>a, FS_AddElement DEF BindingsInv
    <2>7. BindingsInv'
      BY <2>1, <2>4, <2>5, <2>6, <1>a DEF BindingsInv, Tabled!BindingsAreDiscovered
    <2> QED
      BY <2>1, <2>7, Untouched DEF TablesInv
  <1>2. ASSUME NEW b \in DOMAIN bindings, Tabled!RemoveBinding(b) PROVE TablesInv'
    <2>1. /\ bindings' = Tabled!Without(bindings, {b})
          /\ UNCHANGED <<models, channels, keys, discovered, logged, crossed>> /\ Tabled!Edit
      BY <1>2 DEF Tabled!RemoveBinding
    <2>2. /\ DOMAIN bindings' = DOMAIN bindings \ {b}
          /\ bindings' \in [DOMAIN bindings' -> Tabled!Binding]
      BY <2>1, <1>a DEF Tabled!Without
    <2>3. IsFiniteSet(DOMAIN bindings')
      BY <2>2, <1>a, FS_Subset DEF BindingsInv
    <2>4. BindingsInv'
      BY <2>1, <2>2, <2>3, <1>a DEF BindingsInv, Tabled!BindingsAreDiscovered
    <2> QED
      BY <2>1, <2>4, Untouched DEF TablesInv
  <1>3. ASSUME NEW b \in DOMAIN bindings, NEW w \in 0..MaxWeight, Tabled!UpdateWeight(b, w)
        PROVE  TablesInv'
    <2>1. /\ bindings' = [bindings EXCEPT ![b].weight = w] /\ w >= 1
          /\ UNCHANGED <<models, channels, keys, discovered, logged, crossed>> /\ Tabled!Edit
      BY <1>3 DEF Tabled!UpdateWeight
    <2>2. w \in 1..MaxWeight
      BY <2>1, CatalogAssumed
    <2>3. DOMAIN bindings' = DOMAIN bindings /\ bindings' \in [DOMAIN bindings -> Tabled!Binding]
      BY <2>1, <2>2, <1>a DEF Tabled!Binding
    <2> QED
      BY <2>1, <2>3, BindingRows
  <1>4. ASSUME NEW b \in DOMAIN bindings, NEW p \in Prices \cup {Tabled!None},
               Tabled!UpdatePricing(b, p)
        PROVE  TablesInv'
    <2>1. /\ bindings' = [bindings EXCEPT ![b].price = p]
          /\ UNCHANGED <<models, channels, keys, discovered, logged, crossed>> /\ Tabled!Edit
      BY <1>4 DEF Tabled!UpdatePricing
    <2>3. DOMAIN bindings' = DOMAIN bindings /\ bindings' \in [DOMAIN bindings -> Tabled!Binding]
      BY <2>1, <1>a DEF Tabled!Binding
    <2> QED
      BY <2>1, <2>3, BindingRows
  <1>5. ASSUME NEW m \in DOMAIN models, NEW S \in SUBSET Tabled!BindingsOf(m),
               NEW pos \in Tabled!Orders(S), Tabled!ReorderBindings(m, pos)
        PROVE  TablesInv'
    <2>1. /\ bindings' = [b \in DOMAIN bindings |->
                            IF b \in DOMAIN pos \cap Tabled!BindingsOf(m)
                            THEN [bindings[b] EXCEPT
                                     !.priority = Tabled!Wrapped(Tabled!Gap * pos[b])]
                            ELSE bindings[b]]
          /\ UNCHANGED <<models, channels, keys, discovered, logged, crossed>> /\ Tabled!Edit
      BY <1>5 DEF Tabled!ReorderBindings
    <2>2. \A b \in DOMAIN pos : Tabled!Wrapped(Tabled!Gap * pos[b]) \in Tabled!Int32
      <3>1. \A b \in DOMAIN pos : Tabled!Gap * pos[b] \in Int
        BY DEF Tabled!Orders, Tabled!Gap
      <3> QED
        BY <3>1, WrappedInt32
    <2>3. DOMAIN bindings' = DOMAIN bindings /\ bindings' \in [DOMAIN bindings -> Tabled!Binding]
      BY <2>1, <2>2, <1>a DEF Tabled!Binding
    <2> QED
      BY <2>1, <2>3, BindingRows
  <1> QED
    BY <1>1, <1>2, <1>3, <1>4, <1>5 DEF Tabled!EditBinding

\* The import: without channels there are no keys, no pool, no bindings and no usage.
LEMMA ImportKeepsTables ==
    ASSUME TablesInv, NEW n \in Names, NEW a \in ApiKeys, NEW r \in Raws, Tabled!Import(n, a, r)
    PROVE  TablesInv'
  <1>a. ModelsInv /\ KeysInv /\ PoolInv /\ BindingsInv /\ LogInv /\ ChannelsInv
    BY DEF TablesInv
  <1>b. Tabled!DefaultPriority \in Tabled!Int32
    BY CatalogAssumed DEF Tabled!DefaultPriority, Tabled!Int32
  <1> DEFINE m == Tabled!NextId(DOMAIN models)
             id == Tabled!NextId(DOMAIN keys)
             b == <<m, 1, r>>
             row == Tabled!Bound(b, Tabled!DefaultPriority)
             key == [channel |-> 1, api_key |-> a, priority |-> Tabled!DefaultPriority]
  <1>1. /\ channels = {} /\ m \in Tabled!Ids
        /\ models' = Tabled!With(models, m, [name |-> n, strategy |-> "priority"])
        /\ bindings' = Tabled!With(bindings, b, row)
        /\ channels' = {1} /\ keys' = Tabled!With(keys, id, key)
        /\ discovered' = Tabled!Upsert(discovered, 1, r)
        /\ UNCHANGED <<logged, crossed>> /\ Tabled!Edit
    BY DEF Tabled!Import
  <1>2. DOMAIN keys = {} /\ DOMAIN discovered = {} /\ DOMAIN bindings = {} /\ logged = {}
    BY <1>1, <1>a DEF KeysInv, PoolInv, BindingsInv, Tabled!BindingsAreDiscovered, LogInv,
                      Tabled!LoggedRowsExist
  <1>3. id \in Tabled!Ids
    BY <1>2, NextIdFree
  <1>4. 1 \in Tabled!Ids
    BY CatalogAssumed DEF Tabled!Ids
  <1>5. row \in Tabled!Binding /\ key \in Tabled!Key
    BY <1>b, <1>4, BoundTyped DEF Tabled!Key
  <1>6. key.channel = 1
    OBVIOUS
  <1> HIDE DEF m, id, row, key
  <1>7. ModelsInv' /\ m \in DOMAIN models'
    BY <1>1, <1>a DEF ModelsInv, Tabled!With, Tabled!Model, Tabled!Strategies
  <1>8. DOMAIN keys' = {id} /\ keys'[id] = key /\ keys' \in [DOMAIN keys' -> Tabled!Key]
    BY <1>1, <1>2, <1>5 DEF Tabled!With
  <1>9. KeysInv'
    BY <1>1, <1>3, <1>6, <1>8, <1>a DEF KeysInv, Tabled!UniqueUnlessCrossed
  <1>10. DOMAIN discovered' = {<<1, r>>} /\ PoolInv'
    BY <1>1, <1>2, <1>4 DEF PoolInv, Tabled!Upsert, Tabled!With
  <1>11. DOMAIN bindings' = {b} /\ bindings' \in [DOMAIN bindings' -> Tabled!Binding]
    BY <1>1, <1>2, <1>5 DEF Tabled!With
  <1>12. IsFiniteSet(DOMAIN bindings')
    BY <1>11, FS_Singleton
  <1>13. BindingsInv'
    BY <1>1, <1>4, <1>7, <1>10, <1>11, <1>12 DEF BindingsInv, Tabled!BindingsAreDiscovered
  <1>14. LogInv'
    BY <1>1, <1>2 DEF LogInv, Tabled!LoggedRowsExist
  <1>15. ChannelsInv'
    BY <1>1, <1>4, <1>a, Edited DEF ChannelsInv
  <1> QED
    BY <1>7, <1>9, <1>10, <1>13, <1>14, <1>15 DEF TablesInv

\* The usage row of a request.
LEMMA LoggingKeepsTables ==
    ASSUME TablesInv, NEW m \in DOMAIN models, NEW c \in channels, NEW k \in DOMAIN keys,
           Tabled!LogUsage(m, c, k)
    PROVE  TablesInv'
  <1>1. /\ logged' = logged \cup {<<m, c, k>>}
        /\ UNCHANGED <<models, channels, keys, discovered, bindings, crossed>>
        /\ Tabled!Edit
    BY DEF Tabled!LogUsage, Tabled!config
  <1>2. LogInv'
    BY <1>1 DEF TablesInv, LogInv, ModelsInv, KeysInv, ChannelsInv, Tabled!LoggedRowsExist
  <1> QED
    BY <1>1, <1>2, Untouched DEF TablesInv

\* It holds of empty tables.
LEMMA InitTables == Tabled!Init => TablesInv
  <1> SUFFICES ASSUME Tabled!Init PROVE TablesInv
    OBVIOUS
  <1>1. /\ DOMAIN models = {} /\ DOMAIN keys = {} /\ DOMAIN discovered = {} /\ DOMAIN bindings = {}
        /\ channels = {} /\ logged = {} /\ crossed = FALSE /\ edits = 0
    BY DEF Tabled!Init, Tabled!Empty
  <1>2. models \in [{} -> Tabled!Model] /\ keys \in [{} -> Tabled!Key]
        /\ discovered \in [{} -> Quotas \cup {Tabled!None}] /\ bindings \in [{} -> Tabled!Binding]
    BY DEF Tabled!Init, Tabled!Empty
  <1>3. IsFiniteSet(DOMAIN bindings)
    BY <1>1, FS_EmptySet
  <1>4. ModelsInv /\ PoolInv
    BY <1>1, <1>2 DEF ModelsInv, PoolInv
  <1>5. KeysInv
    BY <1>1, <1>2 DEF KeysInv, Tabled!UniqueUnlessCrossed
  <1>6. BindingsInv
    BY <1>1, <1>2, <1>3 DEF BindingsInv, Tabled!BindingsAreDiscovered
  <1>7. LogInv /\ ChannelsInv
    BY <1>1, CatalogAssumed DEF LogInv, ChannelsInv, Tabled!LoggedRowsExist
  <1> QED
    BY <1>4, <1>5, <1>6, <1>7 DEF TablesInv

\* Every step keeps it.
LEMMA NextTables == TablesInv /\ [Tabled!Next]_catalogVars => TablesInv'
  <1>1. TablesInv /\ UNCHANGED catalogVars => TablesInv'
    BY DEF catalogVars, TablesInv, ModelsInv, KeysInv, PoolInv, BindingsInv, LogInv, ChannelsInv,
           Tabled!UniqueUnlessCrossed, Tabled!BindingsAreDiscovered, Tabled!LoggedRowsExist
  <1> QED
    BY <1>1, ModelsEdited, ChannelsEdited, KeysEdited, PoolEdited, BindingsEdited,
       ImportKeepsTables, LoggingKeepsTables
       DEF Tabled!Next

\* From it the properties of the tables.
LEMMA TablesAre ==
    TablesInv => /\ Tabled!TypeOK /\ Tabled!BindingsAreDiscovered /\ Tabled!LoggedRowsExist
                 /\ Tabled!UniqueUnlessCrossed
  BY DEF TablesInv, ModelsInv, KeysInv, PoolInv, BindingsInv, LogInv, ChannelsInv, Tabled!TypeOK

-----------------------------------------------------------------------------
(* What is added goes behind the rest *)

\* No row of a table reaches the end of i32: each edit adds at most one gap.
Roomy ==
    \A p \in Priorities \cup {Tabled!DefaultPriority} : p + Tabled!Gap * MaxEdits <= MaxInt32

\* How high priorities can be after the edits so far.
Ceiling == MaxInt32 - Tabled!Gap * (MaxEdits - edits)

\* Priorities below the ceiling; no more rows than edits, so neither are the places of
\* an order.
KeysLow ==
    /\ \A k \in DOMAIN keys : keys[k].priority <= Ceiling
    /\ Cardinality(DOMAIN keys) <= edits
BindingsLow ==
    /\ \A b \in DOMAIN bindings : bindings[b].priority <= Ceiling
    /\ Cardinality(DOMAIN bindings) <= edits

\* What NewestIsLast says of a step, for keys and for bindings.
NewKeysLast ==
    \A k \in DOMAIN keys' \ DOMAIN keys :
        \A j \in DOMAIN keys' \ {k} :
            keys'[j].channel = keys'[k].channel => keys'[j].priority < keys'[k].priority
NewBindingsLast ==
    \A b \in DOMAIN bindings' \ DOMAIN bindings :
        \A a \in DOMAIN bindings' \ {b} :
            a[1] = b[1] => bindings'[a].priority < bindings'[b].priority

\* The cardinality Catalog uses is that of the theorems.
LEMMA SameCardinality == \A S : Tabled!Cardinality(S) = Cardinality(S)
  BY DEF Tabled!Cardinality, Cardinality

\* An edit raises the ceiling by a gap, and it stays within i32.
LEMMA CeilingRises ==
    ASSUME Roomy, TablesInv, Tabled!Edit
    PROVE  /\ edits \in Nat /\ edits' = edits + 1 /\ edits' <= MaxEdits
           /\ Ceiling \in Nat /\ Ceiling' = Ceiling + Tabled!Gap /\ Ceiling' <= MaxInt32
           /\ \A p \in Priorities \cup {Tabled!DefaultPriority} : p <= Ceiling
           /\ Tabled!Gap * edits <= Ceiling
  <1> DEFINE M == Tabled!Gap * MaxEdits
             E == Tabled!Gap * edits
  <1>1. edits \in Nat /\ edits' = edits + 1 /\ edits' <= MaxEdits /\ MaxEdits \in Nat
        /\ MaxInt32 \in Nat
    BY CatalogAssumed DEF TablesInv, ChannelsInv, Tabled!Edit
  <1>2. Tabled!Gap * (MaxEdits - edits) = M - E /\ Tabled!Gap * (MaxEdits - edits') = M - E - 10
        /\ M \in Nat /\ E \in Nat /\ E + 10 <= M
    BY <1>1 DEF Tabled!Gap
  <1>3. 100 + M <= MaxInt32
    BY DEF Roomy, Tabled!DefaultPriority
  <1>4. \A p \in Priorities \cup {Tabled!DefaultPriority} : p \in Int /\ p + M <= MaxInt32
    BY CatalogAssumed DEF Roomy, Tabled!DefaultPriority
  <1>5. Ceiling = MaxInt32 - (M - E) /\ Ceiling' = MaxInt32 - (M - E - 10)
    BY <1>1, <1>2 DEF Ceiling
  <1>6. Tabled!Gap = 10
    BY DEF Tabled!Gap
  <1> HIDE DEF M, E
  <1>7. E <= Ceiling
    BY <1>1, <1>2, <1>3, <1>5
  <1> QED
    BY <1>1, <1>2, <1>3, <1>4, <1>5, <1>6, <1>7 DEF E

\* Below the ceiling the next priority does not wrap: it is above all others.
LEMMA AfterLastIsLast ==
    ASSUME NEW rows, NEW c \in Nat, c + Tabled!Gap <= MaxInt32,
           \A r \in rows : r.priority \in Tabled!Int32 /\ r.priority <= c
    PROVE  /\ Tabled!AfterLast(rows) <= c + Tabled!Gap
           /\ \A r \in rows : r.priority < Tabled!AfterLast(rows)
  <1> DEFINE P == {r.priority : r \in rows}
  <1>0. \A n \in Int : n >= -MaxInt32 - 1 /\ n <= MaxInt32 => n \in Tabled!Int32
    BY CatalogAssumed DEF Tabled!Int32
  <1>1. CASE rows = {}
    <2>1. Tabled!AfterLast(rows) = Tabled!Wrapped(10)
      BY <1>1 DEF Tabled!AfterLast, Tabled!Gap
    <2>2. 10 \in Tabled!Int32
      BY CatalogAssumed DEF Tabled!Int32
    <2> QED
      BY <1>1, <2>1, <2>2, InRange DEF Tabled!Gap
  <1>2. CASE rows # {}
    <2>1. P \in SUBSET Int /\ P # {} /\ \A x \in P : x <= c
      BY <1>2, CatalogAssumed DEF Tabled!Int32
    <2>2. Tabled!Max(P) \in P /\ \A x \in P : Tabled!Max(P) >= x
      <3> HIDE DEF P
      <3>1. c \in Int
        OBVIOUS
      <3> QED BY <2>1, <3>1, Greatest
    <2>3. PICK m \in Tabled!Int32 : m = Tabled!Max(P) /\ m <= c /\ \A r \in rows : m >= r.priority
      BY <2>2
    <2>4. Tabled!Gap + m \in Tabled!Int32 /\ m \in Int
      BY <2>3, CatalogAssumed DEF Tabled!Int32, Tabled!Gap
    <2>5. Tabled!AfterLast(rows) = Tabled!Gap + m
      BY <1>2, <2>3, <2>4, InRange DEF Tabled!AfterLast
    <2>6. \A r \in rows : r.priority \in Int
      BY CatalogAssumed DEF Tabled!Int32
    <2> QED
      BY <2>3, <2>4, <2>5, <2>6 DEF Tabled!Gap
  <1> QED
    BY <1>1, <1>2

\* Steps that add no row only have to stay below the ceiling.
LEMMA NoNewKey ==
    ASSUME TablesInv, KeysLow, edits \in Nat, edits' = edits + 1,
           DOMAIN keys' \subseteq DOMAIN keys, \A k \in DOMAIN keys' : keys'[k].priority <= Ceiling'
    PROVE  KeysLow' /\ NewKeysLast
  <1>1. IsFiniteSet(DOMAIN keys)
    <2>1. IsFiniteSet(1..MaxRows)
      BY FS_Interval, CatalogAssumed
    <2> QED
      BY <2>1, FS_Subset DEF TablesInv, KeysInv, Tabled!Ids
  <1>2. Cardinality(DOMAIN keys') <= Cardinality(DOMAIN keys)
        /\ Cardinality(DOMAIN keys') \in Nat /\ Cardinality(DOMAIN keys) \in Nat
    BY <1>1, FS_Subset, FS_CardinalityType
  <1> QED
    BY <1>2 DEF KeysLow, NewKeysLast

LEMMA NoNewBinding ==
    ASSUME TablesInv, BindingsLow, edits \in Nat, edits' = edits + 1,
           DOMAIN bindings' \subseteq DOMAIN bindings,
           \A b \in DOMAIN bindings' : bindings'[b].priority <= Ceiling'
    PROVE  BindingsLow' /\ NewBindingsLast
  <1>1. IsFiniteSet(DOMAIN bindings)
    BY DEF TablesInv, BindingsInv
  <1>2. Cardinality(DOMAIN bindings') <= Cardinality(DOMAIN bindings)
        /\ Cardinality(DOMAIN bindings') \in Nat /\ Cardinality(DOMAIN bindings) \in Nat
    BY <1>1, FS_Subset, FS_CardinalityType
  <1> QED
    BY <1>2 DEF BindingsLow, NewBindingsLast

\* The rows that stay as they are stay below a higher ceiling.
LEMMA RowsKept ==
    ASSUME Roomy, TablesInv, KeysLow, BindingsLow, Tabled!Edit
    PROVE  /\ DOMAIN keys' \subseteq DOMAIN keys /\ (\A k \in DOMAIN keys' : keys'[k] = keys[k])
              => KeysLow' /\ NewKeysLast
           /\ /\ DOMAIN bindings' \subseteq DOMAIN bindings
              /\ \A b \in DOMAIN bindings' : bindings'[b].priority = bindings[b].priority
              => BindingsLow' /\ NewBindingsLast
  <1>1. \A k \in DOMAIN keys : keys[k].priority \in Int
    BY CatalogAssumed DEF TablesInv, KeysInv, Tabled!Key, Tabled!Int32
  <1>2. \A b \in DOMAIN bindings : bindings[b].priority \in Int
    BY CatalogAssumed DEF TablesInv, BindingsInv, Tabled!Binding, Tabled!Int32
  <1>3. edits \in Nat /\ edits' = edits + 1 /\ Ceiling \in Nat /\ Ceiling' = Ceiling + 10
    BY CeilingRises DEF Tabled!Gap
  <1>4. ASSUME DOMAIN keys' \subseteq DOMAIN keys, \A k \in DOMAIN keys' : keys'[k] = keys[k]
        PROVE  KeysLow' /\ NewKeysLast
    <2>1. \A k \in DOMAIN keys' : keys'[k].priority <= Ceiling'
      BY <1>1, <1>3, <1>4 DEF KeysLow
    <2> QED
      BY <1>3, <1>4, <2>1, NoNewKey
  <1>5. ASSUME DOMAIN bindings' \subseteq DOMAIN bindings,
               \A b \in DOMAIN bindings' : bindings'[b].priority = bindings[b].priority
        PROVE  BindingsLow' /\ NewBindingsLast
    <2>1. \A b \in DOMAIN bindings' : bindings'[b].priority <= Ceiling'
      BY <1>2, <1>3, <1>5 DEF BindingsLow
    <2> QED
      BY <1>3, <1>5, <2>1, NoNewBinding
  <1> QED
    BY <1>4, <1>5

\* A row that is added counts one at most.
LEMMA AddsOne ==
    ASSUME NEW S, NEW T, NEW x, IsFiniteSet(S), T = S \cup {x}, NEW n \in Nat, Cardinality(S) <= n
    PROVE  Cardinality(T) <= n + 1
  <1>1. Cardinality(S) \in Nat
    BY FS_CardinalityType
  <1> QED
    BY <1>1, FS_AddElement

\* Every step leaves the keys below the ceiling, a new one last.
LEMMA KeysPlaced ==
    ASSUME Roomy, TablesInv, KeysLow, BindingsLow, [Tabled!Next]_catalogVars, Tabled!Edit
    PROVE  KeysLow' /\ NewKeysLast
  <1>0. /\ edits \in Nat /\ edits' = edits + 1 /\ Ceiling \in Nat /\ Ceiling' = Ceiling + 10
        /\ \A p \in Priorities \cup {Tabled!DefaultPriority} : p <= Ceiling
        /\ Tabled!Gap * edits <= Ceiling /\ Ceiling' <= MaxInt32 /\ MaxInt32 \in Nat
    BY CeilingRises, CatalogAssumed DEF Tabled!Gap
  <1>t. /\ DOMAIN keys \subseteq Tabled!Ids /\ keys \in [DOMAIN keys -> Tabled!Key]
        /\ \A k \in DOMAIN keys : keys[k].channel \in channels
        /\ IsFiniteSet(DOMAIN keys)
    <2>1. IsFiniteSet(1..MaxRows)
      BY FS_Interval, CatalogAssumed
    <2> QED
      BY <2>1, FS_Subset DEF TablesInv, KeysInv, Tabled!Ids
  <1>i. \A k \in DOMAIN keys : keys[k].priority \in Int
    BY <1>t, CatalogAssumed DEF Tabled!Key, Tabled!Int32
  <1>k. DOMAIN keys' \subseteq DOMAIN keys /\ (\A k \in DOMAIN keys' : keys'[k] = keys[k])
              => KeysLow' /\ NewKeysLast
    BY RowsKept
  <1>u. UNCHANGED keys => KeysLow' /\ NewKeysLast
    BY <1>k
  <1>1. ASSUME NEW c \in channels, NEW a \in ApiKeys, Tabled!CreateKey(c, a)
        PROVE  KeysLow' /\ NewKeysLast
    <2> DEFINE id == Tabled!NextId(DOMAIN keys)
               rows == {keys[k] : k \in Tabled!KeysOf(c)}
               p == Tabled!AfterLast(rows)
               row == [channel |-> c, api_key |-> a, priority |-> p]
    <2>1. keys' = Tabled!With(keys, id, row)
      BY <1>1 DEF Tabled!CreateKey
    <2>2. \A r \in rows : r.priority \in Tabled!Int32 /\ r.priority <= Ceiling
      BY <1>t DEF KeysLow, Tabled!KeysOf, Tabled!Key
    <2>3. p <= Ceiling + 10 /\ \A r \in rows : r.priority < p
      <3> HIDE DEF rows
      <3>1. Ceiling + Tabled!Gap <= MaxInt32
        BY <1>0 DEF Tabled!Gap
      <3> QED
        BY <2>2, <1>0, <3>1, AfterLastIsLast DEF Tabled!Gap
    <2>4. \A k \in DOMAIN keys : keys[k].channel = c => keys[k].priority < p
      BY <2>3 DEF Tabled!KeysOf
    <2>5. row.channel = c /\ row.priority = p
      OBVIOUS
    <2>6. id \notin DOMAIN keys
      BY <1>t, NextIdFree
    <2> HIDE DEF id, row, p, rows
    <2>7. /\ DOMAIN keys' = DOMAIN keys \cup {id} /\ keys'[id] = row
          /\ \A k \in DOMAIN keys : keys'[k] = keys[k]
      BY <2>1, <2>6 DEF Tabled!With
    <2>8. NewKeysLast
      BY <2>4, <2>5, <2>7 DEF NewKeysLast
    <2>9. Cardinality(DOMAIN keys') <= edits'
      BY <2>7, <1>t, <1>0, AddsOne DEF KeysLow
    <2>10. \A k \in DOMAIN keys' : keys'[k].priority <= Ceiling'
      BY <2>3, <2>5, <2>7, <1>0, <1>i DEF KeysLow
    <2> QED
      BY <2>8, <2>9, <2>10 DEF KeysLow
  <1>2. ASSUME NEW c \in Tabled!Ids, NEW k \in DOMAIN keys, NEW a \in ApiKeys,
               NEW p \in Priorities, Tabled!UpdateKey(c, k, a, p)
        PROVE  KeysLow' /\ NewKeysLast
    <2>1. keys' = [keys EXCEPT ![k].api_key = a, ![k].priority = p]
      BY <1>2 DEF Tabled!UpdateKey
    <2>2. /\ DOMAIN keys' = DOMAIN keys /\ keys'[k].priority = p
          /\ \A j \in DOMAIN keys \ {k} : keys'[j] = keys[j]
      BY <2>1, <1>t DEF Tabled!Key
    <2>3. p \in Int /\ p <= Ceiling
      BY <1>0, CatalogAssumed
    <2>4. \A j \in DOMAIN keys' : keys'[j].priority <= Ceiling'
      BY <2>2, <2>3, <1>0, <1>i DEF KeysLow
    <2> QED
      BY <2>2, <2>4, <1>0, NoNewKey
  <1>3. ASSUME NEW c \in channels, NEW pos \in Tabled!Orders(Tabled!KeysOf(c)),
               Tabled!ReorderKeys(c, pos)
        PROVE  KeysLow' /\ NewKeysLast
    <2> DEFINE S == Tabled!KeysOf(c)
    <2>1. keys' = [k \in DOMAIN keys |->
                        IF keys[k].channel = c
                        THEN [keys[k] EXCEPT !.priority = Tabled!Wrapped(Tabled!Gap * pos[k])]
                        ELSE keys[k]]
      BY <1>3 DEF Tabled!ReorderKeys
    <2>2. Cardinality(S) \in Nat /\ Cardinality(S) <= edits
      <3>1. S \subseteq DOMAIN keys
        BY DEF Tabled!KeysOf
      <3> HIDE DEF S
      <3>2. IsFiniteSet(S) /\ Cardinality(S) <= Cardinality(DOMAIN keys)
        BY <3>1, <1>t, FS_Subset
      <3> QED
        BY <3>2, <1>t, <1>0, FS_CardinalityType DEF KeysLow
    <2>3. \A k \in S : pos[k] \in Int /\ 1 <= pos[k] /\ pos[k] <= edits
      <3>1. pos \in [S -> 1..Cardinality(S)]
        BY SameCardinality DEF Tabled!Orders
      <3> HIDE DEF S
      <3> QED BY <3>1, <2>2, <1>0
    <2>4. \A k \in S : Tabled!Wrapped(Tabled!Gap * pos[k]) = Tabled!Gap * pos[k]
                       /\ Tabled!Gap * pos[k] <= Ceiling'
      <3> HIDE DEF S
      <3>1. \A k \in S : Tabled!Gap * pos[k] <= Tabled!Gap * edits /\ Tabled!Gap * pos[k] \in Nat
        BY <2>3, <1>0 DEF Tabled!Gap
      <3>2. \A k \in S : Tabled!Gap * pos[k] <= Ceiling' /\ Tabled!Gap * pos[k] \in Tabled!Int32
        BY <3>1, <1>0 DEF Tabled!Int32, Tabled!Gap
      <3> QED
        BY <3>2, InRange
    <2>5. DOMAIN keys' = DOMAIN keys
      BY <2>1
    <2>6. \A k \in DOMAIN keys : keys[k].channel = c => keys'[k].priority = Tabled!Gap * pos[k]
      BY <2>1, <2>4, <1>t DEF Tabled!KeysOf, Tabled!Key
    <2>7. \A k \in DOMAIN keys : keys[k].channel # c => keys'[k] = keys[k]
      BY <2>1
    <2>8. \A k \in DOMAIN keys' : keys'[k].priority <= Ceiling'
      <3> TAKE k \in DOMAIN keys'
      <3>1. CASE keys[k].channel = c
        BY <3>1, <2>4, <2>5, <2>6 DEF Tabled!KeysOf
      <3>2. CASE keys[k].channel # c
        BY <3>2, <2>5, <2>7, <1>0, <1>i DEF KeysLow
      <3> QED BY <3>1, <3>2
    <2> QED
      BY <2>5, <2>8, <1>0, NoNewKey
  <1>4. ASSUME NEW k \in DOMAIN keys, Tabled!DeleteKey(k) PROVE KeysLow' /\ NewKeysLast
    BY <1>4, <1>k DEF Tabled!DeleteKey, Tabled!Without
  <1>5. ASSUME NEW c \in channels, Tabled!DeleteChannel(c) PROVE KeysLow' /\ NewKeysLast
    BY <1>5, <1>k DEF Tabled!DeleteChannel, Tabled!Without
  <1>6. ASSUME NEW n \in Names, NEW a \in ApiKeys, NEW r \in Raws, Tabled!Import(n, a, r)
        PROVE  KeysLow' /\ NewKeysLast
    <2> DEFINE id == Tabled!NextId(DOMAIN keys)
               row == [channel |-> 1, api_key |-> a, priority |-> Tabled!DefaultPriority]
    <2>1. keys' = Tabled!With(keys, id, row) /\ channels = {}
      BY <1>6 DEF Tabled!Import
    <2>2. DOMAIN keys = {}
      BY <2>1, <1>t
    <2>3. row.priority = Tabled!DefaultPriority
      OBVIOUS
    <2> HIDE DEF id, row
    <2>4. DOMAIN keys' = DOMAIN keys \cup {id} /\ DOMAIN keys' = {id} /\ keys'[id] = row
      BY <2>1, <2>2 DEF Tabled!With
    <2>5. Cardinality(DOMAIN keys') <= edits'
      BY <2>4, <1>t, <1>0, AddsOne DEF KeysLow
    <2>6. Tabled!DefaultPriority <= Ceiling'
      <3>1. Tabled!DefaultPriority \in Int
        BY DEF Tabled!DefaultPriority
      <3>2. Tabled!DefaultPriority <= Ceiling
        BY <1>0
      <3> QED
        BY <3>1, <3>2, <1>0
    <2> QED
      BY <2>3, <2>4, <2>5, <2>6 DEF KeysLow, NewKeysLast
  <1>7. CASE UNCHANGED keys
    BY <1>7, <1>u
  <1>8. Tabled!EditModel \/ Tabled!EditPool \/ Tabled!EditBinding => UNCHANGED keys
    BY DEF Tabled!EditModel, Tabled!CreateModel, Tabled!RenameModel, Tabled!UpdateRoutingStrategy,
           Tabled!DeleteModel, Tabled!EditPool, Tabled!AddDiscoveredModel,
           Tabled!UpdateSmallModelQuota, Tabled!DeleteDiscoveredModel, Tabled!EditBinding,
           Tabled!AddBinding, Tabled!RemoveBinding, Tabled!UpdateWeight, Tabled!UpdatePricing,
           Tabled!ReorderBindings
  <1>9. CASE Tabled!EditKey
    BY <1>9, <1>1, <1>2, <1>3, <1>4 DEF Tabled!EditKey
  <1>10. CASE Tabled!EditChannel
    BY <1>10, <1>5, <1>7 DEF Tabled!EditChannel, Tabled!CreateChannel
  <1>11. ASSUME NEW m \in DOMAIN models, NEW c \in channels, NEW k \in DOMAIN keys,
                Tabled!LogUsage(m, c, k)
         PROVE  UNCHANGED keys
    BY <1>11 DEF Tabled!LogUsage, Tabled!config
  <1> QED
    BY <1>6, <1>7, <1>8, <1>9, <1>10, <1>11 DEF Tabled!Next, catalogVars

\* The same of bindings.
LEMMA BindingsPlaced ==
    ASSUME Roomy, TablesInv, KeysLow, BindingsLow, [Tabled!Next]_catalogVars, Tabled!Edit
    PROVE  BindingsLow' /\ NewBindingsLast
  <1>0. /\ edits \in Nat /\ edits' = edits + 1 /\ Ceiling \in Nat /\ Ceiling' = Ceiling + 10
        /\ Tabled!DefaultPriority <= Ceiling
        /\ Tabled!Gap * edits <= Ceiling /\ Ceiling' <= MaxInt32 /\ MaxInt32 \in Nat
    BY CeilingRises, CatalogAssumed DEF Tabled!Gap
  <1>t. /\ bindings \in [DOMAIN bindings -> Tabled!Binding] /\ IsFiniteSet(DOMAIN bindings)
        /\ \A b \in DOMAIN bindings : b[1] \in DOMAIN models /\ b[2] \in channels
    BY DEF TablesInv, BindingsInv, Tabled!BindingsAreDiscovered
  <1>i. \A b \in DOMAIN bindings : bindings[b].priority \in Int
    BY <1>t, CatalogAssumed DEF Tabled!Binding, Tabled!Int32
  <1>k. /\ DOMAIN bindings' \subseteq DOMAIN bindings
        /\ \A b \in DOMAIN bindings' : bindings'[b].priority = bindings[b].priority
        => BindingsLow' /\ NewBindingsLast
    BY RowsKept
  <1>u. UNCHANGED bindings => BindingsLow' /\ NewBindingsLast
    BY <1>k
  <1>1. ASSUME NEW m \in DOMAIN models, NEW d \in DOMAIN discovered,
               Tabled!AddBinding(m, d[1], d[2])
        PROVE  BindingsLow' /\ NewBindingsLast
    <2> DEFINE b == <<m, d[1], d[2]>>
               rows == {bindings[a] : a \in Tabled!BindingsOf(m)}
               p == Tabled!AfterLast(rows)
               row == Tabled!Bound(b, p)
    <2>1. bindings' = Tabled!With(bindings, b, row)
      BY <1>1 DEF Tabled!AddBinding
    <2>2. \A r \in rows : r.priority \in Tabled!Int32 /\ r.priority <= Ceiling
      BY <1>t DEF BindingsLow, Tabled!BindingsOf, Tabled!Binding
    <2>3. p <= Ceiling + 10 /\ \A r \in rows : r.priority < p
      <3> HIDE DEF rows
      <3>1. Ceiling + Tabled!Gap <= MaxInt32
        BY <1>0 DEF Tabled!Gap
      <3> QED
        BY <2>2, <1>0, <3>1, AfterLastIsLast DEF Tabled!Gap
    <2>4. \A a \in DOMAIN bindings : a[1] = m => bindings[a].priority < p
      BY <2>3 DEF Tabled!BindingsOf
    <2>5. row.priority = p /\ b[1] = m
      BY DEF Tabled!Bound
    <2> HIDE DEF b, row, p, rows
    <2>6. /\ DOMAIN bindings' = DOMAIN bindings \cup {b} /\ bindings'[b] = row
          /\ \A a \in DOMAIN bindings \ {b} : bindings'[a] = bindings[a]
      BY <2>1 DEF Tabled!With
    <2>7. NewBindingsLast
      BY <2>4, <2>5, <2>6 DEF NewBindingsLast
    <2>8. Cardinality(DOMAIN bindings') <= edits'
      BY <2>6, <1>t, <1>0, AddsOne DEF BindingsLow
    <2>9. \A a \in DOMAIN bindings' : bindings'[a].priority <= Ceiling'
      BY <2>3, <2>5, <2>6, <1>0, <1>i DEF BindingsLow
    <2> QED
      BY <2>7, <2>8, <2>9 DEF BindingsLow
  <1>2. ASSUME NEW b \in DOMAIN bindings, Tabled!RemoveBinding(b)
        PROVE  BindingsLow' /\ NewBindingsLast
    BY <1>2, <1>k DEF Tabled!RemoveBinding, Tabled!Without
  <1>3. ASSUME NEW b \in DOMAIN bindings, NEW w \in 0..MaxWeight, Tabled!UpdateWeight(b, w)
        PROVE  BindingsLow' /\ NewBindingsLast
    BY <1>3, <1>k, <1>t DEF Tabled!UpdateWeight, Tabled!Binding
  <1>4. ASSUME NEW b \in DOMAIN bindings, NEW p \in Prices \cup {Tabled!None},
               Tabled!UpdatePricing(b, p)
        PROVE  BindingsLow' /\ NewBindingsLast
    BY <1>4, <1>k, <1>t DEF Tabled!UpdatePricing, Tabled!Binding
  <1>5. ASSUME NEW m \in DOMAIN models, NEW S \in SUBSET Tabled!BindingsOf(m),
               NEW pos \in Tabled!Orders(S), Tabled!ReorderBindings(m, pos)
        PROVE  BindingsLow' /\ NewBindingsLast
    <2>1. bindings' = [b \in DOMAIN bindings |->
                            IF b \in DOMAIN pos \cap Tabled!BindingsOf(m)
                            THEN [bindings[b] EXCEPT
                                     !.priority = Tabled!Wrapped(Tabled!Gap * pos[b])]
                            ELSE bindings[b]]
      BY <1>5 DEF Tabled!ReorderBindings
    <2>2. Cardinality(S) \in Nat /\ Cardinality(S) <= edits
      <3>1. S \subseteq DOMAIN bindings
        BY DEF Tabled!BindingsOf
      <3>2. IsFiniteSet(S) /\ Cardinality(S) <= Cardinality(DOMAIN bindings)
        BY <3>1, <1>t, FS_Subset
      <3> QED
        BY <3>2, <1>t, <1>0, FS_CardinalityType DEF BindingsLow
    <2>3. DOMAIN pos = S /\ \A b \in S : pos[b] \in Int /\ 1 <= pos[b] /\ pos[b] <= edits
      <3>1. pos \in [S -> 1..Cardinality(S)]
        BY SameCardinality DEF Tabled!Orders
      <3> QED BY <3>1, <2>2, <1>0
    <2>4. \A b \in S : Tabled!Wrapped(Tabled!Gap * pos[b]) = Tabled!Gap * pos[b]
                       /\ Tabled!Gap * pos[b] <= Ceiling'
      <3>1. \A b \in S : Tabled!Gap * pos[b] <= Tabled!Gap * edits /\ Tabled!Gap * pos[b] \in Nat
        BY <2>3, <1>0 DEF Tabled!Gap
      <3>2. \A b \in S : Tabled!Gap * pos[b] <= Ceiling' /\ Tabled!Gap * pos[b] \in Tabled!Int32
        BY <3>1, <1>0 DEF Tabled!Int32, Tabled!Gap
      <3> QED
        BY <3>2, InRange
    <2>5. DOMAIN bindings' = DOMAIN bindings
      BY <2>1
    <2>6. \A b \in S : b \in DOMAIN bindings => bindings'[b].priority = Tabled!Gap * pos[b]
      BY <2>1, <2>3, <2>4, <1>t DEF Tabled!Binding
    <2>7. \A b \in DOMAIN bindings \ S : bindings'[b] = bindings[b]
      BY <2>1, <2>3
    <2>8. \A b \in DOMAIN bindings' : bindings'[b].priority <= Ceiling'
      <3> TAKE b \in DOMAIN bindings'
      <3>1. CASE b \in S
        BY <3>1, <2>4, <2>5, <2>6
      <3>2. CASE b \notin S
        BY <3>2, <2>5, <2>7, <1>0, <1>i DEF BindingsLow
      <3> QED BY <3>1, <3>2
    <2> QED
      BY <2>5, <2>8, <1>0, NoNewBinding
  <1>6. ASSUME NEW n \in Names, NEW a \in ApiKeys, NEW r \in Raws, Tabled!Import(n, a, r)
        PROVE  BindingsLow' /\ NewBindingsLast
    <2> DEFINE b == <<Tabled!NextId(DOMAIN models), 1, r>>
               row == Tabled!Bound(b, Tabled!DefaultPriority)
    <2>1. bindings' = Tabled!With(bindings, b, row) /\ channels = {}
      BY <1>6 DEF Tabled!Import
    <2>2. DOMAIN bindings = {}
      BY <2>1, <1>t
    <2>3. row.priority = Tabled!DefaultPriority
      BY DEF Tabled!Bound
    <2> HIDE DEF b, row
    <2>4. /\ DOMAIN bindings' = DOMAIN bindings \cup {b} /\ DOMAIN bindings' = {b}
          /\ bindings'[b] = row
      BY <2>1, <2>2 DEF Tabled!With
    <2>5. Cardinality(DOMAIN bindings') <= edits'
      BY <2>4, <1>t, <1>0, AddsOne DEF BindingsLow
    <2>6. Tabled!DefaultPriority <= Ceiling'
      <3>1. Tabled!DefaultPriority \in Int
        BY DEF Tabled!DefaultPriority
      <3> QED
        BY <3>1, <1>0
    <2> QED
      BY <2>3, <2>4, <2>5, <2>6 DEF BindingsLow, NewBindingsLast
  <1>7. CASE UNCHANGED bindings
    BY <1>7, <1>u
  <1>8. Tabled!EditKey \/ Tabled!EditPool => UNCHANGED bindings
    BY DEF Tabled!EditKey, Tabled!CreateKey, Tabled!UpdateKey, Tabled!ReorderKeys,
           Tabled!DeleteKey, Tabled!EditPool, Tabled!AddDiscoveredModel,
           Tabled!UpdateSmallModelQuota, Tabled!DeleteDiscoveredModel
  <1>9. CASE Tabled!EditBinding
    BY <1>9, <1>1, <1>2, <1>3, <1>4, <1>5 DEF Tabled!EditBinding
  <1>10. ASSUME NEW c \in channels, Tabled!DeleteChannel(c)
         PROVE  BindingsLow' /\ NewBindingsLast
    BY <1>10, <1>k DEF Tabled!DeleteChannel, Tabled!Without
  <1>11. CASE Tabled!EditChannel
    BY <1>11, <1>10, <1>7 DEF Tabled!EditChannel, Tabled!CreateChannel
  <1>12. ASSUME NEW m \in DOMAIN models, Tabled!DeleteModel(m)
         PROVE  BindingsLow' /\ NewBindingsLast
    BY <1>12, <1>k DEF Tabled!DeleteModel, Tabled!Without
  <1>13. CASE Tabled!EditModel
    BY <1>13, <1>12, <1>7 DEF Tabled!EditModel, Tabled!CreateModel, Tabled!RenameModel,
           Tabled!UpdateRoutingStrategy
  <1>14. ASSUME NEW m \in DOMAIN models, NEW c \in channels, NEW k \in DOMAIN keys,
                Tabled!LogUsage(m, c, k)
         PROVE  UNCHANGED bindings
    BY <1>14 DEF Tabled!LogUsage, Tabled!config
  <1> QED
    BY <1>6, <1>7, <1>8, <1>9, <1>11, <1>13, <1>14 DEF Tabled!Next, catalogVars

\* Every step of the tables counts as an edit.
LEMMA EveryStepEdits == Tabled!Next => Tabled!Edit
  BY DEF Tabled!Next, Tabled!EditModel, Tabled!EditChannel, Tabled!EditKey, Tabled!EditPool,
         Tabled!EditBinding, Tabled!Import, Tabled!LogUsage,
         Tabled!CreateModel, Tabled!RenameModel, Tabled!UpdateRoutingStrategy, Tabled!DeleteModel,
         Tabled!CreateChannel, Tabled!DeleteChannel, Tabled!CreateKey, Tabled!UpdateKey,
         Tabled!ReorderKeys, Tabled!DeleteKey, Tabled!AddDiscoveredModel,
         Tabled!UpdateSmallModelQuota, Tabled!DeleteDiscoveredModel, Tabled!AddBinding,
         Tabled!RemoveBinding, Tabled!UpdateWeight, Tabled!UpdatePricing, Tabled!ReorderBindings

\* The inductive invariant, with the ceiling.
LowInv == TablesInv /\ KeysLow /\ BindingsLow

\* Every step keeps it and puts what is new last.
LEMMA NextLow ==
   ASSUME Roomy, LowInv, [Tabled!Next]_catalogVars
   PROVE  LowInv' /\ NewKeysLast /\ NewBindingsLast
  <1>1. CASE Tabled!Next
    BY <1>1, EveryStepEdits, NextTables, KeysPlaced, BindingsPlaced DEF LowInv
  <1>2. CASE UNCHANGED catalogVars
    <2>1. TablesInv'
      BY <1>2, NextTables DEF LowInv
    <2> QED
      BY <1>2, <2>1 DEF catalogVars, LowInv, KeysLow, BindingsLow, NewKeysLast,
                           NewBindingsLast, Ceiling
  <1> QED
    BY <1>1, <1>2

\* It holds of empty tables.
LEMMA InitLow == ASSUME Roomy, Tabled!Init PROVE LowInv
  <1>1. TablesInv
    BY InitTables
  <1>2. DOMAIN keys = {} /\ DOMAIN bindings = {} /\ edits = 0
    BY DEF Tabled!Init, Tabled!Empty
  <1>3. Cardinality({}) = 0
    BY FS_EmptySet
  <1> QED
    BY <1>1, <1>2, <1>3 DEF LowInv, KeysLow, BindingsLow

\* What is added writes over no quota and no price.
LEMMA AddingKeeps ==
    ASSUME TablesInv, [Tabled!Next]_catalogVars,
           \/ \E c \in Tabled!Ids, r \in Raws : Tabled!AddDiscoveredModel(c, r)
           \/ \E m, c \in Tabled!Ids, r \in Raws : Tabled!AddBinding(m, c, r)
           \/ \E n \in Names, a \in ApiKeys, r \in Raws : Tabled!Import(n, a, r)
    PROVE  /\ \A d \in DOMAIN discovered :
                 d \in DOMAIN discovered' /\ discovered'[d] = discovered[d]
           /\ \A b \in DOMAIN bindings :
                 b \in DOMAIN bindings' /\ bindings'[b].price = bindings[b].price
  <1>1. ASSUME NEW b, NEW p, bindings' = Tabled!With(bindings, b, Tabled!Bound(b, p))
        PROVE  \A a \in DOMAIN bindings :
                 a \in DOMAIN bindings' /\ bindings'[a].price = bindings[a].price
    BY <1>1 DEF Tabled!With, Tabled!Bound
  <1>2. ASSUME NEW c, NEW r, discovered' = Tabled!Upsert(discovered, c, r)
        PROVE  \A d \in DOMAIN discovered :
                 d \in DOMAIN discovered' /\ discovered'[d] = discovered[d]
    BY <1>2 DEF Tabled!Upsert, Tabled!With
  <1>3. ASSUME NEW c \in Tabled!Ids, NEW r \in Raws, Tabled!AddDiscoveredModel(c, r)
        PROVE  discovered' = Tabled!Upsert(discovered, c, r) /\ UNCHANGED bindings
    BY <1>3 DEF Tabled!AddDiscoveredModel
  <1>4. ASSUME NEW m \in Tabled!Ids, NEW c \in Tabled!Ids, NEW r \in Raws,
               Tabled!AddBinding(m, c, r)
        PROVE  /\ UNCHANGED discovered
               /\ \E b, p : bindings' = Tabled!With(bindings, b, Tabled!Bound(b, p))
    BY <1>4 DEF Tabled!AddBinding
  <1>5. ASSUME NEW n \in Names, NEW a \in ApiKeys, NEW r \in Raws, Tabled!Import(n, a, r)
        PROVE  /\ discovered' = Tabled!Upsert(discovered, 1, r)
               /\ \E b, p : bindings' = Tabled!With(bindings, b, Tabled!Bound(b, p))
    BY <1>5 DEF Tabled!Import
  <1> QED
    BY <1>1, <1>2, <1>3, <1>4, <1>5

-----------------------------------------------------------------------------
(* The theorems *)

\* The inductive invariants of the three parts.
AdminInv == PanelInv /\ FileInv /\ TablesInv

\* A step of the whole is a step or a stutter of every part.
LEMMA StepsOfParts ==
    [MCNext]_allVars => /\ [Next]_vars
                        /\ [Start!Next]_startVars
                        /\ [Tabled!Next]_catalogVars
  BY DEF MCNext, FollowStart, FollowSessions, FollowCatalog, allVars

\* They hold at the start ...
LEMMA InitAdmin == MCInit => AdminInv
  BY InitPanel, InitFile, InitTables DEF MCInit, AdminInv

\* ... and every step keeps them.
LEMMA NextAdmin == AdminInv /\ [MCNext]_allVars => AdminInv'
  <1>1. PanelInv /\ [Next]_vars => PanelInv'
    BY NextAccounts, NextSessions DEF PanelInv
  <1> QED
    BY <1>1, StepsOfParts, NextFile, NextTables DEF AdminInv

\* Wherever starts were killed, a server that serves has all tables, its own version
\* and the whole file or none of it, a foreign file is left alone, a marked one is
\* accepted, and no start and no wizard makes a second first account.
THEOREM StartsAreWhole == MCSpec => []StartsWhole
  <1>1. AdminInv => StartsWhole
    BY FileIsWhole DEF AdminInv, StartsWhole, PanelInv, AccountsInv, SetupOnce
  <1> QED
    BY InitAdmin, NextAdmin, <1>1, PTL DEF MCSpec

\* No handler, no cascade and no import leaves a reference to a row that is gone, and
\* no channel has a secret twice while keys are edited under their own channel's path.
THEOREM TablesAreHeld == MCSpec => []TablesHold
  <1>1. AdminInv => TablesHold
    BY PanelTypes, TablesAre DEF AdminInv, TablesHold
  <1> QED
    BY InitAdmin, NextAdmin, <1>1, PTL DEF MCSpec

\* A session that was logged out of admits no request that looks it up later.
THEOREM LoggedOutIsOut == MCSpec => LoggedOutStaysOut
  <1>1. AdminInv /\ [MCNext]_allVars =>
          [\A h \in Handlers : At(h, "idle") /\ pc'[h] = "found" => cookie'[h] \notin ended]_vars
    BY StepsOfParts, OnlyLiveSessionsAdmit DEF AdminInv, At
  <1> QED
    BY InitAdmin, NextAdmin, <1>1, PTL DEF MCSpec, LoggedOutStaysOut

\* An account changes only by its own request, by one that was admitted as an
\* administrator's, or by the wizard or a start when there is none; its own request
\* gave the old password, unless the account was renamed meanwhile.
THEOREM AccountsStayGuarded == MCSpec => AccountsAreGuarded
  <1>1. AdminInv /\ [MCNext]_allVars =>
          [\A h \in Handlers, old, new \in Passwords :
              ChangeMyPassword(h, old, new) /\ caller[h].id \in DOMAIN users
                  => LET u == users[caller[h].id]
                     IN  u.password = old \/ u.name # caller[h].name]_vars
    BY OldPasswordIsOfTheName DEF AdminInv
  <1>2. AdminInv /\ [MCNext]_allVars =>
          [\A i \in Users :
              i \in DOMAIN users \cap DOMAIN users' /\ users'[i] # users[i]
                  => \E h \in Handlers :
                        /\ At(h, "authed") /\ pc'[h] = "idle"
                        /\ caller[h].role = "admin" \/ caller[h].id = i]_vars
    BY StepsOfParts, ChangedByWhom DEF AdminInv
  <1> QED
    BY InitAdmin, NextAdmin, <1>1, <1>2, PTL
       DEF MCSpec, AccountsAreGuarded, VerifiedUnlessRenamed, OthersByAdminsOnly

\* What is discovered, bound or imported again resets no quota and makes nothing free,
\* and what is new goes behind all others of its channel or model, as long as the
\* priorities the admins give leave room for a gap per edit below the end of i32.
THEOREM AddingIsHarmless == ASSUME Roomy PROVE MCSpec => AddingDisturbsNothing
  <1> DEFINE All == AdminInv /\ LowInv
  <1>1. MCInit => All
    BY InitAdmin, InitLow DEF MCInit
  <1>2. All /\ [MCNext]_allVars => All' /\ NewKeysLast /\ NewBindingsLast
    BY NextAdmin, StepsOfParts, NextLow
  <1>3. All /\ [MCNext]_allVars =>
          [(\/ \E c \in Tabled!Ids, r \in Raws : Tabled!AddDiscoveredModel(c, r)
            \/ \E m, c \in Tabled!Ids, r \in Raws : Tabled!AddBinding(m, c, r)
            \/ \E n \in Names, a \in ApiKeys, r \in Raws : Tabled!Import(n, a, r))
           => /\ \A d \in DOMAIN discovered :
                   d \in DOMAIN discovered' /\ discovered'[d] = discovered[d]
              /\ \A b \in DOMAIN bindings :
                   b \in DOMAIN bindings' /\ bindings'[b].price = bindings[b].price]_(Tabled!vars)
    BY StepsOfParts, AddingKeeps DEF AdminInv
  <1>4. All /\ [MCNext]_allVars =>
          [/\ \A k \in DOMAIN keys' \ DOMAIN keys :
                \A j \in DOMAIN keys' \ {k} :
                    keys'[j].channel = keys'[k].channel => keys'[j].priority < keys'[k].priority
           /\ \A b \in DOMAIN bindings' \ DOMAIN bindings :
                \A a \in DOMAIN bindings' \ {b} :
                    a[1] = b[1] => bindings'[a].priority < bindings'[b].priority]_(Tabled!vars)
    BY <1>2 DEF NewKeysLast, NewBindingsLast
  <1> QED
    BY <1>1, <1>2, <1>3, <1>4, PTL
       DEF MCSpec, AddingDisturbsNothing, Tabled!AddingKeepsTheRest, Tabled!NewestIsLast
=============================================================================
