---------------------------- MODULE AdminSessions ----------------------------
(***************************************************************************)
(* The sessions of the admin panel (crates/server/src/admin/auth.rs), the  *)
(* handlers they admit to the accounts (handlers.rs), and the two ways the *)
(* first account comes to be (setup.rs, config.rs).                        *)
(*                                                                         *)
(* Logging in reads the account under the database's lock and stores the   *)
(* session after releasing it. A request looks its cookie up, sweeps       *)
(* expired sessions, loads the account and then runs its handler: four     *)
(* locks, and whatever other requests do in between. The handler works     *)
(* with the copy of the account that the middleware loaded.                *)
(*                                                                         *)
(* Cookies and bcrypt are abstracted: a session is the number of the login *)
(* that made it, and a client may send any that was ever given out.        *)
(***************************************************************************)
EXTENDS Integers, FiniteSets

CONSTANTS
    Handlers,       \* requests in flight
    MaxUsers,       \* bound on the ids of accounts
    UserNames, Passwords,
    AdminName,      \* "admin", of the account made from the environment
    AdminPassword,  \* CHENNIX_ADMIN_PASSWORD, or NoPassword
    NoPassword,
    MaxAge,         \* SESSION_MAX_AGE_SECS
    SweepMax,       \* sessions one request sweeps at most
    MaxNow, MaxLogins, MaxWrites  \* bounds

ASSUME SessionsAssumption ==
    /\ MaxUsers \in Nat \ {0} /\ MaxAge \in Nat /\ SweepMax \in Nat \ {0}
    /\ MaxNow \in Nat /\ MaxLogins \in Nat /\ MaxWrites \in Nat
    /\ AdminName \in UserNames /\ AdminPassword \in Passwords \cup {NoPassword}
    /\ NoPassword \notin Passwords

Roles == {"user", "admin"}
Statuses == {"enabled", "disabled"}
Users == 1..MaxUsers
Account == [name : UserNames, password : Passwords, role : Roles, status : Statuses]
Nobody == [id |-> 0, name |-> AdminName, role |-> "user"]
Caller == [id : Users \cup {0}, name : UserNames, role : Roles]
Steps == {"idle", "verified", "found", "missed", "load", "authed"}

VARIABLES
    users,      \* id -> account
    sessions,   \* SessionStore: login -> account's id, time
    now,
    pc, cookie, uid,    \* of a request: its step, its session, the session's account
    caller,     \* AdminAuthContext: the account as it was loaded
    logins,     \* sessions given out so far
    writes,
    \* history, read by no action
    ended,      \* sessions that were logged out of
    founders    \* first accounts made since there was none

store == <<sessions, logins, ended>>
requests == <<pc, cookie, uid, caller>>
accounts == <<users, founders, writes>>
vars == <<accounts, store, now, requests>>

TypeOK ==
    /\ DOMAIN users \subseteq Users /\ users \in [DOMAIN users -> Account]
    /\ DOMAIN sessions \subseteq 1..logins
    /\ sessions \in [DOMAIN sessions -> [user : Users, at : 0..now]]
    /\ now \in 0..MaxNow /\ logins \in 0..MaxLogins /\ writes \in 0..MaxWrites
    /\ pc \in [Handlers -> Steps]
    /\ cookie \in [Handlers -> 0..logins]
    /\ uid \in [Handlers -> Users \cup {0}]
    /\ caller \in [Handlers -> Caller]
    /\ ended \subseteq 1..logins
    /\ founders \in Nat

With(t, id, row) == [i \in DOMAIN t \cup {id} |-> IF i = id THEN row ELSE t[i]]
Without(t, S) == [i \in DOMAIN t \ S |-> t[i]]

\* The highest id there is, and one.
NextId == CHOOSE i \in 1..(MaxUsers + 1) :
    /\ \A j \in DOMAIN users : j < i
    /\ i = 1 \/ i - 1 \in DOMAIN users

Named(n) == {i \in DOMAIN users : users[i].name = n}
Alive(s) == s \in DOMAIN sessions /\ now - sessions[s].at <= MaxAge
Expired(t) == {s \in DOMAIN t : now - t[s].at > MaxAge}

\* What may remain of the sessions when a request has swept: some of the expired
\* ones are gone, all of them if they are few.
Swept(t) ==
    {Without(t, S) : S \in {S \in SUBSET Expired(t) :
        Cardinality(S) = SweepMax \/ (S = Expired(t) /\ Cardinality(S) < SweepMax)}}

At(h, step) == pc[h] = step
Goes(h, step) == pc' = [pc EXCEPT ![h] = step]
\* A request that has its answer forgets what it worked with.
Answers(h) ==
    /\ Goes(h, "idle")
    /\ cookie' = [cookie EXCEPT ![h] = 0]
    /\ uid' = [uid EXCEPT ![h] = 0]
    /\ caller' = [caller EXCEPT ![h] = Nobody]
----------------------------------------------------------------------------
(* Logging in.                                                             *)

Login(h, n, p) ==
    /\ At(h, "idle") /\ logins < MaxLogins
    /\ \E i \in Named(n) :
         /\ users[i].status = "enabled" /\ users[i].password = p
         /\ uid' = [uid EXCEPT ![h] = i]
    /\ Goes(h, "verified")
    /\ UNCHANGED <<accounts, store, now, cookie, caller>>

StoreSession(h) ==
    /\ At(h, "verified") /\ logins < MaxLogins
    /\ logins' = logins + 1
    /\ sessions' = With(sessions, logins', [user |-> uid[h], at |-> now])
    /\ Answers(h)
    /\ UNCHANGED <<accounts, now, ended>>
----------------------------------------------------------------------------
(* The session middleware.                                                 *)

LookUp(h, s) ==
    /\ At(h, "idle")
    /\ cookie' = [cookie EXCEPT ![h] = s]
    /\ IF Alive(s)
       THEN uid' = [uid EXCEPT ![h] = sessions[s].user] /\ Goes(h, "found")
       ELSE uid' = uid /\ Goes(h, "missed")
    /\ UNCHANGED <<accounts, store, now, caller>>

Sweep(h) ==
    /\ At(h, "found")
    /\ sessions' \in Swept(sessions)
    /\ Goes(h, "load")
    /\ UNCHANGED <<accounts, logins, ended, now, cookie, uid, caller>>

\* 401, after its own session and other expired ones are gone.
Reject(h) ==
    /\ At(h, "missed")
    /\ sessions' \in Swept(Without(sessions, {cookie[h]}))
    /\ Answers(h)
    /\ UNCHANGED <<accounts, logins, ended, now>>

LoadUser(h) ==
    /\ At(h, "load")
    /\ uid[h] \in DOMAIN users /\ users[uid[h]].status = "enabled"
    /\ LET u == users[uid[h]] IN
         caller' = [caller EXCEPT ![h] = [id |-> uid[h], name |-> u.name, role |-> u.role]]
    /\ Goes(h, "authed")
    /\ UNCHANGED <<accounts, store, now, cookie, uid>>

\* 401: the account is disabled or gone.
RefuseUser(h) ==
    /\ At(h, "load")
    /\ uid[h] \in DOMAIN users => users[uid[h]].status = "disabled"
    /\ Answers(h)
    /\ UNCHANGED <<accounts, store, now>>
----------------------------------------------------------------------------
(* The handlers it admits to.                                              *)

\* Mutant: the cookie of the client is cleared, the session stays.
LogoutOfClient(h) ==
    /\ At(h, "authed")
    /\ ended' = ended \cup {cookie[h]}
    /\ Answers(h)
    /\ UNCHANGED <<accounts, sessions, logins, now>>
Logout(h) ==
    /\ At(h, "authed")
    /\ sessions' = Without(sessions, {cookie[h]})
    /\ ended' = ended \cup {cookie[h]}
    /\ Answers(h)
    /\ UNCHANGED <<accounts, logins, now>>

Write == writes < MaxWrites /\ writes' = writes + 1

\* The old password is compared with the account of the caller's name, the new
\* one is written to the account of the caller's id.
\* Mutant: that there is such an account is enough.
ChangeMyPasswordUnverified(h, old, new) ==
    /\ At(h, "authed") /\ Write
    /\ Named(caller[h].name) # {}
    /\ users' = [i \in DOMAIN users |->
                    IF i = caller[h].id THEN [users[i] EXCEPT !.password = new] ELSE users[i]]
    /\ Answers(h)
    /\ UNCHANGED <<founders, store, now>>
ChangeMyPassword(h, old, new) ==
    /\ At(h, "authed") /\ Write
    /\ \E i \in Named(caller[h].name) : users[i].password = old
    /\ users' = [i \in DOMAIN users |->
                    IF i = caller[h].id THEN [users[i] EXCEPT !.password = new] ELSE users[i]]
    /\ Answers(h)
    /\ UNCHANGED <<founders, store, now>>

\* require_role(10), on the copy.
Administers(h) == At(h, "authed") /\ Write /\ caller[h].role = "admin"

CreateUser(h, n, p, r) ==
    /\ Administers(h) /\ Named(n) = {} /\ NextId \in Users
    /\ users' = With(users, NextId,
                     [name |-> n, password |-> p, role |-> r, status |-> "enabled"])
    /\ Answers(h)
    /\ UNCHANGED <<founders, store, now>>

UpdateUser(h, i, n, r, s) ==
    /\ Administers(h) /\ i \in DOMAIN users /\ Named(n) \subseteq {i}
    /\ users' = [users EXCEPT ![i].name = n, ![i].role = r, ![i].status = s]
    /\ Answers(h)
    /\ UNCHANGED <<founders, store, now>>

UpdatePassword(h, i, p) ==
    /\ Administers(h) /\ i \in DOMAIN users
    /\ users' = [users EXCEPT ![i].password = p]
    /\ Answers(h)
    /\ UNCHANGED <<founders, store, now>>

\* An account without usage rows: those would refuse.
DeleteUser(h, i) ==
    /\ Administers(h) /\ i \in DOMAIN users
    /\ users' = Without(users, {i})
    /\ founders' = IF users' = <<>> THEN 0 ELSE founders
    /\ Answers(h)
    /\ UNCHANGED <<store, now>>

\* Any other handler, and one that refuses: the accounts stay as they are.
Read(h) ==
    /\ At(h, "authed")
    /\ Answers(h)
    /\ UNCHANGED <<accounts, store, now>>
----------------------------------------------------------------------------
(* The first account, and time.                                            *)

\* The account both of them make.
Found(n, p) ==
    /\ users' = With(users, NextId,
                     [name |-> n, password |-> p, role |-> "admin", status |-> "enabled"])
    /\ founders' = founders + 1

\* The wizard counts the accounts and makes the first under one lock.
SetupInitialize(n, p) ==
    /\ Write /\ DOMAIN users = {}
    /\ Found(n, p)
    /\ UNCHANGED <<store, now, requests>>

EnsureDefaultAdmin ==
    IF DOMAIN users = {} /\ AdminPassword # NoPassword
    THEN Found(AdminName, AdminPassword) ELSE UNCHANGED <<users, founders>>

\* The sessions are in memory, and what was in flight is dropped.
Restart ==
    /\ Write
    /\ EnsureDefaultAdmin
    /\ sessions' = <<>>
    /\ pc' = [h \in Handlers |-> "idle"]
    /\ cookie' = [h \in Handlers |-> 0]
    /\ uid' = [h \in Handlers |-> 0]
    /\ caller' = [h \in Handlers |-> Nobody]
    /\ UNCHANGED <<logins, ended, now>>

Tick ==
    /\ now < MaxNow
    /\ now' = now + 1
    /\ UNCHANGED <<accounts, store, requests>>
----------------------------------------------------------------------------
Init ==
    /\ users = <<>> /\ sessions = <<>>
    /\ now = 0 /\ logins = 0 /\ writes = 0
    /\ pc = [h \in Handlers |-> "idle"]
    /\ cookie = [h \in Handlers |-> 0]
    /\ uid = [h \in Handlers |-> 0]
    /\ caller = [h \in Handlers |-> Nobody]
    /\ ended = {} /\ founders = 0

Middleware(h) == Sweep(h) \/ Reject(h) \/ LoadUser(h) \/ RefuseUser(h)

Handler(h) ==
    \/ Logout(h) \/ Read(h)
    \/ \E old, new \in Passwords : ChangeMyPassword(h, old, new)
    \/ \E n \in UserNames, p \in Passwords, r \in Roles : CreateUser(h, n, p, r)
    \/ \E i \in Users, n \in UserNames, r \in Roles, s \in Statuses : UpdateUser(h, i, n, r, s)
    \/ \E i \in Users, p \in Passwords : UpdatePassword(h, i, p)
    \/ \E i \in Users : DeleteUser(h, i)

Next ==
    \/ \E h \in Handlers, n \in UserNames, p \in Passwords : Login(h, n, p)
    \/ \E h \in Handlers : StoreSession(h)
    \/ \E h \in Handlers, s \in 0..logins : LookUp(h, s)
    \/ \E h \in Handlers : Middleware(h) \/ Handler(h)
    \/ \E n \in UserNames, p \in Passwords : SetupInitialize(n, p)
    \/ Restart \/ Tick

Spec == Init /\ [][Next]_vars

----------------------------------------------------------------------------
(* Properties.                                                             *)

\* The first account is made once: neither two clients of the wizard, nor the
\* wizard and a start with a password in the environment, make one each.
SetupOnce == founders <= 1

\* A session that was logged out of admits no request that looks it up later, also
\* when others sweep or log in meanwhile.
LoggedOutStaysOut ==
    [][\A h \in Handlers : At(h, "idle") /\ pc'[h] = "found" => cookie'[h] \notin ended]_vars

\* A change of one's own password happens only to an account whose password was
\* given, whatever happened to it since the request was admitted, unless it was
\* renamed meanwhile.
VerifiedUnlessRenamed ==
    [][\A h \in Handlers, old, new \in Passwords :
          ChangeMyPassword(h, old, new) /\ caller[h].id \in DOMAIN users
              => LET u == users[caller[h].id] IN u.password = old \/ u.name # caller[h].name]_vars

\* An account changes only by its own request, by a request that was admitted as
\* an administrator's, or, when there is none, by the wizard or a start.
OthersByAdminsOnly ==
    [][\A i \in Users :
          i \in DOMAIN users \cap DOMAIN users' /\ users'[i] # users[i]
              => \E h \in Handlers :
                    /\ At(h, "authed") /\ pc'[h] = "idle"
                    /\ caller[h].role = "admin" \/ caller[h].id = i]_vars

(* What the sources say and the code does not keep.                        *)

\* The old password is verified before the new one is accepted.
OldPasswordIsVerified ==
    [][\A h \in Handlers, old, new \in Passwords :
          ChangeMyPassword(h, old, new) /\ caller[h].id \in DOMAIN users
              => users[caller[h].id].password = old]_vars
=============================================================================
