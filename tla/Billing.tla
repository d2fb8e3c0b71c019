------------------------------ MODULE Billing ------------------------------
(***************************************************************************)
(* The dual-layer billing of the gateway: a request is authenticated, an   *)
(* estimate is pre-charged against the user's account and the token's      *)
(* budget, and the session that holds it is later settled against the real *)
(* cost or refunded.                                                       *)
(*                                                                         *)
(* One action is one stretch of code that runs under the database mutex    *)
(* (StorageAdapter, crates/server/src/pipeline.rs): the pre-charge,        *)
(* settlement and refund transactions are atomic, but the reads around     *)
(* them -- the token's unlimited flag before the pre-charge, its remaining *)
(* quota after the settlement -- and the write of its status each take the *)
(* mutex anew, so that other requests and the admin panel run in between.  *)
(***************************************************************************)
EXTENDS Integers, FiniteSets, Functions

CONSTANTS
    Users,          \* ids of rows of the table users
    Tokens,         \* ids of rows of the table tokens, 1 .. some bound
    Requests,       \* proxied requests; each lives once
    Estimates,      \* values estimate_cost may return
    Costs,          \* values actual_cost may return
    Budgets,        \* values an admin may write into quota and remain_quota
    MaxAdminWrites  \* bound on the admin panel's writes

ASSUME BillingAssumption ==
    /\ Users # {}
    /\ Tokens \subseteq Nat \ {0} /\ Tokens # {} /\ IsFiniteSet(Tokens)
    /\ Estimates \subseteq Nat
    /\ Costs \subseteq Nat
    /\ Budgets \subseteq Int
    /\ MaxAdminWrites \in Nat

VARIABLES
    \* the database
    userRows,    \* ids present in users
    users,       \* their quota, used_quota and status
    tokenRows,   \* ids present in tokens
    tokens,      \* their owner, remain_quota, used_quota, unlimited_quota, status
    usageLogs,   \* ids of tokens some row of usage_logs references
    \* the requests: their step and their BillingSession
    pc,          \* where the request is
    uid,         \* session.user_id, from the AuthContext
    tid,         \* session.token_id, from the AuthContext
    unlim,       \* session.token_unlimited
    pre,         \* session.pre_charged
    cost,        \* the actual cost settle was called with
    \* history, read by no action
    appliedUser, \* what the request's transactions have added to used_quota of its user
    appliedToken,\* and to used_quota of its token's row
    orphans,     \* requests whose token row was deleted under them
    tests,       \* per user, cost of the admin panel's own test calls
    adminWrites  \* how many admin writes have happened

dbVars == <<userRows, users, tokenRows, tokens, usageLogs>>
sessionVars == <<pc, uid, tid, unlim, pre, cost>>
historyVars == <<appliedUser, appliedToken, orphans, tests, adminWrites>>
vars == <<dbVars, sessionVars, historyVars>>

-----------------------------------------------------------------------------
(* Types *)

Status == {"enabled", "disabled", "exhausted"}    \* 1, 2 and 3 in the code

UserRow == [quota: Int, used: Int, enabled: BOOLEAN]
TokenRow == [user: Users, remain: Int, used: Int, unlimited: BOOLEAN, status: Status]

\* "held" is an open session; "leaked" one whose owner vanished while it was
\* open; "cut" one whose settlement was committed but not finished.
Steps == {"idle", "authed", "precharging", "rejected", "held", "reading", "marking",
          "settled", "logged", "refunded", "leaked", "cut"}

TypeOK ==
    /\ userRows \subseteq Users
    /\ users \in [Users -> UserRow]
    /\ tokenRows \subseteq Tokens
    /\ tokens \in [Tokens -> TokenRow]
    /\ usageLogs \subseteq Users \X Tokens
    /\ pc \in [Requests -> Steps]
    /\ uid \in [Requests -> Users]
    /\ tid \in [Requests -> Tokens]
    /\ unlim \in [Requests -> BOOLEAN]
    /\ pre \in [Requests -> Nat]
    /\ cost \in [Requests -> Nat]
    /\ appliedUser \in [Requests -> Int]
    /\ appliedToken \in [Requests -> Int]
    /\ orphans \subseteq Requests
    /\ tests \in [Users -> Nat]
    /\ adminWrites \in Nat

-----------------------------------------------------------------------------
(* The three transactions share one shape: a signed amount is added to the *)
(* user's used_quota and, unless the session recorded an unlimited token,  *)
(* moved from the token's remain_quota to its used_quota. An UPDATE of a   *)
(* row that is gone changes nothing.                                       *)

Charge(r, amount) ==
    LET u == uid[r]
        t == tid[r]
        hitsToken == ~unlim[r] /\ t \in tokenRows
    IN /\ users' = IF u \in userRows
                   THEN [users EXCEPT ![u].used = @ + amount]
                   ELSE users
       /\ tokens' = IF hitsToken
                    THEN [tokens EXCEPT ![t].remain = @ - amount, ![t].used = @ + amount]
                    ELSE tokens
       /\ appliedUser' = IF u \in userRows
                         THEN [appliedUser EXCEPT ![r] = @ + amount]
                         ELSE appliedUser
       /\ appliedToken' = IF hitsToken
                          THEN [appliedToken EXCEPT ![r] = @ + amount]
                          ELSE appliedToken
       /\ UNCHANGED <<userRows, tokenRows, usageLogs, orphans, tests, adminWrites>>

\* Mutant: the UPDATE of users has lost its condition.
UserCanPayAnything(u, amount) == u \in userRows

\* The conditional UPDATEs of pre_charge_atomic.
UserCanPay(u, amount) == u \in userRows /\ users[u].quota - users[u].used >= amount
TokenCanPay(t, amount) == t \in tokenRows /\ tokens[t].remain >= amount

\* validate_token's verdict on token t, the expiry date and the IP list left out:
\* they can only refuse a request, which then never reaches billing.
Valid(t) ==
    /\ t \in tokenRows
    /\ tokens[t].status = "enabled"
    /\ tokens[t].user \in userRows
    /\ users[tokens[t].user].enabled

GoTo(r, step) == pc' = [pc EXCEPT ![r] = step]

-----------------------------------------------------------------------------
(* The request *)

\* The middleware validates the token and hands the request its AuthContext.
Authenticate(r, t) ==
    /\ pc[r] = "idle"
    /\ Valid(t)
    /\ GoTo(r, "authed")
    /\ tid' = [tid EXCEPT ![r] = t]
    /\ uid' = [uid EXCEPT ![r] = tokens[t].user]
    /\ UNCHANGED <<dbVars, unlim, pre, cost, historyVars>>

\* pre_charge reads the unlimited flag; a missing row is an error, a zero
\* estimate opens the session without a transaction.
ReadUnlimited(r, estimate) ==
    /\ pc[r] = "authed"
    /\ IF tid[r] \notin tokenRows
       THEN GoTo(r, "rejected") /\ UNCHANGED <<unlim, pre>>
       ELSE /\ unlim' = [unlim EXCEPT ![r] = tokens[tid[r]].unlimited]
            /\ pre' = [pre EXCEPT ![r] = estimate]
            /\ GoTo(r, IF estimate = 0 THEN "held" ELSE "precharging")
    /\ UNCHANGED <<dbVars, uid, tid, cost, historyVars>>

\* pre_charge_atomic commits when both layers can pay ...
PreCharge(r) ==
    /\ pc[r] = "precharging"
    /\ UserCanPay(uid[r], pre[r])
    /\ unlim[r] \/ TokenCanPay(tid[r], pre[r])
    /\ Charge(r, pre[r])
    /\ GoTo(r, "held")
    /\ UNCHANGED <<uid, tid, unlim, pre, cost>>

\* ... and rolls both back when either cannot.
PreChargeRefused(r) ==
    /\ pc[r] = "precharging"
    /\ ~(UserCanPay(uid[r], pre[r]) /\ (unlim[r] \/ TokenCanPay(tid[r], pre[r])))
    /\ GoTo(r, "rejected")
    /\ UNCHANGED <<dbVars, uid, tid, unlim, pre, cost, historyVars>>

\* settle adjusts both layers by actual - pre_charged, with no balance check
\* (a zero difference changes nothing), then goes on to look at a limited token.
Settle(r, actual) ==
    /\ pc[r] = "held"
    /\ Charge(r, actual - pre[r])
    /\ cost' = [cost EXCEPT ![r] = actual]
    /\ GoTo(r, IF unlim[r] THEN "settled" ELSE "reading")
    /\ UNCHANGED <<uid, tid, unlim, pre>>

\* Mutant: a budget of exactly zero does not count as spent.
ReadRemainBelowZero(r) ==
    /\ pc[r] = "reading"
    /\ GoTo(r, IF tid[r] \in tokenRows /\ tokens[tid[r]].remain < 0
               THEN "marking" ELSE "settled")
    /\ UNCHANGED <<dbVars, uid, tid, unlim, pre, cost, historyVars>>

\* settle reads remain_quota again, under a lock of its own ...
ReadRemain(r) ==
    /\ pc[r] = "reading"
    /\ GoTo(r, IF tid[r] \in tokenRows /\ tokens[tid[r]].remain <= 0
               THEN "marking" ELSE "settled")
    /\ UNCHANGED <<dbVars, uid, tid, unlim, pre, cost, historyVars>>

\* Mutant: the exhausted token's budget is cleared as well.
MarkExhaustedClears(r) ==
    /\ pc[r] = "marking"
    /\ tokens' = IF tid[r] \in tokenRows
                 THEN [tokens EXCEPT ![tid[r]].status = "exhausted", ![tid[r]].remain = 0]
                 ELSE tokens
    /\ GoTo(r, "settled")
    /\ UNCHANGED <<userRows, users, tokenRows, usageLogs, uid, tid, unlim, pre, cost,
                   historyVars>>

\* ... and, having read no more than zero, sets status 3 whatever the row holds now.
MarkExhausted(r) ==
    /\ pc[r] = "marking"
    /\ tokens' = IF tid[r] \in tokenRows
                 THEN [tokens EXCEPT ![tid[r]].status = "exhausted"]
                 ELSE tokens
    /\ GoTo(r, "settled")
    /\ UNCHANGED <<userRows, users, tokenRows, usageLogs, uid, tid, unlim, pre, cost,
                   historyVars>>

\* Mutant: the refund forgets the token layer.
RefundUserOnly(r) ==
    /\ pc[r] = "held"
    /\ IF uid[r] \in userRows
       THEN /\ users' = [users EXCEPT ![uid[r]].used = @ - pre[r]]
            /\ appliedUser' = [appliedUser EXCEPT ![r] = @ - pre[r]]
       ELSE UNCHANGED <<users, appliedUser>>
    /\ GoTo(r, "refunded")
    /\ UNCHANGED <<userRows, tokenRows, tokens, usageLogs, uid, tid, unlim, pre, cost,
                   appliedToken, orphans, tests, adminWrites>>

\* refund gives the whole pre-charge back and leaves the status alone.
Refund(r) ==
    /\ pc[r] = "held"
    /\ Charge(r, -pre[r])
    /\ GoTo(r, "refunded")
    /\ UNCHANGED <<uid, tid, unlim, pre, cost>>

\* track_success (after the settlement) and track_failure (after a failed
\* attempt, the session still open) insert a row that references user and token;
\* the foreign keys refuse it when either is gone.
LogUsage(r) ==
    /\ pc[r] \in {"held", "settled"}
    /\ usageLogs' = IF uid[r] \in userRows /\ tid[r] \in tokenRows
                    THEN usageLogs \cup {<<uid[r], tid[r]>>} ELSE usageLogs
    /\ GoTo(r, IF pc[r] = "settled" THEN "logged" ELSE "held")
    /\ UNCHANGED <<userRows, users, tokenRows, tokens, uid, tid, unlim, pre, cost,
                   historyVars>>

\* The session is dropped where it stands: the handler's future is dropped with
\* its connection, the process stops, or a statement fails and the executor only
\* logs it. BillingSession has no Drop, so nothing is given back.
Abandon(r) ==
    /\ \/ pc[r] \in {"authed", "precharging"} /\ GoTo(r, "rejected")
       \/ pc[r] = "held" /\ GoTo(r, "leaked")
       \/ pc[r] \in {"reading", "marking"} /\ GoTo(r, "cut")
    /\ UNCHANGED <<dbVars, uid, tid, unlim, pre, cost, historyVars>>

-----------------------------------------------------------------------------
(* The admin panel *)

AdminWrite ==
    /\ adminWrites < MaxAdminWrites
    /\ adminWrites' = adminWrites + 1

\* update_user_handler writes the quota it was given; used_quota is not touched.
UpdateUser(u, quota, enabled) ==
    /\ AdminWrite
    /\ u \in userRows
    /\ users' = [users EXCEPT ![u].quota = quota, ![u].enabled = enabled]
    /\ UNCHANGED <<userRows, tokenRows, tokens, usageLogs, sessionVars,
                   appliedUser, appliedToken, orphans, tests>>

\* Mutant: an edit of the token starts its used_quota anew.
UpdateTokenAnew(t, remain, unlimited, status) ==
    /\ AdminWrite
    /\ t \in tokenRows
    /\ tokens' = [tokens EXCEPT ![t].remain = remain, ![t].unlimited = unlimited,
                                ![t].status = status, ![t].used = 0]
    /\ UNCHANGED <<userRows, users, tokenRows, usageLogs, sessionVars,
                   appliedUser, appliedToken, orphans, tests>>

\* update_token_handler writes remain_quota, unlimited_quota and status as
\* given, whatever in-flight requests have taken from the row.
UpdateToken(t, remain, unlimited, status) ==
    /\ AdminWrite
    /\ t \in tokenRows
    /\ tokens' = [tokens EXCEPT ![t].remain = remain, ![t].unlimited = unlimited,
                                ![t].status = status]
    /\ UNCHANGED <<userRows, users, tokenRows, usageLogs, sessionVars,
                   appliedUser, appliedToken, orphans, tests>>

\* create_token_handler: SQLite gives the new row the id after the largest one
\* present (INTEGER PRIMARY KEY without AUTOINCREMENT), which may have been used.
CreateToken(t, u, remain, unlimited) ==
    /\ AdminWrite
    /\ t \in Tokens
    /\ \A x \in tokenRows : x < t
    /\ t = 1 \/ t - 1 \in tokenRows
    /\ u \in userRows
    /\ tokenRows' = tokenRows \cup {t}
    /\ tokens' = [tokens EXCEPT ![t] = [user |-> u, remain |-> remain, used |-> 0,
                                        unlimited |-> unlimited, status |-> "enabled"]]
    /\ UNCHANGED <<userRows, users, usageLogs, sessionVars, appliedUser, appliedToken,
                   orphans, tests>>

\* What removing the rows ts of tokens does to the requests that use them.
Orphan(ts) ==
    /\ orphans' = orphans \cup {r \in Requests : pc[r] # "idle" /\ tid[r] \in ts}
    /\ appliedToken' = [r \in Requests |-> IF tid[r] \in ts THEN 0 ELSE appliedToken[r]]

\* delete_token_handler; usage_logs.token_id has no ON DELETE, so the row stays
\* once a usage row references it.
DeleteToken(t) ==
    /\ AdminWrite
    /\ t \in tokenRows
    /\ \A row \in usageLogs : row[2] # t
    /\ tokenRows' = tokenRows \ {t}
    /\ Orphan({t})
    /\ UNCHANGED <<userRows, users, tokens, usageLogs, sessionVars, appliedUser, tests>>

\* delete_user_handler cascades to the user's tokens, unless usage_logs
\* references the user or one of them.
DeleteUser(u) ==
    LET owned == {t \in tokenRows : tokens[t].user = u}
    IN /\ AdminWrite
       /\ u \in userRows
       /\ \A row \in usageLogs : row[1] # u /\ row[2] \notin owned
       /\ userRows' = userRows \ {u}
       /\ tokenRows' = tokenRows \ owned
       /\ Orphan(owned)
       /\ UNCHANGED <<users, tokens, usageLogs, sessionVars, appliedUser, tests>>

\* record_test_log: a successful test call from the panel is charged to the
\* admin's own account, past the token layer and with no balance check.
TestCharge(u, amount) ==
    /\ AdminWrite
    /\ u \in userRows
    /\ amount > 0
    /\ users' = [users EXCEPT ![u].used = @ + amount]
    /\ tests' = [tests EXCEPT ![u] = @ + amount]
    /\ UNCHANGED <<userRows, tokenRows, tokens, usageLogs, sessionVars, appliedUser,
                   appliedToken, orphans>>

-----------------------------------------------------------------------------

Init ==
    /\ userRows = Users
    /\ users \in [Users -> [quota: Budgets, used: {0}, enabled: BOOLEAN]]
    /\ tokenRows = Tokens
    /\ tokens \in [Tokens -> [user: Users, remain: Budgets, used: {0},
                              unlimited: BOOLEAN, status: {"enabled"}]]
    /\ usageLogs = {}
    /\ pc = [r \in Requests |-> "idle"]
    /\ uid = [r \in Requests |-> CHOOSE u \in Users : TRUE]
    /\ tid = [r \in Requests |-> CHOOSE t \in Tokens : TRUE]
    /\ unlim = [r \in Requests |-> FALSE]
    /\ pre = [r \in Requests |-> 0]
    /\ cost = [r \in Requests |-> 0]
    /\ appliedUser = [r \in Requests |-> 0]
    /\ appliedToken = [r \in Requests |-> 0]
    /\ orphans = {}
    /\ tests = [u \in Users |-> 0]
    /\ adminWrites = 0

\* What a request that is not dropped does next.
Proceed(r) ==
    \/ \E t \in Tokens : Authenticate(r, t)
    \/ \E estimate \in Estimates : ReadUnlimited(r, estimate)
    \/ PreCharge(r)
    \/ PreChargeRefused(r)
    \/ \E actual \in Costs : Settle(r, actual)
    \/ ReadRemain(r)
    \/ MarkExhausted(r)
    \/ Refund(r)
    \/ LogUsage(r)

Admin ==
    \/ \E u \in Users, quota \in Budgets, enabled \in BOOLEAN : UpdateUser(u, quota, enabled)
    \/ \E t \in Tokens, remain \in Budgets, unlimited \in BOOLEAN,
          status \in {"enabled", "disabled"} : UpdateToken(t, remain, unlimited, status)
    \/ \E t \in Tokens, u \in Users, remain \in Budgets, unlimited \in BOOLEAN :
          CreateToken(t, u, remain, unlimited)
    \/ \E t \in Tokens : DeleteToken(t)
    \/ \E u \in Users : DeleteUser(u)
    \/ \E u \in Users, amount \in Costs : TestCharge(u, amount)

Next ==
    \/ \E r \in Requests : Proceed(r) \/ Abandon(r)
    \/ Admin

Spec == Init /\ [][Next]_vars

-----------------------------------------------------------------------------
(* Properties *)

\* What the code's own view of request r says it owes its user: nothing before
\* the pre-charge commits and after a refund, the estimate while the session is
\* open (for ever, if it is dropped), the actual cost once settled.
Owed(r) ==
    CASE pc[r] \in {"held", "leaked"} -> pre[r]
      [] pc[r] \in {"reading", "marking", "settled", "logged", "cut"} -> cost[r]
      [] OTHER -> 0

\* What the transactions of r have moved is what r owes, on the user's account
\* and, unless the session skips it, on the budget of the token it came with.
Exact(r) ==
    /\ uid[r] \in userRows => appliedUser[r] = Owed(r)
    /\ (tid[r] \in tokenRows /\ r \notin orphans)
          => appliedToken[r] = IF unlim[r] THEN 0 ELSE Owed(r)

\* Whatever else runs between its steps, a request has moved its user's account
\* and its token's budget by exactly what it owes: nothing is charged twice,
\* refunded twice or refunded on one layer only (pre_charge, settle, refund).
SessionExact == \A r \in Requests : Exact(r)

\* A pre-charge never commits beyond what either layer still holds, whatever
\* the open sessions of other requests have taken (the conditional UPDATEs of
\* pre_charge_atomic); only settlements and admin writes overdraw.
AdmittedWithinBalance ==
    [][\A r \in Requests :
          (pc[r] = "precharging" /\ pc'[r] = "held") =>
             /\ users'[uid[r]].used <= users'[uid[r]].quota
             /\ unlim[r] \/ tokens'[tid[r]].remain >= 0]_vars

\* No request and no test call creates or destroys a token's budget: outside an
\* admin's own write, remain_quota and used_quota of a row move against each
\* other (the paired SET clauses of the three transactions).
BudgetConserved ==
    [][adminWrites' = adminWrites =>
          /\ tokenRows' = tokenRows
          /\ \A t \in tokenRows :
                tokens'[t].remain + tokens'[t].used = tokens[t].remain + tokens[t].used]_vars

-----------------------------------------------------------------------------
(* The ledgers *)

\* The requests that came with token t, and those of user u.
Of(t) == {r \in Requests : pc[r] # "idle" /\ tid[r] = t}
By(u) == {r \in Requests : pc[r] # "idle" /\ uid[r] = u}

\* An account's used_quota is the sum of what its requests owe plus the admin's own
\* test calls.
UserLedger ==
    \A u \in userRows :
        users[u].used = tests[u] + SumFunctionOnSet([r \in Requests |-> Owed(r)], By(u))

\* A token's used_quota is the sum of what the transactions of its limited
\* requests have moved, and the part of an account spent through tokens that
\* still exist is never below their sum (both layers live and die together).
TokenLedger ==
    /\ \A t \in tokenRows : tokens[t].used = SumFunctionOnSet(appliedToken, Of(t))
    /\ orphans = {} =>
          \A u \in userRows :
             users[u].used >= SumFunctionOnSet([t \in Tokens |-> tokens[t].used],
                                               {t \in tokenRows : tokens[t].user = u})

\* The two ledgers: no interleaving of pre-charges, settlements, refunds, admin writes
\* and deletions loses or invents a charge on either layer (pre_charge_atomic,
\* settle_atomic and refund_atomic change used_quota by relative UPDATEs only).
Ledgers == UserLedger /\ TokenLedger

\* Once the dust has settled on a token -- no session open or half settled, none
\* dropped, no admin write -- and some limited session was settled on it, a token
\* with nothing left is marked exhausted: the separate read and write at the end
\* of settle cannot miss the last charge.
SpentTokenIsShut ==
    \A t \in tokenRows :
        (/\ adminWrites = 0
         /\ \A r \in Of(t) : pc[r] \notin {"held", "reading", "marking", "leaked", "cut"}
         /\ \E r \in Of(t) : pc[r] \in {"settled", "logged"} /\ ~unlim[r]
         /\ tokens[t].remain <= 0)
           => tokens[t].status = "exhausted"

\* What billing.rs says of status 3: settle sets it when "the token layer just
\* hit exactly zero", 1=enabled, 2=disabled, 3=exhausted. Without any admin
\* write, a token marked exhausted should have nothing left to spend.
ExhaustedMeansSpent ==
    \A t \in tokenRows :
        (adminWrites = 0 /\ tokens[t].status = "exhausted") => tokens[t].remain <= 0
=============================================================================
