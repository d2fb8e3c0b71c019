--------------------------- MODULE SmallModelQuota ---------------------------
(***************************************************************************)
(* The quota of small models (a channel's upstream models). One counter is *)
(* kept three times: in discovered_models (the database), in the snapshot  *)
(* of the config cache, and in the HealthManager, whose copy the router    *)
(* asks. A success adds to the cache's counter in two steps and then to    *)
(* the database's; the recovery loop zeroes the HealthManager's counter    *)
(* when a window rolls over and the database's afterwards; the admin panel *)
(* writes the database and drops the cache.                                *)
(*                                                                         *)
(* Rows are those of bound models, which the panel refuses to delete. The  *)
(* calendar is relative: age says in which period a counter was last reset.*)
(***************************************************************************)
EXTENDS Integers, FiniteSets

CONSTANTS
    SmallModels,    \* pairs of a channel and an upstream model
    Workers,        \* requests in flight
    Configs,        \* quota settings an admin may give a model
    Usages,         \* total_tokens an upstream may report
    MaxAnswers,     \* bound on the successes tracked
    MaxAdminWrites, \* bound on the admin panel's writes
    MaxRestarts     \* bound on restarts

Unlimited == -1     \* a NULL quota_limit

Config == [limit: Nat \cup {Unlimited}, unit: {"none", "token", "call"},
           window: {"none", "day", "month", "total"}]

\* The row of a model that was discovered and never configured.
Unconfigured == [limit |-> Unlimited, unit |-> "none", window |-> "none"]

ASSUME QuotaAssumption ==
    /\ Configs \subseteq Config
    /\ Usages \subseteq Nat
    /\ MaxAnswers \in Nat /\ MaxAdminWrites \in Nat /\ MaxRestarts \in Nat

VARIABLES
    db,          \* discovered_models
    loaded,      \* whether the config cache holds a snapshot
    cache,       \* its small_model_quota, meaningless unless loaded
    mem,         \* the HealthManager's small_model_states
    resetting,   \* models whose reset the recovery loop still has to persist
    at,          \* where each worker is
    on,          \* the model it calls
    snap,        \* what its slow-path load of the cache read
    plan,        \* what its tracker will write
    adminAt,     \* "idle", or "invalidating" after a write
    \* history, read by no action
    owed,        \* what the database's counter should come to
    answers, adminWrites, restarts

diskVars == <<db, owed>>
memoryVars == <<loaded, cache, mem, resetting>>
workerVars == <<at, on, snap, plan>>
bounds == <<answers, adminWrites, restarts>>
vars == <<diskVars, memoryVars, workerVars, adminAt, bounds>>

Status == {"available", "exhausted"}
Ages == 0..2   \* reset today, earlier this month, before this month (or never)
Row == [limit: Nat \cup {Unlimited}, unit: {"none", "token", "call"},
        window: {"none", "day", "month", "total"},
        used: Nat, status: Status, age: Ages]
CachedRow == [limit: Nat \cup {Unlimited}, unit: {"none", "token", "call"},
              used: Nat, status: Status]
Plan == [delta: Nat, used: Nat, status: Status]
Steps == {"idle", "storing", "routing", "calling", "updating", "bumping"}

TypeOK ==
    /\ db \in [SmallModels -> Row]
    /\ loaded \in BOOLEAN
    /\ cache \in [SmallModels -> CachedRow]
    /\ mem \in [SmallModels -> Row]
    /\ resetting \subseteq SmallModels
    /\ at \in [Workers -> Steps]
    /\ on \in [Workers -> SmallModels]
    /\ snap \in [Workers -> [SmallModels -> CachedRow]]
    /\ plan \in [Workers -> Plan]
    /\ adminAt \in {"idle", "invalidating"}
    /\ owed \in [SmallModels -> Int]
    /\ answers \in Nat /\ adminWrites \in Nat /\ restarts \in Nat

-----------------------------------------------------------------------------

Goes(w, s) == at' = [at EXCEPT ![w] = s]

\* What load_all takes of the rows, as far as the tracker reads it.
Snapshot == [m \in SmallModels |-> [limit |-> db[m].limit, unit |-> db[m].unit,
                                    used |-> db[m].used, status |-> db[m].status]]

\* A row after update_discovered_model_quota.
Configured(c) == [limit |-> c.limit, unit |-> c.unit, window |-> c.window,
                  used |-> 0, status |-> "available", age |-> 0]

\* A counter and its status change together; a window starts at an age.
Spent(r, used, status) == [r EXCEPT !.used = used, !.status = status]
Aged(r, age) == [r EXCEPT !.age = age]

\* Mutant: a new window takes off what the old one allowed.
ZeroedByLimit(r) == Aged(Spent(r, r.used - r.limit, "available"), 0)

\* A row after reset_discovered_model_quota.
Zeroed(r) == Aged(Spent(r, 0, "available"), 0)

\* is_small_model_available, when the lock is free
IsSmallModelAvailable(m) == mem[m].limit = Unlimited \/ mem[m].status = "available"

\* Mutant: only days roll over.
PeriodRolledDaily(r) == r.window = "day" /\ r.age >= 1

\* period_rolled
PeriodRolled(r) ==
    \/ r.window = "day" /\ r.age >= 1
    \/ r.window = "month" /\ r.age = 2

-----------------------------------------------------------------------------
(* Requests *)

\* The slow path of ConfigCache::get reads the database under its lock ...
Load(w) ==
    /\ at[w] = "idle" /\ ~loaded
    /\ snap' = [snap EXCEPT ![w] = Snapshot]
    /\ Goes(w, "storing")
    /\ UNCHANGED <<diskVars, memoryVars, on, plan, adminAt, bounds>>

\* ... and stores what it read later, whatever happened in between.
Store(w) ==
    /\ at[w] = "storing"
    /\ loaded' = TRUE
    /\ cache' = snap[w]
    /\ Goes(w, "routing")
    /\ UNCHANGED <<diskVars, mem, resetting, on, snap, plan, adminAt, bounds>>

\* The router keeps a model the HealthManager calls available.
Route(w, m) ==
    /\ at[w] = "routing" \/ (at[w] = "idle" /\ loaded)
    /\ IsSmallModelAvailable(m)
    /\ on' = [on EXCEPT ![w] = m]
    /\ Goes(w, "calling")
    /\ UNCHANGED <<diskVars, memoryVars, snap, plan, adminAt, bounds>>

\* While the recovery loop holds the lock the filter lets every model pass;
\* nothing asks again later.
RouteContended(w, m) ==
    /\ at[w] = "routing" \/ (at[w] = "idle" /\ loaded)
    /\ on' = [on EXCEPT ![w] = m]
    /\ Goes(w, "calling")
    /\ UNCHANGED <<diskVars, memoryVars, snap, plan, adminAt, bounds>>

\* The request fails, or every candidate was filtered out.
Fail(w) ==
    /\ at[w] \in {"routing", "calling"}
    /\ Goes(w, "idle")
    /\ UNCHANGED <<diskVars, memoryVars, on, snap, plan, adminAt, bounds>>

Delta(r, tokens) ==
    CASE r.unit = "token" -> tokens
      [] r.unit = "call"  -> 1
      [] OTHER            -> 0

\* accumulate_small_model_quota with nothing to add: no snapshot, no limit, no
\* unit, or an answer without usage.
AnswerSkipped(w, tokens) ==
    LET r == cache[on[w]]
    IN  /\ at[w] = "calling"
        /\ ~loaded \/ r.limit = Unlimited \/ Delta(r, tokens) = 0
        /\ Goes(w, "idle")
        /\ UNCHANGED <<diskVars, memoryVars, on, snap, plan, adminAt, bounds>>

\* It reads the cached counter and decides what to write ...
Answer(w, tokens) ==
    LET r == cache[on[w]]
        d == Delta(r, tokens)
    IN  /\ at[w] = "calling"
        /\ answers < MaxAnswers
        /\ loaded /\ r.limit # Unlimited /\ d # 0
        /\ plan' = [plan EXCEPT ![w] =
               [delta |-> d, used |-> r.used + d,
                status |-> IF r.used + d >= r.limit THEN "exhausted" ELSE "available"]]
        /\ owed' = [owed EXCEPT ![on[w]] = @ + d]
        /\ answers' = answers + 1
        /\ Goes(w, "updating")
        /\ UNCHANGED <<db, memoryVars, on, snap, adminAt, adminWrites, restarts>>

\* ... stores it under another lock, unless the snapshot was dropped ...
UpdateCache(w) ==
    /\ at[w] = "updating"
    /\ cache' = IF loaded
                THEN [cache EXCEPT ![on[w]] = Spent(@, plan[w].used, plan[w].status)]
                ELSE cache
    /\ Goes(w, "bumping")
    /\ UNCHANGED <<diskVars, loaded, mem, resetting, on, snap, plan, adminAt, bounds>>

\* Mutant: the database takes over the cache's sum.
BumpAbsolute(w) ==
    /\ at[w] = "bumping"
    /\ db' = [db EXCEPT ![on[w]] = Spent(@, plan[w].used, plan[w].status)]
    /\ Goes(w, "idle")
    /\ UNCHANGED <<owed, memoryVars, on, snap, plan, adminAt, bounds>>

\* ... and adds it to the database, with the status judged from the cache.
Bump(w) ==
    /\ at[w] = "bumping"
    /\ db' = [db EXCEPT ![on[w]] = Spent(@, @.used + plan[w].delta, plan[w].status)]
    /\ Goes(w, "idle")
    /\ UNCHANGED <<owed, memoryVars, on, snap, plan, adminAt, bounds>>

-----------------------------------------------------------------------------
(* The recovery loop and the calendar *)

\* A day passes, within the month or into the next one.
NewDay == LET older(t) == [m \in SmallModels |->
                               Aged(t[m], IF t[m].age = 0 THEN 1 ELSE t[m].age)]
          IN  /\ db' = older(db) /\ mem' = older(mem)
              /\ UNCHANGED <<loaded, cache, resetting, owed, workerVars, adminAt, bounds>>

NewMonth == LET oldest(t) == [m \in SmallModels |-> Aged(t[m], 2)]
            IN  /\ db' = oldest(db) /\ mem' = oldest(mem)
                /\ UNCHANGED <<loaded, cache, resetting, owed, workerVars, adminAt, bounds>>

\* Mutant: the loop lets exhausted models off, whatever their window.
CheckResetsOfExhausted ==
    LET S == {m \in SmallModels : mem[m].status = "exhausted"}
    IN  /\ resetting = {} /\ S # {}
        /\ mem' = [m \in SmallModels |-> IF m \in S THEN Zeroed(mem[m]) ELSE mem[m]]
        /\ resetting' = S
        /\ UNCHANGED <<diskVars, loaded, cache, workerVars, adminAt, bounds>>

\* Mutant: nothing is remembered for the disk.
CheckResetsInMemory ==
    LET S == {m \in SmallModels : PeriodRolled(mem[m])}
    IN  /\ resetting = {} /\ S # {}
        /\ mem' = [m \in SmallModels |-> IF m \in S THEN Zeroed(mem[m]) ELSE mem[m]]
        /\ UNCHANGED <<diskVars, loaded, cache, resetting, workerVars, adminAt, bounds>>

\* check_small_model_quota_resets: every window that rolled over, in memory at
\* once; the loop comes back only after it has persisted them all.
CheckResets ==
    LET S == {m \in SmallModels : PeriodRolled(mem[m])}
    IN  /\ resetting = {} /\ S # {}
        /\ mem' = [m \in SmallModels |-> IF m \in S THEN Zeroed(mem[m]) ELSE mem[m]]
        /\ resetting' = S
        /\ UNCHANGED <<diskVars, loaded, cache, workerVars, adminAt, bounds>>

\* persist_small_model_reset. The HealthManager of the server has no cache.
PersistReset(m) ==
    /\ m \in resetting
    /\ db' = [db EXCEPT ![m] = Zeroed(@)]
    /\ owed' = [owed EXCEPT ![m] = @ - db[m].used]
    /\ resetting' = resetting \ {m}
    /\ UNCHANGED <<loaded, cache, mem, workerVars, adminAt, bounds>>

-----------------------------------------------------------------------------
(* The admin panel and the process *)

AdminWrite(m, row) ==
    /\ adminAt = "idle" /\ adminWrites < MaxAdminWrites
    /\ db' = [db EXCEPT ![m] = row]
    /\ owed' = [owed EXCEPT ![m] = @ - db[m].used]
    /\ adminAt' = "invalidating"
    /\ adminWrites' = adminWrites + 1
    /\ UNCHANGED <<memoryVars, workerVars, answers, restarts>>

\* update_small_model_quota_handler
Configure(m) == \E c \in Configs : AdminWrite(m, Configured(c))

\* reset_small_model_quota_handler
Reset(m) == AdminWrite(m, Zeroed(db[m]))

\* Both end by dropping the cached snapshot.
Invalidate ==
    /\ adminAt = "invalidating"
    /\ adminAt' = "idle"
    /\ loaded' = FALSE
    /\ UNCHANGED <<diskVars, cache, mem, resetting, workerVars, bounds>>

\* What the workers in flight have yet to add to the database's counter of m, unit by unit.
InFlight(m) == {w \in Workers : at[w] \in {"updating", "bumping"} /\ on[w] = m}
Units(m) == UNION {{w} \X (1..plan[w].delta) : w \in InFlight(m)}
Pending(m) == Cardinality(Units(m))

\* The process stops at any point and starts anew: load_small_model_quota_from_db.
Restart ==
    /\ restarts < MaxRestarts
    /\ restarts' = restarts + 1
    /\ loaded' = FALSE
    /\ mem' = db
    /\ resetting' = {}
    /\ at' = [w \in Workers |-> "idle"]
    /\ adminAt' = "idle"
    /\ owed' = [m \in SmallModels |-> owed[m] - Pending(m)]
    /\ UNCHANGED <<db, cache, on, snap, plan, answers, adminWrites>>

-----------------------------------------------------------------------------

Init ==
    /\ db \in [SmallModels -> {Configured(c) : c \in Configs \cup {Unconfigured}}]
    /\ loaded = FALSE
    /\ mem = db
    /\ cache = Snapshot
    /\ resetting = {}
    /\ at = [w \in Workers |-> "idle"]
    /\ on \in [Workers -> SmallModels]
    /\ snap = [w \in Workers |-> Snapshot]
    /\ plan = [w \in Workers |-> [delta |-> 0, used |-> 0, status |-> "available"]]
    /\ adminAt = "idle"
    /\ owed = [m \in SmallModels |-> 0]
    /\ answers = 0 /\ adminWrites = 0 /\ restarts = 0

Request(w) ==
    \/ Load(w) \/ Store(w) \/ Fail(w) \/ UpdateCache(w) \/ Bump(w)
    \/ \E m \in SmallModels : Route(w, m) \/ RouteContended(w, m)
    \/ \E t \in Usages : AnswerSkipped(w, t) \/ Answer(w, t)

Next ==
    \/ \E w \in Workers : Request(w)
    \/ NewDay \/ NewMonth \/ CheckResets
    \/ \E m \in SmallModels : PersistReset(m) \/ Configure(m) \/ Reset(m)
    \/ Invalidate
    \/ Restart

Spec == Init /\ [][Next]_vars

FairSpec == Spec /\ WF_vars(NewMonth) /\ WF_vars(CheckResets)
                 /\ \A m \in SmallModels : WF_vars(PersistReset(m))

-----------------------------------------------------------------------------
(* Properties *)

\* Every success the tracker accounted for is in the database's counter once:
\* what is still in flight comes on top, what a reset forgave and what a crash
\* interrupted is taken off. The cache's lost updates do not reach the database.
QuotaLedger == \A m \in SmallModels : db[m].used + Pending(m) = owed[m]

\* A window the memory has started is started on disk too, or the loop is about
\* to do it: a restart never brings back a spent counter the loop had zeroed and
\* finished with (check_small_model_quota_resets writes the memory first).
ResetDurable == \A m \in SmallModels : mem[m].age < db[m].age => m \in resetting

\* A total quota is forgiven by an admin and by nobody else, whatever the
\* calendar and restarts do (period_rolled), except where the HealthManager still
\* goes by the window the model had before an admin made it total.
TotalIsForgivenByAdmin ==
    [][\A m \in SmallModels :
          db[m].window = "total" /\ db'[m].used < db[m].used
          => adminWrites' # adminWrites \/ mem[m].window # "total"]_vars

\* A model exhausted under a day or month window comes back once the window has
\* rolled over, in the HealthManager and in the database alike, unless a restart
\* finds that an admin has made its quota total.
QuotaComesBack ==
    \A m \in SmallModels :
        LET Rolls == mem[m].window \in {"day", "month"} IN
            /\ (Rolls /\ mem[m].status = "exhausted") ~> (Rolls => mem[m].status = "available")
            /\ (Rolls /\ db[m].status = "exhausted") ~> (Rolls => db[m].status = "available")

\* Nothing is on its way between the three copies.
Quiet ==
    /\ resetting = {} /\ adminAt = "idle"
    /\ \A w \in Workers : at[w] \in {"idle", "calling"}

\* A counter that reached its limit is marked exhausted ("After accumulating, if
\* new_used >= quota_limit, mark Exhausted"). Two successes that read the same
\* cached counter each stay below the limit their sum exceeds.
UsedUpIsExhausted ==
    Quiet => \A m \in SmallModels :
                 db[m].limit # Unlimited /\ db[m].limit > 0 /\ db[m].used >= db[m].limit
                 => db[m].status = "exhausted"

\* A model marked exhausted has used up its quota. After a rollover the cached
\* counter still holds the old window's sum.
ExhaustedIsUsedUp ==
    Quiet => \A m \in SmallModels :
                 db[m].status = "exhausted" => db[m].used >= db[m].limit

\* The router drops a model whose quota is exhausted ("drop the whole binding if
\* quota_filter returns false (small-model quota exhausted)").
ExhaustedIsNotRouted ==
    [][\A w \in Workers, m \in SmallModels :
          Quiet /\ Route(w, m) => db[m].status = "available"]_vars
=============================================================================
