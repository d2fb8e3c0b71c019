----------------------------- MODULE KeyHealth -----------------------------
(***************************************************************************)
(* The health of upstream keys (HealthManager, crates/core/src/health.rs): *)
(* a status per key, kept in memory and, when it becomes disabled, on disk;*)
(* and a cooldown per key and upstream model, kept in memory only, whose   *)
(* length doubles with every failure of a streak.                          *)
(*                                                                         *)
(* Attempts of concurrent requests, the recovery loop, the admin panel and *)
(* restarts act on it. A failed attempt writes its usage row, marks the    *)
(* memory under its own lock and, for a rejected key, writes the disk under*)
(* the database lock afterwards: three steps with awaits in between.       *)
(*                                                                         *)
(* Time is relative: a cooldown is the number of seconds it still has.     *)
(***************************************************************************)
EXTENDS Integers

CONSTANTS
    Keys,            \* ids of rows of channel_keys, 1 .. some bound
    Models,          \* upstream model names
    Workers,         \* requests that may have an attempt in flight
    MaxCooldown,     \* MAX_COOLDOWN_SECS, 1800 in the code
    MaxExponent,     \* the cap on the exponent, 31 in the code
    MaxAdminWrites   \* bound on the admin panel's writes

ASSUME HealthAssumption ==
    /\ Keys \subseteq Nat \ {0}
    /\ MaxCooldown \in Nat \ {0}
    /\ MaxExponent \in Nat \ {0}
    /\ MaxAdminWrites \in Nat
    /\ \A n \in 1..MaxExponent : 2^n \in Nat \ {0}
    /\ \A m, n \in 1..MaxExponent : m <= n => 2^m <= 2^n

VARIABLES
    \* the database
    rows,        \* ids present in channel_keys
    dbStatus,    \* channel_keys.status
    logged,      \* ids some row of usage_logs references
    \* the memory of the HealthManager; a key or an entry it lacks is an active
    \* key, an entry without failures
    memStatus,   \* KeyRuntimeState.status
    left,        \* seconds until CooldownEntry.cooldown_until, 0 once it is past
    failures,    \* CooldownEntry.consecutive_failures
    \* the attempts
    step,        \* where the worker's attempt is
    on,          \* the key and the upstream model it tries
    \* history, read by no action
    overridden,  \* keys whose row lost or missed the memory's last verdict
    adminWrites  \* how many admin writes have happened

dbVars == <<rows, dbStatus, logged>>
memVars == <<memStatus, left, failures>>
attemptVars == <<step, on>>
vars == <<dbVars, memVars, attemptVars, overridden, adminWrites>>

Pairs == Keys \X Models

DbStatus == {"active", "cooldown", "disabled", "quota_exhausted"}
AttemptSteps == {"idle", "calling", "cooling", "disabling", "persisting"}

TypeOK ==
    /\ rows \subseteq Keys
    /\ dbStatus \in [Keys -> DbStatus]
    /\ logged \subseteq Keys
    /\ memStatus \in [Keys -> {"active", "disabled"}]
    /\ left \in [Pairs -> 0..MaxCooldown]
    /\ failures \in [Pairs -> 0..MaxExponent]
    /\ step \in [Workers -> AttemptSteps]
    /\ on \in [Workers -> Pairs]
    /\ overridden \subseteq Keys
    /\ adminWrites \in 0..MaxAdminWrites

-----------------------------------------------------------------------------

Smaller(a, b) == IF a <= b THEN a ELSE b

\* The window opened by the n-th failure of a streak.
Backoff(n) == Smaller(2^Smaller(n, MaxExponent), MaxCooldown)

\* check_available
Available(k, m) == memStatus[k] = "active" /\ left[<<k, m>>] = 0

Goes(w, s) == step' = [step EXCEPT ![w] = s]

AdminWrite ==
    /\ adminWrites < MaxAdminWrites
    /\ adminWrites' = adminWrites + 1

-----------------------------------------------------------------------------
(* Attempts *)

\* Mutant: the key is called on the word of the router, whose check may be skipped.
AttemptUnchecked(w, k, m) ==
    /\ step[w] = "idle"
    /\ memStatus[k] = "active"
    /\ Goes(w, "calling")
    /\ on' = [on EXCEPT ![w] = <<k, m>>]
    /\ UNCHANGED <<dbVars, memVars, overridden, adminWrites>>

\* A worker's authoritative check lets it call the key. Candidates come from a
\* cached snapshot: the row may be gone.
Attempt(w, k, m) ==
    /\ step[w] = "idle"
    /\ Available(k, m)
    /\ Goes(w, "calling")
    /\ on' = [on EXCEPT ![w] = <<k, m>>]
    /\ UNCHANGED <<dbVars, memVars, overridden, adminWrites>>

\* The usage row of an attempt; its foreign keys refuse it once the key, or the
\* request's token or user, is deleted, and the error is swallowed.
LogUsage(k) ==
    \/ k \in rows /\ logged' = logged \cup {k}
    \/ UNCHANGED logged

\* A success, and a failure that says nothing of the key: no health change. A
\* success does not end the streak of failures.
Answered(w) ==
    /\ step[w] = "calling"
    /\ LogUsage(on[w][1])
    /\ Goes(w, "idle")
    /\ UNCHANGED <<rows, dbStatus, memVars, on, overridden, adminWrites>>

\* track_failure of a timeout, 429, 5xx ("cooling") or 401, 403 ("disabling").
Failed(w, verdict) ==
    /\ step[w] = "calling"
    /\ verdict \in {"cooling", "disabling"}
    /\ LogUsage(on[w][1])
    /\ Goes(w, verdict)
    /\ UNCHANGED <<rows, dbStatus, memVars, on, overridden, adminWrites>>

\* Mutant: the window is the key's, not the pair's.
MarkCooldownOfKey(w) ==
    LET n == Smaller(failures[on[w]] + 1, MaxExponent)
        here == {p \in Pairs : p[1] = on[w][1]}
    IN /\ step[w] = "cooling"
       /\ failures' = [p \in Pairs |-> IF p \in here THEN n ELSE failures[p]]
       /\ left' = [p \in Pairs |-> IF p \in here THEN Backoff(n) ELSE left[p]]
       /\ Goes(w, "idle")
       /\ UNCHANGED <<dbVars, memStatus, on, overridden, adminWrites>>

\* mark_cooldown. The streak is counted up to the exponent's cap only.
MarkCooldown(w) ==
    LET n == Smaller(failures[on[w]] + 1, MaxExponent)
    IN /\ step[w] = "cooling"
       /\ failures' = [failures EXCEPT ![on[w]] = n]
       /\ left' = [left EXCEPT ![on[w]] = Backoff(n)]
       /\ Goes(w, "idle")
       /\ UNCHANGED <<dbVars, memStatus, on, overridden, adminWrites>>

\* Mutant: the disk is not told.
MarkDisabledInMemory(w) ==
    LET k == on[w][1]
    IN /\ step[w] = "disabling"
       /\ memStatus' = [memStatus EXCEPT ![k] = "disabled"]
       /\ left' = [p \in Pairs |-> IF p[1] = k THEN 0 ELSE left[p]]
       /\ failures' = [p \in Pairs |-> IF p[1] = k THEN 0 ELSE failures[p]]
       /\ overridden' = overridden \ {k}
       /\ Goes(w, "idle")
       /\ UNCHANGED <<dbVars, on, adminWrites>>

\* mark_disabled, the part under the memory's lock.
MarkDisabled(w) ==
    LET k == on[w][1]
    IN /\ step[w] = "disabling"
       /\ memStatus' = [memStatus EXCEPT ![k] = "disabled"]
       /\ left' = [p \in Pairs |-> IF p[1] = k THEN 0 ELSE left[p]]
       /\ failures' = [p \in Pairs |-> IF p[1] = k THEN 0 ELSE failures[p]]
       /\ overridden' = overridden \ {k}
       /\ Goes(w, "persisting")
       /\ UNCHANGED <<dbVars, on, adminWrites>>

\* persist_status, under the database lock.
Persist(w) ==
    /\ step[w] = "persisting"
    /\ dbStatus' = IF on[w][1] \in rows
                   THEN [dbStatus EXCEPT ![on[w][1]] = "disabled"] ELSE dbStatus
    /\ Goes(w, "idle")
    /\ UNCHANGED <<rows, logged, memVars, on, overridden, adminWrites>>

\* The attempt is dropped with its client's connection, or its write to the disk
\* fails and is only logged.
Drop(w) ==
    /\ step[w] # "idle"
    /\ overridden' = overridden \cup (IF step[w] = "persisting" THEN {on[w][1]} ELSE {})
    /\ Goes(w, "idle")
    /\ UNCHANGED <<dbVars, memVars, on, adminWrites>>

-----------------------------------------------------------------------------
(* Time and the recovery loop *)

Tick ==
    /\ left' = [p \in Pairs |-> IF left[p] > 0 THEN left[p] - 1 ELSE 0]
    /\ UNCHANGED <<dbVars, memStatus, failures, attemptVars, overridden, adminWrites>>

\* Mutant: the loop forgets running streaks too.
CheckRecoveriesAll ==
    /\ failures' = [p \in Pairs |-> 0]
    /\ UNCHANGED <<dbVars, memStatus, left, attemptVars, overridden, adminWrites>>

\* check_recoveries forgets every entry whose cooldown is past.
CheckRecoveries ==
    /\ failures' = [p \in Pairs |-> IF left[p] > 0 THEN failures[p] ELSE 0]
    /\ UNCHANGED <<dbVars, memStatus, left, attemptVars, overridden, adminWrites>>

-----------------------------------------------------------------------------
(* The admin panel, and a restart *)

\* update_key_handler writes the row; the memory is not told.
UpdateKey(k, status) ==
    /\ AdminWrite
    /\ k \in rows
    /\ dbStatus' = [dbStatus EXCEPT ![k] = status]
    /\ overridden' = overridden \cup {k}
    /\ UNCHANGED <<rows, logged, memVars, attemptVars>>

\* delete_key_handler; a key that usage_logs references cannot be deleted.
DeleteKey(k) ==
    /\ AdminWrite
    /\ k \in rows \ logged
    /\ rows' = rows \ {k}
    /\ UNCHANGED <<dbStatus, logged, memVars, attemptVars, overridden>>

\* create_key_handler; SQLite gives the id after the largest one present.
CreateKey(k) ==
    /\ AdminWrite
    /\ \A x \in rows : x < k
    /\ k = 1 \/ k - 1 \in rows
    /\ rows' = rows \cup {k}
    /\ dbStatus' = [dbStatus EXCEPT ![k] = "active"]
    /\ overridden' = overridden \cup {k}
    /\ UNCHANGED <<logged, memVars, attemptVars>>

\* The process stops and starts: the memory is what load_disabled_from_db finds.
Restart ==
    /\ memStatus' = [k \in Keys |-> IF k \in rows /\ dbStatus[k] = "disabled"
                                    THEN "disabled" ELSE "active"]
    /\ left' = [p \in Pairs |-> 0]
    /\ failures' = [p \in Pairs |-> 0]
    /\ step' = [w \in Workers |-> "idle"]
    /\ overridden' = {}
    /\ UNCHANGED <<dbVars, on, adminWrites>>

-----------------------------------------------------------------------------

Init ==
    /\ rows = Keys
    /\ dbStatus = [k \in Keys |-> "active"]
    /\ logged = {}
    /\ memStatus = [k \in Keys |-> "active"]
    /\ left = [p \in Pairs |-> 0]
    /\ failures = [p \in Pairs |-> 0]
    /\ step = [w \in Workers |-> "idle"]
    /\ on \in [Workers -> Pairs]
    /\ overridden = {}
    /\ adminWrites = 0

Work(w) ==
    \/ \E k \in Keys, m \in Models : Attempt(w, k, m)
    \/ Answered(w)
    \/ \E verdict \in {"cooling", "disabling"} : Failed(w, verdict)
    \/ MarkCooldown(w)
    \/ MarkDisabled(w)
    \/ Persist(w)
    \/ Drop(w)

Admin ==
    \/ \E k \in Keys, status \in DbStatus : UpdateKey(k, status)
    \/ \E k \in Keys : DeleteKey(k) \/ CreateKey(k)

Next ==
    \/ \E w \in Workers : Work(w)
    \/ Tick \/ CheckRecoveries
    \/ Admin \/ Restart

Spec == Init /\ [][Next]_vars

\* The clock does not stop.
FairSpec == Spec /\ WF_vars(Tick)

-----------------------------------------------------------------------------
(* Properties *)

Persisting(k) == \E w \in Workers : step[w] = "persisting" /\ on[w][1] = k

\* A key the memory holds disabled is disabled on disk too, once no attempt is on
\* its way there, unless the admin wrote the row since, the row is a new one or
\* the write was lost: whatever the order of the attempts that fail on the key
\* ("persists the disabled status to the DB so it survives restarts").
DisabledDurable ==
    \A k \in rows \ overridden :
        (memStatus[k] = "disabled" /\ ~Persisting(k)) => dbStatus[k] = "disabled"

\* Until the recovery loop forgets a streak, each failure of a pair leaves it a
\* window at least as long as the one it had, however late the failing attempt
\* answers; and no window is longer than the streak's backoff (mark_cooldown).
BackoffGrows ==
    /\ \A p \in Pairs : left[p] > 0 => failures[p] > 0 /\ left[p] <= Backoff(failures[p])
    /\ \A w \in Workers :
          step[w] = "cooling" => left[on[w]] <= Backoff(failures[on[w]] + 1)

\* A failure makes at most one pair of a key and a model unavailable, unless it
\* disables the key: a key that cools down on one model still serves the others.
OnePairPerFailure ==
    [][memStatus' = memStatus =>
          \A p, q \in Pairs :
             (/\ Available(p[1], p[2]) /\ left'[p] > 0
              /\ Available(q[1], q[2]) /\ left'[q] > 0) => p = q]_vars

\* Every cooldown ends: attempts that were in flight when it began may extend it,
\* but no new attempt starts under it (the check of is_available before each).
CooldownEnds == \A p \in Pairs : left[p] > 0 ~> left[p] = 0

\* health.rs: sync_key_from_db is "called when an admin API changes a key's
\* status so that the in-memory view matches the DB".
MemoryMatchesDb ==
    \A k \in rows :
        ~Persisting(k) => (memStatus[k] = "disabled" <=> dbStatus[k] = "disabled")

\* A row that has just been created is visible to the router: "unseen keys are
\* considered available", "the new key is immediately visible to the router".
NewKeyAvailable ==
    [][\A k \in rows' \ rows : \A m \in Models : Available(k, m)]_vars
=============================================================================
