-------------------------- MODULE KeyHealthProofs --------------------------
(***************************************************************************)
(* What holds of the keys' health for any keys, models and number of       *)
(* attempts: the types, that the windows of a streak only grow, and that a *)
(* verdict of the memory is on disk once nobody is on the way there.       *)
(***************************************************************************)
EXTENDS KeyHealth, TLAPS

\* A streak's counter stays between one and its cap (mark_cooldown).
LEMMA StreakRange ==
    ASSUME NEW f \in 0..MaxExponent
    PROVE  Smaller(f + 1, MaxExponent) \in 1..MaxExponent
  BY HealthAssumption DEF Smaller

\* A window is at least a second long and at most MAX_COOLDOWN_SECS, and a longer
\* streak has no shorter one (mark_cooldown).
LEMMA BackoffRange ==
    ASSUME NEW n \in 1..MaxExponent
    PROVE  /\ Backoff(n) \in 1..MaxCooldown
           /\ Backoff(n) <= Backoff(n + 1)
  <1>1. /\ Smaller(n, MaxExponent) = n
        /\ Smaller(n + 1, MaxExponent) \in 1..MaxExponent
        /\ n <= Smaller(n + 1, MaxExponent)
    BY HealthAssumption DEF Smaller
  <1> DEFINE next == Smaller(n + 1, MaxExponent)
  <1>2. /\ 2^n \in Nat \ {0} /\ 2^next \in Nat \ {0}
        /\ 2^n <= 2^next
    BY <1>1, HealthAssumption
  <1>3. Backoff(n) = Smaller(2^n, MaxCooldown) /\ Backoff(n + 1) = Smaller(2^next, MaxCooldown)
    BY <1>1 DEF Backoff
  <1> HIDE DEF next
  <1>4. MaxCooldown \in Nat \ {0}
    BY HealthAssumption
  <1> QED
    BY <1>2, <1>3, <1>4 DEF Smaller

-----------------------------------------------------------------------------
(* Types *)

\* The start is well typed.
LEMMA InitTypeOK == Init => TypeOK
  BY HealthAssumption DEF Init, TypeOK, DbStatus, AttemptSteps, Pairs

\* The attempts, the clock, the loop, the panel and a restart keep the types.
LEMMA NextTypeOK == TypeOK /\ [Next]_vars => TypeOK'
  <1> SUFFICES ASSUME TypeOK, [Next]_vars PROVE TypeOK'
    OBVIOUS
  <1> USE DEF TypeOK, dbVars, memVars, attemptVars
  <1>1. ASSUME NEW w \in Workers, Work(w) PROVE TypeOK'
    <2>1. on[w] \in Pairs /\ on[w][1] \in Keys
      BY DEF Pairs
    <2>2. ASSUME NEW k \in Keys, NEW m \in Models, Attempt(w, k, m) PROVE TypeOK'
      BY <2>2 DEF Attempt, Goes, AttemptSteps, Pairs
    <2>3. CASE Answered(w)
      BY <2>1, <2>3 DEF Answered, LogUsage, Goes, AttemptSteps
    <2>4. ASSUME NEW verdict \in {"cooling", "disabling"}, Failed(w, verdict) PROVE TypeOK'
      BY <2>1, <2>4 DEF Failed, LogUsage, Goes, AttemptSteps
    <2>5. CASE MarkCooldown(w)
      <3> DEFINE n == Smaller(failures[on[w]] + 1, MaxExponent)
      <3>1. n \in 1..MaxExponent
        BY <2>1, StreakRange
      <3>2. Backoff(n) \in 0..MaxCooldown
        BY <3>1, BackoffRange
      <3> HIDE DEF n
      <3>3. /\ failures' = [failures EXCEPT ![on[w]] = n]
            /\ left' = [left EXCEPT ![on[w]] = Backoff(n)]
        BY <2>5 DEF MarkCooldown, n
      <3> QED
        BY <2>5, <3>1, <3>2, <3>3 DEF MarkCooldown, Goes, AttemptSteps
    <2>6. CASE MarkDisabled(w)
      <3>1. left' \in [Pairs -> 0..MaxCooldown] /\ failures' \in [Pairs -> 0..MaxExponent]
        BY <2>6, HealthAssumption DEF MarkDisabled
      <3>2. memStatus' \in [Keys -> {"active", "disabled"}] /\ overridden' \subseteq Keys
        BY <2>1, <2>6 DEF MarkDisabled
      <3> QED
        BY <2>6, <3>1, <3>2 DEF MarkDisabled, Goes, AttemptSteps
    <2>7. CASE Persist(w)
      BY <2>1, <2>7 DEF Persist, Goes, AttemptSteps, DbStatus
    <2>8. CASE Drop(w)
      BY <2>1, <2>8 DEF Drop, Goes, AttemptSteps
    <2> QED
      BY <1>1, <2>2, <2>3, <2>4, <2>5, <2>6, <2>7, <2>8 DEF Work
  <1>2. CASE Tick
    <2>1. left' \in [Pairs -> 0..MaxCooldown]
      BY <1>2, HealthAssumption DEF Tick
    <2> QED
      BY <1>2, <2>1 DEF Tick
  <1>3. CASE CheckRecoveries
    BY <1>3, HealthAssumption DEF CheckRecoveries
  <1>4. CASE Admin
    <2>1. adminWrites' \in 0..MaxAdminWrites
      BY <1>4, HealthAssumption DEF Admin, UpdateKey, DeleteKey, CreateKey, AdminWrite
    <2> QED
      BY <1>4, <2>1 DEF Admin, UpdateKey, DeleteKey, CreateKey, DbStatus
  <1>5. CASE Restart
    BY <1>5, HealthAssumption DEF Restart, AttemptSteps
  <1>6. CASE UNCHANGED vars
    BY <1>6 DEF vars
  <1> QED
    BY <1>1, <1>2, <1>3, <1>4, <1>5, <1>6 DEF Next

\* Statuses, windows and streaks keep the range their columns and fields have.
THEOREM HealthTypes == Spec => []TypeOK
  BY InitTypeOK, NextTypeOK, PTL DEF Spec

-----------------------------------------------------------------------------
(* Windows *)

\* The first half of BackoffGrows is inductive; the second follows from it.
Running == \A p \in Pairs : left[p] > 0 => failures[p] > 0 /\ left[p] <= Backoff(failures[p])

\* Every step leaves each running window within its streak's backoff.
LEMMA NextRunning == TypeOK /\ Running /\ [Next]_vars => Running'
  <1> SUFFICES ASSUME TypeOK, Running, [Next]_vars, NEW p \in Pairs, left'[p] > 0
               PROVE  failures'[p] > 0 /\ left'[p] <= Backoff(failures'[p])
    BY DEF Running
  <1>0. left[p] \in Nat /\ failures[p] \in Nat
    BY DEF TypeOK
  <1>1. CASE UNCHANGED <<left, failures>>
    BY <1>1 DEF Running
  <1>2. ASSUME NEW w \in Workers, MarkCooldown(w) PROVE failures'[p] > 0 /\ left'[p] <= Backoff(failures'[p])
    <2> DEFINE n == Smaller(failures[on[w]] + 1, MaxExponent)
    <2>1. on[w] \in Pairs /\ n \in 1..MaxExponent
      BY StreakRange DEF TypeOK
    <2>2. Backoff(n) \in 1..MaxCooldown /\ MaxCooldown \in Nat
      BY <2>1, BackoffRange, HealthAssumption
    <2> HIDE DEF n
    <2>3. /\ failures' = [failures EXCEPT ![on[w]] = n]
          /\ left' = [left EXCEPT ![on[w]] = Backoff(n)]
      BY <1>2 DEF MarkCooldown, n
    <2>4. CASE p = on[w]
      BY <2>1, <2>2, <2>3, <2>4 DEF TypeOK
    <2>5. CASE p # on[w]
      BY <2>3, <2>5 DEF TypeOK, Running
    <2> QED
      BY <2>4, <2>5
  <1>3. ASSUME NEW w \in Workers, MarkDisabled(w) PROVE failures'[p] > 0 /\ left'[p] <= Backoff(failures'[p])
    <2>1. left'[p] = left[p] /\ failures'[p] = failures[p]
      BY <1>3 DEF MarkDisabled
    <2> QED
      BY <2>1 DEF Running
  <1>4. CASE Tick
    <2>1. left[p] > 0 /\ left'[p] = left[p] - 1 /\ failures' = failures
      BY <1>4, <1>0 DEF Tick, memVars
    <2>2. failures[p] > 0 /\ left[p] <= Backoff(failures[p])
      BY <2>1 DEF Running
    <2>3. Backoff(failures[p]) \in Int
      BY <2>2, BackoffRange DEF TypeOK
    <2> QED
      BY <1>0, <2>1, <2>2, <2>3
  <1>5. CASE CheckRecoveries
    <2>1. left' = left /\ failures'[p] = failures[p]
      BY <1>5 DEF CheckRecoveries, memVars
    <2> QED
      BY <2>1 DEF Running
  <1>6. CASE Restart
    BY <1>6 DEF Restart
  <1>7. CASE Admin
    BY <1>1, <1>7 DEF Admin, UpdateKey, DeleteKey, CreateKey, memVars
  <1>8. ASSUME NEW w \in Workers, Work(w) PROVE failures'[p] > 0 /\ left'[p] <= Backoff(failures'[p])
    BY <1>1, <1>2, <1>3, <1>8 DEF Work, Attempt, Answered, Failed, Persist, Drop, memVars
  <1>9. CASE UNCHANGED vars
    BY <1>1, <1>9 DEF vars, memVars
  <1> QED
    BY <1>4, <1>5, <1>6, <1>7, <1>8, <1>9 DEF Next

\* A failure never shortens a running window: the one it opens is that of a longer
\* streak.
LEMMA RunningGrows == TypeOK /\ Running => BackoffGrows
  <1> SUFFICES ASSUME TypeOK, Running, NEW w \in Workers
               PROVE  left[on[w]] <= Backoff(failures[on[w]] + 1)
    BY DEF BackoffGrows, Running
  <1> DEFINE f == failures[on[w]]
  <1>1. on[w] \in Pairs /\ f \in 0..MaxExponent /\ left[on[w]] \in 0..MaxCooldown
    BY DEF TypeOK
  <1>2. CASE left[on[w]] > 0
    <2>1. f \in 1..MaxExponent /\ left[on[w]] <= Backoff(f)
      BY <1>1, <1>2, HealthAssumption DEF Running
    <2>2. Backoff(f) \in Int /\ Backoff(f) <= Backoff(f + 1)
      BY <2>1, BackoffRange
    <2>3. Backoff(f + 1) \in Int
      BY <1>1, StreakRange, HealthAssumption DEF Backoff, Smaller
    <2> QED
      BY <1>1, <2>1, <2>2, <2>3
  <1>3. CASE left[on[w]] = 0
    <2>1. /\ Smaller(f + 1, MaxExponent) \in 1..MaxExponent
          /\ MaxCooldown \in Nat
      BY <1>1, StreakRange, HealthAssumption
    <2>2. 2^Smaller(f + 1, MaxExponent) \in Nat
      BY <2>1, HealthAssumption
    <2>3. Backoff(f + 1) >= 0
      BY <2>1, <2>2 DEF Backoff, Smaller
    <2> QED
      BY <1>3, <2>3
  <1> QED
    BY <1>1, <1>2, <1>3

\* Until the recovery loop forgets a streak, no failure shortens its window,
\* however many attempts were in flight when it opened.
THEOREM WindowsGrow == Spec => []BackoffGrows
  <1>1. Init => Running
    BY DEF Init, Running
  <1>2. TypeOK /\ Running => BackoffGrows
    BY RunningGrows
  <1> QED
    BY <1>1, <1>2, HealthTypes, NextRunning, PTL DEF Spec

-----------------------------------------------------------------------------
(* The disk *)

\* Every step that makes a verdict, or stops carrying one to the disk, leaves it
\* on the way there, on disk, or accounted for as overridden.
LEMMA NextDurable == TypeOK /\ DisabledDurable /\ [Next]_vars => DisabledDurable'
  <1> SUFFICES ASSUME TypeOK, DisabledDurable, [Next]_vars,
                      NEW k \in rows', k \notin overridden',
                      memStatus'[k] = "disabled", ~Persisting(k)'
               PROVE  dbStatus'[k] = "disabled"
    BY DEF DisabledDurable
  <1>1. CASE /\ k \in rows /\ k \notin overridden /\ memStatus[k] = "disabled"
             /\ dbStatus'[k] = dbStatus[k]
             /\ \A w \in Workers : (step[w] = "persisting" /\ on[w][1] = k)
                                     => (step'[w] = "persisting" /\ on'[w] = on[w])
    BY <1>1 DEF DisabledDurable, Persisting
  <1>2. ASSUME NEW w \in Workers, Work(w) PROVE dbStatus'[k] = "disabled"
    <2> USE DEF TypeOK, Goes, dbVars, memVars, attemptVars
    <2>1. CASE \E j \in Keys, m \in Models : Attempt(w, j, m)
      BY <1>1, <2>1 DEF Attempt
    <2>2. CASE Answered(w) \/ (\E verdict \in {"cooling", "disabling"} : Failed(w, verdict))
      BY <1>1, <2>2 DEF Answered, Failed
    <2>3. CASE MarkCooldown(w)
      BY <1>1, <2>3 DEF MarkCooldown
    <2>4. CASE MarkDisabled(w)
      <3>1. CASE k = on[w][1]
        <4>1. step'[w] = "persisting" /\ on'[w][1] = k
          BY <2>4, <3>1 DEF MarkDisabled
        <4> QED
          BY <4>1 DEF Persisting
      <3>2. CASE k # on[w][1]
        BY <1>1, <2>4, <3>2 DEF MarkDisabled
      <3> QED
        BY <3>1, <3>2
    <2>5. CASE Persist(w)
      <3>1. CASE k = on[w][1]
        BY <2>5, <3>1 DEF Persist
      <3>2. CASE k # on[w][1]
        BY <1>1, <2>5, <3>2 DEF Persist
      <3> QED
        BY <3>1, <3>2
    <2>6. CASE Drop(w)
      BY <1>1, <2>6 DEF Drop
    <2> QED
      BY <1>2, <2>1, <2>2, <2>3, <2>4, <2>5, <2>6 DEF Work
  <1>3. CASE Tick \/ CheckRecoveries
    BY <1>1, <1>3 DEF Tick, CheckRecoveries, dbVars, attemptVars
  <1>4. CASE Admin
    BY <1>1, <1>4 DEF Admin, UpdateKey, DeleteKey, CreateKey, TypeOK, memVars, attemptVars
  <1>5. CASE Restart
    BY <1>5 DEF Restart, dbVars, TypeOK
  <1>6. CASE UNCHANGED vars
    BY <1>1, <1>6 DEF vars, dbVars, memVars, attemptVars
  <1> QED
    BY <1>2, <1>3, <1>4, <1>5, <1>6 DEF Next

\* "Persists the disabled status to the DB so it survives restarts": a key the
\* memory holds disabled is so on disk, unless an attempt is on its way there, its
\* write was lost or the panel wrote the row since.
THEOREM VerdictsAreDurable == Spec => []DisabledDurable
  <1>1. Init => DisabledDurable
    BY DEF Init, DisabledDurable
  <1> QED
    BY <1>1, HealthTypes, NextDurable, PTL DEF Spec

-----------------------------------------------------------------------------
(* Isolation *)

\* Only a failed attempt opens a window, and only on the pair it tried.
LEMMA NextOnePair ==
    ASSUME TypeOK, [Next]_vars, memStatus' = memStatus,
           NEW p \in Pairs, left[p] = 0, left'[p] > 0
    PROVE  \E w \in Workers : MarkCooldown(w) /\ p = on[w]
  <1>1. left' # left
    BY DEF TypeOK
  <1>2. ~Tick /\ ~Restart
    BY DEF Tick, Restart, TypeOK
  <1>3. ~CheckRecoveries /\ ~Admin /\ ~UNCHANGED vars
    BY <1>1 DEF CheckRecoveries, Admin, UpdateKey, DeleteKey, CreateKey, vars, memVars
  <1>4. PICK w \in Workers : Work(w)
    BY <1>2, <1>3 DEF Next
  <1>5. ~MarkDisabled(w)
    BY DEF MarkDisabled, TypeOK
  <1>6. MarkCooldown(w)
    BY <1>1, <1>4, <1>5 DEF Work, Attempt, Answered, Failed, Persist, Drop, memVars
  <1>7. p = on[w]
    BY <1>6 DEF MarkCooldown, TypeOK
  <1> QED
    BY <1>6, <1>7

\* A failure on one model leaves the key's other models, and every other key, as
\* available as they were, unless it disables the key.
THEOREM FailuresAreIsolated == Spec => OnePairPerFailure
  <1>1. ASSUME TypeOK, [Next]_vars, memStatus' = memStatus, NEW p \in Pairs, NEW q \in Pairs,
               Available(p[1], p[2]), left'[p] > 0, Available(q[1], q[2]), left'[q] > 0
        PROVE  p = q
    <2>1. left[p] = 0 /\ left[q] = 0
      BY <1>1 DEF Available, Pairs
    <2>2. PICK w \in Workers : MarkCooldown(w) /\ p = on[w]
      BY <1>1, <2>1, NextOnePair
    <2>3. left' = [left EXCEPT ![on[w]] = left'[on[w]]]
      BY <1>1, <2>2 DEF MarkCooldown, TypeOK
    <2>4. q = on[w]
      BY <1>1, <2>1, <2>3 DEF TypeOK
    <2> QED
      BY <2>2, <2>4
  <1>2. TypeOK /\ [Next]_vars =>
          [memStatus' = memStatus =>
             \A p, q \in Pairs :
                (/\ Available(p[1], p[2]) /\ left'[p] > 0
                 /\ Available(q[1], q[2]) /\ left'[q] > 0) => p = q]_vars
    BY <1>1
  <1> QED
    BY <1>2, HealthTypes, PTL DEF Spec, OnePairPerFailure
=============================================================================
