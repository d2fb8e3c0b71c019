------------------------ MODULE SmallModelQuotaProofs ------------------------
(***************************************************************************)
(* What holds of the three copies of a small model's quota, for any number *)
(* of models, requests, quotas and restarts: the window of the memory is   *)
(* never ahead of the disk's without the loop knowing, every success is in *)
(* the database's counter once, and a total quota is forgiven by an admin  *)
(* alone.                                                                  *)
(***************************************************************************)
EXTENDS SmallModelQuota, FiniteSetTheorems, TLAPS

\* Edits of a row leave a row.
LEMMA SpentRow ==
    ASSUME NEW r \in Row, NEW u \in Nat, NEW s \in Status
    PROVE  /\ Spent(r, u, s) \in Row /\ Spent(r, u, s).used = u
           /\ Spent(r, u, s).age = r.age /\ Spent(r, u, s).window = r.window
  <1>1. [r EXCEPT !.used = u] \in Row
    BY DEF Row
  <1> QED
    BY <1>1 DEF Spent, Row

\* Time passes without touching a counter.
LEMMA AgedRow ==
    ASSUME NEW r \in Row, NEW a \in Ages
    PROVE  /\ Aged(r, a) \in Row /\ Aged(r, a).age = a
           /\ Aged(r, a).window = r.window /\ Aged(r, a).used = r.used
  BY DEF Aged, Row

\* A reset empties the counter and keeps the window (reset_discovered_model_quota).
LEMMA ZeroedRow ==
    ASSUME NEW r \in Row
    PROVE  /\ Zeroed(r) \in Row /\ Zeroed(r).age = 0 /\ Zeroed(r).window = r.window
           /\ Zeroed(r).used = 0
  <1>1. "available" \in Status /\ 0 \in Ages /\ 0 \in Nat
    BY DEF Status, Ages
  <1>2. Spent(r, 0, "available") \in Row /\ Spent(r, 0, "available").used = 0
        /\ Spent(r, 0, "available").window = r.window
    BY <1>1, SpentRow
  <1> QED
    BY <1>1, <1>2, AgedRow DEF Zeroed

\* What the panel writes is a row (update_discovered_model_quota).
LEMMA ConfiguredIsRow == \A c \in Config : Configured(c) \in Row
  BY DEF Configured, Config, Row, Status, Ages

\* What the tracker writes into the snapshot is a row of it.
LEMMA SpentCachedRow ==
    ASSUME NEW r \in CachedRow, NEW p \in Plan
    PROVE  Spent(r, p.used, p.status) \in CachedRow
  BY DEF Spent, CachedRow, Plan

\* What load_all reads is a snapshot.
LEMMA SnapshotIsCached ==
    ASSUME db \in [SmallModels -> Row]
    PROVE  Snapshot \in [SmallModels -> CachedRow]
  BY DEF Snapshot, Row, CachedRow

\* What the tracker decides to write is a plan (accumulate_small_model_quota).
LEMMA AnswerIsPlan ==
    ASSUME NEW r \in CachedRow, NEW t \in Nat
    PROVE  /\ Delta(r, t) \in Nat
           /\ [delta |-> Delta(r, t), used |-> r.used + Delta(r, t),
               status |-> IF r.used + Delta(r, t) >= r.limit
                          THEN "exhausted" ELSE "available"] \in Plan
  <1>1. Delta(r, t) \in Nat
    BY DEF Delta
  <1> QED
    BY <1>1 DEF CachedRow, Plan, Status

-----------------------------------------------------------------------------

\* Only the loop knows windows to persist, and never a total one.
ResettingRolls == \A m \in resetting : mem[m].window \in {"day", "month"}

\* The types of the copies and of the workers; those that the sum of Pending enters into
\* are kept with the ledger.
Typed == /\ db \in [SmallModels -> Row]
         /\ mem \in [SmallModels -> Row]
         /\ cache \in [SmallModels -> CachedRow]
         /\ snap \in [Workers -> [SmallModels -> CachedRow]]
         /\ plan \in [Workers -> Plan]
         /\ on \in [Workers -> SmallModels]
         /\ at \in [Workers -> Steps]
         /\ resetting \subseteq SmallModels

IInv == Typed /\ ResettingRolls /\ ResetDurable

\* The copies start alike.
LEMMA InitIInv == Init => IInv
  <1> SUFFICES ASSUME Init PROVE IInv
    OBVIOUS
  <1>1. db \in [SmallModels -> Row]
    <2>1. \A c \in Configs \cup {Unconfigured} : c \in Config
      BY QuotaAssumption DEF Config, Unconfigured
    <2> QED
      BY <2>1, ConfiguredIsRow DEF Init
  <1>2. Snapshot \in [SmallModels -> CachedRow]
    BY <1>1, SnapshotIsCached
  <1>3. [delta |-> 0, used |-> 0, status |-> "available"] \in Plan
    BY DEF Plan, Status
  <1>4. Typed
    BY <1>1, <1>2, <1>3 DEF Init, Typed, Steps
  <1>5. ResettingRolls
    BY DEF Init, ResettingRolls
  <1>6. ResetDurable
    BY <1>1 DEF Init, ResetDurable, Row, Ages
  <1> QED
    BY <1>4, <1>5, <1>6 DEF IInv

\* A request never touches the memory's copy, and adds to the database's.
LEMMA RequestIInv ==
    ASSUME IInv, NEW w \in Workers, Request(w)
    PROVE  IInv'
  <1> USE DEF IInv
  <1>1. CASE Load(w)
    <2>1. Snapshot \in [SmallModels -> CachedRow]
      BY SnapshotIsCached DEF Typed
    <2>2. Typed'
      BY <1>1, <2>1 DEF Load, Typed, Goes, Steps, diskVars, memoryVars
    <2> QED
      BY <1>1, <2>2 DEF Load, ResettingRolls, ResetDurable, diskVars, memoryVars
  <1>2. CASE Store(w)
    <2>1. Typed'
      BY <1>2 DEF Store, Typed, Goes, Steps, diskVars
    <2> QED
      BY <1>2, <2>1 DEF Store, ResettingRolls, ResetDurable, diskVars
  <1>3. CASE Fail(w)
    <2>1. Typed'
      BY <1>3 DEF Fail, Typed, Goes, Steps, diskVars, memoryVars
    <2> QED
      BY <1>3, <2>1 DEF Fail, ResettingRolls, ResetDurable, diskVars, memoryVars
  <1>4. CASE UpdateCache(w)
    <2>1. cache' \in [SmallModels -> CachedRow]
      <3>1. Spent(cache[on[w]], plan[w].used, plan[w].status) \in CachedRow
        BY SpentCachedRow DEF Typed
      <3> QED
        BY <1>4, <3>1 DEF UpdateCache, Typed
    <2>2. /\ db' = db /\ mem' = mem /\ snap' = snap /\ plan' = plan /\ on' = on
          /\ resetting' = resetting /\ at' \in [Workers -> Steps]
      BY <1>4 DEF UpdateCache, Typed, Goes, Steps, diskVars
    <2>3. Typed'
      BY <2>1, <2>2 DEF Typed
    <2> QED
      BY <2>2, <2>3 DEF ResettingRolls, ResetDurable
  <1>5. CASE Bump(w)
    <2> DEFINE new == Spent(db[on[w]], db[on[w]].used + plan[w].delta, plan[w].status)
    <2>1. new \in Row /\ new.age = db[on[w]].age
      <3>1. db[on[w]] \in Row /\ plan[w] \in Plan
        BY DEF Typed
      <3>2. db[on[w]].used + plan[w].delta \in Nat /\ plan[w].status \in Status
        BY <3>1 DEF Row, Plan
      <3> QED
        BY <3>1, <3>2, SpentRow
    <2>2. db' = [db EXCEPT ![on[w]] = new]
      BY <1>5 DEF Bump, Typed
    <2> HIDE DEF new
    <2>3. Typed'
      BY <1>5, <2>1, <2>2 DEF Bump, Typed, Goes, Steps, memoryVars
    <2>4. \A m \in SmallModels : db'[m].age = db[m].age
      BY <2>1, <2>2 DEF Typed
    <2>5. mem' = mem /\ resetting' = resetting
      BY <1>5 DEF Bump, memoryVars
    <2> QED
      BY <2>3, <2>4, <2>5 DEF ResettingRolls, ResetDurable
  <1>6. ASSUME NEW m \in SmallModels, Route(w, m) \/ RouteContended(w, m) PROVE IInv'
    <2>1. Typed'
      BY <1>6 DEF Route, RouteContended, Typed, Goes, Steps, diskVars, memoryVars
    <2> QED
      BY <1>6, <2>1
      DEF Route, RouteContended, ResettingRolls, ResetDurable, diskVars, memoryVars
  <1>7. ASSUME NEW t \in Usages, AnswerSkipped(w, t) PROVE IInv'
    <2>1. Typed'
      BY <1>7 DEF AnswerSkipped, Typed, Goes, Steps, diskVars, memoryVars
    <2> QED
      BY <1>7, <2>1 DEF AnswerSkipped, ResettingRolls, ResetDurable, diskVars, memoryVars
  <1>8. ASSUME NEW t \in Usages, Answer(w, t) PROVE IInv'
    <2>1. t \in Nat /\ cache[on[w]] \in CachedRow
      BY QuotaAssumption DEF Typed
    <2>2. plan' \in [Workers -> Plan]
      BY <1>8, <2>1, AnswerIsPlan DEF Answer, Typed
    <2>3. Typed'
      BY <1>8, <2>2 DEF Answer, Typed, Goes, Steps, memoryVars
    <2> QED
      BY <1>8, <2>3 DEF Answer, ResettingRolls, ResetDurable, memoryVars
  <1> QED
    BY <1>1, <1>2, <1>3, <1>4, <1>5, <1>6, <1>7, <1>8 DEF Request

\* The calendar ages both copies alike, the loop remembers what it zeroed, and
\* the panel only makes the database's copy younger.
LEMMA NextIInv == IInv /\ [Next]_vars => IInv'
  <1> SUFFICES ASSUME IInv, [Next]_vars PROVE IInv'
    OBVIOUS
  <1> USE DEF IInv
  <1>0. \A m \in SmallModels : /\ db[m] \in Row /\ mem[m] \in Row
                               /\ db[m].age \in Ages /\ mem[m].age \in Ages
    BY DEF Typed, Row
  <1>1. ASSUME NEW w \in Workers, Request(w) PROVE IInv'
    BY <1>1, RequestIInv
  <1>2. CASE NewDay
    <2>1. \A m \in SmallModels :
             /\ db'[m] = Aged(db[m], IF db[m].age = 0 THEN 1 ELSE db[m].age)
             /\ mem'[m] = Aged(mem[m], IF mem[m].age = 0 THEN 1 ELSE mem[m].age)
      BY <1>2 DEF NewDay
    <2>2. \A m \in SmallModels :
             LET a == IF db[m].age = 0 THEN 1 ELSE db[m].age
             IN  db'[m] \in Row /\ db'[m].age = a
      <3> SUFFICES ASSUME NEW m \in SmallModels
                   PROVE  LET a == IF db[m].age = 0 THEN 1 ELSE db[m].age
                          IN  db'[m] \in Row /\ db'[m].age = a
        OBVIOUS
      <3>1. (IF db[m].age = 0 THEN 1 ELSE db[m].age) \in Ages
        BY <1>0 DEF Ages
      <3> QED
        BY <1>0, <2>1, <3>1, AgedRow
    <2>3. \A m \in SmallModels :
             LET a == IF mem[m].age = 0 THEN 1 ELSE mem[m].age
             IN  mem'[m] \in Row /\ mem'[m].age = a /\ mem'[m].window = mem[m].window
      <3> SUFFICES ASSUME NEW m \in SmallModels
                   PROVE  LET a == IF mem[m].age = 0 THEN 1 ELSE mem[m].age
                          IN  /\ mem'[m] \in Row /\ mem'[m].age = a
                              /\ mem'[m].window = mem[m].window
        OBVIOUS
      <3>1. (IF mem[m].age = 0 THEN 1 ELSE mem[m].age) \in Ages
        BY <1>0 DEF Ages
      <3> QED
        BY <1>0, <2>1, <3>1, AgedRow
    <2>4. Typed' /\ resetting' = resetting
      BY <1>2, <2>2, <2>3 DEF NewDay, Typed, workerVars
    <2>5. ResettingRolls'
      BY <2>3, <2>4 DEF Typed, ResettingRolls
    <2>6. ResetDurable'
      BY <1>0, <2>2, <2>3, <2>4 DEF ResetDurable, Ages
    <2> QED
      BY <2>4, <2>5, <2>6
  <1>3. CASE NewMonth
    <2>1. \A m \in SmallModels : /\ db'[m] = Aged(db[m], 2)
                                 /\ mem'[m] = Aged(mem[m], 2)
      BY <1>3 DEF NewMonth
    <2>2. \A m \in SmallModels : /\ db'[m] \in Row /\ mem'[m] \in Row
                                 /\ db'[m].age = 2 /\ mem'[m].age = 2
                                 /\ mem'[m].window = mem[m].window
      <3>1. 2 \in Ages
        BY DEF Ages
      <3> QED
        BY <1>0, <2>1, <3>1, AgedRow
    <2>3. Typed' /\ resetting' = resetting
      BY <1>3, <2>2 DEF NewMonth, Typed, workerVars
    <2>4. ResettingRolls'
      BY <2>2, <2>3 DEF Typed, ResettingRolls
    <2>5. ResetDurable'
      BY <2>2, <2>3 DEF ResetDurable
    <2> QED
      BY <2>3, <2>4, <2>5
  <1>4. CASE CheckResets
    <2> DEFINE S == {m \in SmallModels : PeriodRolled(mem[m])}
    <2>1. /\ resetting = {} /\ resetting' = S
          /\ mem' = [m \in SmallModels |-> IF m \in S THEN Zeroed(mem[m]) ELSE mem[m]]
      BY <1>4 DEF CheckResets
    <2>2. \A m \in S : mem[m].window \in {"day", "month"}
      BY DEF PeriodRolled
    <2>3. \A m \in SmallModels : Zeroed(mem[m]) \in Row
                                 /\ Zeroed(mem[m]).window = mem[m].window
      BY <1>0, ZeroedRow
    <2>4. S \subseteq SmallModels
      OBVIOUS
    <2> HIDE DEF S
    <2>5. Typed'
      BY <1>0, <1>4, <2>1, <2>3, <2>4 DEF CheckResets, Typed, diskVars, workerVars
    <2>6. ResettingRolls'
      BY <2>1, <2>2, <2>3, <2>4 DEF ResettingRolls
    <2>7. ResetDurable'
      BY <1>4, <2>1 DEF CheckResets, ResetDurable, diskVars
    <2> QED
      BY <2>5, <2>6, <2>7
  <1>5. ASSUME NEW m \in SmallModels, PersistReset(m) PROVE IInv'
    <2>1. Zeroed(db[m]) \in Row /\ Zeroed(db[m]).age = 0
      BY <1>0, ZeroedRow
    <2>2. /\ db' = [db EXCEPT ![m] = Zeroed(db[m])]
          /\ mem' = mem /\ resetting' = resetting \ {m}
      BY <1>5 DEF PersistReset
    <2>3. Typed'
      BY <1>5, <2>1, <2>2 DEF PersistReset, Typed, workerVars
    <2>4. ResettingRolls'
      BY <2>2 DEF ResettingRolls
    <2>5. ASSUME NEW n \in SmallModels, mem[n].age < db'[n].age PROVE n \in resetting'
      <3>1. n # m
        BY <1>0, <2>1, <2>2, <2>5 DEF Typed, Ages
      <3>2. db'[n] = db[n]
        BY <2>2, <3>1 DEF Typed
      <3> QED
        BY <2>2, <2>5, <3>1, <3>2 DEF ResetDurable
    <2> QED
      BY <2>2, <2>3, <2>4, <2>5 DEF ResetDurable
  <1>6. ASSUME NEW m \in SmallModels, Configure(m) \/ Reset(m) PROVE IInv'
    <2>1. PICK row \in Row : row.age = 0 /\ AdminWrite(m, row)
      <3>1. CASE Configure(m)
        <4>1. \A c \in Configs : Configured(c) \in Row /\ Configured(c).age = 0
          BY QuotaAssumption, ConfiguredIsRow DEF Configured
        <4> QED
          BY <3>1, <4>1 DEF Configure
      <3>2. CASE Reset(m)
        <4>1. Zeroed(db[m]) \in Row /\ Zeroed(db[m]).age = 0
          BY <1>0, ZeroedRow
        <4> QED
          BY <3>2, <4>1 DEF Reset
      <3> QED
        BY <1>6, <3>1, <3>2
    <2>2. Typed'
      BY <2>1 DEF AdminWrite, Typed, memoryVars, workerVars
    <2>3. /\ db' = [db EXCEPT ![m] = row] /\ mem' = mem /\ resetting' = resetting
      BY <2>1 DEF AdminWrite, memoryVars
    <2>4. ResettingRolls'
      BY <2>3 DEF ResettingRolls
    <2>5. ASSUME NEW n \in SmallModels, mem[n].age < db'[n].age PROVE n \in resetting'
      <3>1. n # m
        BY <1>0, <2>1, <2>3, <2>5 DEF Typed, Ages
      <3>2. db'[n] = db[n]
        BY <2>3, <3>1 DEF Typed
      <3> QED
        BY <2>3, <2>5, <3>2 DEF ResetDurable
    <2> QED
      BY <2>2, <2>3, <2>4, <2>5 DEF ResetDurable
  <1>7. CASE Invalidate
    <2>1. Typed'
      BY <1>7 DEF Invalidate, Typed, diskVars, workerVars
    <2> QED
      BY <1>7, <2>1 DEF Invalidate, ResettingRolls, ResetDurable, diskVars
  <1>8. CASE Restart
    <2>1. Typed'
      BY <1>8 DEF Restart, Typed, Steps
    <2> QED
      BY <1>0, <1>8, <2>1 DEF Restart, ResettingRolls, ResetDurable, Ages
  <1>9. CASE UNCHANGED vars
    <2>1. Typed'
      BY <1>9 DEF vars, Typed, diskVars, memoryVars, workerVars
    <2> QED
      BY <1>9, <2>1 DEF vars, ResettingRolls, ResetDurable, diskVars, memoryVars
  <1> QED
    BY <1>1, <1>2, <1>3, <1>4, <1>5, <1>6, <1>7, <1>8, <1>9 DEF Next

-----------------------------------------------------------------------------

\* A restart never brings back a spent counter the recovery loop has zeroed and
\* finished with: a window the memory has started is started on disk, or the loop
\* is about to do it.
THEOREM ResetsAreDurable == Spec => []ResetDurable
  <1>1. IInv => ResetDurable
    BY DEF IInv
  <1> QED
    BY <1>1, InitIInv, NextIInv, PTL DEF Spec

-----------------------------------------------------------------------------
(***************************************************************************)
(* The ledger of the database. Pending counts units of plans in flight,    *)
(* told apart by their worker: one action of a worker adds or takes away   *)
(* the units of one plan, so a cardinality changes by the plan's delta. It *)
(* is a number because the units in flight are finite, which is part of    *)
(* the induction; nothing is assumed of how many workers there are.        *)
(***************************************************************************)

\* The units of a plan are as many as it adds.
LEMMA UnitsOfPlan ==
    ASSUME NEW w, NEW d \in Nat
    PROVE  IsFiniteSet({w} \X (1..d)) /\ Cardinality({w} \X (1..d)) = d
  <1>1. IsFiniteSet({w}) /\ Cardinality({w}) = 1
    BY FS_Singleton
  <1>2. IsFiniteSet(1..d) /\ Cardinality(1..d) = d
    BY FS_Interval
  <1>3. /\ IsFiniteSet({w} \X (1..d))
        /\ Cardinality({w} \X (1..d)) = Cardinality({w}) * Cardinality(1..d)
    BY <1>1, <1>2, FS_Product
  <1> QED
    BY <1>1, <1>2, <1>3

\* Plans that enter the flight bring their units, plans that leave take them away.
LEMMA UnitsAdded ==
    ASSUME NEW S, IsFiniteSet(S), NEW w, NEW d \in Nat, \A n : <<w, n>> \notin S
    PROVE  /\ IsFiniteSet(S \cup ({w} \X (1..d)))
           /\ Cardinality(S \cup ({w} \X (1..d))) = Cardinality(S) + d
  <1> DEFINE T == {w} \X (1..d)
  <1>1. IsFiniteSet(T) /\ Cardinality(T) = d
    BY UnitsOfPlan
  <1>2. S \cap T = {}
    OBVIOUS
  <1> HIDE DEF T
  <1>3. /\ IsFiniteSet(S \cup T)
        /\ Cardinality(S \cup T) = Cardinality(S) + Cardinality(T) - Cardinality(S \cap T)
    BY <1>1, FS_Union
  <1>4. Cardinality(S) \in Nat /\ Cardinality(S \cap T) = 0
    BY <1>2, FS_CardinalityType, FS_EmptySet
  <1>5. IsFiniteSet(S \cup T) /\ Cardinality(S \cup T) = Cardinality(S) + d
    BY <1>1, <1>3, <1>4
  <1> QED
    BY <1>5 DEF T

\* The types the sums of Pending enter into, and the counters.
Counts ==
    /\ loaded \in BOOLEAN
    /\ adminAt \in {"idle", "invalidating"}
    /\ owed \in [SmallModels -> Int]
    /\ answers \in Nat /\ adminWrites \in Nat /\ restarts \in Nat

\* The ledger, and that finitely many units are in flight: Pending counts nothing else.
Ledgered == \A m \in SmallModels : IsFiniteSet(Units(m)) /\ db[m].used + Pending(m) = owed[m]

\* Workers that enter and leave no flight leave the units where they are.
LEMMA UnitsUntouched ==
    ASSUME NEW m \in SmallModels,
           \A w \in Workers : /\ (w \in InFlight(m)') <=> (w \in InFlight(m))
                              /\ w \in InFlight(m) => plan'[w] = plan[w]
    PROVE  Units(m)' = Units(m)
  <1>1. InFlight(m)' = InFlight(m)
    BY DEF InFlight
  <1>2. \A w \in InFlight(m) : plan'[w].delta = plan[w].delta
    BY DEF InFlight
  <1> QED
    BY <1>1, <1>2 DEF Units

\* A request that answers owes the units it brings into flight, one that writes lands them.
LEMMA RequestLedger ==
    ASSUME IInv, Counts, Ledgered, NEW w \in Workers, Request(w)
    PROVE  Counts' /\ Ledgered'
  <1>0. Typed
    BY DEF IInv
  <1> USE <1>0 DEF Typed
  <1>1. \A m \in SmallModels : db[m].used \in Nat
    BY DEF Row
  <1>2. ASSUME UNCHANGED <<owed, adminAt, bounds>>, loaded' = loaded \/ loaded' = TRUE
        PROVE  Counts'
    BY <1>2 DEF Counts, bounds
  <1>3. ASSUME UNCHANGED <<owed, db>>, \A m \in SmallModels : Units(m)' = Units(m)
        PROVE  Ledgered'
    BY <1>3 DEF Ledgered, Pending
  <1>4. ASSUME UNCHANGED <<owed, db, plan>>, NEW s, Goes(w, s),
               \A q \in Workers : q # w => on'[q] = on[q],
               \/ on'[w] = on[w] /\ (at[w] \in {"updating", "bumping"} <=> s \in {"updating", "bumping"})
               \/ at[w] \notin {"updating", "bumping"} /\ s \notin {"updating", "bumping"}
        PROVE  Ledgered'
    <2>1. ASSUME NEW m \in SmallModels PROVE Units(m)' = Units(m)
      <3>1. \A q \in Workers : (q \in InFlight(m)') <=> (q \in InFlight(m))
        BY <1>4 DEF Goes, InFlight
      <3> QED
        BY <1>4, <3>1, UnitsUntouched
    <2> QED
      BY <1>3, <1>4, <2>1
  <1>5. CASE Load(w) \/ Store(w) \/ Fail(w) \/ UpdateCache(w)
             \/ (\E m \in SmallModels : Route(w, m) \/ RouteContended(w, m))
             \/ (\E t \in Usages : AnswerSkipped(w, t))
    <2>1. Counts'
      <3>1. UNCHANGED <<owed, adminAt, bounds>> /\ (loaded' = loaded \/ loaded' = TRUE)
        BY <1>5
        DEF Load, Store, Fail, UpdateCache, Route, RouteContended, AnswerSkipped, diskVars,
            memoryVars
      <3> QED
        BY <1>2, <3>1
    <2>2. UNCHANGED <<owed, db, plan>> /\ \A q \in Workers : q # w => on'[q] = on[q]
      BY <1>5
      DEF Load, Store, Fail, UpdateCache, Route, RouteContended, AnswerSkipped, diskVars
    <2>3. CASE UpdateCache(w)
      BY <1>4, <2>1, <2>2, <2>3 DEF UpdateCache
    <2>4. CASE ~UpdateCache(w)
      <3>1. at[w] \notin {"updating", "bumping"}
        BY <1>5, <2>4 DEF Load, Store, Fail, Route, RouteContended, AnswerSkipped
      <3>2. PICK s \in {"storing", "routing", "idle", "calling"} : Goes(w, s)
        BY <1>5, <2>4 DEF Load, Store, Fail, Route, RouteContended, AnswerSkipped
      <3> QED
        BY <1>4, <2>1, <2>2, <3>1, <3>2
    <2> QED
      BY <2>1, <2>3, <2>4
  <1>6. ASSUME NEW t \in Usages, Answer(w, t) PROVE Counts' /\ Ledgered'
    <2>0. Delta(cache[on[w]], t) \in Nat /\ on[w] \in SmallModels
      BY QuotaAssumption, AnswerIsPlan
    <2>1. PICK d \in Nat, n \in SmallModels :
             d = Delta(cache[on[w]], t) /\ n = on[w] /\ at[w] = "calling"
      BY <1>6, <2>0 DEF Answer
    <2>2. /\ owed' = [owed EXCEPT ![n] = @ + d] /\ db' = db /\ on' = on
          /\ plan'[w].delta = d /\ \A q \in Workers : q # w => plan'[q] = plan[q]
          /\ Goes(w, "updating")
      BY <1>6, <2>1 DEF Answer
    <2>3. Counts'
      BY <1>6, <2>1, <2>2 DEF Answer, Counts, memoryVars
    <2>4. ASSUME NEW m \in SmallModels, m # n
          PROVE  Units(m)' = Units(m)
      <3>1. \A q \in Workers : (q \in InFlight(m)') <=> (q \in InFlight(m))
        BY <2>1, <2>2, <2>4 DEF Goes, InFlight
      <3>2. w \notin InFlight(m)
        BY <2>1 DEF InFlight
      <3> QED
        BY <2>2, <3>1, <3>2, UnitsUntouched
    <2>5. Units(n)' = Units(n) \cup ({w} \X (1..d)) /\ \A i : <<w, i>> \notin Units(n)
      <3>1. InFlight(n)' = InFlight(n) \cup {w} /\ w \notin InFlight(n)
        BY <2>1, <2>2 DEF Goes, InFlight
      <3>2. \A q \in InFlight(n) : plan'[q] = plan[q]
        BY <2>2, <3>1 DEF InFlight
      <3> QED
        BY <2>2, <3>1, <3>2 DEF Units
    <2>6. /\ IsFiniteSet(Units(n)') /\ Pending(n)' = Pending(n) + d
      <3>1. IsFiniteSet(Units(n))
        BY DEF Ledgered
      <3>2. /\ IsFiniteSet(Units(n) \cup ({w} \X (1..d)))
            /\ Cardinality(Units(n) \cup ({w} \X (1..d))) = Cardinality(Units(n)) + d
        BY <2>5, <3>1, UnitsAdded
      <3> QED
        BY <2>5, <3>2 DEF Pending
    <2>7. Pending(n) \in Nat /\ owed[n] \in Int
      BY <2>1, FS_CardinalityType DEF Ledgered, Pending, Counts
    <2>8. db'[n].used + Pending(n)' = owed'[n]
      BY <1>1, <2>1, <2>2, <2>6, <2>7 DEF Ledgered, Counts
    <2>9. ASSUME NEW m \in SmallModels, m # n
          PROVE  IsFiniteSet(Units(m)') /\ db'[m].used + Pending(m)' = owed'[m]
      BY <2>2, <2>4, <2>9 DEF Ledgered, Pending, Counts
    <2> QED
      BY <2>3, <2>6, <2>8, <2>9 DEF Ledgered
  <1>7. CASE Bump(w)
    <2>1. PICK d \in Nat, n \in SmallModels :
             d = plan[w].delta /\ n = on[w] /\ at[w] = "bumping"
      BY <1>7 DEF Bump, Plan
    <2>2. /\ db' = [db EXCEPT ![n] = Spent(db[n], db[n].used + d, plan[w].status)]
          /\ UNCHANGED <<owed, on, plan>> /\ Goes(w, "idle")
      BY <1>7, <2>1 DEF Bump
    <2>3. Counts'
      BY <1>2, <1>7 DEF Bump, memoryVars
    <2>4. db'[n].used = db[n].used + d /\ \A m \in SmallModels : m # n => db'[m] = db[m]
      <3>1. db[n].used + d \in Nat /\ plan[w].status \in Status /\ db[n] \in Row
        BY <1>1, <2>1 DEF Plan
      <3>2. db'[n] = Spent(db[n], db[n].used + d, plan[w].status)
        BY <2>1, <2>2
      <3>3. \A m \in SmallModels : m # n => db'[m] = db[m]
        BY <2>1, <2>2
      <3> QED
        BY <3>1, <3>2, <3>3, SpentRow
    <2>5. ASSUME NEW m \in SmallModels, m # n
          PROVE  Units(m)' = Units(m)
      <3>1. \A q \in Workers : (q \in InFlight(m)') <=> (q \in InFlight(m))
        BY <2>1, <2>2, <2>5 DEF Goes, InFlight
      <3> QED
        BY <2>2, <3>1, UnitsUntouched
    <2>6. Units(n) = Units(n)' \cup ({w} \X (1..d)) /\ \A i : <<w, i>> \notin Units(n)'
      <3>1. InFlight(n) = InFlight(n)' \cup {w} /\ w \notin InFlight(n)'
        BY <2>1, <2>2 DEF Goes, InFlight
      <3> QED
        BY <2>1, <2>2, <3>1 DEF Units
    <2>7. IsFiniteSet(Units(n)')
      <3>1. Units(n)' \in SUBSET Units(n)
        BY <2>6
      <3> QED
        BY <2>1, <3>1, FS_Subset DEF Ledgered
    <2>8. Pending(n) = Pending(n)' + d
      <3>1. Cardinality(Units(n)' \cup ({w} \X (1..d))) = Cardinality(Units(n)') + d
        BY <2>6, <2>7, UnitsAdded
      <3> QED
        BY <2>6, <3>1 DEF Pending
    <2>9. Pending(n)' \in Nat
      BY <2>7, FS_CardinalityType DEF Pending
    <2>10. db'[n].used + Pending(n)' = owed'[n]
      <3>1. db[n].used + Pending(n) = owed[n] /\ db[n].used \in Nat
        BY <1>1, <2>1 DEF Ledgered
      <3> QED
        BY <2>1, <2>2, <2>4, <2>8, <2>9, <3>1
    <2>11. ASSUME NEW m \in SmallModels, m # n
           PROVE  IsFiniteSet(Units(m)') /\ db'[m].used + Pending(m)' = owed'[m]
      BY <2>2, <2>4, <2>5, <2>11 DEF Ledgered, Pending
    <2> QED
      BY <2>3, <2>7, <2>10, <2>11 DEF Ledgered
  <1> QED
    BY <1>5, <1>6, <1>7 DEF Request

\* A counter that a reset or a new configuration zeroes is forgiven what it held.
LEMMA ZeroedLedger ==
    ASSUME Typed, Counts, Ledgered, NEW m \in SmallModels, NEW row \in Row, row.used = 0,
           db' = [db EXCEPT ![m] = row],
           owed' = [owed EXCEPT ![m] = @ - db[m].used],
           UNCHANGED workerVars
    PROVE  owed' \in [SmallModels -> Int] /\ Ledgered'
  <1>1. \A n \in SmallModels : Units(n)' = Units(n)
    BY DEF Units, InFlight, workerVars
  <1>2. \A n \in SmallModels : /\ db[n].used \in Nat /\ owed[n] \in Int
                               /\ Pending(n) \in Nat
    BY FS_CardinalityType DEF Typed, Row, Counts, Ledgered, Pending
  <1>3. \A n \in SmallModels : Pending(n)' = Pending(n) /\ IsFiniteSet(Units(n)')
    BY <1>1 DEF Pending, Ledgered
  <1>4. owed' \in [SmallModels -> Int]
    BY <1>2 DEF Counts
  <1>5. ASSUME NEW n \in SmallModels PROVE db'[n].used + Pending(n)' = owed'[n]
    <2>1. db[n].used + Pending(n) = owed[n]
      BY DEF Ledgered
    <2>2. CASE n = m
      <3>1. db'[n].used = 0 /\ owed'[n] = owed[n] - db[n].used
        BY <2>2 DEF Typed, Counts
      <3> QED
        BY <1>2, <1>3, <2>1, <3>1
    <2>3. CASE n # m
      BY <1>3, <2>1, <2>3 DEF Typed, Counts
    <2> QED
      BY <2>2, <2>3
  <1> QED
    BY <1>3, <1>4, <1>5 DEF Ledgered

\* The calendar, the loop, the panel and a restart keep the ledger as well.
LEMMA NextLedger == IInv /\ Counts /\ Ledgered /\ [Next]_vars => Counts' /\ Ledgered'
  <1> SUFFICES ASSUME IInv, Counts, Ledgered, [Next]_vars PROVE Counts' /\ Ledgered'
    OBVIOUS
  <1>0. Typed /\ \A m \in SmallModels : db[m] \in Row /\ db[m].used \in Nat
    BY DEF IInv, Typed, Row
  <1>1. ASSUME NEW w \in Workers, Request(w) PROVE Counts' /\ Ledgered'
    BY <1>1, RequestLedger
  <1>2. ASSUME UNCHANGED <<workerVars, owed>>,
               \A m \in SmallModels : db'[m].used = db[m].used
        PROVE  Ledgered'
    <2>1. \A m \in SmallModels : Units(m)' = Units(m)
      BY <1>2 DEF Units, InFlight, workerVars
    <2> QED
      BY <1>2, <2>1 DEF Ledgered, Pending
  <1>3. CASE NewDay \/ NewMonth
    <2>1. \A m \in SmallModels : \E a \in Ages : db'[m] = Aged(db[m], a)
      BY <1>0, <1>3 DEF NewDay, NewMonth, Row, Ages
    <2>2. \A m \in SmallModels : db'[m].used = db[m].used
      BY <1>0, <2>1, AgedRow
    <2>3. UNCHANGED <<loaded, workerVars, owed, adminAt, bounds>>
      BY <1>3 DEF NewDay, NewMonth
    <2>4. Counts'
      BY <2>3 DEF Counts, bounds
    <2> QED
      BY <1>2, <2>2, <2>3, <2>4
  <1>4. CASE CheckResets
    <2>1. UNCHANGED <<db, loaded, workerVars, owed, adminAt, bounds>>
      BY <1>4 DEF CheckResets, diskVars
    <2>2. Counts'
      BY <2>1 DEF Counts, bounds
    <2> QED
      BY <1>2, <2>1, <2>2
  <1>5. ASSUME NEW m \in SmallModels, PersistReset(m) PROVE Counts' /\ Ledgered'
    <2>1. Zeroed(db[m]) \in Row /\ Zeroed(db[m]).used = 0
      BY <1>0, ZeroedRow
    <2>2. /\ db' = [db EXCEPT ![m] = Zeroed(db[m])]
          /\ owed' = [owed EXCEPT ![m] = @ - db[m].used]
          /\ UNCHANGED <<loaded, workerVars, adminAt, bounds>>
      BY <1>5 DEF PersistReset
    <2>3. owed' \in [SmallModels -> Int] /\ Ledgered'
      BY <1>0, <2>1, <2>2, ZeroedLedger
    <2> QED
      BY <2>2, <2>3 DEF Counts, bounds
  <1>6. ASSUME NEW m \in SmallModels, Configure(m) \/ Reset(m) PROVE Counts' /\ Ledgered'
    <2>1. PICK row \in Row : row.used = 0 /\ AdminWrite(m, row)
      <3>1. CASE Configure(m)
        <4>1. \A c \in Configs : Configured(c) \in Row /\ Configured(c).used = 0
          BY QuotaAssumption, ConfiguredIsRow DEF Configured
        <4> QED
          BY <3>1, <4>1 DEF Configure
      <3>2. CASE Reset(m)
        <4>1. Zeroed(db[m]) \in Row /\ Zeroed(db[m]).used = 0
          BY <1>0, ZeroedRow
        <4> QED
          BY <3>2, <4>1 DEF Reset
      <3> QED
        BY <1>6, <3>1, <3>2
    <2>2. /\ db' = [db EXCEPT ![m] = row]
          /\ owed' = [owed EXCEPT ![m] = @ - db[m].used]
          /\ UNCHANGED <<loaded, workerVars, answers, restarts>>
          /\ adminAt' = "invalidating" /\ adminWrites' = adminWrites + 1
      BY <2>1 DEF AdminWrite, memoryVars
    <2>3. owed' \in [SmallModels -> Int] /\ Ledgered'
      BY <1>0, <2>1, <2>2, ZeroedLedger
    <2> QED
      BY <2>2, <2>3 DEF Counts
  <1>7. CASE Invalidate
    <2>1. UNCHANGED <<db, workerVars, owed, bounds>> /\ loaded' = FALSE /\ adminAt' = "idle"
      BY <1>7 DEF Invalidate, diskVars
    <2>2. Counts'
      BY <2>1 DEF Counts, bounds
    <2> QED
      BY <1>2, <2>1, <2>2
  <1>8. CASE Restart
    <2>1. \A m \in SmallModels : Units(m)' = {}
      BY <1>8 DEF Restart, Units, InFlight
    <2>2. \A m \in SmallModels : IsFiniteSet(Units(m)') /\ Pending(m)' = 0
      BY <2>1, FS_EmptySet DEF Pending
    <2>3. \A m \in SmallModels : Pending(m) \in Nat /\ owed[m] \in Int
      BY FS_CardinalityType DEF Ledgered, Pending, Counts
    <2>4. /\ owed' = [m \in SmallModels |-> owed[m] - Pending(m)] /\ db' = db
          /\ loaded' = FALSE /\ adminAt' = "idle" /\ restarts' = restarts + 1
          /\ UNCHANGED <<answers, adminWrites>>
      BY <1>8 DEF Restart
    <2>5. Counts'
      <3>1. loaded' \in BOOLEAN /\ adminAt' \in {"idle", "invalidating"}
        BY <2>4, Zenon
      <3>2. owed' \in [SmallModels -> Int]
        BY <2>3, <2>4
      <3> QED
        BY <2>4, <3>1, <3>2 DEF Counts
    <2>6. ASSUME NEW m \in SmallModels PROVE db'[m].used + Pending(m)' = owed'[m]
      <3>1. owed'[m] = owed[m] - Pending(m) /\ db[m].used + Pending(m) = owed[m]
        BY <2>4 DEF Ledgered
      <3> QED
        BY <1>0, <2>2, <2>3, <2>4, <3>1
    <2> QED
      BY <2>2, <2>5, <2>6 DEF Ledgered
  <1>9. CASE UNCHANGED vars
    <2>1. UNCHANGED <<db, loaded, workerVars, owed, adminAt, bounds>>
      BY <1>9 DEF vars, diskVars, memoryVars
    <2>2. Counts'
      BY <2>1 DEF Counts, bounds
    <2> QED
      BY <1>2, <2>1, <2>2
  <1> QED
    BY <1>1, <1>3, <1>4, <1>5, <1>6, <1>7, <1>8, <1>9 DEF Next

\* Nothing is used, owed or in flight.
LEMMA InitLedger == Init => Counts /\ Ledgered
  <1> SUFFICES ASSUME Init PROVE Counts /\ Ledgered
    OBVIOUS
  <1>1. \A m \in SmallModels : Units(m) = {}
    BY DEF Init, Units, InFlight
  <1>2. \A m \in SmallModels : IsFiniteSet(Units(m)) /\ Pending(m) = 0
    BY <1>1, FS_EmptySet DEF Pending
  <1>3. \A m \in SmallModels : db[m].used = 0 /\ owed[m] = 0
    BY DEF Init, Configured
  <1>4. Counts
    <2>1. loaded \in BOOLEAN
      BY Zenon DEF Init
    <2> QED
      BY <2>1 DEF Init, Counts
  <1> QED
    BY <1>2, <1>3, <1>4 DEF Ledgered

\* Every copy of the counters and every step of a worker keeps its type.
THEOREM QuotaTypes == Spec => []TypeOK
  <1>1. IInv /\ Counts => TypeOK
    BY DEF IInv, Typed, Counts, TypeOK
  <1> QED
    BY <1>1, InitIInv, NextIInv, InitLedger, NextLedger, PTL DEF Spec

\* Every success accounted for is in the database's counter once, whatever the cache lost:
\* what is in flight comes on top, what was forgiven or died with the process is taken off.
THEOREM QuotaLedgerBalances == Spec => []QuotaLedger
  <1>1. Ledgered => QuotaLedger
    BY DEF Ledgered, QuotaLedger
  <1> QED
    BY <1>1, InitIInv, NextIInv, InitLedger, NextLedger, PTL DEF Spec

-----------------------------------------------------------------------------
(* Totals *)

\* A step that takes from the counter of a total quota is an admin's.
LEMMA StepForgives ==
    ASSUME IInv, Counts, [Next]_vars, NEW m \in SmallModels,
           db[m].window = "total", db'[m].used < db[m].used
    PROVE  adminWrites' # adminWrites \/ mem[m].window # "total"
  <1> USE DEF IInv
  <1>0. db[m] \in Row /\ db[m].used \in Nat
    BY DEF Typed, Row
  <1>1. CASE db' = db
    BY <1>0, <1>1
  <1>2. ASSUME NEW w \in Workers, Bump(w) PROVE FALSE
    <2>1. CASE on[w] = m
      <3>1. db'[m] = Spent(db[m], db[m].used + plan[w].delta, plan[w].status)
        BY <1>2, <2>1 DEF Bump, Typed
      <3>2. plan[w].delta \in Nat /\ plan[w].status \in Status
        BY DEF Typed, Plan
      <3>3. db'[m].used = db[m].used + plan[w].delta
        BY <1>0, <3>1, <3>2, SpentRow
      <3> QED
        BY <1>0, <3>2, <3>3
    <2>2. CASE on[w] # m
      BY <1>0, <1>2, <2>2 DEF Bump, Typed
    <2> QED
      BY <2>1, <2>2
  <1>3. CASE NewDay \/ NewMonth
    <2>1. \E a \in Ages : db'[m] = Aged(db[m], a)
      BY <1>0, <1>3 DEF NewDay, NewMonth, Row, Ages
    <2>2. db'[m].used = db[m].used
      BY <1>0, <2>1, AgedRow
    <2> QED
      BY <1>0, <2>2
  <1>4. ASSUME NEW n \in SmallModels, PersistReset(n)
        PROVE  mem[m].window # "total"
    <2>1. CASE n = m
      BY <1>4, <2>1 DEF PersistReset, ResettingRolls
    <2>2. CASE n # m
      BY <1>0, <1>4, <2>2 DEF PersistReset, Typed
    <2> QED
      BY <2>1, <2>2
  <1>5. ASSUME NEW n \in SmallModels, Configure(n) \/ Reset(n)
        PROVE  adminWrites' # adminWrites
    BY <1>5 DEF Configure, Reset, AdminWrite, Counts
  <1>6. ASSUME NEW w \in Workers, Request(w), ~Bump(w) PROVE db' = db
    BY <1>6 DEF Request, Load, Store, Fail, UpdateCache, Route, RouteContended,
                AnswerSkipped, Answer, diskVars
  <1>7. CASE CheckResets \/ Invalidate \/ Restart \/ UNCHANGED vars
    BY <1>1, <1>7 DEF CheckResets, Invalidate, Restart, vars, diskVars
  <1>8. CASE \E w \in Workers : Request(w)
    BY <1>1, <1>2, <1>6, <1>8
  <1>9. CASE \E n \in SmallModels : PersistReset(n) \/ Configure(n) \/ Reset(n)
    BY <1>4, <1>5, <1>9
  <1> QED
    BY <1>3, <1>7, <1>8, <1>9 DEF Next

\* A total quota is forgiven by an admin and by nobody else.
THEOREM TotalsAreForgivenByAdmins == Spec => TotalIsForgivenByAdmin
  <1>1. IInv /\ Counts /\ Ledgered /\ [Next]_vars
        => [\A m \in SmallModels :
              db[m].window = "total" /\ db'[m].used < db[m].used
              => adminWrites' # adminWrites \/ mem[m].window # "total"]_vars
    BY StepForgives
  <1> QED
    BY <1>1, InitIInv, NextIInv, InitLedger, NextLedger, PTL DEF Spec, TotalIsForgivenByAdmin
=============================================================================
