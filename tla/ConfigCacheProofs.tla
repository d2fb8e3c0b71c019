-------------------------- MODULE ConfigCacheProofs --------------------------
(***************************************************************************)
(* What the cache serves, for any number of requests, handlers and writes. *)
(*                                                                         *)
(* FreshUnlessExcused speaks of the stored snapshot and is not inductive:  *)
(* a load that has read and not yet stored decides what is stored next.    *)
(* Settled adds that no such load is old; Past orders the copies of the    *)
(* configuration, so that a copy which is not old is current.              *)
(***************************************************************************)
EXTENDS ConfigCache, TLAPS

Excused == Announcing \/ quiet \/ raced

\* Without an excuse, what is stored and what is about to be stored is current.
Settled == Excused \/ (Fresh /\ ~OldLoad)

\* No copy is ahead of the database; the names of a load are read after its snapshot.
Past ==
    /\ version <= ops
    /\ cache <= version /\ alias <= version
    /\ \A w \in Workers : /\ snap[w] <= version /\ names[w] <= version
                          /\ miss[w] \in {"named", "swapped"} => snap[w] <= names[w]
    /\ \A a \in Admins : adminNames[a] <= version

\* Whoever holds, stores or uses a snapshot has had its names put in place.
Named ==
    /\ cache # None => alias # None
    /\ \A w \in Workers : miss[w] = "swapped" \/ stage[w] = "resolve" => alias # None

LEMMA InitTypeOK == Init => TypeOK /\ Past
  <1> SUFFICES ASSUME Init PROVE TypeOK /\ Past
    OBVIOUS
  <1>1. TypeOK
    <2>1. 0 \in Versions
      BY CacheAssumption DEF Versions
    <2> QED
      BY <2>1 DEF Init, TypeOK, Stages, Misses, Gets
  <1>2. Past
    BY DEF Init, Past, None
  <1> QED
    BY <1>1, <1>2

LEMMA NextTypeOK == TypeOK /\ Past /\ [Next]_vars => TypeOK'
  <1> SUFFICES ASSUME TypeOK, Past, [Next]_vars PROVE TypeOK'
    OBVIOUS
  <1> USE CacheAssumption DEF TypeOK, Versions, Stages, Misses, Gets
  <1>1. ASSUME NEW w \in Workers, Request(w) PROVE TypeOK'
    <2>0. \A s : After(s) \in Stages
      BY DEF After
    <2>1. CASE Arrive(w)
      BY <2>1 DEF Arrive, data, admin, history
    <2>2. CASE Hit(w)
      BY <2>0, <2>2 DEF Hit, data, admin, history
    <2>3. CASE Miss(w)
      BY <2>3 DEF Miss, data, admin, history
    <2>4. CASE ReadSnapshot(w)
      BY <2>4 DEF ReadSnapshot, data, admin, history
    <2>5. CASE ReadNames(w)
      BY <2>5 DEF ReadNames, data, admin, history
    <2>6. CASE SwapNames(w)
      BY <2>6 DEF SwapNames, admin, history
    <2>7. CASE Store(w)
      BY <2>0, <2>7 DEF Store, admin, history
    <2>8. CASE Resolve(w)
      BY <2>8 DEF Resolve, data, admin, history
    <2>9. CASE Abandon(w)
      BY <2>9 DEF Abandon, data, admin, history
    <2> QED
      BY <1>1, <2>1, <2>2, <2>3, <2>4, <2>5, <2>6, <2>7, <2>8, <2>9 DEF Request
  <1>2. ASSUME NEW a \in Admins, Admin(a) PROVE TypeOK'
    <2>0. SomebodyKnows \in BOOLEAN /\ OldLoad \in BOOLEAN
      BY DEF SomebodyKnows, OldLoad
    <2>1. ASSUME Write(a) PROVE version' \in Versions /\ ops' \in Versions
      BY <2>1 DEF Write, Past
    <2>2. CASE WriteAndAnnounce(a)
      BY <2>1, <2>2 DEF WriteAndAnnounce, Write, requests
    <2>3. CASE WriteQuietly(a)
      BY <2>0, <2>1, <2>3 DEF WriteQuietly, Write, requests
    <2>4. CASE Invalidate(a)
      BY <2>0, <2>4 DEF Invalidate, requests
    <2>5. CASE DropHandler(a)
      BY <2>0, <2>5 DEF DropHandler, data, requests
    <2>6. CASE Reload(a)
      <3>1. ops' \in Versions
        BY <2>6 DEF Reload
      <3> QED
        BY <2>0, <2>6, <3>1 DEF Reload, requests
    <2>7. CASE ReloadReads(a)
      BY <2>7 DEF ReloadReads, data, requests, history
    <2>8. CASE ReloadSwaps(a)
      BY <2>8 DEF ReloadSwaps, requests, history
    <2> QED
      BY <1>2, <2>2, <2>3, <2>4, <2>5, <2>6, <2>7, <2>8 DEF Admin
  <1>3. CASE UNCHANGED vars
    BY <1>3 DEF vars, data, requests, admin, history
  <1> QED
    BY <1>1, <1>2, <1>3 DEF Next

LEMMA NextPast == TypeOK /\ Past /\ [Next]_vars => Past'
  <1> SUFFICES ASSUME TypeOK, Past, [Next]_vars PROVE Past'
    OBVIOUS
  <1> USE CacheAssumption DEF TypeOK, Versions, None, Past
  <1>1. ASSUME NEW w \in Workers, Request(w) PROVE Past'
    <2>1. CASE Arrive(w) \/ Hit(w) \/ Resolve(w)
      BY <2>1 DEF Arrive, Hit, Resolve, data, admin, history
    <2>2. CASE Miss(w) \/ Abandon(w)
      BY <2>2 DEF Miss, Abandon, data, admin, history
    <2>3. CASE ReadSnapshot(w)
      BY <2>3 DEF ReadSnapshot, data, admin, history
    <2>4. CASE ReadNames(w)
      BY <2>4 DEF ReadNames, data, admin, history
    <2>5. CASE SwapNames(w)
      BY <2>5 DEF SwapNames, admin, history
    <2>6. CASE Store(w)
      BY <2>6 DEF Store, admin, history
    <2> QED
      BY <1>1, <2>1, <2>2, <2>3, <2>4, <2>5, <2>6 DEF Request
  <1>2. ASSUME NEW a \in Admins, Admin(a) PROVE Past'
    <2>1. CASE Write(a)
      BY <2>1 DEF Write, requests
    <2>2. CASE Invalidate(a) \/ DropHandler(a) \/ Reload(a)
      BY <2>2 DEF Invalidate, DropHandler, Reload, data, requests
    <2>3. CASE ReloadReads(a)
      BY <2>3 DEF ReloadReads, data, requests, history
    <2>4. CASE ReloadSwaps(a)
      BY <2>4 DEF ReloadSwaps, requests, history
    <2> QED
      BY <1>2, <2>1, <2>2, <2>3, <2>4 DEF Admin, WriteAndAnnounce, WriteQuietly
  <1>3. CASE UNCHANGED vars
    BY <1>3 DEF vars, data, requests, admin, history
  <1> QED
    BY <1>1, <1>2, <1>3 DEF Next

\* Copies of the configuration are versions the database has had.
THEOREM CacheTypes == Spec => [](TypeOK /\ Past)
  BY InitTypeOK, NextTypeOK, NextPast, PTL DEF Spec

-----------------------------------------------------------------------------

LEMMA NextNamed == TypeOK /\ Named /\ [Next]_vars => Named'
  <1> SUFFICES ASSUME TypeOK, Named, [Next]_vars PROVE Named'
    OBVIOUS
  <1> USE DEF TypeOK, Versions, Stages, Misses, Gets, None, Named
  <1>1. ASSUME NEW w \in Workers, Request(w) PROVE Named'
    <2>1. CASE Arrive(w)
      BY <2>1 DEF Arrive, data
    <2>2. CASE Hit(w)
      BY <2>2 DEF Hit, After, data
    <2>3. CASE Miss(w) \/ ReadSnapshot(w) \/ ReadNames(w)
      BY <2>3 DEF Miss, ReadSnapshot, ReadNames, data
    <2>4. CASE SwapNames(w)
      BY <2>4 DEF SwapNames
    <2>5. CASE Store(w)
      BY <2>5 DEF Store, After
    <2>6. CASE Resolve(w) \/ Abandon(w)
      BY <2>6 DEF Resolve, Abandon, data
    <2> QED
      BY <1>1, <2>1, <2>2, <2>3, <2>4, <2>5, <2>6 DEF Request
  <1>2. ASSUME NEW a \in Admins, Admin(a) PROVE Named'
    BY <1>2 DEF Admin, WriteAndAnnounce, WriteQuietly, Write, Invalidate, DropHandler,
                Reload, ReloadReads, ReloadSwaps, data, requests
  <1>3. CASE UNCHANGED vars
    BY <1>3 DEF vars, data, requests
  <1> QED
    BY <1>1, <1>2, <1>3 DEF Next

\* No request resolves a model name before a load has put the names in place,
\* whatever else loads, invalidates or reloads at the same time.
THEOREM NamesBeforeUse == Spec => []ResolvesAfterLoad
  <1>1. Init => Named
    BY DEF Init, Named, None
  <1>2. Named => ResolvesAfterLoad
    BY DEF Named, ResolvesAfterLoad
  <1> QED
    BY <1>1, <1>2, CacheTypes, NextNamed, PTL DEF Spec

-----------------------------------------------------------------------------

\* A load changes no excuse, and neither makes an old load nor stores one.
LEMMA RequestSettled ==
    ASSUME TypeOK, Past, Settled, NEW w \in Workers, Request(w)
    PROVE  Settled'
  <1> USE DEF TypeOK, Versions, Past, Loading
  <1>0. Excused' <=> Excused
    BY DEF Request, Arrive, Hit, Miss, ReadSnapshot, ReadNames, SwapNames, Store, Resolve,
           Abandon, Excused, Announcing, admin, history
  <1>1. SUFFICES ASSUME ~Excused PROVE Fresh' /\ ~OldLoad'
    BY <1>0 DEF Settled
  <1>2. Fresh /\ ~OldLoad
    BY <1>1 DEF Settled
  <1>3. CASE Arrive(w) \/ Hit(w) \/ Resolve(w)
    BY <1>2, <1>3 DEF Arrive, Hit, Resolve, data, admin, Fresh, OldLoad
  <1>4. CASE Miss(w) \/ Abandon(w)
    BY <1>2, <1>4 DEF Miss, Abandon, data, admin, Fresh, OldLoad
  <1>5. CASE ReadSnapshot(w)
    BY <1>2, <1>5 DEF ReadSnapshot, data, admin, Fresh, OldLoad
  <1>6. CASE ReadNames(w)
    BY <1>2, <1>6 DEF ReadNames, data, admin, Fresh, OldLoad
  <1>7. CASE SwapNames(w)
    <2>1. snap[w] = version /\ names[w] = version
      BY <1>2, <1>7 DEF SwapNames, OldLoad
    <2> QED
      BY <1>2, <1>7, <2>1 DEF SwapNames, admin, Fresh, OldLoad
  <1>8. CASE Store(w)
    <2>1. snap[w] = version /\ alias = version
      BY <1>2, <1>8 DEF Store, OldLoad, None
    <2> QED
      BY <1>2, <1>8, <2>1 DEF Store, admin, Fresh, OldLoad
  <1> QED
    BY <1>3, <1>4, <1>5, <1>6, <1>7, <1>8 DEF Request

\* A write is an excuse until it is announced, and one nobody could have missed
\* needs none; an invalidation leaves nothing stored.
LEMMA AdminSettled ==
    ASSUME TypeOK, Past, Settled, NEW a \in Admins, Admin(a)
    PROVE  Settled'
  <1> USE DEF TypeOK, Versions, Past, Loading
  <1>1. CASE WriteAndAnnounce(a)
    BY <1>1 DEF WriteAndAnnounce, Settled, Excused, Announcing
  <1>2. ASSUME ~SomebodyKnows PROVE Fresh /\ ~OldLoad
    BY <1>2 DEF SomebodyKnows, Fresh, OldLoad
  <1>3. CASE WriteQuietly(a)
    <2>1. CASE SomebodyKnows
      BY <1>3, <2>1 DEF WriteQuietly, Settled, Excused
    <2>2. CASE ~SomebodyKnows
      <3>1. ~SomebodyKnows'
        BY <1>3, <2>2 DEF WriteQuietly, Write, requests, SomebodyKnows
      <3> QED
        BY <3>1 DEF SomebodyKnows, Fresh, OldLoad, Settled
    <2> QED
      BY <2>1, <2>2
  <1>4. CASE Invalidate(a) \/ Reload(a)
    <2>1. Fresh'
      BY <1>4 DEF Invalidate, Reload, Fresh
    <2>2. OldLoad' => OldLoad
      BY <1>4 DEF Invalidate, Reload, OldLoad, requests
    <2>3. raced' = OldLoad
      BY <1>4 DEF Invalidate, Reload
    <2> QED
      BY <2>1, <2>2, <2>3 DEF Settled, Excused
  <1>5. CASE DropHandler(a)
    <2>1. CASE SomebodyKnows
      BY <1>5, <2>1 DEF DropHandler, Settled, Excused
    <2>2. CASE ~SomebodyKnows
      <3>1. ~SomebodyKnows'
        BY <1>5, <2>2 DEF DropHandler, data, requests, SomebodyKnows
      <3> QED
        BY <3>1 DEF SomebodyKnows, Fresh, OldLoad, Settled
    <2> QED
      BY <2>1, <2>2
  <1>6. CASE ReloadReads(a)
    <2>1. Excused' <=> Excused
      BY <1>6 DEF ReloadReads, Excused, Announcing, history
    <2>2. Fresh' <=> Fresh
      BY <1>6 DEF ReloadReads, Fresh, data
    <2>3. OldLoad' => OldLoad
      BY <1>6 DEF ReloadReads, OldLoad, data, requests
    <2> QED
      BY <2>1, <2>2, <2>3 DEF Settled
  <1>7. CASE ReloadSwaps(a)
    <2>1. Excused' <=> Excused
      BY <1>7 DEF ReloadSwaps, Excused, Announcing, history
    <2>2. SUFFICES ASSUME ~Excused PROVE Fresh' /\ ~OldLoad'
      BY <2>1 DEF Settled
    <2>3. Fresh /\ ~OldLoad
      BY <2>2 DEF Settled
    <2>4. adminNames[a] = version
      BY <1>7, <2>3 DEF ReloadSwaps, OldLoad
    <2> QED
      BY <1>7, <2>3, <2>4 DEF ReloadSwaps, Fresh, OldLoad, requests
  <1> QED
    BY <1>1, <1>3, <1>4, <1>5, <1>6, <1>7 DEF Admin

LEMMA NextSettled == TypeOK /\ Past /\ Settled /\ [Next]_vars => Settled'
  <1> SUFFICES ASSUME TypeOK, Past, Settled, [Next]_vars PROVE Settled'
    OBVIOUS
  <1>1. CASE UNCHANGED vars
    BY <1>1 DEF vars, data, requests, admin, history, Settled, Excused, Announcing, Fresh,
                OldLoad, Loading
  <1> QED
    BY <1>1, RequestSettled, AdminSettled DEF Next

\* An old configuration is served only while a handler is between its write and
\* its invalidation, after a write that was never announced, or after an
\* invalidation that overlapped a load.
THEOREM ServesFresh == Spec => []FreshUnlessExcused
  <1>1. Init => Settled
    BY DEF Init, Settled, Fresh, OldLoad, Loading
  <1>2. Settled => FreshUnlessExcused
    BY DEF Settled, Excused, FreshUnlessExcused
  <1> QED
    BY <1>1, <1>2, CacheTypes, NextSettled, PTL DEF Spec
=============================================================================
