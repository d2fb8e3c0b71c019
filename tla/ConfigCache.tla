----------------------------- MODULE ConfigCache -----------------------------
(***************************************************************************)
(* The snapshot of the configuration (crates/core/src/cache.rs) and the    *)
(* alias map beside it (normalizer.rs). A request asks for the snapshot    *)
(* four times; a miss reads the database twice, each time under its lock,  *)
(* replaces the alias map and stores the snapshot, with awaits in between. *)
(* The admin panel writes the database, releases its lock and drops the    *)
(* snapshot afterwards; some of its handlers do not drop it.               *)
(*                                                                         *)
(* The configuration is its version, the number of writes so far: all that *)
(* is asked of a copy here is which writes it contains. What a version     *)
(* holds is the subject of Catalog.                                        *)
(***************************************************************************)
EXTENDS Integers

CONSTANTS
    Workers,    \* requests
    Admins,     \* handlers of the admin panel that may run at once
    MaxWrites   \* bound on the admin panel's operations

ASSUME CacheAssumption == MaxWrites \in Nat

None == -1      \* no snapshot, an empty alias map

VARIABLES
    version,    \* of the database
    cache,      \* ConfigCache.data
    alias,      \* Normalizer.cache
    \* requests
    stage,      \* which get the request is at
    miss,       \* how far the slow path of that get is
    snap,       \* the snapshot it has read
    names,      \* the alias map it has read
    \* the admin panel
    adminAt,    \* "idle", "written", or where a reload is
    adminNames, \* the alias map a reload has read
    \* history, read by no action
    quiet,      \* a write since the last invalidation was left unannounced
    raced,      \* the last invalidation overlapped a load of older data
    ops         \* operations of the panel so far

data == <<version, cache, alias>>
requests == <<stage, miss, snap, names>>
admin == <<adminAt, adminNames, ops>>
history == <<quiet, raced>>
vars == <<data, requests, admin, history>>

Versions == 0..MaxWrites
Gets == {"entry", "keys", "strategy", "pricing"}
Stages == Gets \cup {"idle", "resolve"}
Misses == {"none", "missed", "read", "named", "swapped"}

TypeOK ==
    /\ version \in Versions
    /\ cache \in Versions \cup {None}
    /\ alias \in Versions \cup {None}
    /\ stage \in [Workers -> Stages]
    /\ miss \in [Workers -> Misses]
    /\ snap \in [Workers -> Versions]
    /\ names \in [Workers -> Versions]
    /\ adminAt \in [Admins -> {"idle", "written", "reloading", "renaming"}]
    /\ adminNames \in [Admins -> Versions]
    /\ quiet \in BOOLEAN /\ raced \in BOOLEAN
    /\ ops \in Versions

-----------------------------------------------------------------------------
(* Requests *)

\* Where a request goes once a get has returned.
After(s) == CASE s = "entry"    -> "resolve"
              [] s = "keys"     -> "strategy"
              [] s = "strategy" -> "pricing"
              [] OTHER          -> "idle"

Arrive(w) ==
    /\ stage[w] = "idle"
    /\ stage' = [stage EXCEPT ![w] = "entry"]
    /\ UNCHANGED <<data, miss, snap, names, admin, history>>

\* The fast path of ConfigCache::get
Hit(w) ==
    /\ stage[w] \in Gets /\ miss[w] = "none" /\ cache # None
    /\ stage' = [stage EXCEPT ![w] = After(@)]
    /\ UNCHANGED <<data, miss, snap, names, admin, history>>

\* Its slow path: nothing was cached when it looked ...
Miss(w) ==
    /\ stage[w] \in Gets /\ miss[w] = "none" /\ cache = None
    /\ miss' = [miss EXCEPT ![w] = "missed"]
    /\ UNCHANGED <<data, stage, snap, names, admin, history>>

\* ... load_all, under the database lock ...
ReadSnapshot(w) ==
    /\ miss[w] = "missed"
    /\ snap' = [snap EXCEPT ![w] = version]
    /\ miss' = [miss EXCEPT ![w] = "read"]
    /\ UNCHANGED <<data, stage, names, admin, history>>

\* ... load_alias_mapping, under the database lock again ...
ReadNames(w) ==
    /\ miss[w] = "read"
    /\ names' = [names EXCEPT ![w] = version]
    /\ miss' = [miss EXCEPT ![w] = "named"]
    /\ UNCHANGED <<data, stage, snap, admin, history>>

\* Mutant: a load leaves the alias map it finds.
KeepNames(w) ==
    /\ miss[w] = "named"
    /\ miss' = [miss EXCEPT ![w] = "swapped"]
    /\ UNCHANGED <<data, stage, snap, names, admin, history>>

\* ... Normalizer::reload ...
SwapNames(w) ==
    /\ miss[w] = "named"
    /\ alias' = names[w]
    /\ miss' = [miss EXCEPT ![w] = "swapped"]
    /\ UNCHANGED <<version, cache, stage, snap, names, admin, history>>

\* ... and the store, whoever else has stored meanwhile.
Store(w) ==
    /\ miss[w] = "swapped"
    /\ cache' = snap[w]
    /\ miss' = [miss EXCEPT ![w] = "none"]
    /\ stage' = [stage EXCEPT ![w] = After(@)]
    /\ UNCHANGED <<version, alias, snap, names, admin, history>>

\* The name is resolved by the alias map of the moment: to a model, or to none
\* (the request ends).
Resolve(w) ==
    /\ stage[w] = "resolve"
    /\ \E s \in {"keys", "idle"} : stage' = [stage EXCEPT ![w] = s]
    /\ UNCHANGED <<data, miss, snap, names, admin, history>>

\* The request ends between two gets, or is dropped within one.
Abandon(w) ==
    /\ stage[w] # "idle"
    /\ stage' = [stage EXCEPT ![w] = "idle"]
    /\ miss' = [miss EXCEPT ![w] = "none"]
    /\ UNCHANGED <<data, snap, names, admin, history>>

-----------------------------------------------------------------------------
(* The admin panel *)

\* A request that will store a snapshot.
Loading(w) == miss[w] \in {"read", "named", "swapped"}

\* A load that will store, or has stored its names from, before the last write.
OldLoad ==
    \/ \E w \in Workers : Loading(w) /\ snap[w] < version
    \/ \E w \in Workers : miss[w] = "swapped" /\ alias < version
    \/ \E a \in Admins : adminAt[a] = "renaming" /\ adminNames[a] < version

\* Somebody still has, or is about to store, a configuration without this write.
SomebodyKnows ==
    \/ cache # None
    \/ \E w \in Workers : Loading(w)
    \/ \E a \in Admins : adminAt[a] = "renaming"

Write(a) ==
    /\ adminAt[a] = "idle" /\ ops < MaxWrites
    /\ ops' = ops + 1
    /\ version' = version + 1
    /\ UNCHANGED <<cache, alias, requests, adminNames, raced>>

\* The handlers that go on to drop the snapshot: keys (create, update, delete,
\* reorder), routing strategy, pricing, bindings (add, remove, weight, reorder),
\* discovered models and small-model quotas.
WriteAndAnnounce(a) ==
    /\ Write(a)
    /\ adminAt' = [adminAt EXCEPT ![a] = "written"]
    /\ UNCHANGED quiet

\* The handlers that leave it: channels (update, delete) and models (rename,
\* delete).
WriteQuietly(a) ==
    /\ Write(a)
    /\ quiet' = (quiet \/ SomebodyKnows)
    /\ UNCHANGED adminAt

\* Mutant: the invalidation gives up when a load has the lock.
InvalidateUnlessBusy(a) ==
    /\ adminAt[a] = "written"
    /\ adminAt' = [adminAt EXCEPT ![a] = "idle"]
    /\ cache' = IF \E w \in Workers : miss[w] = "swapped" THEN cache ELSE None
    /\ quiet' = FALSE
    /\ raced' = OldLoad
    /\ UNCHANGED <<version, alias, requests, adminNames, ops>>

\* ConfigCache::invalidate, at the end of a handler
Invalidate(a) ==
    /\ adminAt[a] = "written"
    /\ adminAt' = [adminAt EXCEPT ![a] = "idle"]
    /\ cache' = None
    /\ quiet' = FALSE
    /\ raced' = OldLoad
    /\ UNCHANGED <<version, alias, requests, adminNames, ops>>

\* A handler whose client is gone stops between its write and the invalidation.
DropHandler(a) ==
    /\ adminAt[a] = "written"
    /\ adminAt' = [adminAt EXCEPT ![a] = "idle"]
    /\ quiet' = (quiet \/ SomebodyKnows)
    /\ UNCHANGED <<data, requests, adminNames, ops, raced>>

\* reload_handler drops the snapshot, reads the names under the database lock
\* and replaces the alias map, whatever a request has loaded meanwhile.
Reload(a) ==
    /\ adminAt[a] = "idle" /\ ops < MaxWrites
    /\ ops' = ops + 1
    /\ adminAt' = [adminAt EXCEPT ![a] = "reloading"]
    /\ cache' = None
    /\ quiet' = FALSE
    /\ raced' = OldLoad
    /\ UNCHANGED <<version, alias, requests, adminNames>>

ReloadReads(a) ==
    /\ adminAt[a] = "reloading"
    /\ adminNames' = [adminNames EXCEPT ![a] = version]
    /\ adminAt' = [adminAt EXCEPT ![a] = "renaming"]
    /\ UNCHANGED <<data, requests, ops, history>>

ReloadSwaps(a) ==
    /\ adminAt[a] = "renaming"
    /\ alias' = adminNames[a]
    /\ adminAt' = [adminAt EXCEPT ![a] = "idle"]
    /\ UNCHANGED <<version, cache, requests, adminNames, ops, history>>

-----------------------------------------------------------------------------

Init ==
    /\ version = 0
    /\ cache = None
    /\ alias = None
    /\ stage = [w \in Workers |-> "idle"]
    /\ miss = [w \in Workers |-> "none"]
    /\ snap = [w \in Workers |-> 0]
    /\ names = [w \in Workers |-> 0]
    /\ adminAt = [a \in Admins |-> "idle"]
    /\ adminNames = [a \in Admins |-> 0]
    /\ quiet = FALSE /\ raced = FALSE
    /\ ops = 0

Request(w) ==
    \/ Arrive(w) \/ Hit(w) \/ Miss(w)
    \/ ReadSnapshot(w) \/ ReadNames(w) \/ SwapNames(w) \/ Store(w)
    \/ Resolve(w) \/ Abandon(w)

Admin(a) ==
    \/ WriteAndAnnounce(a) \/ WriteQuietly(a) \/ Invalidate(a) \/ DropHandler(a)
    \/ Reload(a) \/ ReloadReads(a) \/ ReloadSwaps(a)

Next == (\E w \in Workers : Request(w)) \/ (\E a \in Admins : Admin(a))

Spec == Init /\ [][Next]_vars

-----------------------------------------------------------------------------
(* Properties *)

\* The cached snapshot holds every write, and so does the alias map beside it.
Fresh == cache = None \/ (cache = version /\ alias = version)

\* A handler has written and has not yet dropped the snapshot.
Announcing == \E a \in Admins : adminAt[a] = "written"

\* What the cache serves is the database's configuration, unless a handler is
\* between its write and its invalidation, a write was never announced, or an
\* invalidation overlapped a load (ConfigCache::get, invalidate). There is no
\* fourth way to serve old data, nor to keep old names beside a new snapshot.
FreshUnlessExcused == Announcing \/ quiet \/ raced \/ Fresh

\* A name is resolved only once some alias map was loaded: the snapshot that
\* lets a request pass the fast path is stored after its names.
ResolvesAfterLoad == \A w \in Workers : stage[w] = "resolve" => alias # None

\* No handler and no load is under way.
AllQuiet == (\A a \in Admins : adminAt[a] = "idle") /\ (\A w \in Workers : miss[w] = "none")

\* After an admin's write the next request sees it ("explicitely invalidated by
\* invalidate (called by admin endpoints that mutate config)"), races aside.
AdminWritesAreSeen == AllQuiet /\ ~raced => Fresh

\* "last-writer-wins is fine here since both loaded from the same source", quiet
\* writes aside.
LoadersAgree == AllQuiet /\ ~quiet => Fresh
=============================================================================
