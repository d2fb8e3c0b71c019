------------------------------- MODULE Catalog -------------------------------
(***************************************************************************)
(* The configuration in the database: models, channels, their keys, the    *)
(* pool of discovered models, the bindings between them, and the usage     *)
(* rows that refer to them (crates/storage/src/{models,channels,keys}.rs). *)
(* They are written by the handlers of the admin panel                     *)
(* (crates/server/src/admin/handlers.rs), by the import at start           *)
(* (bootstrap.rs) and by requests that log their usage.                    *)
(*                                                                         *)
(* A handler checks and writes under one lock of the database, so each is  *)
(* one step. What may come between are the handlers of other admins:       *)
(* every check is against a table that another handler may have changed    *)
(* since the page was drawn. An operation the code refuses is no step.     *)
(***************************************************************************)
EXTENDS Integers, FiniteSets, FiniteSetsExt

CONSTANTS
    MaxRows,        \* bound on the ids of models, channels and keys
    Names,          \* of models
    Folded,         \* a name, trimmed and in lower case
    ApiKeys, Raws,  \* secrets of keys, upstream names of models
    Priorities,     \* an admin may give a key
    Prices, Quotas, \* an admin may set, besides none
    MaxWeight,      \* bound on the weights
    MaxInt32,       \* i32::MAX, scaled down
    MaxEdits        \* bound on the writes

CatalogAssumption ==
    /\ MaxRows \in Nat \ {0} /\ MaxEdits \in Nat /\ MaxWeight \in Nat \ {0}
    /\ MaxInt32 \in Nat /\ MaxInt32 >= 100
    /\ Priorities \subseteq (-MaxInt32 - 1)..MaxInt32
    /\ Folded \in [Names -> Names]
    /\ Prices \cup Quotas \subseteq Nat \ {0}

None == 0           \* no price (free), no quota (unlimited)
Gap == 10           \* between the priorities the server hands out
DefaultPriority == 100  \* of an imported key or binding

Ids == 1..MaxRows
Strategies == {"priority", "load_balance"}
Int32 == (-MaxInt32 - 1)..MaxInt32

VARIABLES
    models,     \* id -> name, strategy
    channels,   \* ids
    keys,       \* id -> channel, secret, priority
    discovered, \* <<channel, raw name>> -> quota
    bindings,   \* <<model, channel, raw name>> -> priority, weight, price
    logged,     \* usage rows: <<model, channel, key>>
    crossed,    \* history: a key was edited under another channel's path
    edits

config == <<models, channels, keys, discovered, bindings>>
vars == <<config, logged, crossed, edits>>

Model == [name : Names, strategy : Strategies]
Key == [channel : Ids, api_key : ApiKeys, priority : Int32]
Binding == [priority : Int32, weight : 1..MaxWeight, price : Prices \cup {None}]

TypeOK ==
    /\ DOMAIN models \subseteq Ids /\ models \in [DOMAIN models -> Model]
    /\ channels \subseteq Ids
    /\ DOMAIN keys \subseteq Ids /\ keys \in [DOMAIN keys -> Key]
    /\ DOMAIN discovered \subseteq Ids \X Raws
    /\ discovered \in [DOMAIN discovered -> Quotas \cup {None}]
    /\ DOMAIN bindings \subseteq Ids \X Ids \X Raws
    /\ bindings \in [DOMAIN bindings -> Binding]
    /\ logged \subseteq Ids \X Ids \X Ids
    /\ crossed \in BOOLEAN
    /\ edits \in 0..MaxEdits

----------------------------------------------------------------------------
(* Tables as functions from their primary keys. *)

With(t, id, row) == [i \in DOMAIN t \cup {id} |-> IF i = id THEN row ELSE t[i]]
Without(t, S) == [i \in DOMAIN t \ S |-> t[i]]

\* INTEGER PRIMARY KEY without AUTOINCREMENT: the ids of deleted rows return.
NextId(S) == IF S = {} THEN 1 ELSE Max(S) + 1

\* Arithmetic of i32: what is past the end wraps around.
Wrapped(n) == ((n + MaxInt32 + 1) % (2 * (MaxInt32 + 1))) - MaxInt32 - 1

\* The largest priority of some rows, 0 when there are none, and one gap on.
AfterLast(rows) ==
    Wrapped(Gap + IF rows = {} THEN 0 ELSE Max({r.priority : r \in rows}))

KeysOf(c) == {k \in DOMAIN keys : keys[k].channel = c}
BindingsOf(m) == {b \in DOMAIN bindings : b[1] = m}

\* Whether another key of a channel has the secret already.
Taken(c, a, but) == \E k \in KeysOf(c) \ but : keys[k].api_key = a

Edit == edits < MaxEdits /\ edits' = edits + 1
----------------------------------------------------------------------------
(* Models. *)

Named(n) == \E m \in DOMAIN models : models[m].name = n

CreateModel(n) ==
    /\ Edit /\ ~Named(n) /\ NextId(DOMAIN models) \in Ids
    /\ models' = With(models, NextId(DOMAIN models), [name |-> n, strategy |-> "priority"])
    /\ UNCHANGED <<channels, keys, discovered, bindings, logged, crossed>>

RenameModel(m, n) ==
    /\ Edit /\ m \in DOMAIN models
    /\ Named(n) => models[m].name = n
    /\ models' = [models EXCEPT ![m].name = n]
    /\ UNCHANGED <<channels, keys, discovered, bindings, logged, crossed>>

UpdateRoutingStrategy(m, s) ==
    /\ Edit /\ m \in DOMAIN models
    /\ models' = [models EXCEPT ![m].strategy = s]
    /\ UNCHANGED <<channels, keys, discovered, bindings, logged, crossed>>

\* The bindings of the model cascade, its usage rows refuse.
DeleteModel(m) ==
    /\ Edit /\ m \in DOMAIN models
    /\ \A u \in logged : u[1] # m
    /\ models' = Without(models, {m})
    /\ bindings' = Without(bindings, BindingsOf(m))
    /\ UNCHANGED <<channels, keys, discovered, logged, crossed>>
----------------------------------------------------------------------------
(* Channels. Their name, address, provider and group are no one's key. *)

CreateChannel ==
    /\ Edit /\ NextId(channels) \in Ids
    /\ channels' = channels \cup {NextId(channels)}
    /\ UNCHANGED <<models, keys, discovered, bindings, logged, crossed>>

\* Keys, pool and bindings cascade; a usage row of the channel, or of one of
\* the keys that would go with it, refuses.
DeleteChannel(c) ==
    /\ Edit /\ c \in channels
    /\ \A u \in logged : u[2] # c /\ u[3] \notin KeysOf(c)
    /\ channels' = channels \ {c}
    /\ keys' = Without(keys, KeysOf(c))
    /\ discovered' = Without(discovered, {d \in DOMAIN discovered : d[1] = c})
    /\ bindings' = Without(bindings, {b \in DOMAIN bindings : b[2] = c})
    /\ UNCHANGED <<models, logged, crossed>>
----------------------------------------------------------------------------
(* Keys. *)

CreateKey(c, a) ==
    /\ Edit /\ c \in channels /\ NextId(DOMAIN keys) \in Ids
    /\ ~Taken(c, a, {})
    /\ keys' = With(keys, NextId(DOMAIN keys),
                    [channel |-> c, api_key |-> a,
                     priority |-> AfterLast({keys[k] : k \in KeysOf(c)})])
    /\ UNCHANGED <<models, channels, discovered, bindings, logged, crossed>>

\* The path names a channel and a key. The secret is compared with the keys of
\* the channel in the path; the row is found by the key's id alone.
UpdateKey(c, k, a, p) ==
    /\ Edit /\ k \in DOMAIN keys
    /\ ~Taken(c, a, {k})
    /\ keys' = [keys EXCEPT ![k].api_key = a, ![k].priority = p]
    /\ crossed' = (crossed \/ keys[k].channel # c)
    /\ UNCHANGED <<models, channels, discovered, bindings, logged>>

\* All keys of the channel, each once: the list must be the page's whole order.
ReorderKeys(c, pos) ==
    /\ Edit /\ KeysOf(c) # {}
    /\ keys' = [k \in DOMAIN keys |->
                   IF keys[k].channel = c
                   THEN [keys[k] EXCEPT !.priority = Wrapped(Gap * pos[k])] ELSE keys[k]]
    /\ UNCHANGED <<models, channels, discovered, bindings, logged, crossed>>

DeleteKey(k) ==
    /\ Edit /\ k \in DOMAIN keys
    /\ \A u \in logged : u[3] # k
    /\ keys' = Without(keys, {k})
    /\ UNCHANGED <<models, channels, discovered, bindings, logged, crossed>>
----------------------------------------------------------------------------
(* The pool of discovered models. *)

\* A model that is there already keeps its quota.
\* Mutant: the row is written anew.
UpsertAnew(t, c, r) == With(t, <<c, r>>, None)
Upsert(t, c, r) == IF <<c, r>> \in DOMAIN t THEN t ELSE With(t, <<c, r>>, None)

AddDiscoveredModel(c, r) ==
    /\ Edit /\ c \in channels
    /\ discovered' = Upsert(discovered, c, r)
    /\ UNCHANGED <<models, channels, keys, bindings, logged, crossed>>

\* Creates the row when there is none; the foreign key asks for the channel.
UpdateSmallModelQuota(c, r, q) ==
    /\ Edit /\ c \in channels
    /\ discovered' = With(discovered, <<c, r>>, q)
    /\ UNCHANGED <<models, channels, keys, bindings, logged, crossed>>

\* The bindings of all models to one row of the pool.
BindingCount(c, r) == Cardinality({b \in DOMAIN bindings : b[2] = c /\ b[3] = r})

\* Mutant: the count of bindings is not asked for.
DeleteDiscoveredBound(c, r) ==
    /\ Edit /\ <<c, r>> \in DOMAIN discovered
    /\ discovered' = Without(discovered, {<<c, r>>})
    /\ UNCHANGED <<models, channels, keys, bindings, logged, crossed>>
DeleteDiscoveredModel(c, r) ==
    /\ Edit /\ <<c, r>> \in DOMAIN discovered
    /\ BindingCount(c, r) = 0
    /\ discovered' = Without(discovered, {<<c, r>>})
    /\ UNCHANGED <<models, channels, keys, bindings, logged, crossed>>
----------------------------------------------------------------------------
(* Bindings. *)

\* The row of a binding that is put in place: the price of one that is there
\* already stays, its weight starts again.
\* Mutant: the whole row is replaced.
BoundAnew(b, p) == [priority |-> p, weight |-> 1, price |-> None]
Bound(b, p) ==
    [priority |-> p, weight |-> 1,
     price |-> IF b \in DOMAIN bindings THEN bindings[b].price ELSE None]

AddBinding(m, c, r) ==
    /\ Edit /\ m \in DOMAIN models /\ c \in channels
    /\ <<c, r>> \in DOMAIN discovered
    /\ bindings' = With(bindings, <<m, c, r>>,
                        Bound(<<m, c, r>>, AfterLast({bindings[b] : b \in BindingsOf(m)})))
    /\ UNCHANGED <<models, channels, keys, discovered, logged, crossed>>

UpdateWeight(b, w) ==
    /\ Edit /\ b \in DOMAIN bindings /\ w >= 1
    /\ bindings' = [bindings EXCEPT ![b].weight = w]
    /\ UNCHANGED <<models, channels, keys, discovered, logged, crossed>>

UpdatePricing(b, p) ==
    /\ Edit /\ b \in DOMAIN bindings
    /\ bindings' = [bindings EXCEPT ![b].price = p]
    /\ UNCHANGED <<models, channels, keys, discovered, logged, crossed>>

\* Only the bindings listed move; one that was added meanwhile keeps its place.
ReorderBindings(m, pos) ==
    /\ Edit /\ DOMAIN pos \cap BindingsOf(m) # {}
    /\ bindings' = [b \in DOMAIN bindings |->
                       IF b \in DOMAIN pos \cap BindingsOf(m)
                       THEN [bindings[b] EXCEPT !.priority = Wrapped(Gap * pos[b])]
                       ELSE bindings[b]]
    /\ UNCHANGED <<models, channels, keys, discovered, logged, crossed>>

RemoveBinding(b) ==
    /\ Edit /\ b \in DOMAIN bindings
    /\ bindings' = Without(bindings, {b})
    /\ UNCHANGED <<models, channels, keys, discovered, logged, crossed>>
----------------------------------------------------------------------------
(* The import at start, in one transaction, when there is no channel, and  *)
(* the usage row of a request, whose snapshot of the tables may be old.    *)

Import(n, a, r) ==
    /\ Edit /\ channels = {} /\ ~Named(n) /\ NextId(DOMAIN models) \in Ids
    /\ LET m == NextId(DOMAIN models) IN
         /\ models' = With(models, m, [name |-> n, strategy |-> "priority"])
         /\ bindings' = With(bindings, <<m, 1, r>>, Bound(<<m, 1, r>>, DefaultPriority))
    /\ channels' = {1}
    /\ keys' = With(keys, NextId(DOMAIN keys),
                    [channel |-> 1, api_key |-> a, priority |-> DefaultPriority])
    /\ discovered' = Upsert(discovered, 1, r)
    /\ UNCHANGED <<logged, crossed>>

LogUsage(m, c, k) ==
    /\ Edit /\ m \in DOMAIN models /\ c \in channels /\ k \in DOMAIN keys
    /\ logged' = logged \cup {<<m, c, k>>}
    /\ UNCHANGED <<config, crossed>>
----------------------------------------------------------------------------
Empty == [i \in {} |-> 0]

Init ==
    /\ models = Empty /\ channels = {} /\ keys = Empty
    /\ discovered = Empty /\ bindings = Empty
    /\ logged = {} /\ crossed = FALSE /\ edits = 0

\* The orders a page may send: a place for each of a set of rows.
Orders(S) == {f \in [S -> 1..Cardinality(S)] : \A x, y \in S : f[x] = f[y] => x = y}

EditModel ==
    \/ \E n \in Names : CreateModel(n)
    \/ \E m \in DOMAIN models, n \in Names : RenameModel(m, n)
    \/ \E m \in DOMAIN models, s \in Strategies : UpdateRoutingStrategy(m, s)
    \/ \E m \in DOMAIN models : DeleteModel(m)

EditChannel == CreateChannel \/ \E c \in channels : DeleteChannel(c)

EditKey ==
    \/ \E c \in channels, a \in ApiKeys : CreateKey(c, a)
    \/ \E c \in Ids, k \in DOMAIN keys, a \in ApiKeys, p \in Priorities : UpdateKey(c, k, a, p)
    \/ \E c \in channels : \E pos \in Orders(KeysOf(c)) : ReorderKeys(c, pos)
    \/ \E k \in DOMAIN keys : DeleteKey(k)

EditPool ==
    \/ \E c \in channels, r \in Raws : AddDiscoveredModel(c, r)
    \/ \E c \in channels, r \in Raws, q \in Quotas \cup {None} : UpdateSmallModelQuota(c, r, q)
    \/ \E d \in DOMAIN discovered : DeleteDiscoveredModel(d[1], d[2])

EditBinding ==
    \/ \E m \in DOMAIN models, d \in DOMAIN discovered : AddBinding(m, d[1], d[2])
    \/ \E b \in DOMAIN bindings : RemoveBinding(b)
    \/ \E b \in DOMAIN bindings, w \in 0..MaxWeight : UpdateWeight(b, w)
    \/ \E b \in DOMAIN bindings, p \in Prices \cup {None} : UpdatePricing(b, p)
    \/ \E m \in DOMAIN models : \E S \in SUBSET BindingsOf(m) :
         \E pos \in Orders(S) : ReorderBindings(m, pos)

Next ==
    \/ EditModel \/ EditChannel \/ EditKey \/ EditPool \/ EditBinding
    \/ \E n \in Names, a \in ApiKeys, r \in Raws : Import(n, a, r)
    \/ \E m \in DOMAIN models, c \in channels, k \in DOMAIN keys : LogUsage(m, c, k)

Spec == Init /\ [][Next]_vars
----------------------------------------------------------------------------
(* What must hold of the tables.                                           *)

\* A binding always names a model that exists and an upstream model of the pool
\* of its channel. No foreign key ties a binding to the pool: the check when it is
\* added, the check when a row leaves the pool, the cascades and the import must
\* agree on it, or a request is routed to a model the quotas do not know.
BindingsAreDiscovered ==
    \A b \in DOMAIN bindings :
        b[1] \in DOMAIN models /\ b[2] \in channels /\ <<b[2], b[3]>> \in DOMAIN discovered

\* A usage row keeps the model, the channel and the key it was written for: ids
\* are given out again, so a row left behind would later be read as another's.
LoggedRowsExist ==
    \A u \in logged : u[1] \in DOMAIN models /\ u[2] \in channels /\ u[3] \in DOMAIN keys

\* While each key is edited under its own channel's path, no channel has the same
\* secret twice, whatever creations and edits are mixed.
UniqueUnlessCrossed ==
    ~crossed =>
        \A j, k \in DOMAIN keys :
            keys[j].channel = keys[k].channel /\ keys[j].api_key = keys[k].api_key => j = k

\* What is added keeps what is there: discovering a model again, binding it again
\* or importing it beside others resets no quota and makes nothing free, although
\* each of them writes over the row it finds.
AddingKeepsTheRest ==
    [][(\/ \E c \in Ids, r \in Raws : AddDiscoveredModel(c, r)
        \/ \E m, c \in Ids, r \in Raws : AddBinding(m, c, r)
        \/ \E n \in Names, a \in ApiKeys, r \in Raws : Import(n, a, r))
       => /\ \A d \in DOMAIN discovered :
               d \in DOMAIN discovered' /\ discovered'[d] = discovered[d]
          /\ \A b \in DOMAIN bindings :
               b \in DOMAIN bindings' /\ bindings'[b].price = bindings[b].price]_vars

\* A row that is new to its channel or its model is tried after all the others.
NewestIsLast ==
    [][/\ \A k \in DOMAIN keys' \ DOMAIN keys :
            \A j \in DOMAIN keys' \ {k} :
                keys'[j].channel = keys'[k].channel => keys'[j].priority < keys'[k].priority
       /\ \A b \in DOMAIN bindings' \ DOMAIN bindings :
            \A a \in DOMAIN bindings' \ {b} :
                a[1] = b[1] => bindings'[a].priority < bindings'[b].priority]_vars

(* What the sources say and the code does not keep.                        *)

\* No channel has the same secret twice.
KeysAreUniqueInChannel ==
    \A j, k \in DOMAIN keys :
        keys[j].channel = keys[k].channel /\ keys[j].api_key = keys[k].api_key => j = k

\* Clients may write a model's name in any case: no two models share a folded name.
ModelsAreNameable ==
    \A m, n \in DOMAIN models : Folded[models[m].name] = Folded[models[n].name] => m = n
=============================================================================
