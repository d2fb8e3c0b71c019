-------------------------------- MODULE Routing --------------------------------
(***************************************************************************)
(* The order in which one request may try the keys of its model            *)
(* (crates/core/src/router.rs): bindings are filtered by the caller's      *)
(* group, by the quota of the upstream model and by their keys, the keys   *)
(* of each are sorted, and the bindings are sorted or drawn.               *)
(*                                                                         *)
(* A binding of the snapshot is its number, in the order of the database;  *)
(* so is a key of its channel. The random draw is any pick below the total *)
(* of the weights.                                                         *)
(***************************************************************************)
EXTENDS Integers, FiniteSets, SequencesExt

CONSTANTS
    NBindings,      \* of the model
    NKeys,          \* of each channel
    Priorities, Weights, Prices

RoutingAssumption ==
    /\ NBindings \in Nat /\ NKeys \in Nat
    /\ Priorities \subseteq Int /\ Weights \subseteq Int /\ Prices \subseteq Nat

BindingRows == 1..NBindings
Keys == 1..NKeys

VARIABLES
    strategy,
    priority, weight,   \* of a binding
    listed,             \* the caller's group is among its channel's
    spent,              \* its upstream model has no quota left
    usable,             \* its keys that are available
    key_priority, price,    \* of a key; the keys of each channel look alike
    groups,             \* bindings still to be placed, in order
    out,                \* bindings placed
    step

config == <<strategy, priority, weight, listed, spent, usable, key_priority, price>>
vars == <<config, groups, out, step>>

\* Sorting is stable: each stands behind as many as go ahead of it.
Ahead(S, rank, b) == {a \in S : rank[a] < rank[b] \/ (rank[a] = rank[b] /\ a < b)}
SortedBy(S, rank) ==
    [i \in 1..Cardinality(S) |-> CHOOSE b \in S : Cardinality(Ahead(S, rank, b)) = i - 1]

\* The keys of a binding's bucket, in the order they are tried.
\* Mutant: all keys of the channel.
BucketOfAll(b) == SortedBy(Keys, key_priority)
Bucket(b) == SortedBy(usable[b], key_priority)

Eligible == {b \in listed : b \notin spent /\ usable[b] # {}}

Filter ==
    /\ step = "filter"
    /\ groups' = SortedBy(Eligible, [b \in BindingRows |-> b])
    /\ step' = "sort"
    /\ UNCHANGED <<config, out>>

Sort ==
    /\ step = "sort"
    /\ LET sorted == SortedBy(ToSet(groups), priority) IN
         IF strategy = "priority"
         THEN out' = sorted /\ groups' = <<>> /\ step' = "done"
         ELSE groups' = sorted /\ out' = out /\ step' = "draw"
    /\ UNCHANGED config

Weight(b) == IF weight[b] < 1 THEN 1 ELSE weight[b]

\* The sum of the weights: a group has a ticket for each unit of its weight.
Tickets(s) == UNION {{i} \X (1..Weight(s[i])) : i \in DOMAIN s}
Total(s) == Cardinality(Tickets(s))

\* The first group whose sum of weights is above the pick, the last one if none is.
\* Mutant: a pick on the border belongs to the group before it.
ChosenOnBorder(pick) ==
    LET over == {i \in DOMAIN groups : pick <= Total(SubSeq(groups, 1, i))}
    IN  IF over = {} THEN Len(groups) ELSE CHOOSE i \in over : \A j \in over : i <= j
Chosen(pick) ==
    LET over == {i \in DOMAIN groups : pick < Total(SubSeq(groups, 1, i))}
    IN  IF over = {} THEN Len(groups) ELSE CHOOSE i \in over : \A j \in over : i <= j

Draw ==
    /\ step = "draw" /\ groups # <<>>
    /\ \E pick \in 0..(Total(groups) - 1) :
         /\ out' = Append(out, groups[Chosen(pick)])
         /\ groups' = RemoveAt(groups, Chosen(pick))
    /\ UNCHANGED <<config, step>>

Drawn ==
    /\ step = "draw" /\ groups = <<>>
    /\ step' = "done"
    /\ UNCHANGED <<config, groups, out>>

Init ==
    /\ strategy \in {"priority", "load_balance"}
    /\ priority \in [BindingRows -> Priorities]
    /\ weight \in [BindingRows -> Weights]
    /\ listed \in SUBSET BindingRows /\ spent \in SUBSET BindingRows
    /\ usable \in [BindingRows -> SUBSET Keys]
    /\ key_priority \in [Keys -> Priorities] /\ price \in [Keys -> Prices]
    /\ groups = <<>> /\ out = <<>> /\ step = "filter"

Next == Filter \/ Sort \/ Draw \/ Drawn

Spec == Init /\ [][Next]_vars
----------------------------------------------------------------------------
(* Properties.                                                             *)

TypeOK ==
    /\ step \in {"filter", "sort", "draw", "done"}
    /\ groups \in Seq(BindingRows) /\ out \in Seq(BindingRows)
    /\ Total(groups) \in Nat
    /\ \A b \in ToSet(groups) \cup ToSet(out) : Bucket(b) # <<>>

\* In the end every binding that may serve the request is there once, and no other,
\* whatever was drawn; its keys are those that are available.
RoutesEachOnce ==
    step = "done" =>
        /\ ToSet(out) = {b \in listed \ spent : usable[b] # {}}
        /\ IsInjective(out)
        /\ \A b \in ToSet(out) : ToSet(Bucket(b)) = usable[b]

\* A binding is drawn by as many picks as its weight, at least one: none is starved
\* by a weight of zero, none gains what another was left out of.
DrawIsProportional ==
    step = "draw" /\ groups # <<>> =>
        \A i \in DOMAIN groups :
            Cardinality({pick \in 0..(Total(groups) - 1) : Chosen(pick) = i})
                = IF weight[groups[i]] < 1 THEN 1 ELSE weight[groups[i]]

\* Priorities decide, and the order of the database between equals.
PriorityOrder ==
    step = "done" /\ strategy = "priority" =>
        \A i, j \in DOMAIN out :
            i < j => \/ priority[out[i]] < priority[out[j]]
                     \/ priority[out[i]] = priority[out[j]] /\ out[i] < out[j]

(* What the sources say and the code does not keep.                        *)

\* Among keys of one priority the cheaper comes first.
CheaperKeyFirst ==
    step = "done" =>
        \A b \in ToSet(out) : LET keys == Bucket(b) IN
            \A i, j \in DOMAIN keys :
                i < j /\ key_priority[keys[i]] = key_priority[keys[j]]
                    => price[keys[i]] <= price[keys[j]]
=============================================================================
