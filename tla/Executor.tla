------------------------------ MODULE Executor ------------------------------
(***************************************************************************)
(* The life of proxied requests (Executor, crates/core/src/executor.rs,    *)
(* and the streaming task of crates/server/src/routes/mod.rs): route to a  *)
(* list of bindings, pre-charge, walk the keys of the first few bindings   *)
(* until one answers, settle or refund.                                    *)
(*                                                                         *)
(* The module composes the requests with KeyHealth: each attempt is one of *)
(* its workers', so that requests see the cooldowns and the disabled keys  *)
(* of each other, and the recovery loop, the admin panel and restarts run  *)
(* in between. The amounts a session holds are the subject of Billing.     *)
(***************************************************************************)
EXTENDS Integers, Sequences, SequencesExt, FiniteSets

CONSTANTS
    Keys, Models, MaxCooldown, MaxExponent, MaxAdminWrites,   \* see KeyHealth
    Requests,       \* proxied requests; each lives once
    Bindings,       \* the requested model's bindings, in the order of their priority:
                    \* records of an upstream model and a sequence of keys
    LoadBalance,    \* whether the model's routing strategy is LoadBalance
    MaxBindings     \* MAX_BINDING_ATTEMPTS, 3 in the code

ASSUME ExecutorAssumption ==
    /\ Bindings \in Seq([model: Models, keys: Seq(Keys)])
    /\ LoadBalance \in BOOLEAN
    /\ MaxBindings \in Nat \ {0}

VARIABLES
    rows, dbStatus, logged, memStatus, left, failures, step, on,
    overridden, adminWrites,                                  \* see KeyHealth
    pc,         \* where the request is
    stream,     \* whether the client asked for a stream
    todo,       \* the bindings still to try, each with its keys still to try
    session,    \* the BillingSession
    outcome,    \* the answer it is about to give, or has given
    \* history, read by no action
    routed,     \* the bindings that were to be tried
    ruledOut    \* per request, <<binding, key>> it tried, found unavailable or skipped

Health == INSTANCE KeyHealth WITH Workers <- Requests

\* What KeyHealth asks of its constants.
ASSUME SharedAssumption == Health!HealthAssumption

healthVars == <<rows, dbStatus, logged, memStatus, left, failures, step, on,
                overridden, adminWrites>>
requestVars == <<pc, stream, todo, session, outcome, routed, ruledOut>>
vars == <<healthVars, requestVars>>

Ids == DOMAIN Bindings

\* "done" and "dropped" are final.
Places == {"new", "routed", "walking", "calling", "streaming", "settling", "tracking",
           "refunding", "done", "dropped"}

TypeOK ==
    /\ Health!TypeOK
    /\ pc \in [Requests -> Places]
    /\ stream \in [Requests -> BOOLEAN]
    /\ todo \in [Requests -> Seq([id: Ids, keys: Seq(Keys)])]
    /\ session \in [Requests -> {"none", "open", "settled", "refunded"}]
    /\ outcome \in [Requests -> {"none", "ok", "exhausted", "failed", "broken"}]
    /\ routed \in [Requests -> SUBSET Ids]
    /\ ruledOut \in [Requests -> SUBSET (Ids \X Keys)]

-----------------------------------------------------------------------------
(* Routing *)

\* The orders Router::route may give to n groups: the one it finds, or any (each
\* weight is at least one).
Orders(n) == IF LoadBalance THEN Injection(1..n, 1..n) ELSE {[i \in 1..n |-> i]}

Available(id, k) == Health!Available(k, Bindings[id].model)

\* The elements of s that are in S, in their order.
Kept(s, S) ==
    LET kept[i \in 0..Len(s)] ==
            IF i = 0 THEN <<>>
            ELSE IF s[i] \in S THEN Append(kept[i - 1], s[i]) ELSE kept[i - 1]
    IN  kept[Len(s)]

\* The bucket of a binding: its keys that are available, and those of the others
\* the filter lets pass because try_read found the lock taken.
Bucket(id, contended) ==
    [id |-> id,
     keys |-> Kept(Bindings[id].keys,
                   {k \in Keys : Available(id, k) \/ <<id, k>> \in contended})]

\* The groups routed when the group and quota filters keep the bindings ids.
Groups(ids, contended) ==
    LET buckets == [i \in Ids |-> Bucket(i, contended)]
    IN  Kept(buckets, {b \in {buckets[i] : i \in ids} : b.keys # <<>>})

-----------------------------------------------------------------------------
(* The request *)

GoTo(r, place) == pc' = [pc EXCEPT ![r] = place]
Answer(r, a) == outcome' = [outcome EXCEPT ![r] = a]
RuleOut(r, pairs) == ruledOut' = [ruledOut EXCEPT ![r] = @ \cup pairs]

This(r) == Head(todo[r])            \* the binding being tried
Key(r) == Head(This(r).keys)        \* its next key

\* The inner loop goes on to the next key.
Advance(r) ==
    todo' = [todo EXCEPT ![r] = <<[This(r) EXCEPT !.keys = Tail(@)]>> \o Tail(@)]

AtKey(r) == pc[r] = "walking" /\ todo[r] # <<>> /\ This(r).keys # <<>>

\* select_keys; nothing routed is answered before anything is charged.
Route(r) ==
    /\ pc[r] = "new"
    /\ \E ids \in SUBSET Ids, contended \in SUBSET {p \in Ids \X Keys : ~Available(p[1], p[2])} :
          LET found == Groups(ids, contended)
          IN \E order \in Orders(Len(found)) :
                LET tried == SubSeq([i \in 1..Len(found) |-> found[order[i]]], 1,
                                    Health!Smaller(MaxBindings, Len(found)))
                IN /\ todo' = [todo EXCEPT ![r] = tried]
                   /\ routed' = [routed EXCEPT ![r] = {tried[i].id : i \in DOMAIN tried}]
                   /\ RuleOut(r, {p \in Ids \X Keys :
                                    \A i \in DOMAIN tried :
                                       p[1] = tried[i].id => ~Contains(tried[i].keys, p[2])})
                   /\ IF tried = <<>>
                      THEN GoTo(r, "done") /\ Answer(r, "exhausted")
                      ELSE GoTo(r, "routed") /\ UNCHANGED outcome
    /\ UNCHANGED <<healthVars, stream, session>>

\* select_keys cannot load the configuration.
LoadFails(r) ==
    /\ pc[r] = "new"
    /\ GoTo(r, "done")
    /\ Answer(r, "failed")
    /\ UNCHANGED <<healthVars, stream, todo, session, routed, ruledOut>>

\* pre_charge opens the session, or the request fails (so does the lookup of
\* the first candidate's pricing before it).
PreCharge(r) ==
    /\ pc[r] = "routed"
    /\ \/ GoTo(r, "walking") /\ session' = [session EXCEPT ![r] = "open"] /\ UNCHANGED outcome
       \/ GoTo(r, "done") /\ Answer(r, "failed") /\ UNCHANGED session
    /\ UNCHANGED <<healthVars, stream, todo, routed, ruledOut>>

\* The inner loop ends, the outer one goes on.
NextBinding(r) ==
    /\ pc[r] = "walking" /\ todo[r] # <<>> /\ This(r).keys = <<>>
    /\ todo' = [todo EXCEPT ![r] = Tail(@)]
    /\ UNCHANGED <<healthVars, pc, stream, session, outcome, routed, ruledOut>>

\* Mutant: the loop stays at the key it passes over.
SkipKeyForever(r) ==
    /\ AtKey(r)
    /\ ~Available(This(r).id, Key(r))
    /\ RuleOut(r, {<<This(r).id, Key(r)>>})
    /\ UNCHANGED <<healthVars, pc, stream, todo, session, outcome, routed>>

\* The authoritative check passes over a key.
SkipKey(r) ==
    /\ AtKey(r)
    /\ ~Available(This(r).id, Key(r))
    /\ Advance(r)
    /\ RuleOut(r, {<<This(r).id, Key(r)>>})
    /\ UNCHANGED <<healthVars, pc, stream, session, outcome, routed>>

\* prepare_request cannot translate the request: refund, and the end.
PrepareFails(r) ==
    /\ AtKey(r)
    /\ Available(This(r).id, Key(r))
    /\ GoTo(r, "refunding")
    /\ Answer(r, "failed")
    /\ UNCHANGED <<healthVars, stream, todo, session, routed, ruledOut>>

\* Mutant: the candidates of the router are trusted.
CallUnchecked(r) ==
    /\ AtKey(r)
    /\ step' = [step EXCEPT ![r] = "calling"]
    /\ on' = [on EXCEPT ![r] = <<Key(r), Bindings[This(r).id].model>>]
    /\ GoTo(r, "calling")
    /\ Advance(r)
    /\ RuleOut(r, {<<This(r).id, Key(r)>>})
    /\ UNCHANGED <<rows, dbStatus, logged, memStatus, left, failures, overridden,
                   adminWrites, stream, session, outcome, routed>>

\* The adaptor calls the upstream with the key.
Call(r) ==
    /\ AtKey(r)
    /\ Health!Attempt(r, Key(r), Bindings[This(r).id].model)
    /\ GoTo(r, "calling")
    /\ Advance(r)
    /\ RuleOut(r, {<<This(r).id, Key(r)>>})
    /\ UNCHANGED <<stream, session, outcome, routed>>

\* Timeout, 429, 5xx, network: track_failure, and then the cooldown.
Transient(r) ==
    /\ pc[r] = "calling"
    /\ Health!Failed(r, "cooling")
    /\ UNCHANGED requestVars

\* Mutant: a key that cools down ends its binding.
CooldownBreaks(r) ==
    /\ pc[r] = "calling"
    /\ Health!MarkCooldown(r)
    /\ GoTo(r, "walking")
    /\ todo' = [todo EXCEPT ![r] = Tail(@)]
    /\ UNCHANGED <<stream, session, outcome, routed, ruledOut>>

\* Mutant: the executor opens a window of its own, without the cap.
CooldownUncapped(r) ==
    /\ pc[r] = "calling" /\ step[r] = "cooling"
    /\ left' = [left EXCEPT ![on[r]] = 2^(failures[on[r]] + 1)]
    /\ step' = [step EXCEPT ![r] = "idle"]
    /\ GoTo(r, "walking")
    /\ UNCHANGED <<rows, dbStatus, logged, memStatus, failures, on, overridden,
                   adminWrites, stream, todo, session, outcome, routed, ruledOut>>

\* The window opens and the walk goes on.
Cooldown(r) ==
    /\ pc[r] = "calling"
    /\ Health!MarkCooldown(r)
    /\ GoTo(r, "walking")
    /\ UNCHANGED <<stream, todo, session, outcome, routed, ruledOut>>

\* 401, 403: track_failure, and then mark_disabled in its two parts.
Rejected(r) ==
    /\ pc[r] = "calling"
    /\ Health!Failed(r, "disabling")
    /\ UNCHANGED requestVars

Disable(r) ==
    /\ pc[r] = "calling"
    /\ Health!MarkDisabled(r)
    /\ UNCHANGED requestVars

\* The write of the disk may fail; the walk goes on.
Persist(r) ==
    /\ pc[r] = "calling"
    /\ Health!Persist(r) \/ (step[r] = "persisting" /\ Health!Drop(r))
    /\ GoTo(r, "walking")
    /\ UNCHANGED <<stream, todo, session, outcome, routed, ruledOut>>

\* 404 and context_length_exceeded: the rest of the binding is skipped.
SkipBinding(r) ==
    /\ pc[r] = "calling"
    /\ Health!Answered(r)
    /\ GoTo(r, "walking")
    /\ todo' = [todo EXCEPT ![r] = Tail(@)]
    /\ RuleOut(r, {<<This(r).id, k>> : k \in ToSet(This(r).keys)})
    /\ UNCHANGED <<stream, session, outcome, routed>>

\* 400 and 422: refund, and the end.
ReturnToClient(r) ==
    /\ pc[r] = "calling"
    /\ Health!Answered(r)
    /\ GoTo(r, "refunding")
    /\ Answer(r, "failed")
    /\ UNCHANGED <<stream, todo, session, routed, ruledOut>>

\* The upstream answers: what is left is the bill, or a stream to forward.
Success(r) ==
    /\ pc[r] = "calling" /\ step[r] = "calling"
    /\ IF stream[r]
       THEN GoTo(r, "streaming") /\ Answer(r, "ok")
       ELSE GoTo(r, "settling") /\ UNCHANGED outcome
    /\ UNCHANGED <<healthVars, stream, todo, session, routed, ruledOut>>

\* The stream's task settles once it ends: at its last chunk, with its client
\* gone, or because the upstream or the translation of a chunk broke it.
StreamEnds(r) ==
    /\ pc[r] = "streaming"
    /\ GoTo(r, "settling")
    /\ \E a \in {"ok", "broken"} : Answer(r, a)
    /\ UNCHANGED <<healthVars, stream, todo, session, routed, ruledOut>>

\* settle; its error is only logged, since the response is there.
Settle(r) ==
    /\ pc[r] = "settling"
    /\ session' \in {session, [session EXCEPT ![r] = "settled"]}
    /\ GoTo(r, "tracking")
    /\ UNCHANGED <<healthVars, stream, todo, outcome, routed, ruledOut>>

\* Mutant: the error of the translation refunds what was settled.
TrackRefunds(r) ==
    /\ pc[r] = "tracking"
    /\ Health!Answered(r)
    /\ GoTo(r, "done")
    /\ IF stream[r]
       THEN UNCHANGED <<outcome, session>>
       ELSE \/ Answer(r, "ok") /\ UNCHANGED session
            \/ Answer(r, "failed") /\ session' = [session EXCEPT ![r] = "refunded"]
    /\ UNCHANGED <<stream, todo, routed, ruledOut>>

\* track_success, then the translation of the response, whose error replaces it.
Track(r) ==
    /\ pc[r] = "tracking"
    /\ Health!Answered(r)
    /\ GoTo(r, "done")
    /\ IF stream[r]
       THEN UNCHANGED outcome
       ELSE \E a \in {"ok", "failed"} : Answer(r, a)
    /\ UNCHANGED <<stream, todo, session, routed, ruledOut>>

\* The walk has run out of bindings.
Exhausted(r) ==
    /\ pc[r] = "walking" /\ todo[r] = <<>>
    /\ GoTo(r, "refunding")
    /\ Answer(r, "exhausted")
    /\ UNCHANGED <<healthVars, stream, todo, session, routed, ruledOut>>

\* refund; its error is only logged.
Refund(r) ==
    /\ pc[r] = "refunding"
    /\ session' \in {session, [session EXCEPT ![r] = "refunded"]}
    /\ GoTo(r, "done")
    /\ UNCHANGED <<healthVars, stream, todo, outcome, routed, ruledOut>>

\* The handler's future is dropped with its client's connection, and the session
\* with it; a stream's task has been spawned and goes on.
Drop(r) ==
    /\ pc[r] \notin {"new", "done", "dropped"}
    /\ ~(stream[r] /\ pc[r] \in {"streaming", "settling", "tracking"})
    /\ IF step[r] = "idle" THEN UNCHANGED healthVars ELSE Health!Drop(r)
    /\ GoTo(r, "dropped")
    /\ UNCHANGED <<stream, todo, session, outcome, routed, ruledOut>>

\* The process stops under all the requests it has.
Restart ==
    /\ Health!Restart
    /\ pc' = [r \in Requests |-> IF pc[r] \in {"new", "done"} THEN pc[r] ELSE "dropped"]
    /\ UNCHANGED <<stream, todo, session, outcome, routed, ruledOut>>

-----------------------------------------------------------------------------

Init ==
    /\ Health!Init
    /\ pc = [r \in Requests |-> "new"]
    /\ stream \in [Requests -> BOOLEAN]
    /\ todo = [r \in Requests |-> <<>>]
    /\ session = [r \in Requests |-> "none"]
    /\ outcome = [r \in Requests |-> "none"]
    /\ routed = [r \in Requests |-> {}]
    /\ ruledOut = [r \in Requests |-> {}]

\* What the code does next for a request that nobody drops.
Proceed(r) ==
    \/ Route(r) \/ LoadFails(r) \/ PreCharge(r) \/ NextBinding(r) \/ SkipKey(r) \/ PrepareFails(r)
    \/ Call(r) \/ Transient(r) \/ Cooldown(r) \/ Rejected(r) \/ Disable(r) \/ Persist(r)
    \/ SkipBinding(r) \/ ReturnToClient(r) \/ Success(r) \/ Settle(r)
    \/ Track(r) \/ Exhausted(r) \/ Refund(r)

Environment ==
    /\ Health!Tick \/ Health!CheckRecoveries \/ Health!Admin
    /\ UNCHANGED requestVars

Next ==
    \/ \E r \in Requests : Proceed(r) \/ StreamEnds(r) \/ Drop(r)
    \/ Environment
    \/ Restart

Spec == Init /\ [][Next]_vars

\* An upstream answers or times out, and the runtime runs every ready future;
\* that a stream ends is up to its upstream, which no timeout covers.
FairSpec == Spec /\ \A r \in Requests : WF_vars(Proceed(r))

-----------------------------------------------------------------------------
(* Properties *)

\* The answer given for r: the response of a stream begins, with status 200, before
\* it ends or breaks; any other is given when the executor returns.
Told(r) ==
    IF stream[r] /\ outcome[r] \in {"ok", "broken"} THEN "ok"
    ELSE IF pc[r] = "done" THEN outcome[r] ELSE "none"

Bill == INSTANCE OneBill WITH
    bill <- session, reply <- [r \in Requests |-> Told(r)]

\* The executor keeps the promise of OneBill on every path out of its loop, the
\* errors it swallows, dropped handlers and restarts included.
BillsOnce == Bill!Spec

\* The requests use the keys' health as KeyHealth says, and nothing else: no call
\* without the check, no verdict without its mark.
UsesHealth == Health!Spec

\* AllKeysExhausted is the truth about the bindings that were to be tried: each of
\* their keys was called, found unavailable, or skipped with its binding by a 404
\* or context_length_exceeded of this very request; and these bindings are at most
\* MAX_BINDING_ATTEMPTS.
FailoverComplete ==
    \A r \in Requests :
        /\ Cardinality(routed[r]) <= MaxBindings
        /\ outcome[r] = "exhausted" =>
              \A id \in routed[r] :
                 {id} \X ToSet(Bindings[id].keys) \subseteq ruledOut[r]

\* docs/CODE_WIKI.md of the streaming task: "stream ends: settle(session,
\* actual_cost) + track_success; failure: refund(session)". A stream that broke
\* has not been charged.
BrokenIsRefunded ==
    \A r \in Requests :
        (pc[r] = "done" /\ outcome[r] = "broken") => session[r] # "settled"

\* Every request ends, or becomes a stream, or is dropped: the walk over the keys
\* terminates although the panel, the recovery loop, the clock and other requests keep
\* changing which of them are available, and with it every session that was opened is
\* settled or refunded.
RequestsEnd ==
    \A r \in Requests : pc[r] = "routed" ~> pc[r] \in {"streaming", "done", "dropped"}
=============================================================================
