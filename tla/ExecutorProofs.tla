--------------------------- MODULE ExecutorProofs ---------------------------
(***************************************************************************)
(* The executor keeps the promise of OneBill for any bindings, keys and    *)
(* number of requests, whatever the keys' health does in between; it gives *)
(* up only when every key of what was routed is ruled out; and it uses the *)
(* keys' health as KeyHealth says, so that what is proved there holds here. *)
(***************************************************************************)
EXTENDS Executor, FiniteSetTheorems, NaturalsInduction, SequenceTheorems, TLAPS

(***************************************************************************)
(* OneBill speaks of the session and of the answer, and the executor       *)
(* decides by where it is in its loops. What ties them together is what    *)
(* each place implies for both: that is the inductive invariant.           *)
(***************************************************************************)
BillTypes ==
    /\ pc \in [Requests -> Places]
    /\ stream \in [Requests -> BOOLEAN]
    /\ session \in [Requests -> {"none", "open", "settled", "refunded"}]
    /\ outcome \in [Requests -> {"none", "ok", "exhausted", "failed", "broken"}]

Streamed(r) == stream[r] /\ outcome[r] \in {"ok", "broken"}

BillAt(r) ==
    /\ pc[r] \in {"new", "routed"} => session[r] = "none" /\ outcome[r] = "none"
    /\ pc[r] \in {"walking", "calling"} => session[r] = "open" /\ outcome[r] = "none"
    /\ pc[r] = "streaming" => session[r] = "open" /\ Streamed(r)
    /\ pc[r] = "settling" => session[r] = "open"
    /\ pc[r] = "tracking" => session[r] \in {"open", "settled"}
    /\ pc[r] \in {"settling", "tracking"} => IF stream[r] THEN Streamed(r) ELSE outcome[r] = "none"
    /\ pc[r] = "refunding" => session[r] = "open" /\ outcome[r] \in {"exhausted", "failed"}

BInv == BillTypes /\ \A r \in Requests : BillAt(r)

reply == [r \in Requests |-> Told(r)]

\* What is proved of the keys' health.
HP == INSTANCE KeyHealthProofs WITH Workers <- Requests

-----------------------------------------------------------------------------

\* A request that has started nothing is at the start of its bill.
LEMMA InitBInv == Init => BInv /\ Bill!Init
  BY DEF Init, BInv, BillTypes, BillAt, Bill!Init, Told, Places

\* A step of r that leaves the other requests where they are leaves their part of
\* the invariant and their answers alone.
LEMMA OneRequest ==
    ASSUME BInv, NEW r \in Requests, BillTypes', BillAt(r)',
           \A q \in Requests \ {r} : /\ pc'[q] = pc[q] /\ stream'[q] = stream[q]
                                     /\ session'[q] = session[q] /\ outcome'[q] = outcome[q]
    PROVE  BInv' /\ reply' = [reply EXCEPT ![r] = Told(r)']
  <1>1. ASSUME NEW q \in Requests PROVE BillAt(q)' /\ (q # r => Told(q)' = Told(q))
    BY <1>1 DEF BInv, BillTypes, BillAt, Streamed, Told
  <1>2. reply' = [reply EXCEPT ![r] = Told(r)']
    BY <1>1 DEF reply
  <1> QED
    BY <1>1, <1>2 DEF BInv

\* Where nothing changes what r owes or was answered, OneBill stutters.
LEMMA QuietStep ==
    ASSUME BInv, NEW r \in Requests, BillTypes', BillAt(r)', UNCHANGED session,
           \A q \in Requests \ {r} : /\ pc'[q] = pc[q] /\ stream'[q] = stream[q]
                                     /\ outcome'[q] = outcome[q],
           Told(r)' = Told(r)
    PROVE  BInv' /\ UNCHANGED <<session, reply>>
  <1>1. BInv' /\ reply' = [reply EXCEPT ![r] = Told(r)']
    BY OneRequest
  <1> QED
    BY <1>1 DEF reply

\* The walk over the keys, the stream and a dropped handler: the bill stays.
Walk(r) ==
    \/ NextBinding(r) \/ SkipKey(r) \/ PrepareFails(r) \/ Call(r) \/ Transient(r)
    \/ Cooldown(r) \/ Rejected(r) \/ Disable(r) \/ Persist(r) \/ SkipBinding(r)
    \/ ReturnToClient(r) \/ Exhausted(r) \/ StreamEnds(r) \/ Drop(r)

\* What a step of the walk does to places and answers.
LEMMA WalkStep ==
    ASSUME BInv, NEW r \in Requests, Walk(r)
    PROVE  BInv' /\ UNCHANGED <<session, reply>>
  <1>1. CASE NextBinding(r) \/ SkipKey(r) \/ Transient(r) \/ Rejected(r) \/ Disable(r)
    <2>1. UNCHANGED <<pc, stream, session, outcome>>
      BY <1>1 DEF NextBinding, SkipKey, Transient, Rejected, Disable, requestVars
    <2> QED
      BY <2>1, QuietStep DEF BInv, BillTypes, BillAt, Streamed, Told
  <1>2. CASE Call(r) \/ Cooldown(r) \/ Persist(r) \/ SkipBinding(r)
    <2>1. /\ pc[r] \in {"walking", "calling"}
          /\ pc' \in {[pc EXCEPT ![r] = "walking"], [pc EXCEPT ![r] = "calling"]}
          /\ UNCHANGED <<stream, session, outcome>>
      BY <1>2 DEF Call, Cooldown, Persist, SkipBinding, AtKey, GoTo
    <2> QED
      BY <2>1, QuietStep DEF BInv, BillTypes, BillAt, Streamed, Told, Places
  <1>3. CASE PrepareFails(r) \/ ReturnToClient(r) \/ Exhausted(r)
    <2>1. /\ pc[r] \in {"walking", "calling"}
          /\ pc' = [pc EXCEPT ![r] = "refunding"]
          /\ outcome' \in {[outcome EXCEPT ![r] = "failed"], [outcome EXCEPT ![r] = "exhausted"]}
          /\ UNCHANGED <<stream, session>>
      BY <1>3 DEF PrepareFails, ReturnToClient, Exhausted, AtKey, GoTo, Answer
    <2> QED
      BY <2>1, QuietStep DEF BInv, BillTypes, BillAt, Streamed, Told, Places
  <1>4. CASE StreamEnds(r)
    <2>1. /\ pc[r] = "streaming"
          /\ pc' = [pc EXCEPT ![r] = "settling"]
          /\ outcome' \in {[outcome EXCEPT ![r] = "ok"], [outcome EXCEPT ![r] = "broken"]}
          /\ UNCHANGED <<stream, session>>
      BY <1>4 DEF StreamEnds, GoTo, Answer
    <2> QED
      BY <2>1, QuietStep DEF BInv, BillTypes, BillAt, Streamed, Told, Places
  <1>5. CASE Drop(r)
    <2>1. /\ pc[r] # "done"
          /\ pc' = [pc EXCEPT ![r] = "dropped"]
          /\ UNCHANGED <<stream, session, outcome>>
      BY <1>5 DEF Drop, GoTo
    <2> QED
      BY <2>1, QuietStep DEF BInv, BillTypes, BillAt, Streamed, Told, Places
  <1> QED
    BY <1>1, <1>2, <1>3, <1>4, <1>5 DEF Walk

\* The pre-charge, and the answers that come before it (select_keys, pre_charge).
LEMMA OpeningStep ==
    ASSUME BInv, NEW r \in Requests, Route(r) \/ LoadFails(r) \/ PreCharge(r)
    PROVE  BInv' /\ [Bill!Next]_(Bill!vars)
  <1>1. CASE \/ Route(r) /\ pc' = [pc EXCEPT ![r] = "routed"] /\ UNCHANGED outcome
             \/ Route(r) /\ pc' = [pc EXCEPT ![r] = "done"]
                         /\ outcome' = [outcome EXCEPT ![r] = "exhausted"]
             \/ LoadFails(r)
             \/ PreCharge(r) /\ pc' = [pc EXCEPT ![r] = "done"]
    <2>1. /\ pc[r] \in {"new", "routed"}
          /\ \/ pc' = [pc EXCEPT ![r] = "routed"] /\ UNCHANGED outcome
             \/ /\ pc' = [pc EXCEPT ![r] = "done"]
                /\ outcome' \in {[outcome EXCEPT ![r] = "failed"],
                                 [outcome EXCEPT ![r] = "exhausted"]}
          /\ UNCHANGED <<stream, session>>
      BY <1>1 DEF Route, LoadFails, PreCharge, GoTo, Answer, BInv, BillTypes, Places
    <2>2. BInv' /\ reply' = [reply EXCEPT ![r] = Told(r)']
      BY <2>1, OneRequest DEF BInv, BillTypes, BillAt, Streamed, Places
    <2>3. /\ session[r] = "none" /\ reply[r] = "none"
          /\ Told(r)' \in {"none", "failed", "exhausted"}
      BY <2>1 DEF BInv, BillTypes, BillAt, Told, reply, Places
    <2>4. CASE Told(r)' = "none"
      BY <2>1, <2>2, <2>3, <2>4 DEF reply, Bill!vars
    <2>5. CASE Told(r)' \in {"failed", "exhausted"}
      <3>1. Bill!Reply(r, Told(r)')
        BY <2>1, <2>2, <2>3, <2>5 DEF reply, Bill!Reply
      <3> QED
        BY <2>2, <2>5, <3>1 DEF Bill!Next
    <2> QED
      BY <2>3, <2>4, <2>5
  <1>2. CASE PreCharge(r) /\ session' = [session EXCEPT ![r] = "open"] /\ UNCHANGED outcome
             /\ pc' = [pc EXCEPT ![r] = "walking"]
    <2>1. pc[r] = "routed" /\ stream' = stream
      BY <1>2 DEF PreCharge
    <2>2. BInv' /\ reply' = [reply EXCEPT ![r] = Told(r)']
      BY <1>2, <2>1, OneRequest DEF BInv, BillTypes, BillAt, Streamed, Places
    <2>3. session[r] = "none" /\ reply[r] = "none" /\ Told(r)' = "none"
      BY <1>2, <2>1 DEF BInv, BillTypes, BillAt, Told, reply, Places
    <2>4. Bill!Open(r)
      BY <1>2, <2>2, <2>3 DEF reply, Bill!Open
    <2> QED
      BY <2>2, <2>4 DEF Bill!Next
  <1>3. Route(r) => \/ pc' = [pc EXCEPT ![r] = "routed"] /\ UNCHANGED outcome
                    \/ /\ pc' = [pc EXCEPT ![r] = "done"]
                       /\ outcome' = [outcome EXCEPT ![r] = "exhausted"]
    BY Zenon DEF Route, GoTo, Answer
  <1>4. PreCharge(r) => \/ pc' = [pc EXCEPT ![r] = "done"]
                        \/ /\ session' = [session EXCEPT ![r] = "open"] /\ UNCHANGED outcome
                           /\ pc' = [pc EXCEPT ![r] = "walking"]
    BY DEF PreCharge, GoTo
  <1> QED
    BY <1>1, <1>2, <1>3, <1>4

\* settle, track_success and what comes back, and refund.
LEMMA ClosingStep ==
    ASSUME BInv, NEW r \in Requests, Success(r) \/ Settle(r) \/ Track(r) \/ Refund(r)
    PROVE  BInv' /\ [Bill!Next]_(Bill!vars)
  <1>1. CASE Success(r)
    <2>1. /\ pc[r] = "calling"
          /\ \/ stream[r] /\ pc' = [pc EXCEPT ![r] = "streaming"]
                          /\ outcome' = [outcome EXCEPT ![r] = "ok"]
             \/ ~stream[r] /\ pc' = [pc EXCEPT ![r] = "settling"] /\ UNCHANGED outcome
          /\ UNCHANGED <<stream, session>>
      BY <1>1 DEF Success, GoTo, Answer
    <2>2. BInv' /\ reply' = [reply EXCEPT ![r] = Told(r)']
      BY <2>1, OneRequest DEF BInv, BillTypes, BillAt, Streamed, Places
    <2>3. /\ session[r] = "open" /\ reply[r] = "none"
          /\ Told(r)' \in {"none", "ok"}
      BY <2>1 DEF BInv, BillTypes, BillAt, Told, reply, Places
    <2>4. CASE Told(r)' = "none"
      BY <2>1, <2>2, <2>3, <2>4 DEF reply, Bill!vars
    <2>5. CASE Told(r)' = "ok"
      <3>1. Bill!Reply(r, "ok")
        BY <2>1, <2>2, <2>3, <2>5 DEF reply, Bill!Reply
      <3> QED
        BY <2>2, <3>1 DEF Bill!Next
    <2> QED
      BY <2>3, <2>4, <2>5
  <1>2. CASE Settle(r)
    <2>1. /\ pc[r] = "settling"
          /\ pc' = [pc EXCEPT ![r] = "tracking"]
          /\ session' \in {session, [session EXCEPT ![r] = "settled"]}
          /\ UNCHANGED <<stream, outcome>>
      BY <1>2 DEF Settle, GoTo
    <2>2. BInv' /\ reply' = [reply EXCEPT ![r] = Told(r)']
      BY <2>1, OneRequest DEF BInv, BillTypes, BillAt, Streamed, Places
    <2>3. session[r] = "open" /\ reply[r] \in {"none", "ok"} /\ Told(r)' = reply[r]
      BY <2>1 DEF BInv, BillTypes, BillAt, Streamed, Told, reply, Places
    <2>4. UNCHANGED reply
      BY <2>2, <2>3 DEF reply
    <2>5. Bill!Settle(r) \/ UNCHANGED <<session, reply>>
      BY <2>1, <2>3, <2>4 DEF reply, Bill!Settle
    <2> QED
      BY <2>2, <2>5 DEF reply, Bill!Next, Bill!vars
  <1>3. CASE Track(r)
    <2>1. /\ pc[r] = "tracking"
          /\ pc' = [pc EXCEPT ![r] = "done"]
          /\ IF stream[r] THEN UNCHANGED outcome
             ELSE outcome' \in {[outcome EXCEPT ![r] = "ok"], [outcome EXCEPT ![r] = "failed"]}
          /\ UNCHANGED <<stream, session>>
      BY <1>3 DEF Track, GoTo, Answer
    <2>2. BInv' /\ reply' = [reply EXCEPT ![r] = Told(r)']
      BY <2>1, OneRequest DEF BInv, BillTypes, BillAt, Streamed, Places
    <2>3. /\ session[r] \in {"open", "settled"}
          /\ \/ Told(r)' = reply[r]
             \/ reply[r] = "none" /\ Told(r)' \in {"ok", "failed"}
      BY <2>1 DEF BInv, BillTypes, BillAt, Streamed, Told, reply, Places
    <2>4. CASE Told(r)' = reply[r]
      BY <2>1, <2>2, <2>4 DEF reply, Bill!vars
    <2>5. CASE reply[r] = "none" /\ Told(r)' \in {"ok", "failed"}
      <3>1. Bill!Reply(r, Told(r)')
        BY <2>1, <2>2, <2>3, <2>5 DEF reply, Bill!Reply
      <3> QED
        BY <2>2, <2>5, <3>1 DEF Bill!Next
    <2> QED
      BY <2>3, <2>4, <2>5
  <1>4. CASE Refund(r)
    <2>1. /\ pc[r] = "refunding"
          /\ pc' = [pc EXCEPT ![r] = "done"]
          /\ session' \in {session, [session EXCEPT ![r] = "refunded"]}
          /\ UNCHANGED <<stream, outcome>>
      BY <1>4 DEF Refund, GoTo
    <2>2. BInv' /\ reply' = [reply EXCEPT ![r] = Told(r)']
      BY <2>1, OneRequest DEF BInv, BillTypes, BillAt, Streamed, Places
    <2>3. /\ session[r] = "open" /\ reply[r] = "none"
          /\ Told(r)' \in {"exhausted", "failed"}
      BY <2>1 DEF BInv, BillTypes, BillAt, Streamed, Told, reply, Places
    <2>4. CASE session' = session
      <3>1. Bill!Reply(r, Told(r)')
        BY <2>2, <2>3, <2>4 DEF reply, Bill!Reply
      <3> QED
        BY <2>2, <2>3, <3>1 DEF Bill!Next
    <2>5. CASE session' = [session EXCEPT ![r] = "refunded"]
      <3>1. Bill!Refund(r)
        BY <2>2, <2>3, <2>5 DEF reply, Bill!Refund
      <3> QED
        BY <2>2, <3>1 DEF Bill!Next
    <2> QED
      BY <2>1, <2>4, <2>5
  <1> QED
    BY <1>1, <1>2, <1>3, <1>4

\* A stopped process drops what it has and answers nobody (main).
LEMMA RestartStep ==
    ASSUME BInv, Restart
    PROVE  BInv' /\ UNCHANGED <<session, reply>>
  <1>1. UNCHANGED <<stream, session, outcome>>
    BY DEF Restart
  <1>2. /\ BillTypes'
        /\ \A r \in Requests : BillAt(r)' /\ Told(r)' = Told(r)
    BY <1>1 DEF Restart, BInv, BillTypes, BillAt, Streamed, Told, Places
  <1>3. UNCHANGED reply
    BY <1>2 DEF reply
  <1> QED
    BY <1>1, <1>2, <1>3 DEF BInv

\* Every step keeps the invariant and is one of OneBill's, or none.
LEMMA NextBill == BInv /\ [Next]_vars => BInv' /\ [Bill!Next]_(Bill!vars)
  <1> SUFFICES ASSUME BInv, [Next]_vars
               PROVE  BInv' /\ [Bill!Next]_(Bill!vars)
    OBVIOUS
  <1>1. ASSUME NEW r \in Requests, Walk(r) PROVE BInv' /\ [Bill!Next]_(Bill!vars)
    BY <1>1, WalkStep DEF reply, Bill!vars
  <1>2. ASSUME NEW r \in Requests, Proceed(r) \/ StreamEnds(r) \/ Drop(r)
        PROVE  BInv' /\ [Bill!Next]_(Bill!vars)
    BY <1>1, <1>2, OpeningStep, ClosingStep DEF Proceed, Walk
  <1>3. CASE Environment \/ UNCHANGED vars
    <2>1. UNCHANGED requestVars
      BY <1>3 DEF Environment, vars
    <2> QED
      BY <2>1 DEF requestVars, BInv, BillTypes, BillAt, Streamed, Told, Bill!vars
  <1>4. CASE Restart
    BY <1>4, RestartStep DEF reply, Bill!vars
  <1> QED
    BY <1>2, <1>3, <1>4 DEF Next

\* The executor implements OneBill: one pre-charge at most, closed at most once,
\* on every path out of its loops, with every error it swallows.
THEOREM ExecutorBillsOnce == Spec => BillsOnce
  <1>1. Init => BInv /\ Bill!Init
    BY InitBInv
  <1>2. BInv /\ [Next]_vars => BInv' /\ [Bill!Next]_(Bill!vars)
    BY NextBill
  <1> QED
    BY <1>1, <1>2, PTL DEF Spec, BillsOnce, Bill!Spec

-----------------------------------------------------------------------------
(* Sequences, and what routing makes of the bindings *)

\* A set of numbers that is not empty has a least one.
LEMMA Least ==
    ASSUME NEW T \in SUBSET Nat, T # {}
    PROVE  \E n \in T : \A k \in T : n <= k
  <1>1. IsWellFoundedOn(OpToRel(<, Nat), Nat)
    BY NatLessThanWellFounded, Zenon
  <1>2. PICK n \in T : \A k \in T : <<k, n>> \notin OpToRel(<, Nat)
    BY <1>1, WFMin, Zenon
  <1>3. \A k \in T : ~(k < n)
    BY <1>2, Zenon DEF OpToRel
  <1>4. \A k \in T : k \in Nat /\ n \in Nat
    OBVIOUS
  <1> QED
    BY <1>3, <1>4

\* A property of 0 that passes from each number to the next holds up to any bound;
\* it is given as the set of the numbers that have it.
LEMMA UpTo ==
    ASSUME NEW m \in Nat, NEW P, 0 \in P, \A n \in 1..m : n - 1 \in P => n \in P
    PROVE  \A n \in 0..m : n \in P
  <1> DEFINE T == {n \in 0..m : n \notin P}
  <1> SUFFICES ASSUME T # {} PROVE FALSE
    OBVIOUS
  <1>1. PICK n \in T : \A k \in T : n <= k
    BY Least, T \in SUBSET Nat
  <1>2. n \in 1..m
    BY <1>1
  <1>3. n - 1 \in 0..m /\ ~(n <= n - 1)
    BY <1>2
  <1>4. n - 1 \notin T
    BY <1>1, <1>3
  <1> QED
    BY <1>1, <1>2, <1>3, <1>4

\* What is kept of a sequence is a sequence of the same kind.
LEMMA KeptIsSeq ==
    ASSUME NEW D, NEW s \in Seq(D), NEW S
    PROVE  Kept(s, S) \in Seq(D)
  <1> DEFINE Row(g, i) == IF i = 0 THEN <<>>
                          ELSE IF s[i] \in S THEN Append(g[i - 1], s[i]) ELSE g[i - 1]
             Solves(g, n) == g = [i \in 0..n |-> Row(g, i)]
             P == {n \in Nat : \E g : Solves(g, n)}
             F == CHOOSE f : f = [i \in 0..Len(s) |->
                                    IF i = 0 THEN <<>>
                                    ELSE IF s[i] \in S THEN Append(f[i - 1], s[i])
                                    ELSE f[i - 1]]
  <1>0. Len(s) \in Nat
    OBVIOUS
  <1>1. Kept(s, S) = F[Len(s)]
    BY DEF Kept
  <1>2. 0 \in P
    <2> DEFINE g == [i \in 0..0 |-> <<>>]
    <2>1. Solves(g, 0)
      OBVIOUS
    <2> QED
      BY <2>1
  <1>3. ASSUME NEW n \in 1..Len(s), n - 1 \in P PROVE n \in P
    <2>1. PICK g : Solves(g, n - 1)
      BY <1>3
    <2> DEFINE h == [i \in 0..n |-> IF i = n THEN Row(g, n) ELSE g[i]]
    <2>2. ASSUME NEW i \in 0..n PROVE Row(h, i) = Row(g, i)
      <3>1. CASE i = 0
        BY <3>1
      <3>2. CASE i # 0
        <4>1. i - 1 \in 0..n /\ i - 1 # n
          BY <3>2
        <4>2. h[i - 1] = g[i - 1]
          BY <4>1
        <4> HIDE DEF h
        <4> QED
          BY <3>2, <4>2
      <3> QED
        BY <3>1, <3>2
    <2>3. ASSUME NEW i \in 0..n PROVE h[i] = Row(h, i)
      <3>1. CASE i = n
        BY <2>2, <3>1
      <3>2. CASE i # n
        <4>1. i \in 0..(n - 1)
          BY <3>2
        <4>2. g[i] = Row(g, i)
          <5> HIDE DEF Row
          <5> QED
            BY <2>1, <4>1
        <4> QED
          BY <2>2, <3>2, <4>2
      <3> QED
        BY <3>1, <3>2
    <2>4. Solves(h, n)
      <3>1. h = [i \in 0..n |-> h[i]]
        OBVIOUS
      <3> HIDE DEF h, Row
      <3> QED
        BY <2>3, <3>1
    <2> HIDE DEF Solves, h
    <2> QED
      BY <2>4
  <1>4. Solves(F, Len(s))
    <2>1. Len(s) \in P
      <3> HIDE DEF P
      <3>1. \A n \in 0..Len(s) : n \in P
        BY <1>0, <1>2, <1>3, UpTo
      <3> QED
        BY <1>0, <3>1
    <2>2. \E g : Solves(g, Len(s))
      <3> HIDE DEF Solves
      <3> QED
        BY <2>1
    <2> QED
      BY <2>2
  <1>5. \A n \in 0..Len(s) : F[n] = Row(F, n)
    <2> HIDE DEF F, Row
    <2> QED
      BY <1>4
  <1> HIDE DEF F, P, Solves
  <1>6. \A n \in 0..Len(s) : F[n] \in Seq(D)
    <2> DEFINE Q == {n \in 0..Len(s) : F[n] \in Seq(D)}
    <2>1. 0 \in Q
      <3>1. 0 \in 0..Len(s)
        BY <1>0
      <3>2. F[0] = <<>>
        BY <1>5, <3>1
      <3> QED
        BY <3>1, <3>2, EmptySeq
    <2>2. ASSUME NEW n \in 1..Len(s), n - 1 \in Q PROVE n \in Q
      <3>1. F[n - 1] \in Seq(D) /\ s[n] \in D /\ n # 0 /\ n \in 0..Len(s)
        BY <2>2
      <3>2. F[n] = Row(F, n)
        BY <1>5, <3>1
      <3>3. CASE s[n] \in S
        <4>1. F[n] = Append(F[n - 1], s[n])
          BY <3>1, <3>2, <3>3
        <4>2. Append(F[n - 1], s[n]) \in Seq(D)
          BY <3>1, AppendProperties
        <4> QED
          BY <3>1, <4>1, <4>2
      <3>4. CASE s[n] \notin S
        BY <3>1, <3>2, <3>4
      <3> QED
        BY <3>3, <3>4
    <2> HIDE DEF Q
    <2>3. \A n \in 0..Len(s) : n \in Q
      BY <1>0, <2>1, <2>2, UpTo
    <2> QED
      BY <2>3 DEF Q
  <1> QED
    BY <1>0, <1>1, <1>6

\* The elements of a sequence are its head and those of its tail ...
LEMMA HeadAndRest ==
    ASSUME NEW D, NEW s \in Seq(D), s # <<>>
    PROVE  Head(s) \in D /\ Tail(s) \in Seq(D) /\ ToSet(s) = {Head(s)} \cup ToSet(Tail(s))
  <1>1. /\ Len(s) \in Nat \ {0} /\ Head(s) = s[1] /\ Head(s) \in D /\ Tail(s) \in Seq(D)
        /\ Len(Tail(s)) = Len(s) - 1
        /\ \A i \in 1..Len(Tail(s)) : Tail(s)[i] = s[i + 1]
    BY HeadTailProperties, EmptySeq
  <1>2. DOMAIN s = 1..Len(s) /\ DOMAIN Tail(s) = 1..(Len(s) - 1)
    BY <1>1
  <1>3. \A i \in 1..Len(s) : i = 1 \/ (i - 1 \in 1..(Len(s) - 1) /\ Tail(s)[i - 1] = s[i])
    BY <1>1
  <1>4. \A i \in 1..(Len(s) - 1) : i + 1 \in 1..Len(s) /\ Tail(s)[i] = s[i + 1]
    BY <1>1
  <1>5. 1 \in 1..Len(s)
    BY <1>1
  <1>6. ASSUME NEW x \in ToSet(s) PROVE x \in {Head(s)} \cup ToSet(Tail(s))
    <2>1. PICK i \in 1..Len(s) : x = s[i]
      BY <1>2, <1>6 DEF ToSet
    <2>2. CASE i = 1
      BY <1>1, <2>1, <2>2
    <2>3. CASE i # 1
      <3>1. i - 1 \in DOMAIN Tail(s) /\ Tail(s)[i - 1] = x
        BY <1>2, <1>3, <2>1, <2>3
      <3> QED
        BY <3>1, Zenon DEF ToSet
    <2> QED
      BY <2>2, <2>3
  <1>7. ASSUME NEW x \in {Head(s)} \cup ToSet(Tail(s)) PROVE x \in ToSet(s)
    BY <1>1, <1>2, <1>4, <1>5, <1>7 DEF ToSet
  <1> QED
    BY <1>1, <1>6, <1>7

\* ... and a new head is one element more.
LEMMA Prefixed ==
    ASSUME NEW D, NEW s \in Seq(D), NEW x \in D
    PROVE  /\ <<x>> \o s \in Seq(D) /\ <<x>> \o s # <<>>
           /\ ToSet(<<x>> \o s) = {x} \cup ToSet(s)
  <1> DEFINE t == <<x>> \o s
  <1>1. /\ t \in Seq(D) /\ Len(s) \in Nat /\ Len(t) = Len(s) + 1
        /\ t[1] = x /\ \A i \in 1..Len(s) : t[i + 1] = s[i]
    OBVIOUS
  <1> HIDE DEF t
  <1>2. DOMAIN s = 1..Len(s) /\ DOMAIN t = 1..(Len(s) + 1) /\ 1 \in DOMAIN t
    BY <1>1
  <1>3. \A i \in 1..(Len(s) + 1) : i = 1 \/ (i - 1 \in 1..Len(s) /\ t[i] = s[i - 1])
    <2> TAKE i \in 1..(Len(s) + 1)
    <2>1. i = 1 \/ (i - 1 \in 1..Len(s) /\ (i - 1) + 1 = i)
      BY <1>1
    <2> QED
      BY <1>1, <2>1
  <1>4. \A i \in 1..Len(s) : i + 1 \in 1..(Len(s) + 1) /\ t[i + 1] = s[i]
    BY <1>1
  <1>5. ASSUME NEW y \in ToSet(t) PROVE y \in {x} \cup ToSet(s)
    BY <1>1, <1>2, <1>3, <1>5 DEF ToSet
  <1>6. ASSUME NEW y \in {x} \cup ToSet(s) PROVE y \in ToSet(t)
    BY <1>1, <1>2, <1>4, <1>6 DEF ToSet
  <1>7. t # <<>>
    BY <1>1, EmptySeq
  <1> QED
    BY <1>1, <1>5, <1>6, <1>7 DEF t

\* A binding to try and the keys to try of it.
Group == [id : Ids, keys : Seq(Keys)]

\* The bindings, by their ids.
LEMMA BindingsTyped ==
    /\ Ids = 1..Len(Bindings) /\ Len(Bindings) \in Nat
    /\ \A id \in Ids : Bindings[id].model \in Models /\ Bindings[id].keys \in Seq(Keys)
  <1>1. Bindings \in Seq([model : Models, keys : Seq(Keys)])
    BY ExecutorAssumption
  <1>2. Len(Bindings) \in Nat /\ DOMAIN Bindings = 1..Len(Bindings)
    BY <1>1
  <1>3. \A id \in 1..Len(Bindings) : Bindings[id] \in [model : Models, keys : Seq(Keys)]
    BY <1>1, ElementOfSeq
  <1> QED
    BY <1>2, <1>3 DEF Ids

\* The groups that are routed (select_keys, Router::route).
LEMMA GroupsTyped ==
    ASSUME NEW ids \in SUBSET Ids, NEW contended
    PROVE  Groups(ids, contended) \in Seq(Group)
  <1> DEFINE buckets == [i \in Ids |-> Bucket(i, contended)]
  <1>1. \A i \in Ids : Bucket(i, contended) \in Group
    BY BindingsTyped, KeptIsSeq DEF Bucket, Group
  <1>2. buckets \in Seq(Group)
    BY <1>1, BindingsTyped
  <1> HIDE DEF buckets
  <1>3. Kept(buckets, {b \in {buckets[i] : i \in ids} : b.keys # <<>>}) \in Seq(Group)
    BY <1>2, KeptIsSeq
  <1> QED
    BY <1>3 DEF Groups, buckets

\* A routing strategy gives each group one place.
LEMMA OrdersTyped ==
    ASSUME NEW n \in Nat, NEW order \in Orders(n)
    PROVE  order \in [1..n -> 1..n]
  BY DEF Orders, Injection

\* The executor tries the first MAX_BINDING_ATTEMPTS groups, whatever their order.
LEMMA TriedTyped ==
    ASSUME NEW found \in Seq(Group), NEW order \in Orders(Len(found)), NEW tried,
           tried = SubSeq([i \in 1..Len(found) |-> found[order[i]]], 1,
                          Health!Smaller(MaxBindings, Len(found)))
    PROVE  /\ tried \in Seq(Group)
           /\ {tried[i].id : i \in DOMAIN tried} \in SUBSET Ids
           /\ Cardinality({tried[i].id : i \in DOMAIN tried}) <= MaxBindings
  <1> DEFINE n == Len(found)
             m == Health!Smaller(MaxBindings, n)
             sorted == [i \in 1..n |-> found[order[i]]]
  <1>1. n \in Nat /\ m \in Nat /\ m <= MaxBindings /\ MaxBindings \in Nat
    BY ExecutorAssumption DEF Health!Smaller
  <1>2. \A i \in 1..m : sorted[i] \in Group
    <2>1. m <= n
      BY ExecutorAssumption DEF Health!Smaller
    <2> QED
      BY <1>1, <2>1, OrdersTyped
  <1>3. tried \in Seq(Group) /\ Len(tried) = m
    <2> HIDE DEF n, m, sorted
    <2>1. tried = SubSeq(sorted, 1, m)
      BY DEF n, m, sorted
    <2>2. SubSeq(sorted, 1, m) \in Seq(Group)
          /\ Len(SubSeq(sorted, 1, m)) = (IF 1 <= m THEN m - 1 + 1 ELSE 0)
      BY <1>1, <1>2, SubSeqProperties
    <2>3. tried \in Seq(Group) /\ Len(tried) = (IF 1 <= m THEN m - 1 + 1 ELSE 0)
      BY <2>1, <2>2, Zenon
    <2>4. Len(tried) = m
      BY <1>1, <2>3
    <2> QED
      BY <2>3, <2>4
  <1> HIDE DEF n, m, sorted
  <1> DEFINE I == {tried[i].id : i \in DOMAIN tried}
             f == [i \in 1..m |-> tried[i].id]
  <1>4. DOMAIN tried = 1..m /\ I \in SUBSET Ids
    <2>1. DOMAIN tried = 1..m /\ \A i \in 1..m : tried[i] \in Group
      BY <1>3
    <2> QED
      BY <2>1 DEF Group
  <1>5. Cardinality(I) <= m
    <2>1. f \in Surjection(1..m, I)
      BY <1>4 DEF Surjection
    <2>2. ExistsSurjection(1..m, I)
      BY <2>1 DEF ExistsSurjection
    <2> HIDE DEF I
    <2> QED
      BY <1>1, <2>2, FS_SurjCardinalityBound
  <1>6. IsFiniteSet(I)
    <2>1. f \in Surjection(1..m, I)
      BY <1>4 DEF Surjection
    <2>2. \E k \in Nat : ExistsSurjection(1..k, I)
      BY <1>1, <2>1 DEF ExistsSurjection
    <2> QED
      BY <2>2, FS_NatSurjection
  <1>7. Cardinality(I) <= MaxBindings
    <2>1. Cardinality(I) \in Nat
      BY <1>6, FS_CardinalityType
    <2> HIDE DEF I
    <2> QED
      BY <1>1, <1>5, <2>1
  <1> QED
    BY <1>3, <1>4, <1>7

-----------------------------------------------------------------------------
(* The walk over the keys *)

\* Key k of binding id is still to be tried for r.
Awaits(r, id, k) == \E b \in ToSet(todo[r]) : b.id = id /\ k \in ToSet(b.keys)

\* The list of what is to be tried, and its history.
WalkTypes ==
    /\ todo \in [Requests -> Seq(Group)]
    /\ routed \in [Requests -> SUBSET Ids]
    /\ ruledOut \in [Requests -> SUBSET (Ids \X Keys)]

\* Few bindings are tried; a call has a binding it belongs to; the executor gives up
\* with an empty list; and each key of a routed binding is ruled out or in the list.
WalkAt(r) ==
    /\ Cardinality(routed[r]) <= MaxBindings
    /\ pc[r] = "calling" => todo[r] # <<>>
    /\ outcome[r] = "exhausted" => todo[r] = <<>>
    /\ \A id \in routed[r] : \A k \in ToSet(Bindings[id].keys) :
          <<id, k>> \in ruledOut[r] \/ Awaits(r, id, k)

WInv == WalkTypes /\ \A r \in Requests : WalkAt(r)

\* The keys of a binding are keys.
LEMMA BindingKeys == \A id \in Ids : ToSet(Bindings[id].keys) \subseteq Keys
  BY BindingsTyped DEF ToSet

\* Routing puts each key of the bindings to be tried into the list or rules it out.
LEMMA RouteWalks ==
    ASSUME BInv, WInv, NEW r \in Requests, Route(r)
    PROVE  WInv'
  <1> DEFINE Tried(found, order) == SubSeq([i \in 1..Len(found) |-> found[order[i]]], 1,
                                           Health!Smaller(MaxBindings, Len(found)))
             Chosen(tried) == {tried[i].id : i \in DOMAIN tried}
             Rest(tried) == {p \in Ids \X Keys :
                                \A i \in DOMAIN tried :
                                   p[1] = tried[i].id => ~Contains(tried[i].keys, p[2])}
             Routes(tried) ==
                /\ todo' = [todo EXCEPT ![r] = tried]
                /\ routed' = [routed EXCEPT ![r] = Chosen(tried)]
                /\ RuleOut(r, Rest(tried))
                /\ IF tried = <<>>
                   THEN GoTo(r, "done") /\ Answer(r, "exhausted")
                   ELSE GoTo(r, "routed") /\ UNCHANGED outcome
  <1>1. PICK ids \in SUBSET Ids, contended \in SUBSET (Ids \X Keys) :
           \E order \in Orders(Len(Groups(ids, contended))) :
              Routes(Tried(Groups(ids, contended), order))
    BY Zenon DEF Route
  <1> DEFINE found == Groups(ids, contended)
  <1>2. PICK order \in Orders(Len(found)) : Routes(Tried(found, order))
    BY <1>1
  <1>3. PICK tried : tried = Tried(found, order) /\ Routes(tried)
    BY <1>2, Zenon
  <1>4. pc[r] = "new" /\ outcome[r] = "none"
    BY DEF Route, BInv, BillAt
  <1> DEFINE I == Chosen(tried)
             R == Rest(tried)
  <1>5. tried \in Seq(Group) /\ I \in SUBSET Ids /\ Cardinality(I) <= MaxBindings
    <2>1. Groups(ids, contended) \in Seq(Group)
      BY GroupsTyped
    <2> QED
      BY <1>3, <2>1, TriedTyped, Zenon
  <1>6. /\ todo' = [todo EXCEPT ![r] = tried] /\ routed' = [routed EXCEPT ![r] = I]
        /\ ruledOut' = [ruledOut EXCEPT ![r] = @ \cup R]
        /\ \/ pc' = [pc EXCEPT ![r] = "done"] /\ outcome' = [outcome EXCEPT ![r] = "exhausted"]
              /\ tried = <<>>
           \/ pc' = [pc EXCEPT ![r] = "routed"] /\ outcome' = outcome
    BY <1>3, Zenon DEF RuleOut, GoTo, Answer
  <1>7. R \in SUBSET (Ids \X Keys)
    OBVIOUS
  <1>8. \A id \in I, k \in Keys :
           <<id, k>> \in R \/ \E b \in ToSet(tried) : b.id = id /\ k \in ToSet(b.keys)
    <2> SUFFICES ASSUME NEW id \in I, NEW k \in Keys, <<id, k>> \notin R
                 PROVE  \E b \in ToSet(tried) : b.id = id /\ k \in ToSet(b.keys)
      OBVIOUS
    <2>1. PICK i \in DOMAIN tried : id = tried[i].id /\ Contains(tried[i].keys, k)
      BY <1>5
    <2>2. tried[i] \in ToSet(tried) /\ tried[i] \in Group
      BY <1>5 DEF ToSet
    <2>3. k \in ToSet(tried[i].keys)
      BY <2>1, <2>2 DEF Contains, ToSet, Group
    <2> QED
      BY <2>1, <2>2, <2>3
  <1> HIDE DEF I, R
  <1>9. WalkTypes'
    BY <1>5, <1>6, <1>7 DEF WInv, WalkTypes
  <1>10. ASSUME NEW q \in Requests PROVE WalkAt(q)'
    <2>1. CASE q = r
      <3>1. todo'[r] = tried /\ routed'[r] = I /\ R \subseteq ruledOut'[r]
        BY <1>6 DEF WInv, WalkTypes
      <3>2. /\ pc'[r] # "calling"
            /\ outcome'[r] = "exhausted" => tried = <<>>
        BY <1>4, <1>6 DEF BInv, BillTypes
      <3>3. ASSUME NEW id \in I, NEW k \in ToSet(Bindings[id].keys)
            PROVE  <<id, k>> \in ruledOut'[r] \/ Awaits(r, id, k)'
        <4>1. k \in Keys
          BY <1>5, BindingKeys
        <4> QED
          BY <1>8, <3>1, <4>1 DEF Awaits
      <3> QED
        BY <1>5, <2>1, <3>1, <3>2, <3>3 DEF WalkAt
    <2>2. CASE q # r
      <3>1. /\ todo'[q] = todo[q] /\ routed'[q] = routed[q] /\ ruledOut'[q] = ruledOut[q]
            /\ pc'[q] = pc[q] /\ outcome'[q] = outcome[q]
        BY <1>6, <2>2 DEF WInv, WalkTypes, BInv, BillTypes
      <3> QED
        BY <3>1 DEF WInv, WalkAt, Awaits
    <2> QED
      BY <2>1, <2>2
  <1> QED
    BY <1>9, <1>10 DEF WInv

\* r's list becomes t and the pairs X are ruled out, and no key is lost in between.
MovesOn(r, t, X) ==
    /\ pc[r] \in {"walking", "calling"}
    /\ pc' \in {pc, [pc EXCEPT ![r] = "walking"], [pc EXCEPT ![r] = "calling"]}
    /\ pc'[r] = "calling" => t # <<>>
    /\ todo' = [todo EXCEPT ![r] = t]
    /\ ruledOut' = [ruledOut EXCEPT ![r] = @ \cup X]
    /\ UNCHANGED <<routed, outcome>>
    /\ \A b \in ToSet(todo[r]) : \A k \in ToSet(b.keys) :
          <<b.id, k>> \in X \/ \E c \in ToSet(t) : c.id = b.id /\ k \in ToSet(c.keys)

\* A step of the walk moves on in the list, and rules out what it leaves behind.
LEMMA WalkMovesOn ==
    ASSUME BInv, WInv, NEW r \in Requests, NEW t \in Seq(Group), NEW X \in SUBSET (Ids \X Keys),
           MovesOn(r, t, X)
    PROVE  WInv'
  <1> USE DEF MovesOn
  <1>1. WalkTypes'
    BY DEF WInv, WalkTypes
  <1>2. ASSUME NEW q \in Requests PROVE WalkAt(q)'
    <2>1. CASE q = r
      <3>1. todo'[r] = t /\ ruledOut'[r] = ruledOut[r] \cup X /\ outcome[r] = "none"
        BY DEF WInv, WalkTypes, BInv, BillAt
      <3>2. ASSUME NEW id \in routed[r], NEW k \in ToSet(Bindings[id].keys)
            PROVE  <<id, k>> \in ruledOut'[r] \/ Awaits(r, id, k)'
        <4>1. CASE <<id, k>> \in ruledOut[r]
          BY <3>1, <4>1
        <4>2. CASE Awaits(r, id, k)
          <5>1. PICK b \in ToSet(todo[r]) : b.id = id /\ k \in ToSet(b.keys)
            BY <4>2 DEF Awaits
          <5> QED
            BY <3>1, <5>1 DEF Awaits
        <4> QED
          BY <4>1, <4>2 DEF WInv, WalkAt
      <3> QED
        BY <2>1, <3>1, <3>2 DEF WInv, WalkAt
    <2>2. CASE q # r
      <3>1. /\ todo'[q] = todo[q] /\ routed'[q] = routed[q] /\ ruledOut'[q] = ruledOut[q]
            /\ pc'[q] = pc[q] /\ outcome'[q] = outcome[q]
        BY <2>2 DEF WInv, WalkTypes, BInv, BillTypes
      <3> QED
        BY <3>1 DEF WInv, WalkAt, Awaits
    <2> QED
      BY <2>1, <2>2
  <1> QED
    BY <1>1, <1>2 DEF WInv

\* The binding that is tried, and its next key.
LEMMA ThisTyped ==
    ASSUME WInv, NEW r \in Requests, todo[r] # <<>>
    PROVE  /\ This(r) \in Group /\ Tail(todo[r]) \in Seq(Group)
           /\ This(r).id \in Ids /\ This(r).keys \in Seq(Keys)
           /\ ToSet(todo[r]) = {This(r)} \cup ToSet(Tail(todo[r]))
           /\ This(r).keys # <<>> =>
                 /\ Key(r) \in Keys /\ Tail(This(r).keys) \in Seq(Keys)
                 /\ ToSet(This(r).keys) = {Key(r)} \cup ToSet(Tail(This(r).keys))
  <1>1. todo[r] \in Seq(Group)
    BY DEF WInv, WalkTypes
  <1>2. /\ This(r) \in Group /\ Tail(todo[r]) \in Seq(Group)
        /\ ToSet(todo[r]) = {This(r)} \cup ToSet(Tail(todo[r]))
    BY <1>1, HeadAndRest DEF This
  <1>3. This(r).id \in Ids /\ This(r).keys \in Seq(Keys)
    BY <1>2 DEF Group
  <1> QED
    BY <1>2, <1>3, HeadAndRest DEF Key

\* A step that leaves the lists alone: no call begins, and only a walk that has run
\* out of bindings gives up.
LEMMA WalkRests ==
    ASSUME WInv, UNCHANGED <<todo, routed, ruledOut>>,
           \A q \in Requests : /\ pc'[q] = "calling" => pc[q] = "calling"
                               /\ outcome'[q] = "exhausted" =>
                                     outcome[q] = "exhausted" \/ todo[q] = <<>>
    PROVE  WInv'
  BY DEF WInv, WalkTypes, WalkAt, Awaits

\* Every step of a request (execute and its loops).
LEMMA RequestWalks ==
    ASSUME BInv, WInv, NEW r \in Requests, Proceed(r) \/ StreamEnds(r) \/ Drop(r)
    PROVE  WInv'
  <1> USE DEF BInv, BillTypes
  <1>1. CASE Route(r)
    BY <1>1, RouteWalks
  <1>2. CASE NextBinding(r)
    <2>1. /\ pc[r] = "walking" /\ todo[r] # <<>> /\ This(r).keys = <<>>
          /\ todo' = [todo EXCEPT ![r] = Tail(todo[r])]
          /\ UNCHANGED <<pc, outcome, routed, ruledOut>>
      BY <1>2 DEF NextBinding
    <2>2. ruledOut' = [ruledOut EXCEPT ![r] = @ \cup {}]
      BY <2>1 DEF WInv, WalkTypes
    <2>3. ToSet(This(r).keys) = {}
      BY <2>1, EmptySeq DEF ToSet
    <2>4. /\ Tail(todo[r]) \in Seq(Group)
          /\ ToSet(todo[r]) = {This(r)} \cup ToSet(Tail(todo[r]))
      BY <2>1, ThisTyped
    <2>5. \A b \in ToSet(todo[r]) : \A k \in ToSet(b.keys) :
             \E c \in ToSet(Tail(todo[r])) : c.id = b.id /\ k \in ToSet(c.keys)
      BY <2>3, <2>4
    <2>6. pc' \in {pc, [pc EXCEPT ![r] = "walking"], [pc EXCEPT ![r] = "calling"]}
          /\ (pc'[r] = "calling" => Tail(todo[r]) # <<>>) /\ pc[r] \in {"walking", "calling"}
      BY <2>1
    <2>7. {} \in SUBSET (Ids \X Keys)
      OBVIOUS
    <2>8. MovesOn(r, Tail(todo[r]), {})
      BY <2>1, <2>2, <2>5, <2>6 DEF MovesOn
    <2> HIDE DEF BInv, BillTypes
    <2> QED
      BY <2>4, <2>7, <2>8, WalkMovesOn
  <1>3. CASE SkipKey(r) \/ Call(r)
    <2> DEFINE rest == [This(r) EXCEPT !.keys = Tail(@)]
               t == <<rest>> \o Tail(todo[r])
               X == {<<This(r).id, Key(r)>>}
    <2>1. /\ pc[r] = "walking" /\ todo[r] # <<>> /\ This(r).keys # <<>>
          /\ todo' = [todo EXCEPT ![r] = <<rest>> \o Tail(todo[r])]
          /\ ruledOut' = [ruledOut EXCEPT ![r] = @ \cup X]
          /\ UNCHANGED <<outcome, routed>>
          /\ pc' \in {pc, [pc EXCEPT ![r] = "calling"]}
      BY <1>3 DEF SkipKey, Call, AtKey, Advance, RuleOut, GoTo
    <2>2. /\ This(r) \in Group /\ Tail(todo[r]) \in Seq(Group)
          /\ This(r).id \in Ids /\ Key(r) \in Keys /\ Tail(This(r).keys) \in Seq(Keys)
          /\ ToSet(todo[r]) = {This(r)} \cup ToSet(Tail(todo[r]))
          /\ ToSet(This(r).keys) = {Key(r)} \cup ToSet(Tail(This(r).keys))
      BY <2>1, ThisTyped
    <2>3. rest \in Group /\ rest.id = This(r).id /\ rest.keys = Tail(This(r).keys)
      BY <2>2 DEF Group
    <2>4. t \in Seq(Group) /\ t # <<>> /\ ToSet(t) = {rest} \cup ToSet(Tail(todo[r]))
      BY <2>2, <2>3, Prefixed
    <2>5. X \in SUBSET (Ids \X Keys)
      BY <2>2
    <2>6. \A b \in ToSet(todo[r]) : \A k \in ToSet(b.keys) :
             <<b.id, k>> \in X \/ \E c \in ToSet(t) : c.id = b.id /\ k \in ToSet(c.keys)
      BY <2>2, <2>3, <2>4
    <2>7. /\ pc' \in {pc, [pc EXCEPT ![r] = "walking"], [pc EXCEPT ![r] = "calling"]}
          /\ pc'[r] = "calling" => t # <<>>
          /\ pc[r] \in {"walking", "calling"}
      BY <2>1, <2>4
    <2>8. todo' = [todo EXCEPT ![r] = t]
      BY <2>1
    <2> HIDE DEF t, X, rest, BInv, BillTypes
    <2>9. MovesOn(r, t, X)
      BY <2>1, <2>6, <2>7, <2>8 DEF MovesOn
    <2> QED
      BY <2>4, <2>5, <2>9, WalkMovesOn
  <1>4. CASE SkipBinding(r)
    <2> DEFINE X == {<<This(r).id, k>> : k \in ToSet(This(r).keys)}
    <2>1. /\ pc[r] = "calling" /\ pc' = [pc EXCEPT ![r] = "walking"]
          /\ todo' = [todo EXCEPT ![r] = Tail(todo[r])]
          /\ ruledOut' = [ruledOut EXCEPT ![r] = @ \cup X]
          /\ UNCHANGED <<outcome, routed>>
      BY <1>4 DEF SkipBinding, RuleOut, GoTo
    <2>2. todo[r] # <<>>
      BY <2>1 DEF WInv, WalkAt
    <2>3. /\ Tail(todo[r]) \in Seq(Group) /\ This(r).id \in Ids /\ This(r).keys \in Seq(Keys)
          /\ ToSet(todo[r]) = {This(r)} \cup ToSet(Tail(todo[r]))
      BY <2>2, ThisTyped
    <2>4. X \in SUBSET (Ids \X Keys)
      BY <2>3 DEF ToSet
    <2>5. \A b \in ToSet(todo[r]) : \A k \in ToSet(b.keys) :
             \/ <<b.id, k>> \in X
             \/ \E c \in ToSet(Tail(todo[r])) : c.id = b.id /\ k \in ToSet(c.keys)
      BY <2>3
    <2>6. /\ pc' \in {pc, [pc EXCEPT ![r] = "walking"], [pc EXCEPT ![r] = "calling"]}
          /\ pc'[r] = "calling" => Tail(todo[r]) # <<>>
          /\ pc[r] \in {"walking", "calling"}
      BY <2>1
    <2> HIDE DEF X, BInv, BillTypes
    <2>7. MovesOn(r, Tail(todo[r]), X)
      BY <2>1, <2>5, <2>6 DEF MovesOn
    <2> QED
      BY <2>3, <2>4, <2>7, WalkMovesOn
  <1>5. CASE LoadFails(r) \/ PreCharge(r) \/ PrepareFails(r) \/ ReturnToClient(r) \/ Success(r)
    <2>1. /\ UNCHANGED <<todo, routed, ruledOut>>
          /\ \E place \in Places \ {"calling"} : pc' = [pc EXCEPT ![r] = place]
          /\ \E a \in {"failed", "ok"} : outcome' \in {outcome, [outcome EXCEPT ![r] = a]}
      BY <1>5 DEF LoadFails, PreCharge, PrepareFails, ReturnToClient, Success, GoTo, Answer, Places
    <2> QED
      BY <2>1, WalkRests
  <1>6. CASE Exhausted(r)
    <2>1. /\ UNCHANGED <<todo, routed, ruledOut>> /\ todo[r] = <<>>
          /\ pc' = [pc EXCEPT ![r] = "refunding"]
          /\ outcome' = [outcome EXCEPT ![r] = "exhausted"]
      BY <1>6 DEF Exhausted, GoTo, Answer
    <2> QED
      BY <2>1, WalkRests
  <1>7. CASE StreamEnds(r) \/ Settle(r) \/ Track(r) \/ Refund(r)
    <2>1. /\ UNCHANGED <<todo, routed, ruledOut>>
          /\ \E place \in Places \ {"calling"} : pc' = [pc EXCEPT ![r] = place]
          /\ \E a \in {"failed", "ok", "broken"} :
                outcome' \in {outcome, [outcome EXCEPT ![r] = a]}
      BY <1>7 DEF StreamEnds, Settle, Track, Refund, GoTo, Answer, Places
    <2> QED
      BY <2>1, WalkRests
  <1>8. CASE Transient(r) \/ Cooldown(r) \/ Rejected(r) \/ Disable(r) \/ Persist(r) \/ Drop(r)
    <2>1. /\ UNCHANGED <<todo, routed, ruledOut, outcome>>
          /\ \/ pc' = pc
             \/ \E place \in Places \ {"calling"} : pc' = [pc EXCEPT ![r] = place]
      BY <1>8 DEF Transient, Cooldown, Rejected, Disable, Persist, Drop, GoTo, requestVars, Places
    <2> QED
      BY <2>1, WalkRests
  <1> QED
    BY <1>1, <1>2, <1>3, <1>4, <1>5, <1>6, <1>7, <1>8 DEF Proceed

\* ... and every step of the process.
LEMMA NextWalk == BInv /\ WInv /\ [Next]_vars => WInv'
  <1> SUFFICES ASSUME BInv, WInv, [Next]_vars PROVE WInv'
    OBVIOUS
  <1>1. CASE Environment \/ UNCHANGED vars
    <2>1. UNCHANGED requestVars
      BY <1>1 DEF Environment, vars
    <2> QED
      BY <2>1, WalkRests DEF requestVars
  <1>2. CASE Restart
    BY <1>2, WalkRests DEF Restart
  <1> QED
    BY <1>1, <1>2, RequestWalks DEF Next

\* At first nothing is routed.
LEMMA InitWalk == Init => WInv
  <1> SUFFICES ASSUME Init PROVE WInv
    OBVIOUS
  <1>1. Cardinality({}) = 0 /\ 0 <= MaxBindings
    BY FS_EmptySet, ExecutorAssumption
  <1>2. <<>> \in Seq(Group)
    OBVIOUS
  <1> QED
    BY <1>1, <1>2 DEF Init, WInv, WalkTypes, WalkAt

\* AllKeysExhausted is the truth: each key of the bindings that were to be tried has
\* been called, found unavailable or skipped, and these bindings are not more than
\* MAX_BINDING_ATTEMPTS (execute), for any bindings, in any order of routing.
THEOREM GivingUpIsComplete == Spec => []FailoverComplete
  <1>1. WInv => FailoverComplete
    <2> SUFFICES ASSUME WInv, NEW r \in Requests, outcome[r] = "exhausted",
                        NEW id \in routed[r], NEW k \in ToSet(Bindings[id].keys)
                 PROVE  <<id, k>> \in ruledOut[r]
      BY DEF FailoverComplete, WInv, WalkAt
    <2>1. ToSet(todo[r]) = {}
      BY EmptySeq DEF ToSet, WInv, WalkAt
    <2> QED
      BY <2>1 DEF WInv, WalkAt, Awaits
  <1>2. Init => BInv /\ WInv
    BY InitBInv, InitWalk
  <1>3. BInv /\ WInv /\ [Next]_vars => BInv' /\ WInv'
    BY NextBill, NextWalk
  <1> QED
    BY <1>1, <1>2, <1>3, PTL DEF Spec

-----------------------------------------------------------------------------
(* The keys' health *)

\* What a request does to the keys' health is what an attempt does, or nothing.
LEMMA RequestUsesHealth ==
    ASSUME WInv, NEW r \in Requests, Proceed(r) \/ StreamEnds(r) \/ Drop(r)
    PROVE  Health!Work(r) \/ UNCHANGED healthVars
  <1>1. CASE Call(r)
    <2>1. todo[r] # <<>> /\ This(r).keys # <<>>
          /\ Health!Attempt(r, Key(r), Bindings[This(r).id].model)
      BY <1>1 DEF Call, AtKey
    <2>2. Key(r) \in Keys /\ Bindings[This(r).id].model \in Models
      BY <2>1, ThisTyped, BindingsTyped
    <2> QED
      BY <2>1, <2>2 DEF Health!Work
  <1>2. CASE Transient(r) \/ Rejected(r)
    BY <1>2 DEF Transient, Rejected, Health!Work
  <1>3. CASE Cooldown(r) \/ Disable(r) \/ Persist(r)
    BY <1>3 DEF Cooldown, Disable, Persist, Health!Work
  <1>4. CASE SkipBinding(r) \/ ReturnToClient(r) \/ Track(r)
    BY <1>4 DEF SkipBinding, ReturnToClient, Track, Health!Work
  <1>5. CASE Drop(r)
    BY <1>5 DEF Drop, Health!Work
  <1>6. CASE \/ Route(r) \/ LoadFails(r) \/ PreCharge(r)
             \/ NextBinding(r) \/ SkipKey(r) \/ PrepareFails(r)
    BY <1>6 DEF Route, LoadFails, PreCharge, NextBinding, SkipKey, PrepareFails
  <1>7. CASE Success(r) \/ Settle(r) \/ Exhausted(r) \/ Refund(r) \/ StreamEnds(r)
    BY <1>7 DEF Success, Settle, Exhausted, Refund, StreamEnds
  <1> QED
    BY <1>1, <1>2, <1>3, <1>4, <1>5, <1>6, <1>7 DEF Proceed

\* Every step of the executor is a step of KeyHealth or leaves it alone.
LEMMA NextHealth == WInv /\ [Next]_vars => [Health!Next]_(Health!vars)
  <1> SUFFICES ASSUME WInv, [Next]_vars PROVE [Health!Next]_(Health!vars)
    OBVIOUS
  <1>1. UNCHANGED healthVars => UNCHANGED Health!vars
    BY DEF healthVars, Health!vars, Health!dbVars, Health!memVars, Health!attemptVars
  <1>2. CASE Environment
    BY <1>2 DEF Environment, Health!Next
  <1>3. CASE Restart
    BY <1>3 DEF Restart, Health!Next
  <1>4. CASE UNCHANGED vars
    BY <1>1, <1>4 DEF vars
  <1>5. ASSUME NEW r \in Requests, Proceed(r) \/ StreamEnds(r) \/ Drop(r)
        PROVE  [Health!Next]_(Health!vars)
    BY <1>1, <1>5, RequestUsesHealth DEF Health!Next
  <1> QED
    BY <1>2, <1>3, <1>4, <1>5 DEF Next

\* The executor implements KeyHealth: no call without the check, no verdict without
\* its mark (is_available, mark_cooldown, mark_disabled).
THEOREM ExecutorUsesHealth == Spec => UsesHealth
  <1>1. Init => BInv /\ WInv /\ Health!Init
    BY InitBInv, InitWalk DEF Init
  <1>2. BInv /\ WInv /\ [Next]_vars => BInv' /\ WInv' /\ [Health!Next]_(Health!vars)
    BY NextBill, NextWalk, NextHealth
  <1> QED
    BY <1>1, <1>2, PTL DEF Spec, UsesHealth, Health!Spec

\* The proofs of KeyHealth speak of the same health.
LEMMA SameHealth ==
    /\ HP!Init <=> Health!Init
    /\ [HP!Next]_(HP!vars) <=> [Health!Next]_(Health!vars)
    /\ HP!TypeOK <=> Health!TypeOK
    /\ HP!TypeOK' <=> Health!TypeOK'
  <1> USE DEF HP!Pairs, HP!DbStatus, HP!AttemptSteps, HP!dbVars, HP!memVars,
              HP!attemptVars, HP!vars,
              Health!Pairs, Health!DbStatus, Health!AttemptSteps, Health!dbVars,
              Health!memVars, Health!attemptVars, Health!vars
  <1>1. HP!Init <=> Health!Init
    BY DEF HP!Init, Health!Init
  <1>2. (HP!TypeOK <=> Health!TypeOK) /\ (HP!TypeOK' <=> Health!TypeOK')
    BY DEF HP!TypeOK, Health!TypeOK
  <1>3. HP!Next <=> Health!Next
    BY DEF HP!Smaller, HP!Backoff, HP!Available, HP!Goes, HP!AdminWrite, HP!Attempt,
       HP!LogUsage, HP!Answered, HP!Failed, HP!MarkCooldown, HP!MarkDisabled, HP!Persist,
       HP!Drop, HP!Tick, HP!CheckRecoveries, HP!UpdateKey, HP!DeleteKey, HP!CreateKey,
       HP!Restart, HP!Work, HP!Admin, HP!Next,
       Health!Smaller, Health!Backoff, Health!Available, Health!Goes, Health!AdminWrite,
       Health!Attempt, Health!LogUsage, Health!Answered, Health!Failed,
       Health!MarkCooldown, Health!MarkDisabled, Health!Persist, Health!Drop, Health!Tick,
       Health!CheckRecoveries, Health!UpdateKey, Health!DeleteKey, Health!CreateKey,
       Health!Restart, Health!Work, Health!Admin, Health!Next
  <1>4. [HP!Next]_(HP!vars) <=> [Health!Next]_(Health!vars)
    BY <1>3
  <1> QED
    BY <1>1, <1>2, <1>4

\* The types of the keys' health, from its own proofs.
LEMMA HealthKeepsTypes ==
    /\ Health!Init => Health!TypeOK
    /\ Health!TypeOK /\ [Health!Next]_(Health!vars) => Health!TypeOK'
  <1>1. HP!HealthAssumption
    BY SharedAssumption DEF Health!HealthAssumption, HP!HealthAssumption
  <1>2. HP!Init => HP!TypeOK
    BY <1>1, HP!InitTypeOK
  <1>3. HP!TypeOK /\ [HP!Next]_(HP!vars) => HP!TypeOK'
    BY <1>1, HP!NextTypeOK
  <1> QED
    BY <1>2, <1>3, SameHealth

\* The state of requests and keys keeps to its types.
THEOREM ExecutorTypes == Spec => []TypeOK
  <1>1. Init => BInv /\ WInv /\ Health!TypeOK
    BY InitBInv, InitWalk, HealthKeepsTypes DEF Init
  <1>2. BInv /\ WInv /\ Health!TypeOK /\ [Next]_vars => BInv' /\ WInv' /\ Health!TypeOK'
    BY NextBill, NextWalk, NextHealth, HealthKeepsTypes
  <1>3. BInv /\ WInv /\ Health!TypeOK => TypeOK
    BY DEF BInv, BillTypes, WInv, WalkTypes, TypeOK, Group
  <1> QED
    BY <1>1, <1>2, <1>3, PTL DEF Spec

\* What is proved of KeyHealth holds under the executor's requests: the verdicts of
\* the memory reach the disk, and the windows of a streak only grow.
THEOREM HealthHoldsForRequests ==
    Spec => [](Health!DisabledDurable /\ Health!BackoffGrows)
  <1>1. HP!HealthAssumption
    BY SharedAssumption DEF Health!HealthAssumption, HP!HealthAssumption
  <1>2. HP!Spec => []HP!DisabledDurable /\ []HP!BackoffGrows
    BY <1>1, HP!VerdictsAreDurable, HP!WindowsGrow
  <1>3. HP!DisabledDurable <=> Health!DisabledDurable
    BY DEF HP!DisabledDurable, Health!DisabledDurable, HP!Persisting, Health!Persisting
  <1>4. HP!BackoffGrows <=> Health!BackoffGrows
    BY DEF HP!BackoffGrows, Health!BackoffGrows, HP!Backoff, Health!Backoff, HP!Smaller,
       Health!Smaller, HP!Pairs, Health!Pairs
  <1> QED
    BY <1>2, <1>3, <1>4, SameHealth, ExecutorUsesHealth, PTL DEF UsesHealth, Health!Spec, HP!Spec
=============================================================================
