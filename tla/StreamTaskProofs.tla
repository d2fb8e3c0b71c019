-------------------------- MODULE StreamTaskProofs --------------------------
(***************************************************************************)
(* Proofs about StreamTask: the counter of active streams and the drain,   *)
(* the channel to the client and the usage that is billed, for any number  *)
(* of streams, length of answers and capacity of the channel.              *)
(***************************************************************************)
EXTENDS StreamTask, FiniteSetTheorems, NaturalsInduction, SequenceTheorems, TLAPS

(* What holds at every step *)

\* Where a task has settled its bill, and the streams whose task runs.
Settled == {"tracking", "logging", "over"}
Live == {s \in Streams : at[s] \in Steps \ {"idle", "handling", "over"}}

\* The counter is the number of running tasks, a task past its settling has its
\* bill, one that sends has something to send, and a drain that was not forced saw
\* the counter at zero.
Counted ==
    /\ IsFiniteSet(Live) /\ active = Cardinality(Live)
    /\ \A s \in Streams : at[s] \in Settled => billed[s] # None
    /\ \A s \in Streams : at[s] = "sending" => out[s] # None
    /\ process = "exited" /\ ~forced => active = 0

\* The last position the client has read or finds in the channel.
Sent(s) == IF channel[s] = <<>> THEN read[s] ELSE channel[s][Len(channel[s])]

\* The client was told of an error or finds one in the channel.
Errs(s) == told[s] \/ \E i \in 1..Len(channel[s]) : channel[s][i] = Error

\* A connected client of an untranslated stream has, or finds in the channel, what
\* its task has read; when the task is done that is everything, or an error.
Flows(s) ==
    /\ at[s] \in {"idle", "handling"} => pos[s] = 0 /\ read[s] = 0 /\ channel[s] = <<>>
    /\ connected[s] /\ Translator(kind[s]) = "none" =>
          /\ at[s] = "reading" => Sent(s) = pos[s]
          /\ at[s] = "sending" => out[s] \in {pos[s], Error}
          /\ at[s] \in Settled \cup {"settling"} => Errs(s) \/ Sent(s) = End

AllFlow == \A s \in Streams : Flows(s)

\* What a server has reported by position p, whatever the chunks were.
Reported(server, p) ==
    IF server = "anthropic"
    THEN (IF p >= 2 THEN 1 ELSE 0) + (IF p >= 2 * (Frames - 1) THEN Frames - 1 ELSE 0)
    ELSE IF p >= 2 * (Frames - 1) THEN Frames ELSE 0

\* A task has counted what was reported by where it has read, and that is its bill.
Accounted(s) ==
    /\ kind[s] \in Kinds
    /\ pos[s] % 2 = 0
    /\ usage[s] = Reported(kind[s].server, pos[s])
    /\ at[s] \in {"idle", "handling"} => pos[s] = 0
    /\ billed[s] # None => at[s] \in Settled /\ billed[s] = usage[s]

AllAccounted == \A s \in Streams : Accounted(s)

\* Upstream cuts no event in two and reports the usage once: extract_usage reads
\* every chunk by itself, and adds what each one reports.
WholeEvents == ~Cuts /\ \A k \in Kinds : k.server # "chatty"

-----------------------------------------------------------------------------
(* Reports and sequences *)

\* A set of events that is not empty has a last one.
LEMMA LastOfSome ==
    ASSUME NEW R \in SUBSET (1..Frames), R # {}
    PROVE  \E i \in R : \A j \in R : j <= i
  <1> DEFINE T == {n \in Nat : Frames - n \in R}
  <1>1. T \subseteq Nat /\ T # {}
    <2>1. PICK i \in R : i \in 1..Frames
      OBVIOUS
    <2>2. Frames - i \in Nat /\ Frames - (Frames - i) = i
      BY <2>1, TaskAssumption
    <2> QED
      BY <2>1, <2>2
  <1>2. PICK n \in T : \A k \in T : ~(k < n)
    <2>1. IsWellFoundedOn(OpToRel(<, Nat), Nat)
      BY NatLessThanWellFounded, Zenon
    <2> HIDE DEF T
    <2>2. PICK n \in T : \A k \in T : <<k, n>> \notin OpToRel(<, Nat)
      BY <1>1, <2>1, WFMin, Zenon
    <2> QED
      BY <1>1, <2>2, Zenon DEF OpToRel
  <1>3. ASSUME NEW j \in R PROVE j <= Frames - n
    <2>1. j \in 1..Frames /\ n \in Nat
      BY <1>2
    <2>2. Frames - j \in T
      <3>1. Frames - j \in Nat /\ Frames - (Frames - j) = j
        BY <2>1, TaskAssumption
      <3> QED
        BY <3>1
    <2> QED
      BY <1>2, <2>1, <2>2, TaskAssumption
  <1>4. Frames - n \in R
    BY <1>2
  <1> QED
    BY <1>3, <1>4

\* What a chunk reports is a number of tokens (extract_usage).
LEMMA ExtractedType ==
    ASSUME NEW server \in {"openai", "anthropic", "chatty"}, NEW S \in SUBSET (1..Frames)
    PROVE  Extracted(server, S) \in Nat
  <1>1. \A i \in 1..Frames : Report(server, i) \in Nat
    BY TaskAssumption DEF Report
  <1>2. LastReport(server, S) \in Nat
    <2> DEFINE R == {i \in S : Report(server, i) > 0}
    <2>1. CASE R = {}
      BY <2>1 DEF LastReport
    <2>2. CASE R # {}
      <3>1. \E i \in R : \A j \in R : j <= i
        BY <2>2, LastOfSome
      <3>2. (CHOOSE i \in R : \A j \in R : j <= i) \in 1..Frames
        BY <3>1
      <3> QED
        BY <1>1, <2>2, <3>2 DEF LastReport
    <2> QED
      BY <2>1, <2>2
  <1>3. 1 \in 1..Frames /\ Frames - 1 \in 1..Frames
    BY TaskAssumption
  <1> QED
    BY <1>1, <1>2, <1>3 DEF Extracted

\* A sequence with one more element ends with it.
LEMMA Appended ==
    ASSUME NEW S, NEW c \in Seq(S), NEW x \in S
    PROVE  /\ Append(c, x) # <<>> /\ Len(c) \in Nat
           /\ Len(Append(c, x)) = Len(c) + 1 /\ Append(c, x)[Len(c) + 1] = x
  <1>1. Len(c) \in Nat /\ Len(Append(c, x)) = Len(c) + 1 /\ Append(c, x)[Len(c) + 1] = x
    BY AppendProperties
  <1> QED
    BY <1>1, EmptySeq

\* A sequence without its first element has the same last one, or is empty.
LEMMA TailKeepsLast ==
    ASSUME NEW S, NEW c \in Seq(S), c # <<>>
    PROVE  /\ Len(c) \in Nat \ {0} /\ Len(Tail(c)) = Len(c) - 1 /\ Head(c) = c[1]
           /\ \A i \in 1..Len(Tail(c)) : Tail(c)[i] = c[i + 1]
           /\ IF Len(c) = 1 THEN Tail(c) = <<>>
              ELSE Tail(c) # <<>> /\ Tail(c)[Len(Tail(c))] = c[Len(c)]
  <1>1. /\ Len(c) \in Nat /\ Len(c) # 0 /\ Head(c) = c[1] /\ Tail(c) \in Seq(S)
        /\ Len(Tail(c)) = Len(c) - 1
        /\ \A i \in 1..Len(Tail(c)) : Tail(c)[i] = c[i + 1]
    BY HeadTailProperties, EmptySeq
  <1>2. (Tail(c) = <<>>) <=> (Len(Tail(c)) = 0)
    <2> DEFINE t == Tail(c)
    <2>1. t \in Seq(S)
      BY <1>1
    <2> HIDE DEF t
    <2>2. (t = <<>>) <=> (Len(t) = 0)
      BY <2>1, EmptySeq
    <2> QED
      BY <2>2 DEF t
  <1>3. CASE Len(c) = 1
    <2>1. Tail(c) = <<>>
      BY <1>1, <1>3, <1>2
    <2> QED
      BY <1>1, <1>3, <2>1
  <1>4. CASE Len(c) # 1
    <2>1. Len(Tail(c)) \in 1..Len(Tail(c))
      BY <1>1, <1>4
    <2>2. Tail(c) # <<>>
      BY <1>1, <1>4, <1>2
    <2> QED
      BY <1>1, <1>4, <2>1, <2>2
  <1> QED
    BY <1>1, <1>3, <1>4

\* What a chunk of whole events reports is what the reports have grown by.
LEMMA ReportsAddUp ==
    ASSUME NEW server \in {"openai", "anthropic"}, NEW p \in 0..End, NEW q \in 0..End,
           p < q, p % 2 = 0, q % 2 = 0
    PROVE  Reported(server, q) = Reported(server, p) + Extracted(server, Whole(p, q))
  <1> DEFINE W == Whole(p, q)
  <1>0. Frames \in Nat /\ Frames >= 3 /\ End = 2 * Frames
    BY TaskAssumption DEF End
  <1>1. PICK a \in Int, b \in Int : p = 2 * a /\ q = 2 * b
    <2>1. p = 2 * (p \div 2) /\ q = 2 * (q \div 2) /\ p \div 2 \in Int /\ q \div 2 \in Int
      BY <1>0
    <2> QED
      BY <2>1
  <1>2. a \in 0..Frames /\ b \in 0..Frames /\ a < b
    BY <1>0, <1>1
  <1>3. 1 \in W <=> a = 0
    BY <1>0, <1>1, <1>2 DEF Whole
  <1>4. Frames - 1 \in W <=> a < Frames - 1 /\ Frames - 1 <= b
    BY <1>0, <1>1, <1>2 DEF Whole
  <1>5. CASE server = "anthropic"
    <2>1. Report(server, 1) = 1 /\ Report(server, Frames - 1) = Frames - 1
      BY <1>0, <1>5 DEF Report
    <2>2. Extracted(server, W) = (IF a = 0 THEN 1 ELSE 0)
                                 + (IF a < Frames - 1 /\ Frames - 1 <= b THEN Frames - 1 ELSE 0)
      BY <1>3, <1>4, <1>5, <2>1 DEF Extracted
    <2>3. /\ Reported(server, p) = (IF a >= 1 THEN 1 ELSE 0)
                                   + (IF a >= Frames - 1 THEN Frames - 1 ELSE 0)
          /\ Reported(server, q) = 1 + (IF b >= Frames - 1 THEN Frames - 1 ELSE 0)
      BY <1>0, <1>1, <1>2, <1>5 DEF Reported
    <2> HIDE DEF W
    <2> QED
      BY <1>0, <1>2, <2>2, <2>3 DEF W
  <1>6. CASE server = "openai"
    <2> DEFINE R == {i \in W : Report(server, i) > 0}
    <2>1. \A i \in W : Report(server, i) = IF i = Frames - 1 THEN Frames ELSE 0
      BY <1>0, <1>6 DEF Report, Whole
    <2>2. R = IF Frames - 1 \in W THEN {Frames - 1} ELSE {}
      BY <1>0, <2>1
    <2>3. LastReport(server, W) = IF Frames - 1 \in W THEN Frames ELSE 0
      <3>1. CASE Frames - 1 \in W
        <4>1. (CHOOSE i \in R : \A j \in R : j <= i) = Frames - 1
          BY <1>0, <2>2, <3>1
        <4> QED
          BY <2>1, <2>2, <3>1, <4>1 DEF LastReport
      <3>2. CASE Frames - 1 \notin W
        BY <2>2, <3>2 DEF LastReport
      <3> QED
        BY <3>1, <3>2
    <2>4. Extracted(server, W) = IF a < Frames - 1 /\ Frames - 1 <= b THEN Frames ELSE 0
      BY <1>4, <1>6, <2>3 DEF Extracted
    <2>5. /\ Reported(server, p) = IF a >= Frames - 1 THEN Frames ELSE 0
          /\ Reported(server, q) = IF b >= Frames - 1 THEN Frames ELSE 0
      BY <1>0, <1>1, <1>2, <1>6 DEF Reported
    <2> HIDE DEF W
    <2> QED
      BY <1>0, <1>2, <2>4, <2>5 DEF W
  <1> QED
    BY <1>5, <1>6

-----------------------------------------------------------------------------
(* Types, and the counter of active streams *)

\* Streams start idle, with nothing read, sent or billed.
LEMMA InitTypeOK == Init => TypeOK
  <1> SUFFICES ASSUME Init PROVE TypeOK
    OBVIOUS
  <1>1. 0 \in 0..End /\ End \in Nat
    BY TaskAssumption DEF End
  <1>2. kind \in [Streams -> Formats]
    BY TaskAssumption DEF Init
  <1>3. channel \in [Streams -> Seq(Items)] /\ \A s \in Streams : Len(channel[s]) <= Capacity
    BY TaskAssumption DEF Init
  <1>4. connected \in [Streams -> BOOLEAN] /\ told \in [Streams -> BOOLEAN] /\ forced \in BOOLEAN
    BY Zenon DEF Init
  <1> QED
    BY <1>1, <1>2, <1>3, <1>4 DEF Init, TypeOK, Steps, None

\* Every step of a task, of a client and of the process keeps the types.
LEMMA NextTypeOK == TypeOK /\ Counted /\ [Next]_vars => TypeOK'
  <1> SUFFICES ASSUME TypeOK, Counted, [Next]_vars PROVE TypeOK'
    OBVIOUS
  <1> USE DEF TypeOK
  <1>0. End \in Nat /\ 0 \in 0..End /\ Capacity \in Nat
    BY TaskAssumption DEF End
  <1>1. ASSUME NEW s \in Streams, NEW k \in Kinds, Arrive(s, k) PROVE TypeOK'
    <2>1. k \in Formats
      BY TaskAssumption
    <2> QED
      BY <1>1, <2>1 DEF Arrive, Goes, Steps
  <1>2. ASSUME NEW s \in Streams, Spawn(s) PROVE TypeOK'
    BY <1>2 DEF Spawn, Goes, Steps
  <1>3. ASSUME NEW s \in Streams, NEW q \in 1..End, Chunk(s, q) PROVE TypeOK'
    <2>1. Forwarded(kind[s], q) \in Items \cup {None}
      <3>1. q \in Items /\ Error \in Items
        BY DEF Items
      <3>2. Translator(kind[s]) \in {"none", "OpenaiToClaude", "ClaudeToOpenai"}
        BY DEF Translator
      <3> QED
        BY <3>1, <3>2 DEF Forwarded
    <2>2. out' \in [Streams -> Items \cup {None}]
      BY <1>3, <2>1 DEF Chunk
    <2>3. usage[s] + Extracted(kind[s].server, Whole(pos[s], q)) \in Nat
      <3>1. kind[s].server \in {"openai", "anthropic", "chatty"}
        BY DEF Formats
      <3>2. Whole(pos[s], q) \in SUBSET (1..Frames)
        BY DEF Whole
      <3>3. Extracted(kind[s].server, Whole(pos[s], q)) \in Nat
        BY <3>1, <3>2, ExtractedType
      <3> QED
        BY <3>3
    <2>4. usage' \in [Streams -> Nat]
      BY <1>3, <2>3 DEF Chunk
    <2>5. pos' \in [Streams -> 0..End]
      BY <1>0, <1>3 DEF Chunk
    <2>6. at' \in [Streams -> Steps]
      BY <1>3 DEF Chunk, Goes, Steps
    <2> QED
      BY <1>3, <2>2, <2>4, <2>5, <2>6 DEF Chunk
  <1>4. ASSUME NEW s \in Streams, UpstreamEnds(s) PROVE TypeOK'
    BY <1>4 DEF UpstreamEnds, Goes, Steps
  <1>5. ASSUME NEW s \in Streams, UpstreamFails(s) PROVE TypeOK'
    BY <1>5 DEF UpstreamFails, Goes, Steps, Items
  <1>6. ASSUME NEW s \in Streams, Send(s) PROVE TypeOK'
    <2>1. AfterSend(s) \in Steps
      BY DEF AfterSend, Steps
    <2>2. at' \in [Streams -> Steps]
      BY <1>6, <2>1 DEF Send, Goes
    <2>3. out[s] \in Items
      BY <1>6 DEF Counted, Is, Send
    <2>4. /\ channel' \in [Streams -> Seq(Items)]
          /\ \A q \in Streams : Len(channel'[q]) <= Capacity
      BY <1>0, <1>6, <2>3 DEF Send
    <2>5. out' \in [Streams -> Items \cup {None}]
      BY <1>6 DEF Send
    <2> QED
      BY <1>6, <2>2, <2>4, <2>5 DEF Send
  <1>7. ASSUME NEW s \in Streams, SendFails(s) PROVE TypeOK'
    BY <1>7 DEF SendFails, AfterSend, Goes, Steps
  <1>8. ASSUME NEW s \in Streams, Settle(s) \/ Track(s) PROVE TypeOK'
    BY <1>8 DEF Settle, Track, Goes, Steps
  <1>9. ASSUME NEW s \in Streams, Log(s) PROVE TypeOK'
    <2>1. active - 1 \in Nat
      <3>1. s \in Live
        BY <1>9 DEF Log, Is, Live, Steps
      <3>2. Cardinality(Live) # 0 /\ Cardinality(Live) \in Nat
        BY <3>1, FS_EmptySet, FS_CardinalityType DEF Counted
      <3> QED
        BY <3>2 DEF Counted
    <2> QED
      BY <1>9, <2>1 DEF Log, Goes, Steps
  <1>10. ASSUME NEW s \in Streams, Receive(s) PROVE TypeOK'
    <2>1. Head(channel[s]) \in Items /\ Tail(channel[s]) \in Seq(Items)
          /\ Len(Tail(channel[s])) <= Len(channel[s])
      BY <1>10 DEF Receive
    <2>2. /\ channel' \in [Streams -> Seq(Items)]
          /\ \A q \in Streams : Len(channel'[q]) <= Capacity
      <3>1. channel' = [channel EXCEPT ![s] = Tail(channel[s])]
        BY <1>10 DEF Receive
      <3>2. Len(channel[s]) \in Nat /\ Len(Tail(channel[s])) \in Nat
        BY <2>1
      <3> QED
        BY <1>0, <2>1, <3>1, <3>2
    <2>3. told' \in [Streams -> BOOLEAN]
      BY <1>10 DEF Receive
    <2>4. read' \in [Streams -> 0..End]
      <3>1. CASE Head(channel[s]) = Error
        BY <1>10, <3>1 DEF Receive
      <3>2. CASE Head(channel[s]) # Error
        <4>1. Head(channel[s]) \in 0..End
          BY <1>0, <2>1, <3>2 DEF Items
        <4> QED
          BY <1>10, <3>2, <4>1 DEF Receive
      <3> QED
        BY <3>1, <3>2
    <2> QED
      BY <1>10, <2>2, <2>3, <2>4 DEF Receive
  <1>11. ASSUME NEW s \in Streams, Complete(s) PROVE TypeOK'
    BY <1>11 DEF Complete
  <1>12. ASSUME NEW s \in Streams, Leave(s) PROVE TypeOK'
    <2>1. /\ channel' \in [Streams -> Seq(Items)]
          /\ \A q \in Streams : Len(channel'[q]) <= Capacity
      BY <1>0, <1>12 DEF Leave
    <2> QED
      BY <1>12, <2>1 DEF Leave, Goes, Steps
  <1>13. CASE Signal \/ ServeEnds \/ Drained \/ GiveUp \/ UNCHANGED vars
    BY <1>13 DEF Signal, ServeEnds, Drained, GiveUp, vars, streamVars
  <1> HIDE DEF TypeOK
  <1> QED
    BY <1>1, <1>2, <1>3, <1>4, <1>5, <1>6, <1>7, <1>8, <1>9, <1>10, <1>11, <1>12, <1>13
    DEF Next, Stream, Task

\* Only Spawn counts a stream in and only Log counts it out, and the drain looks at
\* the count.
LEMMA NextCounted == TypeOK /\ Counted /\ [Next]_vars => Counted'
  <1> SUFFICES ASSUME TypeOK, Counted, [Next]_vars PROVE Counted'
    OBVIOUS
  <1> DEFINE Tasks == Steps \ {"idle", "handling", "over"}
             Paid == \A s \in Streams : at[s] \in Settled => billed[s] # None
             Full == \A s \in Streams : at[s] = "sending" => out[s] # None
  <1>0. Paid /\ Full /\ (process = "exited" /\ ~forced => active = 0)
        /\ IsFiniteSet(Live) /\ active = Cardinality(Live) /\ active \in Nat
    BY DEF Counted, TypeOK
  <1>1. ASSUME NEW s \in Streams, NEW step, Goes(s, step), process # "exited",
               UNCHANGED <<active, process, forced>>,
               (at[s] \in Tasks) <=> (step \in Tasks)
        PROVE  /\ IsFiniteSet(Live') /\ active' = Cardinality(Live')
               /\ process' = "exited" /\ ~forced' => active' = 0
    <2>1. Live' = Live
      BY <1>1 DEF Live, Goes, TypeOK
    <2> QED
      BY <1>0, <1>1, <2>1
  <1>2. ASSUME NEW s \in Streams, Stream(s) PROVE Paid' /\ Full'
    <2>1. ASSUME NEW k \in Kinds, Arrive(s, k) PROVE Paid' /\ Full'
      BY <1>0, <2>1 DEF Arrive, Goes, TypeOK, Settled
    <2>2. ASSUME NEW q \in 1..End, Chunk(s, q) PROVE Paid' /\ Full'
      BY <1>0, <2>2 DEF Chunk, Goes, TypeOK, Settled
    <2>3. CASE Spawn(s) \/ UpstreamEnds(s) \/ Track(s) \/ Log(s)
      BY <1>0, <2>3 DEF Spawn, UpstreamEnds, Track, Log, Is, Goes, TypeOK, Settled
    <2>4. CASE UpstreamFails(s)
      BY <1>0, <2>4 DEF UpstreamFails, Goes, TypeOK, Settled, Error, None
    <2>5. CASE Send(s) \/ SendFails(s)
      BY <1>0, <2>5 DEF Send, SendFails, AfterSend, Is, Goes, TypeOK, Settled
    <2>6. CASE Settle(s)
      <3>1. usage[s] # None
        BY DEF TypeOK, None
      <3> QED
        BY <1>0, <2>6, <3>1 DEF Settle, Goes, TypeOK, Settled
    <2>7. CASE Receive(s) \/ Complete(s)
      BY <1>0, <2>7 DEF Receive, Complete
    <2>8. CASE Leave(s)
      BY <1>0, <2>8 DEF Leave, Goes, TypeOK, Settled
    <2> HIDE DEF Paid, Full
    <2> QED
      BY <1>2, <2>1, <2>2, <2>3, <2>4, <2>5, <2>6, <2>7, <2>8 DEF Stream, Task
  <1>3. ASSUME NEW s \in Streams, Stream(s)
        PROVE  /\ IsFiniteSet(Live') /\ active' = Cardinality(Live')
               /\ process' = "exited" /\ ~forced' => active' = 0
    <2>1. ASSUME NEW k \in Kinds, Arrive(s, k)
          PROVE  /\ IsFiniteSet(Live') /\ active' = Cardinality(Live')
                 /\ process' = "exited" /\ ~forced' => active' = 0
      BY <1>1, <2>1 DEF Arrive, Is
    <2>2. ASSUME NEW q \in 1..End, Chunk(s, q)
          PROVE  /\ IsFiniteSet(Live') /\ active' = Cardinality(Live')
                 /\ process' = "exited" /\ ~forced' => active' = 0
      <3>1. PICK step \in {"reading", "sending"} : Goes(s, step)
        BY <2>2 DEF Chunk
      <3> QED
        BY <1>1, <2>2, <3>1 DEF Chunk, Is, Steps
    <2>3. CASE Spawn(s)
      <3>1. Live' = Live \cup {s} /\ s \notin Live
        BY <2>3 DEF Spawn, Is, Goes, Live, Steps, TypeOK
      <3>2. IsFiniteSet(Live') /\ Cardinality(Live') = Cardinality(Live) + 1
        BY <1>0, <3>1, FS_AddElement
      <3> QED
        BY <1>0, <2>3, <3>2 DEF Spawn, Is
    <2>4. CASE Log(s)
      <3>1. Live' = Live \ {s} /\ s \in Live
        BY <2>4 DEF Log, Is, Goes, Live, Steps, TypeOK
      <3>2. IsFiniteSet(Live') /\ Cardinality(Live') = Cardinality(Live) - 1
        BY <1>0, <3>1, FS_RemoveElement
      <3> QED
        BY <1>0, <2>4, <3>2 DEF Log, Is
    <2>5. CASE UpstreamEnds(s) \/ UpstreamFails(s) \/ Settle(s) \/ Track(s)
      <3>1. at[s] \in Tasks /\ process # "exited" /\ UNCHANGED <<active, process, forced>>
        BY <2>5 DEF UpstreamEnds, UpstreamFails, Settle, Track, Is, Steps
      <3>2. PICK step \in Tasks : Goes(s, step)
        BY <2>5 DEF UpstreamEnds, UpstreamFails, Settle, Track, Steps
      <3> QED
        BY <1>1, <3>1, <3>2
    <2>6. CASE Send(s) \/ SendFails(s)
      <3>1. PICK step \in {"settling", "reading"} : Goes(s, step)
        BY <2>6 DEF Send, SendFails, AfterSend
      <3> QED
        BY <1>1, <2>6, <3>1 DEF Send, SendFails, Is, Steps
    <2>7. CASE Receive(s) \/ Complete(s)
      <3>1. Live' = Live /\ UNCHANGED <<active, process, forced>>
        BY <2>7 DEF Receive, Complete, Live
      <3> QED
        BY <1>0, <3>1
    <2>8. CASE Leave(s)
      <3>1. PICK step \in Steps : Goes(s, step) /\ ((at[s] \in Tasks) <=> (step \in Tasks))
        BY <2>8 DEF Leave, Steps
      <3> QED
        BY <1>1, <2>8, <3>1 DEF Leave
    <2> QED
      BY <1>3, <2>1, <2>2, <2>3, <2>4, <2>5, <2>6, <2>7, <2>8 DEF Stream, Task
  <1>4. CASE Signal \/ ServeEnds \/ Drained \/ GiveUp \/ UNCHANGED vars
    <2>1. UNCHANGED <<streamVars, active>>
      BY <1>4 DEF Signal, ServeEnds, Drained, GiveUp, vars
    <2>2. Live' = Live /\ Paid' /\ Full'
      BY <1>0, <2>1 DEF Live, streamVars
    <2>3. process' = "exited" /\ ~forced' => active' = 0
      BY <1>0, <1>4 DEF Signal, ServeEnds, Drained, GiveUp, vars
    <2> QED
      BY <1>0, <2>1, <2>2, <2>3 DEF Counted
  <1>5. CASE \E s \in Streams : Stream(s)
    BY <1>2, <1>3, <1>5 DEF Counted
  <1> QED
    BY <1>4, <1>5 DEF Next

\* At first there is no task.
LEMMA InitCounted == Init => Counted
  <1> SUFFICES ASSUME Init PROVE Counted
    OBVIOUS
  <1>1. Live = {}
    BY DEF Init, Live
  <1> QED
    BY <1>1, FS_EmptySet DEF Init, Counted, Settled

\* The state of every stream keeps to its types; a task's count of itself never
\* brings the counter below zero (ActiveStreamGuard).
THEOREM StreamTypes == Spec => []TypeOK
  BY InitTypeOK, InitCounted, NextTypeOK, NextCounted, PTL DEF Spec

\* A drain that ends by itself leaves no session unsettled, however many streams
\* there are (active_streams, main.rs).
THEOREM DrainsAreSettled == Spec => []DrainedIsSettled
  <1>1. TypeOK /\ Counted => DrainedIsSettled
    <2> SUFFICES ASSUME TypeOK, Counted, process = "exited", ~forced, NEW s \in Streams,
                        Spawned(s)
                 PROVE  billed[s] # None
      BY DEF DrainedIsSettled
    <2>1. Live = {}
      BY FS_EmptySet DEF Counted
    <2>2. at[s] = "over"
      BY <2>1 DEF Live, Spawned, Steps
    <2> QED
      BY <2>2 DEF Counted, Settled
  <1> QED
    BY <1>1, InitTypeOK, InitCounted, NextTypeOK, NextCounted, PTL DEF Spec

-----------------------------------------------------------------------------
(* The channel to the client *)

\* What belongs to a stream other than the one that steps stays as it is.
LEMMA OthersStay ==
    ASSUME TypeOK, NEW s \in Streams, Stream(s), NEW t \in Streams, t # s
    PROVE  /\ kind'[t] = kind[t] /\ at'[t] = at[t] /\ pos'[t] = pos[t] /\ out'[t] = out[t]
           /\ channel'[t] = channel[t] /\ connected'[t] = connected[t] /\ read'[t] = read[t]
           /\ told'[t] = told[t] /\ usage'[t] = usage[t] /\ billed'[t] = billed[t]
  <1> USE DEF TypeOK
  <1>2. CASE \E k \in Kinds : Arrive(s, k)
    BY <1>2 DEF Arrive, Goes
  <1>3. CASE \E q \in 1..End : Chunk(s, q)
    BY <1>3 DEF Chunk, Goes
  <1>4. CASE Spawn(s) \/ UpstreamEnds(s) \/ UpstreamFails(s)
    BY <1>4 DEF Spawn, UpstreamEnds, UpstreamFails, Goes
  <1>5. CASE Send(s) \/ SendFails(s)
    BY <1>5 DEF Send, SendFails, Goes
  <1>6. CASE Settle(s) \/ Track(s) \/ Log(s)
    BY <1>6 DEF Settle, Track, Log, Goes
  <1>7. CASE Receive(s) \/ Complete(s) \/ Leave(s)
    BY <1>7 DEF Receive, Complete, Leave, Goes
  <1> QED
    BY <1>2, <1>3, <1>4, <1>5, <1>6, <1>7 DEF Stream, Task

\* Each step of a stream carries what was read on to the client, or an error.
LEMMA OwnFlow ==
    ASSUME TypeOK, Counted, NEW s \in Streams, Flows(s), Stream(s)
    PROVE  Flows(s)'
  <1> USE DEF TypeOK
  <1>0. pos[s] \in 0..End /\ End \in Nat /\ Error \notin 0..End /\ None \notin 0..End
    BY TaskAssumption DEF End, Error, None
  <1>1. ASSUME NEW k \in Kinds, Arrive(s, k) PROVE Flows(s)'
    <2>1. pos'[s] = 0 /\ read'[s] = 0 /\ channel'[s] = <<>> /\ at'[s] = "handling"
      BY <1>1 DEF Arrive, Is, Goes, Flows
    <2> QED
      BY <2>1 DEF Flows, Settled
  <1>2. CASE Spawn(s)
    <2>1. /\ pos'[s] = 0 /\ read'[s] = 0 /\ channel'[s] = <<>> /\ at'[s] = "reading"
      BY <1>2 DEF Spawn, Is, Goes, Flows
    <2> QED
      BY <2>1 DEF Flows, Sent, Settled
  <1>3. ASSUME NEW q \in 1..End, Chunk(s, q) PROVE Flows(s)'
    <2>1. /\ kind' = kind /\ pos'[s] = q /\ out'[s] = Forwarded(kind[s], q)
          /\ at'[s] \in {"reading", "sending"}
      BY <1>3 DEF Chunk, Goes
    <2>2. ASSUME Translator(kind[s]) = "none" PROVE out'[s] = q /\ at'[s] = "sending"
      <3>1. out'[s] = q
        BY <2>1, <2>2 DEF Forwarded
      <3>2. q # None
        BY DEF None
      <3> QED
        BY <1>3, <3>1, <3>2 DEF Chunk, Goes
    <2> QED
      BY <2>1, <2>2 DEF Flows, Settled
  <1>4. CASE UpstreamEnds(s)
    <2>1. at[s] = "reading" /\ pos[s] = End /\ at'[s] = "settling"
          /\ UNCHANGED <<kind, read, channel, connected, told>>
      BY <1>4 DEF UpstreamEnds, Is, Goes
    <2> QED
      BY <2>1 DEF Flows, Sent, Settled
  <1>5. CASE UpstreamFails(s)
    <2>1. at'[s] = "sending" /\ out'[s] = Error
      BY <1>5 DEF UpstreamFails, Is, Goes
    <2> QED
      BY <2>1 DEF Flows, Settled
  <1>6. CASE Send(s)
    <2>1. at[s] = "sending" /\ connected[s] /\ UNCHANGED <<kind, pos, connected, read, told>>
          /\ channel'[s] = Append(channel[s], out[s]) /\ at'[s] = AfterSend(s)
      BY <1>6 DEF Send, Is, Goes
    <2>2. out[s] \in Items
      BY <2>1 DEF Counted
    <2>3. Len(channel'[s]) = Len(channel[s]) + 1 /\ channel'[s][Len(channel[s]) + 1] = out[s]
          /\ channel'[s] # <<>> /\ Len(channel[s]) \in Nat
      <3>1. channel[s] \in Seq(Items)
        OBVIOUS
      <3>2. /\ Append(channel[s], out[s]) # <<>> /\ Len(channel[s]) \in Nat
            /\ Len(Append(channel[s], out[s])) = Len(channel[s]) + 1
            /\ Append(channel[s], out[s])[Len(channel[s]) + 1] = out[s]
        BY <2>2, <3>1, Appended
      <3> QED
        BY <2>1, <3>2
    <2>4. Sent(s)' = out[s]
      BY <2>3 DEF Sent
    <2>5. at'[s] \in {"settling", "reading"}
      BY <2>1 DEF AfterSend
    <2>6. ASSUME Translator(kind[s]) = "none"
          PROVE  IF out[s] = Error THEN at'[s] = "settling" /\ Errs(s)'
                 ELSE at'[s] = "reading" /\ Sent(s)' = pos'[s]
      <3>1. CASE out[s] = Error
        BY <2>1, <2>3, <2>6, <3>1 DEF AfterSend, Errs
      <3>2. CASE out[s] # Error
        BY <2>1, <2>4, <2>6, <3>2 DEF AfterSend, Flows
      <3> QED
        BY <3>1, <3>2
    <2> QED
      BY <2>1, <2>5, <2>6 DEF Flows, Settled
  <1>7. CASE SendFails(s)
    <2>1. ~connected'[s] /\ at'[s] \in {"settling", "reading"}
      BY <1>7 DEF SendFails, AfterSend, Goes
    <2> QED
      BY <2>1 DEF Flows
  <1>8. CASE Settle(s) \/ Track(s) \/ Log(s)
    <2>1. at[s] \in Settled \cup {"settling"} /\ at'[s] \in Settled
          /\ UNCHANGED <<kind, read, channel, connected, told>>
      BY <1>8 DEF Settle, Track, Log, Is, Goes, Settled
    <2> QED
      BY <2>1 DEF Flows, Sent, Errs, Settled
  <1>9. CASE Receive(s)
    <2> DEFINE c == channel[s]
    <2>1. c # <<>> /\ channel'[s] = Tail(c) /\ UNCHANGED <<kind, at, pos, out, connected>>
          /\ (IF Head(c) = Error THEN told'[s] /\ read'[s] = read[s]
              ELSE read'[s] = Head(c) /\ told'[s] = told[s])
      BY <1>9 DEF Receive
    <2>2. c \in Seq(Items) /\ Len(c) \in Nat \ {0} /\ Len(Tail(c)) = Len(c) - 1
          /\ \A i \in 1..Len(Tail(c)) : Tail(c)[i] = c[i + 1]
          /\ Head(c) = c[1]
      BY <2>1, TailKeepsLast
    <2>3. at[s] \notin {"idle", "handling"}
      BY <2>1 DEF Flows
    <2>4. Sent(s)' = Sent(s) \/ Sent(s) = Error
      <3>1. CASE Len(c) = 1
        <4>1. Tail(c) = <<>> /\ c[Len(c)] = Head(c)
          BY <2>1, <2>2, <3>1, TailKeepsLast
        <4> QED
          BY <2>1, <4>1 DEF Sent
      <3>2. CASE Len(c) # 1
        <4>1. Tail(c) # <<>> /\ Tail(c)[Len(Tail(c))] = c[Len(c)]
          BY <2>1, <2>2, <3>2, TailKeepsLast
        <4> QED
          BY <2>1, <4>1 DEF Sent
      <3> QED
        BY <3>1, <3>2
    <2>5. Errs(s) => Errs(s)'
      <3>1. CASE told[s]
        BY <2>1, <3>1 DEF Errs
      <3>2. ASSUME NEW i \in 1..Len(c), c[i] = Error PROVE Errs(s)'
        <4>1. CASE i = 1
          BY <2>1, <2>2, <3>2, <4>1 DEF Errs
        <4>2. CASE i # 1
          <5>1. i - 1 \in 1..Len(Tail(c)) /\ Tail(c)[i - 1] = c[i]
            BY <2>2, <4>2
          <5> QED
            BY <2>1, <3>2, <5>1 DEF Errs
        <4> QED
          BY <4>1, <4>2
      <3> QED
        BY <3>1, <3>2 DEF Errs
    <2> HIDE DEF c
    <2> QED
      BY <1>0, <2>1, <2>3, <2>4, <2>5 DEF Flows, Settled
  <1>10. CASE Complete(s)
    BY <1>10 DEF Complete, Is, Flows
  <1>11. CASE Leave(s)
    <2>1. ~connected'[s] /\ channel'[s] = <<>> /\ pos' = pos /\ read' = read
          /\ (at'[s] \in {"idle", "handling"} => at[s] = "handling")
      BY <1>11 DEF Leave, Goes, Steps
    <2> QED
      BY <2>1 DEF Flows
  <1> QED
    BY <1>1, <1>2, <1>3, <1>4, <1>5, <1>6, <1>7, <1>8, <1>9, <1>10, <1>11 DEF Stream, Task

\* ... and no step disturbs what another stream has sent.
LEMMA NextFlow == TypeOK /\ Counted /\ AllFlow /\ [Next]_vars => AllFlow'
  <1> SUFFICES ASSUME TypeOK, Counted, AllFlow, [Next]_vars, NEW t \in Streams PROVE Flows(t)'
    BY DEF AllFlow
  <1>0. Flows(t)
    BY DEF AllFlow
  <1>1. ASSUME NEW s \in Streams, Stream(s) PROVE Flows(t)'
    <2>1. CASE t = s
      BY <1>0, <1>1, <2>1, OwnFlow
    <2>2. CASE t # s
      <3>1. Errs(t)' = Errs(t) /\ Sent(t)' = Sent(t)
        BY <1>1, <2>2, OthersStay DEF Errs, Sent
      <3> QED
        BY <1>0, <1>1, <2>2, <3>1, OthersStay DEF Flows
    <2> QED
      BY <2>1, <2>2
  <1>2. CASE Signal \/ ServeEnds \/ Drained \/ GiveUp \/ UNCHANGED vars
    <2>1. UNCHANGED streamVars
      BY <1>2 DEF Signal, ServeEnds, Drained, GiveUp, vars
    <2> QED
      BY <1>0, <2>1 DEF streamVars, Flows, Errs, Sent
  <1> QED
    BY <1>1, <1>2 DEF Next

\* A client that stays reads the whole answer or an error, whatever the capacity of
\* the channel and the order of reads and sends (stream_sse_response).
THEOREM AnswersAreWhole == Spec => []WholeAnswer
  <1>1. Init => AllFlow
    BY DEF Init, AllFlow, Flows, Settled
  <1>2. AllFlow => WholeAnswer
    BY DEF AllFlow, WholeAnswer, Flows, Settled, Sent, Errs
  <1> QED
    BY <1>1, <1>2, InitTypeOK, InitCounted, NextTypeOK, NextCounted, NextFlow, PTL DEF Spec

-----------------------------------------------------------------------------
(* The usage *)

\* Each step of a stream keeps its account ...
LEMMA OwnAccount ==
    ASSUME WholeEvents, TypeOK, NEW s \in Streams, Accounted(s), Stream(s)
    PROVE  Accounted(s)'
  <1> USE DEF TypeOK
  <1>1. ASSUME NEW k \in Kinds, Arrive(s, k) PROVE Accounted(s)'
    <2>1. kind'[s] = k /\ at[s] = "idle" /\ at'[s] = "handling"
          /\ UNCHANGED <<pos, usage, billed>>
      BY <1>1 DEF Arrive, Is, Goes
    <2>2. pos[s] = 0 /\ billed[s] = None /\ usage[s] = 0
      BY <2>1, TaskAssumption DEF Accounted, Reported, Settled
    <2>3. Reported(k.server, 0) = 0
      BY TaskAssumption DEF Reported
    <2> QED
      BY <2>1, <2>2, <2>3 DEF Accounted
  <1>2. ASSUME NEW q \in 1..End, Chunk(s, q) PROVE Accounted(s)'
    <2>1. /\ pos'[s] = q /\ kind' = kind /\ billed' = billed /\ q % 2 = 0 /\ q > pos[s]
          /\ usage'[s] = usage[s] + Extracted(kind[s].server, Whole(pos[s], q))
          /\ at[s] = "reading" /\ at'[s] \in {"reading", "sending"}
      BY <1>2 DEF Chunk, Is, Goes, WholeEvents
    <2>2. kind[s].server \in {"openai", "anthropic"}
      BY TaskAssumption DEF Accounted, WholeEvents, Formats
    <2>3. q \in 0..End
      BY TaskAssumption DEF End
    <2>4. usage'[s] = Reported(kind[s].server, q)
      BY <2>1, <2>2, <2>3, ReportsAddUp DEF Accounted
    <2> QED
      BY <2>1, <2>4 DEF Accounted, Settled
  <1>3. CASE \/ Spawn(s) \/ UpstreamEnds(s) \/ UpstreamFails(s)
             \/ Send(s) \/ SendFails(s) \/ Complete(s)
    <2>1. /\ UNCHANGED <<kind, pos, usage, billed>>
          /\ at[s] \in Settled => at'[s] \in Settled
          /\ at'[s] \notin {"idle", "handling"} \/ at'[s] = at[s]
      BY <1>3
      DEF Spawn, UpstreamEnds, UpstreamFails, Send, SendFails, AfterSend, Complete, Is, Goes, Settled
    <2> QED
      BY <2>1 DEF Accounted
  <1>4. CASE Settle(s)
    <2>1. UNCHANGED <<kind, pos, usage>> /\ billed'[s] = usage[s] /\ at'[s] = "tracking"
      BY <1>4 DEF Settle, Goes
    <2> QED
      BY <2>1 DEF Accounted, Settled
  <1>5. CASE Track(s) \/ Log(s) \/ Receive(s)
    <2>1. UNCHANGED <<kind, pos, usage, billed>> /\ at'[s] \in Settled \cup {at[s]}
      BY <1>5 DEF Track, Log, Receive, Goes, Settled
    <2> QED
      BY <2>1 DEF Accounted, Settled
  <1>6. CASE Leave(s)
    <2>1. UNCHANGED <<kind, pos, usage, billed>>
          /\ at'[s] = (IF at[s] = "handling" THEN "idle" ELSE at[s])
      BY <1>6 DEF Leave, Goes
    <2> QED
      BY <2>1 DEF Accounted, Settled
  <1> QED
    BY <1>1, <1>2, <1>3, <1>4, <1>5, <1>6 DEF Stream, Task

\* ... and the steps of others do not touch it.
LEMMA NextAccounted == WholeEvents /\ TypeOK /\ AllAccounted /\ [Next]_vars => AllAccounted'
  <1> SUFFICES ASSUME WholeEvents, TypeOK, AllAccounted, [Next]_vars, NEW t \in Streams
               PROVE  Accounted(t)'
    BY DEF AllAccounted
  <1>0. Accounted(t)
    BY DEF AllAccounted
  <1>1. ASSUME NEW s \in Streams, Stream(s) PROVE Accounted(t)'
    <2>1. CASE t = s
      BY <1>0, <1>1, <2>1, OwnAccount
    <2>2. CASE t # s
      BY <1>0, <1>1, <2>2, OthersStay DEF Accounted
    <2> QED
      BY <2>1, <2>2
  <1>2. CASE Signal \/ ServeEnds \/ Drained \/ GiveUp \/ UNCHANGED vars
    <2>1. UNCHANGED streamVars
      BY <1>2 DEF Signal, ServeEnds, Drained, GiveUp, vars
    <2> QED
      BY <1>0, <2>1 DEF streamVars, Accounted
  <1> QED
    BY <1>1, <1>2 DEF Next

\* An answer that was read to its end is billed for what upstream used, once and
\* whatever the chunks were, also when its client has left, when upstream sends
\* whole events and reports its usage once (extract_usage, settle_session).
THEOREM UsesAreBilled == ASSUME WholeEvents PROVE Spec => []UsageIsBilled
  <1>1. Init => AllAccounted
    <2> SUFFICES ASSUME Init, NEW s \in Streams PROVE Accounted(s)
      BY DEF AllAccounted
    <2>1. kind[s] \in Kinds /\ pos[s] = 0 /\ usage[s] = 0 /\ billed[s] = None
      BY DEF Init
    <2>2. Reported(kind[s].server, 0) = 0
      BY TaskAssumption DEF Reported
    <2> QED
      BY <2>1, <2>2 DEF Accounted
  <1>2. TypeOK /\ AllAccounted => UsageIsBilled
    <2> SUFFICES ASSUME TypeOK, AllAccounted, NEW s \in Streams, billed[s] # None, pos[s] = End
                 PROVE  billed[s] = Used
      BY DEF UsageIsBilled
    <2>1. billed[s] = Reported(kind[s].server, End)
      BY DEF AllAccounted, Accounted
    <2> QED
      BY <2>1, TaskAssumption DEF Reported, End, Used
  <1> QED
    BY <1>1, <1>2, InitTypeOK, InitCounted, NextTypeOK, NextCounted, NextAccounted, PTL DEF Spec
=============================================================================
