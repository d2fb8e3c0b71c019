----------------------------- MODULE StreamTask -----------------------------
(***************************************************************************)
(* The tasks that stream answers (stream_sse_response, routes/mod.rs) and  *)
(* the end of the process that waits for them (main.rs). A task reads the  *)
(* upstream's bytes as they come, counts the tokens reported in them, hands *)
(* what it forwards to its client through a bounded channel, and settles   *)
(* the bill, tracks the usage and logs the request once the stream is over.*)
(*                                                                         *)
(* An answer is Frames server-sent events; a position in it counts halves  *)
(* of events, so that an odd one lies within a data line. Upstream servers *)
(* and clients are external.                                               *)
(***************************************************************************)
EXTENDS Integers, Sequences

CONSTANTS
    Streams,    \* requests that stream
    Kinds,      \* pairs of a client's and a server's format that occur
    Frames,     \* events of an answer, the last of which is the terminator
    Capacity,   \* of the channel to the client (32)
    Cuts        \* whether upstream's chunks may end within an event

Formats == [client: {"openai", "claude"}, server: {"openai", "anthropic", "chatty"}]

ASSUME TaskAssumption ==
    /\ Kinds \subseteq Formats
    /\ Frames \in Nat /\ Frames >= 3
    /\ Capacity \in Nat \ {0}
    /\ Cuts \in BOOLEAN

VARIABLES
    kind,      \* the formats of a stream
    at,        \* where its handler and its task are
    pos,       \* how far the task has read
    out,       \* what it is about to send
    channel,   \* what waits for the client
    connected, \* whether the client is there
    read,      \* how far the client has read
    told,      \* whether it was told of an error
    usage,     \* usage_acc
    billed,    \* what the bill was settled with
    active,    \* the counter of active streams
    process,   \* "serving", "stopping", "draining" or "exited"
    forced     \* whether the drain gave up

streamVars == <<kind, at, pos, out, channel, connected, read, told, usage, billed>>
vars == <<streamVars, active, process, forced>>

End == 2 * Frames
Error == -1
None == -2
Items == (1..End) \cup {Error}
Steps == {"idle", "handling", "reading", "sending", "settling", "tracking", "logging", "over"}

TypeOK ==
    /\ kind \in [Streams -> Formats]
    /\ at \in [Streams -> Steps]
    /\ pos \in [Streams -> 0..End]
    /\ out \in [Streams -> Items \cup {None}]
    /\ channel \in [Streams -> Seq(Items)]
    /\ \A s \in Streams : Len(channel[s]) <= Capacity
    /\ connected \in [Streams -> BOOLEAN]
    /\ read \in [Streams -> 0..End]
    /\ told \in [Streams -> BOOLEAN]
    /\ usage \in [Streams -> Nat]
    /\ billed \in [Streams -> Nat \cup {None}]
    /\ active \in Nat
    /\ process \in {"serving", "stopping", "draining", "exited"}
    /\ forced \in BOOLEAN

-----------------------------------------------------------------------------
(* What upstream says *)

\* The tokens event i reports: an OpenAI server's total just before the end, or in
\* every event as far as it has come; an Anthropic server's prompt first and
\* answer last.
Report(server, i) ==
    CASE server = "openai" /\ i = Frames - 1          -> Frames
      [] server = "chatty" /\ i < Frames              -> i + 1
      [] server = "anthropic" /\ i = 1                -> 1
      [] server = "anthropic" /\ i = Frames - 1       -> Frames - 1
      [] OTHER                                        -> 0

\* Every server ends up having used this many.
Used == Frames

\* The events that lie whole between two positions.
Whole(p, q) == {i \in 1..Frames : p <= 2 * (i - 1) /\ 2 * i <= q}

\* The last positive report of a set of events, of those in one chunk.
LastReport(server, S) ==
    LET R == {i \in S : Report(server, i) > 0}
    IN  IF R = {} THEN 0 ELSE Report(server, CHOOSE i \in R : \A j \in R : j <= i)

\* extract_usage of one chunk: OpenAI's last report, the sum of Anthropic's.
Extracted(server, S) ==
    IF server = "anthropic"
    THEN (IF 1 \in S THEN Report(server, 1) ELSE 0)
         + (IF Frames - 1 \in S THEN Report(server, Frames - 1) ELSE 0)
    ELSE LastReport(server, S)

-----------------------------------------------------------------------------
(* The task *)

\* The process is there and the stream is at a step of its own.
Is(s, step) == process # "exited" /\ at[s] = step
Goes(s, step) == at' = [at EXCEPT ![s] = step]

Arrive(s, k) ==
    /\ process = "serving" /\ Is(s, "idle")
    /\ kind' = [kind EXCEPT ![s] = k]
    /\ connected' = [connected EXCEPT ![s] = TRUE]
    /\ Goes(s, "handling")
    /\ UNCHANGED <<pos, out, channel, read, told, usage, billed, active, process, forced>>

\* The handler counts the stream and spawns its task.
Spawn(s) ==
    /\ Is(s, "handling")
    /\ active' = active + 1
    /\ Goes(s, "reading")
    /\ UNCHANGED <<kind, pos, out, channel, connected, read, told, usage, billed, process,
                   forced>>

\* Formats that differ go through a translator: the one for an OpenAI server and a
\* Claude client is used for an OpenAI client's request, and conversely.
Translator(k) ==
    CASE k.client = "openai" /\ k.server = "anthropic" -> "OpenaiToClaude"
      [] k.client = "claude" /\ k.server # "anthropic" -> "ClaudeToOpenai"
      [] OTHER                                         -> "none"

\* What a chunk up to q makes the task send. OpenaiToClaude finds no choices in
\* Claude's events, and no JSON in a line that is cut. ClaudeToOpenai joins the
\* halves, knows none of OpenAI's nameless events, and takes [DONE] for JSON.
Forwarded(k, q) ==
    CASE Translator(k) = "none"           -> q
      [] Translator(k) = "OpenaiToClaude" -> IF q % 2 = 1 THEN Error ELSE None
      [] Translator(k) = "ClaudeToOpenai" -> IF q = End THEN Error ELSE None

\* A chunk arrives: its usage is counted before anything else.
Chunk(s, q) ==
    /\ Is(s, "reading") /\ q > pos[s] /\ q <= pos[s] + 4
    /\ Cuts \/ q % 2 = 0
    /\ pos' = [pos EXCEPT ![s] = q]
    /\ usage' = [usage EXCEPT ![s] = @ + Extracted(kind[s].server, Whole(pos[s], q))]
    /\ out' = [out EXCEPT ![s] = Forwarded(kind[s], q)]
    /\ Goes(s, IF out'[s] = None THEN "reading" ELSE "sending")
    /\ UNCHANGED <<kind, channel, connected, read, told, billed, active, process, forced>>

\* Mutant: the guard is gone with the reading loop.
UpstreamEndsUncounted(s) ==
    /\ Is(s, "reading") /\ pos[s] = End
    /\ active' = active - 1
    /\ Goes(s, "settling")
    /\ UNCHANGED <<kind, pos, out, channel, connected, read, told, usage, billed, process,
                   forced>>

UpstreamEnds(s) ==
    /\ Is(s, "reading") /\ pos[s] = End
    /\ Goes(s, "settling")
    /\ UNCHANGED <<kind, pos, out, channel, connected, read, told, usage, billed, active,
                   process, forced>>

UpstreamFails(s) ==
    /\ Is(s, "reading") /\ pos[s] < End
    /\ out' = [out EXCEPT ![s] = Error]
    /\ Goes(s, "sending")
    /\ UNCHANGED <<kind, pos, channel, connected, read, told, usage, billed, active,
                   process, forced>>

\* After an error the stream is over, except that ClaudeToOpenai's only ends the
\* events of its chunk.
AfterSend(s) ==
    IF out[s] = Error /\ ~(Translator(kind[s]) = "ClaudeToOpenai" /\ pos[s] = End)
    THEN "settling" ELSE "reading"

\* Mutant: what does not fit into the channel is dropped.
SendOrDrop(s) ==
    /\ Is(s, "sending") /\ connected[s]
    /\ channel' = [channel EXCEPT ![s] = IF Len(@) < Capacity THEN Append(@, out[s]) ELSE @]
    /\ out' = [out EXCEPT ![s] = None]
    /\ Goes(s, AfterSend(s))
    /\ UNCHANGED <<kind, pos, connected, read, told, usage, billed, active, process, forced>>

Send(s) ==
    /\ Is(s, "sending") /\ connected[s] /\ Len(channel[s]) < Capacity
    /\ channel' = [channel EXCEPT ![s] = Append(@, out[s])]
    /\ out' = [out EXCEPT ![s] = None]
    /\ Goes(s, AfterSend(s))
    /\ UNCHANGED <<kind, pos, connected, read, told, usage, billed, active, process, forced>>

\* The client is gone: an untranslated stream is over, an error has nobody to tell.
SendFails(s) ==
    /\ Is(s, "sending") /\ ~connected[s]
    /\ out' = [out EXCEPT ![s] = None]
    /\ Goes(s, IF Translator(kind[s]) = "none" THEN "settling" ELSE AfterSend(s))
    /\ UNCHANGED <<kind, pos, channel, connected, read, told, usage, billed, active,
                   process, forced>>

\* Mutant: a client that is gone is not charged.
SettlePresent(s) ==
    /\ Is(s, "settling")
    /\ billed' = [billed EXCEPT ![s] = IF connected[s] THEN usage[s] ELSE 0]
    /\ Goes(s, "tracking")
    /\ UNCHANGED <<kind, pos, out, channel, connected, read, told, usage, active, process,
                   forced>>

Settle(s) ==
    /\ Is(s, "settling")
    /\ billed' = [billed EXCEPT ![s] = usage[s]]
    /\ Goes(s, "tracking")
    /\ UNCHANGED <<kind, pos, out, channel, connected, read, told, usage, active, process,
                   forced>>

Track(s) ==
    /\ Is(s, "tracking")
    /\ Goes(s, "logging")
    /\ UNCHANGED <<kind, pos, out, channel, connected, read, told, usage, billed, active,
                   process, forced>>

\* Mutant: the task counts itself out beside its guard.
LogTwice(s) ==
    /\ Is(s, "logging")
    /\ active' = active - 2
    /\ Goes(s, "over")
    /\ UNCHANGED <<kind, pos, out, channel, connected, read, told, usage, billed, process,
                   forced>>

\* The task ends: its guard counts it out and the channel is closed.
Log(s) ==
    /\ Is(s, "logging")
    /\ active' = active - 1
    /\ Goes(s, "over")
    /\ UNCHANGED <<kind, pos, out, channel, connected, read, told, usage, billed, process,
                   forced>>

-----------------------------------------------------------------------------
(* The client *)

Receive(s) ==
    /\ process # "exited" /\ connected[s] /\ channel[s] # <<>>
    /\ channel' = [channel EXCEPT ![s] = Tail(@)]
    /\ IF Head(channel[s]) = Error
       THEN told' = [told EXCEPT ![s] = TRUE] /\ UNCHANGED read
       ELSE read' = [read EXCEPT ![s] = Head(channel[s])] /\ UNCHANGED told
    /\ UNCHANGED <<kind, at, pos, out, connected, usage, billed, active, process, forced>>

\* The response is complete and its connection closed.
Complete(s) ==
    /\ Is(s, "over") /\ connected[s] /\ channel[s] = <<>>
    /\ connected' = [connected EXCEPT ![s] = FALSE]
    /\ UNCHANGED <<kind, at, pos, out, channel, read, told, usage, billed, active, process,
                   forced>>

\* The client leaves: its handler is dropped, its task finds out when it sends.
Leave(s) ==
    /\ process # "exited" /\ connected[s] /\ at[s] \in Steps \ {"idle", "over"}
    /\ connected' = [connected EXCEPT ![s] = FALSE]
    /\ channel' = [channel EXCEPT ![s] = <<>>]
    /\ Goes(s, IF at[s] = "handling" THEN "idle" ELSE at[s])
    /\ UNCHANGED <<kind, pos, out, read, told, usage, billed, active, process, forced>>

-----------------------------------------------------------------------------
(* The end of the process *)

\* A signal: no new connection is accepted.
Signal ==
    /\ process = "serving"
    /\ process' = "stopping"
    /\ UNCHANGED <<streamVars, active, forced>>

\* The server returns once every connection is closed.
ServeEnds ==
    /\ process = "stopping" /\ \A s \in Streams : ~connected[s]
    /\ process' = "draining"
    /\ UNCHANGED <<streamVars, active, forced>>

\* The drain sees no active stream ...
Drained ==
    /\ process = "draining" /\ active = 0
    /\ process' = "exited"
    /\ UNCHANGED <<streamVars, active, forced>>

\* Mutant: the drain waits as long as it takes.
WaitOn == FALSE /\ UNCHANGED vars

\* ... or its deadline has passed.
GiveUp ==
    /\ process = "draining" /\ active > 0
    /\ process' = "exited"
    /\ forced' = TRUE
    /\ UNCHANGED <<streamVars, active>>

Init ==
    /\ kind \in [Streams -> Kinds]
    /\ at = [s \in Streams |-> "idle"]
    /\ pos = [s \in Streams |-> 0]
    /\ out = [s \in Streams |-> None]
    /\ channel = [s \in Streams |-> <<>>]
    /\ connected = [s \in Streams |-> FALSE]
    /\ read = [s \in Streams |-> 0]
    /\ told = [s \in Streams |-> FALSE]
    /\ usage = [s \in Streams |-> 0]
    /\ billed = [s \in Streams |-> None]
    /\ active = 0
    /\ process = "serving"
    /\ forced = FALSE

Task(s) ==
    \/ Spawn(s) \/ UpstreamEnds(s) \/ UpstreamFails(s) \/ Send(s) \/ SendFails(s)
    \/ Settle(s) \/ Track(s) \/ Log(s)
    \/ \E q \in 1..End : Chunk(s, q)

Stream(s) ==
    \/ Task(s) \/ Receive(s) \/ Complete(s) \/ Leave(s)
    \/ \E k \in Kinds : Arrive(s, k)

Next ==
    \/ \E s \in Streams : Stream(s)
    \/ Signal \/ ServeEnds \/ Drained \/ GiveUp

Spec == Init /\ [][Next]_vars

\* Clients do not wait for ever, the process is scheduled, and its deadline comes.
\* Nothing is assumed of upstream servers or of the tasks.
FairSpec ==
    /\ Spec
    /\ \A s \in Streams : WF_vars(Leave(s) \/ Complete(s))
    /\ \A s \in Streams : WF_vars(Receive(s))
    /\ WF_vars(ServeEnds) /\ WF_vars(Drained) /\ WF_vars(GiveUp)

-----------------------------------------------------------------------------
(* Properties *)

Spawned(s) == at[s] \in Steps \ {"idle", "handling"}

\* A drain that was not forced leaves no session unsettled, although tasks outlive
\* their connections and new ones are spawned while the server stops (active_streams,
\* ActiveStreamGuard).
DrainedIsSettled ==
    process = "exited" /\ ~forced => \A s \in Streams : Spawned(s) => billed[s] # None

\* A client that stayed to the end of an untranslated stream has the whole answer
\* or was told of an error: nothing is lost in the channel.
WholeAnswer ==
    \A s \in Streams :
        at[s] = "over" /\ connected[s] /\ channel[s] = <<>> /\ Translator(kind[s]) = "none"
        => read[s] = End \/ told[s]

\* An answer read to its end is billed for what upstream used, whether its client
\* stayed or not and whatever was translated.
UsageIsBilled ==
    \A s \in Streams : billed[s] # None /\ pos[s] = End => billed[s] = Used

\* The process ends after a signal, whatever upstream does.
ShutdownEnds == process = "stopping" ~> process = "exited"

\* A client whose format differs from the server's gets the answer too ("If
\* cross-format: translates chunks via the appropriate stream state machine").
TranslatedIsAnswered ==
    \A s \in Streams :
        at[s] = "over" /\ connected[s] /\ channel[s] = <<>> /\ pos[s] = End => read[s] > 0

\* Sessions are settled before the exit ("so pre-charged quota is properly
\* refunded/charged before exit").
ExitIsSettled ==
    process = "exited" => \A s \in Streams : Spawned(s) => billed[s] # None
=============================================================================
