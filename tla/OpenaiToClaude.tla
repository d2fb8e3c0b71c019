--------------------------- MODULE OpenaiToClaude ---------------------------
(***************************************************************************)
(* OpenaiToClaudeStreamState (crates/translator/src/stream_state.rs): the  *)
(* machine that turns the chunks of an OpenAI completion into the events   *)
(* of a Claude message. Upstream is an OpenAI server, the reader a Claude  *)
(* client that follows the protocol of Claude's messages; both are         *)
(* external. Texts, arguments and identifiers are left out: an event is    *)
(* its type and the block it belongs to.                                   *)
(***************************************************************************)
EXTENDS Integers

CONSTANTS
    MaxBlocks,    \* bound on the content blocks of an answer
    MaxTools,     \* bound on its tool calls
    Interleaved   \* whether upstream may speak between fragments of one call

StreamAssumption ==
    MaxBlocks \in Nat /\ MaxTools \in Nat /\ Interleaved \in BOOLEAN

None == -1

Blocks == {"none", "text", "thinking", "tool_use"}
Finishes == {"stop", "length", "tool_calls", "content_filter"}
Reasons == {"end_turn", "max_tokens", "tool_use"}

\* One data line: its delta, its finish_reason, and whether it carries usage.
\* A line without choices has only usage, or nothing.
Lines == [choices: BOOLEAN, reasoning: BOOLEAN, tool: {None} \cup 0..(MaxTools - 1),
          args: BOOLEAN, text: BOOLEAN, finish: Finishes \cup {"none"}, usage: BOOLEAN]

VARIABLES
    st,      \* the translator, with what its client has made of the events
    up,      \* what upstream has said so far
    at       \* "streaming", "done" after [DONE], or "failed"

vars == <<st, up, at>>

\* The client's view of the message: where it stands, the open block, the index
\* of the next one, the reason it was given, and whether it was told the usage.
Client == [phase: {"new", "open", "ending", "ended", "broken"}, block: Blocks,
           next: Nat, reason: Reasons \cup {"none"}, usage: BOOLEAN]

Translator == [started: BOOLEAN, block: Blocks, index: Nat,
               tool: {None} \cup 0..(MaxTools - 1), finished: BOOLEAN, stopped: BOOLEAN,
               usage: BOOLEAN, reason: Reasons \cup {"none"}, client: Client]

Upstream == [tool: {None} \cup 0..(MaxTools - 1), contiguous: BOOLEAN,
             finish: Finishes \cup {"none"}, usage: BOOLEAN, spoke: BOOLEAN]

TypeOK == st \in Translator /\ up \in Upstream /\ at \in {"streaming", "done", "failed"}

-----------------------------------------------------------------------------
(* The client reads one event. *)

Broken(c) == [c EXCEPT !.phase = "broken"]

ReadMessageStart(c) ==
    IF c.phase = "new" THEN [c EXCEPT !.phase = "open"] ELSE Broken(c)

ReadBlockStart(c, i, b) ==
    IF c.phase = "open" /\ c.block = "none" /\ i = c.next
    THEN [c EXCEPT !.block = b] ELSE Broken(c)

ReadDelta(c, i, b) ==
    IF c.phase = "open" /\ c.block = b /\ i = c.next THEN c ELSE Broken(c)

ReadBlockStop(c, i) ==
    IF c.phase = "open" /\ c.block # "none" /\ i = c.next
    THEN [c EXCEPT !.block = "none", !.next = @ + 1] ELSE Broken(c)

ReadMessageDelta(c, reason, usage) ==
    IF c.phase = "open" /\ c.block = "none"
    THEN [c EXCEPT !.phase = "ending", !.reason = reason, !.usage = usage] ELSE Broken(c)

ReadMessageStop(c) ==
    IF c.phase = "ending" THEN [c EXCEPT !.phase = "ended"] ELSE Broken(c)

-----------------------------------------------------------------------------
(* The translator *)

\* close_current_block
Close(s) ==
    IF s.block = "none" THEN s
    ELSE [s EXCEPT !.client = ReadBlockStop(@, s.index), !.index = @ + 1, !.block = "none"]

\* Mutant: a block is opened over the one before it.
OpenOver(s, b) ==
    [s EXCEPT !.client = ReadBlockStart(@, s.index, b), !.block = b]

\* A block is opened after the current one is closed.
Open(s, b) ==
    LET c == Close(s) IN [c EXCEPT !.client = ReadBlockStart(@, c.index, b), !.block = b]

\* A delta is sent under the current index.
Delta(s, b) == [s EXCEPT !.client = ReadDelta(@, s.index, b)]

\* message_start, once
Start(s) ==
    IF s.started THEN s
    ELSE [s EXCEPT !.started = TRUE, !.client = ReadMessageStart(@)]

Speak(s, b) == Delta(IF s.block = b THEN s ELSE Open(s, b), b)

Reasoning(s, l) == IF l.reasoning THEN Speak(s, "thinking") ELSE s

\* Another index opens a block; the same one goes on with whatever is open.
Tools(s, l) ==
    LET o == IF l.tool = s.tool THEN s ELSE [Open(s, "tool_use") EXCEPT !.tool = l.tool]
    IN  IF l.tool = None THEN s
        ELSE IF l.args THEN Delta(o, "tool_use") ELSE o

Text(s, l) == IF l.text THEN Speak(s, "text") ELSE s

StopReason(finish) ==
    CASE finish = "tool_calls" -> "tool_use"
      [] finish = "length"     -> "max_tokens"
      [] OTHER                 -> "end_turn"

\* message_delta and message_stop
Conclude(s) ==
    LET d == ReadMessageDelta(s.client, s.reason, s.usage)
    IN  [s EXCEPT !.client = ReadMessageStop(d), !.stopped = TRUE]

\* The end of the message waits for the usage, if it is not there yet.
Finish(s, l) ==
    LET f == [Close(s) EXCEPT !.finished = TRUE, !.reason = StopReason(l.finish)]
    IN  IF l.finish = "none" THEN s ELSE IF s.usage THEN Conclude(f) ELSE f

Buffer(s, l) == [s EXCEPT !.usage = @ \/ l.usage]

\* A finished message that still waits for its usage is concluded.
ConcludeWaiting(s) == IF s.finished /\ ~s.stopped THEN Conclude(s) ELSE s

\* process_json
ProcessJson(s, l) ==
    LET b == Buffer(s, l)
    IN  IF ~l.choices THEN ConcludeWaiting(b)
        ELSE Finish(Text(Tools(Reasoning(Start(b), l), l), l), l)

-----------------------------------------------------------------------------
(* The stream *)

\* Upstream numbers its tool calls, ends once, and reports its usage once (the
\* adaptor asks for include_usage), before or after the end; a line without
\* choices after the end is there for the usage. Unless Interleaved, the fragments
\* of a call follow each other.
Legal(l) ==
    /\ l.choices =>
         /\ up.finish = "none"
         /\ l.tool # None => \/ l.tool = up.tool + 1
                             \/ /\ l.tool = up.tool
                                /\ Interleaved \/ (up.contiguous /\ ~l.reasoning)
    /\ ~l.choices =>
         /\ ~l.reasoning /\ ~l.text /\ l.tool = None /\ l.finish = "none"
         /\ up.finish # "none" => l.usage
    /\ l.tool = None => ~l.args
    /\ l.usage => ~up.usage

\* What upstream will remember of a line.
Said(l) ==
    [tool |-> IF l.tool = None THEN up.tool ELSE l.tool,
     contiguous |-> IF l.text THEN FALSE
                    ELSE IF l.tool # None THEN TRUE
                    ELSE up.contiguous /\ ~l.reasoning,
     finish |-> IF l.finish = "none" THEN up.finish ELSE l.finish,
     usage |-> up.usage \/ l.usage,
     spoke |-> up.spoke \/ l.choices]

\* A chunk that ends with a data line.
Line(l) ==
    /\ at = "streaming" /\ Legal(l)
    /\ st.index < MaxBlocks
    /\ st' = ProcessJson(st, l)
    /\ up' = Said(l)
    /\ UNCHANGED at

\* data: [DONE], after the end of the answer
Done ==
    /\ at = "streaming" /\ up.finish # "none"
    /\ st' = ConcludeWaiting(st)
    /\ at' = "done"
    /\ UNCHANGED up

\* A chunk that ends within a data line is not JSON: the task reports an error
\* and forwards nothing of it.
Cut ==
    /\ at = "streaming"
    /\ at' = "failed"
    /\ UNCHANGED <<st, up>>

Init ==
    /\ st = [started |-> FALSE, block |-> "none", index |-> 0, tool |-> None,
             finished |-> FALSE, stopped |-> FALSE, usage |-> FALSE, reason |-> "none",
             client |-> [phase |-> "new", block |-> "none", next |-> 0, reason |-> "none",
                         usage |-> FALSE]]
    /\ up = [tool |-> None, contiguous |-> FALSE, finish |-> "none", usage |-> FALSE,
             spoke |-> FALSE]
    /\ at = "streaming"

Next == (\E l \in Lines : Line(l)) \/ Done \/ Cut

Spec == Init /\ [][Next]_vars

-----------------------------------------------------------------------------
(* Properties *)

\* Whatever upstream mixes into its chunks, the client reads a well-formed
\* message: one start, blocks one at a time and numbered in order, deltas of the
\* open block's kind, one end (process_json, close_current_block).
WellFormed == st.client.phase # "broken"

\* After [DONE] the client has the whole message, with the reason upstream gave
\* and its usage, whether it came before the end, with it or after it.
EndsWithReasonAndUsage ==
    at = "done" => /\ st.client.phase = "ended"
                   /\ st.client.reason = StopReason(up.finish)
                   /\ st.client.usage = up.usage

\* "[DONE] produces no output" (docs/CODE_WIKI.md)
DoneIsSilent == [][at' = "done" => st'.client = st.client]_vars
=============================================================================
