--------------------------- MODULE ClaudeToOpenai ---------------------------
(***************************************************************************)
(* ClaudeToOpenaiStreamState (crates/translator/src/stream_state.rs): the  *)
(* machine that turns the events of a Claude message into the chunks of an *)
(* OpenAI completion. Upstream follows Claude's protocol, the reader is an *)
(* OpenAI client; both are external. An OpenAI client knows a tool call by *)
(* its index and joins the arguments sent under it; what matters of the    *)
(* arguments here is the Claude block they came from.                      *)
(***************************************************************************)
EXTENDS Integers, FiniteSets

CONSTANTS
    MaxBlocks,  \* bound on the content blocks of a message
    Tokens      \* token counts upstream may report

StreamAssumption ==
    MaxBlocks \in Nat /\ Tokens \subseteq Nat

None == -1

\* A request translated from OpenAI declares no server tools, so that no other
\* block carries arguments; redacted thinking stands for what has no delta.
Kinds == {"text", "thinking", "tool_use", "redacted_thinking"}

Reasons == {"end_turn", "tool_use", "max_tokens", "stop_sequence"}
Finishes == {"stop", "tool_calls", "length"}

VARIABLES
    st,      \* the translator
    client,  \* what its client has read
    up       \* what upstream has said

vars == <<st, client, up>>

BlockIds == 0..(MaxBlocks - 1)

Translator == [started: BOOLEAN, toolIndex: Nat, current: {None} \cup Nat,
               reason: Reasons \cup {"none"}, input: Nat, output: Nat]

\* calls: for each tool call the client knows, the Claude block that opened it
\* and the blocks whose arguments were sent under its index.
Client == [phase: {"new", "open", "finished", "metered", "ended", "broken"},
           calls: [BlockIds -> [block: {None} \cup BlockIds, sources: SUBSET BlockIds]],
           finish: Finishes \cup {"none"}, usage: {None} \cup Nat]

Upstream == [phase: {"new", "between", "within", "closing", "ended"},
             kind: Kinds \cup {"none"}, index: 0..MaxBlocks, tools: SUBSET BlockIds,
             reason: Reasons \cup {"none"}, input: Nat, output: Nat]

TypeOK == st \in Translator /\ client \in Client /\ up \in Upstream

-----------------------------------------------------------------------------
(* The client reads one chunk. *)

Broken(c) == [c EXCEPT !.phase = "broken"]

ReadRole(c) == IF c.phase = "new" THEN [c EXCEPT !.phase = "open"] ELSE Broken(c)

ReadSpeech(c) == IF c.phase = "open" THEN c ELSE Broken(c)

ReadCall(c, i, b) ==
    IF c.phase = "open" /\ i \in BlockIds /\ c.calls[i].block = None
    THEN [c EXCEPT !.calls[i].block = b] ELSE Broken(c)

ReadArguments(c, i, b) ==
    IF c.phase = "open" /\ i \in BlockIds /\ c.calls[i].block # None
    THEN [c EXCEPT !.calls[i].sources = @ \cup {b}] ELSE Broken(c)

ReadFinish(c, f) ==
    IF c.phase \in {"new", "open"} THEN [c EXCEPT !.phase = "finished", !.finish = f]
    ELSE Broken(c)

ReadUsage(c, n) ==
    IF c.phase = "finished" THEN [c EXCEPT !.phase = "metered", !.usage = n] ELSE Broken(c)

ReadDone(c) ==
    IF c.phase \in {"finished", "metered"} THEN [c EXCEPT !.phase = "ended"] ELSE Broken(c)

-----------------------------------------------------------------------------
(* The translator: process_event *)

\* The role comes once, before the first chunk.
Greeted == IF st.started THEN client ELSE ReadRole(client)

MessageStart(n) ==
    /\ up.phase = "new"
    /\ up' = [up EXCEPT !.phase = "between", !.input = n]
    /\ st' = [st EXCEPT !.input = n]
    /\ UNCHANGED client

NextBlock(kind) ==
    /\ up.phase = "between" /\ up.index < MaxBlocks
    /\ up' = [up EXCEPT !.phase = "within", !.kind = kind,
                        !.tools = IF kind = "tool_use" THEN @ \cup {up.index} ELSE @]

TextStart ==
    /\ NextBlock("text")
    /\ client' = Greeted
    /\ st' = [st EXCEPT !.started = TRUE]

\* Mutant: the index of the open call is left behind.
ToolStartIndexLate ==
    /\ NextBlock("tool_use")
    /\ client' = ReadCall(Greeted, st.toolIndex, up.index)
    /\ st' = [st EXCEPT !.started = TRUE, !.toolIndex = @ + 1,
                        !.current = IF @ = None THEN st.toolIndex ELSE @]

ToolStart ==
    /\ NextBlock("tool_use")
    /\ client' = ReadCall(Greeted, st.toolIndex, up.index)
    /\ st' = [st EXCEPT !.started = TRUE, !.toolIndex = @ + 1, !.current = st.toolIndex]

\* Any other type is not looked at; the open call stays what it was.
OtherStart(kind) ==
    /\ kind \notin {"text", "tool_use"}
    /\ NextBlock(kind)
    /\ UNCHANGED <<st, client>>

TextDelta ==
    /\ up.phase = "within" /\ up.kind = "text"
    /\ client' = ReadSpeech(Greeted)
    /\ st' = [st EXCEPT !.started = TRUE]
    /\ UNCHANGED up

\* An empty thought sends the role and nothing else.
ThinkingDelta(empty) ==
    /\ up.phase = "within" /\ up.kind = "thinking"
    /\ client' = IF empty THEN Greeted ELSE ReadSpeech(Greeted)
    /\ st' = [st EXCEPT !.started = TRUE]
    /\ UNCHANGED up

\* input_json_delta goes to the call opened last.
InputJsonDelta ==
    /\ up.phase = "within" /\ up.kind = "tool_use"
    /\ client' = IF st.current = None THEN client
                 ELSE ReadArguments(client, st.current, up.index)
    /\ UNCHANGED <<st, up>>

\* content_block_stop changes nothing.
BlockStop ==
    /\ up.phase = "within"
    /\ up' = [up EXCEPT !.phase = "between", !.kind = "none", !.index = @ + 1]
    /\ UNCHANGED <<st, client>>

MessageDelta(reason, n) ==
    /\ up.phase = "between"
    /\ up' = [up EXCEPT !.phase = "closing", !.reason = reason, !.output = n]
    /\ st' = [st EXCEPT !.reason = reason, !.output = n]
    /\ UNCHANGED client

FinishReason(reason) ==
    CASE reason = "tool_use"   -> "tool_calls"
      [] reason = "max_tokens" -> "length"
      [] OTHER                 -> "stop"

\* What message_stop sends: the finish, the usage if there is any, and [DONE].
Closing ==
    LET f == ReadFinish(client, FinishReason(st.reason))
        u == st.input + st.output
    IN  ReadDone(IF u > 0 THEN ReadUsage(f, u) ELSE f)

MessageStop ==
    /\ up.phase = "closing"
    /\ client' = Closing
    /\ up' = [up EXCEPT !.phase = "ended"]
    /\ UNCHANGED st

Init ==
    /\ st = [started |-> FALSE, toolIndex |-> 0, current |-> None, reason |-> "none",
             input |-> 0, output |-> 0]
    /\ client = [phase |-> "new", finish |-> "none", usage |-> None,
                 calls |-> [i \in BlockIds |-> [block |-> None, sources |-> {}]]]
    /\ up = [phase |-> "new", kind |-> "none", index |-> 0, tools |-> {}, reason |-> "none",
             input |-> 0, output |-> 0]

Next ==
    \/ \E n \in Tokens : MessageStart(n)
    \/ TextStart \/ ToolStart \/ \E kind \in Kinds : OtherStart(kind)
    \/ TextDelta \/ InputJsonDelta \/ \E empty \in BOOLEAN : ThinkingDelta(empty)
    \/ BlockStop
    \/ \E reason \in Reasons, n \in Tokens : MessageDelta(reason, n)
    \/ MessageStop

Spec == Init /\ [][Next]_vars

-----------------------------------------------------------------------------
(* Properties *)

\* The client reads the role before anything else and once, arguments only of a
\* call it knows, one finish, the usage after it, and [DONE] last.
WellFormed == client.phase # "broken"

\* No argument reaches another call than the one its Claude block opened, although
\* OpenAI's index and Claude's block index run apart (current_oai_tool_index).
ArgumentsStayWithTheirCall ==
    \A i \in BlockIds : client.calls[i].sources \subseteq {client.calls[i].block}

\* After message_stop the client knows every tool_use block as one call, in order,
\* and has the finish and the tokens upstream gave.
NothingIsLost ==
    up.phase = "ended" =>
        /\ client.phase = "ended"
        /\ client.finish = FinishReason(up.reason)
        /\ client.usage = IF up.input + up.output > 0 THEN up.input + up.output ELSE None
        /\ \A b \in up.tools :
              client.calls[Cardinality({t \in up.tools : t < b})].block = b
=============================================================================
