----------------------------- MODULE Conversation -----------------------------
(***************************************************************************)
(* A conversation between a client that speaks one format and a server     *)
(* that speaks the other, through the translation of whole requests and    *)
(* answers (crates/translator/src/{o2c,c2o}.rs).                           *)
(*                                                                         *)
(* The client keeps the conversation and sends all of it each time; the    *)
(* answers it appends are those the proxy translated for it. So what the   *)
(* server reads is translated from what earlier answers were translated    *)
(* to.                                                                     *)
(*                                                                         *)
(* Each piece of content is a number, in the order it was said; `said`     *)
(* keeps their kinds. Texts that the code joins are sequences of numbers,  *)
(* the empty text the empty sequence. The result of a tool has the number  *)
(* of its call. Models, temperatures, tools and the wording of the format  *)
(* instruction are left out: they are copied. So are images: one format's  *)
(* are passed as they are, the other's are dropped.                        *)
(***************************************************************************)
EXTENDS Integers, SequencesExt

CONSTANTS
    Speakers,       \* roles an OpenAI client gives its own messages
    Limits,         \* max_tokens a client asks for
    MaxSaid         \* bound on the pieces of content

ConversationAssumption ==
    /\ "user" \in Speakers /\ Speakers \cap {"system", "assistant", "tool"} = {}
    /\ Limits \subseteq Nat \ {0} /\ MaxSaid \in Nat

None == -1
Blank == 0          \* an empty text block, and the "." put before an answer
DefaultLimit == 4096
Formats == {"openai", "claude"}
Kinds == {"system", "text", "thinking", "call"}
Efforts == {"low", "medium", "high"}

VARIABLES
    client,     \* its format
    request,    \* what the client would send now, in its format
    wire,       \* what the server last read, in the other; <<>> before
    open,       \* calls the client has not answered
    said,       \* kinds of the pieces so far
    turn

vars == <<client, request, wire, open, said, turn>>

\* Sequences put one after the other: what each element of s gives.
Joined(ss) ==
    LET upto[n \in 0..Len(ss)] == IF n = 0 THEN <<>> ELSE upto[n - 1] \o ss[n]
    IN  upto[Len(ss)]
Gathered(s, Of(_)) == Joined([i \in DOMAIN s |-> Of(s[i])])

Pieces(kind) == {i \in 1..Len(said) : said[i] = kind}
\* The numbers of a kind in the order they were said.
InOrder(S) == Joined([i \in 1..MaxSaid |-> IF i \in S THEN <<i>> ELSE <<>>])
----------------------------------------------------------------------------
(* The two formats.                                                        *)

\* OpenAI: flat messages. A tool message answers one call.
Message(role, texts, reasoning, calls, answers) ==
    [role |-> role, texts |-> texts, reasoning |-> reasoning,
     calls |-> calls, answers |-> answers]

\* Claude: messages of blocks.
Block(type, i) == [type |-> type, id |-> i]
Blocks(type, s) == [i \in DOMAIN s |-> Block(type, s[i])]
OfType(content, type) ==
    Gathered(content, LAMBDA b : IF b.type = type /\ b.id # Blank THEN <<b.id>> ELSE <<>>)
Has(content, type) == \E i \in DOMAIN content : content[i].type = type
----------------------------------------------------------------------------
(* OpenAI to Claude: openai_to_claude_request.                             *)

\* The texts of the system messages, wherever they stand.
SystemTexts(msgs) ==
    Gathered(msgs, LAMBDA m : IF m.role = "system" THEN m.texts ELSE <<>>)

BlocksOf(m) ==
    IF m.role = "tool" THEN <<Block("tool_result", m.answers)>>
    ELSE Blocks("text", m.texts) \o Blocks("tool_use", m.calls)

Turn(m) == [role |-> IF m.role = "tool" THEN "user" ELSE m.role, content |-> BlocksOf(m)]
Pending(msgs) == Gathered(msgs, LAMBDA m : IF m.role = "system" THEN <<>> ELSE <<Turn(m)>>)

\* Consecutive messages of one role become one.
Extended(msgs, m) ==
    IF msgs # <<>> /\ Last(msgs).role = m.role
    THEN [msgs EXCEPT ![Len(msgs)].content = @ \o m.content]
    ELSE Append(msgs, m)
\* Mutant: each stays a message of its own.
MergedNever(msgs) == msgs
Merged(msgs) ==
    LET upto[n \in 0..Len(msgs)] == IF n = 0 THEN <<>> ELSE Extended(upto[n - 1], msgs[n])
    IN  upto[Len(msgs)]

Placeholder == [role |-> "user", content |-> <<Block("text", Blank)>>]
Begun(msgs) == IF msgs = <<>> \/ Head(msgs).role # "user" THEN <<Placeholder>> \o msgs ELSE msgs

Budget(effort) ==
    CASE effort = "low" -> 1280 [] effort = "medium" -> 2048 [] effort = "high" -> 4096
      [] OTHER -> None

LimitOf(limit) == IF limit = None THEN DefaultLimit ELSE limit

ToClaude(r) ==
    [system |-> SystemTexts(r.messages),
     messages |-> Begun(Merged(Pending(r.messages))),
     limit |-> LimitOf(r.limit),
     budget |-> Budget(r.effort),
     serial |-> ~r.parallel]
----------------------------------------------------------------------------
(* Claude to OpenAI: claude_to_openai_request.                             *)

\* The results of tools are messages of their own, before the text that came with
\* them. Thinking goes.
\* Mutant: a message with results is nothing but results.
SplitResults(m) ==
    LET results == OfType(m.content, "tool_result")
        texts == OfType(m.content, "text")
    IN  IF Has(m.content, "tool_result")
        THEN [i \in DOMAIN results |-> Message("tool", <<>>, <<>>, <<>>, results[i])]
        ELSE <<Message(m.role, texts, <<>>, OfType(m.content, "tool_use"), None)>>
Split(m) ==
    LET results == OfType(m.content, "tool_result")
        texts == OfType(m.content, "text")
    IN  IF Has(m.content, "tool_result")
        THEN [i \in DOMAIN results |-> Message("tool", <<>>, <<>>, <<>>, results[i])]
             \o IF Has(m.content, "text")
                THEN <<Message(m.role, texts, <<>>, <<>>, None)>> ELSE <<>>
        ELSE <<Message(m.role, texts, <<>>, OfType(m.content, "tool_use"), None)>>

\* Mutant: the upper bounds are the budgets themselves.
EffortBelow(budget) ==
    CASE budget = None -> "none" [] budget \in 0..1279 -> "low"
      [] budget \in 1280..2047 -> "medium" [] OTHER -> "high"
Effort(budget) ==
    CASE budget = None -> "none" [] budget \in 0..1699 -> "low"
      [] budget \in 1700..2999 -> "medium" [] OTHER -> "high"

ToOpenai(r) ==
    [messages |->
        (IF r.system = <<>> THEN <<>> ELSE <<Message("system", r.system, <<>>, <<>>, None)>>)
        \o Gathered(r.messages, Split),
     limit |-> r.limit,
     effort |-> Effort(r.budget),
     parallel |-> ~r.serial]
----------------------------------------------------------------------------
(* Answers: claude_to_openai_response, openai_to_claude_response.          *)

AnswerForOpenai(content) ==
    Message("assistant", OfType(content, "text"), OfType(content, "thinking"),
            OfType(content, "tool_use"), None)

\* A Claude answer is never without content.
AnswerForClaude(m) ==
    LET content == Blocks("thinking", m.reasoning) \o Blocks("text", m.texts)
                   \o Blocks("tool_use", m.calls)
    IN  [role |-> "assistant",
         content |-> IF content = <<>> THEN <<Block("text", Blank)>> ELSE content]
----------------------------------------------------------------------------
(* The client, the proxy and the server.                                   *)

Saying(kinds) == Len(said) + Len(kinds) <= MaxSaid /\ said' = said \o kinds
Fresh == Len(said) + 1

Added(m) == request' = [request EXCEPT !.messages = Append(@, m)]

\* A message of the client. A Claude client puts the results it owes before its text,
\* an OpenAI client has sent a message for each.
Say(role) ==
    /\ turn = "client" /\ Saying(<<"text">>)
    /\ IF client = "openai"
       THEN open = {} /\ Added(Message(role, <<Fresh>>, <<>>, <<>>, None))
       ELSE role = "user" /\ Added([role |-> role, content |->
                Blocks("tool_result", InOrder(open)) \o <<Block("text", Fresh)>>])
    /\ open' = {}
    /\ UNCHANGED <<client, wire, turn>>

\* A client may begin with an answer it made up.
Greet ==
    /\ turn = "client" /\ request.messages = <<>> /\ Saying(<<"text">>)
    /\ client = "openai"
    /\ Added(Message("assistant", <<Fresh>>, <<>>, <<>>, None))
    /\ UNCHANGED <<client, wire, open, turn>>

Instruct ==
    /\ turn = "client" /\ open = {} /\ Saying(<<"system">>)
    /\ IF client = "openai"
       THEN Added(Message("system", <<Fresh>>, <<>>, <<>>, None))
       ELSE request' = [request EXCEPT !.system = Append(@, Fresh)]
    /\ UNCHANGED <<client, wire, open, turn>>

\* The result of one call (OpenAI), of all of them (Claude).
AnswerCall(c) ==
    /\ turn = "client" /\ c \in open
    /\ IF client = "openai"
       THEN /\ Added(Message("tool", <<>>, <<>>, <<>>, c))
            /\ open' = open \ {c}
       ELSE /\ Added([role |-> "user", content |-> Blocks("tool_result", InOrder(open))])
            /\ open' = {}
    /\ UNCHANGED <<client, wire, said, turn>>

Send ==
    /\ turn = "client" /\ open = {}
    /\ request.messages # <<>> /\ Last(request.messages).role # "assistant"
    /\ wire' = IF client = "openai" THEN ToClaude(request) ELSE ToOpenai(request)
    /\ turn' = "server"
    /\ UNCHANGED <<client, request, open, said>>

\* What a server may answer: thinking, then texts and calls. Claude's may be without
\* anything, and mix texts and calls.
ClaudeAnswers == {<<>>, <<"text">>, <<"thinking", "text">>, <<"call", "call">>,
                  <<"thinking", "text", "call">>, <<"text", "call", "text">>}
OpenaiAnswers == {<<>>, <<"text">>, <<"thinking", "text">>, <<"call", "call">>,
                  <<"thinking", "text", "call">>}

TypeOfKind(kind) == IF kind = "call" THEN "tool_use" ELSE kind
NewOf(kinds, kind) == InOrder({i \in Fresh..(Len(said) + Len(kinds)) : kinds[i - Len(said)] = kind})

Answer(kinds) ==
    /\ turn = "server" /\ Saying(kinds)
    /\ IF client = "openai"
       THEN Added(AnswerForOpenai(
                [i \in DOMAIN kinds |-> Block(TypeOfKind(kinds[i]), Len(said) + i)]))
       ELSE Added(AnswerForClaude(
                Message("assistant", NewOf(kinds, "text"), NewOf(kinds, "thinking"),
                        NewOf(kinds, "call"), None)))
    /\ open' = ToSet(NewOf(kinds, "call"))
    /\ turn' = "client"
    /\ UNCHANGED <<client, wire>>

Init ==
    /\ client \in Formats
    /\ \E limit \in Limits \cup {None}, effort \in Efforts \cup {"none"}, parallel \in BOOLEAN :
         IF client = "openai"
         THEN request = [messages |-> <<>>, limit |-> limit, effort |-> effort,
                         parallel |-> parallel]
         ELSE request = [system |-> <<>>, messages |-> <<>>, limit |-> LimitOf(limit),
                         budget |-> Budget(effort), serial |-> ~parallel]
    /\ wire = <<>> /\ open = {} /\ said = <<>> /\ turn = "client"

Client ==
    \/ \E role \in Speakers : Say(role)
    \/ Greet \/ Instruct \/ Send
    \/ \E c \in open : AnswerCall(c)

Server ==
    \E kinds \in IF client = "openai" THEN ClaudeAnswers ELSE OpenaiAnswers : Answer(kinds)

Next == Client \/ Server

Spec == Init /\ [][Next]_vars
----------------------------------------------------------------------------
(* Reading a request: its pieces, whatever the format.                     *)

InClaude(r) == "system" \in DOMAIN r

Systems(r) == IF InClaude(r) THEN r.system ELSE SystemTexts(r.messages)
Texts(r) ==
    IF InClaude(r) THEN Gathered(r.messages, LAMBDA m : OfType(m.content, "text"))
    ELSE Gathered(r.messages, LAMBDA m : IF m.role = "system" THEN <<>> ELSE m.texts)
Thoughts(r) ==
    IF InClaude(r) THEN Gathered(r.messages, LAMBDA m : OfType(m.content, "thinking"))
    ELSE Gathered(r.messages, LAMBDA m : m.reasoning)
Calls(r) ==
    IF InClaude(r) THEN Gathered(r.messages, LAMBDA m : OfType(m.content, "tool_use"))
    ELSE Gathered(r.messages, LAMBDA m : m.calls)
Results(r) ==
    IF InClaude(r) THEN Gathered(r.messages, LAMBDA m : OfType(m.content, "tool_result"))
    ELSE Gathered(r.messages, LAMBDA m : IF m.role = "tool" THEN <<m.answers>> ELSE <<>>)

\* What a Claude server asks of a request: turns alternate and the user begins; all
\* calls of a turn are answered at the head of the next, and nothing else is.
ClaudeAccepts(r) ==
    /\ r.messages # <<>>
    /\ \A i \in DOMAIN r.messages :
         LET m == r.messages[i]
             calls == IF i = 1 THEN <<>> ELSE OfType(r.messages[i - 1].content, "tool_use")
             results == OfType(m.content, "tool_result")
         IN  /\ m.role = IF i % 2 = 1 THEN "user" ELSE "assistant"
             /\ ToSet(results) = ToSet(calls) /\ Len(results) = Len(calls)
             /\ results = OfType(SubSeq(m.content, 1, Len(results)), "tool_result")
    /\ r.limit \in Nat \ {0}

\* What an OpenAI server asks: the tool messages after a message are the answers to
\* its calls, all of them.
OpenaiAccepts(r) ==
    \A i \in DOMAIN r.messages :
        LET m == r.messages[i]
            follow(n) == \A k \in 1..n : i + k \in DOMAIN r.messages
                                         /\ r.messages[i + k].role = "tool"
        IN  m.role # "tool" =>
              LET n == CHOOSE n \in 0..Len(r.messages) : follow(n) /\ ~follow(n + 1)
              IN  /\ {r.messages[i + k].answers : k \in 1..n} = ToSet(m.calls)
                  /\ n = Len(m.calls)
----------------------------------------------------------------------------
(* Properties.                                                             *)

TypeOK ==
    /\ client \in Formats /\ turn \in {"client", "server"}
    /\ said \in Seq(Kinds) /\ Len(said) <= MaxSaid
    /\ open \subseteq Pieces("call")
    /\ InClaude(request) <=> client = "claude"
    /\ wire # <<>> =>
         /\ InClaude(wire) <=> client = "openai"
         /\ IF InClaude(wire)
            THEN wire.limit \in Nat /\ wire.budget \in Nat \cup {None} /\ wire.serial \in BOOLEAN
            ELSE wire.effort \in Efforts \cup {"none"} /\ wire.parallel \in BOOLEAN

\* However the turns, the calls and their results were cut into messages, what the
\* server reads keeps the rules of its format.
WellFormed ==
    wire # <<>> => IF InClaude(wire) THEN ClaudeAccepts(wire) ELSE OpenaiAccepts(wire)

\* All that was said is in the client's conversation, in order, the thinking with it,
\* and all but the thinking is in what the server reads, although the answers in it
\* have been translated twice. Results may come in any order, each once.
NothingIsLost ==
    /\ Thoughts(request) = InOrder(Pieces("thinking"))
    /\ \A r \in {request} \cup (IF turn = "server" THEN {wire} ELSE {}) :
         /\ Systems(r) = InOrder(Pieces("system"))
         /\ Texts(r) = InOrder(Pieces("text"))
         /\ Calls(r) = InOrder(Pieces("call"))
         /\ ToSet(Results(r)) = Pieces("call") \ open
         /\ IsInjective(Results(r))

\* A request that goes on through a second proxy, to a server of the client's own
\* format, arrives with the same content and the same options, but for a limit that
\* the first had to add.
SurvivesTwoProxies ==
    turn = "server" =>
        LET back == IF client = "openai" THEN ToOpenai(wire) ELSE ToClaude(wire)
        IN  /\ Systems(back) = Systems(request) /\ Texts(back) = Texts(request)
            /\ Calls(back) = Calls(request) /\ Results(back) = Results(request)
            /\ IF client = "openai"
               THEN /\ back.effort = request.effort /\ back.parallel = request.parallel
                    /\ back.limit = LimitOf(request.limit)
               ELSE /\ back.budget = request.budget /\ back.serial = request.serial
                    /\ back.limit = request.limit

(* What the sources say and the code does not keep.                        *)

\* Claude requires a content that is not empty.
ContentIsNeverEmpty ==
    wire # <<>> /\ InClaude(wire) =>
        \A i \in DOMAIN wire.messages : wire.messages[i].content # <<>>

\* The turns of user and assistant alternate strictly.
RolesAlternate ==
    wire # <<>> /\ InClaude(wire) =>
        \A i \in DOMAIN wire.messages :
            wire.messages[i].role = IF i % 2 = 1 THEN "user" ELSE "assistant"
=============================================================================
