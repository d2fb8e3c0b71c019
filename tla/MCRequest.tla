------------------------------ MODULE MCRequest ------------------------------
(***************************************************************************)
(* What is computed for a request on its way through the gateway, with     *)
(* nothing shared between the parts: its price (Pricing), the order of the *)
(* keys it may use (Routing), its conversation in the format of the server *)
(* (Conversation), and its answer's stream in the format of the client     *)
(* (OpenaiToClaude, ClaudeToOpenai). A behaviour follows one of the parts, *)
(* the others stay where they start.                                       *)
(***************************************************************************)
EXTENDS Pricing, TLC

CONSTANTS NBindings, NKeys, Priorities, Weights, Prices,
          Speakers, Limits, MaxSaid, MaxBlocks, MaxTools, Interleaved, Tokens

VARIABLES
    part,
    strategy, priority, weight, listed, spent, usable, key_priority, quoted, groups, out, drawing,
    client, request, wire, open, said, turn,
    toClaude, openaiServer, ending,
    toOpenai, openaiClient, claudeServer

Order == INSTANCE Routing WITH price <- quoted, step <- drawing
Talk == INSTANCE Conversation
ToClaude == INSTANCE OpenaiToClaude WITH st <- toClaude, up <- openaiServer, at <- ending
ToOpenai == INSTANCE ClaudeToOpenai WITH
    st <- toOpenai, client <- openaiClient, up <- claudeServer

ASSUME RequestAssumption ==
    /\ Bindings # {}
    /\ Order!RoutingAssumption /\ Talk!ConversationAssumption
    /\ ToClaude!StreamAssumption /\ ToOpenai!StreamAssumption

orderVars == <<strategy, priority, weight, listed, spent, usable, key_priority, quoted,
               groups, out, drawing>>
talkVars == <<client, request, wire, open, said, turn>>
toClaudeVars == <<toClaude, openaiServer, ending>>
toOpenaiVars == <<toOpenai, openaiClient, claudeServer>>
allVars == <<part, vars, orderVars, talkVars, toClaudeVars, toOpenaiVars>>

Parts == {"price", "order", "talk", "to claude", "to openai"}

\* Where the parts stand that a behaviour does not follow.
PriceRests ==
    /\ pricing = [b \in Bindings |-> Default] /\ format = "openai"
    /\ body = [max_tokens |-> Absent, max_completion_tokens |-> Absent]
    /\ first = CHOOSE b \in Bindings : TRUE
    /\ expected = Default /\ estimate = 0 /\ server = first /\ price = Default
    /\ prompt = 0 /\ completion = 0 /\ paid = 0 /\ edits = 0 /\ step = "asked"
OrderRests ==
    /\ strategy = "priority" /\ listed = {} /\ spent = {}
    /\ priority = [b \in Order!BindingRows |-> 0] /\ weight = [b \in Order!BindingRows |-> 1]
    /\ usable = [b \in Order!BindingRows |-> {}]
    /\ key_priority = [k \in Order!Keys |-> 0] /\ quoted = [k \in Order!Keys |-> 0]
    /\ groups = <<>> /\ out = <<>> /\ drawing = "filter"
TalkRests ==
    /\ client = "openai" /\ wire = <<>> /\ open = {} /\ said = <<>> /\ turn = "client"
    /\ request = [messages |-> <<>>, limit |-> Talk!None, effort |-> "none", parallel |-> TRUE]

\* Some snapshots are enough for the order.
OrderBegins ==
    /\ listed \in {Order!BindingRows, {1, 3}} /\ spent \in {{}, {1}}
    /\ usable \in [Order!BindingRows -> {{}, {2}, Order!Keys}]
    /\ Order!Init

MCInit ==
    /\ part \in Parts
    /\ IF part = "price" THEN Init ELSE PriceRests
    /\ IF part = "order" THEN OrderBegins ELSE OrderRests
    /\ IF part = "talk" THEN Talk!Init ELSE TalkRests
    /\ ToClaude!Init /\ ToOpenai!Init

FollowPrice ==
    /\ part = "price" /\ Next
    /\ UNCHANGED <<part, orderVars, talkVars, toClaudeVars, toOpenaiVars>>
FollowOrder ==
    /\ part = "order" /\ Order!Next
    /\ UNCHANGED <<part, vars, talkVars, toClaudeVars, toOpenaiVars>>
FollowTalk ==
    /\ part = "talk" /\ Talk!Next
    /\ UNCHANGED <<part, vars, orderVars, toClaudeVars, toOpenaiVars>>
FollowToClaude ==
    /\ part = "to claude" /\ ToClaude!Next
    /\ UNCHANGED <<part, vars, orderVars, talkVars, toOpenaiVars>>
FollowToOpenai ==
    /\ part = "to openai" /\ ToOpenai!Next
    /\ UNCHANGED <<part, vars, orderVars, talkVars, toClaudeVars>>

MCNext == FollowPrice \/ FollowOrder \/ FollowTalk \/ FollowToClaude \/ FollowToOpenai

MCSpec == MCInit /\ [][MCNext]_allVars

\* Expressions: linear in the tokens; the same up to 10000 tokens of prompt, no number
\* beyond; one that gives a rebate; and one that fails on the empty request.
MCExpressions ==
    {[n \in Counts |-> n[1] + 2 * n[2]],
     [n \in Counts |-> IF n[1] > 10000 THEN Error ELSE n[1] + n[2]],
     [n \in Counts |-> n[2] - 100],
     [n \in Counts |-> IF n[1] = 0 THEN Error ELSE 7]}
----------------------------------------------------------------------------
(* The properties of the parts, where they begin with the first step of    *)
(* Part!Property.                                                          *)

\* As long as nobody edits it, the client pays what the pricing of the binding that
\* answered says, or nothing where it could not be read (actual_cost).
PaidAsListed == TypeOK /\ BilledAsListed

\* Whatever is drawn, the order has every binding that may serve the request once,
\* no other, and with the keys that are available; by priority it is sorted
\* (Router::route).
RoutesEachOnce == Order!TypeOK /\ Order!RoutesEachOnce /\ Order!PriorityOrder

\* Each binding is drawn by as many picks as it has weight (route_load_balance).
DrawIsProportional == Order!DrawIsProportional

\* However turns, calls and results are cut into messages, what the server reads
\* keeps the rules of its format (openai_to_claude_request, claude_to_openai_request).
RequestsAreWellFormed == Talk!TypeOK /\ Talk!WellFormed

\* All that was said reaches the server, once and in order, although the answers in
\* the conversation have been translated twice.
NothingIsLost == Talk!NothingIsLost

\* A second proxy on the way to a server of the client's own format gives back the
\* content and the options.
SurvivesTwoProxies == Talk!SurvivesTwoProxies

\* Whatever upstream mixes into its chunks, the client of either machine reads a
\* stream its protocol allows (process_chunk, process_event).
StreamsAreWellFormed ==
    /\ ToClaude!TypeOK /\ ToClaude!WellFormed
    /\ ToOpenai!TypeOK /\ ToOpenai!WellFormed

\* What is read in the end is what upstream gave. After [DONE] a Claude client has the
\* end of the message, the reason and the usage, whenever they came; after message_stop
\* an OpenAI client has every call once, under its index the arguments of its own block
\* only, the finish and the tokens (ConcludeWaiting, MessageStop).
AnswersArriveWhole ==
    /\ ToClaude!EndsWithReasonAndUsage
    /\ ToOpenai!ArgumentsStayWithTheirCall /\ ToOpenai!NothingIsLost
=============================================================================
