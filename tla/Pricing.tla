-------------------------------- MODULE Pricing --------------------------------
(***************************************************************************)
(* What one request is estimated at and what it costs                      *)
(* (crates/core/src/executor.rs: estimate_cost, extract_max_tokens,        *)
(* actual_cost; crates/core/src/billing_expr.rs), while an admin sets      *)
(* prices (update_binding_pricing_handler). Who pays from what is Billing. *)
(*                                                                         *)
(* Amounts are micro-yuan, token prices micro-yuan for a thousand tokens.  *)
(* An expression is a table from token counts to its value: a number, or   *)
(* Error when it fails or is no number.                                    *)
(***************************************************************************)
EXTENDS Integers

CONSTANTS
    Bindings,       \* of the model: the request may end on any of them
    TokenPrices, CallPrices,
    Expressions,    \* functions from <<prompt, completion>>
    Prompts, Completions,   \* tokens an upstream may report
    Caps,           \* completion caps a client may declare
    MaxEdits        \* bound on the admin's edits

Null == -1          \* a field of the body that is there and is null
Absent == -2        \* a field that is not there
None == -3          \* no cap declared
Error == -4         \* an expression fails

AssumedPrompt == 500
AssumedCompletion == 500
\* The token counts an expression is tried on before it is saved.
Samples == {<<100, 50>>, <<0, 0>>, <<10000, 5000>>}
Counts ==
    (Prompts \X Completions) \cup Samples
        \cup ({AssumedPrompt} \X (Caps \cup {AssumedCompletion}))

ASSUME PricingAssumption ==
    /\ TokenPrices \cup CallPrices \cup Prompts \cup Completions \subseteq Nat
    /\ Caps \subseteq Nat \ {0} /\ MaxEdits \in Nat
    /\ Expressions \subseteq [Counts -> Int]

Types == {"token", "per_call", "expression"}
NoExpression == [n \in Counts |-> 0]
Priced(type, input, output, call, expr) ==
    [billing_type |-> type, input_price |-> input, output_price |-> output,
     call_price |-> call, billing_expr |-> expr]
Default == Priced("token", 0, 0, 0, NoExpression)

Pricings ==
    {Priced("token", n[1], n[2], 0, NoExpression) : n \in TokenPrices \X TokenPrices}
    \cup {Priced("per_call", 0, 0, c, NoExpression) : c \in CallPrices}
    \cup {Priced("expression", 0, 0, 0, e) : e \in Expressions}

Body == [max_tokens : Caps \cup {Absent, Null}, max_completion_tokens : Caps \cup {Absent, Null}]

VARIABLES
    pricing,    \* of each binding, as the snapshot serves it
    body,       \* the cap fields of the request's body
    format,     \* of the request
    step,
    first, expected,    \* the binding to be tried first, and its price when charged
    estimate,
    server, price,      \* the binding that answered, and the price it is settled at
    prompt, completion, \* tokens the answer reports
    paid,
    edits

asked == <<body, format, first>>
charge == <<expected, estimate>>
answer == <<server, price>>
usage == <<prompt, completion>>
vars == <<pricing, asked, step, charge, answer, usage, paid, edits>>

\* round() of a thousandth, of no negative number.
Thousandth(n) == (2 * n + 1000) \div 2000

IsConfigured(p) ==
    \/ p.billing_type = "token" /\ (p.input_price > 0 \/ p.output_price > 0)
    \/ p.billing_type = "per_call" /\ p.call_price > 0
    \/ p.billing_type = "expression" /\ p.billing_expr # NoExpression

\* The cost of some tokens: what estimate and settlement have in common.
CostOf(p, i, o) ==
    IF ~IsConfigured(p) THEN 0
    ELSE CASE p.billing_type = "token" -> Thousandth(i * p.input_price + o * p.output_price)
           [] p.billing_type = "per_call" -> p.call_price
           [] OTHER -> IF p.billing_expr[<<i, o>>] = Error THEN 0 ELSE p.billing_expr[<<i, o>>]

\* The newer field hides the older one as soon as it is there.
CapOf(b, f) ==
    LET field == IF f = "openai" /\ b.max_completion_tokens # Absent
                 THEN b.max_completion_tokens ELSE b.max_tokens
    IN  IF field > 0 THEN field ELSE None

AssumedOf(cap) == IF cap = None THEN AssumedCompletion ELSE cap

Estimate(p, cap) == CostOf(p, AssumedPrompt, AssumedOf(cap))

Validated(e) == \A n \in Samples : e[n] # Error
Saved == {p \in Pricings : p.billing_type = "expression" => Validated(p.billing_expr)}

SetPricing(b, p) ==
    /\ edits < MaxEdits /\ edits' = edits + 1
    /\ p.billing_type = "expression" => Validated(p.billing_expr)
    /\ pricing' = [pricing EXCEPT ![b] = p]
    /\ UNCHANGED <<asked, step, charge, answer, usage, paid>>

\* A negative estimate is an error of the configuration.
PreCharge ==
    /\ step = "asked"
    /\ expected' = pricing[first]
    /\ estimate' = Estimate(pricing[first], CapOf(body, format))
    /\ IF estimate' < 0 THEN step' = "refused" /\ paid' = paid
       ELSE step' = "charged" /\ paid' = estimate'
    /\ UNCHANGED <<pricing, asked, answer, usage, edits>>

\* An upstream answers: that of the first binding or, after it failed, another, whose
\* price is looked up now. The answer is not lost if that fails.
\* Mutant: the price that was expected will do.
AnswerAsExpected(b) ==
    /\ step = "charged" /\ step' = "answered"
    /\ server' = b /\ price' = expected
    /\ UNCHANGED <<pricing, asked, charge, usage, paid, edits>>
\* Mutant: the price is always looked up.
AnswerAtPresent(b) ==
    /\ step = "charged" /\ step' = "answered"
    /\ server' = b /\ price' = pricing[b]
    /\ UNCHANGED <<pricing, asked, charge, usage, paid, edits>>
Answer(b) ==
    /\ step = "charged" /\ step' = "answered"
    /\ server' = b
    /\ IF b = first THEN price' = expected ELSE price' \in {pricing[b], Default}
    /\ UNCHANGED <<pricing, asked, charge, usage, paid, edits>>

\* A negative cost is refused: what was charged stays charged.
Settle(i, o) ==
    /\ step = "answered" /\ step' = "settled"
    /\ prompt' = i /\ completion' = o
    /\ paid' = IF CostOf(price, i, o) < 0 THEN paid ELSE CostOf(price, i, o)
    /\ UNCHANGED <<pricing, asked, charge, answer, edits>>

Init ==
    /\ pricing \in [Bindings -> Saved \cup {Default}]
    /\ body \in Body /\ format \in {"openai", "claude"} /\ first \in Bindings
    /\ step = "asked" /\ expected = Default /\ estimate = 0
    /\ server = first /\ price = Default /\ prompt = 0 /\ completion = 0
    /\ paid = 0 /\ edits = 0

Next ==
    \/ \E b \in Bindings, p \in Pricings : SetPricing(b, p)
    \/ PreCharge
    \/ \E b \in Bindings : Answer(b)
    \/ \E i \in Prompts, o \in Completions : Settle(i, o)

Spec == Init /\ [][Next]_vars
----------------------------------------------------------------------------
(* Properties.                                                             *)

\* The state is well-typed; no binding has an expression that fails on a sample.
TypeOK ==
    /\ pricing \in [Bindings -> Saved \cup {Default}]
    /\ body \in Body /\ format \in {"openai", "claude"}
    /\ step \in {"asked", "refused", "charged", "answered", "settled"}
    /\ first \in Bindings /\ server \in Bindings
    /\ expected \in Saved \cup {Default} /\ price \in Saved \cup {Default}
    /\ estimate \in Int /\ paid \in Nat
    /\ prompt \in Prompts \cup {0} /\ completion \in Completions \cup {0}
    /\ edits \in 0..MaxEdits

\* The pre-charge was enough: a request that was answered where it was expected, with
\* no more prompt than assumed and no more completion than the client's cap, never
\* costs more, whatever an admin did to the price meanwhile: it is only given back.
EstimateCovers ==
    /\ step = "settled" /\ server = first /\ expected.billing_type # "expression"
    /\ prompt <= AssumedPrompt /\ completion <= AssumedOf(CapOf(body, format))
    => paid <= estimate

\* As long as no admin edits it, what a client pays is what the pricing of the binding
\* that answered says, not of the one it was charged for; or nothing, if that binding
\* was another and its pricing could not be read. Only where the pricing says a
\* negative number the pre-charge stays.
BilledAsListed ==
    step = "settled" /\ edits = 0 =>
        LET listed == CostOf(pricing[server], prompt, completion)
        IN  \/ paid = IF listed < 0 THEN estimate ELSE listed
            \/ paid = 0 /\ server # first

(* What the sources say and the code does not keep.                        *)

\* The cap is read from whichever field is set.
CapIsHonoured == body.max_tokens > 0 => CapOf(body, format) # None

\* An expression that was validated does not fail at request time, for free.
ValidatedIsBilled ==
    step = "settled" /\ price.billing_type = "expression" =>
        price.billing_expr[<<prompt, completion>>] # Error
=============================================================================
