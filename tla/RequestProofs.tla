---------------------------- MODULE RequestProofs ----------------------------
(***************************************************************************)
(* Proofs about what is computed for one request: its price (Pricing), for *)
(* every set of prices, expressions, caps and token counts; the order of   *)
(* the keys it may use (Routing), for every set of bindings, priorities    *)
(* and weights; the conversation it carries on (Conversation), for every   *)
(* number of pieces; and its answer in the format of the client            *)
(* (OpenaiToClaude, ClaudeToOpenai), for every number of blocks, calls and *)
(* tokens.                                                                 *)
(***************************************************************************)
EXTENDS MCRequest, FiniteSetTheorems, SequenceTheorems, TLAPS

-----------------------------------------------------------------------------
(* The price: an estimate covers what it promises to cover.                *)

\* More tokens never cost less, at any price.
LEMMA ProductMono ==
    ASSUME NEW a \in Nat, NEW b \in Nat, NEW p \in Nat, a <= b
    PROVE  /\ a * p \in Nat /\ b * p \in Nat
           /\ a * p <= b * p
<1>1. PICK d \in Nat : b = a + d
  <2>1. b - a \in Nat /\ b = a + (b - a)
    OBVIOUS
  <2> QED BY <2>1
<1>2. a * p \in Nat /\ d * p \in Nat
  BY <1>1
<1>3. b * p = a * p + d * p
  BY <1>1
<1> QED BY <1>2, <1>3

\* Rounding keeps the order.
LEMMA ThousandthMono ==
    ASSUME NEW m \in Nat, NEW n \in Nat, m <= n
    PROVE  Thousandth(m) <= Thousandth(n)
BY DEF Thousandth

\* What a binding's pricing is made of.
LEMMA PricingFields ==
    ASSUME PricingAssumption, NEW p \in Pricings \cup {Default}
    PROVE  /\ p.billing_type \in Types
           /\ p.billing_type = "token" => p.input_price \in Nat /\ p.output_price \in Nat
           /\ p.billing_type = "per_call" => p.call_price \in Nat
<1>1. CASE p = Default
  BY <1>1 DEF Default, Priced, Types
<1>2. CASE p \in {Priced("token", n[1], n[2], 0, NoExpression) : n \in TokenPrices \X TokenPrices}
  <2>1. PICK n \in TokenPrices \X TokenPrices : p = Priced("token", n[1], n[2], 0, NoExpression)
    BY <1>2
  <2>2. n[1] \in Nat /\ n[2] \in Nat
    BY DEF PricingAssumption
  <2> QED BY <2>1, <2>2 DEF Priced, Types
<1>3. CASE p \in {Priced("per_call", 0, 0, c, NoExpression) : c \in CallPrices}
  <2>1. PICK c \in CallPrices : p = Priced("per_call", 0, 0, c, NoExpression)
    BY <1>3
  <2>2. c \in Nat
    BY DEF PricingAssumption
  <2> QED BY <2>1, <2>2 DEF Priced, Types
<1>4. CASE p \in {Priced("expression", 0, 0, 0, e) : e \in Expressions}
  BY <1>4 DEF Priced, Types
<1> QED BY <1>1, <1>2, <1>3, <1>4 DEF Pricings

\* Fewer tokens cost no more, at a price that is no expression.
LEMMA CostMono ==
    ASSUME PricingAssumption, NEW p \in Pricings \cup {Default},
           p.billing_type # "expression",
           NEW i \in Nat, NEW j \in Nat, i <= j,
           NEW o \in Nat, NEW q \in Nat, o <= q
    PROVE  CostOf(p, i, o) <= CostOf(p, j, q)
<1>1. CASE ~IsConfigured(p)
  BY <1>1 DEF CostOf
<1>2. CASE IsConfigured(p) /\ p.billing_type = "token"
  <2>1. p.input_price \in Nat /\ p.output_price \in Nat
    BY <1>2, PricingFields
  <2>2. /\ i * p.input_price \in Nat /\ j * p.input_price \in Nat
        /\ i * p.input_price <= j * p.input_price
    BY <2>1, ProductMono
  <2>3. /\ o * p.output_price \in Nat /\ q * p.output_price \in Nat
        /\ o * p.output_price <= q * p.output_price
    BY <2>1, ProductMono
  <2> DEFINE few == i * p.input_price + o * p.output_price
             many == j * p.input_price + q * p.output_price
  <2>4. few \in Nat /\ many \in Nat /\ few <= many
    BY <2>2, <2>3
  <2>5. CostOf(p, i, o) = Thousandth(few) /\ CostOf(p, j, q) = Thousandth(many)
    BY <1>2 DEF CostOf
  <2>6. Thousandth(few) <= Thousandth(many)
    <3> HIDE DEF few, many
    <3> QED BY <2>4, ThousandthMono
  <2> QED BY <2>5, <2>6
<1>3. CASE IsConfigured(p) /\ p.billing_type = "per_call"
  <2>1. p.call_price \in Int
    BY <1>3, PricingFields
  <2> QED BY <1>3, <2>1 DEF CostOf
<1> QED BY <1>1, <1>2, <1>3, PricingFields DEF Types
\* A price that is no expression costs a number.
LEMMA CostIsInt ==
    ASSUME PricingAssumption, NEW p \in Pricings \cup {Default},
           p.billing_type # "expression",
           NEW i \in Nat, NEW o \in Nat
    PROVE  CostOf(p, i, o) \in Int
<1>1. CASE ~IsConfigured(p)
  BY <1>1 DEF CostOf
<1>2. CASE IsConfigured(p) /\ p.billing_type = "token"
  <2>1. i * p.input_price \in Nat /\ o * p.output_price \in Nat
    BY <1>2, PricingFields
  <2> DEFINE thousandths == i * p.input_price + o * p.output_price
  <2>2. thousandths \in Nat
    BY <2>1
  <2>3. CostOf(p, i, o) = Thousandth(thousandths)
    BY <1>2 DEF CostOf
  <2> HIDE DEF thousandths
  <2> QED BY <2>2, <2>3 DEF Thousandth
<1>3. CASE IsConfigured(p) /\ p.billing_type = "per_call"
  BY <1>3, PricingFields DEF CostOf
<1> QED BY <1>1, <1>2, <1>3, PricingFields DEF Types
----------------------------------------------------------------------------
\* What TypeOK says of the fields that are priced with.
WellPriced ==
    /\ pricing \in [Bindings -> Pricings \cup {Default}]
    /\ first \in Bindings
    /\ expected \in Pricings \cup {Default}
    /\ prompt \in Nat /\ completion \in Nat
    /\ body \in Body

\* Once it is charged, the estimate is that of the price and the cap it was made for.
Charged ==
    step \in {"charged", "answered", "settled"} =>
        estimate = Estimate(expected, CapOf(body, format))

\* The first binding answers at the price that was charged for, and nothing is paid
\* before it is settled but the estimate.
Answered ==
    /\ step \in {"answered", "settled"} /\ server = first => price = expected
    /\ step \in {"charged", "answered"} => paid = estimate
    /\ step = "settled" =>
         paid \in {estimate, CostOf(price, prompt, completion)}

IInv == WellPriced /\ Charged /\ Answered

LEMMA InitIInv ==
    ASSUME PricingAssumption, Init
    PROVE  IInv
<1>1. Saved \subseteq Pricings
  BY DEF Saved
<1> QED BY <1>1 DEF Init, IInv, WellPriced, Charged, Answered

LEMMA NextIInv ==
    ASSUME PricingAssumption, IInv, [Next]_vars
    PROVE  IInv'
<1> USE DEF IInv, WellPriced, Charged, Answered
<1>1. CASE \E b \in Bindings, p \in Pricings : SetPricing(b, p)
  <2> PICK b \in Bindings, p \in Pricings : SetPricing(b, p)
    BY <1>1
  <2>1. /\ pricing' = [pricing EXCEPT ![b] = p]
        /\ UNCHANGED <<asked, step, charge, answer, usage, paid>>
    BY DEF SetPricing
  <2>2. pricing' \in [Bindings -> Pricings \cup {Default}]
    BY <2>1
  <2> QED BY <2>1, <2>2 DEF asked, charge, answer, usage
<1>2. CASE PreCharge
  <2>1. /\ expected' = pricing[first]
        /\ estimate' = Estimate(pricing[first], CapOf(body, format))
        /\ UNCHANGED <<pricing, body, format, first, server, price, prompt, completion>>
    BY <1>2 DEF PreCharge, asked, answer, usage
  <2>2. step' = "refused" \/ (step' = "charged" /\ paid' = estimate')
    BY <1>2 DEF PreCharge
  <2>3. pricing[first] \in Pricings \cup {Default}
    OBVIOUS
  <2> QED BY <2>1, <2>2, <2>3
<1>3. CASE \E b \in Bindings : Answer(b)
  <2> PICK b \in Bindings : Answer(b)
    BY <1>3
  <2>1. /\ step = "charged" /\ step' = "answered" /\ server' = b
        /\ b = first => price' = expected
        /\ UNCHANGED <<pricing, asked, charge, usage, paid, edits>>
    BY DEF Answer
  <2> QED BY <2>1 DEF asked, charge, usage
<1>4. CASE \E i \in Prompts, o \in Completions : Settle(i, o)
  <2> PICK i \in Prompts, o \in Completions : Settle(i, o)
    BY <1>4
  <2>1. i \in Nat /\ o \in Nat
    BY DEF PricingAssumption
  <2>2. /\ step = "answered" /\ step' = "settled" /\ prompt' = i /\ completion' = o
        /\ paid' \in {paid, CostOf(price, i, o)}
        /\ UNCHANGED <<pricing, asked, charge, answer, edits>>
    BY DEF Settle
  <2> QED BY <2>1, <2>2 DEF asked, charge, answer
<1>5. CASE UNCHANGED vars
  BY <1>5 DEF vars, asked, charge, answer, usage
<1> QED BY <1>1, <1>2, <1>3, <1>4, <1>5 DEF Next

\* A cap that is declared is a positive number of tokens.
LEMMA AssumedIsNat ==
    ASSUME PricingAssumption, body \in Body
    PROVE  AssumedOf(CapOf(body, format)) \in Nat
<1>1. /\ body.max_tokens \in Caps \cup {Absent, Null}
      /\ body.max_completion_tokens \in Caps \cup {Absent, Null}
  BY DEF Body
<1>2. Caps \cup {Absent, Null} \subseteq Int
  BY DEF PricingAssumption, Absent, Null
<1>3. CapOf(body, format) = None \/ CapOf(body, format) \in Nat
  BY <1>1, <1>2 DEF CapOf
<1> QED BY <1>3 DEF AssumedOf, AssumedCompletion

LEMMA IInvCovers ==
    ASSUME PricingAssumption, IInv
    PROVE  EstimateCovers
<1> USE DEF IInv, WellPriced
<1> SUFFICES ASSUME step = "settled", server = first,
                    expected.billing_type # "expression",
                    prompt <= AssumedPrompt,
                    completion <= AssumedOf(CapOf(body, format))
             PROVE  paid <= estimate
  BY DEF EstimateCovers
<1>1. AssumedOf(CapOf(body, format)) \in Nat /\ AssumedPrompt \in Nat
  BY AssumedIsNat DEF AssumedPrompt
<1>2. estimate = CostOf(expected, AssumedPrompt, AssumedOf(CapOf(body, format)))
  BY DEF Charged, Estimate
<1>3. estimate \in Int
  BY <1>1, <1>2, CostIsInt
<1>4. CostOf(expected, prompt, completion) <= estimate
  BY <1>1, <1>2, CostMono
<1>5. paid \in {estimate, CostOf(expected, prompt, completion)}
  BY DEF Answered
<1> QED BY <1>3, <1>4, <1>5

\* The estimate of a request covers its cost: a request that was answered where it was
\* expected and within its cap is never settled at more than it was charged, whatever
\* an admin does to the price while it is out (estimate_cost and actual_cost round and
\* multiply alike, and the price of the first binding is kept from the pre-charge).
THEOREM EstimatesCover == Spec => []EstimateCovers
<1> USE PricingAssumption
<1>1. Init => IInv
  BY InitIInv
<1>2. IInv /\ [Next]_vars => IInv'
  BY NextIInv
<1>3. IInv => EstimateCovers
  BY IInvCovers
<1> QED BY <1>1, <1>2, <1>3, PTL DEF Spec

-----------------------------------------------------------------------------
(* The price: a request is settled at the price its binding lists.         *)

\* What a request may cost is a number for all the counts it may come to.
LEMMA AnyCostIsInt ==
    ASSUME PricingAssumption, NEW p \in Pricings \cup {Default},
           NEW i \in Nat, NEW o \in Nat, <<i, o>> \in Counts
    PROVE  CostOf(p, i, o) \in Int
<1>1. CASE p.billing_type # "expression"
  BY <1>1, CostIsInt
<1>2. CASE p.billing_type = "expression"
  <2>1. PICK e \in Expressions : p = Priced("expression", 0, 0, 0, e)
    BY <1>2 DEF Pricings, Default, Priced
  <2>2. p.billing_expr = e /\ e \in [Counts -> Int]
    BY <2>1 DEF Priced, PricingAssumption
  <2>3. e[<<i, o>>] \in Int
    BY <2>2
  <2>4. CostOf(p, i, o) = 0 \/ CostOf(p, i, o) = e[<<i, o>>]
    BY <1>2, <2>2 DEF CostOf, IsConfigured
  <2> QED BY <2>3, <2>4
<1> QED BY <1>1, <1>2

LEMMA NothingAtDefault == \A i, o : CostOf(Default, i, o) = 0
BY DEF CostOf, Default, Priced, IsConfigured

\* An estimate is a number, whatever cap the client declares.
LEMMA EstimateIsInt ==
    ASSUME PricingAssumption, body \in Body, NEW p \in Pricings \cup {Default}
    PROVE  Estimate(p, CapOf(body, format)) \in Int
<1>1. /\ body.max_tokens \in Caps \cup {Absent, Null}
      /\ body.max_completion_tokens \in Caps \cup {Absent, Null}
  BY DEF Body
<1>2. Caps \cup {Absent, Null} \subseteq Int /\ \A c \in Caps \cup {Absent, Null} : c > 0 => c \in Caps
  BY DEF PricingAssumption, Absent, Null
<1>3. CapOf(body, format) = None \/ CapOf(body, format) \in Caps
  BY <1>1, <1>2 DEF CapOf
<1>4. AssumedOf(CapOf(body, format)) \in Caps \cup {AssumedCompletion}
  BY <1>3 DEF AssumedOf
<1>5. /\ AssumedOf(CapOf(body, format)) \in Nat /\ AssumedPrompt \in Nat
      /\ <<AssumedPrompt, AssumedOf(CapOf(body, format))>> \in Counts
  <2>1. AssumedOf(CapOf(body, format)) \in Nat /\ AssumedPrompt \in Nat
    <3>1. \A c \in Caps \cup {AssumedCompletion} : c \in Nat
      BY DEF PricingAssumption, AssumedCompletion
    <3>2. AssumedPrompt \in Nat
      BY DEF AssumedPrompt
    <3> QED BY <1>4, <3>1, <3>2
  <2>2. <<AssumedPrompt, AssumedOf(CapOf(body, format))>>
           \in {AssumedPrompt} \X (Caps \cup {AssumedCompletion})
    BY <1>4
  <2> QED BY <2>1, <2>2, Zenon DEF Counts
<1> QED BY <1>5, AnyCostIsInt DEF Estimate

LEMMA SavedArePricings == Saved \subseteq Pricings
BY DEF Saved

\* The price a request is settled at is the one its binding has, as long as no admin
\* has edited any.
Listed ==
    /\ edits = 0 /\ step \in {"charged", "answered", "settled"} => expected = pricing[first]
    /\ edits = 0 /\ step \in {"answered", "settled"} =>
         price = pricing[server] \/ (price = Default /\ server # first)
    /\ step \in {"charged", "answered"} => paid = estimate
    /\ step = "settled" =>
         LET c == CostOf(price, prompt, completion) IN paid = IF c < 0 THEN estimate ELSE c

PriceInv == TypeOK /\ Listed

LEMMA InitPrice ==
    ASSUME PricingAssumption, Init PROVE PriceInv
<1>1. TypeOK
  BY DEF Init, TypeOK, PricingAssumption
<1> QED BY <1>1 DEF Init, PriceInv, Listed

LEMMA NextPrice ==
    ASSUME PricingAssumption, PriceInv, [Next]_vars PROVE PriceInv'
<1> USE DEF PriceInv
<1>0. TypeOK /\ Listed /\ edits \in Nat
  BY DEF TypeOK, PricingAssumption
<1>1. ASSUME NEW b \in Bindings, NEW p \in Pricings, SetPricing(b, p) PROVE PriceInv'
  <2>1. /\ pricing' = [pricing EXCEPT ![b] = p] /\ edits' = edits + 1 /\ edits' \in 0..MaxEdits
        /\ UNCHANGED <<asked, step, charge, answer, usage, paid>> /\ p \in Saved
    BY <1>1, <1>0 DEF SetPricing, Saved, PricingAssumption
  <2>2. pricing' \in [Bindings -> Saved \cup {Default}]
    BY <2>1, <1>0 DEF TypeOK
  <2>3. TypeOK'
    BY <2>1, <2>2, <1>0 DEF TypeOK, asked, charge, answer, usage
  <2>4. edits' # 0
    BY <2>1, <1>0
  <2>5. Listed'
    BY <2>1, <2>4, <1>0 DEF Listed, asked, charge, answer, usage
  <2> QED BY <2>3, <2>5
<1>2. CASE PreCharge
  <2>1. /\ expected' = pricing[first] /\ estimate' = Estimate(pricing[first], CapOf(body, format))
        /\ UNCHANGED <<pricing, asked, answer, usage, edits>>
        /\ \/ estimate' < 0 /\ step' = "refused" /\ paid' = paid
           \/ ~(estimate' < 0) /\ step' = "charged" /\ paid' = estimate'
    BY <1>2 DEF PreCharge
  <2>2. pricing[first] \in Saved \cup {Default} /\ pricing[first] \in Pricings \cup {Default} /\ body \in Body
    BY <1>0, SavedArePricings DEF TypeOK
  <2>3. estimate' \in Int
    BY <2>1, <2>2, EstimateIsInt
  <2>4. TypeOK'
    BY <2>1, <2>2, <2>3, <1>0 DEF TypeOK, asked, answer, usage
  <2>5. Listed'
    BY <2>1, <1>0 DEF Listed, asked, answer, usage
  <2> QED BY <2>4, <2>5
<1>3. ASSUME NEW b \in Bindings, Answer(b) PROVE PriceInv'
  <2>1. /\ step = "charged" /\ step' = "answered" /\ server' = b
        /\ b = first => price' = expected
        /\ b # first => price' \in {pricing[b], Default}
        /\ UNCHANGED <<pricing, asked, charge, usage, paid, edits>>
    BY <1>3 DEF Answer
  <2>2. price' \in Saved \cup {Default}
    BY <2>1, <1>0 DEF TypeOK
  <2>3. TypeOK'
    BY <2>1, <2>2, <1>0 DEF TypeOK, asked, charge, usage
  <2>4. Listed'
    BY <2>1, <1>0 DEF Listed, asked, charge, usage
  <2> QED BY <2>3, <2>4
<1>4. ASSUME NEW i \in Prompts, NEW o \in Completions, Settle(i, o) PROVE PriceInv'
  <2> DEFINE c == CostOf(price, i, o)
  <2>1. /\ step = "answered" /\ step' = "settled" /\ prompt' = i /\ completion' = o
        /\ paid' = IF c < 0 THEN paid ELSE c
        /\ UNCHANGED <<pricing, asked, charge, answer, edits>>
    BY <1>4 DEF Settle
  <2>2. i \in Nat /\ o \in Nat /\ <<i, o>> \in Counts /\ price \in Pricings \cup {Default}
    BY <1>0, SavedArePricings DEF PricingAssumption, Counts, TypeOK
  <2>3. c \in Int
    BY <2>2, AnyCostIsInt
  <2>4. CostOf(price', prompt', completion') = c
    BY <2>1 DEF answer
  <2> HIDE DEF c
  <2>5. TypeOK'
    BY <2>1, <2>3, <1>0 DEF TypeOK, asked, charge, answer
  <2>6. Listed'
    BY <2>1, <2>4, <1>0 DEF Listed, asked, charge, answer
  <2> QED BY <2>5, <2>6
<1>5. CASE UNCHANGED vars
  BY <1>5 DEF vars, asked, charge, answer, usage, TypeOK, Listed
<1> QED BY <1>1, <1>2, <1>3, <1>4, <1>5 DEF Next

LEMMA PriceIsListed ==
    ASSUME PricingAssumption, PriceInv PROVE PaidAsListed
<1> SUFFICES ASSUME step = "settled", edits = 0
             PROVE  LET listed_ == CostOf(pricing[server], prompt, completion)
                    IN  \/ paid = IF listed_ < 0 THEN estimate ELSE listed_
                        \/ paid = 0 /\ server # first
  BY DEF PaidAsListed, BilledAsListed, PriceInv
<1>1. CASE price = pricing[server]
  BY <1>1 DEF PriceInv, Listed
<1>2. CASE price = Default /\ server # first
  BY <1>2, NothingAtDefault DEF PriceInv, Listed
<1> QED BY <1>1, <1>2 DEF PriceInv, Listed

-----------------------------------------------------------------------------
(* The stream to Claude: blocks, deltas and calls.                         *)

\* A message that was begun and has not ended: its client stands where the translator does.
Live(s) ==
    /\ s \in ToClaude!Translator
    /\ s.started /\ ~s.finished /\ ~s.stopped
    /\ s.client.phase = "open" /\ s.client.block = s.block /\ s.client.next = s.index

\* What a block, a delta or a call leaves alone.
SameMessage(s, t) == t.usage = s.usage /\ t.reason = s.reason

Spoken == {"text", "thinking", "tool_use"}

\* Fields of the state of a translator.
LEMMA TranslatorFields ==
    ASSUME NEW s \in ToClaude!Translator
    PROVE  /\ s.started \in BOOLEAN /\ s.block \in ToClaude!Blocks /\ s.index \in Nat
           /\ s.tool \in {ToClaude!None} \cup 0..(MaxTools - 1)
           /\ s.finished \in BOOLEAN /\ s.stopped \in BOOLEAN /\ s.usage \in BOOLEAN
           /\ s.reason \in ToClaude!Reasons \cup {"none"} /\ s.client \in ToClaude!Client
           /\ s.client.phase \in {"new", "open", "ending", "ended", "broken"}
           /\ s.client.block \in ToClaude!Blocks /\ s.client.next \in Nat
           /\ s.client.reason \in ToClaude!Reasons \cup {"none"} /\ s.client.usage \in BOOLEAN
BY DEF ToClaude!Translator, ToClaude!Client

LEMMA CloseLive ==
    ASSUME NEW s, Live(s)
    PROVE  /\ Live(ToClaude!Close(s)) /\ SameMessage(s, ToClaude!Close(s))
           /\ ToClaude!Close(s).block = "none" /\ ToClaude!Close(s).tool = s.tool
<1>1. CASE s.block = "none"
  BY <1>1 DEF ToClaude!Close, SameMessage
<1>2. CASE s.block # "none"
  <2> DEFINE c == [s.client EXCEPT !.block = "none", !.next = @ + 1]
             t == [s EXCEPT !.client = c, !.index = @ + 1, !.block = "none"]
  <2>1. ToClaude!ReadBlockStop(s.client, s.index) = c
    BY <1>2 DEF ToClaude!ReadBlockStop, Live
  <2>2. ToClaude!Close(s) = t
    BY <1>2, <2>1 DEF ToClaude!Close
  <2>3. /\ s \in ToClaude!Translator /\ s.client \in ToClaude!Client
        /\ s.index \in Nat /\ s.client.next = s.index
    BY TranslatorFields DEF Live
  <2>4. s.index + 1 \in Nat /\ "none" \in ToClaude!Blocks
    BY <2>3 DEF ToClaude!Blocks
  <2>5. c = [s.client EXCEPT !.block = "none", !.next = s.index + 1]
    BY <2>3 DEF ToClaude!Client
  <2>6. c \in ToClaude!Client /\ c.phase = "open" /\ c.block = "none" /\ c.next = s.index + 1
    BY <2>3, <2>4, <2>5 DEF ToClaude!Client, Live
  <2>7. t = [s EXCEPT !.client = c, !.index = s.index + 1, !.block = "none"]
    BY <2>3 DEF ToClaude!Translator
  <2> HIDE DEF c, t
  <2>8. t \in ToClaude!Translator
    BY <2>3, <2>4, <2>6, <2>7 DEF ToClaude!Translator
  <2>9. Live(t) /\ SameMessage(s, t) /\ t.block = "none" /\ t.tool = s.tool
    BY <2>3, <2>6, <2>7, <2>8 DEF Live, SameMessage, ToClaude!Translator
  <2> QED BY <2>2, <2>9
<1> QED BY <1>1, <1>2

LEMMA OpenLive ==
    ASSUME NEW s, Live(s), NEW b \in Spoken
    PROVE  /\ Live(ToClaude!Open(s, b)) /\ SameMessage(s, ToClaude!Open(s, b))
           /\ ToClaude!Open(s, b).block = b /\ ToClaude!Open(s, b).tool = s.tool
<1> DEFINE o == ToClaude!Close(s)
           c == [o.client EXCEPT !.block = b]
           t == [o EXCEPT !.client = c, !.block = b]
<1>1. Live(o) /\ SameMessage(s, o) /\ o.block = "none" /\ o.tool = s.tool
  BY CloseLive
<1>2. ToClaude!ReadBlockStart(o.client, o.index, b) = c
  BY <1>1 DEF ToClaude!ReadBlockStart, Live
<1>3. ToClaude!Open(s, b) = t
  BY <1>2 DEF ToClaude!Open
<1> HIDE DEF o
<1>4. o.client \in ToClaude!Client
  BY <1>1, TranslatorFields DEF Live
<1>5. c \in ToClaude!Client /\ c.phase = "open" /\ c.block = b /\ c.next = o.index
  BY <1>1, <1>4 DEF ToClaude!Client, ToClaude!Blocks, Live, Spoken
<1> HIDE DEF c
<1>6. Live(t) /\ SameMessage(s, t) /\ t.block = b /\ t.tool = s.tool
  BY <1>1, <1>5 DEF Live, SameMessage, ToClaude!Translator, ToClaude!Blocks, Spoken
<1> QED BY <1>3, <1>6

\* A delta of the open block's kind is read.
LEMMA DeltaLive ==
    ASSUME NEW s, NEW b \in Spoken, Live(s), s.block = b
    PROVE  ToClaude!Delta(s, b) = s
<1>1. ToClaude!ReadDelta(s.client, s.index, b) = s.client
  BY DEF ToClaude!ReadDelta, Live
<1> QED BY <1>1 DEF ToClaude!Delta, Live, ToClaude!Translator

LEMMA SpeakLive ==
    ASSUME NEW s, Live(s), NEW b \in Spoken
    PROVE  LET t == ToClaude!Speak(s, b)
           IN  Live(t) /\ SameMessage(s, t) /\ t.block = b /\ t.tool = s.tool
<1>1. CASE s.block = b
  BY <1>1, DeltaLive DEF ToClaude!Speak, SameMessage
<1>2. CASE s.block # b
  <2> DEFINE o == ToClaude!Open(s, b)
  <2>1. Live(o) /\ SameMessage(s, o) /\ o.block = b /\ o.tool = s.tool
    BY OpenLive
  <2>2. ToClaude!Speak(s, b) = ToClaude!Delta(o, b)
    BY <1>2 DEF ToClaude!Speak
  <2> HIDE DEF o
  <2> QED BY <2>1, <2>2, DeltaLive
<1> QED BY <1>1, <1>2

\* A fragment of a tool call; that of the call opened last finds its block still open.
LEMMA ToolsLive ==
    ASSUME NEW s, Live(s), NEW l \in ToClaude!Lines,
           l.tool # ToClaude!None /\ l.tool = s.tool => s.block = "tool_use"
    PROVE  LET t == ToClaude!Tools(s, l)
           IN  /\ Live(t) /\ SameMessage(s, t)
               /\ t.tool = (IF l.tool = ToClaude!None THEN s.tool ELSE l.tool)
               /\ t.block = (IF l.tool = ToClaude!None THEN s.block ELSE "tool_use")
<1>0. l.tool \in {ToClaude!None} \cup 0..(MaxTools - 1) /\ "tool_use" \in Spoken
  BY DEF ToClaude!Lines, Spoken
<1>1. CASE l.tool = ToClaude!None
  BY <1>1 DEF ToClaude!Tools, SameMessage
<1>2. CASE l.tool # ToClaude!None /\ l.tool = s.tool
  BY <1>0, <1>2, DeltaLive DEF ToClaude!Tools, SameMessage
<1>3. CASE l.tool # ToClaude!None /\ l.tool # s.tool
  <2> DEFINE o == ToClaude!Open(s, "tool_use")
             t == [o EXCEPT !.tool = l.tool]
  <2>1. Live(o) /\ SameMessage(s, o) /\ o.block = "tool_use"
    BY <1>0, OpenLive
  <2>2. ToClaude!Tools(s, l) = IF l.args THEN ToClaude!Delta(t, "tool_use") ELSE t
    BY <1>3 DEF ToClaude!Tools
  <2> HIDE DEF o
  <2>3. Live(t) /\ SameMessage(s, t) /\ t.block = "tool_use" /\ t.tool = l.tool
    BY <1>0, <2>1 DEF Live, SameMessage, ToClaude!Translator
  <2> HIDE DEF t
  <2> QED BY <1>0, <1>3, <2>2, <2>3, DeltaLive
<1> QED BY <1>1, <1>2, <1>3

-----------------------------------------------------------------------------
(* The stream to Claude: the beginning and the end of a message.           *)

\* A message whose reason is known and that waits for its usage, or for [DONE].
Waiting(s) ==
    /\ s \in ToClaude!Translator
    /\ s.started /\ s.finished /\ ~s.stopped /\ s.block = "none" /\ s.reason # "none"
    /\ s.client.phase = "open" /\ s.client.block = "none" /\ s.client.next = s.index

\* A message that has ended: its client has all of it.
Over(s) ==
    /\ s \in ToClaude!Translator
    /\ s.started /\ s.finished /\ s.stopped /\ s.block = "none" /\ s.reason # "none"
    /\ s.client.phase = "ended" /\ s.client.reason = s.reason /\ s.client.usage = s.usage

\* A message that was not begun.
Unborn(s) ==
    /\ s \in ToClaude!Translator
    /\ ~s.started /\ ~s.finished /\ ~s.stopped /\ s.block = "none"
    /\ s.tool = ToClaude!None
    /\ s.client.phase = "new" /\ s.client.block = "none" /\ s.client.next = s.index

LEMMA TextLive ==
    ASSUME NEW s, Live(s), NEW l \in ToClaude!Lines
    PROVE  LET t == ToClaude!Text(s, l)
           IN  /\ Live(t) /\ SameMessage(s, t) /\ t.tool = s.tool
               /\ t.block = (IF l.text THEN "text" ELSE s.block)
BY SpeakLive DEF ToClaude!Text, SameMessage, Spoken

LEMMA ReasoningLive ==
    ASSUME NEW s, Live(s), NEW l \in ToClaude!Lines
    PROVE  LET t == ToClaude!Reasoning(s, l)
           IN  /\ Live(t) /\ SameMessage(s, t) /\ t.tool = s.tool
               /\ t.block = (IF l.reasoning THEN "thinking" ELSE s.block)
BY SpeakLive DEF ToClaude!Reasoning, SameMessage, Spoken

\* message_start
LEMMA StartLive ==
    ASSUME NEW s, Live(s) \/ Unborn(s)
    PROVE  LET t == ToClaude!Start(s)
           IN  Live(t) /\ SameMessage(s, t) /\ t.tool = s.tool /\ t.block = s.block
<1>1. CASE Live(s)
  BY <1>1 DEF ToClaude!Start, Live, SameMessage
<1>2. CASE Unborn(s)
  <2> DEFINE c == [s.client EXCEPT !.phase = "open"]
             t == [s EXCEPT !.started = TRUE, !.client = c]
  <2>1. s \in ToClaude!Translator /\ s.client \in ToClaude!Client
    BY <1>2, TranslatorFields DEF Unborn
  <2>2. ToClaude!ReadMessageStart(s.client) = c
    BY <1>2 DEF ToClaude!ReadMessageStart, Unborn
  <2>3. ToClaude!Start(s) = t
    BY <1>2, <2>1, <2>2 DEF ToClaude!Start, Unborn, ToClaude!Translator
  <2>4. c \in ToClaude!Client /\ c.phase = "open" /\ c.block = "none" /\ c.next = s.index
    BY <1>2, <2>1 DEF ToClaude!Client, Unborn
  <2> HIDE DEF c
  <2>5. t \in ToClaude!Translator
    BY <2>1, <2>4 DEF ToClaude!Translator
  <2>6. Live(t) /\ SameMessage(s, t) /\ t.tool = s.tool /\ t.block = s.block
    BY <1>2, <2>1, <2>4, <2>5 DEF Live, SameMessage, Unborn, ToClaude!Translator
  <2> QED BY <2>3, <2>6
<1> QED BY <1>1, <1>2

LEMMA ConcludeEnds ==
    ASSUME NEW s, Waiting(s)
    PROVE  LET t == ToClaude!Conclude(s)
           IN  /\ Over(t) /\ SameMessage(s, t) /\ t.tool = s.tool
<1> DEFINE d == [s.client EXCEPT !.phase = "ending", !.reason = s.reason, !.usage = s.usage]
           e == [d EXCEPT !.phase = "ended"]
           t == [s EXCEPT !.client = e, !.stopped = TRUE]
<1>1. /\ s \in ToClaude!Translator /\ s.client \in ToClaude!Client
      /\ s.usage \in BOOLEAN /\ s.reason \in ToClaude!Reasons \cup {"none"}
  BY TranslatorFields DEF Waiting
<1>2. ToClaude!ReadMessageDelta(s.client, s.reason, s.usage) = d
  BY DEF ToClaude!ReadMessageDelta, Waiting
<1>3. d \in ToClaude!Client /\ d.phase = "ending" /\ d.reason = s.reason /\ d.usage = s.usage
  BY <1>1 DEF ToClaude!Client
<1> HIDE DEF d
<1>4. ToClaude!ReadMessageStop(d) = e
  BY <1>3 DEF ToClaude!ReadMessageStop
<1>5. ToClaude!Conclude(s) = t
  BY <1>1, <1>2, <1>4 DEF ToClaude!Conclude, ToClaude!Translator
<1>6. e \in ToClaude!Client /\ e.phase = "ended" /\ e.reason = s.reason /\ e.usage = s.usage
  BY <1>3 DEF ToClaude!Client
<1> HIDE DEF e
<1>7. t \in ToClaude!Translator
  BY <1>1, <1>6 DEF ToClaude!Translator
<1>8. Over(t) /\ SameMessage(s, t) /\ t.tool = s.tool
  BY <1>1, <1>6, <1>7 DEF Over, SameMessage, Waiting, ToClaude!Translator
<1> QED BY <1>5, <1>8

LEMMA StopReasons == \A f : ToClaude!StopReason(f) \in ToClaude!Reasons
BY DEF ToClaude!StopReason, ToClaude!Reasons

\* A line without a finish_reason ends nothing; one with it ends the message if the usage
\* is there, and makes it wait otherwise.
LEMMA FinishEnds ==
    ASSUME NEW s, Live(s), NEW l \in ToClaude!Lines
    PROVE  LET t == ToClaude!Finish(s, l)
           IN  /\ t.usage = s.usage /\ t.tool = s.tool
               /\ l.finish = "none" => t = s
               /\ l.finish # "none" => /\ t.reason = ToClaude!StopReason(l.finish)
                                       /\ IF s.usage THEN Over(t) ELSE Waiting(t)
<1>1. CASE l.finish = "none"
  BY <1>1 DEF ToClaude!Finish
<1>2. CASE l.finish # "none"
  <2> DEFINE o == ToClaude!Close(s)
             r == ToClaude!StopReason(l.finish)
             f == [o EXCEPT !.finished = TRUE, !.reason = r]
  <2>1. Live(o) /\ SameMessage(s, o) /\ o.block = "none" /\ o.tool = s.tool
    BY CloseLive
  <2>2. r \in ToClaude!Reasons /\ r # "none"
    BY StopReasons DEF ToClaude!Reasons
  <2>3. ToClaude!Finish(s, l) = IF s.usage THEN ToClaude!Conclude(f) ELSE f
    BY <1>2 DEF ToClaude!Finish
  <2> HIDE DEF o, r
  <2>4. /\ Waiting(f) /\ f.usage = s.usage /\ f.reason = r /\ f.tool = s.tool
    BY <2>1, <2>2 DEF Live, Waiting, SameMessage, ToClaude!Translator
  <2> HIDE DEF f
  <2>5. s.usage => /\ Over(ToClaude!Conclude(f)) /\ SameMessage(f, ToClaude!Conclude(f))
                   /\ ToClaude!Conclude(f).tool = f.tool
    BY <2>4, ConcludeEnds
  <2>6. CASE s.usage
    BY <1>2, <2>3, <2>4, <2>5, <2>6 DEF SameMessage, r
  <2>7. CASE ~s.usage
    BY <1>2, <2>3, <2>4, <2>7 DEF r
  <2> QED BY <2>6, <2>7
<1> QED BY <1>1, <1>2

\* A data line notes its usage first.
LEMMA BufferKeeps ==
    ASSUME NEW s \in ToClaude!Translator, NEW l \in ToClaude!Lines
    PROVE  LET b == ToClaude!Buffer(s, l)
           IN  /\ b.usage = (s.usage \/ l.usage) /\ b.tool = s.tool /\ b.block = s.block
               /\ b.started = s.started /\ b.finished = s.finished /\ b.stopped = s.stopped
               /\ b.reason = s.reason
               /\ Live(s) => Live(b)
               /\ Unborn(s) => Unborn(b)
               /\ Waiting(s) => Waiting(b)
               /\ ~l.usage => b = s
<1> DEFINE u == s.usage \/ l.usage
           b == [s EXCEPT !.usage = u]
<1>1. u \in BOOLEAN /\ (~l.usage => u = s.usage)
  BY TranslatorFields DEF ToClaude!Lines
<1>2. ToClaude!Buffer(s, l) = b
  BY DEF ToClaude!Buffer, ToClaude!Translator
<1> HIDE DEF u
<1>3. b \in ToClaude!Translator
  BY <1>1 DEF ToClaude!Translator
<1>4. /\ b.usage = u /\ b.tool = s.tool /\ b.block = s.block /\ b.index = s.index
      /\ b.started = s.started /\ b.finished = s.finished /\ b.stopped = s.stopped
      /\ b.reason = s.reason /\ b.client = s.client
  BY DEF ToClaude!Translator
<1>5. ~l.usage => b = s
  BY <1>1 DEF ToClaude!Translator
<1> HIDE DEF b
<1>6. /\ Live(s) => Live(b)
      /\ Unborn(s) => Unborn(b)
      /\ Waiting(s) => Waiting(b)
  BY <1>3, <1>4 DEF Live, Unborn, Waiting
<1> QED BY <1>2, <1>4, <1>5, <1>6 DEF u

-----------------------------------------------------------------------------
(* The stream to Claude: the invariant.                                    *)

\* The translator, its client and upstream agree: the message is as far as upstream has
\* spoken, and the call that may go on still has its block open.
MessageAgrees ==
    LET s == toClaude
        u == openaiServer
    IN  /\ IF ~u.spoke THEN Unborn(s)
           ELSE IF u.finish = "none" THEN Live(s)
           ELSE Waiting(s) \/ Over(s)
        /\ u.finish # "none" => u.spoke /\ s.reason = ToClaude!StopReason(u.finish)
        /\ Over(s) /\ ending = "streaming" => s.usage
        /\ ending = "done" => Over(s)
        /\ s.usage = u.usage /\ s.tool = u.tool
        /\ u.finish = "none" /\ u.contiguous /\ u.tool # ToClaude!None
              => s.block = "tool_use"

ToClaudeInv == ToClaude!TypeOK /\ MessageAgrees

LEMMA InitToClaude ==
    ASSUME ToClaude!Init PROVE ToClaudeInv
<1> DEFINE c == [phase |-> "new", block |-> "none", next |-> 0, reason |-> "none",
                 usage |-> FALSE]
<1>1. /\ toClaude = [started |-> FALSE, block |-> "none", index |-> 0,
                     tool |-> ToClaude!None, finished |-> FALSE, stopped |-> FALSE,
                     usage |-> FALSE, reason |-> "none", client |-> c]
      /\ openaiServer = [tool |-> ToClaude!None, contiguous |-> FALSE, finish |-> "none",
                         usage |-> FALSE, spoke |-> FALSE]
      /\ ending = "streaming"
  BY DEF ToClaude!Init
<1>2. c \in ToClaude!Client /\ c.phase = "new" /\ c.block = "none" /\ c.next = 0
  BY DEF ToClaude!Client, ToClaude!Blocks
<1> HIDE DEF c
<1>3. toClaude \in ToClaude!Translator
  BY <1>1, <1>2 DEF ToClaude!Translator, ToClaude!Blocks
<1>4. openaiServer \in ToClaude!Upstream
  BY <1>1 DEF ToClaude!Upstream
<1>5. Unborn(toClaude) /\ ~Over(toClaude)
  BY <1>1, <1>2, <1>3 DEF Unborn, Over
<1> QED BY <1>1, <1>3, <1>4, <1>5 DEF ToClaudeInv, ToClaude!TypeOK, MessageAgrees

LEMMA LinesAre ==
    ASSUME NEW l \in ToClaude!Lines
    PROVE  /\ l.choices \in BOOLEAN /\ l.reasoning \in BOOLEAN /\ l.args \in BOOLEAN
           /\ l.tool \in {ToClaude!None} \cup 0..(MaxTools - 1)
           /\ l.text \in BOOLEAN /\ l.finish \in ToClaude!Finishes \cup {"none"}
           /\ l.usage \in BOOLEAN
BY DEF ToClaude!Lines

LEMMA SaidFields ==
    ASSUME openaiServer \in ToClaude!Upstream, NEW l \in ToClaude!Lines
    PROVE  LET v == ToClaude!Said(l)
               u == openaiServer
           IN  /\ v \in ToClaude!Upstream
               /\ v.tool = (IF l.tool = ToClaude!None THEN u.tool ELSE l.tool)
               /\ v.contiguous = (IF l.text THEN FALSE
                                  ELSE IF l.tool # ToClaude!None THEN TRUE
                                  ELSE u.contiguous /\ ~l.reasoning)
               /\ v.finish = (IF l.finish = "none" THEN u.finish ELSE l.finish)
               /\ v.usage = (u.usage \/ l.usage) /\ v.spoke = (u.spoke \/ l.choices)
BY LinesAre DEF ToClaude!Said, ToClaude!Upstream

\* A line with choices: upstream has not ended, and the message goes on.
LEMMA SpokenLine ==
    ASSUME ToClaudeInv, Interleaved = FALSE, NEW l \in ToClaude!Lines,
           ToClaude!Line(l), l.choices
    PROVE  ToClaudeInv'
<1> DEFINE s == toClaude
           b == ToClaude!Buffer(s, l)
           m == ToClaude!Start(b)
           r == ToClaude!Reasoning(m, l)
           o == ToClaude!Tools(r, l)
           x == ToClaude!Text(o, l)
           t == ToClaude!Finish(x, l)
           v == ToClaude!Said(l)
<1>1. /\ ending = "streaming" /\ ending' = ending
      /\ toClaude' = ToClaude!ProcessJson(s, l) /\ openaiServer' = v
      /\ openaiServer.finish = "none"
      /\ l.tool # ToClaude!None =>
            \/ l.tool = openaiServer.tool + 1
            \/ l.tool = openaiServer.tool /\ openaiServer.contiguous /\ ~l.reasoning
  BY DEF ToClaude!Line, ToClaude!Legal
<1>2. toClaude' = t
  BY <1>1 DEF ToClaude!ProcessJson
<1>3. /\ s \in ToClaude!Translator /\ openaiServer \in ToClaude!Upstream
      /\ openaiServer.tool \in {ToClaude!None} \cup 0..(MaxTools - 1)
      /\ ending \in {"streaming", "done", "failed"}
  BY DEF ToClaudeInv, ToClaude!TypeOK, ToClaude!Upstream
<1>4. /\ Unborn(s) \/ Live(s)
      /\ s.usage = openaiServer.usage /\ s.tool = openaiServer.tool
      /\ openaiServer.contiguous /\ openaiServer.tool # ToClaude!None => s.block = "tool_use"
  BY <1>1 DEF ToClaudeInv, MessageAgrees
<1>5. /\ Unborn(b) \/ Live(b)
      /\ b.usage = (s.usage \/ l.usage) /\ b.tool = s.tool /\ b.block = s.block
  BY <1>3, <1>4, BufferKeeps
<1> HIDE DEF b
<1>6. Live(m) /\ m.usage = b.usage /\ m.tool = b.tool /\ m.block = b.block
  BY <1>5, StartLive DEF SameMessage
<1> HIDE DEF m
<1>7. /\ Live(r) /\ r.usage = m.usage /\ r.tool = m.tool
      /\ r.block = IF l.reasoning THEN "thinking" ELSE m.block
  BY <1>6, ReasoningLive DEF SameMessage
<1> HIDE DEF r
<1>8. l.tool # ToClaude!None /\ l.tool = r.tool => r.block = "tool_use"
  <2> SUFFICES ASSUME l.tool # ToClaude!None, l.tool = r.tool PROVE r.block = "tool_use"
    OBVIOUS
  <2>1. l.tool = openaiServer.tool
    BY <1>4, <1>5, <1>6, <1>7
  <2>2. l.tool # openaiServer.tool + 1
    BY <1>3, <2>1 DEF ToClaude!None
  <2>3. openaiServer.contiguous /\ ~l.reasoning
    BY <1>1, <2>2
  <2> QED BY <1>4, <1>5, <1>6, <1>7, <2>1, <2>3
<1>9. /\ Live(o) /\ o.usage = r.usage
      /\ o.tool = (IF l.tool = ToClaude!None THEN r.tool ELSE l.tool)
      /\ o.block = (IF l.tool = ToClaude!None THEN r.block ELSE "tool_use")
  BY <1>7, <1>8, ToolsLive DEF SameMessage
<1> HIDE DEF o
<1>10. /\ Live(x) /\ x.usage = o.usage /\ x.tool = o.tool
       /\ x.block = (IF l.text THEN "text" ELSE o.block)
  BY <1>9, TextLive DEF SameMessage
<1> HIDE DEF x
<1>11. /\ t.usage = x.usage /\ t.tool = x.tool
       /\ l.finish = "none" => t = x
       /\ l.finish # "none" => /\ t.reason = ToClaude!StopReason(l.finish)
                               /\ IF x.usage THEN Over(t) ELSE Waiting(t)
  BY <1>10, FinishEnds
<1> HIDE DEF t
<1>12. /\ v \in ToClaude!Upstream
       /\ v.tool = (IF l.tool = ToClaude!None THEN openaiServer.tool ELSE l.tool)
       /\ v.contiguous = (IF l.text THEN FALSE
                          ELSE IF l.tool # ToClaude!None THEN TRUE
                          ELSE openaiServer.contiguous /\ ~l.reasoning)
       /\ v.finish = l.finish
       /\ v.usage = (openaiServer.usage \/ l.usage) /\ v.spoke
  BY <1>1, <1>3, SaidFields
<1> HIDE DEF v
<1>13. t.usage = v.usage /\ t.tool = v.tool
  BY <1>4, <1>5, <1>6, <1>7, <1>9, <1>10, <1>11, <1>12
<1>14. t \in ToClaude!Translator /\ (Over(t) => v.finish # "none" /\ t.usage)
  BY <1>10, <1>11, <1>12 DEF Live, Over, Waiting
<1>15. v.finish = "none" /\ v.contiguous /\ v.tool # ToClaude!None => t.block = "tool_use"
  BY <1>4, <1>5, <1>6, <1>7, <1>9, <1>10, <1>11, <1>12
<1>16. ToClaude!TypeOK'
  BY <1>1, <1>2, <1>3, <1>12, <1>14 DEF ToClaude!TypeOK
<1>17. /\ IF v.finish = "none" THEN Live(t) ELSE Waiting(t) \/ Over(t)
       /\ v.finish # "none" => t.reason = ToClaude!StopReason(v.finish)
  BY <1>10, <1>11, <1>12
<1>18. MessageAgrees'
  BY <1>1, <1>2, <1>12, <1>13, <1>14, <1>15, <1>17 DEF MessageAgrees
<1> QED BY <1>16, <1>18 DEF ToClaudeInv

LEMMA ConcludeWaitingEnds ==
    ASSUME NEW s
    PROVE  LET t == ToClaude!ConcludeWaiting(s)
           IN  /\ Waiting(s) => Over(t) /\ SameMessage(s, t) /\ t.tool = s.tool
               /\ Over(s) \/ Live(s) \/ Unborn(s) => t = s
<1>1. CASE Waiting(s)
  <2>1. ToClaude!ConcludeWaiting(s) = ToClaude!Conclude(s)
    BY <1>1 DEF ToClaude!ConcludeWaiting, Waiting
  <2>2. ~Over(s) /\ ~Live(s) /\ ~Unborn(s)
    BY <1>1 DEF Waiting, Over, Live, Unborn
  <2> QED BY <1>1, <2>1, <2>2, ConcludeEnds
<1>2. CASE ~Waiting(s)
  BY <1>2 DEF ToClaude!ConcludeWaiting, Over, Live, Unborn
<1> QED BY <1>1, <1>2

\* A line without choices has usage or nothing; after the end it concludes the message.
LEMMA SilentLine ==
    ASSUME ToClaudeInv, NEW l \in ToClaude!Lines, ToClaude!Line(l), ~l.choices
    PROVE  ToClaudeInv'
<1> DEFINE s == toClaude
           b == ToClaude!Buffer(s, l)
           t == ToClaude!ConcludeWaiting(b)
           v == ToClaude!Said(l)
<1>1. /\ ending = "streaming" /\ ending' = ending
      /\ toClaude' = t /\ openaiServer' = v
      /\ ~l.reasoning /\ ~l.text /\ l.tool = ToClaude!None /\ l.finish = "none"
      /\ openaiServer.finish # "none" => l.usage
      /\ l.usage => ~openaiServer.usage
  BY DEF ToClaude!Line, ToClaude!Legal, ToClaude!ProcessJson
<1>2. /\ s \in ToClaude!Translator /\ openaiServer \in ToClaude!Upstream
      /\ openaiServer.usage \in BOOLEAN /\ openaiServer.contiguous \in BOOLEAN
      /\ openaiServer.spoke \in BOOLEAN
  BY DEF ToClaudeInv, ToClaude!TypeOK, ToClaude!Upstream
<1>3. MessageAgrees
  BY DEF ToClaudeInv
<1>4. /\ v \in ToClaude!Upstream
      /\ v.tool = openaiServer.tool /\ v.contiguous = openaiServer.contiguous
      /\ v.finish = openaiServer.finish
      /\ v.usage = (openaiServer.usage \/ l.usage) /\ v.spoke = openaiServer.spoke
  BY <1>1, <1>2, SaidFields
<1> HIDE DEF v
<1>5. /\ b.usage = (s.usage \/ l.usage) /\ b.tool = s.tool /\ b.block = s.block
      /\ b.reason = s.reason
      /\ Live(s) => Live(b)
      /\ Unborn(s) => Unborn(b)
      /\ Waiting(s) => Waiting(b)
  BY <1>2, BufferKeeps
<1> HIDE DEF b
<1>6. /\ Waiting(b) => Over(t) /\ SameMessage(b, t) /\ t.tool = b.tool
      /\ Over(b) \/ Live(b) \/ Unborn(b) => t = b
  BY ConcludeWaitingEnds
<1> HIDE DEF t
<1>7. CASE openaiServer.finish = "none"
  <2>1. t = b /\ (Live(t) \/ Unborn(t)) /\ ~Over(t)
    BY <1>3, <1>5, <1>6, <1>7 DEF MessageAgrees, Live, Unborn, Over
  <2>2. t \in ToClaude!Translator
    BY <2>1 DEF Live, Unborn
  <2>3. MessageAgrees'
    <3>1. IF ~v.spoke THEN Unborn(t) ELSE Live(t)
      BY <1>3, <1>4, <1>5, <1>7, <2>1 DEF MessageAgrees
    <3>2. t.usage = v.usage /\ t.tool = v.tool
      BY <1>3, <1>4, <1>5, <2>1 DEF MessageAgrees
    <3>3. v.contiguous /\ v.tool # ToClaude!None => t.block = "tool_use"
      BY <1>3, <1>4, <1>5, <1>7, <2>1 DEF MessageAgrees
    <3> QED BY <1>1, <1>4, <1>7, <2>1, <3>1, <3>2, <3>3 DEF MessageAgrees
  <2> QED BY <1>1, <1>4, <2>2, <2>3 DEF ToClaudeInv, ToClaude!TypeOK
<1>8. CASE openaiServer.finish # "none"
  <2>1. ~s.usage /\ ~Over(s) /\ Waiting(s) /\ openaiServer.spoke
    BY <1>1, <1>3, <1>8 DEF MessageAgrees
  <2>2. Over(t) /\ t.usage /\ t.tool = s.tool /\ t.reason = s.reason
    BY <1>1, <1>5, <1>6, <1>8, <2>1 DEF SameMessage
  <2>3. t \in ToClaude!Translator
    BY <2>2 DEF Over
  <2>4. MessageAgrees'
    <3>1. t.usage = v.usage /\ t.tool = v.tool /\ t.reason = ToClaude!StopReason(v.finish)
      BY <1>1, <1>3, <1>4, <1>8, <2>2 DEF MessageAgrees
    <3> QED BY <1>1, <1>4, <1>8, <2>1, <2>2, <3>1 DEF MessageAgrees
  <2> QED BY <1>1, <1>4, <2>3, <2>4 DEF ToClaudeInv, ToClaude!TypeOK
<1> QED BY <1>7, <1>8

LEMMA NextToClaude ==
    ASSUME Interleaved = FALSE, ToClaudeInv, [ToClaude!Next]_toClaudeVars
    PROVE  ToClaudeInv'
<1>1. ASSUME NEW l \in ToClaude!Lines, ToClaude!Line(l) PROVE ToClaudeInv'
  BY <1>1, SpokenLine, SilentLine
<1>2. CASE ToClaude!Done
  <2> DEFINE s == toClaude
             t == ToClaude!ConcludeWaiting(s)
  <2>1. /\ ending = "streaming" /\ ending' = "done" /\ openaiServer.finish # "none"
        /\ toClaude' = t /\ openaiServer' = openaiServer
    BY <1>2 DEF ToClaude!Done
  <2>2. openaiServer.spoke /\ (Waiting(s) \/ Over(s))
    BY <2>1 DEF ToClaudeInv, MessageAgrees
  <2>3. Over(t) /\ t.tool = s.tool /\ t.reason = s.reason /\ t.usage = s.usage
    BY <2>2, ConcludeWaitingEnds DEF SameMessage
  <2> HIDE DEF t
  <2>4. MessageAgrees'
    BY <2>1, <2>2, <2>3 DEF ToClaudeInv, MessageAgrees
  <2>5. ToClaude!TypeOK'
    BY <2>1, <2>3 DEF ToClaudeInv, ToClaude!TypeOK, Over
  <2> QED BY <2>4, <2>5 DEF ToClaudeInv
<1>3. CASE ToClaude!Cut
  BY <1>3 DEF ToClaude!Cut, ToClaudeInv, ToClaude!TypeOK, MessageAgrees
<1>4. CASE UNCHANGED toClaudeVars
  BY <1>4 DEF toClaudeVars, ToClaudeInv, ToClaude!TypeOK, MessageAgrees
<1> QED BY <1>1, <1>2, <1>3, <1>4 DEF ToClaude!Next

LEMMA ClaudeReadsAMessage ==
    ASSUME ToClaudeInv
    PROVE  ToClaude!WellFormed /\ ToClaude!EndsWithReasonAndUsage
<1>1. Live(toClaude) \/ Unborn(toClaude) \/ Waiting(toClaude) \/ Over(toClaude)
  BY DEF ToClaudeInv, MessageAgrees
<1>2. ToClaude!WellFormed
  BY <1>1 DEF ToClaude!WellFormed, Live, Unborn, Waiting, Over
<1>3. ending = "done" => Over(toClaude) /\ openaiServer.finish # "none"
  BY DEF ToClaudeInv, MessageAgrees, Over, Live, Unborn
<1>4. ToClaude!EndsWithReasonAndUsage
  BY <1>3 DEF ToClaude!EndsWithReasonAndUsage, ToClaudeInv, MessageAgrees, Over
<1> QED BY <1>2, <1>4

-----------------------------------------------------------------------------
(* The stream to OpenAI: the invariant.                                    *)

LEMMA OneCardinality == \A S : ToOpenai!Cardinality(S) = Cardinality(S)
BY DEF ToOpenai!Cardinality, Cardinality

\* The call a tool_use block is: the blocks of calls before it.
Before(u, b) == {t \in u.tools : t < b}

\* The client knows as many calls as upstream opened blocks for, each under its place among
\* them; no argument is elsewhere; the call that is open is the one opened last.
CallsAgree(s, c, u) ==
    /\ s.toolIndex = Cardinality(u.tools)
    /\ \A i \in ToOpenai!BlockIds :
          i >= s.toolIndex => c.calls[i].block = ToOpenai!None /\ c.calls[i].sources = {}
    /\ \A i \in ToOpenai!BlockIds : c.calls[i].sources \subseteq {c.calls[i].block}
    /\ \A b \in u.tools : c.calls[Cardinality(Before(u, b))].block = b
    /\ \A b \in u.tools :
          b < u.index \/ (b = u.index /\ u.phase = "within" /\ u.kind = "tool_use")
    /\ u.phase = "within" => u.index \in ToOpenai!BlockIds
    /\ u.phase = "within" /\ u.kind = "tool_use" =>
          /\ s.started /\ s.current \in ToOpenai!BlockIds /\ s.current < s.toolIndex
          /\ c.calls[s.current].block = u.index

\* The client is where the translator is, and has the finish and the tokens in the end.
EndsAgree(s, c, u) ==
    /\ c.phase = (IF u.phase = "ended" THEN "ended" ELSE IF s.started THEN "open" ELSE "new")
    /\ s.reason = u.reason /\ s.input = u.input /\ s.output = u.output
    /\ u.phase # "ended" => c.usage = ToOpenai!None
    /\ u.phase = "ended" =>
          /\ c.finish = ToOpenai!FinishReason(u.reason)
          /\ c.usage = IF u.input + u.output > 0 THEN u.input + u.output ELSE ToOpenai!None

Typed(s, c, u) ==
    s \in ToOpenai!Translator /\ c \in ToOpenai!Client /\ u \in ToOpenai!Upstream

Agree(s, c, u) == Typed(s, c, u) /\ CallsAgree(s, c, u) /\ EndsAgree(s, c, u)

ToOpenaiInv == Agree(toOpenai, openaiClient, claudeServer)

LEMMA TypedFields ==
    ASSUME NEW s, NEW c, NEW u, Typed(s, c, u)
    PROVE  /\ s.started \in BOOLEAN /\ s.toolIndex \in Nat
           /\ s.current \in {ToOpenai!None} \cup Nat
           /\ s.reason \in ToOpenai!Reasons \cup {"none"} /\ s.input \in Nat /\ s.output \in Nat
           /\ c.phase \in {"new", "open", "finished", "metered", "ended", "broken"}
           /\ c.finish \in ToOpenai!Finishes \cup {"none"}
           /\ c.usage \in {ToOpenai!None} \cup Nat
           /\ u.phase \in {"new", "between", "within", "closing", "ended"}
           /\ u.kind \in ToOpenai!Kinds \cup {"none"} /\ u.index \in 0..MaxBlocks
           /\ u.tools \in SUBSET ToOpenai!BlockIds
           /\ u.reason \in ToOpenai!Reasons \cup {"none"} /\ u.input \in Nat /\ u.output \in Nat
BY DEF Typed, ToOpenai!Translator, ToOpenai!Client, ToOpenai!Upstream

LEMMA TypedCalls ==
    ASSUME NEW s, NEW c, NEW u, Typed(s, c, u)
    PROVE  /\ c.calls \in [ToOpenai!BlockIds ->
                              [block : {ToOpenai!None} \cup ToOpenai!BlockIds,
                               sources : SUBSET ToOpenai!BlockIds]]
           /\ \A i \in ToOpenai!BlockIds :
                 /\ c.calls[i].block \in {ToOpenai!None} \cup ToOpenai!BlockIds
                 /\ c.calls[i].sources \in SUBSET ToOpenai!BlockIds
BY DEF Typed, ToOpenai!Client

LEMMA InitToOpenai ==
    ASSUME ToOpenai!StreamAssumption, ToOpenai!Init PROVE ToOpenaiInv
<1> DEFINE none == [i \in ToOpenai!BlockIds |-> [block |-> ToOpenai!None, sources |-> {}]]
<1>1. /\ toOpenai = [started |-> FALSE, toolIndex |-> 0, current |-> ToOpenai!None,
                     reason |-> "none", input |-> 0, output |-> 0]
      /\ openaiClient = [phase |-> "new", finish |-> "none", usage |-> ToOpenai!None,
                         calls |-> none]
      /\ claudeServer = [phase |-> "new", kind |-> "none", index |-> 0, tools |-> {},
                         reason |-> "none", input |-> 0, output |-> 0]
  BY DEF ToOpenai!Init
<1>2. none \in [ToOpenai!BlockIds -> [block : {ToOpenai!None} \cup ToOpenai!BlockIds,
                                      sources : SUBSET ToOpenai!BlockIds]]
  OBVIOUS
<1>3. \A i \in ToOpenai!BlockIds : none[i].block = ToOpenai!None /\ none[i].sources = {}
  OBVIOUS
<1> HIDE DEF none
<1>4. Typed(toOpenai, openaiClient, claudeServer)
  <2>1. toOpenai \in ToOpenai!Translator
    BY <1>1 DEF ToOpenai!Translator
  <2>2. openaiClient \in ToOpenai!Client
    BY <1>1, <1>2 DEF ToOpenai!Client
  <2>3. claudeServer \in ToOpenai!Upstream
    BY <1>1 DEF ToOpenai!Upstream, ToOpenai!StreamAssumption
  <2> QED BY <2>1, <2>2, <2>3 DEF Typed
<1>5. CallsAgree(toOpenai, openaiClient, claudeServer)
  BY <1>1, <1>3, FS_EmptySet DEF CallsAgree
<1>6. EndsAgree(toOpenai, openaiClient, claudeServer)
  BY <1>1 DEF EndsAgree
<1> QED BY <1>4, <1>5, <1>6 DEF ToOpenaiInv, Agree

\* The role has been sent, or it is sent now.
LEMMA GreetedIsOpen ==
    ASSUME ToOpenaiInv, claudeServer.phase # "ended"
    PROVE  /\ ToOpenai!Greeted \in ToOpenai!Client /\ ToOpenai!Greeted.phase = "open"
           /\ ToOpenai!Greeted.calls = openaiClient.calls
           /\ ToOpenai!Greeted.finish = openaiClient.finish
           /\ ToOpenai!Greeted.usage = openaiClient.usage
<1>1. /\ openaiClient \in ToOpenai!Client
      /\ openaiClient.phase = IF toOpenai.started THEN "open" ELSE "new"
  BY DEF ToOpenaiInv, Agree, Typed, EndsAgree
<1>2. CASE toOpenai.started
  BY <1>1, <1>2 DEF ToOpenai!Greeted
<1>3. CASE ~toOpenai.started
  <2>1. ToOpenai!Greeted = [openaiClient EXCEPT !.phase = "open"]
    BY <1>1, <1>3 DEF ToOpenai!Greeted, ToOpenai!ReadRole
  <2> QED BY <1>1, <2>1 DEF ToOpenai!Client
<1> QED BY <1>2, <1>3

\* What begins the translator's message and leaves upstream's calls alone keeps all in place.
LEMMA Greets ==
    ASSUME ToOpenaiInv, claudeServer.phase \in {"between", "within"}, NEW v,
           v \in ToOpenai!Upstream,
           v.phase = "within" /\ (v.kind = "tool_use" =>
                claudeServer.phase = "within" /\ claudeServer.kind = "tool_use"),
           claudeServer.kind = "tool_use" /\ claudeServer.phase = "within" => v.kind = "tool_use",
           v.index = claudeServer.index /\ v.tools = claudeServer.tools,
           v.index \in ToOpenai!BlockIds,
           v.reason = claudeServer.reason /\ v.input = claudeServer.input
               /\ v.output = claudeServer.output
    PROVE  Agree([toOpenai EXCEPT !.started = TRUE], ToOpenai!Greeted, v)
<1> DEFINE s == [toOpenai EXCEPT !.started = TRUE]
           c == ToOpenai!Greeted
<1>1. /\ Typed(toOpenai, openaiClient, claudeServer)
      /\ CallsAgree(toOpenai, openaiClient, claudeServer)
      /\ EndsAgree(toOpenai, openaiClient, claudeServer)
  BY DEF ToOpenaiInv, Agree
<1>2. /\ s \in ToOpenai!Translator /\ s.started /\ s.toolIndex = toOpenai.toolIndex
      /\ s.current = toOpenai.current
      /\ s.reason = toOpenai.reason /\ s.input = toOpenai.input /\ s.output = toOpenai.output
  BY <1>1 DEF Typed, ToOpenai!Translator
<1>3. /\ c \in ToOpenai!Client /\ c.phase = "open" /\ c.calls = openaiClient.calls
      /\ c.usage = openaiClient.usage
  BY GreetedIsOpen
<1> HIDE DEF s, c
<1>4. Typed(s, c, v)
  BY <1>2, <1>3 DEF Typed
<1>5. CallsAgree(s, c, v)
  BY <1>1, <1>2, <1>3, Zenon DEF CallsAgree, Before
<1>6. EndsAgree(s, c, v)
  BY <1>1, <1>2, <1>3 DEF EndsAgree
<1> QED BY <1>4, <1>5, <1>6 DEF Agree, s, c

\* Blocks are numbered; there are finitely many, and calls are some of them.
LEMMA CallsAreCounted ==
    ASSUME NEW s, NEW c, NEW u, Typed(s, c, u), MaxBlocks \in Nat
    PROVE  /\ ToOpenai!BlockIds \subseteq Nat /\ IsFiniteSet(ToOpenai!BlockIds)
           /\ IsFiniteSet(u.tools) /\ Cardinality(u.tools) \in Nat
           /\ \A b : Before(u, b) \subseteq u.tools
           /\ \A b : IsFiniteSet(Before(u, b)) /\ Cardinality(Before(u, b)) \in Nat
           /\ \A b \in u.tools : Cardinality(Before(u, b)) < Cardinality(u.tools)
<1>1. ToOpenai!BlockIds \subseteq Nat /\ IsFiniteSet(ToOpenai!BlockIds)
  BY FS_Interval DEF ToOpenai!BlockIds
<1>2. u.tools \subseteq ToOpenai!BlockIds
  BY TypedFields
<1>3. IsFiniteSet(u.tools) /\ Cardinality(u.tools) \in Nat
  BY <1>1, <1>2, FS_Subset, FS_CardinalityType
<1>4. \A b : Before(u, b) \subseteq u.tools
  BY DEF Before
<1>5. \A b : IsFiniteSet(Before(u, b)) /\ Cardinality(Before(u, b)) \in Nat
  BY <1>3, <1>4, FS_Subset, FS_CardinalityType
<1>6. ASSUME NEW b \in u.tools PROVE Cardinality(Before(u, b)) < Cardinality(u.tools)
  <2>a. b \in Nat
    BY <1>1, <1>2, Zenon
  <2>0. ~(b < b)
    BY <2>a
  <2>1. b \notin Before(u, b)
    BY <2>0 DEF Before
  <2>2. Before(u, b) # u.tools
    BY <2>1
  <2>3. /\ Cardinality(Before(u, b)) <= Cardinality(u.tools)
        /\ Cardinality(Before(u, b)) = Cardinality(u.tools) => Before(u, b) = u.tools
    BY <1>3, <1>4, FS_Subset
  <2> QED BY <1>3, <1>5, <2>2, <2>3
<1> QED BY <1>1, <1>3, <1>4, <1>5, <1>6

\* A tool_use block is one more call, known under the next place.
LEMMA OneMoreCall ==
    ASSUME ToOpenaiInv, MaxBlocks \in Nat, ToOpenai!ToolStart
    PROVE  ToOpenaiInv'
<1> DEFINE s == toOpenai
           u == claudeServer
           g == ToOpenai!Greeted
           n == toOpenai.toolIndex
           t == [s EXCEPT !.started = TRUE, !.toolIndex = n + 1, !.current = n]
           v == [u EXCEPT !.phase = "within", !.kind = "tool_use",
                          !.tools = u.tools \cup {u.index}]
           d == [g EXCEPT !.calls[n].block = u.index]
<1>1. /\ Typed(s, openaiClient, u)
      /\ CallsAgree(s, openaiClient, u)
      /\ EndsAgree(s, openaiClient, u)
  BY DEF ToOpenaiInv, Agree
<1>2. /\ s \in ToOpenai!Translator /\ u \in ToOpenai!Upstream
      /\ n \in Nat /\ u.index \in 0..MaxBlocks /\ u.tools \in SUBSET ToOpenai!BlockIds
      /\ s.reason \in ToOpenai!Reasons \cup {"none"} /\ s.input \in Nat /\ s.output \in Nat
  BY <1>1, TypedFields DEF Typed
<1>3. /\ u.phase = "between" /\ u.index < MaxBlocks /\ claudeServer' = v
      /\ openaiClient' = ToOpenai!ReadCall(g, n, u.index)
      /\ toOpenai' = t
  BY <1>2 DEF ToOpenai!ToolStart, ToOpenai!NextBlock, ToOpenai!Translator, ToOpenai!Upstream
<1>4. /\ g \in ToOpenai!Client /\ g.phase = "open" /\ g.calls = openaiClient.calls
      /\ g.usage = openaiClient.usage
  BY <1>3, GreetedIsOpen
<1>5. u.index \in ToOpenai!BlockIds /\ u.index \in Nat /\ u.index # ToOpenai!None
  BY <1>2, <1>3 DEF ToOpenai!BlockIds, ToOpenai!None
<1>6. /\ ToOpenai!BlockIds \subseteq Nat /\ IsFiniteSet(u.tools)
      /\ n = Cardinality(u.tools)
      /\ \A b \in u.tools : b < u.index
  BY <1>1, <1>3, CallsAreCounted DEF CallsAgree
<1>7. n \in ToOpenai!BlockIds
  <2> DEFINE last == u.index - 1
             earlier == 0..last
  <2>1. u.tools \subseteq earlier /\ last \in Int
    BY <1>2, <1>5, <1>6 DEF ToOpenai!BlockIds
  <2>2. IsFiniteSet(earlier) /\ Cardinality(earlier) = u.index
    <3> HIDE DEF last
    <3>1. IsFiniteSet(earlier) /\ Cardinality(earlier) = IF 0 > last THEN 0 ELSE last - 0 + 1
      BY <2>1, FS_Interval
    <3> QED BY <1>5, <3>1 DEF last
  <2> HIDE DEF earlier
  <2>3. Cardinality(u.tools) <= Cardinality(earlier)
    BY <2>1, <2>2, FS_Subset
  <2>4. n <= u.index
    BY <1>6, <2>2, <2>3
  <2> QED BY <1>2, <1>3, <1>5, <2>4 DEF ToOpenai!BlockIds
<1>8. g.calls[n].block = ToOpenai!None /\ g.calls[n].sources = {}
  BY <1>1, <1>2, <1>4, <1>7 DEF CallsAgree
<1>9. openaiClient' = d
  BY <1>3, <1>4, <1>7, <1>8 DEF ToOpenai!ReadCall
<1>10. /\ g.calls \in [ToOpenai!BlockIds -> [block : {ToOpenai!None} \cup ToOpenai!BlockIds,
                                             sources : SUBSET ToOpenai!BlockIds]]
  BY <1>4 DEF ToOpenai!Client
<1>11. /\ d \in ToOpenai!Client /\ d.phase = "open" /\ d.usage = openaiClient.usage
       /\ d.calls = [g.calls EXCEPT ![n].block = u.index]
  BY <1>4, <1>5, <1>7, <1>10 DEF ToOpenai!Client
<1>12. /\ d.calls[n].block = u.index /\ d.calls[n].sources = {}
       /\ \A i \in ToOpenai!BlockIds : i # n => d.calls[i] = openaiClient.calls[i]
  BY <1>4, <1>7, <1>8, <1>10, <1>11
<1> HIDE DEF d, g
<1>13. /\ t \in ToOpenai!Translator /\ t.started /\ t.toolIndex = n + 1 /\ t.current = n
       /\ t.reason = s.reason /\ t.input = s.input /\ t.output = s.output
  <2>1. n + 1 \in Nat /\ n \in {ToOpenai!None} \cup Nat
    BY <1>2
  <2> DEFINE m == n + 1
  <2> HIDE DEF m, n
  <2>2. t = [s EXCEPT !.started = TRUE, !.toolIndex = m, !.current = n]
    BY DEF m
  <2>3. m \in Nat /\ n \in {ToOpenai!None} \cup Nat
    BY <2>1 DEF m
  <2> HIDE DEF t, s
  <2>4. /\ t \in ToOpenai!Translator /\ t.started /\ t.toolIndex = m /\ t.current = n
        /\ t.reason = s.reason /\ t.input = s.input /\ t.output = s.output
    BY <1>2, <2>2, <2>3 DEF ToOpenai!Translator
  <2> QED BY <2>4 DEF m
<1> HIDE DEF t
<1>14. /\ v.phase = "within" /\ v.kind = "tool_use" /\ v.tools = u.tools \cup {u.index}
       /\ v.index = u.index /\ v.reason = u.reason /\ v.input = u.input /\ v.output = u.output
       /\ v \in ToOpenai!Upstream
  BY <1>2, <1>5 DEF ToOpenai!Upstream, ToOpenai!Kinds
<1> HIDE DEF v
<1>15. Typed(t, d, v)
  BY <1>11, <1>13, <1>14 DEF Typed
<1>16. CallsAgree(t, d, v)
  <2>1. u.index \notin u.tools
    BY <1>5, <1>6
  <2>2. t.toolIndex = Cardinality(v.tools)
    <3>1. Cardinality(u.tools \cup {u.index}) = Cardinality(u.tools) + 1
      BY <1>6, <2>1, FS_AddElement
    <3> QED BY <1>6, <1>13, <1>14, <3>1
  <2>3. ASSUME NEW i \in ToOpenai!BlockIds, i >= t.toolIndex
        PROVE  d.calls[i].block = ToOpenai!None /\ d.calls[i].sources = {}
    <3>1. i >= n /\ i # n
      BY <1>2, <1>6, <1>13, <2>3
    <3> QED BY <1>1, <1>12, <3>1 DEF CallsAgree
  <2>4. ASSUME NEW i \in ToOpenai!BlockIds
        PROVE  d.calls[i].sources \subseteq {d.calls[i].block}
    BY <1>1, <1>12 DEF CallsAgree
  <2>5. ASSUME NEW b \in v.tools PROVE d.calls[Cardinality(Before(v, b))].block = b
    <3>1. CASE b = u.index
      <4>1. Before(v, b) = u.tools
        BY <1>2, <1>5, <1>6, <1>14, <3>1 DEF Before
      <4> QED BY <1>6, <1>12, <3>1, <4>1
    <3>2. CASE b # u.index
      <4>1. b \in u.tools /\ b < u.index
        BY <1>6, <1>14, <3>2
      <4>2. b \in Nat
        BY <1>2, <1>6, <4>1
      <4>3. ~(u.index < b)
        BY <1>5, <4>1, <4>2
      <4>4. Before(v, b) = Before(u, b)
        BY <1>14, <4>3 DEF Before
      <4>5. /\ Cardinality(Before(u, b)) \in Nat /\ Cardinality(Before(u, b)) < n
        BY <1>1, <1>6, <4>1, CallsAreCounted
      <4>6. Cardinality(Before(u, b)) \in ToOpenai!BlockIds /\ Cardinality(Before(u, b)) # n
        BY <1>2, <1>7, <4>5 DEF ToOpenai!BlockIds
      <4> QED BY <1>1, <1>12, <4>1, <4>4, <4>6 DEF CallsAgree
    <3> QED BY <3>1, <3>2
  <2>6. ASSUME NEW b \in v.tools PROVE b < v.index \/ b = v.index
    BY <1>6, <1>14
  <2>7. n < n + 1
    BY <1>2
  <2> QED BY <1>5, <1>7, <1>12, <1>13, <1>14, <2>2, <2>3, <2>4, <2>5, <2>6, <2>7
          DEF CallsAgree
<1>17. EndsAgree(t, d, v)
  BY <1>1, <1>3, <1>11, <1>13, <1>14 DEF EndsAgree
<1> QED BY <1>3, <1>9, <1>15, <1>16, <1>17 DEF ToOpenaiInv, Agree

\* Upstream goes on within or between the blocks it has; nothing of the calls changes.
LEMMA SameCalls ==
    ASSUME NEW s, NEW c, NEW u, NEW t, NEW v, CallsAgree(s, c, u),
           t.toolIndex = s.toolIndex, v.tools = u.tools, v.index = u.index,
           u.phase # "within" /\ v.phase # "within"
    PROVE  CallsAgree(t, c, v)
BY DEF CallsAgree, Before

\* There are no more calls than blocks.
LEMMA CallsFit ==
    ASSUME NEW s, NEW c, NEW u, Typed(s, c, u), MaxBlocks \in Nat,
           NEW n \in Nat, n < Cardinality(u.tools)
    PROVE  n \in ToOpenai!BlockIds
<1> DEFINE last == MaxBlocks - 1
           all == 0..last
<1>1. last \in Int
  OBVIOUS
<1>2. IsFiniteSet(all) /\ Cardinality(all) = MaxBlocks
  <2> HIDE DEF last
  <2>1. IsFiniteSet(all) /\ Cardinality(all) = IF 0 > last THEN 0 ELSE last - 0 + 1
    BY <1>1, FS_Interval
  <2> QED BY <2>1 DEF last
<1>3. u.tools \subseteq all
  BY TypedFields DEF ToOpenai!BlockIds
<1>4. Cardinality(u.tools) \in Nat
  BY CallsAreCounted
<1> HIDE DEF all
<1>5. Cardinality(u.tools) <= MaxBlocks
  BY <1>2, <1>3, FS_Subset
<1> QED BY <1>4, <1>5 DEF ToOpenai!BlockIds

\* What message_stop sends: the finish, the tokens if there are any, and [DONE].
LEMMA ClosingEnds ==
    ASSUME ToOpenaiInv, claudeServer.phase = "closing"
    PROVE  LET d == ToOpenai!Closing
               u == claudeServer
           IN  /\ d \in ToOpenai!Client /\ d.phase = "ended" /\ d.calls = openaiClient.calls
               /\ d.finish = ToOpenai!FinishReason(u.reason)
               /\ d.usage = IF u.input + u.output > 0 THEN u.input + u.output
                            ELSE ToOpenai!None
<1> DEFINE c == openaiClient
           r == ToOpenai!FinishReason(claudeServer.reason)
           n == claudeServer.input + claudeServer.output
           f == [c EXCEPT !.phase = "finished", !.finish = r]
           m == IF n > 0 THEN [f EXCEPT !.phase = "metered", !.usage = n] ELSE f
           d == [m EXCEPT !.phase = "ended"]
<1>1. /\ c \in ToOpenai!Client /\ c.phase \in {"new", "open"} /\ c.usage = ToOpenai!None
      /\ toOpenai.reason = claudeServer.reason
      /\ toOpenai.input + toOpenai.output = n /\ n \in Nat
  BY TypedFields DEF ToOpenaiInv, Agree, Typed, EndsAgree
<1>2. r \in ToOpenai!Finishes
  BY DEF ToOpenai!FinishReason, ToOpenai!Finishes
<1>3. ToOpenai!Closing =
        LET g == ToOpenai!ReadFinish(c, r)
        IN  ToOpenai!ReadDone(IF n > 0 THEN ToOpenai!ReadUsage(g, n) ELSE g)
  BY <1>1 DEF ToOpenai!Closing
<1> HIDE DEF r, n
<1>4. ToOpenai!ReadFinish(c, r) = f
  BY <1>1 DEF ToOpenai!ReadFinish
<1>5. f \in ToOpenai!Client /\ f.phase = "finished" /\ f.finish = r /\ f.calls = c.calls
      /\ f.usage = ToOpenai!None
  BY <1>1, <1>2 DEF ToOpenai!Client
<1> HIDE DEF f
<1>6. ToOpenai!ReadUsage(f, n) = [f EXCEPT !.phase = "metered", !.usage = n]
  BY <1>5 DEF ToOpenai!ReadUsage
<1>7. /\ m \in ToOpenai!Client /\ m.phase \in {"finished", "metered"} /\ m.finish = r
      /\ m.calls = c.calls /\ m.usage = IF n > 0 THEN n ELSE ToOpenai!None
  <2>1. CASE n > 0
    BY <1>1, <1>5, <2>1 DEF ToOpenai!Client
  <2>2. CASE ~(n > 0)
    BY <1>5, <2>2
  <2> QED BY <2>1, <2>2
<1>8. ToOpenai!Closing = ToOpenai!ReadDone(m)
  BY <1>3, <1>4, <1>6
<1> HIDE DEF m
<1>9. ToOpenai!Closing = d
  BY <1>7, <1>8 DEF ToOpenai!ReadDone
<1>10. /\ d \in ToOpenai!Client /\ d.phase = "ended" /\ d.finish = r
       /\ d.calls = c.calls /\ d.usage = IF n > 0 THEN n ELSE ToOpenai!None
  BY <1>7 DEF ToOpenai!Client
<1> QED BY <1>9, <1>10 DEF r, n

LEMMA NextToOpenai ==
    ASSUME ToOpenai!StreamAssumption, ToOpenaiInv, [ToOpenai!Next]_toOpenaiVars
    PROVE  ToOpenaiInv'
<1> DEFINE s == toOpenai
           c == openaiClient
           u == claudeServer
<1>0. /\ Typed(s, c, u) /\ CallsAgree(s, c, u) /\ EndsAgree(s, c, u)
      /\ s \in ToOpenai!Translator /\ c \in ToOpenai!Client /\ u \in ToOpenai!Upstream
      /\ MaxBlocks \in Nat /\ Tokens \subseteq Nat
  BY DEF ToOpenaiInv, Agree, Typed, ToOpenai!StreamAssumption
<1>1. ASSUME NEW n \in Tokens, ToOpenai!MessageStart(n) PROVE ToOpenaiInv'
  <2> DEFINE t == [s EXCEPT !.input = n]
             v == [u EXCEPT !.phase = "between", !.input = n]
  <2>1. u.phase = "new" /\ toOpenai' = t /\ claudeServer' = v /\ openaiClient' = c
    BY <1>1 DEF ToOpenai!MessageStart
  <2>2. /\ t \in ToOpenai!Translator /\ t.input = n /\ t.toolIndex = s.toolIndex
        /\ t.started = s.started /\ t.reason = s.reason /\ t.output = s.output
    BY <1>0 DEF ToOpenai!Translator
  <2>3. /\ v \in ToOpenai!Upstream /\ v.input = n /\ v.tools = u.tools /\ v.index = u.index
        /\ v.phase = "between" /\ v.reason = u.reason /\ v.output = u.output
    BY <1>0 DEF ToOpenai!Upstream
  <2> HIDE DEF t, v
  <2>4. CallsAgree(t, c, v)
    BY <1>0, <2>1, <2>2, <2>3, SameCalls
  <2>5. EndsAgree(t, c, v)
    BY <1>0, <2>1, <2>2, <2>3 DEF EndsAgree
  <2> QED BY <1>0, <2>1, <2>2, <2>3, <2>4, <2>5 DEF ToOpenaiInv, Agree, Typed
<1>2. CASE ToOpenai!TextStart
  <2> DEFINE v == [u EXCEPT !.phase = "within", !.kind = "text", !.tools = u.tools]
  <2>1. /\ u.phase = "between" /\ u.index < MaxBlocks /\ claudeServer' = v
        /\ openaiClient' = ToOpenai!Greeted /\ toOpenai' = [s EXCEPT !.started = TRUE]
    BY <1>0, <1>2 DEF ToOpenai!TextStart, ToOpenai!NextBlock, ToOpenai!Upstream
  <2>2. /\ v \in ToOpenai!Upstream /\ v.phase = "within" /\ v.kind = "text"
        /\ v.tools = u.tools /\ v.index = u.index /\ v.reason = u.reason
        /\ v.input = u.input /\ v.output = u.output
    BY <1>0 DEF ToOpenai!Upstream, ToOpenai!Kinds
  <2>3. v.index \in ToOpenai!BlockIds
    BY <1>0, <2>1, <2>2, TypedFields DEF ToOpenai!BlockIds
  <2> HIDE DEF v
  <2>4. Agree([s EXCEPT !.started = TRUE], ToOpenai!Greeted, v)
    BY <2>1, <2>2, <2>3, Greets
  <2> QED BY <2>1, <2>4 DEF ToOpenaiInv
<1>3. CASE ToOpenai!ToolStart
  BY <1>0, <1>3, OneMoreCall
<1>4. ASSUME NEW kind \in ToOpenai!Kinds, ToOpenai!OtherStart(kind) PROVE ToOpenaiInv'
  <2> DEFINE v == [u EXCEPT !.phase = "within", !.kind = kind, !.tools = u.tools]
  <2>1. /\ u.phase = "between" /\ u.index < MaxBlocks /\ claudeServer' = v
        /\ openaiClient' = c /\ toOpenai' = s /\ kind # "tool_use"
    BY <1>0, <1>4 DEF ToOpenai!OtherStart, ToOpenai!NextBlock, ToOpenai!Upstream
  <2>2. /\ v \in ToOpenai!Upstream /\ v.phase = "within" /\ v.kind # "tool_use"
        /\ v.tools = u.tools /\ v.index = u.index /\ v.reason = u.reason
        /\ v.input = u.input /\ v.output = u.output
    BY <1>0, <2>1 DEF ToOpenai!Upstream
  <2>3. v.index \in ToOpenai!BlockIds
    BY <1>0, <2>1, <2>2, TypedFields DEF ToOpenai!BlockIds
  <2> HIDE DEF v
  <2>4. CallsAgree(s, c, v)
    BY <1>0, <2>1, <2>2, <2>3 DEF CallsAgree, Before
  <2>5. EndsAgree(s, c, v)
    BY <1>0, <2>1, <2>2 DEF EndsAgree
  <2> QED BY <1>0, <2>1, <2>2, <2>4, <2>5 DEF ToOpenaiInv, Agree, Typed
<1>5. ASSUME u.phase = "within", u.kind # "tool_use", claudeServer' = u,
             toOpenai' = [s EXCEPT !.started = TRUE],
             openaiClient' \in {ToOpenai!Greeted, ToOpenai!ReadSpeech(ToOpenai!Greeted)}
      PROVE  ToOpenaiInv'
  <2>1. openaiClient' = ToOpenai!Greeted
    BY <1>5, GreetedIsOpen DEF ToOpenai!ReadSpeech
  <2>2. u.index \in ToOpenai!BlockIds
    BY <1>0, <1>5 DEF CallsAgree
  <2>3. Agree([s EXCEPT !.started = TRUE], ToOpenai!Greeted, u)
    BY <1>0, <1>5, <2>2, Greets
  <2> QED BY <1>5, <2>1, <2>3 DEF ToOpenaiInv
<1>6. CASE ToOpenai!TextDelta
  BY <1>5, <1>6 DEF ToOpenai!TextDelta
<1>7. ASSUME NEW empty \in BOOLEAN, ToOpenai!ThinkingDelta(empty) PROVE ToOpenaiInv'
  BY <1>5, <1>7 DEF ToOpenai!ThinkingDelta
<1>8. CASE ToOpenai!InputJsonDelta
  <2> DEFINE i == s.current
             d == [c EXCEPT !.calls[i].sources = @ \cup {u.index}]
  <2>1. /\ u.phase = "within" /\ u.kind = "tool_use" /\ toOpenai' = s /\ claudeServer' = u
        /\ openaiClient' = IF i = ToOpenai!None THEN c
                           ELSE ToOpenai!ReadArguments(c, i, u.index)
    BY <1>8 DEF ToOpenai!InputJsonDelta
  <2>2. /\ s.started /\ i \in ToOpenai!BlockIds /\ i < s.toolIndex
        /\ c.calls[i].block = u.index /\ u.index \in ToOpenai!BlockIds /\ c.phase = "open"
    BY <1>0, <2>1 DEF CallsAgree, EndsAgree
  <2>3. i # ToOpenai!None /\ u.index # ToOpenai!None /\ i \in Nat
    BY <2>2 DEF ToOpenai!BlockIds, ToOpenai!None
  <2>4. openaiClient' = d
    BY <2>1, <2>2, <2>3 DEF ToOpenai!ReadArguments
  <2>5. c.calls[i].sources \subseteq {u.index}
    BY <1>0, <2>2 DEF CallsAgree
  <2> DEFINE e == [c.calls[i] EXCEPT !.sources = {u.index}]
  <2>6. c.calls \in [ToOpenai!BlockIds -> [block : {ToOpenai!None} \cup ToOpenai!BlockIds,
                                           sources : SUBSET ToOpenai!BlockIds]]
    BY <1>0, TypedCalls
  <2>7. c.calls[i].sources \cup {u.index} = {u.index}
    BY <2>5
  <2>8. d = [c EXCEPT !.calls[i].sources = {u.index}]
    BY <2>7
  <2>9. d = [c EXCEPT !.calls = [c.calls EXCEPT ![i] = e]]
    BY <2>8
  <2>10. e.block = u.index /\ e.sources = {u.index}
         /\ e \in [block : {ToOpenai!None} \cup ToOpenai!BlockIds,
                   sources : SUBSET ToOpenai!BlockIds]
    BY <2>2, <2>6
  <2> HIDE DEF e
  <2> DEFINE f == [c.calls EXCEPT ![i] = e]
  <2>11. /\ f \in [ToOpenai!BlockIds -> [block : {ToOpenai!None} \cup ToOpenai!BlockIds,
                                              sources : SUBSET ToOpenai!BlockIds]]
         /\ f[i] = e /\ \A j \in ToOpenai!BlockIds : j # i => f[j] = c.calls[j]
    BY <2>2, <2>6, <2>10
  <2> HIDE DEF f
  <2>12. d \in ToOpenai!Client /\ d.phase = c.phase /\ d.usage = c.usage /\ d.calls = f
    BY <1>0, <2>9, <2>11 DEF ToOpenai!Client, f
  <2> HIDE DEF d
  <2>13. \A j \in ToOpenai!BlockIds : d.calls[j].block = c.calls[j].block
    BY <2>2, <2>10, <2>11, <2>12
  <2>14. CallsAgree(s, d, u)
    <3>1. ASSUME NEW j \in ToOpenai!BlockIds, j >= s.toolIndex
          PROVE  d.calls[j].block = ToOpenai!None /\ d.calls[j].sources = {}
      <4>1. j # i
        <5>1. j \in Nat /\ s.toolIndex \in Nat
          BY <1>0, TypedFields, CallsAreCounted
        <5> QED BY <2>2, <2>3, <3>1, <5>1
      <4> QED BY <1>0, <2>11, <2>12, <3>1, <4>1 DEF CallsAgree
    <3>2. ASSUME NEW j \in ToOpenai!BlockIds
          PROVE  d.calls[j].sources \subseteq {d.calls[j].block}
      BY <1>0, <2>10, <2>11, <2>12 DEF CallsAgree
    <3>3. ASSUME NEW b \in u.tools PROVE d.calls[Cardinality(Before(u, b))].block = b
      <4>1. /\ Cardinality(Before(u, b)) \in Nat
            /\ Cardinality(Before(u, b)) < Cardinality(u.tools)
        BY <1>0, CallsAreCounted
      <4>2. c.calls[Cardinality(Before(u, b))].block = b
        BY <1>0 DEF CallsAgree
      <4>3. Cardinality(Before(u, b)) \in ToOpenai!BlockIds
        BY <1>0, <4>1, CallsFit
      <4> QED BY <2>13, <4>2, <4>3
    <3> QED BY <1>0, <2>1, <2>2, <2>13, <3>1, <3>2, <3>3 DEF CallsAgree
  <2>15. EndsAgree(s, d, u)
    BY <1>0, <2>1, <2>12 DEF EndsAgree
  <2> QED BY <1>0, <2>1, <2>4, <2>12, <2>14, <2>15 DEF ToOpenaiInv, Agree, Typed
<1>9. CASE ToOpenai!BlockStop
  <2> DEFINE n == u.index + 1
             v == [u EXCEPT !.phase = "between", !.kind = "none", !.index = n]
  <2>1. /\ u.phase = "within" /\ toOpenai' = s /\ openaiClient' = c /\ claudeServer' = v
    BY <1>0, <1>9 DEF ToOpenai!BlockStop, ToOpenai!Upstream
  <2>2. n \in 0..MaxBlocks /\ u.index \in Nat
    BY <1>0, <2>1 DEF CallsAgree, ToOpenai!BlockIds
  <2>3. \A b \in u.tools : b < n
    <3>1. \A b \in u.tools : b \in Nat /\ (b < u.index \/ b = u.index)
      BY <1>0, TypedFields, CallsAreCounted DEF CallsAgree
    <3> QED BY <2>2, <3>1
  <2> HIDE DEF n
  <2>4. /\ v \in ToOpenai!Upstream /\ v.phase = "between" /\ v.tools = u.tools /\ v.index = n
        /\ v.reason = u.reason /\ v.input = u.input /\ v.output = u.output
    BY <1>0, <2>2 DEF ToOpenai!Upstream
  <2> HIDE DEF v
  <2>5. CallsAgree(s, c, v)
    BY <1>0, <2>3, <2>4 DEF CallsAgree, Before
  <2>6. EndsAgree(s, c, v)
    BY <1>0, <2>1, <2>4 DEF EndsAgree
  <2> QED BY <1>0, <2>1, <2>4, <2>5, <2>6 DEF ToOpenaiInv, Agree, Typed
<1>10. ASSUME NEW reason \in ToOpenai!Reasons, NEW n \in Tokens,
              ToOpenai!MessageDelta(reason, n)
       PROVE  ToOpenaiInv'
  <2> DEFINE t == [s EXCEPT !.reason = reason, !.output = n]
             v == [u EXCEPT !.phase = "closing", !.reason = reason, !.output = n]
  <2>1. u.phase = "between" /\ toOpenai' = t /\ claudeServer' = v /\ openaiClient' = c
    BY <1>10 DEF ToOpenai!MessageDelta
  <2>2. /\ t \in ToOpenai!Translator /\ t.input = s.input /\ t.toolIndex = s.toolIndex
        /\ t.started = s.started /\ t.reason = reason /\ t.output = n
    BY <1>0 DEF ToOpenai!Translator
  <2>3. /\ v \in ToOpenai!Upstream /\ v.input = u.input /\ v.tools = u.tools
        /\ v.index = u.index /\ v.phase = "closing" /\ v.reason = reason /\ v.output = n
    BY <1>0 DEF ToOpenai!Upstream
  <2> HIDE DEF t, v
  <2>4. CallsAgree(t, c, v)
    BY <1>0, <2>1, <2>2, <2>3, SameCalls
  <2>5. EndsAgree(t, c, v)
    BY <1>0, <2>1, <2>2, <2>3 DEF EndsAgree
  <2> QED BY <1>0, <2>1, <2>2, <2>3, <2>4, <2>5 DEF ToOpenaiInv, Agree, Typed
<1>11. CASE ToOpenai!MessageStop
  <2> DEFINE v == [u EXCEPT !.phase = "ended"]
  <2>1. /\ u.phase = "closing" /\ toOpenai' = s /\ claudeServer' = v
        /\ openaiClient' = ToOpenai!Closing
    BY <1>11 DEF ToOpenai!MessageStop
  <2>2. /\ v \in ToOpenai!Upstream /\ v.input = u.input /\ v.output = u.output
        /\ v.tools = u.tools /\ v.index = u.index /\ v.phase = "ended" /\ v.reason = u.reason
    BY <1>0 DEF ToOpenai!Upstream
  <2> HIDE DEF v
  <2> DEFINE d == ToOpenai!Closing
  <2>3. /\ d \in ToOpenai!Client /\ d.phase = "ended" /\ d.calls = c.calls
        /\ d.finish = ToOpenai!FinishReason(u.reason)
        /\ d.usage = IF u.input + u.output > 0 THEN u.input + u.output ELSE ToOpenai!None
    BY <2>1, ClosingEnds
  <2> HIDE DEF d
  <2>4. CallsAgree(s, d, v)
    BY <1>0, <2>1, <2>2, <2>3 DEF CallsAgree, Before
  <2>5. EndsAgree(s, d, v)
    BY <1>0, <2>1, <2>2, <2>3 DEF EndsAgree
  <2> QED BY <1>0, <2>1, <2>2, <2>3, <2>4, <2>5 DEF ToOpenaiInv, Agree, Typed, d
<1>12. CASE UNCHANGED toOpenaiVars
  BY <1>12 DEF toOpenaiVars, ToOpenaiInv
<1> QED BY <1>1, <1>2, <1>3, <1>4, <1>6, <1>7, <1>8, <1>9, <1>10, <1>11, <1>12
        DEF ToOpenai!Next

-----------------------------------------------------------------------------
(* The parts side by side.                                                 *)

LEMMA OpenaiReadsAnAnswer ==
    ASSUME MaxBlocks \in Nat, ToOpenaiInv
    PROVE  /\ ToOpenai!TypeOK /\ ToOpenai!WellFormed
           /\ ToOpenai!ArgumentsStayWithTheirCall /\ ToOpenai!NothingIsLost
<1>1. /\ Typed(toOpenai, openaiClient, claudeServer)
      /\ CallsAgree(toOpenai, openaiClient, claudeServer)
      /\ EndsAgree(toOpenai, openaiClient, claudeServer)
  BY DEF ToOpenaiInv, Agree
<1>2. ToOpenai!TypeOK
  BY <1>1 DEF Typed, ToOpenai!TypeOK
<1>3. ToOpenai!WellFormed
  BY <1>1 DEF EndsAgree, ToOpenai!WellFormed
<1>4. ToOpenai!ArgumentsStayWithTheirCall
  BY <1>1 DEF CallsAgree, ToOpenai!ArgumentsStayWithTheirCall
<1>5. ASSUME NEW b \in claudeServer.tools
      PROVE  openaiClient.calls[ToOpenai!Cardinality({t \in claudeServer.tools : t < b})].block = b
  BY <1>1, OneCardinality DEF CallsAgree, Before
<1>6. ToOpenai!NothingIsLost
  BY <1>1, <1>5 DEF EndsAgree, ToOpenai!NothingIsLost
<1> QED BY <1>2, <1>3, <1>4, <1>6

-----------------------------------------------------------------------------
(* The order of the bindings: whatever is drawn, each that may serve the   *)
(* request is placed once, and drawn by as many picks as it has weight.    *)

\* How many there are, in the words of either module.
LEMMA OrderCounts == \A S : Order!Cardinality(S) = Cardinality(S)
BY DEF Order!Cardinality, Cardinality

\* One goes ahead of another.
GoesAhead(rank, a, b) == rank[a] < rank[b] \/ (rank[a] = rank[b] /\ a < b)

\* How many go ahead of one is less than how many there are, and tells them apart.
LEMMA Positions ==
    ASSUME NEW S, S \subseteq Int, IsFiniteSet(S), NEW rank, \A b \in S : rank[b] \in Int
    PROVE  /\ Cardinality(S) \in Nat
           /\ \A b \in S : Cardinality(Order!Ahead(S, rank, b)) \in 0..(Cardinality(S) - 1)
           /\ \A a, b \in S : GoesAhead(rank, a, b)
                => Cardinality(Order!Ahead(S, rank, a)) < Cardinality(Order!Ahead(S, rank, b))
           /\ \A a, b \in S : a = b \/ GoesAhead(rank, a, b) \/ GoesAhead(rank, b, a)
<1> DEFINE A(b) == Order!Ahead(S, rank, b)
<1>1. \A b \in S : A(b) = {a \in S : GoesAhead(rank, a, b)}
  BY DEF Order!Ahead, GoesAhead
<1> HIDE DEF A
<1>2. \A b \in S : A(b) \in SUBSET S /\ b \notin A(b)
  BY <1>1 DEF GoesAhead
<1>3. Cardinality(S) \in Nat
  BY FS_CardinalityType
<1>4. \A b \in S : IsFiniteSet(A(b)) /\ Cardinality(A(b)) \in Nat
  BY <1>2, FS_Subset, FS_CardinalityType
<1>5. ASSUME NEW b \in S
      PROVE  Cardinality(A(b)) \in 0..(Cardinality(S) - 1)
  <2>1. Cardinality(A(b)) <= Cardinality(S)
    BY <1>2, FS_Subset
  <2>2. Cardinality(A(b)) # Cardinality(S)
    BY <1>2, FS_Subset
  <2> QED BY <1>3, <1>4, <2>1, <2>2
<1>6. ASSUME NEW a \in S, NEW b \in S, GoesAhead(rank, a, b)
      PROVE  Cardinality(A(a)) < Cardinality(A(b))
  <2>1. a \in A(b) /\ a \notin A(a)
    BY <1>1, <1>2, <1>6
  <2>2. ASSUME NEW c \in S, GoesAhead(rank, c, a)
        PROVE  GoesAhead(rank, c, b)
    <3>1. /\ rank[a] \in Int /\ rank[b] \in Int /\ rank[c] \in Int
          /\ a \in Int /\ b \in Int /\ c \in Int
      OBVIOUS
    <3> QED BY <3>1, <1>6, <2>2 DEF GoesAhead
  <2>3. A(a) \in SUBSET A(b)
    BY <1>1, <2>2
  <2>4. /\ Cardinality(A(a)) <= Cardinality(A(b))
        /\ Cardinality(A(a)) # Cardinality(A(b))
    BY <1>4, <2>1, <2>3, FS_Subset
  <2> QED BY <1>4, <2>4
<1>7. \A a, b \in S : a = b \/ GoesAhead(rank, a, b) \/ GoesAhead(rank, b, a)
  BY DEF GoesAhead
<1> QED BY <1>3, <1>5, <1>6, <1>7 DEF A

\* Sorting puts each in one place, behind all that go ahead of it.
LEMMA Sorted ==
    ASSUME NEW S, S \subseteq Int, IsFiniteSet(S), NEW rank, \A b \in S : rank[b] \in Int
    PROVE  LET s == Order!SortedBy(S, rank) IN
           /\ Cardinality(S) \in Nat
           /\ s \in [1..Cardinality(S) -> S]
           /\ \A b \in S : \E i \in 1..Cardinality(S) : s[i] = b
           /\ \A i, j \in 1..Cardinality(S) : i < j => GoesAhead(rank, s[i], s[j])
           /\ \A i, j \in 1..Cardinality(S) : s[i] = s[j] => i = j
<1> DEFINE n == Cardinality(S)
           P(b) == Cardinality(Order!Ahead(S, rank, b))
           f == [b \in S |-> P(b)]
           s == [i \in 1..n |-> CHOOSE b \in S : P(b) = i - 1]
<1>1. Order!SortedBy(S, rank) = s
  BY OrderCounts DEF Order!SortedBy
<1>2. /\ n \in Nat
      /\ \A b \in S : P(b) \in 0..(n - 1)
      /\ \A a, b \in S : GoesAhead(rank, a, b) => P(a) < P(b)
      /\ \A a, b \in S : a = b \/ GoesAhead(rank, a, b) \/ GoesAhead(rank, b, a)
  BY Positions
<1> HIDE DEF n, P
<1>3. \A a, b \in S : P(a) = P(b) => a = b
  BY <1>2
<1>4. f \in Injection(S, 0..(n - 1))
  BY <1>2, <1>3 DEF Injection, IsInjective
<1>5. IsFiniteSet(0..(n - 1)) /\ Cardinality(0..(n - 1)) = n
  BY <1>2, FS_Interval
<1>6. f \in Surjection(S, 0..(n - 1))
  BY <1>4, <1>5, FS_Injection DEF n
<1>7. ASSUME NEW i \in 1..n
      PROVE  s[i] \in S /\ P(s[i]) = i - 1
  <2>1. i - 1 \in 0..(n - 1)
    BY <1>2
  <2>2. PICK b \in S : f[b] = i - 1
    BY <1>6, <2>1 DEF Surjection
  <2>3. \E c \in S : P(c) = i - 1
    BY <2>2
  <2> QED BY <2>3
<1>8. ASSUME NEW b \in S
      PROVE  \E i \in 1..n : s[i] = b
  <2>1. P(b) + 1 \in 1..n /\ P(b) = (P(b) + 1) - 1
    BY <1>2
  <2>2. s[P(b) + 1] \in S /\ P(s[P(b) + 1]) = P(b)
    BY <1>7, <2>1
  <2> QED BY <1>3, <2>1, <2>2
<1>9. \A b \in S : P(b) \in Nat
  BY <1>2
<1> HIDE DEF s
<1>10. ASSUME NEW i \in 1..n, NEW j \in 1..n, i < j
      PROVE  GoesAhead(rank, s[i], s[j])
  <2>1. s[i] \in S /\ s[j] \in S /\ P(s[i]) < P(s[j])
    BY <1>2, <1>7, <1>10
  <2>2. CASE s[i] = s[j]
    <3>1. P(s[i]) = P(s[j]) /\ P(s[i]) \in Nat
      BY <1>9, <2>1, <2>2, Zenon
    <3> QED BY <2>1, <3>1
  <2>3. CASE GoesAhead(rank, s[j], s[i])
    <3>1. P(s[j]) < P(s[i])
      BY <1>2, <2>1, <2>3
    <3>2. P(s[i]) \in Nat /\ P(s[j]) \in Nat
      BY <1>9, <2>1
    <3> QED BY <2>1, <3>1, <3>2
  <2> QED BY <1>2, <2>1, <2>2, <2>3
<1>11. \A i, j \in 1..n : s[i] = s[j] => i = j
  BY <1>2, <1>7
<1>12. s \in [1..n -> S]
  BY <1>7 DEF s
<1> QED BY <1>1, <1>2, <1>8, <1>10, <1>11, <1>12 DEF n

\* Weights are numbers, also below one.
Weighty == weight \in [Order!BindingRows -> Int]

\* The tickets of the first k of a sequence of bindings, and their number.
TicketsTo(s, k) == UNION {{i} \X (1..Order!Weight(s[i])) : i \in 1..k}
Tally(s, k) == Cardinality(TicketsTo(s, k))

\* A weight counts at least one.
LEMMA WeightAtLeastOne ==
    ASSUME Weighty, NEW b \in Order!BindingRows
    PROVE  Order!Weight(b) \in Nat \ {0}
BY DEF Weighty, Order!Weight

\* What the code sums over the groups up to one is the tally there.
LEMMA TotalIsTally ==
    ASSUME NEW s \in Seq(Order!BindingRows)
    PROVE  /\ Order!Total(s) = Tally(s, Len(s))
           /\ \A k \in 1..Len(s) : Order!Total(SubSeq(s, 1, k)) = Tally(s, k)
<1>1. Order!Tickets(s) = TicketsTo(s, Len(s))
  <2>1. DOMAIN s = 1..Len(s)
    BY LenProperties
  <2> QED BY <2>1 DEF Order!Tickets, TicketsTo
<1>2. ASSUME NEW k \in 1..Len(s)
      PROVE  Order!Tickets(SubSeq(s, 1, k)) = TicketsTo(s, k)
  <2>1. Len(s) \in Nat
    BY LenProperties
  <2>2. /\ DOMAIN SubSeq(s, 1, k) = 1..k
        /\ \A i \in 1..k : SubSeq(s, 1, k)[i] = s[i]
    BY <2>1
  <2> QED BY <2>2, Zenon DEF Order!Tickets, TicketsTo
<1> QED BY <1>1, <1>2, OrderCounts DEF Order!Total, Tally

\* The tally begins with nothing, grows by the weight of each, and never shrinks.
LEMMA TallyGrows ==
    ASSUME Weighty, NEW s \in Seq(Order!BindingRows)
    PROVE  /\ Tally(s, 0) = 0
           /\ \A k \in 0..Len(s) : Tally(s, k) \in Nat
           /\ \A k \in 1..Len(s) : Tally(s, k) = Tally(s, k - 1) + Order!Weight(s[k])
           /\ \A j, k \in 0..Len(s) : j <= k => Tally(s, j) <= Tally(s, k)
<1> DEFINE Own(i) == {i} \X (1..Order!Weight(s[i]))
<1>1. Len(s) \in Nat /\ \A i \in 1..Len(s) : s[i] \in Order!BindingRows
  BY LenProperties, ElementOfSeq
<1>2. ASSUME NEW i \in 1..Len(s)
      PROVE  IsFiniteSet(Own(i)) /\ Cardinality(Own(i)) = Order!Weight(s[i])
  <2>1. Order!Weight(s[i]) \in Nat \ {0}
    BY <1>1, WeightAtLeastOne
  <2>2. IsFiniteSet({i}) /\ Cardinality({i}) = 1
    BY FS_Singleton
  <2>3. /\ IsFiniteSet(1..Order!Weight(s[i]))
        /\ Cardinality(1..Order!Weight(s[i])) = Order!Weight(s[i])
    BY <2>1, FS_Interval
  <2>4. IsFiniteSet(Own(i)) /\ Cardinality(Own(i)) = 1 * Order!Weight(s[i])
    BY <2>2, <2>3, FS_Product
  <2> QED BY <2>1, <2>4
<1>3. ASSUME NEW k \in 0..Len(s)
      PROVE  IsFiniteSet(TicketsTo(s, k)) /\ Tally(s, k) \in Nat
  <2> DEFINE all == {Own(i) : i \in 1..k}
             f == [i \in 1..k |-> Own(i)]
  <2>1. f \in Surjection(1..k, all)
    BY DEF Surjection
  <2>2. IsFiniteSet(1..k)
    BY <1>1, FS_Interval
  <2>3. IsFiniteSet(all)
    BY <2>1, <2>2, FS_Surjection
  <2>4. \A i \in 1..k : i \in 1..Len(s)
    BY <1>1
  <2>5. \A T \in all : IsFiniteSet(T)
    BY <1>2, <2>4
  <2>6. IsFiniteSet(UNION all)
    BY <2>3, <2>5, FS_UNION
  <2>7. IsFiniteSet(TicketsTo(s, k))
    BY <2>6 DEF TicketsTo
  <2> QED BY <2>7, FS_CardinalityType DEF Tally
<1>4. Tally(s, 0) = 0
  <2>1. TicketsTo(s, 0) = {}
    BY DEF TicketsTo
  <2> QED BY <2>1, FS_EmptySet DEF Tally
<1>5. ASSUME NEW k \in 1..Len(s)
      PROVE  Tally(s, k) = Tally(s, k - 1) + Order!Weight(s[k])
  <2>1. k - 1 \in 0..Len(s) /\ 1..k = (1..(k - 1)) \cup {k} /\ k \notin 1..(k - 1)
    BY <1>1
  <2>2. TicketsTo(s, k) = TicketsTo(s, k - 1) \cup Own(k)
    BY <2>1 DEF TicketsTo
  <2>3. \A t \in TicketsTo(s, k - 1) : t[1] \in 1..(k - 1)
    BY DEF TicketsTo
  <2>4. \A t \in Own(k) : t[1] = k
    OBVIOUS
  <2>5. TicketsTo(s, k - 1) \cap Own(k) = {}
    BY <2>1, <2>3, <2>4
  <2> HIDE DEF Own
  <2>6. IsFiniteSet(TicketsTo(s, k - 1)) /\ Tally(s, k - 1) \in Nat
    BY <1>3, <2>1
  <2>7. Cardinality(TicketsTo(s, k)) =
          Cardinality(TicketsTo(s, k - 1)) + Cardinality(Own(k))
            - Cardinality(TicketsTo(s, k - 1) \cap Own(k))
    BY <1>2, <2>2, <2>6, FS_Union
  <2>8. Order!Weight(s[k]) \in Nat
    BY <1>1, WeightAtLeastOne
  <2>9. Cardinality(Own(k)) = Order!Weight(s[k])
    BY <1>2
  <2>10. Cardinality(TicketsTo(s, k - 1) \cap Own(k)) = 0
    BY <2>5, FS_EmptySet, Zenon
  <2>11. Tally(s, k) = Tally(s, k - 1) + Order!Weight(s[k]) - 0
    BY <2>7, <2>9, <2>10, Zenon DEF Tally
  <2> QED BY <2>6, <2>8, <2>11
<1>6. ASSUME NEW j \in 0..Len(s), NEW k \in 0..Len(s), j <= k
      PROVE  Tally(s, j) <= Tally(s, k)
  <2>1. \A i \in 1..j : i \in 1..k
    BY <1>6
  <2>2. TicketsTo(s, j) \in SUBSET TicketsTo(s, k)
    BY <2>1 DEF TicketsTo
  <2> QED BY <1>3, <2>2, FS_Subset DEF Tally
<1> QED BY <1>3, <1>4, <1>5, <1>6

\* A set of positions that is not empty has a first one.
LEMMA FirstPosition ==
    ASSUME NEW T \in SUBSET Nat, T # {}
    PROVE  \E n \in T : \A k \in T : n <= k
<1>1. IsWellFoundedOn(OpToRel(<, Nat), Nat)
  BY NatLessThanWellFounded, Zenon
<1>2. PICK n \in T : \A k \in T : <<k, n>> \notin OpToRel(<, Nat)
  BY <1>1, WFMin, Zenon
<1>3. \A k \in T : ~(k < n)
  BY <1>2, Zenon DEF OpToRel
<1>4. \A k \in T : k \in Nat /\ n \in Nat
  OBVIOUS
<1> QED BY <1>3, <1>4

\* A pick chooses the binding in whose weight it falls.
LEMMA PickFalls ==
    ASSUME Weighty, groups \in Seq(Order!BindingRows), NEW pick \in 0..(Order!Total(groups) - 1)
    PROVE  /\ Order!Chosen(pick) \in 1..Len(groups)
           /\ \A i \in 1..Len(groups) :
                 Order!Chosen(pick) = i <=> Tally(groups, i - 1) <= pick /\ pick < Tally(groups, i)
<1> DEFINE n == Len(groups)
           T(k) == Tally(groups, k)
           over == {i \in 1..n : pick < T(i)}
<1>1. n \in Nat /\ DOMAIN groups = 1..n
  BY LenProperties
<1>2. /\ T(0) = 0
      /\ \A k \in 0..n : T(k) \in Nat
      /\ \A j, k \in 0..n : j <= k => T(j) <= T(k)
      /\ Order!Total(groups) = T(n)
      /\ \A k \in 1..n : Order!Total(SubSeq(groups, 1, k)) = T(k)
  BY TallyGrows, TotalIsTally
<1>3. over = {i \in DOMAIN groups : pick < Order!Total(SubSeq(groups, 1, i))}
  BY <1>1, <1>2
<1> HIDE DEF T, n
<1>4. n \in over
  <2>1. n \in 0..n /\ T(n) \in Nat /\ pick \in Nat /\ pick < T(n)
    BY <1>1, <1>2
  <2>2. n # 0
    BY <1>2, <2>1
  <2> QED BY <1>1, <2>1, <2>2
<1>5. over \in SUBSET Nat /\ over \in SUBSET (1..n)
  BY <1>1
<1>6. Order!Chosen(pick) = CHOOSE i \in over : \A j \in over : i <= j
  BY <1>3, <1>4, Zenon DEF Order!Chosen
<1>7. Order!Chosen(pick) \in over /\ \A j \in over : Order!Chosen(pick) <= j
  <2>1. \E i \in over : \A j \in over : i <= j
    BY <1>4, <1>5, FirstPosition
  <2> HIDE DEF over
  <2> QED BY <1>6, <2>1, Zenon
<1>8. ASSUME NEW i \in 1..n, Order!Chosen(pick) = i
      PROVE  T(i - 1) <= pick /\ pick < T(i)
  <2>1. pick < T(i) /\ i - 1 \notin over
    BY <1>1, <1>7, <1>8
  <2>2. i - 1 \in 0..n /\ T(i - 1) \in Nat /\ pick \in Nat
    BY <1>1, <1>2
  <2>3. CASE i = 1
    BY <1>2, <2>1, <2>2, <2>3
  <2>4. CASE i # 1
    <3>1. i - 1 \in 1..n
      BY <1>1, <2>4
    <3> QED BY <2>1, <2>2, <3>1
  <2> QED BY <2>3, <2>4
<1>9. ASSUME NEW i \in 1..n, T(i - 1) <= pick, pick < T(i)
      PROVE  Order!Chosen(pick) = i
  <2> DEFINE c == Order!Chosen(pick)
  <2>1. c \in 1..n /\ c <= i /\ pick < T(c)
    BY <1>7, <1>9
  <2> HIDE DEF c
  <2>2. CASE c <= i - 1
    <3>1. c \in 0..n /\ i - 1 \in 0..n
      BY <1>1, <2>1
    <3>2. T(c) <= T(i - 1) /\ T(c) \in Nat /\ T(i - 1) \in Nat /\ pick \in Nat
      BY <1>2, <2>2, <3>1
    <3> QED BY <1>9, <2>1, <3>2
  <2>3. CASE ~(c <= i - 1)
    BY <1>1, <2>1, <2>3 DEF c
  <2> QED BY <2>2, <2>3
<1>10. Order!Chosen(pick) \in 1..n
  BY <1>7
<1> QED BY <1>8, <1>9, <1>10 DEF n, T

\* As many picks fall on a binding as it has weight.
LEMMA PicksByWeight ==
    ASSUME Weighty, groups \in Seq(Order!BindingRows), NEW i \in 1..Len(groups)
    PROVE  Cardinality({pick \in 0..(Order!Total(groups) - 1) : Order!Chosen(pick) = i})
             = Order!Weight(groups[i])
<1> DEFINE n == Len(groups)
           T(k) == Tally(groups, k)
<1>1. n \in Nat /\ groups[i] \in Order!BindingRows
  BY LenProperties, ElementOfSeq
<1>2. /\ \A k \in 0..n : T(k) \in Nat
      /\ \A j, k \in 0..n : j <= k => T(j) <= T(k)
      /\ T(i) = T(i - 1) + Order!Weight(groups[i])
      /\ Order!Total(groups) = T(n)
  BY TallyGrows, TotalIsTally
<1>3. Order!Weight(groups[i]) \in Nat \ {0}
  BY <1>1, WeightAtLeastOne
<1>4. \A pick \in 0..(Order!Total(groups) - 1) :
        Order!Chosen(pick) = i <=> T(i - 1) <= pick /\ pick < T(i)
  BY PickFalls
<1> HIDE DEF n, T
<1>5. i \in 0..n /\ i - 1 \in 0..n /\ n \in 0..n /\ i <= n
  BY <1>1 DEF n
<1>6. T(i) \in Nat /\ T(i - 1) \in Nat /\ T(n) \in Nat /\ T(i) <= T(n)
  BY <1>2, <1>5
<1>7. {pick \in 0..(Order!Total(groups) - 1) : Order!Chosen(pick) = i} = T(i - 1)..(T(i) - 1)
  <2>1. \A pick \in T(i - 1)..(T(i) - 1) : pick \in 0..(Order!Total(groups) - 1)
    BY <1>2, <1>6
  <2>2. \A pick \in 0..(Order!Total(groups) - 1) :
          Order!Chosen(pick) = i <=> pick \in T(i - 1)..(T(i) - 1)
    BY <1>2, <1>4, <1>6
  <2> QED BY <2>1, <2>2
<1>8. Cardinality(T(i - 1)..(T(i) - 1)) = T(i) - T(i - 1)
  <2>1. \A a, b \in Nat : a < b => Cardinality(a..(b - 1)) = b - a
    BY FS_Interval
  <2>2. T(i - 1) < T(i)
    BY <1>2, <1>3, <1>6
  <2> QED BY <1>6, <2>1, <2>2
<1>9. T(i) - T(i - 1) = Order!Weight(groups[i])
  BY <1>2, <1>3, <1>6
<1> QED BY <1>7, <1>8, <1>9, Zenon

\* No binding stands in two places.
Each(s) == \A i, j \in DOMAIN s : s[i] = s[j] => i = j

\* Sorted bindings are a sequence of the same bindings, in the order of their rank.
LEMMA SortedBindings ==
    ASSUME NEW S, S \subseteq Order!BindingRows, NBindings \in Nat,
           NEW rank, \A b \in S : rank[b] \in Int
    PROVE  LET s == Order!SortedBy(S, rank) IN
           /\ s \in Seq(Order!BindingRows) /\ Order!ToSet(s) = S /\ Each(s)
           /\ \A i, j \in DOMAIN s : i < j => GoesAhead(rank, s[i], s[j])
<1> DEFINE s == Order!SortedBy(S, rank)
<1>1. IsFiniteSet(S) /\ S \subseteq Int
  <2>1. IsFiniteSet(Order!BindingRows) /\ Order!BindingRows \subseteq Int
    BY FS_Interval DEF Order!BindingRows
  <2> QED BY <2>1, FS_Subset
<1>2. /\ Cardinality(S) \in Nat
      /\ s \in [1..Cardinality(S) -> S]
      /\ \A b \in S : \E i \in 1..Cardinality(S) : s[i] = b
      /\ \A i, j \in 1..Cardinality(S) : i < j => GoesAhead(rank, s[i], s[j])
      /\ \A i, j \in 1..Cardinality(S) : s[i] = s[j] => i = j
  BY <1>1, Sorted
<1> HIDE DEF s
<1>3. DOMAIN s = 1..Cardinality(S) /\ s \in [1..Cardinality(S) -> Order!BindingRows]
  BY <1>2
<1>4. s \in Seq(Order!BindingRows)
  BY <1>2, <1>3, SeqDef
<1>5. Order!ToSet(s) = S
  BY <1>2, <1>3 DEF Order!ToSet
<1>6. Each(s)
  BY <1>2, <1>3 DEF Each
<1> QED BY <1>2, <1>3, <1>4, <1>5, <1>6 DEF s

\* Taking one out leaves the others, each once.
LEMMA RemovedBinding ==
    ASSUME NEW B, NEW s \in Seq(B), Each(s), NEW c \in 1..Len(s)
    PROVE  LET r == Order!RemoveAt(s, c) IN
           /\ r \in Seq(B) /\ Each(r) /\ Order!ToSet(r) = Order!ToSet(s) \ {s[c]}
<1> DEFINE r == Order!RemoveAt(s, c)
           n == Len(s)
<1>1. n \in Nat /\ c \in 1..n /\ DOMAIN s = 1..n /\ \A i \in 1..n : s[i] \in B
  BY LenProperties, ElementOfSeq
<1>2. /\ SubSeq(s, 1, c - 1) \in Seq(B) /\ Len(SubSeq(s, 1, c - 1)) = c - 1
      /\ \A i \in 1..(c - 1) : SubSeq(s, 1, c - 1)[i] = s[i]
  BY <1>1
<1>3. /\ SubSeq(s, c + 1, n) \in Seq(B) /\ Len(SubSeq(s, c + 1, n)) = n - c
      /\ \A i \in 1..(n - c) : SubSeq(s, c + 1, n)[i] = s[c + i]
  <2>1. \A i \in (c + 1)..n : s[i] \in B
    BY <1>1
  <2>2. /\ SubSeq(s, c + 1, n) \in Seq(B)
        /\ Len(SubSeq(s, c + 1, n)) = IF c + 1 <= n THEN n - (c + 1) + 1 ELSE 0
        /\ \A i \in 1..(n - (c + 1) + 1) : SubSeq(s, c + 1, n)[i] = s[(c + 1) + i - 1]
    BY <1>1, <2>1, SubSeqProperties
  <2>3. Len(SubSeq(s, c + 1, n)) = n - c
    <3>1. CASE c + 1 <= n
      <4>1. Len(SubSeq(s, c + 1, n)) = n - (c + 1) + 1
        BY <2>2, <3>1
      <4>2. n - (c + 1) + 1 = n - c
        BY <1>1
      <4> QED BY <4>1, <4>2
    <3>2. CASE ~(c + 1 <= n)
      <4>1. Len(SubSeq(s, c + 1, n)) = 0
        BY <2>2, <3>2
      <4>2. \A m \in Nat : \A d \in 1..m : ~(d + 1 <= m) => m - d = 0
        OBVIOUS
      <4>3. n - c = 0
        BY <1>1, <3>2, <4>2, Zenon
      <4> QED BY <4>1, <4>3
    <3> QED BY <3>1, <3>2
  <2>4. n - (c + 1) + 1 = n - c /\ \A i \in 1..(n - c) : (c + 1) + i - 1 = c + i
    BY <1>1
  <2> QED BY <2>2, <2>3, <2>4
<1>4. /\ r \in Seq(B) /\ Len(r) = n - 1
      /\ \A i \in 1..(n - 1) : r[i] = IF i <= c - 1 THEN s[i] ELSE s[i + 1]
  <2>1. r = SubSeq(s, 1, c - 1) \o SubSeq(s, c + 1, n)
    BY DEF Order!RemoveAt
  <2>2. /\ r \in Seq(B) /\ Len(r) = (c - 1) + (n - c)
        /\ \A i \in 1..((c - 1) + (n - c)) :
             r[i] = IF i <= c - 1 THEN SubSeq(s, 1, c - 1)[i]
                                  ELSE SubSeq(s, c + 1, n)[i - (c - 1)]
    <3> DEFINE p == SubSeq(s, 1, c - 1)
               q == SubSeq(s, c + 1, n)
    <3>1. /\ p \o q \in Seq(B) /\ Len(p \o q) = Len(p) + Len(q)
          /\ \A i \in 1..(Len(p) + Len(q)) :
               (p \o q)[i] = IF i <= Len(p) THEN p[i] ELSE q[i - Len(p)]
      BY <1>2, <1>3, ConcatProperties
    <3>2. Len(p) = c - 1 /\ Len(q) = n - c
      BY <1>2, <1>3
    <3> HIDE DEF p, q
    <3> QED BY <2>1, <3>1, <3>2 DEF p, q
  <2>3. (c - 1) + (n - c) = n - 1 /\ n - 1 \in Nat
    BY <1>1
  <2>4. ASSUME NEW i \in 1..(n - 1)
        PROVE  r[i] = IF i <= c - 1 THEN s[i] ELSE s[i + 1]
    <3>1. CASE i <= c - 1
      BY <1>1, <1>2, <2>2, <2>3, <3>1
    <3>2. CASE ~(i <= c - 1)
      <4>1. i - (c - 1) \in 1..(n - c) /\ c + (i - (c - 1)) = i + 1
        BY <1>1, <3>2
      <4>2. SubSeq(s, c + 1, n)[i - (c - 1)] = s[c + (i - (c - 1))]
        BY <1>3, <4>1
      <4> QED BY <2>2, <2>3, <3>2, <4>1, <4>2
    <3> QED BY <3>1, <3>2
  <2> QED BY <2>2, <2>3, <2>4
<1> HIDE DEF r, n
<1>5. DOMAIN r = 1..(n - 1)
  BY <1>4, LenProperties
<1>6. Each(r)
  <2> SUFFICES ASSUME NEW i \in 1..(n - 1), NEW j \in 1..(n - 1), r[i] = r[j]
               PROVE  i = j
    BY <1>5 DEF Each
  <2> DEFINE to(k) == IF k <= c - 1 THEN k ELSE k + 1
  <2>1. to(i) \in 1..n /\ to(j) \in 1..n
    BY <1>1
  <2>2. s[to(i)] = s[to(j)]
    BY <1>4
  <2>3. to(i) = to(j)
    BY <1>1, <2>1, <2>2 DEF Each
  <2> QED BY <2>3
<1>7. Order!ToSet(r) = Order!ToSet(s) \ {s[c]}
  <2>1. ASSUME NEW i \in 1..(n - 1)
        PROVE  \E k \in 1..n : k # c /\ r[i] = s[k]
    BY <1>1, <1>4
  <2>2. ASSUME NEW k \in 1..n, k # c
        PROVE  \E i \in 1..(n - 1) : r[i] = s[k]
    <3>1. CASE k <= c - 1
      BY <1>1, <1>4, <3>1 DEF n
    <3>2. CASE ~(k <= c - 1)
      <4>1. k - 1 \in 1..(n - 1) /\ ~(k - 1 <= c - 1) /\ (k - 1) + 1 = k
        BY <1>1, <2>2, <3>2
      <4> QED BY <1>4, <4>1
    <3> QED BY <3>1, <3>2
  <2>3. \A k \in 1..n : s[k] = s[c] => k = c
    BY <1>1 DEF Each, n
  <2>4. Order!ToSet(r) = {r[i] : i \in 1..(n - 1)} /\ Order!ToSet(s) = {s[k] : k \in 1..n}
    BY <1>1, <1>5 DEF Order!ToSet
  <2>5. ASSUME NEW x \in Order!ToSet(r)
        PROVE  x \in Order!ToSet(s) /\ x # s[c]
    <3>1. PICK i \in 1..(n - 1) : x = r[i]
      BY <2>4
    <3>2. PICK k \in 1..n : k # c /\ r[i] = s[k]
      BY <2>1
    <3> QED BY <2>3, <2>4, <3>1, <3>2
  <2>6. ASSUME NEW x \in Order!ToSet(s), x # s[c]
        PROVE  x \in Order!ToSet(r)
    <3>1. PICK k \in 1..n : x = s[k]
      BY <2>4
    <3>2. PICK i \in 1..(n - 1) : r[i] = s[k]
      BY <2>2, <2>6, <3>1
    <3> QED BY <2>4, <3>1, <3>2
  <2> QED BY <2>5, <2>6
<1> QED BY <1>4, <1>6, <1>7 DEF r

\* A binding that does not stand there yet may be appended.
LEMMA AppendedBinding ==
    ASSUME NEW B, NEW s \in Seq(B), Each(s), NEW b \in B, b \notin Order!ToSet(s)
    PROVE  /\ Append(s, b) \in Seq(B) /\ Each(Append(s, b))
           /\ Order!ToSet(Append(s, b)) = Order!ToSet(s) \cup {b}
<1> DEFINE a == Append(s, b)
           n == Len(s)
<1>1. n \in Nat /\ DOMAIN s = 1..n
  BY LenProperties
<1>2. /\ a \in Seq(B) /\ Len(a) = n + 1
      /\ \A i \in 1..n : a[i] = s[i]
      /\ a[n + 1] = b
  BY AppendProperties
<1>3. DOMAIN a = 1..(n + 1)
  BY <1>2, LenProperties
<1> HIDE DEF a, n
<1>4. \A i \in 1..(n + 1) : i \in 1..n \/ i = n + 1
  BY <1>1
<1>5. n + 1 \in 1..(n + 1) /\ \A i \in 1..n : i \in 1..(n + 1) /\ s[i] # b
  BY <1>1 DEF Order!ToSet
<1>6. Each(a)
  <2> SUFFICES ASSUME NEW i \in 1..(n + 1), NEW j \in 1..(n + 1), a[i] = a[j]
               PROVE  i = j
    BY <1>3 DEF Each
  <2> QED BY <1>1, <1>2, <1>4, <1>5 DEF Each
<1>7. Order!ToSet(a) = Order!ToSet(s) \cup {b}
  BY <1>1, <1>2, <1>3, <1>4, <1>5 DEF Order!ToSet
<1> QED BY <1>2, <1>6, <1>7 DEF a

\* Snapshot and places are what they should be.
RoutingTyped ==
    /\ strategy \in {"priority", "load_balance"}
    /\ priority \in [Order!BindingRows -> Int] /\ Weighty
    /\ listed \in SUBSET Order!BindingRows
    /\ usable \in [Order!BindingRows -> SUBSET Order!Keys]
    /\ key_priority \in [Order!Keys -> Int]
    /\ drawing \in {"filter", "sort", "draw", "done"}
    /\ groups \in Seq(Order!BindingRows) /\ out \in Seq(Order!BindingRows)

\* Who may serve the request waits or is placed, in one place.
Placed ==
    /\ Each(groups) /\ Each(out)
    /\ IF drawing = "filter" THEN groups = <<>> /\ out = <<>>
       ELSE /\ Order!ToSet(groups) \cup Order!ToSet(out) = Order!Eligible
            /\ Order!ToSet(groups) \cap Order!ToSet(out) = {}
    /\ drawing = "sort" => out = <<>>
    /\ drawing = "done" => groups = <<>>

\* What was not drawn stands by priority.
ByPriority ==
    strategy = "priority" =>
        /\ drawing # "draw"
        /\ \A i, j \in DOMAIN out : i < j => GoesAhead(priority, out[i], out[j])

\* The inductive invariant of the routing.
RoutingInv == RoutingTyped /\ Placed /\ ByPriority

LEMMA NothingPlaced == Each(<<>>) /\ Order!ToSet(<<>>) = {} /\ \A S : <<>> \in Seq(S)
BY DEF Each, Order!ToSet

\* It holds in the beginning, and where the routing rests.
LEMMA StartOfRouting ==
    ASSUME Order!RoutingAssumption, Order!Init \/ OrderRests
    PROVE  RoutingInv
<1>1. /\ strategy \in {"priority", "load_balance"}
      /\ priority \in [Order!BindingRows -> Int] /\ weight \in [Order!BindingRows -> Int]
      /\ listed \in SUBSET Order!BindingRows
      /\ usable \in [Order!BindingRows -> SUBSET Order!Keys]
      /\ key_priority \in [Order!Keys -> Int]
      /\ groups = <<>> /\ out = <<>> /\ drawing = "filter"
  <2>1. CASE Order!Init
    BY <2>1 DEF Order!Init, Order!RoutingAssumption
  <2>2. CASE OrderRests
    BY <2>2 DEF OrderRests
  <2> QED BY <2>1, <2>2
<1>2. RoutingTyped
  BY <1>1, NothingPlaced DEF RoutingTyped, Weighty
<1>3. Placed
  BY <1>1, NothingPlaced DEF Placed
<1>4. ByPriority
  BY <1>1 DEF ByPriority
<1> QED BY <1>2, <1>3, <1>4 DEF RoutingInv

LEMMA EligibleAre ==
    ASSUME RoutingTyped
    PROVE  Order!Eligible \subseteq Order!BindingRows
BY DEF RoutingTyped, Order!Eligible

\* No step of the routing changes the snapshot, nor therefore who is eligible.
LEMMA ConfigStays ==
    ASSUME RoutingTyped, UNCHANGED Order!config,
           drawing' \in {"filter", "sort", "draw", "done"},
           groups' \in Seq(Order!BindingRows), out' \in Seq(Order!BindingRows)
    PROVE  RoutingTyped' /\ Order!Eligible' = Order!Eligible
BY DEF RoutingTyped, Order!config, Weighty, Order!Eligible

\* Each step keeps it.
LEMMA FilterKeeps ==
    ASSUME NBindings \in Nat, RoutingInv, Order!Filter
    PROVE  RoutingInv'
<1>1. /\ drawing = "filter" /\ drawing' = "sort" /\ UNCHANGED Order!config
      /\ groups = <<>> /\ out = <<>> /\ out' = <<>>
      /\ groups' = Order!SortedBy(Order!Eligible, [b \in Order!BindingRows |-> b])
  BY DEF RoutingInv, Placed, Order!Filter
<1>2. \A b \in Order!Eligible : [c \in Order!BindingRows |-> c][b] \in Int
  BY EligibleAre DEF RoutingInv, Order!BindingRows
<1>3. /\ groups' \in Seq(Order!BindingRows)
      /\ Order!ToSet(groups') = Order!Eligible /\ Each(groups')
  BY <1>1, <1>2, EligibleAre, SortedBindings DEF RoutingInv
<1>4. RoutingTyped' /\ Order!Eligible' = Order!Eligible
  BY <1>1, <1>3, NothingPlaced, ConfigStays DEF RoutingInv
<1>5. Placed'
  <2>1. /\ Each(groups)' /\ Each(out)'
        /\ Order!ToSet(groups)' = Order!Eligible /\ Order!ToSet(out)' = {}
    <3>1. Each(groups)' /\ Order!ToSet(groups)' = Order!Eligible
      BY <1>3 DEF Each, Order!ToSet
    <3>2. Each(out)' /\ Order!ToSet(out)' = {}
      BY <1>1 DEF Each, Order!ToSet
    <3> QED BY <3>1, <3>2
  <2> QED BY <1>1, <1>4, <2>1 DEF Placed
<1>6. ByPriority'
  BY <1>1 DEF ByPriority
<1> QED BY <1>4, <1>5, <1>6 DEF RoutingInv

LEMMA SortKeeps ==
    ASSUME NBindings \in Nat, RoutingInv, Order!Sort
    PROVE  RoutingInv'
<1> DEFINE sorted == Order!SortedBy(Order!ToSet(groups), priority)
<1>1. drawing = "sort" /\ out = <<>> /\ UNCHANGED Order!config /\ strategy' = strategy
  BY DEF RoutingInv, Placed, Order!Sort, Order!config
<1>2. Order!ToSet(groups) = Order!Eligible
  BY <1>1, NothingPlaced DEF RoutingInv, Placed
<1>3. \A b \in Order!Eligible : priority[b] \in Int
  BY EligibleAre DEF RoutingInv, RoutingTyped
<1>4. /\ sorted \in Seq(Order!BindingRows)
      /\ Order!ToSet(sorted) = Order!Eligible /\ Each(sorted)
      /\ \A i, j \in DOMAIN sorted : i < j => GoesAhead(priority, sorted[i], sorted[j])
  BY <1>2, <1>3, EligibleAre, SortedBindings DEF RoutingInv
<1>5. \/ /\ strategy = "priority" /\ out' = sorted /\ groups' = <<>> /\ drawing' = "done"
      \/ /\ strategy # "priority" /\ groups' = sorted /\ out' = <<>> /\ drawing' = "draw"
  BY <1>1 DEF Order!Sort
<1> HIDE DEF sorted
<1>6. RoutingTyped' /\ Order!Eligible' = Order!Eligible
  BY <1>1, <1>4, <1>5, NothingPlaced, ConfigStays DEF RoutingInv
<1>7. Placed'
  <2>1. /\ Each(groups)' /\ Each(out)'
        /\ \/ Order!ToSet(groups)' = Order!Eligible /\ Order!ToSet(out)' = {}
           \/ Order!ToSet(groups)' = {} /\ Order!ToSet(out)' = Order!Eligible
    BY <1>4, <1>5, NothingPlaced DEF Each, Order!ToSet
  <2> QED BY <1>5, <1>6, <2>1 DEF Placed
<1>8. ByPriority'
  <2>1. priority' = priority
    BY <1>1 DEF Order!config
  <2> QED BY <1>1, <1>4, <1>5, <2>1 DEF ByPriority, GoesAhead
<1> QED BY <1>6, <1>7, <1>8 DEF RoutingInv

LEMMA DrawKeeps ==
    ASSUME RoutingInv, Order!Draw
    PROVE  RoutingInv'
<1>1. PICK pick \in 0..(Order!Total(groups) - 1) :
        /\ out' = Append(out, groups[Order!Chosen(pick)])
        /\ groups' = Order!RemoveAt(groups, Order!Chosen(pick))
  BY DEF Order!Draw
<1> DEFINE c == Order!Chosen(pick)
<1>2. /\ drawing = "draw" /\ drawing' = "draw" /\ UNCHANGED Order!config
      /\ strategy' = strategy /\ strategy # "priority"
      /\ groups \in Seq(Order!BindingRows) /\ out \in Seq(Order!BindingRows)
      /\ Each(groups) /\ Each(out)
  BY DEF RoutingInv, RoutingTyped, Placed, ByPriority, Order!Draw, Order!config
<1>3. c \in 1..Len(groups)
  BY <1>2, PickFalls DEF RoutingInv, RoutingTyped
<1> HIDE DEF c
<1>4. groups[c] \in Order!ToSet(groups) /\ groups[c] \in Order!BindingRows
  BY <1>2, <1>3, LenProperties, ElementOfSeq DEF Order!ToSet
<1>5. /\ Order!ToSet(groups) \cup Order!ToSet(out) = Order!Eligible
      /\ Order!ToSet(groups) \cap Order!ToSet(out) = {}
  BY <1>2 DEF RoutingInv, Placed
<1>6. /\ groups' \in Seq(Order!BindingRows) /\ Each(groups')
      /\ Order!ToSet(groups') = Order!ToSet(groups) \ {groups[c]}
  BY <1>1, <1>2, <1>3, RemovedBinding DEF c
<1>7. /\ out' \in Seq(Order!BindingRows) /\ Each(out')
      /\ Order!ToSet(out') = Order!ToSet(out) \cup {groups[c]}
  BY <1>1, <1>2, <1>4, <1>5, AppendedBinding DEF c
<1>8. RoutingTyped' /\ Order!Eligible' = Order!Eligible
  BY <1>2, <1>6, <1>7, ConfigStays DEF RoutingInv
<1>9. Placed'
  <2>1. /\ Each(groups)' /\ Each(out)'
        /\ Order!ToSet(groups)' = Order!ToSet(groups) \ {groups[c]}
        /\ Order!ToSet(out)' = Order!ToSet(out) \cup {groups[c]}
    BY <1>6, <1>7 DEF Each, Order!ToSet
  <2> QED BY <1>2, <1>4, <1>5, <1>8, <2>1 DEF Placed
<1>10. ByPriority'
  BY <1>2 DEF ByPriority
<1> QED BY <1>8, <1>9, <1>10 DEF RoutingInv

LEMMA DrawnKeeps ==
    ASSUME RoutingInv, Order!Drawn
    PROVE  RoutingInv'
<1>1. /\ drawing = "draw" /\ drawing' = "done" /\ UNCHANGED Order!config
      /\ groups = <<>> /\ UNCHANGED <<groups, out>>
  BY DEF Order!Drawn
<1>2. RoutingTyped' /\ Order!Eligible' = Order!Eligible
  BY <1>1, ConfigStays DEF RoutingInv, RoutingTyped
<1>3. Placed'
  BY <1>1, <1>2 DEF RoutingInv, Placed, Each, Order!ToSet
<1>4. ByPriority'
  BY <1>1 DEF RoutingInv, ByPriority, Order!config, GoesAhead
<1> QED BY <1>2, <1>3, <1>4 DEF RoutingInv

LEMMA NextRouting ==
    ASSUME Order!RoutingAssumption, RoutingInv, Order!Next \/ UNCHANGED orderVars
    PROVE  RoutingInv'
<1>1. NBindings \in Nat
  BY DEF Order!RoutingAssumption
<1>2. CASE UNCHANGED orderVars
  <2>1. RoutingTyped'
    BY <1>2 DEF orderVars, RoutingInv, RoutingTyped, Weighty
  <2>2. Placed'
    BY <1>2 DEF orderVars, RoutingInv, Placed, Each, Order!ToSet, Order!Eligible
  <2>3. ByPriority'
    BY <1>2 DEF orderVars, RoutingInv, ByPriority, GoesAhead
  <2> QED BY <2>1, <2>2, <2>3 DEF RoutingInv
<1> QED BY <1>1, <1>2, FilterKeeps, SortKeeps, DrawKeeps, DrawnKeeps DEF Order!Next

\* It implies what the run checks.
LEMMA RoutesAreGood ==
    ASSUME NBindings \in Nat, NKeys \in Nat, RoutingInv
    PROVE  RoutesEachOnce /\ DrawIsProportional
<1>1. ASSUME NEW b \in Order!Eligible
      PROVE  Order!Bucket(b) # <<>> /\ Order!ToSet(Order!Bucket(b)) = usable[b]
  <2> DEFINE S == usable[b]
             s == Order!SortedBy(S, key_priority)
  <2>1. S # {} /\ S \subseteq Order!Keys
    BY EligibleAre DEF RoutingInv, RoutingTyped, Order!Eligible
  <2>2. IsFiniteSet(S) /\ S \subseteq Int /\ \A k \in S : key_priority[k] \in Int
    <3>1. IsFiniteSet(Order!Keys) /\ Order!Keys \subseteq Int
      BY FS_Interval DEF Order!Keys
    <3> QED BY <2>1, <3>1, FS_Subset DEF RoutingInv, RoutingTyped
  <2>3. /\ s \in [1..Cardinality(S) -> S]
        /\ \A k \in S : \E i \in 1..Cardinality(S) : s[i] = k
    BY <2>2, Sorted
  <2> HIDE DEF s
  <2>4. Order!ToSet(s) = S
    BY <2>3 DEF Order!ToSet
  <2>5. s # <<>>
    BY <2>1, <2>4, NothingPlaced
  <2> QED BY <2>4, <2>5 DEF s, Order!Bucket
<1>2. Order!TypeOK
  <2>1. Order!Total(groups) \in Nat
    <3>1. Len(groups) \in 0..Len(groups)
      BY LenProperties DEF RoutingInv, RoutingTyped
    <3> QED BY <3>1, TotalIsTally, TallyGrows DEF RoutingInv, RoutingTyped
  <2>2. \A b \in Order!ToSet(groups) \cup Order!ToSet(out) : b \in Order!Eligible
    BY NothingPlaced DEF RoutingInv, Placed
  <2> QED BY <1>1, <2>1, <2>2 DEF RoutingInv, RoutingTyped, Order!TypeOK
<1>3. Order!RoutesEachOnce
  <2> SUFFICES ASSUME drawing = "done"
               PROVE  /\ Order!ToSet(out) = Order!Eligible
                      /\ Each(out)
    BY <1>1 DEF Order!RoutesEachOnce, Order!Eligible, Each, Order!IsInjective
  <2> QED BY NothingPlaced DEF RoutingInv, Placed
<1>4. Order!PriorityOrder
  BY DEF RoutingInv, ByPriority, GoesAhead, Order!PriorityOrder
<1>5. DrawIsProportional
  <2> SUFFICES ASSUME NEW i \in DOMAIN groups
               PROVE  Cardinality({pick \in 0..(Order!Total(groups) - 1) : Order!Chosen(pick) = i})
                        = IF weight[groups[i]] < 1 THEN 1 ELSE weight[groups[i]]
    BY OrderCounts DEF DrawIsProportional, Order!DrawIsProportional
  <2>1. i \in 1..Len(groups)
    BY LenProperties DEF RoutingInv, RoutingTyped
  <2> QED BY <2>1, PicksByWeight DEF RoutingInv, RoutingTyped, Order!Weight
<1> QED BY <1>2, <1>3, <1>4, <1>5 DEF RoutesEachOnce

-----------------------------------------------------------------------------
(* The conversation: what is gathered from sequences.                      *)

\* What holds of the empty sequence, and passes from a sequence to one longer, holds of
\* all; it is given as the set of the sequences that have it.
LEMMA ByAppending ==
    ASSUME NEW D, NEW P, <<>> \in P,
           \A s \in Seq(D), e \in D : s \in P => Append(s, e) \in P
    PROVE  \A s \in Seq(D) : s \in P
<1> DEFINE T == {n \in Nat : \E s \in Seq(D) : Len(s) = n /\ s \notin P}
<1> SUFFICES ASSUME T # {} PROVE FALSE
  BY LenProperties
<1>1. PICK n \in T : \A k \in T : n <= k
  <2>1. T \in SUBSET Nat
    OBVIOUS
  <2> HIDE DEF T
  <2> QED BY <2>1, FirstPosition
<1>2. PICK s \in Seq(D) : Len(s) = n /\ s \notin P
  BY <1>1
<1>3. PICK t \in Seq(D), e \in D : s = Append(t, e)
  BY <1>2, SequenceEmptyOrAppend
<1>4. Len(t) = n - 1 /\ Len(t) \in Nat
  BY <1>2, <1>3, LenProperties, AppendProperties
<1>5. Len(t) \in T
  BY <1>2, <1>3, <1>4
<1> QED BY <1>1, <1>4, <1>5

\* The same of the numbers up to a bound.
LEMMA ByCounting ==
    ASSUME NEW m \in Nat, NEW P, 0 \in P, \A n \in 1..m : n - 1 \in P => n \in P
    PROVE  \A n \in 0..m : n \in P
<1> DEFINE T == {n \in 0..m : n \notin P}
<1> SUFFICES ASSUME T # {} PROVE FALSE
  OBVIOUS
<1>1. PICK n \in T : \A k \in T : n <= k
  BY FirstPosition, T \in SUBSET Nat
<1>2. n \in 1..m /\ n - 1 \in 0..m /\ ~(n <= n - 1)
  BY <1>1
<1>3. n - 1 \notin T
  BY <1>1, <1>2
<1> QED BY <1>1, <1>2, <1>3

\* The values of f from 0 to n, each made from the one before.
Stepwise(f, n, A, a, G) ==
    f \in [0..n -> A] /\ f[0] = a /\ \A k \in 1..n : f[k] = G[k][f[k - 1]]

\* There are such values.
LEMMA StepByStep ==
    ASSUME NEW n \in Nat, NEW A, NEW a \in A, NEW G, \A k \in 1..n : G[k] \in [A -> A]
    PROVE  \E f : Stepwise(f, n, A, a, G)
<1> DEFINE Good(m, f) == f[0] = a /\ \A k \in 1..m : f[k] = G[k][f[k - 1]]
           P == {m \in Nat : \E f \in [0..m -> A] : Good(m, f)}
<1>1. 0 \in P
  <2>1. Good(0, [i \in 0..0 |-> a])
    OBVIOUS
  <2> QED BY <2>1
<1>2. ASSUME NEW m \in 1..n, m - 1 \in P PROVE m \in P
  <2>1. PICK f \in [0..(m - 1) -> A] : Good(m - 1, f)
    BY <1>2
  <2> DEFINE g == [i \in 0..m |-> IF i = m THEN G[m][f[m - 1]] ELSE f[i]]
  <2>2. f[m - 1] \in A /\ G[m][f[m - 1]] \in A
    <3>1. f[m - 1] \in A
      OBVIOUS
    <3> QED BY <3>1
  <2>3. g \in [0..m -> A]
    BY <2>2
  <2>4. g[0] = a
    BY <2>1
  <2>5. ASSUME NEW k \in 1..m PROVE g[k] = G[k][g[k - 1]]
    <3>1. g[k - 1] = f[k - 1]
      OBVIOUS
    <3>2. g[k] = IF k = m THEN G[m][f[m - 1]] ELSE f[k]
      OBVIOUS
    <3>3. k # m => k \in 1..(m - 1)
      OBVIOUS
    <3> HIDE DEF g
    <3> QED BY <2>1, <3>1, <3>2, <3>3
  <2> HIDE DEF g
  <2> QED BY <2>3, <2>4, <2>5
<1>3. n \in P
  <2> HIDE DEF P
  <2>1. \A m \in 0..n : m \in P
    BY <1>1, <1>2, ByCounting
  <2> QED BY <2>1
<1> QED BY <1>3 DEF Stepwise

\* Joining: the definition, unfolded.
LEMMA JoinedSteps ==
    ASSUME NEW D, NEW ss \in Seq(Seq(D))
    PROVE  \E f : /\ f \in [0..Len(ss) -> Seq(D)]
                  /\ f[0] = <<>> /\ \A k \in 1..Len(ss) : f[k] = f[k - 1] \o ss[k]
                  /\ Talk!Joined(ss) = f[Len(ss)]
<1> DEFINE Row(f, k) == IF k = 0 THEN <<>> ELSE f[k - 1] \o ss[k]
           Solves(f) == f = [k \in 0..Len(ss) |-> Row(f, k)]
           F == CHOOSE f : f = [k \in 0..Len(ss) |-> IF k = 0 THEN <<>> ELSE f[k - 1] \o ss[k]]
           G == [k \in 1..Len(ss) |-> [s \in Seq(D) |-> s \o ss[k]]]
<1>1. Len(ss) \in Nat /\ \A k \in 1..Len(ss) : ss[k] \in Seq(D)
  BY LenProperties
<1>2. \A k \in 1..Len(ss) : G[k] \in [Seq(D) -> Seq(D)]
  BY <1>1, ConcatProperties
<1>3. PICK f : Stepwise(f, Len(ss), Seq(D), <<>>, G)
  <2>1. <<>> \in Seq(D)
    OBVIOUS
  <2> HIDE DEF G, F
  <2> QED BY <1>1, <1>2, <2>1, StepByStep
<1>4. ASSUME NEW k \in 1..Len(ss) PROVE f[k] = f[k - 1] \o ss[k]
  <2>1. k - 1 \in 0..Len(ss)
    BY <1>1
  <2>2. f[k - 1] \in Seq(D)
    <3> HIDE DEF F, G
    <3> QED BY <1>3, <2>1 DEF Stepwise
  <2>3. G[k][f[k - 1]] = f[k - 1] \o ss[k]
    BY <2>2
  <2> HIDE DEF F, G
  <2> QED BY <1>3, <2>3 DEF Stepwise
<1> HIDE DEF G
<1>5. Solves(f)
  <2>1. f = [k \in 0..Len(ss) |-> f[k]]
    BY <1>3 DEF Stepwise
  <2>2. ASSUME NEW k \in 0..Len(ss) PROVE f[k] = Row(f, k)
    <3>1. CASE k = 0
      BY <1>3, <3>1 DEF Stepwise
    <3>2. CASE k # 0
      <4>1. k \in 1..Len(ss)
        BY <3>2
      <4> QED BY <1>4, <3>2, <4>1
    <3> QED BY <3>1, <3>2
  <2> HIDE DEF Row
  <2> QED BY <2>1, <2>2
<1>6. Solves(F)
  BY <1>5
<1>7. Talk!Joined(ss) = F[Len(ss)]
  BY DEF Talk!Joined
<1> HIDE DEF F
<1>8. ASSUME NEW k \in 0..Len(ss) PROVE F[k] = Row(F, k)
  <2> HIDE DEF Row
  <2> QED BY <1>6
<1>9. F = f
  <2> DEFINE P == {k \in 0..Len(ss) : F[k] = f[k]}
  <2>1. 0 \in P
    <3>1. 0 \in 0..Len(ss)
      BY <1>1
    <3> QED BY <1>3, <1>8, <3>1 DEF Stepwise
  <2>2. ASSUME NEW k \in 1..Len(ss), k - 1 \in P PROVE k \in P
    <3>1. k \in 0..Len(ss) /\ k # 0
      BY <1>1
    <3>2. F[k] = F[k - 1] \o ss[k]
      BY <1>8, <3>1
    <3> QED BY <1>4, <2>2, <3>1, <3>2
  <2>3. \A k \in 0..Len(ss) : k \in P
    <3> HIDE DEF P
    <3> QED BY <1>1, <2>1, <2>2, ByCounting
  <2>4. F = [k \in 0..Len(ss) |-> F[k]]
    <3> HIDE DEF Row
    <3> QED BY <1>6
  <2> QED BY <1>3, <2>3, <2>4 DEF Stepwise
<1> QED BY <1>3, <1>4, <1>7, <1>9 DEF Stepwise

\* What the elements of s give, one after the other (Gathered, of a function).
Through(s, g) == Talk!Joined([i \in DOMAIN s |-> g[s[i]]])

\* Nothing joins to nothing.
LEMMA JoinedNothing == Talk!Joined(<<>>) = <<>>
<1>1. <<>> \in Seq(Seq({}))
  OBVIOUS
<1> QED BY <1>1, JoinedSteps, EmptySeq

\* A sequence more is put at the end.
LEMMA JoinedOneMore ==
    ASSUME NEW D, NEW ss \in Seq(Seq(D)), NEW s \in Seq(D)
    PROVE  /\ Talk!Joined(Append(ss, s)) = Talk!Joined(ss) \o s
           /\ Talk!Joined(ss) \in Seq(D)
<1> DEFINE tt == Append(ss, s)
<1>1. /\ tt \in Seq(Seq(D)) /\ Len(tt) = Len(ss) + 1 /\ Len(ss) \in Nat
      /\ \A i \in 1..Len(ss) : tt[i] = ss[i]
      /\ tt[Len(ss) + 1] = s
  BY AppendProperties, LenProperties
<1>2. PICK f : 
              /\ f \in [0..Len(ss) -> Seq(D)]
              /\ f[0] = <<>> /\ \A k \in 1..Len(ss) : f[k] = f[k - 1] \o ss[k]
              /\ Talk!Joined(ss) = f[Len(ss)]
  BY JoinedSteps
<1> HIDE DEF tt
<1>3. PICK g : 
              /\ g \in [0..Len(tt) -> Seq(D)]
              /\ g[0] = <<>> /\ \A k \in 1..Len(tt) : g[k] = g[k - 1] \o tt[k]
              /\ Talk!Joined(tt) = g[Len(tt)]
  BY <1>1, JoinedSteps
<1>4. f[Len(ss)] = g[Len(ss)]
  <2> DEFINE P == {k \in 0..Len(ss) : f[k] = g[k]}
  <2>1. 0 \in P
    BY <1>1, <1>2, <1>3
  <2>2. ASSUME NEW k \in 1..Len(ss), k - 1 \in P PROVE k \in P
    <3>1. k \in 1..Len(tt) /\ tt[k] = ss[k]
      BY <1>1
    <3>2. f[k] = f[k - 1] \o ss[k] /\ g[k] = g[k - 1] \o tt[k]
      BY <1>2, <1>3, <3>1
    <3>3. k \in 0..Len(ss)
      BY <1>1
    <3> QED BY <2>2, <3>1, <3>2, <3>3
  <2>3. \A k \in 0..Len(ss) : k \in P
    <3> HIDE DEF P
    <3> QED BY <1>1, <2>1, <2>2, ByCounting
  <2> QED BY <1>1, <2>3
<1>5. g[Len(tt)] = g[Len(ss)] \o s
  <2>1. Len(tt) \in 1..Len(tt) /\ Len(tt) - 1 = Len(ss)
    BY <1>1
  <2> QED BY <1>1, <1>3, <2>1
<1> QED BY <1>1, <1>2, <1>3, <1>4, <1>5 DEF tt

\* Each element of M gives a sequence over D.
Gives(g, M, D) == \A m \in M : g[m] \in Seq(D)

\* Nothing gives nothing.
LEMMA ThroughNothing == \A g : Through(<<>>, g) = <<>>
<1> SUFFICES ASSUME NEW g PROVE Through(<<>>, g) = <<>>
  OBVIOUS
<1>1. [i \in DOMAIN <<>> |-> g[<<>>[i]]] = <<>>
  OBVIOUS
<1> QED BY <1>1, JoinedNothing DEF Through

\* What is given is a sequence over D.
LEMMA ThroughIsSeq ==
    ASSUME NEW M, NEW D, NEW g, Gives(g, M, D), NEW s \in Seq(M)
    PROVE  Through(s, g) \in Seq(D)
<1> DEFINE ss == [i \in DOMAIN s |-> g[s[i]]]
<1>1. ss \in Seq(Seq(D))
  <2>1. DOMAIN s = 1..Len(s) /\ Len(s) \in Nat /\ \A i \in 1..Len(s) : s[i] \in M
    BY LenProperties
  <2> QED BY <2>1 DEF Gives
<1>2. <<>> \in Seq(D)
  OBVIOUS
<1> HIDE DEF ss
<1> QED BY <1>1, <1>2, JoinedOneMore DEF Through, ss

\* What each element gives, element by element.
LEMMA ThroughOneMore ==
    ASSUME NEW M, NEW D, NEW g, Gives(g, M, D), NEW s \in Seq(M), NEW m \in M
    PROVE  Through(Append(s, m), g) = Through(s, g) \o g[m]
<1> DEFINE ss == [i \in DOMAIN s |-> g[s[i]]]
           t == Append(s, m)
           tt == [i \in DOMAIN t |-> g[t[i]]]
<1>1. ss \in Seq(Seq(D)) /\ Len(ss) = Len(s)
  <2>1. DOMAIN s = 1..Len(s) /\ Len(s) \in Nat /\ \A i \in 1..Len(s) : s[i] \in M
    BY LenProperties
  <2> QED BY <2>1 DEF Gives
<1>2. t \in Seq(M) /\ Len(t) = Len(s) + 1 /\ Len(s) \in Nat
      /\ (\A i \in 1..Len(s) : t[i] = s[i]) /\ t[Len(s) + 1] = m
  BY AppendProperties, LenProperties
<1>3. tt = Append(ss, g[m])
  <2> HIDE DEF t
  <2>1. DOMAIN t = 1..(Len(s) + 1) /\ DOMAIN s = 1..Len(s)
    BY <1>2, LenProperties
  <2>2. tt \in Seq(Seq(D)) /\ Len(tt) = Len(s) + 1
    BY <1>2, <2>1 DEF Gives
  <2>3. Append(ss, g[m]) \in Seq(Seq(D)) /\ Len(Append(ss, g[m])) = Len(s) + 1
    BY <1>1, AppendProperties DEF Gives
  <2>4. ASSUME NEW i \in 1..(Len(s) + 1) PROVE tt[i] = Append(ss, g[m])[i]
    <3>1. CASE i = Len(s) + 1
      BY <1>1, <1>2, <2>1, <3>1, AppendProperties
    <3>2. CASE i # Len(s) + 1
      <4>1. i \in 1..Len(s)
        BY <1>2, <3>2
      <4>2. tt[i] = g[s[i]] /\ ss[i] = g[s[i]]
        BY <1>2, <2>1, <4>1
      <4> HIDE DEF ss, tt
      <4> QED BY <1>1, <4>1, <4>2, AppendProperties
    <3> QED BY <3>1, <3>2
  <2> HIDE DEF ss, tt
  <2> QED BY <2>2, <2>3, <2>4, SeqEqual
<1> HIDE DEF ss
<1> QED BY <1>1, <1>3, JoinedOneMore DEF Through, ss, Gives

\* Two sequences, one after the other, give what each gives.
LEMMA ThroughTwo ==
    ASSUME NEW M, NEW D, NEW g, Gives(g, M, D), NEW s \in Seq(M), NEW t \in Seq(M)
    PROVE  Through(s \o t, g) = Through(s, g) \o Through(t, g)
<1> DEFINE P == {u \in Seq(M) : Through(s \o u, g) = Through(s, g) \o Through(u, g)}
<1>0. \A u \in Seq(M) : Through(u, g) \in Seq(D)
  BY ThroughIsSeq
<1>1. <<>> \in P
  <2>1. s \o <<>> = s /\ Through(s, g) \o <<>> = Through(s, g)
    BY <1>0, ConcatEmptySeq
  <2>2. <<>> \in Seq(M)
    OBVIOUS
  <2> QED BY <2>1, <2>2, ThroughNothing
<1>2. ASSUME NEW u \in Seq(M), NEW m \in M, u \in P PROVE Append(u, m) \in P
  <2> DEFINE v == s \o u
             x == Through(s, g)
             y == Through(u, g)
             z == g[m]
  <2>1. s \o Append(u, m) = Append(v, m)
    <3>1. <<m>> \in Seq(M) /\ s \o u \in Seq(M)
      BY ConcatProperties
    <3> QED BY <3>1, AppendIsConcat, ConcatAssociative
  <2>2. v \in Seq(M) /\ Append(u, m) \in Seq(M)
    BY ConcatProperties
  <2>3. Through(v, g) = x \o y /\ x \in Seq(D) /\ y \in Seq(D) /\ z \in Seq(D)
    BY <1>0, <1>2 DEF Gives
  <2> HIDE DEF v, x, P
  <2>4. Through(Append(v, m), g) = Through(v, g) \o g[m]
    BY <2>2, ThroughOneMore
  <2>5. Through(Append(u, m), g) = Through(u, g) \o g[m]
    BY ThroughOneMore
  <2> HIDE DEF y, z
  <2>6. (x \o y) \o z = x \o (y \o z)
    BY <2>3, ConcatAssociative
  <2>7. Through(s \o Append(u, m), g) = Through(s, g) \o Through(Append(u, m), g)
    BY <2>1, <2>3, <2>4, <2>5, <2>6 DEF x, y, z
  <2> QED BY <2>2, <2>7 DEF P
<1>3. \A u \in Seq(M) : u \in P
  <2> HIDE DEF P
  <2> QED BY <1>1, <1>2, ByAppending
<1> QED BY <1>3

\* Two passes are one.
LEMMA ThroughTwice ==
    ASSUME NEW M, NEW D, NEW g, Gives(g, M, D),
           NEW E, NEW h, Gives(h, D, E),
           NEW k, \A m \in M : k[m] = Through(g[m], h),
           NEW s \in Seq(M)
    PROVE  Through(Through(s, g), h) = Through(s, k)
<1> DEFINE P == {u \in Seq(M) : Through(Through(u, g), h) = Through(u, k)}
<1>1. <<>> \in P
  BY ThroughNothing
<1>2. ASSUME NEW u \in Seq(M), NEW m \in M, u \in P PROVE Append(u, m) \in P
  <2>1. Through(u, g) \in Seq(D)
    BY ThroughIsSeq
  <2>2. Gives(k, M, E)
    <3> SUFFICES ASSUME NEW n \in M PROVE k[n] \in Seq(E)
      BY DEF Gives
    <3>1. g[n] \in Seq(D)
      BY DEF Gives
    <3>2. Through(g[n], h) \in Seq(E)
      BY <3>1, ThroughIsSeq
    <3> QED BY <3>2
  <2>3. Through(Append(u, m), g) = Through(u, g) \o g[m]
    BY ThroughOneMore
  <2>4. Through(Append(u, m), k) = Through(u, k) \o k[m]
    BY <2>2, ThroughOneMore
  <2>5. Through(Through(u, g) \o g[m], h) = Through(Through(u, g), h) \o Through(g[m], h)
    <3> DEFINE x == Through(u, g)
               y == g[m]
    <3>1. x \in Seq(D) /\ y \in Seq(D)
      BY <2>1 DEF Gives
    <3> HIDE DEF x, y
    <3>2. Through(x \o y, h) = Through(x, h) \o Through(y, h)
      BY <3>1, ThroughTwo
    <3> QED BY <3>2 DEF x, y
  <2>6. Through(Through(u, g), h) = Through(u, k)
    BY <1>2
  <2>7. k[m] = Through(g[m], h) /\ Append(u, m) \in Seq(M)
    OBVIOUS
  <2> QED BY <2>3, <2>4, <2>5, <2>6, <2>7
<1>3. \A u \in Seq(M) : u \in P
  <2> HIDE DEF P
  <2> QED BY <1>1, <1>2, ByAppending
<1> QED BY <1>3

-----------------------------------------------------------------------------
(* The messages of Claude, and how they are merged.                        *)

\* The blocks of Claude. A blank text has number 0, everything else was said.
BlockTypes == {"text", "thinking", "tool_use", "tool_result"}
ContentBlocks == [type : BlockTypes, id : Nat]
Numbers == Nat \ {0}

\* What a block gives to those who read one type.
IdOf(type) == [b \in ContentBlocks |-> IF b.type = type /\ b.id # 0 THEN <<b.id>> ELSE <<>>]

\* It gives numbers of what was said.
LEMMA IdsAreGiven == \A type : Gives(IdOf(type), ContentBlocks, Numbers)
<1> SUFFICES ASSUME NEW type, NEW b \in ContentBlocks PROVE IdOf(type)[b] \in Seq(Numbers)
  BY DEF Gives
<1>1. IdOf(type)[b] = IF b.type = type /\ b.id # 0 THEN <<b.id>> ELSE <<>>
  BY DEF IdOf
<1>2. b.id \in Nat
  BY DEF ContentBlocks
<1>3. b.id # 0 => b.id \in Numbers
  BY <1>2 DEF Numbers
<1> HIDE DEF IdOf
<1> QED BY <1>1, <1>3

\* Reading a type is passing through the blocks.
LEMMA OfTypeIsThrough ==
    ASSUME NEW content \in Seq(ContentBlocks), NEW type
    PROVE  Talk!OfType(content, type) = Through(content, IdOf(type))
<1>1. ASSUME NEW i \in DOMAIN content
      PROVE  (IF content[i].type = type /\ content[i].id # Talk!Blank THEN <<content[i].id>> ELSE <<>>)
               = IdOf(type)[content[i]]
  <2>1. content[i] \in ContentBlocks
    BY LenProperties
  <2> QED BY <2>1 DEF IdOf, Talk!Blank
<1> QED BY <1>1 DEF Talk!OfType, Talk!Gathered, Through

\* What is read of a type are numbers of what was said.
LEMMA OfTypeIsSeq ==
    ASSUME NEW content \in Seq(ContentBlocks), NEW type
    PROVE  Talk!OfType(content, type) \in Seq(Numbers)
BY OfTypeIsThrough, IdsAreGiven, ThroughIsSeq

\* Content put together is read part by part.
LEMMA OfTypeTwo ==
    ASSUME NEW c \in Seq(ContentBlocks), NEW d \in Seq(ContentBlocks), NEW type
    PROVE  /\ c \o d \in Seq(ContentBlocks)
           /\ Talk!OfType(c \o d, type) = Talk!OfType(c, type) \o Talk!OfType(d, type)
<1>1. c \o d \in Seq(ContentBlocks)
  BY ConcatProperties
<1>2. Through(c \o d, IdOf(type)) = Through(c, IdOf(type)) \o Through(d, IdOf(type))
  BY IdsAreGiven, ThroughTwo
<1> QED BY <1>1, <1>2, OfTypeIsThrough

\* There is nothing to read in no content.
LEMMA OfNothing == \A type : Talk!OfType(<<>>, type) = <<>>
<1>1. <<>> \in Seq(ContentBlocks)
  OBVIOUS
<1> QED BY <1>1, OfTypeIsThrough, ThroughNothing

\* One block more.
LEMMA OfTypeOneMore ==
    ASSUME NEW c \in Seq(ContentBlocks), NEW b \in ContentBlocks, NEW type
    PROVE  Talk!OfType(Append(c, b), type)
             = IF b.type = type /\ b.id # 0 THEN Append(Talk!OfType(c, type), b.id)
               ELSE Talk!OfType(c, type)
<1>1. Append(c, b) \in Seq(ContentBlocks)
  OBVIOUS
<1>2. Through(Append(c, b), IdOf(type)) = Through(c, IdOf(type)) \o IdOf(type)[b]
  BY IdsAreGiven, ThroughOneMore
<1>3. IdOf(type)[b] = IF b.type = type /\ b.id # 0 THEN <<b.id>> ELSE <<>>
  BY DEF IdOf
<1>4. Through(c, IdOf(type)) \in Seq(Numbers)
  BY IdsAreGiven, ThroughIsSeq
<1>5. CASE b.type = type /\ b.id # 0
  <2>1. b.id \in Numbers
    BY <1>5 DEF ContentBlocks, Numbers
  <2>2. Through(c, IdOf(type)) \o <<b.id>> = Append(Through(c, IdOf(type)), b.id)
    BY <1>4, <2>1, AppendIsConcat
  <2> QED BY <1>1, <1>2, <1>3, <1>5, <2>2, OfTypeIsThrough
<1>6. CASE ~(b.type = type /\ b.id # 0)
  <2>1. Through(c, IdOf(type)) \o <<>> = Through(c, IdOf(type))
    BY <1>4, ConcatEmptySeq
  <2> QED BY <1>1, <1>2, <1>3, <1>6, <2>1, OfTypeIsThrough
<1> QED BY <1>5, <1>6

\* Blocks that are made of numbers give them back, and nothing else.
LEMMA BlocksGiveBack ==
    ASSUME NEW type \in BlockTypes, NEW s \in Seq(Numbers)
    PROVE  /\ Talk!Blocks(type, s) \in Seq(ContentBlocks)
           /\ \A t : Talk!OfType(Talk!Blocks(type, s), t) = IF t = type THEN s ELSE <<>>
<1> DEFINE Good(u) == /\ Talk!Blocks(type, u) \in Seq(ContentBlocks)
                      /\ \A t : Talk!OfType(Talk!Blocks(type, u), t) = IF t = type THEN u ELSE <<>>
           P == {u \in Seq(Numbers) : Good(u)}
<1>1. <<>> \in P
  <2>1. Talk!Blocks(type, <<>>) = <<>>
    BY DEF Talk!Blocks
  <2>2. <<>> \in Seq(ContentBlocks) /\ <<>> \in Seq(Numbers)
    OBVIOUS
  <2> QED BY <2>1, <2>2, OfNothing
<1>2. ASSUME NEW u \in Seq(Numbers), NEW n \in Numbers, u \in P PROVE Append(u, n) \in P
  <2> DEFINE b == Talk!Block(type, n)
             c == Talk!Blocks(type, u)
  <2>1. b \in ContentBlocks /\ b.type = type /\ b.id = n /\ n # 0
    BY DEF Talk!Block, ContentBlocks, Numbers
  <2>2. c \in Seq(ContentBlocks) /\ \A t : Talk!OfType(c, t) = IF t = type THEN u ELSE <<>>
    BY <1>2
  <2>3. Talk!Blocks(type, Append(u, n)) = Append(c, b)
    <3>1. Append(u, n) \in Seq(Numbers) /\ Len(Append(u, n)) = Len(u) + 1 /\ Len(u) \in Nat
      BY LenProperties, AppendProperties
    <3>2. DOMAIN u = 1..Len(u) /\ DOMAIN Append(u, n) = 1..(Len(u) + 1)
      BY <3>1, LenProperties
    <3> DEFINE x == Talk!Blocks(type, Append(u, n))
               y == Append(c, b)
    <3>3. /\ x = [i \in 1..(Len(u) + 1) |-> Talk!Block(type, Append(u, n)[i])]
          /\ c = [i \in 1..Len(u) |-> Talk!Block(type, u[i])]
      BY <3>2 DEF Talk!Blocks
    <3>4. Len(c) = Len(u)
      BY <3>1, <3>3
    <3>5. x \in Seq(ContentBlocks) /\ Len(x) = Len(u) + 1
      <4>1. \A i \in 1..(Len(u) + 1) : Append(u, n)[i] \in Nat
        BY <3>1, ElementOfSeq DEF Numbers
      <4>2. \A i \in 1..(Len(u) + 1) : Talk!Block(type, Append(u, n)[i]) \in ContentBlocks
        BY <4>1 DEF Talk!Block, ContentBlocks
      <4> QED BY <3>1, <3>3, <4>2
    <3>6. y \in Seq(ContentBlocks) /\ Len(y) = Len(u) + 1
      BY <2>1, <2>2, <3>4, AppendProperties
    <3>7. ASSUME NEW i \in 1..(Len(u) + 1) PROVE x[i] = y[i]
      <4>1. x[i] = Talk!Block(type, Append(u, n)[i])
        BY <3>3
      <4>2. CASE i = Len(u) + 1
        BY <2>2, <3>1, <3>4, <4>1, <4>2, AppendProperties
      <4>3. CASE i # Len(u) + 1
        <5>1. i \in 1..Len(u)
          BY <3>1, <4>3
        <5>2. c[i] = Talk!Block(type, u[i]) /\ Append(u, n)[i] = u[i]
          BY <3>3, <5>1, AppendProperties
        <5> HIDE DEF b, c, x
        <5> QED BY <2>1, <2>2, <3>4, <4>1, <5>1, <5>2, AppendProperties
      <4> QED BY <4>2, <4>3
    <3> HIDE DEF x, y
    <3>8. x = y
      BY <3>5, <3>6, <3>7, SeqEqual
    <3> QED BY <3>8 DEF x, y
  <2> HIDE DEF b, c
  <2>4. Append(c, b) \in Seq(ContentBlocks)
    BY <2>1, <2>2
  <2>5. \A t : Talk!OfType(Append(c, b), t) = IF t = type THEN Append(u, n) ELSE <<>>
    BY <2>1, <2>2, OfTypeOneMore
  <2>6. Append(u, n) \in Seq(Numbers)
    OBVIOUS
  <2> QED BY <2>3, <2>4, <2>5, <2>6
<1>3. \A u \in Seq(Numbers) : u \in P
  <2> HIDE DEF P
  <2> QED BY <1>1, <1>2, ByAppending
<1> QED BY <1>3

\* Nothing of a type that is not there.
LEMMA HasNot ==
    ASSUME NEW c \in Seq(ContentBlocks), NEW type, ~Talk!Has(c, type)
    PROVE  Talk!OfType(c, type) = <<>>
<1> DEFINE P == {d \in Seq(ContentBlocks) : ~Talk!Has(d, type) => Talk!OfType(d, type) = <<>>}
<1>1. <<>> \in P
  BY OfNothing, EmptySeq
<1>2. ASSUME NEW d \in Seq(ContentBlocks), NEW b \in ContentBlocks, d \in P
      PROVE  Append(d, b) \in P
  <2>1. Append(d, b) \in Seq(ContentBlocks)
    OBVIOUS
  <2>2. ASSUME ~Talk!Has(Append(d, b), type) PROVE Talk!OfType(Append(d, b), type) = <<>>
    <3>1. Len(d) + 1 \in DOMAIN Append(d, b) /\ Append(d, b)[Len(d) + 1] = b
      BY AppendProperties, LenProperties
    <3>2. b.type # type
      BY <2>2, <3>1 DEF Talk!Has
    <3>3. ~Talk!Has(d, type)
      <4>1. \A i \in DOMAIN d : i \in DOMAIN Append(d, b) /\ Append(d, b)[i] = d[i]
        BY AppendProperties, LenProperties
      <4> QED BY <2>2, <4>1 DEF Talk!Has
    <3>4. Talk!OfType(d, type) = <<>>
      BY <1>2, <3>3
    <3> QED BY <3>2, <3>4, OfTypeOneMore
  <2> QED BY <2>1, <2>2
<1>3. \A d \in Seq(ContentBlocks) : d \in P
  <2> HIDE DEF P
  <2> QED BY <1>1, <1>2, ByAppending
<1> QED BY <1>3

\* The roles of messages that are not of the system or of a tool, and such messages of Claude.
Speaking == Speakers \cup {"user", "assistant"}
ClaudeMessages == [role : Speaking, content : Seq(ContentBlocks)]

\* Only the assistant calls tools, and only others give their results.
Sane(m) == IF m.role = "assistant" THEN ~Talk!Has(m.content, "tool_result")
           ELSE ~Talk!Has(m.content, "tool_use")
\* The messages a conversation consists of.
SaneMessages == {m \in ClaudeMessages : Sane(m)}

\* A message with more content.
Longer(l, m) == [l EXCEPT !.content = @ \o m.content]

\* Such a message stays one when it grows by another of its role.
LEMMA LongerIsSane ==
    ASSUME NEW l \in SaneMessages, NEW m \in SaneMessages, l.role = m.role
    PROVE  /\ Longer(l, m) \in SaneMessages
           /\ Longer(l, m).role = l.role /\ Longer(l, m).content = l.content \o m.content
<1>1. l \in ClaudeMessages /\ m \in ClaudeMessages /\ Sane(l) /\ Sane(m)
  BY DEF SaneMessages
<1>2. l.content \in Seq(ContentBlocks) /\ m.content \in Seq(ContentBlocks)
  BY <1>1 DEF ClaudeMessages
<1>3. /\ l.content \o m.content \in Seq(ContentBlocks)
      /\ \A t : Talk!Has(l.content \o m.content, t) => Talk!Has(l.content, t) \/ Talk!Has(m.content, t)
  <2> DEFINE c == l.content
             d == m.content
  <2>1. c \in Seq(ContentBlocks) /\ d \in Seq(ContentBlocks)
    BY <1>2
  <2> HIDE DEF c, d
  <2>2. c \o d \in Seq(ContentBlocks)
    BY <2>1, ConcatProperties
  <2>3. ASSUME NEW t, Talk!Has(c \o d, t) PROVE Talk!Has(c, t) \/ Talk!Has(d, t)
    <3>1. PICK i \in DOMAIN (c \o d) : (c \o d)[i].type = t
      BY <2>3 DEF Talk!Has
    <3>2. i \in 1..(Len(c) + Len(d)) /\ Len(c) \in Nat /\ Len(d) \in Nat
      BY <2>1, <2>2, LenProperties, ConcatProperties
    <3>3. CASE i <= Len(c)
      <4>1. i \in DOMAIN c /\ (c \o d)[i] = c[i]
        BY <2>1, <3>2, <3>3, LenProperties, ConcatProperties
      <4> QED BY <3>1, <4>1 DEF Talk!Has
    <3>4. CASE ~(i <= Len(c))
      <4>1. i - Len(c) \in DOMAIN d /\ (c \o d)[i] = d[i - Len(c)]
        BY <2>1, <3>2, <3>4, LenProperties, ConcatProperties
      <4> QED BY <3>1, <4>1 DEF Talk!Has
    <3> QED BY <3>3, <3>4
  <2> QED BY <2>2, <2>3 DEF c, d
<1>4. Longer(l, m).role = l.role /\ Longer(l, m).content = l.content \o m.content
  BY <1>1 DEF Longer, ClaudeMessages
<1>5. Longer(l, m) \in ClaudeMessages
  BY <1>1, <1>3 DEF Longer, ClaudeMessages
<1>6. Sane(Longer(l, m))
  BY <1>1, <1>3, <1>4 DEF Sane
<1> QED BY <1>4, <1>5, <1>6 DEF SaneMessages

\* A message joins the last one, or comes after it.
LEMMA ExtendedIs ==
    ASSUME NEW s \in Seq(SaneMessages), NEW m \in SaneMessages
    PROVE  /\ s = <<>> => Talk!Extended(s, m) = Append(s, m)
           /\ \A t \in Seq(SaneMessages), l \in SaneMessages : s = Append(t, l) =>
                 Talk!Extended(s, m) = IF l.role = m.role THEN Append(t, Longer(l, m))
                                       ELSE Append(s, m)
           /\ Talk!Extended(s, m) \in Seq(SaneMessages)
<1>1. s = <<>> => Talk!Extended(s, m) = Append(s, m)
  BY DEF Talk!Extended
<1>2. ASSUME NEW t \in Seq(SaneMessages), NEW l \in SaneMessages, s = Append(t, l)
      PROVE  /\ Talk!Extended(s, m) = IF l.role = m.role THEN Append(t, Longer(l, m))
                                       ELSE Append(s, m)
             /\ Talk!Extended(s, m) \in Seq(SaneMessages)
  <2>1. s # <<>> /\ Len(s) = Len(t) + 1 /\ s[Len(t) + 1] = l /\ Len(t) \in Nat
        /\ \A i \in 1..Len(t) : s[i] = t[i]
    BY <1>2, AppendProperties, LenProperties
  <2>2. Talk!Last(s) = l
    BY <2>1 DEF Talk!Last
  <2>3. CASE l.role # m.role
    BY <2>1, <2>2, <2>3, AppendProperties DEF Talk!Extended
  <2>4. CASE l.role = m.role
    <3>1. Longer(l, m) \in SaneMessages
      BY <2>4, LongerIsSane
    <3>2. Talk!Extended(s, m) = [s EXCEPT ![Len(s)] = Longer(l, m)]
      BY <2>1, <2>2, <2>4 DEF Talk!Extended, Longer
    <3> DEFINE x == [s EXCEPT ![Len(s)] = Longer(l, m)]
               y == Append(t, Longer(l, m))
    <3>3. x \in Seq(SaneMessages) /\ Len(x) = Len(t) + 1
          /\ \A j \in 1..(Len(t) + 1) : x[j] = IF j = Len(t) + 1 THEN Longer(l, m) ELSE s[j]
      BY <2>1, <3>1, ExceptSeq
    <3>4. y \in Seq(SaneMessages) /\ Len(y) = Len(t) + 1
          /\ y[Len(t) + 1] = Longer(l, m) /\ \A j \in 1..Len(t) : y[j] = t[j]
      BY <3>1, AppendProperties
    <3> HIDE DEF x, y
    <3>5. ASSUME NEW j \in 1..(Len(t) + 1) PROVE x[j] = y[j]
      <4>1. j = Len(t) + 1 \/ j \in 1..Len(t)
        BY <2>1
      <4> QED BY <2>1, <3>3, <3>4, <4>1
    <3>6. x = y
      BY <3>3, <3>4, <3>5, SeqEqual
    <3> QED BY <2>4, <3>2, <3>3, <3>6 DEF x, y
  <2> QED BY <2>3, <2>4
<1>3. Talk!Extended(s, m) \in Seq(SaneMessages)
  <2>1. CASE s = <<>>
    BY <1>1, <2>1, AppendProperties
  <2>2. CASE s # <<>>
    BY <1>2, <2>2, SequenceEmptyOrAppend
  <2> QED BY <2>1, <2>2
<1> QED BY <1>1, <1>2, <1>3

\* What comes next joins the last message if it has its role.
LEMMA ExtendedLast ==
    ASSUME NEW t \in Seq(SaneMessages), NEW l \in SaneMessages, NEW m \in SaneMessages
    PROVE  Talk!Extended(Append(t, l), m) = IF l.role = m.role THEN Append(t, Longer(l, m))
                                            ELSE Append(Append(t, l), m)
<1>1. Append(t, l) \in Seq(SaneMessages)
  OBVIOUS
<1> DEFINE s == Append(t, l)
<1>2. s \in Seq(SaneMessages) /\ s = Append(t, l)
  BY <1>1
<1> HIDE DEF s
<1>3. \A u \in Seq(SaneMessages), k \in SaneMessages : s = Append(u, k) =>
         Talk!Extended(s, m) = IF k.role = m.role THEN Append(u, Longer(k, m)) ELSE Append(s, m)
  BY <1>2, ExtendedIs
<1>4. Talk!Extended(s, m) = IF l.role = m.role THEN Append(t, Longer(l, m)) ELSE Append(s, m)
  BY <1>2, <1>3
<1> QED BY <1>4 DEF s

\* Merging: the definition, unfolded.
LEMMA MergedSteps ==
    ASSUME NEW s \in Seq(SaneMessages)
    PROVE  \E f : /\ f \in [0..Len(s) -> Seq(SaneMessages)]
                  /\ f[0] = <<>> /\ \A k \in 1..Len(s) : f[k] = Talk!Extended(f[k - 1], s[k])
                  /\ Talk!Merged(s) = f[Len(s)]
<1> DEFINE Row(f, k) == IF k = 0 THEN <<>> ELSE Talk!Extended(f[k - 1], s[k])
           Solves(f) == f = [k \in 0..Len(s) |-> Row(f, k)]
           F == CHOOSE f : f = [k \in 0..Len(s) |-> IF k = 0 THEN <<>>
                                                    ELSE Talk!Extended(f[k - 1], s[k])]
           G == [k \in 1..Len(s) |-> [t \in Seq(SaneMessages) |-> Talk!Extended(t, s[k])]]
<1>1. Len(s) \in Nat /\ \A k \in 1..Len(s) : s[k] \in SaneMessages
  BY LenProperties
<1>2. \A k \in 1..Len(s) : G[k] \in [Seq(SaneMessages) -> Seq(SaneMessages)]
  BY <1>1, ExtendedIs
<1>3. PICK f : Stepwise(f, Len(s), Seq(SaneMessages), <<>>, G)
  <2>1. <<>> \in Seq(SaneMessages)
    OBVIOUS
  <2> HIDE DEF G, F
  <2> QED BY <1>1, <1>2, <2>1, StepByStep
<1>4. ASSUME NEW k \in 1..Len(s) PROVE f[k] = Talk!Extended(f[k - 1], s[k])
  <2>1. k - 1 \in 0..Len(s)
    BY <1>1
  <2>2. f[k - 1] \in Seq(SaneMessages)
    <3> HIDE DEF F, G
    <3> QED BY <1>3, <2>1 DEF Stepwise
  <2>3. G[k][f[k - 1]] = Talk!Extended(f[k - 1], s[k])
    BY <2>2
  <2> HIDE DEF F, G
  <2> QED BY <1>3, <2>3 DEF Stepwise
<1> HIDE DEF G
<1>5. Solves(f)
  <2>1. f = [k \in 0..Len(s) |-> f[k]]
    BY <1>3 DEF Stepwise
  <2>2. ASSUME NEW k \in 0..Len(s) PROVE f[k] = Row(f, k)
    <3>1. CASE k = 0
      BY <1>3, <3>1 DEF Stepwise
    <3>2. CASE k # 0
      <4>1. k \in 1..Len(s)
        BY <3>2
      <4> QED BY <1>4, <3>2, <4>1
    <3> QED BY <3>1, <3>2
  <2> HIDE DEF Row
  <2> QED BY <2>1, <2>2
<1>6. Solves(F)
  BY <1>5
<1>7. Talk!Merged(s) = F[Len(s)]
  BY DEF Talk!Merged
<1> HIDE DEF F
<1>8. ASSUME NEW k \in 0..Len(s) PROVE F[k] = Row(F, k)
  <2> HIDE DEF Row
  <2> QED BY <1>6
<1>9. F = f
  <2> DEFINE P == {k \in 0..Len(s) : F[k] = f[k]}
  <2>1. 0 \in P
    <3>1. 0 \in 0..Len(s)
      BY <1>1
    <3> QED BY <1>3, <1>8, <3>1 DEF Stepwise
  <2>2. ASSUME NEW k \in 1..Len(s), k - 1 \in P PROVE k \in P
    <3>1. k \in 0..Len(s) /\ k # 0
      BY <1>1
    <3>2. F[k] = Talk!Extended(F[k - 1], s[k])
      BY <1>8, <3>1
    <3> QED BY <1>4, <2>2, <3>1, <3>2
  <2>3. \A k \in 0..Len(s) : k \in P
    <3> HIDE DEF P
    <3> QED BY <1>1, <2>1, <2>2, ByCounting
  <2>4. F = [k \in 0..Len(s) |-> F[k]]
    <3> HIDE DEF Row
    <3> QED BY <1>6
  <2> QED BY <1>3, <2>3, <2>4 DEF Stepwise
<1> QED BY <1>3, <1>4, <1>7, <1>9 DEF Stepwise

\* Merging nothing and merging one message more, the function in Merged unfolded.
LEMMA MergedNothing == Talk!Merged(<<>>) = <<>>
<1>1. <<>> \in Seq(SaneMessages)
  OBVIOUS
<1> QED BY <1>1, MergedSteps, EmptySeq

\* Merging goes message by message.
LEMMA MergedOneMore ==
    ASSUME NEW s \in Seq(SaneMessages), NEW m \in SaneMessages
    PROVE  /\ Talk!Merged(Append(s, m)) = Talk!Extended(Talk!Merged(s), m)
           /\ Talk!Merged(s) \in Seq(SaneMessages)
<1> DEFINE t == Append(s, m)
<1>1. /\ t \in Seq(SaneMessages) /\ Len(t) = Len(s) + 1 /\ Len(s) \in Nat
      /\ \A i \in 1..Len(s) : t[i] = s[i]
      /\ t[Len(s) + 1] = m
  BY AppendProperties, LenProperties
<1>2. PICK f : /\ f \in [0..Len(s) -> Seq(SaneMessages)]
               /\ f[0] = <<>> /\ \A k \in 1..Len(s) : f[k] = Talk!Extended(f[k - 1], s[k])
               /\ Talk!Merged(s) = f[Len(s)]
  BY MergedSteps
<1> HIDE DEF t
<1>3. PICK g : /\ g \in [0..Len(t) -> Seq(SaneMessages)]
               /\ g[0] = <<>> /\ \A k \in 1..Len(t) : g[k] = Talk!Extended(g[k - 1], t[k])
               /\ Talk!Merged(t) = g[Len(t)]
  BY <1>1, MergedSteps
<1>4. f[Len(s)] = g[Len(s)]
  <2> DEFINE P == {k \in 0..Len(s) : f[k] = g[k]}
  <2>1. 0 \in P
    BY <1>1, <1>2, <1>3
  <2>2. ASSUME NEW k \in 1..Len(s), k - 1 \in P PROVE k \in P
    <3>1. k \in 1..Len(t) /\ t[k] = s[k]
      BY <1>1
    <3>2. f[k] = Talk!Extended(f[k - 1], s[k]) /\ g[k] = Talk!Extended(g[k - 1], t[k])
      BY <1>2, <1>3, <3>1
    <3>3. k \in 0..Len(s)
      BY <1>1
    <3> QED BY <2>2, <3>1, <3>2, <3>3
  <2>3. \A k \in 0..Len(s) : k \in P
    <3> HIDE DEF P
    <3> QED BY <1>1, <2>1, <2>2, ByCounting
  <2> QED BY <1>1, <2>3
<1>5. g[Len(t)] = Talk!Extended(g[Len(s)], m)
  <2>1. Len(t) \in 1..Len(t) /\ Len(t) - 1 = Len(s)
    BY <1>1
  <2> QED BY <1>1, <1>3, <2>1
<1> QED BY <1>1, <1>2, <1>3, <1>4, <1>5 DEF t

\* What is read of a longer message is what is read of its parts.
AddsUp(g) == \A l, m \in SaneMessages : l.role = m.role => g[Longer(l, m)] = g[l] \o g[m]

\* Merged messages say what they said apart.
LEMMA MergedKeeps ==
    ASSUME NEW D, NEW g, Gives(g, SaneMessages, D), AddsUp(g), NEW s \in Seq(SaneMessages)
    PROVE  /\ Talk!Merged(s) \in Seq(SaneMessages)
           /\ Through(Talk!Merged(s), g) = Through(s, g)
<1> DEFINE P == {u \in Seq(SaneMessages) : /\ Talk!Merged(u) \in Seq(SaneMessages)
                                           /\ Through(Talk!Merged(u), g) = Through(u, g)}
<1>1. <<>> \in P
  <2>1. <<>> \in Seq(SaneMessages)
    OBVIOUS
  <2> QED BY <2>1, MergedNothing
<1>2. ASSUME NEW u \in Seq(SaneMessages), NEW m \in SaneMessages, u \in P
      PROVE  Append(u, m) \in P
  <2> DEFINE v == Talk!Merged(u)
  <2>1. v \in Seq(SaneMessages) /\ Talk!Merged(Append(u, m)) = Talk!Extended(v, m)
    BY MergedOneMore
  <2>2. Through(v, g) = Through(u, g)
    BY <1>2
  <2>3. Through(Append(u, m), g) = Through(u, g) \o g[m]
    BY ThroughOneMore
  <2> HIDE DEF v, P
  <2>4. Through(Talk!Extended(v, m), g) = Through(v, g) \o g[m]
    <3>1. CASE Talk!Extended(v, m) = Append(v, m)
      BY <2>1, <3>1, ThroughOneMore
    <3>2. CASE Talk!Extended(v, m) # Append(v, m)
      <4>1. v # <<>>
        BY <2>1, <3>2, ExtendedIs
      <4>2. PICK t \in Seq(SaneMessages), l \in SaneMessages : v = Append(t, l)
        BY <2>1, <4>1, SequenceEmptyOrAppend
      <4>3. l.role = m.role /\ Talk!Extended(v, m) = Append(t, Longer(l, m))
        <5>1. Talk!Extended(v, m) = IF l.role = m.role THEN Append(t, Longer(l, m))
                                    ELSE Append(v, m)
          BY <2>1, <4>2, ExtendedLast
        <5> QED BY <3>2, <5>1
      <4>4. Longer(l, m) \in SaneMessages
        BY <4>3, LongerIsSane
      <4>5. Through(Append(t, Longer(l, m)), g) = Through(t, g) \o g[Longer(l, m)]
        BY <4>4, ThroughOneMore
      <4>6. Through(v, g) = Through(t, g) \o g[l]
        BY <4>2, ThroughOneMore
      <4>7. g[Longer(l, m)] = g[l] \o g[m]
        BY <4>3 DEF AddsUp
      <4> DEFINE x == Through(t, g)
                 y == g[l]
                 z == g[m]
      <4>8. x \in Seq(D) /\ y \in Seq(D) /\ z \in Seq(D)
        BY ThroughIsSeq DEF Gives
      <4> HIDE DEF x, y, z
      <4>9. (x \o y) \o z = x \o (y \o z)
        <5>1. \A p, q, r \in Seq(D) : (p \o q) \o r = p \o (q \o r)
          BY ConcatAssociative
        <5> QED BY <4>8, <5>1
      <4> QED BY <4>3, <4>5, <4>6, <4>7, <4>9 DEF x, y, z
    <3> QED BY <3>1, <3>2
  <2>5. Talk!Extended(v, m) \in Seq(SaneMessages) /\ Append(u, m) \in Seq(SaneMessages)
    BY <2>1, ExtendedIs
  <2> QED BY <2>1, <2>2, <2>3, <2>4, <2>5 DEF P
<1>3. \A u \in Seq(SaneMessages) : u \in P
  <2> HIDE DEF P
  <2> QED BY <1>1, <1>2, ByAppending
<1> QED BY <1>3

\* What the blocks of a message say.
ContentOf(type) == [m \in SaneMessages |-> Talk!OfType(m.content, type)]

\* That adds up.
LEMMA ContentIsGiven ==
    ASSUME NEW type
    PROVE  Gives(ContentOf(type), SaneMessages, Numbers) /\ AddsUp(ContentOf(type))
<1>1. ASSUME NEW m \in SaneMessages
      PROVE  m.content \in Seq(ContentBlocks) /\ ContentOf(type)[m] = Talk!OfType(m.content, type)
  BY DEF SaneMessages, ClaudeMessages, ContentOf
<1>2. Gives(ContentOf(type), SaneMessages, Numbers)
  BY <1>1, OfTypeIsSeq DEF Gives
<1>3. ASSUME NEW l \in SaneMessages, NEW m \in SaneMessages, l.role = m.role
      PROVE  ContentOf(type)[Longer(l, m)] = ContentOf(type)[l] \o ContentOf(type)[m]
  <2>1. Longer(l, m) \in SaneMessages /\ Longer(l, m).content = l.content \o m.content
    BY <1>3, LongerIsSane
  <2>2. Talk!OfType(l.content \o m.content, type)
          = Talk!OfType(l.content, type) \o Talk!OfType(m.content, type)
    BY <1>1, OfTypeTwo
  <2> QED BY <1>1, <2>1, <2>2
<1> QED BY <1>2, <1>3 DEF AddsUp

-----------------------------------------------------------------------------
\* The messages of OpenAI: only the assistant calls tools, a tool says nothing but its result.
FlatMessages ==
    {m \in [role : Speaking \cup {"system", "tool"}, texts : Seq(Numbers),
            reasoning : Seq(Numbers), calls : Seq(Numbers), answers : Int] :
        /\ m.role # "assistant" => m.calls = <<>>
        /\ m.role = "tool" => m.texts = <<>> /\ m.answers \in Numbers}

\* What is read in a message of OpenAI.
FlatSystem == [m \in FlatMessages |-> IF m.role = "system" THEN m.texts ELSE <<>>]
FlatTexts == [m \in FlatMessages |-> IF m.role = "system" THEN <<>> ELSE m.texts]
FlatThoughts == [m \in FlatMessages |-> m.reasoning]
FlatCalls == [m \in FlatMessages |-> m.calls]
FlatResults == [m \in FlatMessages |-> IF m.role = "tool" THEN <<m.answers>> ELSE <<>>]

\* Those are numbers of what was said.
LEMMA FlatIsGiven ==
    /\ Gives(FlatSystem, FlatMessages, Numbers) /\ Gives(FlatTexts, FlatMessages, Numbers)
    /\ Gives(FlatThoughts, FlatMessages, Numbers) /\ Gives(FlatCalls, FlatMessages, Numbers)
    /\ Gives(FlatResults, FlatMessages, Numbers)
<1>1. ASSUME NEW m \in FlatMessages
      PROVE  /\ m.texts \in Seq(Numbers) /\ m.reasoning \in Seq(Numbers)
             /\ m.calls \in Seq(Numbers) /\ <<>> \in Seq(Numbers)
             /\ m.role = "tool" => <<m.answers>> \in Seq(Numbers)
  BY DEF FlatMessages
<1> QED BY <1>1 DEF Gives, FlatSystem, FlatTexts, FlatThoughts, FlatCalls, FlatResults

\* One element gives what it gives.
LEMMA ThroughOne ==
    ASSUME NEW M, NEW D, NEW g, Gives(g, M, D), NEW m \in M
    PROVE  <<m>> \in Seq(M) /\ Through(<<m>>, g) = g[m]
<1>1. <<>> \in Seq(M) /\ Append(<<>>, m) = <<m>> /\ <<m>> \in Seq(M)
  OBVIOUS
<1>2. Through(Append(<<>>, m), g) = Through(<<>>, g) \o g[m]
  BY <1>1, ThroughOneMore
<1>3. <<>> \o g[m] = g[m]
  BY ConcatEmptySeq DEF Gives
<1> QED BY <1>1, <1>2, <1>3, ThroughNothing

\* A block by itself.
LEMMA OneBlock ==
    ASSUME NEW b \in ContentBlocks, NEW type
    PROVE  /\ <<b>> \in Seq(ContentBlocks)
           /\ Talk!OfType(<<b>>, type) = IF b.type = type /\ b.id # 0 THEN <<b.id>> ELSE <<>>
<1>1. Through(<<b>>, IdOf(type)) = IdOf(type)[b] /\ <<b>> \in Seq(ContentBlocks)
  BY IdsAreGiven, ThroughOne
<1> QED BY <1>1, OfTypeIsThrough DEF IdOf
-----------------------------------------------------------------------------
(* OpenAI to Claude.                                                       *)

\* A message that becomes a turn says in blocks what it said.
LEMMA TurnReads ==
    ASSUME NEW m \in FlatMessages, m.role # "system"
    PROVE  /\ Talk!Turn(m) \in SaneMessages
           /\ Talk!Turn(m).role = IF m.role = "tool" THEN "user" ELSE m.role
           /\ Talk!OfType(Talk!Turn(m).content, "text") = FlatTexts[m]
           /\ Talk!OfType(Talk!Turn(m).content, "tool_use") = FlatCalls[m]
           /\ Talk!OfType(Talk!Turn(m).content, "tool_result") = FlatResults[m]
<1>0. /\ m.texts \in Seq(Numbers) /\ m.calls \in Seq(Numbers)
      /\ m.role \in Speaking \cup {"system", "tool"}
      /\ m.role # "assistant" => m.calls = <<>>
      /\ m.role = "tool" => m.texts = <<>> /\ m.answers \in Numbers
      /\ FlatTexts[m] = m.texts /\ FlatCalls[m] = m.calls
      /\ FlatResults[m] = IF m.role = "tool" THEN <<m.answers>> ELSE <<>>
  BY DEF FlatMessages, FlatTexts, FlatCalls, FlatResults
<1> DEFINE c == Talk!BlocksOf(m)
<1>1. Talk!Turn(m) = [role |-> IF m.role = "tool" THEN "user" ELSE m.role, content |-> c]
  BY DEF Talk!Turn
<1>2. CASE m.role = "tool"
  <2> DEFINE b == Talk!Block("tool_result", m.answers)
  <2>1. b \in ContentBlocks /\ b.type = "tool_result" /\ b.id = m.answers /\ m.answers # 0
    BY <1>0, <1>2 DEF Talk!Block, ContentBlocks, BlockTypes, Numbers
  <2>2. c = <<b>>
    BY <1>2 DEF Talk!BlocksOf
  <2> HIDE DEF b, c
  <2>3. /\ c \in Seq(ContentBlocks)
        /\ Talk!OfType(c, "text") = <<>> /\ Talk!OfType(c, "tool_use") = <<>>
        /\ Talk!OfType(c, "tool_result") = <<m.answers>>
    BY <2>1, <2>2, OneBlock
  <2>4. ~Talk!Has(c, "tool_use")
    BY <2>1, <2>2 DEF Talk!Has
  <2>5. Talk!Turn(m) \in SaneMessages
    BY <1>1, <1>2, <2>3, <2>4 DEF SaneMessages, ClaudeMessages, Sane, Speaking
  <2> QED BY <1>0, <1>1, <1>2, <2>3, <2>5
<1>3. CASE m.role # "tool"
  <2> DEFINE d == Talk!Blocks("text", m.texts)
             e == Talk!Blocks("tool_use", m.calls)
  <2>1. c = d \o e
    BY <1>3 DEF Talk!BlocksOf
  <2>2. /\ d \in Seq(ContentBlocks) /\ e \in Seq(ContentBlocks)
        /\ \A t : Talk!OfType(d, t) = IF t = "text" THEN m.texts ELSE <<>>
        /\ \A t : Talk!OfType(e, t) = IF t = "tool_use" THEN m.calls ELSE <<>>
    BY <1>0, BlocksGiveBack DEF BlockTypes
  <2>3. /\ \A i \in DOMAIN d : d[i].type = "text"
        /\ \A i \in DOMAIN e : e[i].type = "tool_use"
    BY DEF Talk!Blocks, Talk!Block
  <2>4. m.calls = <<>> => e = <<>>
    BY DEF Talk!Blocks
  <2> HIDE DEF c, d, e
  <2>5. c \in Seq(ContentBlocks)
        /\ \A t : Talk!OfType(c, t) = Talk!OfType(d, t) \o Talk!OfType(e, t)
    BY <2>1, <2>2, OfTypeTwo
  <2>6. /\ Talk!OfType(c, "text") = m.texts /\ Talk!OfType(c, "tool_use") = m.calls
        /\ Talk!OfType(c, "tool_result") = <<>>
    <3>1. /\ Talk!OfType(c, "text") = m.texts \o <<>>
          /\ Talk!OfType(c, "tool_use") = <<>> \o m.calls
          /\ Talk!OfType(c, "tool_result") = <<>> \o <<>>
      BY <2>2, <2>5
    <3> QED BY <1>0, <3>1, ConcatEmptySeq
  <2>7. \A i \in DOMAIN c : c[i].type = "text" \/ (c[i].type = "tool_use" /\ e # <<>>)
    <3> SUFFICES ASSUME NEW i \in DOMAIN c
                 PROVE  c[i].type = "text" \/ (c[i].type = "tool_use" /\ e # <<>>)
      OBVIOUS
    <3>1. i \in 1..(Len(d) + Len(e)) /\ Len(d) \in Nat /\ Len(e) \in Nat
      BY <2>1, <2>2, <2>5, LenProperties, ConcatProperties
    <3>2. CASE i <= Len(d)
      <4>1. c[i] = d[i] /\ i \in DOMAIN d
        BY <2>1, <2>2, <3>1, <3>2, ConcatProperties, LenProperties
      <4> QED BY <2>3, <4>1
    <3>3. CASE ~(i <= Len(d))
      <4>1. c[i] = e[i - Len(d)] /\ i - Len(d) \in DOMAIN e /\ Len(e) # 0
        BY <2>1, <2>2, <3>1, <3>3, ConcatProperties, LenProperties
      <4> QED BY <2>3, <4>1
    <3> QED BY <3>2, <3>3
  <2>8. ~Talk!Has(c, "tool_result") /\ (m.role # "assistant" => ~Talk!Has(c, "tool_use"))
    BY <1>0, <2>4, <2>7 DEF Talk!Has
  <2>9. Talk!Turn(m) \in SaneMessages
    BY <1>0, <1>1, <1>3, <2>5, <2>8 DEF SaneMessages, ClaudeMessages, Sane
  <2> QED BY <1>0, <1>1, <1>3, <2>6, <2>9
<1> QED BY <1>2, <1>3

\* The turn of a message; those of the system have none.
Turned == [m \in FlatMessages |-> IF m.role = "system" THEN <<>> ELSE <<Talk!Turn(m)>>]

\* The turns that are to be merged.
LEMMA PendingIsThrough ==
    ASSUME NEW s \in Seq(FlatMessages)
    PROVE  /\ Talk!Pending(s) = Through(s, Turned)
           /\ Gives(Turned, FlatMessages, SaneMessages)
           /\ Talk!Pending(s) \in Seq(SaneMessages)
<1>1. Gives(Turned, FlatMessages, SaneMessages)
  <2> SUFFICES ASSUME NEW m \in FlatMessages PROVE Turned[m] \in Seq(SaneMessages)
    BY DEF Gives
  <2>1. m.role # "system" => <<Talk!Turn(m)>> \in Seq(SaneMessages)
    BY TurnReads
  <2> QED BY <2>1 DEF Turned
<1>2. ASSUME NEW i \in DOMAIN s
      PROVE  (IF s[i].role = "system" THEN <<>> ELSE <<Talk!Turn(s[i])>>) = Turned[s[i]]
  <2>1. s[i] \in FlatMessages
    BY LenProperties
  <2> QED BY <2>1 DEF Turned
<1>3. Talk!Pending(s) = Through(s, Turned)
  BY <1>2 DEF Talk!Pending, Talk!Gathered, Through
<1> QED BY <1>1, <1>3, ThroughIsSeq

\* They say what the messages say.
LEMMA PendingKeeps ==
    ASSUME NEW s \in Seq(FlatMessages)
    PROVE  /\ Through(Talk!Pending(s), ContentOf("text")) = Through(s, FlatTexts)
           /\ Through(Talk!Pending(s), ContentOf("tool_use")) = Through(s, FlatCalls)
           /\ Through(Talk!Pending(s), ContentOf("tool_result")) = Through(s, FlatResults)
<1>1. ASSUME NEW m \in FlatMessages, NEW type
      PROVE  Through(Turned[m], ContentOf(type))
               = IF m.role = "system" THEN <<>> ELSE Talk!OfType(Talk!Turn(m).content, type)
  <2>1. CASE m.role = "system"
    BY <2>1, ThroughNothing DEF Turned
  <2>2. CASE m.role # "system"
    <3>1. Talk!Turn(m) \in SaneMessages /\ Turned[m] = <<Talk!Turn(m)>>
      BY <2>2, TurnReads DEF Turned
    <3>2. Gives(ContentOf(type), SaneMessages, Numbers)
      BY ContentIsGiven
    <3>3. Through(<<Talk!Turn(m)>>, ContentOf(type)) = ContentOf(type)[Talk!Turn(m)]
      BY <3>1, <3>2, ThroughOne
    <3> QED BY <2>2, <3>1, <3>3 DEF ContentOf
  <2> QED BY <2>1, <2>2
<1>2. ASSUME NEW m \in FlatMessages
      PROVE  /\ FlatTexts[m] = Through(Turned[m], ContentOf("text"))
             /\ FlatCalls[m] = Through(Turned[m], ContentOf("tool_use"))
             /\ FlatResults[m] = Through(Turned[m], ContentOf("tool_result"))
  <2>1. CASE m.role = "system"
    <3>1. FlatTexts[m] = <<>> /\ FlatCalls[m] = <<>> /\ FlatResults[m] = <<>>
      BY <2>1 DEF FlatTexts, FlatCalls, FlatResults, FlatMessages
    <3> QED BY <1>1, <2>1, <3>1
  <2>2. CASE m.role # "system"
    BY <1>1, <2>2, TurnReads
  <2> QED BY <2>1, <2>2
<1>3. \A type : Gives(ContentOf(type), SaneMessages, Numbers)
  BY ContentIsGiven
<1>4. Gives(Turned, FlatMessages, SaneMessages) /\ Talk!Pending(s) = Through(s, Turned)
  BY PendingIsThrough
<1>5. Through(Through(s, Turned), ContentOf("text")) = Through(s, FlatTexts)
  BY <1>2, <1>3, <1>4, ThroughTwice
<1>6. Through(Through(s, Turned), ContentOf("tool_use")) = Through(s, FlatCalls)
  BY <1>2, <1>3, <1>4, ThroughTwice
<1>7. Through(Through(s, Turned), ContentOf("tool_result")) = Through(s, FlatResults)
  BY <1>2, <1>3, <1>4, ThroughTwice
<1> QED BY <1>4, <1>5, <1>6, <1>7

\* A placeholder before the first turn says nothing.
LEMMA BegunKeeps ==
    ASSUME NEW s \in Seq(SaneMessages), NEW type
    PROVE  /\ Talk!Begun(s) \in Seq(SaneMessages)
           /\ Through(Talk!Begun(s), ContentOf(type)) = Through(s, ContentOf(type))
<1> DEFINE p == Talk!Placeholder
           b == Talk!Block("text", Talk!Blank)
<1>1. b \in ContentBlocks /\ b.type = "text" /\ b.id = 0
  BY DEF Talk!Block, Talk!Blank, ContentBlocks, BlockTypes
<1>2. p.role = "user" /\ p.content = <<b>> /\ p = [role |-> "user", content |-> <<b>>]
  BY DEF Talk!Placeholder
<1>3. ~Talk!Has(p.content, "tool_use") /\ p.content \in Seq(ContentBlocks)
  <2> HIDE DEF b, p
  <2> QED BY <1>1, <1>2 DEF Talk!Has
<1>4. Talk!OfType(p.content, type) = <<>>
  <2> HIDE DEF b, p
  <2> QED BY <1>1, <1>2, OneBlock
<1>5. p \in SaneMessages
  <2> HIDE DEF b
  <2> QED BY <1>2, <1>3 DEF SaneMessages, ClaudeMessages, Sane, Speaking
<1> HIDE DEF b, p
<1> DEFINE x == <<p>>
<1>6. Gives(ContentOf(type), SaneMessages, Numbers)
  BY ContentIsGiven
<1>7. x \in Seq(SaneMessages) /\ Through(x, ContentOf(type)) = <<>>
  <2>1. x \in Seq(SaneMessages) /\ Through(x, ContentOf(type)) = ContentOf(type)[p]
    BY <1>5, <1>6, ThroughOne
  <2>2. ContentOf(type)[p] = <<>>
    BY <1>4, <1>5 DEF ContentOf
  <2> QED BY <2>1, <2>2
<1> HIDE DEF x
<1>8. Through(x \o s, ContentOf(type)) = Through(x, ContentOf(type)) \o Through(s, ContentOf(type))
  <2> DEFINE g == ContentOf(type)
  <2>1. Gives(g, SaneMessages, Numbers)
    BY <1>6
  <2> HIDE DEF g
  <2>2. Through(x \o s, g) = Through(x, g) \o Through(s, g)
    BY <1>7, <2>1, ThroughTwo
  <2> QED BY <2>2 DEF g
<1>9. Through(s, ContentOf(type)) \in Seq(Numbers)
  BY <1>6, ThroughIsSeq
<1>10. Through(x \o s, ContentOf(type)) = Through(s, ContentOf(type))
  BY <1>7, <1>8, <1>9, ConcatEmptySeq
<1>11. x \o s \in Seq(SaneMessages)
  BY <1>7, ConcatProperties
<1> QED BY <1>10, <1>11 DEF Talk!Begun, p, x

\* The requests of either format.
OpenaiRequests ==
    [messages : Seq(FlatMessages), limit : Numbers \cup {Talk!None},
     effort : Talk!Efforts \cup {"none"}, parallel : BOOLEAN]
ClaudeRequests ==
    [system : Seq(Numbers), messages : Seq(SaneMessages), limit : Numbers,
     budget : {Talk!None, 1280, 2048, 4096}, serial : BOOLEAN]

\* Reading a request of OpenAI.
LEMMA OpenaiReads ==
    ASSUME NEW r \in OpenaiRequests
    PROVE  /\ ~Talk!InClaude(r)
           /\ r.messages \in Seq(FlatMessages)
           /\ Talk!Systems(r) = Through(r.messages, FlatSystem)
           /\ Talk!Texts(r) = Through(r.messages, FlatTexts)
           /\ Talk!Thoughts(r) = Through(r.messages, FlatThoughts)
           /\ Talk!Calls(r) = Through(r.messages, FlatCalls)
           /\ Talk!Results(r) = Through(r.messages, FlatResults)
<1>1. ~Talk!InClaude(r) /\ r.messages \in Seq(FlatMessages)
  BY DEF OpenaiRequests, Talk!InClaude
<1>2. \A i \in DOMAIN r.messages : r.messages[i] \in FlatMessages
  BY <1>1, LenProperties
<1> DEFINE s == r.messages
<1>3. \A i \in DOMAIN s : s[i] \in FlatMessages
  BY <1>2
<1> HIDE DEF s
<1>4. /\ Talk!SystemTexts(s) = Through(s, FlatSystem)
      /\ Talk!Gathered(s, LAMBDA m : IF m.role = "system" THEN <<>> ELSE m.texts) = Through(s, FlatTexts)
      /\ Talk!Gathered(s, LAMBDA m : m.reasoning) = Through(s, FlatThoughts)
      /\ Talk!Gathered(s, LAMBDA m : m.calls) = Through(s, FlatCalls)
      /\ Talk!Gathered(s, LAMBDA m : IF m.role = "tool" THEN <<m.answers>> ELSE <<>>)
           = Through(s, FlatResults)
  <2>1. [i \in DOMAIN s |-> IF s[i].role = "system" THEN s[i].texts ELSE <<>>] = [i \in DOMAIN s |-> FlatSystem[s[i]]]
    BY <1>3 DEF FlatSystem
  <2>2. [i \in DOMAIN s |-> IF s[i].role = "system" THEN <<>> ELSE s[i].texts] = [i \in DOMAIN s |-> FlatTexts[s[i]]]
    BY <1>3 DEF FlatTexts
  <2>3. [i \in DOMAIN s |-> s[i].reasoning] = [i \in DOMAIN s |-> FlatThoughts[s[i]]]
    BY <1>3 DEF FlatThoughts
  <2>4. [i \in DOMAIN s |-> s[i].calls] = [i \in DOMAIN s |-> FlatCalls[s[i]]]
    BY <1>3 DEF FlatCalls
  <2>5. [i \in DOMAIN s |-> IF s[i].role = "tool" THEN <<s[i].answers>> ELSE <<>>] = [i \in DOMAIN s |-> FlatResults[s[i]]]
    BY <1>3 DEF FlatResults
  <2> QED BY <2>1, <2>2, <2>3, <2>4, <2>5 DEF Talk!SystemTexts, Talk!Gathered, Through
<1> QED BY <1>1, <1>4 DEF s, Talk!Systems, Talk!Texts, Talk!Thoughts, Talk!Calls, Talk!Results

\* Reading a request of Claude.
LEMMA ClaudeReads ==
    ASSUME NEW r \in ClaudeRequests
    PROVE  /\ Talk!InClaude(r)
           /\ r.messages \in Seq(SaneMessages)
           /\ Talk!Systems(r) = r.system
           /\ Talk!Texts(r) = Through(r.messages, ContentOf("text"))
           /\ Talk!Thoughts(r) = Through(r.messages, ContentOf("thinking"))
           /\ Talk!Calls(r) = Through(r.messages, ContentOf("tool_use"))
           /\ Talk!Results(r) = Through(r.messages, ContentOf("tool_result"))
<1>1. Talk!InClaude(r) /\ r.messages \in Seq(SaneMessages)
  BY DEF ClaudeRequests, Talk!InClaude
<1> DEFINE s == r.messages
<1>2. \A i \in DOMAIN s : s[i] \in SaneMessages
  BY <1>1, LenProperties
<1> HIDE DEF s
<1>3. \A type : Talk!Gathered(s, LAMBDA m : Talk!OfType(m.content, type)) = Through(s, ContentOf(type))
  <2> SUFFICES ASSUME NEW type
               PROVE  Talk!Gathered(s, LAMBDA m : Talk!OfType(m.content, type)) = Through(s, ContentOf(type))
    OBVIOUS
  <2>1. [i \in DOMAIN s |-> Talk!OfType(s[i].content, type)] = [i \in DOMAIN s |-> ContentOf(type)[s[i]]]
    BY <1>2 DEF ContentOf
  <2> QED BY <2>1 DEF Talk!Gathered, Through
<1> QED BY <1>1, <1>3 DEF s, Talk!Systems, Talk!Texts, Talk!Thoughts, Talk!Calls, Talk!Results
\* A request in the format of Claude says what the one it was translated from says.
LEMMA ToClaudeKeeps ==
    ASSUME NEW r \in OpenaiRequests
    PROVE  /\ Talk!ToClaude(r) \in ClaudeRequests
           /\ Talk!Systems(Talk!ToClaude(r)) = Talk!Systems(r)
           /\ Talk!Texts(Talk!ToClaude(r)) = Talk!Texts(r)
           /\ Talk!Calls(Talk!ToClaude(r)) = Talk!Calls(r)
           /\ Talk!Results(Talk!ToClaude(r)) = Talk!Results(r)
<1> DEFINE s == r.messages
           pending == Talk!Pending(s)
           merged == Talk!Merged(pending)
           begun == Talk!Begun(merged)
           c == Talk!ToClaude(r)
<1>1. s \in Seq(FlatMessages) /\ Talk!Systems(r) = Through(s, FlatSystem)
      /\ Talk!Texts(r) = Through(s, FlatTexts) /\ Talk!Calls(r) = Through(s, FlatCalls)
      /\ Talk!Results(r) = Through(s, FlatResults)
  BY OpenaiReads
<1>2. c.messages = begun /\ c.system = Talk!SystemTexts(s)
      /\ c = [system |-> Talk!SystemTexts(s), messages |-> begun, limit |-> Talk!LimitOf(r.limit),
              budget |-> Talk!Budget(r.effort), serial |-> ~r.parallel]
  BY DEF Talk!ToClaude
<1>3. ~Talk!InClaude(r)
  BY OpenaiReads
<1>4. c.system = Through(s, FlatSystem) /\ c.system \in Seq(Numbers)
  <2>1. Through(s, FlatSystem) \in Seq(Numbers)
    BY <1>1, FlatIsGiven, ThroughIsSeq
  <2> QED BY <1>1, <1>2, <1>3, <2>1 DEF Talk!Systems
<1>5. /\ r.limit \in Numbers \cup {Talk!None} /\ r.effort \in Talk!Efforts \cup {"none"}
      /\ r.parallel \in BOOLEAN
  BY DEF OpenaiRequests
<1> HIDE DEF s
<1>6. pending \in Seq(SaneMessages)
      /\ Through(pending, ContentOf("text")) = Through(s, FlatTexts)
      /\ Through(pending, ContentOf("tool_use")) = Through(s, FlatCalls)
      /\ Through(pending, ContentOf("tool_result")) = Through(s, FlatResults)
  BY <1>1, PendingIsThrough, PendingKeeps
<1> HIDE DEF pending
<1>7. merged \in Seq(SaneMessages)
      /\ \A type : Through(merged, ContentOf(type)) = Through(pending, ContentOf(type))
  <2> SUFFICES ASSUME NEW type
               PROVE  /\ merged \in Seq(SaneMessages)
                      /\ Through(merged, ContentOf(type)) = Through(pending, ContentOf(type))
    OBVIOUS
  <2>1. Gives(ContentOf(type), SaneMessages, Numbers) /\ AddsUp(ContentOf(type))
    BY ContentIsGiven
  <2> QED BY <1>6, <2>1, MergedKeeps
<1> HIDE DEF merged
<1>8. begun \in Seq(SaneMessages)
      /\ \A type : Through(begun, ContentOf(type)) = Through(merged, ContentOf(type))
  BY <1>7, BegunKeeps
<1> HIDE DEF begun
<1>9. Talk!LimitOf(r.limit) \in Numbers
  BY <1>5 DEF Talk!LimitOf, Talk!DefaultLimit, Numbers
<1>10. Talk!Budget(r.effort) \in {Talk!None, 1280, 2048, 4096}
  BY <1>5 DEF Talk!Budget, Talk!Efforts
<1>11. c \in ClaudeRequests
  <2> HIDE DEF c
  <2>1. c.system \in Seq(Numbers)
    BY <1>4
  <2> QED BY <1>2, <1>5, <1>8, <1>9, <1>10, <2>1 DEF ClaudeRequests
<1> HIDE DEF c
<1>12. /\ Talk!Systems(c) = c.system
       /\ Talk!Texts(c) = Through(begun, ContentOf("text"))
       /\ Talk!Calls(c) = Through(begun, ContentOf("tool_use"))
       /\ Talk!Results(c) = Through(begun, ContentOf("tool_result"))
  BY <1>2, <1>11, ClaudeReads
<1> QED BY <1>1, <1>4, <1>6, <1>7, <1>8, <1>11, <1>12 DEF c

\* All readings of flat messages pass through them.
FlatReadings == {FlatSystem, FlatTexts, FlatThoughts, FlatCalls, FlatResults}

\* Such readings add up.
LEMMA FlatMore ==
    ASSUME NEW s \in Seq(FlatMessages), NEW g \in FlatReadings
    PROVE  /\ Through(s, g) \in Seq(Numbers)
           /\ \A t \in Seq(FlatMessages) : Through(s \o t, g) = Through(s, g) \o Through(t, g)
           /\ \A m \in FlatMessages : /\ Through(Append(s, m), g) = Through(s, g) \o g[m]
                                      /\ Through(<<m>>, g) = g[m]
<1>1. Gives(g, FlatMessages, Numbers)
  BY FlatIsGiven DEF FlatReadings
<1> QED BY <1>1, ThroughIsSeq, ThroughTwo, ThroughOne, ThroughOneMore

-----------------------------------------------------------------------------
(* Claude to OpenAI.                                                       *)

\* The result of one call, and those of several.
ToolMessage(n) == Talk!Message("tool", <<>>, <<>>, <<>>, n)
ToolMessages(s) == [i \in DOMAIN s |-> ToolMessage(s[i])]

\* Such a message gives its result and nothing else.
LEMMA ToolMessageIs ==
    ASSUME NEW n \in Numbers
    PROVE  /\ ToolMessage(n) \in FlatMessages
           /\ ToolMessage(n).role = "tool" /\ ToolMessage(n).answers = n
           /\ FlatSystem[ToolMessage(n)] = <<>> /\ FlatTexts[ToolMessage(n)] = <<>>
           /\ FlatCalls[ToolMessage(n)] = <<>> /\ FlatResults[ToolMessage(n)] = <<n>>
<1> DEFINE m == ToolMessage(n)
<1>1. m = [role |-> "tool", texts |-> <<>>, reasoning |-> <<>>, calls |-> <<>>, answers |-> n]
  BY DEF ToolMessage, Talk!Message
<1>2. <<>> \in Seq(Numbers) /\ n \in Int
  BY DEF Numbers
<1>3. m \in FlatMessages
  BY <1>1, <1>2 DEF FlatMessages
<1> HIDE DEF m
<1> QED BY <1>1, <1>3 DEF m, FlatSystem, FlatTexts, FlatCalls, FlatResults

\* So do several, in order.
LEMMA ToolsGiveBack ==
    ASSUME NEW s \in Seq(Numbers)
    PROVE  /\ ToolMessages(s) \in Seq(FlatMessages)
           /\ Len(ToolMessages(s)) = Len(s)
           /\ Through(ToolMessages(s), FlatSystem) = <<>>
           /\ Through(ToolMessages(s), FlatTexts) = <<>>
           /\ Through(ToolMessages(s), FlatCalls) = <<>>
           /\ Through(ToolMessages(s), FlatResults) = s
<1> DEFINE Good(u) == /\ ToolMessages(u) \in Seq(FlatMessages)
                      /\ Len(ToolMessages(u)) = Len(u)
                      /\ Through(ToolMessages(u), FlatSystem) = <<>>
                      /\ Through(ToolMessages(u), FlatTexts) = <<>>
                      /\ Through(ToolMessages(u), FlatCalls) = <<>>
                      /\ Through(ToolMessages(u), FlatResults) = u
           P == {u \in Seq(Numbers) : Good(u)}
<1>1. <<>> \in P
  <2>1. ToolMessages(<<>>) = <<>>
    BY DEF ToolMessages
  <2>2. <<>> \in Seq(FlatMessages) /\ <<>> \in Seq(Numbers)
    OBVIOUS
  <2> QED BY <2>1, <2>2, ThroughNothing
<1>2. ASSUME NEW u \in Seq(Numbers), NEW n \in Numbers, u \in P PROVE Append(u, n) \in P
  <2> DEFINE b == ToolMessage(n)
             c == ToolMessages(u)
  <2>1. /\ b \in FlatMessages /\ FlatSystem[b] = <<>> /\ FlatTexts[b] = <<>>
        /\ FlatCalls[b] = <<>> /\ FlatResults[b] = <<n>>
    BY ToolMessageIs
  <2>2. Good(u)
    BY <1>2
  <2>3. Append(u, n) \in Seq(Numbers) /\ Len(Append(u, n)) = Len(u) + 1 /\ Len(u) \in Nat
    BY LenProperties, AppendProperties
  <2>4. ToolMessages(Append(u, n)) = Append(c, b)
    <3>2. DOMAIN u = 1..Len(u) /\ DOMAIN Append(u, n) = 1..(Len(u) + 1)
      BY <2>3, LenProperties
    <3> DEFINE x == ToolMessages(Append(u, n))
               y == Append(c, b)
    <3>3. /\ x = [i \in 1..(Len(u) + 1) |-> ToolMessage(Append(u, n)[i])]
          /\ c = [i \in 1..Len(u) |-> ToolMessage(u[i])]
      BY <3>2 DEF ToolMessages
    <3>5. x \in Seq(FlatMessages) /\ Len(x) = Len(u) + 1
      <4>1. \A i \in 1..(Len(u) + 1) : Append(u, n)[i] \in Numbers
        BY <2>3, ElementOfSeq
      <4>2. \A i \in 1..(Len(u) + 1) : ToolMessage(Append(u, n)[i]) \in FlatMessages
        BY <4>1, ToolMessageIs
      <4> QED BY <2>3, <3>3, <4>2
    <3>6. y \in Seq(FlatMessages) /\ Len(y) = Len(u) + 1
      BY <2>1, <2>2, AppendProperties
    <3>7. ASSUME NEW i \in 1..(Len(u) + 1) PROVE x[i] = y[i]
      <4>1. x[i] = ToolMessage(Append(u, n)[i])
        BY <3>3
      <4>2. CASE i = Len(u) + 1
        BY <2>2, <2>3, <4>1, <4>2, AppendProperties
      <4>3. CASE i # Len(u) + 1
        <5>1. i \in 1..Len(u)
          BY <2>3, <4>3
        <5>2. c[i] = ToolMessage(u[i]) /\ Append(u, n)[i] = u[i]
          BY <3>3, <5>1, AppendProperties
        <5>3. Len(c) = Len(u) /\ c \in Seq(FlatMessages)
          BY <2>2
        <5> HIDE DEF b, c, x
        <5> QED BY <2>1, <4>1, <5>1, <5>2, <5>3, AppendProperties
      <4> QED BY <4>2, <4>3
    <3> HIDE DEF x, y
    <3>8. x = y
      BY <3>5, <3>6, <3>7, SeqEqual
    <3> QED BY <3>8 DEF x, y
  <2>5. /\ c \in Seq(FlatMessages) /\ Len(c) = Len(u)
        /\ Through(c, FlatSystem) = <<>> /\ Through(c, FlatTexts) = <<>>
        /\ Through(c, FlatCalls) = <<>> /\ Through(c, FlatResults) = u
    BY <2>2
  <2> HIDE DEF b, c
  <2>6. Append(c, b) \in Seq(FlatMessages) /\ Len(Append(c, b)) = Len(u) + 1
    BY <2>1, <2>5, AppendProperties
  <2>7. /\ Through(Append(c, b), FlatSystem) = <<>> \o <<>>
        /\ Through(Append(c, b), FlatTexts) = <<>> \o <<>>
        /\ Through(Append(c, b), FlatCalls) = <<>> \o <<>>
        /\ Through(Append(c, b), FlatResults) = u \o <<n>>
    <3>1. \A g \in FlatReadings : Through(Append(c, b), g) = Through(c, g) \o g[b]
      BY <2>1, <2>5, FlatMore
    <3> QED BY <2>1, <2>5, <3>1 DEF FlatReadings
  <2>8. u \o <<n>> = Append(u, n) /\ <<>> \o <<>> = <<>>
    BY AppendIsConcat
  <2>9. Good(Append(u, n))
    BY <2>3, <2>4, <2>6, <2>7, <2>8
  <2> QED BY <2>3, <2>9
<1>3. \A u \in Seq(Numbers) : u \in P
  <2> HIDE DEF P
  <2> QED BY <1>1, <1>2, ByAppending
<1> QED BY <1>3

\* A message of Claude in the format of OpenAI says what it said.
LEMMA SplitReads ==
    ASSUME Talk!ConversationAssumption, NEW m \in SaneMessages
    PROVE  /\ Talk!Split(m) \in Seq(FlatMessages)
           /\ Through(Talk!Split(m), FlatSystem) = <<>>
           /\ Through(Talk!Split(m), FlatTexts) = Talk!OfType(m.content, "text")
           /\ Through(Talk!Split(m), FlatCalls) = Talk!OfType(m.content, "tool_use")
           /\ Through(Talk!Split(m), FlatResults) = Talk!OfType(m.content, "tool_result")
<1> DEFINE results == Talk!OfType(m.content, "tool_result")
           texts == Talk!OfType(m.content, "text")
           calls == Talk!OfType(m.content, "tool_use")
           tools == ToolMessages(results)
           said1 == Talk!Message(m.role, texts, <<>>, <<>>, Talk!None)
           said2 == Talk!Message(m.role, texts, <<>>, calls, Talk!None)
<1>1. /\ m.role \in Speaking /\ m.content \in Seq(ContentBlocks) /\ Sane(m)
      /\ m.role # "system" /\ m.role # "tool"
  BY DEF SaneMessages, ClaudeMessages, Speaking, Talk!ConversationAssumption
<1>2. results \in Seq(Numbers) /\ texts \in Seq(Numbers) /\ calls \in Seq(Numbers)
  BY <1>1, OfTypeIsSeq
<1>3. m.role # "assistant" => calls = <<>>
  BY <1>1, HasNot DEF Sane
<1>4. Talk!Split(m) = IF Talk!Has(m.content, "tool_result")
                      THEN tools \o IF Talk!Has(m.content, "text") THEN <<said1>> ELSE <<>>
                      ELSE <<said2>>
  BY DEF Talk!Split, ToolMessages, ToolMessage
<1>5. Talk!Has(m.content, "tool_result") => m.role # "assistant"
  BY <1>1 DEF Sane
<1>6. /\ ~Talk!Has(m.content, "tool_result") => results = <<>>
      /\ ~Talk!Has(m.content, "text") => texts = <<>>
  BY <1>1, HasNot
<1> HIDE DEF results, texts, calls
<1>7. /\ tools \in Seq(FlatMessages)
      /\ Through(tools, FlatSystem) = <<>> /\ Through(tools, FlatTexts) = <<>>
      /\ Through(tools, FlatCalls) = <<>> /\ Through(tools, FlatResults) = results
  BY <1>2, ToolsGiveBack
<1>8. /\ said2 \in FlatMessages
      /\ FlatSystem[said2] = <<>> /\ FlatTexts[said2] = texts
      /\ FlatCalls[said2] = calls /\ FlatResults[said2] = <<>>
  <2>1. said2 = [role |-> m.role, texts |-> texts, reasoning |-> <<>>, calls |-> calls, answers |-> -1]
    BY DEF Talk!Message, Talk!None
  <2>2. <<>> \in Seq(Numbers) /\ -1 \in Int
    OBVIOUS
  <2> HIDE DEF said2
  <2>3. said2 \in FlatMessages
    BY <1>1, <1>2, <1>3, <2>1, <2>2 DEF FlatMessages
  <2> QED BY <1>1, <2>1, <2>3 DEF FlatSystem, FlatTexts, FlatCalls, FlatResults
<1>9. calls = <<>> => said1 = said2
  OBVIOUS
<1> HIDE DEF tools, said1, said2
<1>10. CASE ~Talk!Has(m.content, "tool_result")
  <2>1. Talk!Split(m) = <<said2>>
    BY <1>4, <1>10
  <2> DEFINE x == <<said2>>
  <2>2. /\ x \in Seq(FlatMessages)
        /\ Through(x, FlatSystem) = <<>> /\ Through(x, FlatTexts) = texts
        /\ Through(x, FlatCalls) = calls /\ Through(x, FlatResults) = <<>>
    BY <1>8, FlatIsGiven, ThroughOne
  <2> QED BY <1>6, <1>10, <2>1, <2>2 DEF results, texts, calls
<1>11. CASE Talk!Has(m.content, "tool_result") /\ Talk!Has(m.content, "text")
  <2> DEFINE x == <<said2>>
  <2>1. Talk!Split(m) = tools \o x /\ calls = <<>>
    BY <1>3, <1>4, <1>5, <1>9, <1>11
  <2>2. /\ x \in Seq(FlatMessages)
        /\ Through(x, FlatSystem) = <<>> /\ Through(x, FlatTexts) = texts
        /\ Through(x, FlatCalls) = calls /\ Through(x, FlatResults) = <<>>
    BY <1>8, FlatIsGiven, ThroughOne
  <2> HIDE DEF x
  <2>3. tools \o x \in Seq(FlatMessages)
    BY <1>7, <2>2, ConcatProperties
  <2>4. /\ Through(tools \o x, FlatSystem) = <<>> \o <<>>
        /\ Through(tools \o x, FlatTexts) = <<>> \o texts
        /\ Through(tools \o x, FlatCalls) = <<>> \o calls
        /\ Through(tools \o x, FlatResults) = results \o <<>>
    <3>1. \A g \in FlatReadings : Through(tools \o x, g) = Through(tools, g) \o Through(x, g)
      BY <1>7, <2>2, FlatMore
    <3> QED BY <1>7, <2>2, <3>1 DEF FlatReadings
  <2>5. /\ <<>> \o <<>> = <<>> /\ <<>> \o texts = texts /\ <<>> \o calls = calls
        /\ results \o <<>> = results
    BY <1>2, ConcatEmptySeq
  <2> QED BY <2>1, <2>3, <2>4, <2>5 DEF results, texts, calls
<1>12. CASE Talk!Has(m.content, "tool_result") /\ ~Talk!Has(m.content, "text")
  <2>1. Talk!Split(m) = tools \o <<>> /\ calls = <<>> /\ texts = <<>>
    BY <1>3, <1>4, <1>5, <1>6, <1>12
  <2>2. tools \o <<>> = tools
    BY <1>7, ConcatEmptySeq
  <2> QED BY <1>7, <2>1, <2>2 DEF results, texts, calls
<1> QED BY <1>10, <1>11, <1>12
\* The flat messages a message of blocks is split into.
SplitOf == [m \in SaneMessages |-> Talk!Split(m)]

\* Split messages say what they said, all but the thinking.
LEMMA SplitKeeps ==
    ASSUME Talk!ConversationAssumption, NEW s \in Seq(SaneMessages)
    PROVE  /\ Talk!Gathered(s, Talk!Split) = Through(s, SplitOf)
           /\ Gives(SplitOf, SaneMessages, FlatMessages)
           /\ Through(s, SplitOf) \in Seq(FlatMessages)
           /\ Through(Through(s, SplitOf), FlatSystem) = <<>>
           /\ Through(Through(s, SplitOf), FlatTexts) = Through(s, ContentOf("text"))
           /\ Through(Through(s, SplitOf), FlatCalls) = Through(s, ContentOf("tool_use"))
           /\ Through(Through(s, SplitOf), FlatResults) = Through(s, ContentOf("tool_result"))
<1>1. Gives(SplitOf, SaneMessages, FlatMessages)
  BY SplitReads DEF Gives, SplitOf
<1>2. Talk!Gathered(s, Talk!Split) = Through(s, SplitOf)
  <2>1. \A i \in DOMAIN s : s[i] \in SaneMessages
    BY LenProperties
  <2>2. [i \in DOMAIN s |-> Talk!Split(s[i])] = [i \in DOMAIN s |-> SplitOf[s[i]]]
    BY <2>1 DEF SplitOf
  <2> QED BY <2>2 DEF Talk!Gathered, Through
<1>3. Through(s, SplitOf) \in Seq(FlatMessages)
  BY <1>1, ThroughIsSeq
<1> DEFINE silent == [m \in SaneMessages |-> <<>>]
<1>4. ASSUME NEW m \in SaneMessages
      PROVE  /\ silent[m] = Through(SplitOf[m], FlatSystem)
             /\ ContentOf("text")[m] = Through(SplitOf[m], FlatTexts)
             /\ ContentOf("tool_use")[m] = Through(SplitOf[m], FlatCalls)
             /\ ContentOf("tool_result")[m] = Through(SplitOf[m], FlatResults)
  BY SplitReads DEF SplitOf, ContentOf
<1>5. Through(s, silent) = <<>>
  <2> DEFINE P == {u \in Seq(SaneMessages) : Through(u, silent) = <<>>}
  <2>1. <<>> \in P
    <3>1. <<>> \in Seq(SaneMessages)
      OBVIOUS
    <3> QED BY <3>1, ThroughNothing
  <2>2. ASSUME NEW u \in Seq(SaneMessages), NEW m \in SaneMessages, u \in P
        PROVE  Append(u, m) \in P
    <3>1. Gives(silent, SaneMessages, Numbers) /\ silent[m] = <<>>
      <4>1. <<>> \in Seq(Numbers)
        OBVIOUS
      <4> QED BY <4>1 DEF Gives
    <3>2. Through(u, silent) = <<>> /\ Append(u, m) \in Seq(SaneMessages)
      BY <2>2
    <3> HIDE DEF silent
    <3>3. Through(Append(u, m), silent) = Through(u, silent) \o silent[m]
      BY <3>1, ThroughOneMore
    <3>4. <<>> \o <<>> = <<>>
      OBVIOUS
    <3> QED BY <3>1, <3>2, <3>3, <3>4
  <2>3. \A u \in Seq(SaneMessages) : u \in P
    <3> HIDE DEF P
    <3> QED BY <2>1, <2>2, ByAppending
  <2> QED BY <2>3
<1> HIDE DEF silent
<1>6. Through(Through(s, SplitOf), FlatSystem) = Through(s, silent)
  BY <1>1, <1>4, FlatIsGiven, ThroughTwice
<1>7. Through(Through(s, SplitOf), FlatTexts) = Through(s, ContentOf("text"))
  BY <1>1, <1>4, FlatIsGiven, ThroughTwice
<1>8. Through(Through(s, SplitOf), FlatCalls) = Through(s, ContentOf("tool_use"))
  BY <1>1, <1>4, FlatIsGiven, ThroughTwice
<1>9. Through(Through(s, SplitOf), FlatResults) = Through(s, ContentOf("tool_result"))
  BY <1>1, <1>4, FlatIsGiven, ThroughTwice
<1> QED BY <1>1, <1>2, <1>3, <1>5, <1>6, <1>7, <1>8, <1>9

\* A request in the format of OpenAI says what the one it was translated from says.
LEMMA ToOpenaiKeeps ==
    ASSUME Talk!ConversationAssumption, NEW r \in ClaudeRequests
    PROVE  /\ Talk!ToOpenai(r) \in OpenaiRequests
           /\ Talk!Systems(Talk!ToOpenai(r)) = Talk!Systems(r)
           /\ Talk!Texts(Talk!ToOpenai(r)) = Talk!Texts(r)
           /\ Talk!Calls(Talk!ToOpenai(r)) = Talk!Calls(r)
           /\ Talk!Results(Talk!ToOpenai(r)) = Talk!Results(r)
<1> DEFINE s == r.messages
           split == Through(s, SplitOf)
           first1 == Talk!Message("system", r.system, <<>>, <<>>, Talk!None)
           head == IF r.system = <<>> THEN <<>> ELSE <<first1>>
           o == Talk!ToOpenai(r)
<1>1. s \in Seq(SaneMessages) /\ Talk!Systems(r) = r.system
      /\ Talk!Texts(r) = Through(s, ContentOf("text"))
      /\ Talk!Calls(r) = Through(s, ContentOf("tool_use"))
      /\ Talk!Results(r) = Through(s, ContentOf("tool_result"))
  BY ClaudeReads
<1>2. /\ r.system \in Seq(Numbers) /\ r.limit \in Numbers
      /\ r.budget \in {Talk!None, 1280, 2048, 4096} /\ r.serial \in BOOLEAN
  BY DEF ClaudeRequests
<1>3. /\ split \in Seq(FlatMessages)
      /\ Through(split, FlatSystem) = <<>>
      /\ Through(split, FlatTexts) = Through(s, ContentOf("text"))
      /\ Through(split, FlatCalls) = Through(s, ContentOf("tool_use"))
      /\ Through(split, FlatResults) = Through(s, ContentOf("tool_result"))
      /\ Talk!Gathered(s, Talk!Split) = split
  BY <1>1, SplitKeeps
<1>4. o = [messages |-> head \o split, limit |-> r.limit, effort |-> Talk!Effort(r.budget),
           parallel |-> ~r.serial]
  BY <1>3 DEF Talk!ToOpenai
<1> HIDE DEF s, split
<1>5. /\ head \in Seq(FlatMessages)
      /\ Through(head, FlatSystem) = r.system /\ Through(head, FlatTexts) = <<>>
      /\ Through(head, FlatCalls) = <<>> /\ Through(head, FlatResults) = <<>>
  <2>1. CASE r.system = <<>>
    <3>1. head = <<>>
      BY <2>1
    <3>2. <<>> \in Seq(FlatMessages)
      OBVIOUS
    <3> HIDE DEF head
    <3> QED BY <2>1, <3>1, <3>2, ThroughNothing
  <2>2. CASE r.system # <<>>
    <3>1. head = <<first1>>
      BY <2>2
    <3>2. first1 = [role |-> "system", texts |-> r.system, reasoning |-> <<>>, calls |-> <<>>,
                    answers |-> -1]
      BY DEF Talk!Message, Talk!None
    <3>3. first1 \in FlatMessages
      <4>1. <<>> \in Seq(Numbers) /\ -1 \in Int
        OBVIOUS
      <4> HIDE DEF first1
      <4> QED BY <1>2, <3>2, <4>1 DEF FlatMessages
    <3>4. /\ FlatSystem[first1] = r.system /\ FlatTexts[first1] = <<>>
          /\ FlatCalls[first1] = <<>> /\ FlatResults[first1] = <<>>
      <4> HIDE DEF first1
      <4> QED BY <3>2, <3>3 DEF FlatSystem, FlatTexts, FlatCalls, FlatResults
    <3> HIDE DEF head, first1
    <3> QED BY <3>1, <3>3, <3>4, FlatIsGiven, ThroughOne
  <2> QED BY <2>1, <2>2
<1> HIDE DEF head
<1>6. head \o split \in Seq(FlatMessages)
  BY <1>3, <1>5, ConcatProperties
<1>7. \A g \in FlatReadings : Through(head \o split, g) = Through(head, g) \o Through(split, g)
  BY <1>3, <1>5, FlatMore
<1>8. Talk!Effort(r.budget) \in Talk!Efforts \cup {"none"}
  BY <1>2 DEF Talk!Effort, Talk!Efforts, Talk!None
<1>9. o \in OpenaiRequests
  <2> HIDE DEF o
  <2> QED BY <1>2, <1>4, <1>6, <1>8 DEF OpenaiRequests
<1>10. o.messages = head \o split
  BY <1>4
<1> HIDE DEF o
<1>11. /\ Talk!Systems(o) = Through(head \o split, FlatSystem)
       /\ Talk!Texts(o) = Through(head \o split, FlatTexts)
       /\ Talk!Calls(o) = Through(head \o split, FlatCalls)
       /\ Talk!Results(o) = Through(head \o split, FlatResults)
  BY <1>9, <1>10, OpenaiReads
<1>12. \A g \in FlatReadings : Through(split, g) \in Seq(Numbers)
  BY <1>3, FlatMore
<1>13. Talk!Systems(o) = r.system
  BY <1>2, <1>3, <1>5, <1>7, <1>11, ConcatEmptySeq DEF FlatReadings
<1>14. /\ Through(head \o split, FlatTexts) = Through(split, FlatTexts)
       /\ Through(head \o split, FlatCalls) = Through(split, FlatCalls)
       /\ Through(head \o split, FlatResults) = Through(split, FlatResults)
  BY <1>5, <1>7, <1>12, ConcatEmptySeq DEF FlatReadings
<1> QED BY <1>1, <1>3, <1>9, <1>11, <1>13, <1>14 DEF o

-----------------------------------------------------------------------------
(* The numbers of what was said, in their order.                           *)

\* The elements of two sequences, one after the other.
LEMMA SetOfMore ==
    ASSUME NEW D, NEW s \in Seq(D), NEW t \in Seq(D)
    PROVE  /\ Talk!ToSet(s \o t) = Talk!ToSet(s) \cup Talk!ToSet(t)
           /\ Talk!IsInjective(s) /\ Talk!IsInjective(t) /\ Talk!ToSet(s) \cap Talk!ToSet(t) = {}
                => Talk!IsInjective(s \o t)
<1>1. /\ s \o t \in Seq(D) /\ DOMAIN (s \o t) = 1..(Len(s) + Len(t))
      /\ Len(s) \in Nat /\ Len(t) \in Nat /\ DOMAIN s = 1..Len(s) /\ DOMAIN t = 1..Len(t)
      /\ \A i \in 1..(Len(s) + Len(t)) : (s \o t)[i] = IF i <= Len(s) THEN s[i] ELSE t[i - Len(s)]
  <2>1. s \o t \in Seq(D) /\ Len(s \o t) = Len(s) + Len(t)
    BY ConcatProperties
  <2> QED BY <2>1, ConcatProperties, LenProperties
<1> DEFINE u == s \o t
<1> HIDE DEF u
<1>2. /\ DOMAIN u = 1..(Len(s) + Len(t))
      /\ \A i \in 1..(Len(s) + Len(t)) : u[i] = IF i <= Len(s) THEN s[i] ELSE t[i - Len(s)]
  BY <1>1 DEF u
<1>3. \A i \in 1..Len(s) : i \in DOMAIN u /\ u[i] = s[i]
  BY <1>1, <1>2
<1>4. \A i \in 1..Len(t) : Len(s) + i \in DOMAIN u /\ u[Len(s) + i] = t[i]
  BY <1>1, <1>2
<1>5. \A i \in DOMAIN u : (i \in 1..Len(s) /\ u[i] = s[i])
                          \/ (i - Len(s) \in 1..Len(t) /\ u[i] = t[i - Len(s)])
  BY <1>1, <1>2
<1>6. Talk!ToSet(u) = Talk!ToSet(s) \cup Talk!ToSet(t)
  BY <1>1, <1>3, <1>4, <1>5 DEF Talk!ToSet
<1>7. ASSUME Talk!IsInjective(s), Talk!IsInjective(t), Talk!ToSet(s) \cap Talk!ToSet(t) = {}
      PROVE  Talk!IsInjective(u)
  <2> SUFFICES ASSUME NEW i \in DOMAIN u, NEW j \in DOMAIN u, u[i] = u[j] PROVE i = j
    BY DEF Talk!IsInjective
  <2>1. i \in Int /\ j \in Int
    BY <1>1, <1>2
  <2>2. CASE i \in 1..Len(s) /\ j \in 1..Len(s)
    BY <1>1, <1>3, <1>7, <2>2 DEF Talk!IsInjective
  <2>3. CASE i - Len(s) \in 1..Len(t) /\ j - Len(s) \in 1..Len(t)
    <3>1. i > Len(s) /\ j > Len(s)
      BY <1>1, <2>1, <2>3
    <3>2. u[i] = t[i - Len(s)] /\ u[j] = t[j - Len(s)]
      BY <1>1, <1>5, <2>1, <2>3, <3>1
    <3>3. i - Len(s) = j - Len(s)
      BY <1>1, <1>7, <2>3, <3>2 DEF Talk!IsInjective
    <3> QED BY <1>1, <2>1, <3>3
  <2>4. CASE i \in 1..Len(s) /\ j - Len(s) \in 1..Len(t)
    <3>1. u[i] \in Talk!ToSet(s)
      BY <1>1, <1>3, <2>4 DEF Talk!ToSet
    <3>2. u[j] = t[j - Len(s)]
      BY <1>1, <1>5, <2>1, <2>4
    <3>3. u[j] \in Talk!ToSet(t)
      BY <1>1, <2>4, <3>2 DEF Talk!ToSet
    <3> QED BY <1>7, <3>1, <3>3
  <2>5. CASE j \in 1..Len(s) /\ i - Len(s) \in 1..Len(t)
    <3>1. u[j] \in Talk!ToSet(s)
      BY <1>1, <1>3, <2>5 DEF Talk!ToSet
    <3>2. u[i] = t[i - Len(s)]
      BY <1>1, <1>5, <2>1, <2>5
    <3>3. u[i] \in Talk!ToSet(t)
      BY <1>1, <2>5, <3>2 DEF Talk!ToSet
    <3> QED BY <1>7, <3>1, <3>3
  <2> QED BY <1>5, <2>2, <2>3, <2>4, <2>5
<1> QED BY <1>6, <1>7 DEF u

\* The elements of the shortest sequences.
LEMMA SetOfOne ==
    /\ Talk!ToSet(<<>>) = {} /\ Talk!IsInjective(<<>>)
    /\ \A n : Talk!ToSet(<<n>>) = {n} /\ Talk!IsInjective(<<n>>)
BY DEF Talk!ToSet, Talk!IsInjective

-----------------------------------------------------------------------------
\* The numbers of S up to k.
Below(S, k) == Talk!Joined([i \in 1..k |-> IF i \in S THEN <<i>> ELSE <<>>])

\* They come one by one.
LEMMA BelowSteps ==
    ASSUME NEW S
    PROVE  /\ Below(S, 0) = <<>>
           /\ \A k \in Nat : /\ Below(S, k) \in Seq(Numbers)
                             /\ Below(S, k + 1) = Below(S, k) \o (IF k + 1 \in S THEN <<k + 1>> ELSE <<>>)
<1>1. Below(S, 0) = <<>>
  <2>1. [i \in 1..0 |-> IF i \in S THEN <<i>> ELSE <<>>] = <<>>
    OBVIOUS
  <2> QED BY <2>1, JoinedNothing DEF Below
<1>2. ASSUME NEW k \in Nat
      PROVE  /\ Below(S, k) \in Seq(Numbers)
             /\ Below(S, k + 1) = Below(S, k) \o (IF k + 1 \in S THEN <<k + 1>> ELSE <<>>)
  <2> DEFINE ss == [i \in 1..k |-> IF i \in S THEN <<i>> ELSE <<>>]
             tt == [i \in 1..(k + 1) |-> IF i \in S THEN <<i>> ELSE <<>>]
             x == IF k + 1 \in S THEN <<k + 1>> ELSE <<>>
  <2>1. ss \in Seq(Seq(Numbers)) /\ Len(ss) = k /\ tt \in Seq(Seq(Numbers)) /\ Len(tt) = k + 1
        /\ x \in Seq(Numbers)
    <3>1. \A i \in 1..(k + 1) : (IF i \in S THEN <<i>> ELSE <<>>) \in Seq(Numbers)
      <4>1. \A i \in 1..(k + 1) : i \in Numbers
        BY DEF Numbers
      <4> QED BY <4>1
    <3>2. k + 1 \in 1..(k + 1) /\ \A i \in 1..k : i \in 1..(k + 1)
      OBVIOUS
    <3> QED BY <3>1, <3>2
  <2>2. tt = Append(ss, x)
    <3>1. Append(ss, x) \in Seq(Seq(Numbers)) /\ Len(Append(ss, x)) = k + 1
          /\ Append(ss, x)[k + 1] = x /\ \A i \in 1..k : Append(ss, x)[i] = ss[i]
      BY <2>1, AppendProperties
    <3>2. ASSUME NEW i \in 1..(k + 1) PROVE tt[i] = Append(ss, x)[i]
      <4>1. CASE i = k + 1
        BY <3>1, <4>1
      <4>2. CASE i # k + 1
        <5>1. i \in 1..k /\ tt[i] = ss[i]
          BY <4>2
        <5> HIDE DEF ss, tt, x
        <5> QED BY <3>1, <5>1
      <4> QED BY <4>1, <4>2
    <3> HIDE DEF ss, tt, x
    <3> QED BY <2>1, <3>1, <3>2, SeqEqual
  <2> HIDE DEF ss, tt, x
  <2>3. Talk!Joined(tt) = Talk!Joined(ss) \o x /\ Talk!Joined(ss) \in Seq(Numbers)
    BY <2>1, <2>2, JoinedOneMore
  <2> QED BY <2>3 DEF Below, ss, tt, x
<1> QED BY <1>1, <1>2

\* They are those of S, each once.
LEMMA BelowIs ==
    ASSUME NEW S, NEW k \in Nat
    PROVE  /\ Talk!ToSet(Below(S, k)) = S \cap (1..k)
           /\ Talk!IsInjective(Below(S, k))
<1> DEFINE P == {n \in 0..k : /\ Talk!ToSet(Below(S, n)) = S \cap (1..n)
                              /\ Talk!IsInjective(Below(S, n))}
<1>1. 0 \in P
  BY BelowSteps, SetOfOne
<1>2. ASSUME NEW n \in 1..k, n - 1 \in P PROVE n \in P
  <2> DEFINE b == Below(S, n - 1)
             x == IF n \in S THEN <<n>> ELSE <<>>
  <2>1. n - 1 \in Nat /\ (n - 1) + 1 = n
    OBVIOUS
  <2>2. Below(S, n) = b \o x /\ b \in Seq(Numbers)
    <3>1. Below(S, (n - 1) + 1) = Below(S, n - 1) \o (IF (n - 1) + 1 \in S THEN <<(n - 1) + 1>> ELSE <<>>)
          /\ Below(S, n - 1) \in Seq(Numbers)
      BY <2>1, BelowSteps
    <3> QED BY <2>1, <3>1
  <2>3. Talk!ToSet(b) = S \cap (1..(n - 1)) /\ Talk!IsInjective(b)
    BY <1>2
  <2>4. x \in Seq(Numbers) /\ Talk!IsInjective(x) /\ Talk!ToSet(x) = S \cap {n}
    <3>1. n \in Numbers
      BY DEF Numbers
    <3>2. <<>> \in Seq(Numbers) /\ <<n>> \in Seq(Numbers)
      BY <3>1
    <3> QED BY <3>2, SetOfOne
  <2> HIDE DEF b, x
  <2>5. Talk!ToSet(b) \cap Talk!ToSet(x) = {}
    BY <2>3, <2>4
  <2>6. Talk!ToSet(b) \cup Talk!ToSet(x) = S \cap (1..n)
    <3>1. 1..n = (1..(n - 1)) \cup {n}
      BY <2>1
    <3> QED BY <2>3, <2>4, <3>1
  <2>7. Talk!ToSet(b \o x) = Talk!ToSet(b) \cup Talk!ToSet(x) /\ Talk!IsInjective(b \o x)
    BY <2>2, <2>3, <2>4, <2>5, SetOfMore
  <2>8. n \in 0..k
    OBVIOUS
  <2> QED BY <2>2, <2>6, <2>7, <2>8
<1>3. \A n \in 0..k : n \in P
  <2> HIDE DEF P
  <2> QED BY <1>1, <1>2, ByCounting
<1> QED BY <1>3

\* There may be none.
LEMMA BelowNone ==
    ASSUME NEW S, NEW k \in Nat, S \cap (1..k) = {}
    PROVE  Below(S, k) = <<>>
<1>1. Talk!ToSet(Below(S, k)) = {} /\ Below(S, k) \in Seq(Numbers)
  BY BelowIs, BelowSteps
<1>2. Len(Below(S, k)) \in Nat /\ DOMAIN Below(S, k) = 1..Len(Below(S, k))
  BY <1>1, LenProperties
<1>3. ~(1 \in DOMAIN Below(S, k))
  BY <1>1 DEF Talk!ToSet
<1>4. Len(Below(S, k)) = 0
  BY <1>2, <1>3
<1> QED BY <1>1, <1>4, EmptySeq

\* The numbers of two sets, when the second lies above the first.
Precedes(S, T) == S \subseteq Nat /\ T \subseteq Nat /\ \A i \in S, j \in T : i < j

\* Then the numbers of the second come after those of the first.
LEMMA BelowTwo ==
    ASSUME NEW k \in Nat
    PROVE  \A S, T : Precedes(S, T) => Below(S \cup T, k) = Below(S, k) \o Below(T, k)
<1> SUFFICES ASSUME NEW S, NEW T, Precedes(S, T)
             PROVE  Below(S \cup T, k) = Below(S, k) \o Below(T, k)
  OBVIOUS
<1> DEFINE Good(n) == Below(S \cup T, n) = Below(S, n) \o Below(T, n)
           P == {n \in 0..k : Good(n)}
<1>1. 0 \in P
  <2>1. Below(S \cup T, 0) = <<>> /\ Below(S, 0) = <<>> /\ Below(T, 0) = <<>>
    BY BelowSteps
  <2>2. <<>> = <<>> \o <<>> /\ 0 \in 0..k
    OBVIOUS
  <2> HIDE DEF P
  <2>3. Good(0)
    BY <2>1, <2>2
  <2> QED BY <2>2, <2>3 DEF P
<1>2. ASSUME NEW n \in 1..k, n - 1 \in P PROVE n \in P
  <2> DEFINE a == Below(S, n - 1)
             b == Below(T, n - 1)
             x(U) == IF n \in U THEN <<n>> ELSE <<>>
  <2>1. n - 1 \in Nat /\ (n - 1) + 1 = n /\ n \in 0..k
    OBVIOUS
  <2>2. \A U : Below(U, n) = Below(U, n - 1) \o x(U) /\ Below(U, n - 1) \in Seq(Numbers)
    <3> SUFFICES ASSUME NEW U
                 PROVE  Below(U, n) = Below(U, n - 1) \o x(U) /\ Below(U, n - 1) \in Seq(Numbers)
      OBVIOUS
    <3>1. Below(U, (n - 1) + 1) = Below(U, n - 1) \o (IF (n - 1) + 1 \in U THEN <<(n - 1) + 1>> ELSE <<>>)
          /\ Below(U, n - 1) \in Seq(Numbers)
      BY <2>1, BelowSteps
    <3> QED BY <2>1, <3>1
  <2>3. Below(S \cup T, n - 1) = a \o b
    BY <1>2
  <2>4. a \in Seq(Numbers) /\ b \in Seq(Numbers) /\ <<n>> \in Seq(Numbers)
    <3>1. n \in Numbers
      BY DEF Numbers
    <3> QED BY <2>2, <3>1
  <2>5. /\ Below(S \cup T, n) = (a \o b) \o x(S \cup T)
        /\ Below(S, n) = a \o x(S) /\ Below(T, n) = b \o x(T)
    BY <2>2, <2>3
  <2>6. n \in S => b = <<>>
    <3>1. ASSUME n \in S PROVE T \cap (1..(n - 1)) = {}
      BY <3>1 DEF Precedes
    <3> QED BY <2>1, <3>1, BelowNone
  <2>7. ~(n \in S /\ n \in T)
    BY DEF Precedes
  <2> HIDE DEF a, b
  <2>8. CASE n \in S
    <3>1. b \o x(T) = <<>> /\ (a \o b) \o x(S \cup T) = a \o <<n>>
      BY <2>4, <2>6, <2>7, <2>8, ConcatEmptySeq
    <3>2. (a \o <<n>>) \o <<>> = a \o <<n>>
      BY <2>4, ConcatProperties, ConcatEmptySeq
    <3> QED BY <2>1, <2>5, <2>8, <3>1, <3>2
  <2>9. CASE n \in T
    <3>1. x(S \cup T) = <<n>> /\ x(T) = <<n>> /\ x(S) = <<>>
      BY <2>7, <2>9
    <3>2. (a \o b) \o <<n>> = a \o (b \o <<n>>) /\ a \o <<>> = a
      BY <2>4, ConcatAssociative, ConcatEmptySeq
    <3> QED BY <2>1, <2>5, <3>1, <3>2
  <2>10. CASE n \notin S /\ n \notin T
    <3>1. x(S \cup T) = <<>> /\ x(T) = <<>> /\ x(S) = <<>>
      BY <2>10
    <3>2. (a \o b) \o <<>> = a \o b /\ a \o <<>> = a /\ b \o <<>> = b
      BY <2>4, ConcatProperties, ConcatEmptySeq
    <3> QED BY <2>1, <2>5, <3>1, <3>2
  <2> QED BY <2>8, <2>9, <2>10
<1>3. \A n \in 0..k : n \in P
  <2> HIDE DEF P
  <2> QED BY <1>1, <1>2, ByCounting
<1>4. Good(k)
  <2> HIDE DEF Good
  <2> QED BY <1>3
<1> QED BY <1>4

\* The same of all the pieces.
LEMMA InOrderIs ==
    ASSUME Talk!ConversationAssumption, NEW S
    PROVE  /\ Talk!InOrder(S) \in Seq(Numbers)
           /\ Talk!ToSet(Talk!InOrder(S)) = S \cap (1..MaxSaid)
           /\ Talk!IsInjective(Talk!InOrder(S))
           /\ S = {} => Talk!InOrder(S) = <<>>
           /\ \A T : Precedes(S, T) => Talk!InOrder(S \cup T) = Talk!InOrder(S) \o Talk!InOrder(T)
<1>1. MaxSaid \in Nat
  BY DEF Talk!ConversationAssumption
<1>2. \A U : Talk!InOrder(U) = Below(U, MaxSaid)
  BY DEF Talk!InOrder, Below
<1>3. Below(S, MaxSaid) \in Seq(Numbers)
  BY <1>1, BelowSteps
<1>4. S = {} => Below(S, MaxSaid) = <<>>
  BY <1>1, BelowNone
<1>5. ASSUME NEW T, Precedes(S, T)
      PROVE  Talk!InOrder(S \cup T) = Talk!InOrder(S) \o Talk!InOrder(T)
  <2>1. \A k \in Nat : \A U, V : Precedes(U, V) => Below(U \cup V, k) = Below(U, k) \o Below(V, k)
    BY BelowTwo, Zenon
  <2>2. Below(S \cup T, MaxSaid) = Below(S, MaxSaid) \o Below(T, MaxSaid)
    BY <1>1, <1>5, <2>1, Zenon
  <2>3. /\ Talk!InOrder(S \cup T) = Below(S \cup T, MaxSaid)
        /\ Talk!InOrder(S) = Below(S, MaxSaid) /\ Talk!InOrder(T) = Below(T, MaxSaid)
    BY <1>2
  <2> QED BY <2>2, <2>3
<1>6. /\ Talk!ToSet(Below(S, MaxSaid)) = S \cap (1..MaxSaid)
      /\ Talk!IsInjective(Below(S, MaxSaid))
  BY <1>1, BelowIs
<1> QED BY <1>2, <1>3, <1>4, <1>5, <1>6

\* A single number.
LEMMA InOrderOne ==
    ASSUME Talk!ConversationAssumption, NEW n \in 1..MaxSaid
    PROVE  Talk!InOrder({n}) = <<n>>
<1> DEFINE s == Talk!InOrder({n})
<1>1. s \in Seq(Numbers) /\ Talk!ToSet(s) = {n} /\ Talk!IsInjective(s)
  BY InOrderIs
<1>2. Len(s) \in Nat /\ DOMAIN s = 1..Len(s)
  BY <1>1, LenProperties
<1> HIDE DEF s
<1>3. \A i \in 1..Len(s) : s[i] = n
  BY <1>1, <1>2 DEF Talk!ToSet
<1>4. 1 \in 1..Len(s)
  <2>1. PICK i \in DOMAIN s : s[i] = n
    BY <1>1 DEF Talk!ToSet
  <2> QED BY <1>2, <2>1
<1>5. ~(2 \in 1..Len(s))
  BY <1>1, <1>2, <1>3, <1>4 DEF Talk!IsInjective
<1>6. Len(s) = 1 /\ s[1] = n
  BY <1>2, <1>3, <1>4, <1>5
<1>7. <<n>> \in Seq(Numbers) /\ Len(<<n>>) = 1 /\ <<n>>[1] = n
  BY DEF Numbers
<1>8. s = <<n>>
  <2> DEFINE t == <<n>>
  <2>1. t \in Seq(Numbers) /\ Len(t) = 1 /\ t[1] = n
    BY <1>7
  <2> HIDE DEF t
  <2>2. s = t
    BY <1>1, <1>6, <2>1, SeqEqual
  <2> QED BY <2>2 DEF t
<1> QED BY <1>8 DEF s

-----------------------------------------------------------------------------
(* The invariant of the conversation: its types, what it says, and that it *)
(* agrees with the rules of the server's format.                           *)

\* What the variables of a conversation are made of; the wire is the translation of what the
\* client sent.
TalkTyped ==
    /\ client \in Talk!Formats /\ turn \in {"client", "server"}
    /\ said \in Seq(Talk!Kinds) /\ Len(said) <= MaxSaid
    /\ open \subseteq Talk!Pieces("call")
    /\ request \in (IF client = "openai" THEN OpenaiRequests ELSE ClaudeRequests)
    /\ wire # <<>> => wire \in (IF client = "openai" THEN ClaudeRequests ELSE OpenaiRequests)
    /\ turn = "server" =>
          /\ wire = (IF client = "openai" THEN Talk!ToClaude(request) ELSE Talk!ToOpenai(request))
          /\ open = {}

\* The conversation has all that was said, and the results of the calls that are not open.
TalkSays ==
    /\ Talk!Systems(request) = Talk!InOrder(Talk!Pieces("system"))
    /\ Talk!Texts(request) = Talk!InOrder(Talk!Pieces("text"))
    /\ Talk!Thoughts(request) = Talk!InOrder(Talk!Pieces("thinking"))
    /\ Talk!Calls(request) = Talk!InOrder(Talk!Pieces("call"))
    /\ Talk!ToSet(Talk!Results(request)) = Talk!Pieces("call") \ open
    /\ Talk!IsInjective(Talk!Results(request))

\* Calls and results of a message of Claude.
CallsOf(m) == Talk!OfType(m.content, "tool_use")
ResultsOf(m) == Talk!OfType(m.content, "tool_result")

\* The results of a message stand at its head.
HeadsWithResults(m) ==
    ResultsOf(m) = Talk!OfType(SubSeq(m.content, 1, Len(ResultsOf(m))), "tool_result")

\* The calls of the turn before.
CallsBefore(s, i) == IF i = 1 THEN {} ELSE Talk!ToSet(CallsOf(s[i - 1]))

\* A turn has each result of those calls once, but for the missing ones.
Fits(m, calls, missing) ==
    /\ HeadsWithResults(m)
    /\ Talk!IsInjective(CallsOf(m)) /\ Talk!IsInjective(ResultsOf(m))
    /\ Talk!ToSet(ResultsOf(m)) = calls \ missing

\* The turns a Claude server is to read, while calls are open: they alternate, and each has
\* the results of the calls before it, the last one all but the open ones. While it misses
\* some it has nothing else.
TurnsAgree(s, left) ==
    /\ \A i \in 1..Len(s) :
          /\ s[i].role \in {"user", "assistant"}
          /\ i > 1 => s[i].role # s[i - 1].role
          /\ Fits(s[i], CallsBefore(s, i), IF i = Len(s) THEN left ELSE {})
    /\ s = <<>> => left = {}
    /\ s # <<>> /\ s[Len(s)].role = "assistant" => left = Talk!ToSet(CallsOf(s[Len(s)]))
    /\ s # <<>> /\ s[Len(s)].role = "user" /\ left # {} =>
          /\ left \subseteq CallsBefore(s, Len(s))
          /\ Len(s[Len(s)].content) = Len(ResultsOf(s[Len(s)]))

\* The answers to a message are the n messages after it.
AnsweredBy(s, i, n) ==
    /\ i + n <= Len(s)
    /\ \A k \in 1..n : s[i + k].role = "tool"
    /\ i + n < Len(s) => s[i + n + 1].role # "tool"
    /\ {s[i + k].answers : k \in 1..n} = Talk!ToSet(s[i].calls)
    /\ n = Len(s[i].calls)

\* The messages an OpenAI server is to read, while calls are open: those of the last message.
MessagesAgree(s, left) ==
    /\ \A i \in 1..Len(s) : s[i].role # "tool" =>
          /\ Talk!IsInjective(s[i].calls)
          /\ IF i = Len(s) THEN left = Talk!ToSet(s[i].calls) ELSE \E n \in Nat : AnsweredBy(s, i, n)
    /\ s = <<>> => left = {}
    /\ s # <<>> => s[1].role # "tool" /\ (s[Len(s)].role = "tool" => left = {})

\* The calls are answered as the other format wants it.
TalkAgrees ==
    IF client = "openai"
    THEN TurnsAgree(Talk!Merged(Talk!Pending(request.messages)), open)
    ELSE MessagesAgree(Through(request.messages, SplitOf), open)

\* The inductive invariant of a conversation.
TalkInv == TalkTyped /\ TalkSays /\ TalkAgrees /\ Talk!WellFormed

-----------------------------------------------------------------------------
(* Each step adds to the conversation what it says, and loses nothing.     *)

\* What the kinds of new pieces add to the pieces of a kind.
LEMMA MorePieces ==
    ASSUME Talk!ConversationAssumption, said \in Seq(Talk!Kinds), NEW kinds \in Seq(Talk!Kinds),
           Talk!Saying(kinds), NEW kind
    PROVE  /\ said' \in Seq(Talk!Kinds) /\ Len(said') <= MaxSaid
           /\ Talk!NewOf(kinds, kind) \in Seq(Numbers) /\ Talk!IsInjective(Talk!NewOf(kinds, kind))
           /\ Talk!InOrder(Talk!Pieces(kind)') = Talk!InOrder(Talk!Pieces(kind)) \o Talk!NewOf(kinds, kind)
           /\ Talk!Pieces(kind)' = Talk!Pieces(kind) \cup Talk!ToSet(Talk!NewOf(kinds, kind))
           /\ Talk!Pieces(kind) \cap Talk!ToSet(Talk!NewOf(kinds, kind)) = {}
<1> DEFINE n == Len(said)
           new == {i \in (n + 1)..(n + Len(kinds)) : kinds[i - n] = kind}
<1>1. /\ said' = said \o kinds /\ n + Len(kinds) <= MaxSaid /\ n \in Nat /\ Len(kinds) \in Nat
      /\ MaxSaid \in Nat
  BY LenProperties DEF Talk!Saying, Talk!ConversationAssumption
<1>2. said' \in Seq(Talk!Kinds) /\ Len(said') = n + Len(kinds)
      /\ \A i \in 1..(n + Len(kinds)) : said'[i] = IF i <= n THEN said[i] ELSE kinds[i - n]
  BY <1>1, ConcatProperties
<1>3. Talk!NewOf(kinds, kind) = Talk!InOrder(new)
  BY DEF Talk!NewOf, Talk!Fresh
<1>4. Talk!Pieces(kind) = {i \in 1..n : said[i] = kind}
  BY DEF Talk!Pieces
<1>5. Talk!Pieces(kind)' = {i \in 1..(n + Len(kinds)) : said'[i] = kind}
  BY <1>2 DEF Talk!Pieces
<1>6. Talk!Pieces(kind)' = Talk!Pieces(kind) \cup new
  <2>1. ASSUME NEW i PROVE i \in Talk!Pieces(kind)' <=> i \in Talk!Pieces(kind) \cup new
    BY <1>1, <1>2, <1>4, <1>5
  <2> QED BY <2>1
<1>7. Precedes(Talk!Pieces(kind), new) /\ Talk!Pieces(kind) \cap new = {} /\ new \subseteq 1..MaxSaid
  BY <1>1, <1>4 DEF Precedes
<1> HIDE DEF new
<1>8. Talk!InOrder(Talk!Pieces(kind) \cup new) = Talk!InOrder(Talk!Pieces(kind)) \o Talk!InOrder(new)
  BY <1>7, InOrderIs
<1>9. /\ Talk!InOrder(new) \in Seq(Numbers) /\ Talk!ToSet(Talk!InOrder(new)) = new
      /\ Talk!IsInjective(Talk!InOrder(new))
  BY <1>7, InOrderIs
<1> QED BY <1>1, <1>2, <1>3, <1>6, <1>7, <1>8, <1>9

\* One piece more has the next number.
LEMMA NewOfOne ==
    ASSUME Talk!ConversationAssumption, said \in Seq(Talk!Kinds), NEW kind \in Talk!Kinds,
           Talk!Saying(<<kind>>)
    PROVE  /\ Talk!NewOf(<<kind>>, kind) = <<Talk!Fresh>> /\ Talk!Fresh \in Numbers
           /\ \A other : other # kind => Talk!NewOf(<<kind>>, other) = <<>>
<1> DEFINE n == Len(said)
<1>1. n \in Nat /\ n + 1 <= MaxSaid /\ MaxSaid \in Nat
  BY LenProperties DEF Talk!Saying, Talk!ConversationAssumption
<1>2. \A other : {i \in (n + 1)..(n + 1) : <<kind>>[i - n] = other}
                   = IF other = kind THEN {n + 1} ELSE {}
  BY <1>1
<1>3. \A other : Talk!NewOf(<<kind>>, other) = Talk!InOrder(IF other = kind THEN {n + 1} ELSE {})
  BY <1>1, <1>2 DEF Talk!NewOf, Talk!Fresh
<1>4. Talk!InOrder({n + 1}) = <<n + 1>> /\ Talk!InOrder({}) = <<>>
  BY <1>1, InOrderOne, InOrderIs
<1> QED BY <1>1, <1>3, <1>4 DEF Talk!Fresh, Numbers

\* The conversation says what it said, the new pieces, and the results of open calls.
LEMMA SaysMore ==
    ASSUME Talk!ConversationAssumption, TalkTyped, TalkSays,
           NEW kinds \in Seq(Talk!Kinds), Talk!Saying(kinds),
           NEW results \in Seq(Numbers), Talk!IsInjective(results), Talk!ToSet(results) \subseteq open,
           Talk!Systems(request') = Talk!Systems(request) \o Talk!NewOf(kinds, "system"),
           Talk!Texts(request') = Talk!Texts(request) \o Talk!NewOf(kinds, "text"),
           Talk!Thoughts(request') = Talk!Thoughts(request) \o Talk!NewOf(kinds, "thinking"),
           Talk!Calls(request') = Talk!Calls(request) \o Talk!NewOf(kinds, "call"),
           Talk!Results(request) \in Seq(Numbers),
           Talk!Results(request') = Talk!Results(request) \o results,
           open' = (open \ Talk!ToSet(results)) \cup Talk!ToSet(Talk!NewOf(kinds, "call"))
    PROVE  TalkSays' /\ said' \in Seq(Talk!Kinds) /\ Len(said') <= MaxSaid
           /\ open' \subseteq Talk!Pieces("call")'
<1>1. said \in Seq(Talk!Kinds)
  BY DEF TalkTyped
<1>2. \A kind : Talk!InOrder(Talk!Pieces(kind)') = Talk!InOrder(Talk!Pieces(kind)) \o Talk!NewOf(kinds, kind)
  BY <1>1, MorePieces
<1>3. /\ Talk!Pieces("call")' = Talk!Pieces("call") \cup Talk!ToSet(Talk!NewOf(kinds, "call"))
      /\ Talk!Pieces("call") \cap Talk!ToSet(Talk!NewOf(kinds, "call")) = {}
      /\ said' \in Seq(Talk!Kinds) /\ Len(said') <= MaxSaid
  BY <1>1, MorePieces
<1>4. /\ open \subseteq Talk!Pieces("call")
      /\ Talk!ToSet(Talk!Results(request)) = Talk!Pieces("call") \ open
      /\ Talk!IsInjective(Talk!Results(request))
  BY DEF TalkTyped, TalkSays
<1>5. Talk!ToSet(Talk!Results(request)) \cap Talk!ToSet(results) = {}
  BY <1>4
<1>6. /\ Talk!ToSet(Talk!Results(request')) = Talk!ToSet(Talk!Results(request)) \cup Talk!ToSet(results)
      /\ Talk!IsInjective(Talk!Results(request'))
  BY <1>4, <1>5, SetOfMore
<1>7. Talk!ToSet(Talk!Results(request')) = Talk!Pieces("call")' \ open'
  BY <1>3, <1>4, <1>6
<1>8. /\ Talk!Systems(request') = Talk!InOrder(Talk!Pieces("system")')
      /\ Talk!Texts(request') = Talk!InOrder(Talk!Pieces("text")')
      /\ Talk!Thoughts(request') = Talk!InOrder(Talk!Pieces("thinking")')
      /\ Talk!Calls(request') = Talk!InOrder(Talk!Pieces("call")')
  BY <1>2 DEF TalkSays
<1>9. open' \subseteq Talk!Pieces("call")'
  BY <1>3, <1>4
<1> QED BY <1>3, <1>6, <1>7, <1>8, <1>9 DEF TalkSays

\* A request with one message more says what that message says.
LEMMA AddedOpenai ==
    ASSUME NEW r \in OpenaiRequests, NEW m \in FlatMessages,
           NEW q, q = [r EXCEPT !.messages = Append(@, m)]
    PROVE  /\ q \in OpenaiRequests /\ q.messages = Append(r.messages, m)
           /\ Talk!Systems(q) = Talk!Systems(r) \o FlatSystem[m]
           /\ Talk!Texts(q) = Talk!Texts(r) \o FlatTexts[m]
           /\ Talk!Thoughts(q) = Talk!Thoughts(r) \o FlatThoughts[m]
           /\ Talk!Calls(q) = Talk!Calls(r) \o FlatCalls[m]
           /\ Talk!Results(q) = Talk!Results(r) \o FlatResults[m]
<1>1. r.messages \in Seq(FlatMessages)
  BY DEF OpenaiRequests
<1>2. q.messages = Append(r.messages, m) /\ q \in OpenaiRequests
  BY <1>1, AppendProperties DEF OpenaiRequests
<1>3. \A g \in FlatReadings : Through(Append(r.messages, m), g) = Through(r.messages, g) \o g[m]
  BY <1>1, FlatMore
<1> QED BY <1>2, <1>3, OpenaiReads DEF FlatReadings

\* The record of a request, with other messages.
LEMMA MessagesOfRecord ==
    ASSUME NEW S, NEW M, NEW L, NEW B, NEW C, NEW N, N \in M,
           NEW r \in [system : S, messages : M, limit : L, budget : B, serial : C]
    PROVE  /\ [r EXCEPT !.messages = N] \in [system : S, messages : M, limit : L, budget : B, serial : C]
           /\ [r EXCEPT !.messages = N].messages = N
           /\ [r EXCEPT !.messages = N].system = r.system
OBVIOUS

\* The record of a request, with other instructions.
LEMMA SystemOfRecord ==
    ASSUME NEW S, NEW M, NEW L, NEW B, NEW C, NEW N, N \in S,
           NEW r \in [system : S, messages : M, limit : L, budget : B, serial : C]
    PROVE  /\ [r EXCEPT !.system = N] \in [system : S, messages : M, limit : L, budget : B, serial : C]
           /\ [r EXCEPT !.system = N].system = N
           /\ [r EXCEPT !.system = N].messages = r.messages
OBVIOUS

\* A request of Claude with one message more says what that message says.
LEMMA AddedClaude ==
    ASSUME NEW r \in ClaudeRequests, NEW m \in SaneMessages,
           NEW q, q = [r EXCEPT !.messages = Append(@, m)]
    PROVE  /\ q \in ClaudeRequests /\ q.messages = Append(r.messages, m)
           /\ Talk!Systems(q) = Talk!Systems(r)
           /\ Talk!Texts(q) = Talk!Texts(r) \o Talk!OfType(m.content, "text")
           /\ Talk!Thoughts(q) = Talk!Thoughts(r) \o Talk!OfType(m.content, "thinking")
           /\ Talk!Calls(q) = Talk!Calls(r) \o Talk!OfType(m.content, "tool_use")
           /\ Talk!Results(q) = Talk!Results(r) \o Talk!OfType(m.content, "tool_result")
<1>1. r.messages \in Seq(SaneMessages)
  BY DEF ClaudeRequests
<1>2. q.messages = Append(r.messages, m) /\ q \in ClaudeRequests /\ q.system = r.system
  <2> DEFINE S == Seq(Numbers)
             M == Seq(SaneMessages)
             B == {Talk!None, 1280, 2048, 4096}
             Record == [system : S, messages : M, limit : Numbers, budget : B, serial : BOOLEAN]
             N == Append(r.messages, m)
  <2>1. N \in M
    BY <1>1, AppendProperties
  <2>2. ClaudeRequests = Record
    BY DEF ClaudeRequests
  <2> HIDE DEF S, M, B, N
  <2>3. [r EXCEPT !.messages = N] \in Record /\ [r EXCEPT !.messages = N].messages = N
        /\ [r EXCEPT !.messages = N].system = r.system
    BY <2>1, <2>2, MessagesOfRecord
  <2>4. q = [r EXCEPT !.messages = N]
    BY DEF N
  <2> HIDE DEF Record
  <2> QED BY <2>2, <2>3, <2>4 DEF N
<1>3. \A type : Through(Append(r.messages, m), ContentOf(type))
                  = Through(r.messages, ContentOf(type)) \o Talk!OfType(m.content, type)
  <2> SUFFICES ASSUME NEW type
      PROVE Through(Append(r.messages, m), ContentOf(type))
                  = Through(r.messages, ContentOf(type)) \o Talk!OfType(m.content, type)
    OBVIOUS
  <2>1. ContentOf(type)[m] = Talk!OfType(m.content, type)
    BY DEF ContentOf
  <2>2. Gives(ContentOf(type), SaneMessages, Numbers)
    BY ContentIsGiven
  <2> DEFINE g == ContentOf(type)
             msgs == r.messages
  <2>3. Gives(g, SaneMessages, Numbers) /\ msgs \in Seq(SaneMessages)
    BY <1>1, <2>2
  <2> HIDE DEF g, msgs
  <2>4. Through(Append(msgs, m), g) = Through(msgs, g) \o g[m]
    BY <2>3, ThroughOneMore
  <2> QED BY <2>1, <2>4 DEF g, msgs
<1> QED BY <1>2, <1>3, ClaudeReads

\* What a server may say.
Spoke == {"text", "thinking", "call"}

\* The numbers from n + 1 on that the kinds give to one of them.
NumbersFrom(n, kinds, kind) == {i \in (n + 1)..(n + Len(kinds)) : kinds[i - n] = kind}
\* The blocks of an answer of these kinds.
NumberedBlocks(n, kinds) == [i \in DOMAIN kinds |-> Talk!Block(Talk!TypeOfKind(kinds[i]), n + i)]

\* One kind more, one number more.
LEMMA NumbersOneMore ==
    ASSUME Talk!ConversationAssumption, NEW n \in Nat, NEW kinds \in Seq(Spoke), NEW e \in Spoke,
           n + Len(kinds) + 1 <= MaxSaid, NEW kind
    PROVE  Talk!InOrder(NumbersFrom(n, Append(kinds, e), kind))
             = IF e = kind THEN Append(Talk!InOrder(NumbersFrom(n, kinds, kind)), n + Len(kinds) + 1)
               ELSE Talk!InOrder(NumbersFrom(n, kinds, kind))
<1> DEFINE k == n + Len(kinds) + 1
           S == NumbersFrom(n, kinds, kind)
<1>1. Len(kinds) \in Nat /\ MaxSaid \in Nat
  BY LenProperties DEF Talk!ConversationAssumption
<1>2. /\ Len(Append(kinds, e)) = Len(kinds) + 1
      /\ \A i \in 1..Len(kinds) : Append(kinds, e)[i] = kinds[i]
      /\ Append(kinds, e)[Len(kinds) + 1] = e
  BY AppendProperties
<1>3. NumbersFrom(n, Append(kinds, e), kind) = S \cup (IF e = kind THEN {k} ELSE {})
  <2>1. ASSUME NEW i
        PROVE i \in NumbersFrom(n, Append(kinds, e), kind) <=> i \in S \cup (IF e = kind THEN {k} ELSE {})
    <3>1. CASE i \in (n + 1)..(n + Len(kinds))
      <4>1. i - n \in 1..Len(kinds) /\ i # k
        BY <1>1, <3>1
      <4> QED BY <1>1, <1>2, <3>1, <4>1 DEF NumbersFrom
    <3>2. CASE i \notin (n + 1)..(n + Len(kinds))
      BY <1>1, <1>2, <3>2 DEF NumbersFrom
    <3> QED BY <3>1, <3>2
  <2> QED BY <2>1
<1>4. Precedes(S, {k})
  BY <1>1 DEF NumbersFrom, Precedes
<1>5. k \in 1..MaxSaid
  BY <1>1
<1>6. Talk!InOrder(S) \in Seq(Numbers) /\ k \in Numbers
  BY <1>5, InOrderIs DEF Numbers
<1>7. Talk!InOrder({k}) = <<k>>
  BY <1>5, InOrderOne
<1> HIDE DEF S, k
<1>8. Talk!InOrder(S \cup {k}) = Talk!InOrder(S) \o <<k>>
  BY <1>4, <1>7, InOrderIs
<1>9. Talk!InOrder(S) \o <<k>> = Append(Talk!InOrder(S), k)
  BY <1>6
<1> QED BY <1>3, <1>8, <1>9 DEF S, k

\* The blocks of an answer give the numbers of its pieces.
LEMMA NumberedReads ==
    ASSUME Talk!ConversationAssumption, NEW n \in Nat, NEW kinds \in Seq(Spoke),
           n + Len(kinds) <= MaxSaid
    PROVE  /\ NumberedBlocks(n, kinds) \in Seq(ContentBlocks)
           /\ ~Talk!Has(NumberedBlocks(n, kinds), "tool_result")
           /\ \A kind \in Spoke : Talk!OfType(NumberedBlocks(n, kinds), Talk!TypeOfKind(kind))
                                    = Talk!InOrder(NumbersFrom(n, kinds, kind))
           /\ Talk!OfType(NumberedBlocks(n, kinds), "tool_result") = <<>>
<1> DEFINE Good(s) == n + Len(s) <= MaxSaid =>
             /\ NumberedBlocks(n, s) \in Seq(ContentBlocks)
             /\ \A kind \in Spoke : Talk!OfType(NumberedBlocks(n, s), Talk!TypeOfKind(kind))
                                      = Talk!InOrder(NumbersFrom(n, s, kind))
           P == {s \in Seq(Spoke) : Good(s)}
<1>1. <<>> \in P
  <2>1. NumberedBlocks(n, <<>>) = <<>>
    BY DEF NumberedBlocks
  <2>2. \A kind : NumbersFrom(n, <<>>, kind) = {}
    BY DEF NumbersFrom
  <2> QED BY <2>1, <2>2, OfNothing, InOrderIs
<1>2. ASSUME NEW s \in Seq(Spoke), NEW e \in Spoke, s \in P PROVE Append(s, e) \in P
  <2> SUFFICES ASSUME n + Len(Append(s, e)) <= MaxSaid PROVE Good(Append(s, e))
    BY AppendProperties
  <2> DEFINE b == Talk!Block(Talk!TypeOfKind(e), n + Len(s) + 1)
             c == NumberedBlocks(n, s)
  <2>1. /\ Append(s, e) \in Seq(Spoke) /\ Len(Append(s, e)) = Len(s) + 1 /\ Len(s) \in Nat
        /\ \A i \in 1..Len(s) : Append(s, e)[i] = s[i]
        /\ Append(s, e)[Len(s) + 1] = e
    BY AppendProperties, LenProperties
  <2>2. n + Len(s) + 1 <= MaxSaid /\ MaxSaid \in Nat /\ n + Len(s) <= MaxSaid
    BY <2>1 DEF Talk!ConversationAssumption
  <2>3. Good(s)
    BY <1>2
  <2>4. c \in Seq(ContentBlocks) /\ Len(c) = Len(s)
    BY <2>2, <2>3, LenProperties DEF NumberedBlocks
  <2>5. b \in ContentBlocks /\ b.type = Talk!TypeOfKind(e) /\ b.id = n + Len(s) + 1 /\ b.id # 0
    BY <2>1 DEF Talk!Block, Talk!TypeOfKind, ContentBlocks, BlockTypes, Spoke
  <2>6. NumberedBlocks(n, Append(s, e)) = Append(c, b)
    <3>1. DOMAIN Append(s, e) = 1..(Len(s) + 1)
      BY <2>1, LenProperties
    <3>2. \A i \in 1..(Len(s) + 1) : NumberedBlocks(n, Append(s, e))[i]
              = IF i <= Len(s) THEN Talk!Block(Talk!TypeOfKind(s[i]), n + i) ELSE b
      BY <2>1, <3>1 DEF NumberedBlocks
    <3>3. \A i \in 1..Len(s) : c[i] = Talk!Block(Talk!TypeOfKind(s[i]), n + i)
      BY LenProperties DEF NumberedBlocks
    <3> HIDE DEF c, b
    <3>4. /\ DOMAIN Append(c, b) = 1..(Len(s) + 1)
          /\ \A i \in 1..(Len(s) + 1) : Append(c, b)[i] = IF i <= Len(s) THEN c[i] ELSE b
      BY <2>1, <2>4, <2>5, AppendProperties, LenProperties
    <3>5. DOMAIN NumberedBlocks(n, Append(s, e)) = 1..(Len(s) + 1)
      BY <3>1 DEF NumberedBlocks
    <3>6. \A i \in 1..(Len(s) + 1) : NumberedBlocks(n, Append(s, e))[i] = Append(c, b)[i]
      BY <2>1, <3>2, <3>3, <3>4
    <3>7. Append(c, b) \in Seq(ContentBlocks) /\ Len(Append(c, b)) = Len(s) + 1
      BY <2>4, <2>5, AppendProperties
    <3>8. NumberedBlocks(n, Append(s, e)) = [i \in 1..(Len(s) + 1) |-> NumberedBlocks(n, Append(s, e))[i]]
      BY <3>5 DEF NumberedBlocks
    <3>9. Append(c, b) \in [1..(Len(s) + 1) -> ContentBlocks]
      BY <3>7, LenProperties
    <3> QED BY <3>6, <3>8, <3>9
  <2>7. ASSUME NEW kind \in Spoke
        PROVE Talk!OfType(Append(c, b), Talk!TypeOfKind(kind))
                = Talk!InOrder(NumbersFrom(n, Append(s, e), kind))
    <3>1. Talk!TypeOfKind(kind) = Talk!TypeOfKind(e) <=> kind = e
      BY DEF Talk!TypeOfKind, Spoke
    <3>2. Talk!OfType(c, Talk!TypeOfKind(kind)) = Talk!InOrder(NumbersFrom(n, s, kind))
      BY <2>2, <2>3
    <3> HIDE DEF c, b
    <3>3. Talk!OfType(Append(c, b), Talk!TypeOfKind(kind))
            = IF kind = e THEN Append(Talk!OfType(c, Talk!TypeOfKind(kind)), n + Len(s) + 1)
              ELSE Talk!OfType(c, Talk!TypeOfKind(kind))
      BY <2>4, <2>5, <3>1, OfTypeOneMore
    <3> QED BY <2>2, <3>2, <3>3, NumbersOneMore
  <2>8. Append(c, b) \in Seq(ContentBlocks)
    BY <2>4, <2>5, AppendProperties
  <2> QED BY <2>6, <2>7, <2>8
<1> HIDE DEF P
<1>3. \A s \in Seq(Spoke) : s \in P
  BY <1>1, <1>2, ByAppending
<1>4. Good(kinds)
  BY <1>3 DEF P
<1>5. ~Talk!Has(NumberedBlocks(n, kinds), "tool_result")
  <2> SUFFICES ASSUME NEW i \in DOMAIN NumberedBlocks(n, kinds)
               PROVE  NumberedBlocks(n, kinds)[i].type # "tool_result"
    BY DEF Talk!Has
  <2>1. i \in DOMAIN kinds /\ kinds[i] \in Spoke
    BY LenProperties DEF NumberedBlocks
  <2> QED BY <2>1 DEF NumberedBlocks, Talk!Block, Talk!TypeOfKind, Spoke
<1> QED BY <1>4, <1>5, HasNot

\* A message that no tool sent gives what it is made of.
LEMMA MessageIs ==
    ASSUME NEW role \in Speaking \cup {"system"}, NEW texts \in Seq(Numbers),
           NEW reasoning \in Seq(Numbers), NEW calls \in Seq(Numbers),
           role # "assistant" => calls = <<>>, role # "tool",
           NEW m, m = Talk!Message(role, texts, reasoning, calls, Talk!None)
    PROVE  /\ m \in FlatMessages /\ m.role = role /\ m.calls = calls
           /\ FlatSystem[m] = (IF role = "system" THEN texts ELSE <<>>)
           /\ FlatTexts[m] = (IF role = "system" THEN <<>> ELSE texts)
           /\ FlatThoughts[m] = reasoning /\ FlatCalls[m] = calls /\ FlatResults[m] = <<>>
<1>1. m \in FlatMessages
  BY DEF FlatMessages, Talk!Message, Talk!None
<1>2. m.role = role /\ m.texts = texts /\ m.reasoning = reasoning /\ m.calls = calls
  BY DEF Talk!Message
<1> QED BY <1>1, <1>2 DEF FlatSystem, FlatTexts, FlatThoughts, FlatCalls, FlatResults

\* Where the conversation rests is where one may start.
LEMMA RestIsAStart == TalkRests => Talk!Init
<1> SUFFICES ASSUME TalkRests PROVE Talk!Init
  OBVIOUS
<1>1. /\ client \in Talk!Formats /\ client = "openai" /\ wire = <<>> /\ open = {} /\ said = <<>>
      /\ turn = "client"
      /\ request = [messages |-> <<>>, limit |-> Talk!None, effort |-> "none", parallel |-> TRUE]
  BY DEF TalkRests, Talk!Formats
<1>2. Talk!None \in Limits \cup {Talk!None} /\ "none" \in Talk!Efforts \cup {"none"} /\ TRUE \in BOOLEAN
  OBVIOUS
<1> QED BY <1>1, <1>2 DEF Talk!Init

\* Nothing has been said in the beginning.
LEMMA StartOfTalk ==
    ASSUME Talk!ConversationAssumption, Talk!Init
    PROVE  TalkTyped /\ TalkSays
<1>1. /\ client \in Talk!Formats /\ wire = <<>> /\ open = {} /\ said = <<>> /\ turn = "client"
  BY DEF Talk!Init
<1>2. PICK limit \in Limits \cup {Talk!None}, effort \in Talk!Efforts \cup {"none"},
           parallel \in BOOLEAN :
        IF client = "openai"
        THEN request = [messages |-> <<>>, limit |-> limit, effort |-> effort,
                        parallel |-> parallel]
        ELSE request = [system |-> <<>>, messages |-> <<>>, limit |-> Talk!LimitOf(limit),
                        budget |-> Talk!Budget(effort), serial |-> ~parallel]
  BY DEF Talk!Init
<1>3. limit \in Numbers \cup {Talk!None} /\ Talk!LimitOf(limit) \in Numbers
      /\ Talk!Budget(effort) \in {Talk!None, 1280, 2048, 4096}
  BY DEF Talk!ConversationAssumption, Numbers, Talk!LimitOf, Talk!DefaultLimit, Talk!Budget
<1>4. \A kind : Talk!Pieces(kind) = {}
  BY <1>1 DEF Talk!Pieces
<1>5. Talk!InOrder({}) = <<>>
  BY InOrderIs
<1>6. said \in Seq(Talk!Kinds) /\ Len(said) <= MaxSaid
  BY <1>1 DEF Talk!ConversationAssumption
<1>7. /\ request \in (IF client = "openai" THEN OpenaiRequests ELSE ClaudeRequests)
      /\ Talk!Systems(request) = <<>> /\ Talk!Texts(request) = <<>> /\ Talk!Thoughts(request) = <<>>
      /\ Talk!Calls(request) = <<>> /\ Talk!Results(request) = <<>>
  <2>1. CASE client = "openai"
    <3>1. request.messages = <<>>
      BY <1>2, <2>1
    <3>2. request \in OpenaiRequests
      <4> DEFINE M == Seq(FlatMessages)
      <4>1. <<>> \in M
        BY EmptySeq
      <4>2. OpenaiRequests = [messages : M, limit : Numbers \cup {Talk!None},
                              effort : Talk!Efforts \cup {"none"}, parallel : BOOLEAN]
        BY DEF OpenaiRequests
      <4>3. request = [messages |-> <<>>, limit |-> limit, effort |-> effort, parallel |-> parallel]
        BY <1>2, <2>1
      <4> HIDE DEF M
      <4> QED BY <1>3, <4>1, <4>2, <4>3
    <3> QED BY <2>1, <3>1, <3>2, OpenaiReads, ThroughNothing
  <2>2. CASE client # "openai"
    <3>1. request.messages = <<>> /\ request.system = <<>>
      BY <1>2, <2>2
    <3>2. request \in ClaudeRequests
      <4> DEFINE M == Seq(SaneMessages)
                 B == {Talk!None, 1280, 2048, 4096}
      <4>1. <<>> \in M /\ <<>> \in Seq(Numbers)
        BY EmptySeq
      <4>4. (~parallel) \in BOOLEAN
        OBVIOUS
      <4>5. Talk!Budget(effort) \in B
        BY <1>3
      <4>2. ClaudeRequests = [system : Seq(Numbers), messages : M, limit : Numbers, budget : B,
                              serial : BOOLEAN]
        BY DEF ClaudeRequests
      <4>3. request = [system |-> <<>>, messages |-> <<>>, limit |-> Talk!LimitOf(limit),
                       budget |-> Talk!Budget(effort), serial |-> ~parallel]
        BY <1>2, <2>2
      <4> HIDE DEF M, B
      <4> QED BY <1>3, <4>1, <4>2, <4>3, <4>4, <4>5
    <3> QED BY <2>2, <3>1, <3>2, ClaudeReads, ThroughNothing
  <2> QED BY <2>1, <2>2
<1> QED BY <1>1, <1>4, <1>5, <1>6, <1>7, SetOfOne DEF TalkTyped, TalkSays

\* What the conversation is read as, by the format of the client.
LEMMA Readings ==
    ASSUME TalkTyped
    PROVE  /\ client = "openai" => request \in OpenaiRequests
           /\ client # "openai" => client = "claude" /\ request \in ClaudeRequests
           /\ Talk!Results(request) \in Seq(Numbers)
           /\ said \in Seq(Talk!Kinds) /\ Len(said) \in Nat
<1>1. /\ client = "openai" => request \in OpenaiRequests
      /\ client # "openai" => client = "claude" /\ request \in ClaudeRequests
  BY DEF TalkTyped, Talk!Formats
<1>2. Talk!Results(request) \in Seq(Numbers)
  <2>1. CASE client = "openai"
    BY <1>1, <2>1, OpenaiReads, FlatIsGiven, ThroughIsSeq
  <2>2. CASE client # "openai"
    BY <1>1, <2>2, ClaudeReads, ContentIsGiven, ThroughIsSeq
  <2> QED BY <2>1, <2>2
<1> QED BY <1>1, <1>2, LenProperties DEF TalkTyped

\* One message more, and the pieces and the results in it.
LEMMA TalkGoesOn ==
    ASSUME Talk!ConversationAssumption, TalkTyped, TalkSays,
           NEW kinds \in Seq(Talk!Kinds), Talk!Saying(kinds),
           NEW results \in Seq(Numbers), Talk!IsInjective(results), Talk!ToSet(results) \subseteq open,
           NEW m, request' = [request EXCEPT !.messages = Append(@, m)],
           client = "openai" => m \in FlatMessages
                /\ FlatSystem[m] = Talk!NewOf(kinds, "system")
                /\ FlatTexts[m] = Talk!NewOf(kinds, "text")
                /\ FlatThoughts[m] = Talk!NewOf(kinds, "thinking")
                /\ FlatCalls[m] = Talk!NewOf(kinds, "call")
                /\ FlatResults[m] = results,
           client # "openai" => m \in SaneMessages
                /\ Talk!NewOf(kinds, "system") = <<>>
                /\ Talk!OfType(m.content, "text") = Talk!NewOf(kinds, "text")
                /\ Talk!OfType(m.content, "thinking") = Talk!NewOf(kinds, "thinking")
                /\ Talk!OfType(m.content, "tool_use") = Talk!NewOf(kinds, "call")
                /\ Talk!OfType(m.content, "tool_result") = results,
           open' = (open \ Talk!ToSet(results)) \cup Talk!ToSet(Talk!NewOf(kinds, "call")),
           client' = client, wire' = wire, turn' = "client"
    PROVE  TalkTyped' /\ TalkSays'
<1>1. /\ request' \in (IF client = "openai" THEN OpenaiRequests ELSE ClaudeRequests)
      /\ Talk!Systems(request') = Talk!Systems(request) \o Talk!NewOf(kinds, "system")
      /\ Talk!Texts(request') = Talk!Texts(request) \o Talk!NewOf(kinds, "text")
      /\ Talk!Thoughts(request') = Talk!Thoughts(request) \o Talk!NewOf(kinds, "thinking")
      /\ Talk!Calls(request') = Talk!Calls(request) \o Talk!NewOf(kinds, "call")
      /\ Talk!Results(request') = Talk!Results(request) \o results
  <2>1. CASE client = "openai"
    <3>1. request \in OpenaiRequests
      BY <2>1, Readings
    <3> QED BY <2>1, <3>1, AddedOpenai
  <2>2. CASE client # "openai"
    <3>1. request \in ClaudeRequests
      BY <2>2, Readings
    <3>2. /\ request' \in ClaudeRequests
          /\ Talk!Systems(request') = Talk!Systems(request)
          /\ Talk!Texts(request') = Talk!Texts(request) \o Talk!NewOf(kinds, "text")
          /\ Talk!Thoughts(request') = Talk!Thoughts(request) \o Talk!NewOf(kinds, "thinking")
          /\ Talk!Calls(request') = Talk!Calls(request) \o Talk!NewOf(kinds, "call")
          /\ Talk!Results(request') = Talk!Results(request) \o results
      BY <2>2, <3>1, AddedClaude
    <3>3. Talk!Systems(request) \in Seq(Numbers) /\ Talk!NewOf(kinds, "system") = <<>>
      BY <2>2, <3>1, ClaudeReads DEF ClaudeRequests
    <3>4. Talk!Systems(request) \o Talk!NewOf(kinds, "system") = Talk!Systems(request)
      BY <3>3, ConcatEmptySeq
    <3> QED BY <2>2, <3>2, <3>4
  <2> QED BY <2>1, <2>2
<1>2. TalkSays' /\ said' \in Seq(Talk!Kinds) /\ Len(said') <= MaxSaid
      /\ open' \subseteq Talk!Pieces("call")'
  BY <1>1, Readings, SaysMore
<1>3. TalkTyped'
  BY <1>1, <1>2 DEF TalkTyped
<1> QED BY <1>2, <1>3

\* A message of results, and text after them.
UserMessage(results, texts) ==
    [role |-> "user", content |-> Talk!Blocks("tool_result", results) \o Talk!Blocks("text", texts)]

\* No numbers, no blocks.
LEMMA NoBlocks == \A type : Talk!Blocks(type, <<>>) = <<>>
  BY DEF Talk!Blocks

\* One number, one block.
LEMMA OneOfBlocks == \A type, n : Talk!Blocks(type, <<n>>) = <<Talk!Block(type, n)>>
<1> SUFFICES ASSUME NEW type, NEW n PROVE Talk!Blocks(type, <<n>>) = <<Talk!Block(type, n)>>
  OBVIOUS
<1>1. Talk!Blocks(type, <<n>>) = [i \in {1} |-> Talk!Block(type, n)]
  BY DEF Talk!Blocks
<1> HIDE DEF Talk!Block
<1> DEFINE b == Talk!Block(type, n)
<1>2. <<b>> = [i \in {1} |-> b]
  OBVIOUS
<1> QED BY <1>1, <1>2

\* Blocks have the type they were made with.
LEMMA BlocksHave ==
    ASSUME NEW type, NEW s, NEW other, Talk!Has(Talk!Blocks(type, s), other)
    PROVE  other = type
  BY DEF Talk!Has, Talk!Blocks, Talk!Block

\* What two contents have, one after the other.
LEMMA HasTwo ==
    ASSUME NEW c \in Seq(ContentBlocks), NEW d \in Seq(ContentBlocks), NEW type
    PROVE  Talk!Has(c \o d, type) <=> Talk!Has(c, type) \/ Talk!Has(d, type)
<1>1. /\ Len(c) \in Nat /\ Len(d) \in Nat
      /\ DOMAIN c = 1..Len(c) /\ DOMAIN d = 1..Len(d)
      /\ DOMAIN (c \o d) = 1..(Len(c) + Len(d))
      /\ \A i \in 1..(Len(c) + Len(d)) : (c \o d)[i] = IF i <= Len(c) THEN c[i] ELSE d[i - Len(c)]
  BY ConcatProperties, LenProperties
<1>2. ASSUME Talk!Has(c \o d, type) PROVE Talk!Has(c, type) \/ Talk!Has(d, type)
  <2>1. PICK i \in 1..(Len(c) + Len(d)) : (c \o d)[i].type = type
    BY <1>1, <1>2 DEF Talk!Has
  <2>2. CASE i <= Len(c)
    BY <1>1, <2>1, <2>2 DEF Talk!Has
  <2>3. CASE ~(i <= Len(c))
    <3>1. i - Len(c) \in 1..Len(d) /\ d[i - Len(c)].type = type
      BY <1>1, <2>1, <2>3
    <3> QED BY <1>1, <3>1 DEF Talk!Has
  <2> QED BY <2>2, <2>3
<1>3. ASSUME Talk!Has(c, type) PROVE Talk!Has(c \o d, type)
  <2>1. PICK i \in 1..Len(c) : c[i].type = type
    BY <1>1, <1>3 DEF Talk!Has
  <2>2. i \in 1..(Len(c) + Len(d)) /\ (c \o d)[i].type = type
    BY <1>1, <2>1
  <2> QED BY <1>1, <2>2 DEF Talk!Has
<1>4. ASSUME Talk!Has(d, type) PROVE Talk!Has(c \o d, type)
  <2>1. PICK i \in 1..Len(d) : d[i].type = type
    BY <1>1, <1>4 DEF Talk!Has
  <2> DEFINE j == Len(c) + i
  <2>2. j \in 1..(Len(c) + Len(d)) /\ ~(j <= Len(c)) /\ j - Len(c) = i
    BY <1>1
  <2>3. (c \o d)[j].type = type
    BY <1>1, <2>1, <2>2
  <2> QED BY <1>1, <2>2, <2>3 DEF Talk!Has
<1> QED BY <1>2, <1>3, <1>4

\* It gives the results and the texts it was made of.
LEMMA UserMessageIs ==
    ASSUME NEW results \in Seq(Numbers), NEW texts \in Seq(Numbers),
           NEW m, m = UserMessage(results, texts)
    PROVE  /\ m \in SaneMessages /\ m.role = "user"
           /\ Talk!OfType(m.content, "tool_result") = results
           /\ Talk!OfType(m.content, "text") = texts
           /\ Talk!OfType(m.content, "thinking") = <<>> /\ Talk!OfType(m.content, "tool_use") = <<>>
<1> DEFINE c == Talk!Blocks("tool_result", results)
           d == Talk!Blocks("text", texts)
<1>1. /\ c \in Seq(ContentBlocks) /\ d \in Seq(ContentBlocks)
      /\ \A t : Talk!OfType(c, t) = IF t = "tool_result" THEN results ELSE <<>>
      /\ \A t : Talk!OfType(d, t) = IF t = "text" THEN texts ELSE <<>>
  BY BlocksGiveBack DEF BlockTypes
<1>2. ~Talk!Has(c, "tool_use") /\ ~Talk!Has(d, "tool_use")
  BY BlocksHave
<1>3. m.role = "user" /\ m.content = c \o d /\ m = [role |-> "user", content |-> c \o d]
  BY DEF UserMessage
<1> HIDE DEF c, d
<1>4. c \o d \in Seq(ContentBlocks) /\ \A t : Talk!OfType(c \o d, t) = Talk!OfType(c, t) \o Talk!OfType(d, t)
  BY <1>1, OfTypeTwo
<1>5. ~Talk!Has(c \o d, "tool_use")
  BY <1>1, <1>2, HasTwo
<1>6. m \in SaneMessages
  BY <1>3, <1>4, <1>5 DEF SaneMessages, ClaudeMessages, Sane, Speaking
<1>7. results \o <<>> = results /\ <<>> \o texts = texts
  BY ConcatEmptySeq
<1>8. <<>> \o <<>> = <<>>
  BY EmptySeq, ConcatEmptySeq
<1> QED BY <1>1, <1>3, <1>4, <1>6, <1>7, <1>8

\* What a Claude client owes: the results of the open calls.
LEMMA OwedIs ==
    ASSUME Talk!ConversationAssumption, TalkTyped
    PROVE  /\ Talk!InOrder(open) \in Seq(Numbers) /\ Talk!IsInjective(Talk!InOrder(open))
           /\ Talk!ToSet(Talk!InOrder(open)) = open
<1>1. open \subseteq 1..MaxSaid
  BY LenProperties DEF TalkTyped, Talk!Pieces, Talk!ConversationAssumption
<1> QED BY <1>1, InOrderIs

\* Nothing new is nothing.
LEMMA NewOfNothing ==
    ASSUME Talk!ConversationAssumption, said \in Seq(Talk!Kinds)
    PROVE  \A kind : Talk!NewOf(<<>>, kind) = <<>>
<1>1. Len(said) \in Nat /\ Len(<<>>) = 0
  BY LenProperties, EmptySeq
<1>2. \A kind : {i \in Talk!Fresh..(Len(said) + Len(<<>>)) : <<>>[i - Len(said)] = kind} = {}
  BY <1>1 DEF Talk!Fresh
<1> QED BY <1>2, InOrderIs DEF Talk!NewOf

\* The roles of a client are not those of the others.
LEMMA SpeakersAre ==
    ASSUME Talk!ConversationAssumption, NEW role \in Speakers
    PROVE  role \in Speaking /\ role \notin {"system", "assistant", "tool"}
  BY DEF Talk!ConversationAssumption, Speaking

\* A message of one text.
LEMMA WordIs ==
    ASSUME NEW role \in Speaking \cup {"system"}, role # "tool", NEW n \in Numbers,
           NEW m, m = Talk!Message(role, <<n>>, <<>>, <<>>, Talk!None)
    PROVE  /\ m \in FlatMessages
           /\ FlatSystem[m] = (IF role = "system" THEN <<n>> ELSE <<>>)
           /\ FlatTexts[m] = (IF role = "system" THEN <<>> ELSE <<n>>)
           /\ FlatThoughts[m] = <<>> /\ FlatCalls[m] = <<>> /\ FlatResults[m] = <<>>
<1> DEFINE text == <<n>>
           nothing == <<>>
<1>1. text \in Seq(Numbers) /\ nothing \in Seq(Numbers) /\ nothing = <<>>
  BY EmptySeq
<1>2. m = Talk!Message(role, text, nothing, nothing, Talk!None)
  OBVIOUS
<1> HIDE DEF text, nothing
<1> SUFFICES /\ m \in FlatMessages
             /\ FlatSystem[m] = (IF role = "system" THEN text ELSE <<>>)
             /\ FlatTexts[m] = (IF role = "system" THEN <<>> ELSE text)
             /\ FlatThoughts[m] = nothing /\ FlatCalls[m] = nothing /\ FlatResults[m] = <<>>
  BY <1>1 DEF text
<1>3. m \in FlatMessages
  BY <1>1, <1>2 DEF FlatMessages, Talk!Message, Talk!None
<1>4. m.role = role /\ m.texts = text /\ m.reasoning = nothing /\ m.calls = nothing
  BY <1>2 DEF Talk!Message
<1> QED BY <1>1, <1>3, <1>4 DEF FlatSystem, FlatTexts, FlatThoughts, FlatCalls, FlatResults

\* What a client says is in the conversation (of Claude, with the results it owes).
LEMMA SayKeeps ==
    ASSUME Talk!ConversationAssumption, TalkTyped, TalkSays, NEW role \in Speakers, Talk!Say(role)
    PROVE  TalkTyped' /\ TalkSays'
<1> DEFINE kinds == <<"text">>
<1>1. kinds \in Seq(Talk!Kinds) /\ Talk!Saying(kinds) /\ "text" \in Talk!Kinds
      /\ said \in Seq(Talk!Kinds)
  BY DEF Talk!Say, Talk!Kinds, TalkTyped
<1>2. /\ Talk!NewOf(kinds, "text") = <<Talk!Fresh>> /\ Talk!NewOf(kinds, "system") = <<>>
      /\ Talk!NewOf(kinds, "thinking") = <<>> /\ Talk!NewOf(kinds, "call") = <<>>
      /\ Talk!Fresh \in Numbers
  BY <1>1, NewOfOne
<1>3. /\ client' = client /\ wire' = wire /\ turn' = "client" /\ open' = {}
  BY DEF Talk!Say
<1>4. Talk!ToSet(<<>>) = {} /\ Talk!IsInjective(<<>>)
  BY SetOfOne
<1>5. <<Talk!Fresh>> \in Seq(Numbers) /\ <<>> \in Seq(Numbers)
  BY <1>2, EmptySeq
<1>6. CASE client = "openai"
  <2> DEFINE m == Talk!Message(role, <<Talk!Fresh>>, <<>>, <<>>, Talk!None)
  <2>1. open = {} /\ request' = [request EXCEPT !.messages = Append(@, m)]
    BY <1>6 DEF Talk!Say, Talk!Added
  <2>2. /\ m \in FlatMessages /\ FlatSystem[m] = <<>> /\ FlatTexts[m] = <<Talk!Fresh>>
        /\ FlatThoughts[m] = <<>> /\ FlatCalls[m] = <<>> /\ FlatResults[m] = <<>>
    <3>1. role \in Speaking \cup {"system"} /\ role # "system" /\ role # "tool"
      BY SpeakersAre
    <3>2. m = Talk!Message(role, <<Talk!Fresh>>, <<>>, <<>>, Talk!None)
      OBVIOUS
    <3> HIDE DEF m
    <3> QED BY <1>2, <3>1, <3>2, WordIs
  <2> HIDE DEF m, kinds
  <2>3. open' = (open \ Talk!ToSet(<<>>)) \cup Talk!ToSet(Talk!NewOf(kinds, "call"))
    BY <1>2, <1>3, <1>4, <2>1
  <2> QED BY <1>1, <1>2, <1>3, <1>4, <1>5, <1>6, <2>1, <2>2, <2>3, TalkGoesOn
<1>7. CASE client # "openai"
  <2> DEFINE owed == Talk!InOrder(open)
             m == UserMessage(owed, <<Talk!Fresh>>)
  <2>1. request' = [request EXCEPT !.messages = Append(@, m)]
    BY <1>7, OneOfBlocks DEF Talk!Say, Talk!Added, UserMessage
  <2>2. owed \in Seq(Numbers) /\ Talk!IsInjective(owed) /\ Talk!ToSet(owed) = open
    BY OwedIs
  <2> HIDE DEF owed
  <2>3. /\ m \in SaneMessages /\ Talk!OfType(m.content, "tool_result") = owed
        /\ Talk!OfType(m.content, "text") = <<Talk!Fresh>>
        /\ Talk!OfType(m.content, "thinking") = <<>> /\ Talk!OfType(m.content, "tool_use") = <<>>
    <3> DEFINE texts == <<Talk!Fresh>>
    <3>1. texts \in Seq(Numbers) /\ m = UserMessage(owed, texts)
      BY <1>5
    <3> HIDE DEF texts, m
    <3>2. /\ m \in SaneMessages /\ Talk!OfType(m.content, "tool_result") = owed
          /\ Talk!OfType(m.content, "text") = texts
          /\ Talk!OfType(m.content, "thinking") = <<>> /\ Talk!OfType(m.content, "tool_use") = <<>>
      BY <2>2, <3>1, UserMessageIs
    <3> QED BY <3>2 DEF texts
  <2> HIDE DEF m, kinds
  <2>4. open' = (open \ Talk!ToSet(owed)) \cup Talk!ToSet(Talk!NewOf(kinds, "call"))
    BY <1>2, <1>3, <1>4, <2>2
  <2> QED BY <1>1, <1>2, <1>3, <1>7, <2>1, <2>2, <2>3, <2>4, TalkGoesOn
<1> QED BY <1>6, <1>7

\* So is an answer the client made up.
LEMMA GreetKeeps ==
    ASSUME Talk!ConversationAssumption, TalkTyped, TalkSays, Talk!Greet
    PROVE  TalkTyped' /\ TalkSays'
<1> DEFINE kinds == <<"text">>
           m == Talk!Message("assistant", <<Talk!Fresh>>, <<>>, <<>>, Talk!None)
<1>1. kinds \in Seq(Talk!Kinds) /\ Talk!Saying(kinds) /\ "text" \in Talk!Kinds
      /\ said \in Seq(Talk!Kinds)
  BY DEF Talk!Greet, Talk!Kinds, TalkTyped
<1>2. /\ Talk!NewOf(kinds, "text") = <<Talk!Fresh>> /\ Talk!NewOf(kinds, "system") = <<>>
      /\ Talk!NewOf(kinds, "thinking") = <<>> /\ Talk!NewOf(kinds, "call") = <<>>
      /\ Talk!Fresh \in Numbers
  BY <1>1, NewOfOne
<1>3. /\ client' = client /\ wire' = wire /\ turn' = "client" /\ open' = open
      /\ client = "openai" /\ request' = [request EXCEPT !.messages = Append(@, m)]
  BY DEF Talk!Greet, Talk!Added
<1>4. Talk!ToSet(<<>>) = {} /\ Talk!IsInjective(<<>>)
  BY SetOfOne
<1>5. <<Talk!Fresh>> \in Seq(Numbers) /\ <<>> \in Seq(Numbers)
  BY <1>2, EmptySeq
<1>6. /\ m \in FlatMessages /\ FlatSystem[m] = <<>> /\ FlatTexts[m] = <<Talk!Fresh>>
      /\ FlatThoughts[m] = <<>> /\ FlatCalls[m] = <<>> /\ FlatResults[m] = <<>>
  <2>1. "assistant" \in Speaking \cup {"system"}
    BY DEF Speaking
  <2>2. m = Talk!Message("assistant", <<Talk!Fresh>>, <<>>, <<>>, Talk!None)
    OBVIOUS
  <2> HIDE DEF m
  <2> QED BY <1>2, <2>1, <2>2, WordIs
<1> HIDE DEF m, kinds
<1>7. open' = (open \ Talk!ToSet(<<>>)) \cup Talk!ToSet(Talk!NewOf(kinds, "call"))
  BY <1>2, <1>3, <1>4
<1> QED BY <1>1, <1>2, <1>3, <1>4, <1>5, <1>6, <1>7, TalkGoesOn

\* OpenAI's instructions are messages, Claude's stand apart.
LEMMA InstructKeeps ==
    ASSUME Talk!ConversationAssumption, TalkTyped, TalkSays, Talk!Instruct
    PROVE  TalkTyped' /\ TalkSays'
<1> DEFINE kinds == <<"system">>
<1>1. kinds \in Seq(Talk!Kinds) /\ Talk!Saying(kinds) /\ "system" \in Talk!Kinds
      /\ said \in Seq(Talk!Kinds)
  BY DEF Talk!Instruct, Talk!Kinds, TalkTyped
<1>2. /\ Talk!NewOf(kinds, "system") = <<Talk!Fresh>> /\ Talk!NewOf(kinds, "text") = <<>>
      /\ Talk!NewOf(kinds, "thinking") = <<>> /\ Talk!NewOf(kinds, "call") = <<>>
      /\ Talk!Fresh \in Numbers
  BY <1>1, NewOfOne
<1>3. /\ client' = client /\ wire' = wire /\ turn' = "client" /\ open' = open
  BY DEF Talk!Instruct
<1>4. Talk!ToSet(<<>>) = {} /\ Talk!IsInjective(<<>>)
  BY SetOfOne
<1>5. <<Talk!Fresh>> \in Seq(Numbers) /\ <<>> \in Seq(Numbers)
  BY <1>2, EmptySeq
<1>6. open' = (open \ Talk!ToSet(<<>>)) \cup Talk!ToSet(Talk!NewOf(kinds, "call"))
  BY <1>2, <1>3, <1>4
<1>7. CASE client = "openai"
  <2> DEFINE m == Talk!Message("system", <<Talk!Fresh>>, <<>>, <<>>, Talk!None)
  <2>1. request' = [request EXCEPT !.messages = Append(@, m)]
    BY <1>7 DEF Talk!Instruct, Talk!Added
  <2>2. /\ m \in FlatMessages /\ FlatSystem[m] = <<Talk!Fresh>> /\ FlatTexts[m] = <<>>
        /\ FlatThoughts[m] = <<>> /\ FlatCalls[m] = <<>> /\ FlatResults[m] = <<>>
    <3>1. m = Talk!Message("system", <<Talk!Fresh>>, <<>>, <<>>, Talk!None)
      OBVIOUS
    <3> HIDE DEF m
    <3> QED BY <1>2, <3>1, WordIs
  <2> HIDE DEF m, kinds
  <2> QED BY <1>1, <1>2, <1>3, <1>4, <1>5, <1>6, <1>7, <2>1, <2>2, TalkGoesOn
<1>8. CASE client # "openai"
  <2>1. request \in ClaudeRequests /\ Talk!Results(request) \in Seq(Numbers)
    BY <1>8, Readings
  <2>2. request' = [request EXCEPT !.system = Append(@, Talk!Fresh)]
    BY <1>8 DEF Talk!Instruct
  <2>3. request' \in ClaudeRequests /\ request'.messages = request.messages
        /\ request'.system = Append(request.system, Talk!Fresh)
    <3> DEFINE S == Seq(Numbers)
               M == Seq(SaneMessages)
               B == {Talk!None, 1280, 2048, 4096}
               Record == [system : S, messages : M, limit : Numbers, budget : B, serial : BOOLEAN]
               N == Append(request.system, Talk!Fresh)
    <3>1. ClaudeRequests = Record
      BY DEF ClaudeRequests
    <3>2. N \in S
      BY <1>2, <2>1, AppendProperties DEF ClaudeRequests
    <3> HIDE DEF S, M, B, N
    <3>3. [request EXCEPT !.system = N] \in Record /\ [request EXCEPT !.system = N].system = N
          /\ [request EXCEPT !.system = N].messages = request.messages
      BY <2>1, <3>1, <3>2, SystemOfRecord
    <3>4. request' = [request EXCEPT !.system = N]
      BY <2>2 DEF N
    <3> HIDE DEF Record
    <3> QED BY <3>1, <3>3, <3>4 DEF N
  <2>4. request.system \in Seq(Numbers) /\ Append(request.system, Talk!Fresh) = request.system \o <<Talk!Fresh>>
    BY <1>2, <2>1 DEF ClaudeRequests
  <2>5. /\ Talk!Systems(request') = Talk!Systems(request) \o <<Talk!Fresh>>
        /\ Talk!Texts(request') = Talk!Texts(request) /\ Talk!Thoughts(request') = Talk!Thoughts(request)
        /\ Talk!Calls(request') = Talk!Calls(request) /\ Talk!Results(request') = Talk!Results(request)
    BY <2>1, <2>3, <2>4, ClaudeReads
  <2>6. /\ Talk!Texts(request) \in Seq(Numbers) /\ Talk!Thoughts(request) \in Seq(Numbers)
        /\ Talk!Calls(request) \in Seq(Numbers)
    BY <2>1, ClaudeReads, ContentIsGiven, ThroughIsSeq
  <2>7. /\ Talk!Texts(request) \o <<>> = Talk!Texts(request)
        /\ Talk!Thoughts(request) \o <<>> = Talk!Thoughts(request)
        /\ Talk!Calls(request) \o <<>> = Talk!Calls(request)
        /\ Talk!Results(request) \o <<>> = Talk!Results(request)
    BY <2>1, <2>6, ConcatEmptySeq
  <2> HIDE DEF kinds
  <2>8. TalkSays' /\ said' \in Seq(Talk!Kinds) /\ Len(said') <= MaxSaid
        /\ open' \subseteq Talk!Pieces("call")'
    BY <1>1, <1>2, <1>4, <1>5, <1>6, <2>1, <2>5, <2>7, SaysMore
  <2> QED BY <1>3, <1>8, <2>3, <2>8 DEF TalkTyped
<1> QED BY <1>7, <1>8

\* A result closes its call, and is there once.
LEMMA AnswerCallKeeps ==
    ASSUME Talk!ConversationAssumption, TalkTyped, TalkSays, NEW c \in open, Talk!AnswerCall(c)
    PROVE  TalkTyped' /\ TalkSays'
<1>1. /\ client' = client /\ wire' = wire /\ turn' = "client" /\ said' = said
      /\ said \in Seq(Talk!Kinds) /\ Len(said) <= MaxSaid
  BY DEF Talk!AnswerCall, TalkTyped
<1>2. <<>> \in Seq(Talk!Kinds) /\ Talk!Saying(<<>>)
  BY <1>1, EmptySeq, LenProperties, ConcatEmptySeq DEF Talk!Saying
<1>3. \A kind : Talk!NewOf(<<>>, kind) = <<>>
  BY <1>1, NewOfNothing
<1>4. /\ Talk!InOrder(open) \in Seq(Numbers) /\ Talk!IsInjective(Talk!InOrder(open))
      /\ Talk!ToSet(Talk!InOrder(open)) = open
  BY OwedIs
<1>5. Talk!ToSet(<<>>) = {} /\ Talk!ToSet(<<c>>) = {c} /\ Talk!IsInjective(<<c>>)
  BY SetOfOne
<1>6. CASE client = "openai"
  <2> DEFINE m == ToolMessage(c)
  <2>1. open' = open \ {c} /\ request' = [request EXCEPT !.messages = Append(@, m)]
    BY <1>6 DEF Talk!AnswerCall, Talk!Added, ToolMessage
  <2>2. c \in Numbers
    BY LenProperties DEF TalkTyped, Talk!Pieces, Numbers
  <2>3. /\ m \in FlatMessages /\ FlatSystem[m] = <<>> /\ FlatTexts[m] = <<>>
        /\ FlatThoughts[m] = <<>> /\ FlatCalls[m] = <<>> /\ FlatResults[m] = <<c>>
    BY <2>2, ToolMessageIs DEF FlatThoughts, ToolMessage, Talk!Message
  <2> HIDE DEF m
  <2>4. open' = (open \ Talk!ToSet(<<c>>)) \cup Talk!ToSet(Talk!NewOf(<<>>, "call"))
    BY <1>3, <1>5, <2>1
  <2>5. <<c>> \in Seq(Numbers) /\ Talk!ToSet(<<c>>) \subseteq open
    BY <1>5, <2>2
  <2> DEFINE results == <<c>>
             kinds == <<>>
  <2>6. /\ results \in Seq(Numbers) /\ Talk!ToSet(results) \subseteq open /\ Talk!IsInjective(results)
        /\ FlatResults[m] = results /\ kinds \in Seq(Talk!Kinds) /\ Talk!Saying(kinds)
        /\ \A kind : Talk!NewOf(kinds, kind) = <<>>
        /\ open' = (open \ Talk!ToSet(results)) \cup Talk!ToSet(Talk!NewOf(kinds, "call"))
    BY <1>2, <1>3, <1>5, <2>3, <2>4, <2>5
  <2> HIDE DEF results, kinds
  <2> QED BY <1>1, <1>6, <2>1, <2>3, <2>6, TalkGoesOn
<1>7. CASE client # "openai"
  <2> DEFINE owed == Talk!InOrder(open)
             m == UserMessage(owed, <<>>)
  <2>1. Talk!Blocks("tool_result", owed) \o Talk!Blocks("text", <<>>) = Talk!Blocks("tool_result", owed)
    BY <1>4, NoBlocks, BlocksGiveBack, ConcatEmptySeq DEF BlockTypes
  <2>2. open' = {} /\ request' = [request EXCEPT !.messages = Append(@, m)]
    BY <1>7, <2>1 DEF Talk!AnswerCall, Talk!Added, UserMessage
  <2>3. <<>> \in Seq(Numbers)
    BY EmptySeq
  <2> HIDE DEF owed
  <2>4. /\ m \in SaneMessages /\ Talk!OfType(m.content, "tool_result") = owed
        /\ Talk!OfType(m.content, "text") = <<>>
        /\ Talk!OfType(m.content, "thinking") = <<>> /\ Talk!OfType(m.content, "tool_use") = <<>>
    <3> DEFINE texts == <<>>
    <3>1. texts \in Seq(Numbers) /\ m = UserMessage(owed, texts) /\ owed \in Seq(Numbers)
      BY <1>4, <2>3 DEF owed
    <3> HIDE DEF texts, m
    <3>2. /\ m \in SaneMessages /\ Talk!OfType(m.content, "tool_result") = owed
          /\ Talk!OfType(m.content, "text") = texts
          /\ Talk!OfType(m.content, "thinking") = <<>> /\ Talk!OfType(m.content, "tool_use") = <<>>
      BY <3>1, UserMessageIs
    <3> QED BY <3>2 DEF texts
  <2> HIDE DEF m
  <2>5. open' = (open \ Talk!ToSet(owed)) \cup Talk!ToSet(Talk!NewOf(<<>>, "call"))
    BY <1>3, <1>4, <1>5, <2>2 DEF owed
  <2> QED BY <1>1, <1>2, <1>3, <1>4, <1>7, <2>2, <2>4, <2>5, TalkGoesOn DEF owed
<1> QED BY <1>6, <1>7

\* An answer in the format of Claude has what it was made of, and is never empty.
LEMMA AssistantMessageIs ==
    ASSUME NEW texts \in Seq(Numbers), NEW reasoning \in Seq(Numbers), NEW calls \in Seq(Numbers),
           NEW m, m = Talk!AnswerForClaude(Talk!Message("assistant", texts, reasoning, calls, Talk!None))
    PROVE  /\ m \in SaneMessages /\ m.role = "assistant"
           /\ Talk!OfType(m.content, "text") = texts
           /\ Talk!OfType(m.content, "thinking") = reasoning
           /\ Talk!OfType(m.content, "tool_use") = calls
           /\ Talk!OfType(m.content, "tool_result") = <<>>
<1> DEFINE a == Talk!Blocks("thinking", reasoning)
           b == Talk!Blocks("text", texts)
           c == Talk!Blocks("tool_use", calls)
           all == a \o b \o c
           one == <<Talk!Block("text", Talk!Blank)>>
<1>1. /\ a \in Seq(ContentBlocks) /\ b \in Seq(ContentBlocks) /\ c \in Seq(ContentBlocks)
      /\ \A t : Talk!OfType(a, t) = IF t = "thinking" THEN reasoning ELSE <<>>
      /\ \A t : Talk!OfType(b, t) = IF t = "text" THEN texts ELSE <<>>
      /\ \A t : Talk!OfType(c, t) = IF t = "tool_use" THEN calls ELSE <<>>
  BY BlocksGiveBack DEF BlockTypes
<1>2. ~Talk!Has(a, "tool_result") /\ ~Talk!Has(b, "tool_result") /\ ~Talk!Has(c, "tool_result")
  BY BlocksHave
<1>3. m = [role |-> "assistant", content |-> IF all = <<>> THEN one ELSE all]
  BY DEF Talk!AnswerForClaude, Talk!Message
<1>4. /\ one \in Seq(ContentBlocks) /\ ~Talk!Has(one, "tool_result")
      /\ \A t : Talk!OfType(one, t) = <<>>
  <2>1. Talk!Block("text", Talk!Blank) \in ContentBlocks /\ Talk!Block("text", Talk!Blank).id = 0
        /\ Talk!Block("text", Talk!Blank).type = "text"
    BY DEF ContentBlocks, BlockTypes, Talk!Block, Talk!Blank
  <2> DEFINE x == Talk!Block("text", Talk!Blank)
  <2> HIDE DEF x
  <2>2. \A t : Talk!OfType(<<x>>, t) = <<>>
    BY <2>1, OneBlock DEF x
  <2>3. <<x>> \in Seq(ContentBlocks) /\ ~Talk!Has(<<x>>, "tool_result")
    BY <2>1 DEF Talk!Has, x
  <2> QED BY <2>2, <2>3 DEF x
<1> HIDE DEF a, b, c, one
<1>5. a \o b \in Seq(ContentBlocks) /\ \A t : Talk!OfType(a \o b, t) = Talk!OfType(a, t) \o Talk!OfType(b, t)
  BY <1>1, OfTypeTwo
<1>6. ~Talk!Has(a \o b, "tool_result")
  BY <1>1, <1>2, HasTwo
<1> DEFINE ab == a \o b
<1>7. ab \in Seq(ContentBlocks) /\ ~Talk!Has(ab, "tool_result") /\ all = ab \o c
  BY <1>5, <1>6
<1>8. \A t : Talk!OfType(ab, t) = Talk!OfType(a, t) \o Talk!OfType(b, t)
  BY <1>5
<1> HIDE DEF ab, all
<1>9. all \in Seq(ContentBlocks) /\ \A t : Talk!OfType(all, t) = Talk!OfType(ab, t) \o Talk!OfType(c, t)
  <2>1. ab \o c \in Seq(ContentBlocks)
        /\ \A t : Talk!OfType(ab \o c, t) = Talk!OfType(ab, t) \o Talk!OfType(c, t)
    <3>1. ab \in Seq(ContentBlocks) /\ c \in Seq(ContentBlocks)
      BY <1>1, <1>7
    <3> QED BY <3>1, OfTypeTwo
  <2> QED BY <1>7, <2>1
<1>10. ~Talk!Has(all, "tool_result")
  BY <1>1, <1>2, <1>7, HasTwo
<1>11. \A s \in Seq(Numbers) : s \o <<>> = s /\ <<>> \o s = s
  BY ConcatEmptySeq
<1>12. <<>> \in Seq(Numbers)
  BY EmptySeq
<1>13. /\ Talk!OfType(all, "text") = texts /\ Talk!OfType(all, "thinking") = reasoning
       /\ Talk!OfType(all, "tool_use") = calls
  <2>1. Talk!OfType(ab, "text") = texts /\ Talk!OfType(ab, "thinking") = reasoning
        /\ Talk!OfType(ab, "tool_use") = <<>>
    BY <1>1, <1>8, <1>11, <1>12
  <2> QED BY <1>1, <1>9, <1>11, <2>1
<1>14. all = <<>> => texts = <<>> /\ reasoning = <<>> /\ calls = <<>>
  BY <1>13, OfNothing
<1>15. /\ m.content \in Seq(ContentBlocks) /\ ~Talk!Has(m.content, "tool_result")
       /\ m.role = "assistant" /\ m = [role |-> "assistant", content |-> m.content]
       /\ Talk!OfType(m.content, "text") = texts
       /\ Talk!OfType(m.content, "thinking") = reasoning
       /\ Talk!OfType(m.content, "tool_use") = calls
  <2>1. CASE all = <<>>
    <3>1. m.content = one /\ m.role = "assistant"
      BY <1>3, <2>1
    <3>2. m = [role |-> "assistant", content |-> m.content]
      BY <1>3, <3>1, <2>1
    <3> QED BY <1>4, <1>14, <2>1, <3>1, <3>2
  <2>2. CASE all # <<>>
    <3>1. m.content = all /\ m.role = "assistant"
      BY <1>3, <2>2
    <3>2. m = [role |-> "assistant", content |-> m.content]
      BY <1>3, <3>1, <2>2
    <3> QED BY <1>9, <1>10, <1>13, <2>2, <3>1, <3>2
  <2> QED BY <2>1, <2>2
<1>16. m \in SaneMessages
  BY <1>15 DEF SaneMessages, ClaudeMessages, Sane, Speaking
<1> QED BY <1>15, <1>16, HasNot

\* What is answered are texts, thinking and calls.
LEMMA AnswersSpeak ==
    ASSUME NEW kinds \in Talk!ClaudeAnswers \cup Talk!OpenaiAnswers
    PROVE  kinds \in Seq(Spoke) /\ kinds \in Seq(Talk!Kinds)
<1>1. kinds \in Seq(Spoke)
  <2>1. /\ <<>> \in Seq(Spoke) /\ <<"text">> \in Seq(Spoke) /\ <<"thinking", "text">> \in Seq(Spoke)
        /\ <<"call", "call">> \in Seq(Spoke)
    BY EmptySeq DEF Spoke
  <2>2. <<"thinking", "text", "call">> \in Seq(Spoke) /\ <<"text", "call", "text">> \in Seq(Spoke)
    BY DEF Spoke
  <2>3. kinds \in {<<>>, <<"text">>, <<"thinking", "text">>, <<"call", "call">>,
                  <<"thinking", "text", "call">>, <<"text", "call", "text">>}
    BY DEF Talk!ClaudeAnswers, Talk!OpenaiAnswers
  <2> QED BY <2>1, <2>2, <2>3
<1>2. Spoke \subseteq Talk!Kinds
  BY DEF Spoke, Talk!Kinds
<1> QED BY <1>1, <1>2, SeqMonotonic

\* The numbers of what is answered.
LEMMA NewOfSpoke ==
    ASSUME Talk!ConversationAssumption, said \in Seq(Talk!Kinds), NEW kinds \in Seq(Spoke),
           Talk!Saying(kinds)
    PROVE  /\ Talk!NewOf(kinds, "system") = <<>>
           /\ \A kind : Talk!NewOf(kinds, kind) = Talk!InOrder(NumbersFrom(Len(said), kinds, kind))
           /\ \A kind \in Spoke : Talk!NewOf(kinds, kind) \in Seq(Numbers)
<1>1. Len(said) \in Nat /\ Len(kinds) \in Nat /\ \A i \in 1..Len(kinds) : kinds[i] # "system"
  BY LenProperties DEF Spoke
<1>2. \A kind : Talk!NewOf(kinds, kind) = Talk!InOrder(NumbersFrom(Len(said), kinds, kind))
  BY DEF Talk!NewOf, NumbersFrom, Talk!Fresh
<1>3. NumbersFrom(Len(said), kinds, "system") = {}
  <2>1. ASSUME NEW i \in (Len(said) + 1)..(Len(said) + Len(kinds)) PROVE kinds[i - Len(said)] # "system"
    <3>1. i - Len(said) \in 1..Len(kinds)
      BY <1>1
    <3> QED BY <1>1, <3>1
  <2> QED BY <2>1 DEF NumbersFrom
<1> QED BY <1>2, <1>3, InOrderIs

\* An answer, translated, is in the conversation with all its pieces.
LEMMA AnswerKeeps ==
    ASSUME Talk!ConversationAssumption, TalkTyped, TalkSays,
           NEW kinds \in Talk!ClaudeAnswers \cup Talk!OpenaiAnswers, Talk!Answer(kinds)
    PROVE  TalkTyped' /\ TalkSays'
<1>1. kinds \in Seq(Spoke) /\ kinds \in Seq(Talk!Kinds) /\ Talk!Saying(kinds)
      /\ said \in Seq(Talk!Kinds)
  BY AnswersSpeak DEF Talk!Answer, TalkTyped
<1>2. /\ client' = client /\ wire' = wire /\ turn' = "client" /\ open = {}
      /\ open' = Talk!ToSet(Talk!NewOf(kinds, "call"))
  BY DEF Talk!Answer, TalkTyped
<1>3. /\ Talk!NewOf(kinds, "system") = <<>>
      /\ \A kind : Talk!NewOf(kinds, kind) = Talk!InOrder(NumbersFrom(Len(said), kinds, kind))
      /\ \A kind \in Spoke : Talk!NewOf(kinds, kind) \in Seq(Numbers)
  BY <1>1, NewOfSpoke
<1>4. /\ Talk!NewOf(kinds, "text") \in Seq(Numbers) /\ Talk!NewOf(kinds, "thinking") \in Seq(Numbers)
      /\ Talk!NewOf(kinds, "call") \in Seq(Numbers)
  BY <1>3 DEF Spoke
<1>5. Talk!ToSet(<<>>) = {} /\ Talk!IsInjective(<<>>) /\ <<>> \in Seq(Numbers)
  BY SetOfOne, EmptySeq
<1>6. open' = (open \ Talk!ToSet(<<>>)) \cup Talk!ToSet(Talk!NewOf(kinds, "call"))
  BY <1>2, <1>5
<1>7. CASE client = "openai"
  <2> DEFINE c == NumberedBlocks(Len(said), kinds)
             m == Talk!AnswerForOpenai(c)
  <2>1. request' = [request EXCEPT !.messages = Append(@, m)]
    BY <1>7 DEF Talk!Answer, Talk!Added, NumberedBlocks
  <2>2. Len(said) \in Nat /\ Len(said) + Len(kinds) <= MaxSaid
    BY <1>1, LenProperties DEF Talk!Saying
  <2>3. \A kind \in Spoke : Talk!OfType(c, Talk!TypeOfKind(kind)) = Talk!NewOf(kinds, kind)
    BY <1>1, <1>3, <2>2, NumberedReads
  <2>4. /\ Talk!OfType(c, "text") = Talk!NewOf(kinds, "text")
        /\ Talk!OfType(c, "thinking") = Talk!NewOf(kinds, "thinking")
        /\ Talk!OfType(c, "tool_use") = Talk!NewOf(kinds, "call")
    BY <2>3 DEF Spoke, Talk!TypeOfKind
  <2> HIDE DEF c
  <2>5. m = Talk!Message("assistant", Talk!NewOf(kinds, "text"), Talk!NewOf(kinds, "thinking"),
                         Talk!NewOf(kinds, "call"), Talk!None)
    BY <2>4 DEF Talk!AnswerForOpenai
  <2>6. "assistant" \in Speaking \cup {"system"}
    BY DEF Speaking
  <2> HIDE DEF m
  <2>7. /\ m \in FlatMessages /\ FlatSystem[m] = <<>> /\ FlatTexts[m] = Talk!NewOf(kinds, "text")
        /\ FlatThoughts[m] = Talk!NewOf(kinds, "thinking")
        /\ FlatCalls[m] = Talk!NewOf(kinds, "call") /\ FlatResults[m] = <<>>
    BY <1>4, <2>5, <2>6, MessageIs
  <2> QED BY <1>1, <1>2, <1>3, <1>5, <1>6, <1>7, <2>1, <2>7, TalkGoesOn
<1>8. CASE client # "openai"
  <2> DEFINE m == Talk!AnswerForClaude(Talk!Message("assistant", Talk!NewOf(kinds, "text"),
                     Talk!NewOf(kinds, "thinking"), Talk!NewOf(kinds, "call"), Talk!None))
  <2>1. request' = [request EXCEPT !.messages = Append(@, m)]
    BY <1>8 DEF Talk!Answer, Talk!Added
  <2>2. /\ m \in SaneMessages
        /\ Talk!OfType(m.content, "text") = Talk!NewOf(kinds, "text")
        /\ Talk!OfType(m.content, "thinking") = Talk!NewOf(kinds, "thinking")
        /\ Talk!OfType(m.content, "tool_use") = Talk!NewOf(kinds, "call")
        /\ Talk!OfType(m.content, "tool_result") = <<>>
    BY <1>4, AssistantMessageIs
  <2> HIDE DEF m
  <2> QED BY <1>1, <1>2, <1>3, <1>5, <1>6, <1>8, <2>1, <2>2, TalkGoesOn
<1> QED BY <1>7, <1>8

\* What is sent is the translation, of the other format.
LEMMA SendKeeps ==
    ASSUME Talk!ConversationAssumption, TalkTyped, TalkSays, Talk!Send
    PROVE  TalkTyped' /\ TalkSays'
<1>1. /\ client' = client /\ request' = request /\ open' = open /\ said' = said /\ open = {}
      /\ turn' = "server"
      /\ wire' = IF client = "openai" THEN Talk!ToClaude(request) ELSE Talk!ToOpenai(request)
  BY DEF Talk!Send
<1>2. wire' \in (IF client = "openai" THEN ClaudeRequests ELSE OpenaiRequests)
  BY <1>1, Readings, ToClaudeKeeps, ToOpenaiKeeps
<1>3. TalkSays' <=> TalkSays
  BY <1>1 DEF TalkSays, Talk!Pieces
<1>4. Talk!Pieces("call")' = Talk!Pieces("call")
  BY <1>1 DEF Talk!Pieces
<1>5. TalkTyped'
  BY <1>1, <1>2, <1>4 DEF TalkTyped
<1> QED BY <1>3, <1>5

\* No step loses anything.
LEMMA NextTalk ==
    ASSUME Talk!ConversationAssumption, TalkTyped, TalkSays, Talk!Next \/ UNCHANGED talkVars
    PROVE  TalkTyped' /\ TalkSays'
<1>1. CASE Talk!Client
  <2>1. CASE \E role \in Speakers : Talk!Say(role)
    BY <2>1, SayKeeps
  <2>2. CASE Talk!Greet
    BY <2>2, GreetKeeps
  <2>3. CASE Talk!Instruct
    BY <2>3, InstructKeeps
  <2>4. CASE Talk!Send
    BY <2>4, SendKeeps
  <2>5. CASE \E c \in open : Talk!AnswerCall(c)
    BY <2>5, AnswerCallKeeps
  <2> QED BY <1>1, <2>1, <2>2, <2>3, <2>4, <2>5 DEF Talk!Client
<1>2. CASE Talk!Server
  <2>1. PICK kinds \in Talk!ClaudeAnswers \cup Talk!OpenaiAnswers : Talk!Answer(kinds)
    BY <1>2 DEF Talk!Server
  <2> QED BY <2>1, AnswerKeeps
<1>3. CASE UNCHANGED talkVars
  <2>1. /\ client' = client /\ request' = request /\ wire' = wire /\ open' = open /\ said' = said
        /\ turn' = turn
    BY <1>3 DEF talkVars
  <2>2. TalkSays'
    BY <2>1 DEF TalkSays, Talk!Pieces
  <2>3. Talk!Pieces("call")' = Talk!Pieces("call")
    BY <2>1 DEF Talk!Pieces
  <2> QED BY <2>1, <2>2, <2>3 DEF TalkTyped
<1> QED BY <1>1, <1>2, <1>3 DEF Talk!Next

-----------------------------------------------------------------------------
(* What the server reads.                                                  *)

\* Effort and budget go there and back.
LEMMA EffortsReturn ==
    /\ \A effort \in Talk!Efforts \cup {"none"} : Talk!Effort(Talk!Budget(effort)) = effort
    /\ \A budget \in {Talk!None, 1280, 2048, 4096} : Talk!Budget(Talk!Effort(budget)) = budget
<1>1. /\ Talk!Budget("none") = -1 /\ Talk!Budget("low") = 1280 /\ Talk!Budget("medium") = 2048
      /\ Talk!Budget("high") = 4096
  BY DEF Talk!Budget, Talk!None
<1>2. /\ Talk!Effort(-1) = "none" /\ Talk!Effort(1280) = "low" /\ Talk!Effort(2048) = "medium"
      /\ Talk!Effort(4096) = "high"
  BY DEF Talk!Effort, Talk!None
<1> QED BY <1>1, <1>2 DEF Talk!Efforts, Talk!None

\* While the server reads, it reads what the client said.
LEMMA WireSays ==
    ASSUME Talk!ConversationAssumption, TalkTyped, turn = "server"
    PROVE  /\ wire \in (IF client = "openai" THEN ClaudeRequests ELSE OpenaiRequests)
           /\ Talk!Systems(wire) = Talk!Systems(request) /\ Talk!Texts(wire) = Talk!Texts(request)
           /\ Talk!Calls(wire) = Talk!Calls(request) /\ Talk!Results(wire) = Talk!Results(request)
<1>1. wire = (IF client = "openai" THEN Talk!ToClaude(request) ELSE Talk!ToOpenai(request))
  BY DEF TalkTyped
<1> QED BY <1>1, Readings, ToClaudeKeeps, ToOpenaiKeeps

\* What the invariants say implies what the runs check: the types,
LEMMA TalkIsTyped ==
    ASSUME TalkTyped PROVE Talk!TypeOK
<1>1. /\ client \in Talk!Formats /\ turn \in {"client", "server"}
      /\ said \in Seq(Talk!Kinds) /\ Len(said) <= MaxSaid
      /\ open \subseteq Talk!Pieces("call")
  BY DEF TalkTyped
<1>2. Talk!InClaude(request) <=> client = "claude"
  <2>1. CASE client = "openai"
    BY <2>1, Readings, OpenaiReads
  <2>2. CASE client # "openai"
    BY <2>2, Readings, ClaudeReads
  <2> QED BY <2>1, <2>2
<1>3. ASSUME wire # <<>>
      PROVE  /\ Talk!InClaude(wire) <=> client = "openai"
             /\ IF Talk!InClaude(wire)
                THEN wire.limit \in Nat /\ wire.budget \in Nat \cup {Talk!None} /\ wire.serial \in BOOLEAN
                ELSE wire.effort \in Talk!Efforts \cup {"none"} /\ wire.parallel \in BOOLEAN
  <2>1. CASE client = "openai"
    <3>1. wire \in ClaudeRequests
      BY <1>3, <2>1 DEF TalkTyped
    <3>2. wire.limit \in Nat /\ wire.budget \in Nat \cup {Talk!None} /\ wire.serial \in BOOLEAN
      BY <3>1 DEF ClaudeRequests, Numbers
    <3> QED BY <2>1, <3>1, <3>2, ClaudeReads
  <2>2. CASE client # "openai"
    <3>1. wire \in OpenaiRequests
      BY <1>3, <2>2 DEF TalkTyped
    <3>2. wire.effort \in Talk!Efforts \cup {"none"} /\ wire.parallel \in BOOLEAN
      BY <3>1 DEF OpenaiRequests
    <3> QED BY <2>2, <3>1, <3>2, OpenaiReads
  <2> QED BY <2>1, <2>2
<1> QED BY <1>1, <1>2, <1>3 DEF Talk!TypeOK

\* that nothing is lost on the way to the server,
LEMMA TalkLosesNothing ==
    ASSUME Talk!ConversationAssumption, TalkTyped, TalkSays PROVE Talk!NothingIsLost
<1> SUFFICES ASSUME NEW r \in {request} \cup (IF turn = "server" THEN {wire} ELSE {})
             PROVE  /\ Talk!Systems(r) = Talk!InOrder(Talk!Pieces("system"))
                    /\ Talk!Texts(r) = Talk!InOrder(Talk!Pieces("text"))
                    /\ Talk!Calls(r) = Talk!InOrder(Talk!Pieces("call"))
                    /\ Talk!ToSet(Talk!Results(r)) = Talk!Pieces("call") \ open
                    /\ Talk!IsInjective(Talk!Results(r))
  BY DEF Talk!NothingIsLost, TalkSays
<1>1. CASE r = request
  BY <1>1 DEF TalkSays
<1>2. CASE r = wire /\ turn = "server"
  BY <1>2, WireSays DEF TalkSays
<1> QED BY <1>1, <1>2

\* and that a second proxy restores the request.
LEMMA TalkSurvives ==
    ASSUME Talk!ConversationAssumption, TalkTyped PROVE Talk!SurvivesTwoProxies
<1> SUFFICES ASSUME turn = "server" PROVE Talk!SurvivesTwoProxies
  BY DEF Talk!SurvivesTwoProxies
<1>1. CASE client = "openai"
  <2> DEFINE back == Talk!ToOpenai(wire)
  <2>1. /\ wire = Talk!ToClaude(request) /\ request \in OpenaiRequests
        /\ wire \in ClaudeRequests
    BY <1>1, WireSays, Readings DEF TalkTyped
  <2>2. /\ Talk!Systems(back) = Talk!Systems(request) /\ Talk!Texts(back) = Talk!Texts(request)
        /\ Talk!Calls(back) = Talk!Calls(request) /\ Talk!Results(back) = Talk!Results(request)
    BY <2>1, WireSays, ToOpenaiKeeps
  <2>3. /\ wire.budget = Talk!Budget(request.effort) /\ wire.serial = ~request.parallel
        /\ wire.limit = Talk!LimitOf(request.limit)
    BY <2>1 DEF Talk!ToClaude
  <2>4. /\ back.effort = Talk!Effort(wire.budget) /\ back.parallel = ~wire.serial
        /\ back.limit = wire.limit
    BY DEF Talk!ToOpenai
  <2>5. request.effort \in Talk!Efforts \cup {"none"} /\ request.parallel \in BOOLEAN
    BY <2>1 DEF OpenaiRequests
  <2> HIDE DEF back
  <2>6. /\ back.effort = request.effort /\ back.parallel = request.parallel
        /\ back.limit = Talk!LimitOf(request.limit)
    <3>1. back.effort = request.effort
      BY <2>3, <2>4, <2>5, EffortsReturn
    <3>2. back.parallel = request.parallel
      BY <2>3, <2>4, <2>5, Zenon
    <3> QED BY <2>3, <2>4, <3>1, <3>2
  <2> QED BY <1>1, <2>2, <2>6 DEF back, Talk!SurvivesTwoProxies
<1>2. CASE client # "openai"
  <2> DEFINE back == Talk!ToClaude(wire)
  <2>1. /\ wire = Talk!ToOpenai(request) /\ request \in ClaudeRequests
        /\ wire \in OpenaiRequests
    BY <1>2, WireSays, Readings DEF TalkTyped
  <2>2. /\ Talk!Systems(back) = Talk!Systems(request) /\ Talk!Texts(back) = Talk!Texts(request)
        /\ Talk!Calls(back) = Talk!Calls(request) /\ Talk!Results(back) = Talk!Results(request)
    BY <2>1, WireSays, ToClaudeKeeps
  <2>3. /\ wire.effort = Talk!Effort(request.budget) /\ wire.parallel = ~request.serial
        /\ wire.limit = request.limit
    BY <2>1 DEF Talk!ToOpenai
  <2>4. /\ back.budget = Talk!Budget(wire.effort) /\ back.serial = ~wire.parallel
        /\ back.limit = Talk!LimitOf(wire.limit)
    BY DEF Talk!ToClaude
  <2>5. request.budget \in {Talk!None, 1280, 2048, 4096} /\ request.serial \in BOOLEAN
        /\ request.limit \in Numbers
    BY <2>1 DEF ClaudeRequests
  <2> HIDE DEF back
  <2>6. /\ back.budget = request.budget /\ back.serial = request.serial
        /\ back.limit = request.limit
    <3>1. back.budget = request.budget
      BY <2>3, <2>4, <2>5, EffortsReturn
    <3>2. back.serial = request.serial
      <4>1. wire.parallel = ~request.serial /\ back.serial = ~wire.parallel /\ request.serial \in BOOLEAN
        BY <2>3, <2>4, <2>5
      <4>2. CASE request.serial = TRUE
        <5>1. wire.parallel = FALSE
          BY <4>1, <4>2
        <5> QED BY <4>1, <4>2, <5>1
      <4>3. CASE request.serial = FALSE
        <5>1. wire.parallel = TRUE
          BY <4>1, <4>3
        <5> QED BY <4>1, <4>3, <5>1
      <4> QED BY <4>1, <4>2, <4>3
    <3>3. back.limit = request.limit
      BY <2>3, <2>4, <2>5 DEF Talk!LimitOf, Talk!None, Numbers
    <3> QED BY <3>1, <3>2, <3>3
  <2> QED BY <1>2, <2>2, <2>6 DEF back, Talk!SurvivesTwoProxies
<1> QED BY <1>1, <1>2

-----------------------------------------------------------------------------
(* What a Claude server asks: turns that alternate and answer the calls before*)
(* them.                                                                   *)

\* There are at most as many of a type as there are blocks.
LEMMA OfTypeLen ==
    ASSUME NEW c \in Seq(ContentBlocks), NEW type
    PROVE  Len(Talk!OfType(c, type)) \in Nat /\ Len(c) \in Nat /\ Len(Talk!OfType(c, type)) <= Len(c)
<1> DEFINE Good(s) == Len(Talk!OfType(s, type)) <= Len(s)
           P == {s \in Seq(ContentBlocks) : Good(s)}
<1>1. <<>> \in P
  BY OfNothing, EmptySeq
<1>2. ASSUME NEW s \in Seq(ContentBlocks), NEW b \in ContentBlocks, s \in P PROVE Append(s, b) \in P
  <2>1. /\ Append(s, b) \in Seq(ContentBlocks) /\ Len(Append(s, b)) = Len(s) + 1
        /\ Len(s) \in Nat
    BY AppendProperties, LenProperties
  <2>2. b.id \in Nat
    BY DEF ContentBlocks
  <2>3. Talk!OfType(s, type) \in Seq(Numbers)
    BY OfTypeIsSeq
  <2> DEFINE o == Talk!OfType(s, type)
  <2>4. Talk!OfType(Append(s, b), type) = IF b.type = type /\ b.id # 0 THEN Append(o, b.id) ELSE o
    BY OfTypeOneMore
  <2> HIDE DEF o
  <2>5. o \in Seq(Numbers) /\ Len(o) \in Nat /\ Len(o) <= Len(s)
    BY <1>2, <2>3, LenProperties DEF o
  <2>6. b.id # 0 => Len(Append(o, b.id)) = Len(o) + 1
    BY <2>2, <2>5, AppendProperties DEF Numbers
  <2>7. Len(Talk!OfType(Append(s, b), type)) <= Len(s) + 1
    BY <2>1, <2>4, <2>5, <2>6
  <2> QED BY <2>1, <2>7
<1> HIDE DEF P
<1>3. \A s \in Seq(ContentBlocks) : s \in P
  BY <1>1, <1>2, ByAppending
<1>4. Good(c)
  BY <1>3 DEF P
<1>5. Talk!OfType(c, type) \in Seq(Numbers)
  BY OfTypeIsSeq
<1> QED BY <1>4, <1>5, LenProperties

\* The beginning of a sequence, when more follows.
LEMMA BeginningStays ==
    ASSUME NEW D, NEW s \in Seq(D), NEW t \in Seq(D), NEW n \in 0..Len(s)
    PROVE  SubSeq(s \o t, 1, n) = SubSeq(s, 1, n) /\ SubSeq(s, 1, n) \in Seq(D)
<1>1. Len(s) \in Nat
  BY LenProperties
<1>2. CASE n = 0
  BY <1>2, SubSeqEmpty, EmptySeq
<1>3. CASE n # 0
  <2>1. 1 \in 1..Len(s) /\ n \in 1..Len(s)
    BY <1>1, <1>3
  <2>2. SubSeq(s \o t, 1, n) = SubSeq(s, 1, n)
    BY <2>1, SubSeqOfConcat1
  <2>3. \A i \in 1..n : s[i] \in D
    BY <1>1, <2>1, LenProperties
  <2> QED BY <1>1, <2>1, <2>2, <2>3, SubSeqProperties
<1> QED BY <1>2, <1>3

\* Nothing is at the head of anything.
LEMMA NoResultsHead ==
    ASSUME NEW m, ResultsOf(m) = <<>> PROVE HeadsWithResults(m)
<1>1. Len(<<>>) = 0 /\ SubSeq(m.content, 1, 0) = <<>>
  BY SubSeqEmpty, EmptySeq
<1> QED BY <1>1, OfNothing DEF HeadsWithResults

\* A message of results alone.
LEMMA OnlyResultsHead ==
    ASSUME NEW m \in SaneMessages, Len(m.content) = Len(ResultsOf(m)) PROVE HeadsWithResults(m)
<1>1. m.content \in Seq(ContentBlocks)
  BY DEF SaneMessages, ClaudeMessages
<1>2. SubSeq(m.content, 1, Len(m.content)) = m.content
  BY <1>1, SubSeqFull
<1> QED BY <1>2 DEF HeadsWithResults, ResultsOf

\* Who calls has no results, who has results does not call.
LEMMA SaneReads ==
    ASSUME NEW m \in SaneMessages
    PROVE  /\ m.content \in Seq(ContentBlocks)
           /\ CallsOf(m) \in Seq(Numbers) /\ ResultsOf(m) \in Seq(Numbers)
           /\ m.role = "assistant" => ResultsOf(m) = <<>>
           /\ m.role # "assistant" => CallsOf(m) = <<>>
<1>1. m.content \in Seq(ContentBlocks)
  BY DEF SaneMessages, ClaudeMessages
<1>2. IF m.role = "assistant" THEN ~Talk!Has(m.content, "tool_result")
      ELSE ~Talk!Has(m.content, "tool_use")
  BY DEF SaneMessages, Sane
<1> QED BY <1>1, <1>2, HasNot, OfTypeIsSeq DEF CallsOf, ResultsOf

\* A message that grows by another has the calls and results of both.
LEMMA LongerReads ==
    ASSUME NEW l \in SaneMessages, NEW t \in SaneMessages, l.role = t.role,
           NEW m, m = Longer(l, t)
    PROVE  /\ m \in SaneMessages /\ m.role = l.role /\ m.content = l.content \o t.content
           /\ CallsOf(m) = CallsOf(l) \o CallsOf(t) /\ ResultsOf(m) = ResultsOf(l) \o ResultsOf(t)
           /\ Len(m.content) = Len(l.content) + Len(t.content)
<1>1. m \in SaneMessages /\ m.role = l.role /\ m.content = l.content \o t.content
  BY LongerIsSane
<1>2. l.content \in Seq(ContentBlocks) /\ t.content \in Seq(ContentBlocks)
  BY SaneReads
<1>3. \A type : Talk!OfType(m.content, type) = Talk!OfType(l.content, type) \o Talk!OfType(t.content, type)
  <2> DEFINE x == l.content
             y == t.content
  <2>1. x \in Seq(ContentBlocks) /\ y \in Seq(ContentBlocks) /\ m.content = x \o y
    BY <1>1, <1>2
  <2> HIDE DEF x, y
  <2>2. \A type : Talk!OfType(x \o y, type) = Talk!OfType(x, type) \o Talk!OfType(y, type)
    BY <2>1, OfTypeTwo
  <2> QED BY <2>1, <2>2 DEF x, y
<1>4. Len(m.content) = Len(l.content) + Len(t.content)
  BY <1>1, <1>2, ConcatProperties
<1> QED BY <1>1, <1>3, <1>4 DEF CallsOf, ResultsOf

\* Sequences without anything.
LEMMA EmptySet ==
    ASSUME NEW D, NEW s \in Seq(D), Talk!ToSet(s) = {} PROVE s = <<>>
<1>1. SUFFICES ASSUME s # <<>> PROVE FALSE
  OBVIOUS
<1>2. Len(s) \in Nat \ {0} /\ DOMAIN s = 1..Len(s)
  BY <1>1, EmptySeq, LenProperties
<1>3. s[1] \in Talk!ToSet(s)
  BY <1>2 DEF Talk!ToSet
<1> QED BY <1>3

\* A turn that may come next: a call's answer, a text when all are answered, or an answer.
ComesNext(t, left, after) ==
    /\ HeadsWithResults(t)
    /\ Talk!IsInjective(CallsOf(t)) /\ Talk!IsInjective(ResultsOf(t))
    /\ Talk!ToSet(ResultsOf(t)) \subseteq left
    /\ \/ t.role = "assistant" /\ left = {} /\ after = Talk!ToSet(CallsOf(t))
       \/ t.role = "user" /\ left = {} /\ after = {} /\ ResultsOf(t) = <<>>
       \/ /\ t.role = "user" /\ left # {} /\ after = left \ Talk!ToSet(ResultsOf(t))
          /\ Len(t.content) = Len(ResultsOf(t))

\* The turn fits if it joins the last one.
LEMMA LongerFits ==
    ASSUME NEW l \in SaneMessages, NEW t \in SaneMessages, l.role = t.role,
           NEW calls, NEW left, NEW after,
           Fits(l, calls, left), ComesNext(t, left, after),
           l.role = "assistant" => left = Talk!ToSet(CallsOf(l)),
           l.role = "user" /\ left # {} => left \subseteq calls /\ Len(l.content) = Len(ResultsOf(l)),
           NEW m, m = Longer(l, t)
    PROVE  /\ Fits(m, calls, after)
           /\ m.role = "assistant" => after = Talk!ToSet(CallsOf(m))
           /\ m.role = "user" /\ after # {} => after \subseteq calls /\ Len(m.content) = Len(ResultsOf(m))
<1>1. /\ m \in SaneMessages /\ m.role = l.role /\ m.content = l.content \o t.content
      /\ CallsOf(m) = CallsOf(l) \o CallsOf(t) /\ ResultsOf(m) = ResultsOf(l) \o ResultsOf(t)
      /\ Len(m.content) = Len(l.content) + Len(t.content)
  BY LongerReads
<1>2. /\ CallsOf(l) \in Seq(Numbers) /\ ResultsOf(l) \in Seq(Numbers)
      /\ CallsOf(t) \in Seq(Numbers) /\ ResultsOf(t) \in Seq(Numbers)
      /\ l.content \in Seq(ContentBlocks) /\ t.content \in Seq(ContentBlocks)
      /\ m.content \in Seq(ContentBlocks)
  BY <1>1, SaneReads
<1>3. \A s \in Seq(Numbers) : s \o <<>> = s /\ <<>> \o s = s
  BY ConcatEmptySeq
<1>4. Talk!ToSet(<<>>) = {} /\ Talk!IsInjective(<<>>)
  BY SetOfOne
<1>5. CASE t.role = "assistant" /\ left = {} /\ after = Talk!ToSet(CallsOf(t))
  <2>1. CallsOf(l) = <<>>
    BY <1>2, <1>5, EmptySet
  <2>2. ResultsOf(l) = <<>> /\ ResultsOf(m) = <<>>
    BY <1>1, <1>5, SaneReads
  <2>3. CallsOf(m) = CallsOf(t)
    BY <1>1, <1>2, <1>3, <2>1
  <2>4. HeadsWithResults(m)
    BY <2>2, NoResultsHead
  <2>5. calls = {}
    BY <1>4, <1>5, <2>2 DEF Fits
  <2>6. Talk!IsInjective(CallsOf(t))
    BY DEF ComesNext
  <2> QED BY <1>1, <1>4, <1>5, <2>2, <2>3, <2>4, <2>5, <2>6 DEF Fits
<1>6. CASE t.role = "user" /\ left = {} /\ after = {} /\ ResultsOf(t) = <<>>
  <2>1. ResultsOf(m) = ResultsOf(l)
    BY <1>1, <1>2, <1>3, <1>6
  <2>2. CallsOf(m) = <<>>
    BY <1>1, <1>6, SaneReads
  <2>3. HeadsWithResults(m)
    <3> DEFINE n == Len(ResultsOf(l))
               x == l.content
               y == t.content
    <3>1. n \in 0..Len(x)
      BY <1>2, OfTypeLen DEF ResultsOf
    <3>2. x \in Seq(ContentBlocks) /\ y \in Seq(ContentBlocks) /\ m.content = x \o y
      BY <1>1, <1>2
    <3>3. ResultsOf(l) = Talk!OfType(SubSeq(x, 1, n), "tool_result")
      BY DEF Fits, HeadsWithResults
    <3> HIDE DEF x, y, n
    <3>4. SubSeq(x \o y, 1, n) = SubSeq(x, 1, n)
      BY <3>1, <3>2, BeginningStays
    <3>5. ResultsOf(m) = Talk!OfType(SubSeq(m.content, 1, n), "tool_result")
      BY <2>1, <3>2, <3>3, <3>4
    <3> QED BY <2>1, <3>5 DEF n, HeadsWithResults
  <2> QED BY <1>1, <1>4, <1>6, <2>1, <2>2, <2>3 DEF Fits
<1>7. CASE /\ t.role = "user" /\ left # {} /\ after = left \ Talk!ToSet(ResultsOf(t))
           /\ Len(t.content) = Len(ResultsOf(t))
  <2>1. left \subseteq calls /\ Len(l.content) = Len(ResultsOf(l))
    BY <1>7
  <2>2. Len(ResultsOf(m)) = Len(m.content)
    BY <1>1, <1>2, <1>7, <2>1, ConcatProperties
  <2>3. HeadsWithResults(m)
    BY <1>1, <2>2, OnlyResultsHead
  <2>4. CallsOf(m) = <<>>
    BY <1>1, <1>7, SaneReads
  <2>5. /\ Talk!ToSet(ResultsOf(l)) = calls \ left /\ Talk!IsInjective(ResultsOf(l))
        /\ Talk!ToSet(ResultsOf(t)) \subseteq left /\ Talk!IsInjective(ResultsOf(t))
    BY DEF Fits, ComesNext
  <2>6. /\ Talk!ToSet(ResultsOf(m)) = Talk!ToSet(ResultsOf(l)) \cup Talk!ToSet(ResultsOf(t))
        /\ Talk!IsInjective(ResultsOf(m))
    <3>1. Talk!ToSet(ResultsOf(l)) \cap Talk!ToSet(ResultsOf(t)) = {}
      BY <2>5
    <3> DEFINE x == ResultsOf(l)
               y == ResultsOf(t)
    <3>2. /\ x \in Seq(Numbers) /\ y \in Seq(Numbers) /\ Talk!IsInjective(x) /\ Talk!IsInjective(y)
          /\ Talk!ToSet(x) \cap Talk!ToSet(y) = {} /\ ResultsOf(m) = x \o y
      BY <1>1, <1>2, <2>5, <3>1
    <3> HIDE DEF x, y
    <3>3. Talk!ToSet(x \o y) = Talk!ToSet(x) \cup Talk!ToSet(y) /\ Talk!IsInjective(x \o y)
      BY <3>2, SetOfMore
    <3> QED BY <3>2, <3>3 DEF x, y
  <2>7. Talk!ToSet(ResultsOf(m)) = calls \ after
    BY <1>7, <2>1, <2>5, <2>6
  <2> QED BY <1>1, <1>4, <1>7, <2>1, <2>2, <2>3, <2>4, <2>6, <2>7 DEF Fits
<1> QED BY <1>5, <1>6, <1>7 DEF ComesNext

\* The turn fits if it comes after one of the other role, and the one before misses nothing.
LEMMA NextFits ==
    ASSUME NEW l \in SaneMessages, NEW t \in SaneMessages, l.role # t.role,
           l.role \in {"user", "assistant"},
           NEW calls, NEW left, NEW after,
           Fits(l, calls, left), ComesNext(t, left, after),
           l.role = "assistant" => left = Talk!ToSet(CallsOf(l)) /\ calls = {}
    PROVE  /\ Fits(l, calls, {})
           /\ Fits(t, Talk!ToSet(CallsOf(l)), after)
           /\ t.role = "assistant" => after = Talk!ToSet(CallsOf(t))
           /\ t.role = "user" /\ after # {} =>
                after \subseteq Talk!ToSet(CallsOf(l)) /\ Len(t.content) = Len(ResultsOf(t))
<1>1. Talk!ToSet(<<>>) = {}
  BY SetOfOne
<1>2. Fits(l, calls, {})
  <2>1. CASE left = {}
    BY <2>1
  <2>2. CASE left # {}
    <3>1. l.role = "assistant"
      BY <2>2 DEF ComesNext
    <3> QED BY <3>1 DEF Fits
  <2> QED BY <2>1, <2>2
<1>3. Talk!ToSet(ResultsOf(t)) = Talk!ToSet(CallsOf(l)) \ after
  <2>1. CASE t.role = "assistant" /\ left = {} /\ after = Talk!ToSet(CallsOf(t))
    <3>1. CallsOf(l) = <<>> /\ ResultsOf(t) = <<>>
      BY <2>1, SaneReads
    <3> QED BY <1>1, <3>1
  <2>2. CASE t.role = "user" /\ left = {} /\ after = {} /\ ResultsOf(t) = <<>>
    <3>1. left = Talk!ToSet(CallsOf(l))
      BY <2>2
    <3> QED BY <1>1, <2>2, <3>1
  <2>3. CASE t.role = "user" /\ left # {} /\ after = left \ Talk!ToSet(ResultsOf(t))
    <3>1. left = Talk!ToSet(CallsOf(l)) /\ Talk!ToSet(ResultsOf(t)) \subseteq left
      BY <2>3 DEF ComesNext
    <3> QED BY <2>3, <3>1
  <2> QED BY <2>1, <2>2, <2>3 DEF ComesNext
<1>4. t.role = "user" => left = Talk!ToSet(CallsOf(l))
  OBVIOUS
<1> QED BY <1>2, <1>3, <1>4 DEF Fits, ComesNext

\* The first turn.
LEMMA FirstFits ==
    ASSUME NEW t \in SaneMessages, NEW after, ComesNext(t, {}, after)
    PROVE  /\ Fits(t, {}, after)
           /\ t.role \in {"user", "assistant"}
           /\ t.role = "assistant" => after = Talk!ToSet(CallsOf(t))
           /\ t.role = "user" => after = {}
  BY DEF Fits, ComesNext

\* A sequence that has elements has a last one.
LEMMA HasLast ==
    ASSUME NEW D, NEW s \in Seq(D), s # <<>>
    PROVE  \E t \in Seq(D), e \in D : s = Append(t, e)
<1> DEFINE P == {s1 \in Seq(D) : s1 = <<>> \/ \E t \in Seq(D), e \in D : s1 = Append(t, e)}
<1>1. <<>> \in P
  BY EmptySeq
<1>2. ASSUME NEW t \in Seq(D), NEW e \in D PROVE Append(t, e) \in P
  BY AppendProperties
<1> HIDE DEF P
<1>3. \A s1 \in Seq(D) : s1 \in P
  BY <1>1, <1>2, ByAppending
<1> QED BY <1>3 DEF P

\* The elements of a sequence with one more.
LEMMA AppendReads ==
    ASSUME NEW D, NEW s \in Seq(D), NEW e \in D, NEW a, a = Append(s, e)
    PROVE  /\ a \in Seq(D) /\ Len(a) = Len(s) + 1 /\ Len(s) \in Nat /\ a # <<>>
           /\ \A i \in 1..Len(s) : a[i] = s[i]
           /\ a[Len(s) + 1] = e
<1>1. /\ a \in Seq(D) /\ Len(a) = Len(s) + 1 /\ Len(s) \in Nat
      /\ \A i \in 1..Len(s) : a[i] = s[i]
      /\ a[Len(s) + 1] = e
  BY AppendProperties, LenProperties
<1>2. Len(<<>>) = 0
  BY EmptySeq
<1> QED BY <1>1, <1>2

\* A turn that may come next is merged, or follows, and the turns still agree.
LEMMA TurnsAgreeMore ==
    ASSUME NEW s \in Seq(SaneMessages), NEW left, TurnsAgree(s, left),
           NEW t \in SaneMessages, NEW after, ComesNext(t, left, after)
    PROVE  TurnsAgree(Talk!Extended(s, t), after)
<1>1. CASE s = <<>>
  <2> DEFINE a == Append(<<>>, t)
  <2>1. Talk!Extended(s, t) = a
    BY <1>1, ExtendedIs
  <2>2. a # <<>> /\ Len(a) = 1 /\ a[1] = t
    OBVIOUS
  <2>3. left = {}
    BY <1>1 DEF TurnsAgree
  <2>4. /\ Fits(t, {}, after)
        /\ t.role \in {"user", "assistant"}
        /\ t.role = "assistant" => after = Talk!ToSet(CallsOf(t))
        /\ t.role = "user" => after = {}
    BY <2>3, FirstFits
  <2>5. CallsBefore(a, 1) = {}
    BY DEF CallsBefore
  <2> HIDE DEF a
  <2>6. ASSUME NEW i \in 1..1
        PROVE  /\ a[i].role \in {"user", "assistant"}
               /\ i > 1 => a[i].role # a[i - 1].role
               /\ Fits(a[i], CallsBefore(a, i), IF i = 1 THEN after ELSE {})
    <3>1. i = 1 /\ ~(i > 1)
      OBVIOUS
    <3>2. Fits(a[1], CallsBefore(a, 1), after) /\ a[1].role \in {"user", "assistant"}
      BY <2>2, <2>4, <2>5
    <3>3. (IF i = 1 THEN after ELSE {}) = after
      BY <3>1
    <3> QED BY <3>1, <3>2, <3>3
  <2>7. a[1].role = "user" => after = {}
    BY <2>2, <2>4
  <2> QED BY <2>1, <2>2, <2>4, <2>6, <2>7 DEF TurnsAgree
<1>2. CASE s # <<>>
  <2>1. PICK u \in Seq(SaneMessages), l \in SaneMessages : s = Append(u, l)
    BY <1>2, HasLast
  <2> DEFINE n == Len(u) + 1
  <2>2. /\ Len(s) = n /\ n - 1 \in Nat /\ \A i \in 1..(n - 1) : s[i] = u[i]
        /\ s[n] = l
    BY <2>1, AppendReads
  <2> HIDE DEF n
  <2>3. n \in Nat /\ n >= 1 /\ n \in 1..n
    BY <2>2
  <2>4. /\ \A i \in 1..(n - 1) : /\ s[i].role \in {"user", "assistant"}
                                 /\ i > 1 => s[i].role # s[i - 1].role
                                 /\ Fits(s[i], CallsBefore(s, i), {})
        /\ l.role \in {"user", "assistant"}
        /\ n > 1 => l.role # s[n - 1].role
        /\ Fits(l, CallsBefore(s, n), left)
        /\ l.role = "assistant" => left = Talk!ToSet(CallsOf(l))
        /\ l.role = "user" /\ left # {} =>
              left \subseteq CallsBefore(s, n) /\ Len(l.content) = Len(ResultsOf(l))
    BY <1>2, <2>2, <2>3 DEF TurnsAgree
  <2>5. CASE l.role = t.role
    <3> DEFINE m == Longer(l, t)
               a == Append(u, m)
    <3>1. Talk!Extended(s, t) = a
      BY <2>1, <2>5, ExtendedLast
    <3>2. m \in SaneMessages /\ m.role = l.role
      BY <2>5, LongerIsSane
    <3>3. m = Longer(l, t)
      OBVIOUS
    <3> HIDE DEF m
    <3>4. /\ Fits(m, CallsBefore(s, n), after)
          /\ m.role = "assistant" => after = Talk!ToSet(CallsOf(m))
          /\ m.role = "user" /\ after # {} =>
                after \subseteq CallsBefore(s, n) /\ Len(m.content) = Len(ResultsOf(m))
      BY <2>4, <2>5, <3>3, LongerFits
    <3>5. /\ Len(a) = n /\ a # <<>> /\ a[n] = m /\ \A i \in 1..(n - 1) : a[i] = u[i]
      <4>1. a = Append(u, m)
        OBVIOUS
      <4> HIDE DEF a
      <4>2. /\ Len(a) = Len(u) + 1 /\ a # <<>> /\ a[Len(u) + 1] = m
            /\ \A i \in 1..Len(u) : a[i] = u[i]
        BY <3>2, <4>1, AppendReads
      <4> QED BY <4>2 DEF n
    <3> HIDE DEF a
    <3>6. \A i \in 1..(n - 1) : a[i] = s[i]
      BY <2>2, <3>5
    <3>7. \A i \in 1..n : CallsBefore(a, i) = CallsBefore(s, i)
      <4> SUFFICES ASSUME NEW i \in 1..n PROVE CallsBefore(a, i) = CallsBefore(s, i)
        OBVIOUS
      <4>1. i # 1 => i - 1 \in 1..(n - 1)
        BY <2>3
      <4> QED BY <3>6, <4>1 DEF CallsBefore
    <3>8. ASSUME NEW i \in 1..n
          PROVE  /\ a[i].role \in {"user", "assistant"}
                 /\ i > 1 => a[i].role # a[i - 1].role
                 /\ Fits(a[i], CallsBefore(a, i), IF i = n THEN after ELSE {})
      <4>1. CASE i = n
        <5>1. n > 1 => a[n - 1] = s[n - 1]
          BY <2>3, <3>6
        <5> QED BY <2>3, <2>4, <3>2, <3>4, <3>5, <3>7, <4>1, <5>1
      <4>2. CASE i # n
        <5>1. i \in 1..(n - 1) /\ (i > 1 => i - 1 \in 1..(n - 1))
          BY <2>3, <4>2
        <5> QED BY <2>4, <3>6, <3>7, <4>2, <5>1
      <4> QED BY <4>1, <4>2
    <3>9. CallsBefore(a, n) = CallsBefore(s, n)
      BY <2>3, <3>7
    <3> QED BY <3>1, <3>4, <3>5, <3>8, <3>9 DEF TurnsAgree
  <2>6. CASE l.role # t.role
    <3> DEFINE a == Append(s, t)
               k == n + 1
    <3>1. Talk!Extended(s, t) = a
      BY <2>1, <2>6, ExtendedLast
    <3>2. l.role = "assistant" => CallsBefore(s, n) = {}
      <4> SUFFICES ASSUME l.role = "assistant" PROVE CallsBefore(s, n) = {}
        OBVIOUS
      <4>1. CASE n = 1
        BY <4>1 DEF CallsBefore
      <4>2. CASE n # 1
        <5>1. n - 1 \in 1..(n - 1) /\ n > 1 /\ n - 1 \in 1..Len(s)
          BY <2>2, <2>3, <4>2
        <5>2. s[n - 1] \in SaneMessages
          BY <5>1, ElementOfSeq
        <5>3. s[n - 1].role # "assistant"
          BY <2>4, <5>1
        <5>4. CallsOf(s[n - 1]) = <<>>
          BY <5>2, <5>3, SaneReads
        <5> QED BY <4>2, <5>4, SetOfOne DEF CallsBefore
      <4> QED BY <4>1, <4>2
    <3>3. /\ Fits(l, CallsBefore(s, n), {})
          /\ Fits(t, Talk!ToSet(CallsOf(l)), after)
          /\ t.role = "assistant" => after = Talk!ToSet(CallsOf(t))
          /\ t.role = "user" /\ after # {} =>
                after \subseteq Talk!ToSet(CallsOf(l)) /\ Len(t.content) = Len(ResultsOf(t))
      BY <2>4, <2>6, <3>2, NextFits
    <3>4. t.role \in {"user", "assistant"}
      BY DEF ComesNext
    <3>5. Len(a) = k /\ a # <<>> /\ a[k] = t /\ \A i \in 1..n : a[i] = s[i]
      BY <2>2, AppendReads
    <3> HIDE DEF a
    <3>6. \A i \in 1..n : CallsBefore(a, i) = CallsBefore(s, i)
      <4> SUFFICES ASSUME NEW i \in 1..n PROVE CallsBefore(a, i) = CallsBefore(s, i)
        OBVIOUS
      <4>1. i # 1 => i - 1 \in 1..n
        BY <2>3
      <4> QED BY <3>5, <4>1 DEF CallsBefore
    <3>7. a[k - 1] = l /\ CallsBefore(a, k) = Talk!ToSet(CallsOf(l)) /\ k > 1
      BY <2>2, <2>3, <3>5 DEF CallsBefore
    <3>8. ASSUME NEW i \in 1..k
          PROVE  /\ a[i].role \in {"user", "assistant"}
                 /\ i > 1 => a[i].role # a[i - 1].role
                 /\ Fits(a[i], CallsBefore(a, i), IF i = k THEN after ELSE {})
      <4>1. CASE i = k
        BY <2>6, <3>3, <3>4, <3>5, <3>7, <4>1
      <4>2. CASE i = n
        <5>1. i # k /\ (n > 1 => a[n - 1] = s[n - 1]) /\ a[n] = l
          BY <2>2, <2>3, <3>5, <4>2
        <5> QED BY <2>3, <2>4, <3>3, <3>6, <4>2, <5>1
      <4>3. CASE i # k /\ i # n
        <5>1. i \in 1..(n - 1) /\ i \in 1..n /\ (i > 1 => i - 1 \in 1..n)
          BY <2>3, <4>3
        <5> QED BY <2>4, <3>5, <3>6, <4>3, <5>1
      <4> QED BY <4>1, <4>2, <4>3
    <3> HIDE DEF k
    <3> QED BY <3>1, <3>3, <3>5, <3>7, <3>8 DEF TurnsAgree
  <2> QED BY <2>5, <2>6
<1> QED BY <1>1, <1>2

\* A sequence without repetitions has as many places as elements.
LEMMA EachHasAPlace ==
    ASSUME NEW D, NEW s \in Seq(D), Talk!IsInjective(s)
    PROVE  Len(s) = Cardinality(Talk!ToSet(s))
<1> DEFINE I == 1..Len(s)
           T == Talk!ToSet(s)
<1>1. Len(s) \in Nat /\ DOMAIN s = I /\ s \in [I -> D]
  BY LenProperties
<1>2. T = {s[i] : i \in I}
  BY <1>1 DEF Talk!ToSet
<1>3. s \in [I -> T]
  BY <1>1, <1>2
<1>4. s \in Surjection(I, T)
  BY <1>2, <1>3 DEF Surjection
<1>5. s \in Injection(I, T)
  <2>1. \A a, b \in I : s[a] = s[b] => a = b
    BY <1>1 DEF Talk!IsInjective
  <2> QED BY <1>3, <2>1 DEF Injection, IsInjective
<1>6. IsFiniteSet(I) /\ Cardinality(I) = Len(s)
  BY <1>1, FS_Interval
<1> HIDE DEF I, T
<1>7. Cardinality(T) = Cardinality(I)
  BY <1>4, <1>5, <1>6, FS_Surjection
<1> QED BY <1>6, <1>7 DEF T

\* Two of them with the same elements have the same length.
LEMMA SameLength ==
    ASSUME NEW D, NEW s \in Seq(D), NEW t \in Seq(D), Talk!IsInjective(s), Talk!IsInjective(t),
           Talk!ToSet(s) = Talk!ToSet(t)
    PROVE  Len(s) = Len(t)
  BY EachHasAPlace

\* Turns that alternate have their role by their place.
LEMMA RolesByPlace ==
    ASSUME NEW n \in Nat, NEW role, role[1] = "user",
           \A i \in 1..n : role[i] \in {"user", "assistant"} /\ (i > 1 => role[i] # role[i - 1])
    PROVE  \A i \in 1..n : role[i] = IF i % 2 = 1 THEN "user" ELSE "assistant"
<1> DEFINE Right(i) == i \in 1..n => role[i] = IF i % 2 = 1 THEN "user" ELSE "assistant"
           P == {i \in Nat : Right(i)}
<1>1. 0 \in P
  OBVIOUS
<1>2. ASSUME NEW i \in 1..n, i - 1 \in P PROVE i \in P
  <2>1. CASE i = 1
    BY <2>1
  <2>2. CASE i # 1
    <3>1. i - 1 \in 1..n /\ i > 1 /\ i \in Nat
      BY <2>2
    <3>2. role[i - 1] = (IF (i - 1) % 2 = 1 THEN "user" ELSE "assistant")
      BY <1>2, <3>1
    <3>3. role[i] \in {"user", "assistant"} /\ role[i] # role[i - 1]
      BY <3>1
    <3>4. i % 2 = 1 <=> (i - 1) % 2 # 1
      BY <3>1
    <3> QED BY <3>1, <3>2, <3>3, <3>4
  <2> QED BY <2>1, <2>2
<1> HIDE DEF P
<1>3. \A i \in 0..n : i \in P
  BY <1>1, <1>2, ByCounting
<1> QED BY <1>3 DEF P

\* The turns as they are sent, from the user on.
LEMMA BegunAgrees ==
    ASSUME NEW s \in Seq(SaneMessages), TurnsAgree(s, {}), NEW a, a = Talk!Begun(s)
    PROVE  /\ a \in Seq(SaneMessages) /\ a # <<>> /\ a[1].role = "user"
           /\ \A i \in 1..Len(a) :
                /\ a[i].role \in {"user", "assistant"}
                /\ i > 1 => a[i].role # a[i - 1].role
                /\ Fits(a[i], CallsBefore(a, i), {})
<1>0. a \in Seq(SaneMessages)
  BY BegunKeeps
<1>1. \A i \in 1..Len(s) : /\ s[i].role \in {"user", "assistant"}
                           /\ i > 1 => s[i].role # s[i - 1].role
                           /\ Fits(s[i], CallsBefore(s, i), {})
  BY DEF TurnsAgree
<1>2. CASE s # <<>> /\ Head(s).role = "user"
  <2>1. a = s
    BY <1>2 DEF Talk!Begun
  <2>2. Head(s) = s[1]
    OBVIOUS
  <2> QED BY <1>0, <1>1, <1>2, <2>1, <2>2
<1>3. CASE s = <<>> \/ Head(s).role # "user"
  <2> DEFINE p == Talk!Placeholder
             n == Len(s)
  <2>1. p \in SaneMessages /\ p.role = "user" /\ CallsOf(p) = <<>> /\ ResultsOf(p) = <<>>
    <3> DEFINE b == Talk!Block("text", Talk!Blank)
    <3>1. b \in ContentBlocks /\ b.type = "text" /\ b.id = 0
      BY DEF ContentBlocks, BlockTypes, Talk!Block, Talk!Blank
    <3>2. p = [role |-> "user", content |-> <<b>>]
      BY DEF Talk!Placeholder
    <3> HIDE DEF b, p
    <3>3. p.role = "user" /\ p.content = <<b>>
      BY <3>2
    <3>4. <<b>> \in Seq(ContentBlocks) /\ \A type : Talk!OfType(<<b>>, type) = <<>>
      BY <3>1, OneBlock
    <3>5. ~Talk!Has(p.content, "tool_use")
      BY <3>1, <3>3 DEF Talk!Has
    <3>6. p \in SaneMessages
      BY <3>2, <3>3, <3>4, <3>5 DEF SaneMessages, ClaudeMessages, Sane, Speaking
    <3> QED BY <3>3, <3>4, <3>6 DEF CallsOf, ResultsOf
  <2>2. a = <<p>> \o s
    BY <1>3 DEF Talk!Begun
  <2> HIDE DEF p
  <2>3. <<p>> \in Seq(SaneMessages) /\ Len(<<p>>) = 1
    BY <2>1
  <2>4. /\ n \in Nat /\ Len(a) = n + 1
        /\ \A i \in 1..(n + 1) : a[i] = IF i <= 1 THEN <<p>>[i] ELSE s[i - 1]
    BY <2>2, <2>3, ConcatProperties, LenProperties
  <2>5. a[1] = p /\ a # <<>>
    BY <2>4, EmptySeq
  <2>6. \A i \in 2..(n + 1) : a[i] = s[i - 1]
    BY <2>4
  <2> HIDE DEF n
  <2>7. Fits(p, {}, {})
    BY <2>1, NoResultsHead, SetOfOne DEF Fits
  <2>8. n > 0 => s[1].role = "assistant"
    <3>1. n > 0 => s # <<>>
      BY EmptySeq DEF n
    <3>2. n > 0 => 1 \in 1..n /\ s[1].role \in {"user", "assistant"}
      BY <1>1, <2>4 DEF n
    <3> QED BY <1>3, <3>1, <3>2
  <2>9. ASSUME NEW i \in 1..(n + 1)
        PROVE  /\ a[i].role \in {"user", "assistant"}
               /\ i > 1 => a[i].role # a[i - 1].role
               /\ Fits(a[i], CallsBefore(a, i), {})
    <3>1. CASE i = 1
      <4>1. CallsBefore(a, 1) = {}
        BY DEF CallsBefore
      <4>2. Fits(a[1], CallsBefore(a, 1), {})
        BY <2>5, <2>7, <4>1
      <4>3. a[1].role = "user"
        BY <2>1, <2>5
      <4>4. ~(i > 1)
        BY <3>1
      <4> QED BY <3>1, <4>2, <4>3, <4>4
    <3>2. CASE i = 2
      <4>1. n > 0 /\ a[2] = s[1] /\ 1 \in 1..n
        BY <2>4, <2>6, <3>2
      <4>2. CallsBefore(a, 2) = {}
        BY <2>1, <2>5, SetOfOne DEF CallsBefore
      <4>3. CallsBefore(s, 1) = {}
        BY DEF CallsBefore
      <4>4. Fits(s[1], {}, {})
        BY <1>1, <4>1, <4>3 DEF n
      <4>5. Fits(a[2], CallsBefore(a, 2), {})
        BY <4>1, <4>2, <4>4
      <4>6. a[2].role = "assistant" /\ a[1].role = "user" /\ i - 1 = 1
        BY <2>1, <2>5, <2>8, <3>2, <4>1
      <4>7. a[i].role \in {"user", "assistant"} /\ a[i].role # a[i - 1].role
        BY <3>2, <4>6
      <4> QED BY <3>2, <4>5, <4>7
    <3>3. CASE i # 1 /\ i # 2
      <4>1. /\ i - 1 \in 1..n /\ i - 1 > 1 /\ i > 1 /\ a[i] = s[i - 1] /\ i - 1 # 1
            /\ a[i - 1] = s[(i - 1) - 1]
        BY <2>4, <2>6, <3>3
      <4>2. CallsBefore(a, i) = CallsBefore(s, i - 1)
        BY <3>3, <4>1 DEF CallsBefore
      <4>3. /\ s[i - 1].role \in {"user", "assistant"} /\ s[i - 1].role # s[(i - 1) - 1].role
            /\ Fits(s[i - 1], CallsBefore(s, i - 1), {})
        BY <1>1, <4>1 DEF n
      <4> QED BY <4>1, <4>2, <4>3
    <3> QED BY <3>1, <3>2, <3>3
  <2> QED BY <1>0, <2>1, <2>4, <2>5, <2>9
<1> QED BY <1>2, <1>3

\* Claude takes what agrees.
LEMMA ClaudeTakes ==
    ASSUME NEW r \in ClaudeRequests, NEW s \in Seq(SaneMessages), TurnsAgree(s, {}),
           r.messages = Talk!Begun(s)
    PROVE  Talk!ClaudeAccepts(r)
<1> DEFINE a == Talk!Begun(s)
<1>1. /\ a \in Seq(SaneMessages) /\ a # <<>> /\ a[1].role = "user"
      /\ \A i \in 1..Len(a) :
           /\ a[i].role \in {"user", "assistant"}
           /\ i > 1 => a[i].role # a[i - 1].role
           /\ Fits(a[i], CallsBefore(a, i), {})
  BY BegunAgrees
<1>2. r.messages = a /\ r.limit \in Nat \ {0}
  BY DEF ClaudeRequests, Numbers
<1> HIDE DEF a
<1>3. Len(a) \in Nat /\ DOMAIN a = 1..Len(a)
  BY <1>1, LenProperties
<1>4. \A i \in 1..Len(a) : a[i].role = IF i % 2 = 1 THEN "user" ELSE "assistant"
  <2> DEFINE role == [i \in 1..Len(a) |-> a[i].role]
  <2>1. 1 \in 1..Len(a)
    BY <1>1, <1>3, EmptySeq
  <2>2. role[1] = "user"
    BY <1>1, <2>1
  <2>3. ASSUME NEW i \in 1..Len(a)
        PROVE  role[i] \in {"user", "assistant"} /\ (i > 1 => role[i] # role[i - 1])
    <3>1. i > 1 => i - 1 \in 1..Len(a)
      BY <1>3
    <3> QED BY <1>1, <3>1
  <2>4. \A i \in 1..Len(a) : role[i] = a[i].role
    OBVIOUS
  <2> HIDE DEF role
  <2>5. \A i \in 1..Len(a) : role[i] = IF i % 2 = 1 THEN "user" ELSE "assistant"
    BY <1>3, <2>2, <2>3, RolesByPlace
  <2> QED BY <2>4, <2>5
<1>5. ASSUME NEW i \in 1..Len(a)
      PROVE  LET m == a[i]
                 calls == IF i = 1 THEN <<>> ELSE Talk!OfType(a[i - 1].content, "tool_use")
                 results == Talk!OfType(m.content, "tool_result")
             IN  /\ m.role = IF i % 2 = 1 THEN "user" ELSE "assistant"
                 /\ Talk!ToSet(results) = Talk!ToSet(calls) /\ Len(results) = Len(calls)
                 /\ results = Talk!OfType(SubSeq(m.content, 1, Len(results)), "tool_result")
  <2> DEFINE calls == IF i = 1 THEN <<>> ELSE CallsOf(a[i - 1])
             results == ResultsOf(a[i])
  <2>1. Fits(a[i], CallsBefore(a, i), {}) /\ a[i] \in SaneMessages
    BY <1>1, ElementOfSeq
  <2>2. i # 1 => i - 1 \in 1..Len(a) /\ a[i - 1] \in SaneMessages
    <3>1. i # 1 => i - 1 \in 1..Len(a)
      BY <1>3
    <3> QED BY <1>1, <3>1, ElementOfSeq
  <2>3. CallsBefore(a, i) = Talk!ToSet(calls)
    BY SetOfOne DEF CallsBefore
  <2>4. results \in Seq(Numbers) /\ calls \in Seq(Numbers) /\ Talk!IsInjective(results)
    BY <2>1, <2>2, SaneReads, EmptySeq DEF Fits
  <2>5. Talk!IsInjective(calls)
    <3>1. CASE i = 1
      BY <3>1, SetOfOne
    <3>2. CASE i # 1
      <4>1. Fits(a[i - 1], CallsBefore(a, i - 1), {})
        BY <1>1, <2>2, <3>2
      <4> QED BY <3>2, <4>1 DEF Fits
    <3> QED BY <3>1, <3>2
  <2>6. Talk!ToSet(results) = Talk!ToSet(calls)
    BY <2>1, <2>3 DEF Fits
  <2>7. results = Talk!OfType(SubSeq(a[i].content, 1, Len(results)), "tool_result")
    BY <2>1 DEF Fits, HeadsWithResults
  <2> HIDE DEF calls, results
  <2>8. Len(results) = Len(calls)
    BY <2>4, <2>5, <2>6, SameLength
  <2>9. calls = (IF i = 1 THEN <<>> ELSE Talk!OfType(a[i - 1].content, "tool_use"))
        /\ results = Talk!OfType(a[i].content, "tool_result")
    BY DEF calls, results, CallsOf, ResultsOf
  <2> QED BY <1>4, <2>6, <2>7, <2>8, <2>9
<1> QED BY <1>1, <1>2, <1>3, <1>5 DEF Talk!ClaudeAccepts

\* The turns of an OpenAI conversation.
TurnsOf(msgs) == Talk!Merged(Talk!Pending(msgs))

\* A message of the system leaves them as they are, any other extends them.
LEMMA TurnsOneMore ==
    ASSUME NEW msgs \in Seq(FlatMessages), NEW m \in FlatMessages, NEW more, more = Append(msgs, m)
    PROVE  /\ TurnsOf(msgs) \in Seq(SaneMessages)
           /\ m.role = "system" => TurnsOf(more) = TurnsOf(msgs)
           /\ m.role # "system" => TurnsOf(more) = Talk!Extended(TurnsOf(msgs), Talk!Turn(m))
<1>1. /\ Talk!Pending(msgs) \in Seq(SaneMessages) /\ Talk!Pending(msgs) = Through(msgs, Turned)
      /\ Gives(Turned, FlatMessages, SaneMessages)
  BY PendingIsThrough
<1>2. more \in Seq(FlatMessages)
  BY AppendProperties
<1>3. Talk!Pending(more) = Through(more, Turned)
  BY <1>2, PendingIsThrough
<1>4. Through(more, Turned) = Through(msgs, Turned) \o Turned[m]
  BY <1>1, ThroughOneMore
<1> DEFINE p == Talk!Pending(msgs)
<1>5. p \in Seq(SaneMessages) /\ Talk!Pending(more) = p \o Turned[m]
  BY <1>1, <1>3, <1>4
<1>6. TurnsOf(msgs) = Talk!Merged(p) /\ TurnsOf(more) = Talk!Merged(Talk!Pending(more))
  BY DEF TurnsOf
<1> HIDE DEF p
<1>7. TurnsOf(msgs) \in Seq(SaneMessages)
  BY <1>5, <1>6, MergedKeeps, ContentIsGiven
<1>8. CASE m.role = "system"
  <2>1. Turned[m] = <<>>
    BY <1>8 DEF Turned
  <2>2. p \o <<>> = p
    BY <1>5, ConcatEmptySeq
  <2> QED BY <1>5, <1>6, <1>7, <1>8, <2>1, <2>2
<1>9. CASE m.role # "system"
  <2> DEFINE t == Talk!Turn(m)
  <2>1. Turned[m] = <<t>>
    BY <1>9 DEF Turned
  <2>2. t \in SaneMessages
    BY <1>9, TurnReads
  <2> HIDE DEF t
  <2>3. p \o <<t>> = Append(p, t)
    BY <1>5, <2>2
  <2>4. Talk!Merged(Append(p, t)) = Talk!Extended(Talk!Merged(p), t)
    BY <1>5, <2>2, MergedOneMore
  <2> QED BY <1>5, <1>6, <1>7, <1>9, <2>1, <2>3, <2>4 DEF t
<1> QED BY <1>8, <1>9

\* What a message is as a turn.
LEMMA TurnIs ==
    ASSUME NEW m \in FlatMessages, m.role # "system", NEW t, t = Talk!Turn(m)
    PROVE  /\ t \in SaneMessages
           /\ t.role = IF m.role = "tool" THEN "user" ELSE m.role
           /\ CallsOf(t) = m.calls
           /\ ResultsOf(t) = IF m.role = "tool" THEN <<m.answers>> ELSE <<>>
           /\ HeadsWithResults(t) /\ Talk!IsInjective(ResultsOf(t))
           /\ m.role = "tool" => Len(t.content) = Len(ResultsOf(t))
<1>1. /\ t \in SaneMessages
      /\ t.role = (IF m.role = "tool" THEN "user" ELSE m.role)
      /\ CallsOf(t) = m.calls
      /\ ResultsOf(t) = IF m.role = "tool" THEN <<m.answers>> ELSE <<>>
  BY TurnReads DEF CallsOf, ResultsOf, FlatCalls, FlatResults
<1>2. m.role = "tool" => Len(t.content) = Len(ResultsOf(t))
  <2>1. m.role = "tool" => t.content = <<Talk!Block("tool_result", m.answers)>>
    BY DEF Talk!Turn, Talk!BlocksOf
  <2>2. m.role = "tool" => Len(t.content) = 1 /\ Len(ResultsOf(t)) = 1
    BY <1>1, <2>1
  <2> QED BY <2>2
<1>3. HeadsWithResults(t)
  BY <1>1, <1>2, NoResultsHead, OnlyResultsHead
<1>4. Talk!IsInjective(ResultsOf(t))
  BY <1>1, SetOfOne
<1> QED BY <1>1, <1>2, <1>3, <1>4

\* A message more, and the turns agree still.
LEMMA TurnsGoOn ==
    ASSUME NEW msgs \in Seq(FlatMessages), NEW m \in FlatMessages, NEW more, more = Append(msgs, m),
           NEW left, NEW after, TurnsAgree(TurnsOf(msgs), left),
           Talk!IsInjective(m.calls),
           \/ m.role = "system" /\ after = left
           \/ m.role = "user" /\ left = {} /\ after = {}
           \/ m.role = "assistant" /\ left = {} /\ after = Talk!ToSet(m.calls)
           \/ m.role = "tool" /\ m.answers \in left /\ after = left \ {m.answers}
    PROVE  TurnsAgree(TurnsOf(more), after)
<1>1. CASE m.role = "system"
  <2>1. after = left
    BY <1>1
  <2> QED BY <1>1, <2>1, TurnsOneMore
<1>2. CASE m.role # "system"
  <2> DEFINE t == Talk!Turn(m)
             s == TurnsOf(msgs)
  <2>1. TurnsOf(more) = Talk!Extended(s, t) /\ s \in Seq(SaneMessages)
    BY <1>2, TurnsOneMore
  <2>2. /\ t \in SaneMessages
        /\ t.role = (IF m.role = "tool" THEN "user" ELSE m.role)
        /\ CallsOf(t) = m.calls
        /\ ResultsOf(t) = (IF m.role = "tool" THEN <<m.answers>> ELSE <<>>)
        /\ HeadsWithResults(t) /\ Talk!IsInjective(ResultsOf(t))
        /\ m.role = "tool" => Len(t.content) = Len(ResultsOf(t))
    BY <1>2, TurnIs
  <2> HIDE DEF t
  <2>3. ComesNext(t, left, after)
    <3>1. Talk!ToSet(<<>>) = {} /\ Talk!ToSet(<<m.answers>>) = {m.answers}
      BY SetOfOne
    <3>2. CASE m.role = "user" /\ left = {} /\ after = {}
      BY <2>2, <3>1, <3>2 DEF ComesNext
    <3>3. CASE m.role = "assistant" /\ left = {} /\ after = Talk!ToSet(m.calls)
      BY <2>2, <3>1, <3>3 DEF ComesNext
    <3>4. CASE m.role = "tool" /\ m.answers \in left /\ after = left \ {m.answers}
      <4>1. left # {} /\ t.role = "user" /\ ResultsOf(t) = <<m.answers>>
            /\ Talk!ToSet(ResultsOf(t)) = {m.answers}
        BY <2>2, <3>1, <3>4
      <4> QED BY <2>2, <3>4, <4>1 DEF ComesNext
    <3> QED BY <1>2, <3>2, <3>3, <3>4
  <2>4. TurnsAgree(s, left)
    OBVIOUS
  <2> HIDE DEF s
  <2> QED BY <2>1, <2>2, <2>3, <2>4, TurnsAgreeMore
<1> QED BY <1>1, <1>2

-----------------------------------------------------------------------------
(* What an OpenAI server asks: the messages after a message answer its calls.*)

\* The first elements of a sequence are those of s.
Starts(s, a) == Len(s) <= Len(a) /\ \A i \in 1..Len(s) : a[i] = s[i]

\* Answers stay answers, when what follows them is no other.
LEMMA AnsweredStays ==
    ASSUME NEW s \in Seq(FlatMessages), NEW a \in Seq(FlatMessages), Starts(s, a),
           NEW i \in 1..Len(s), NEW n \in Nat, AnsweredBy(s, i, n),
           i + n < Len(s) \/ (Len(s) < Len(a) => a[Len(s) + 1].role # "tool")
    PROVE  AnsweredBy(a, i, n)
<1>1. /\ Len(s) \in Nat /\ Len(a) \in Nat /\ Len(s) <= Len(a) /\ \A j \in 1..Len(s) : a[j] = s[j]
  BY LenProperties DEF Starts
<1>2. /\ i + n <= Len(s)
      /\ \A k \in 1..n : s[i + k].role = "tool"
      /\ i + n < Len(s) => s[i + n + 1].role # "tool"
      /\ {s[i + k].answers : k \in 1..n} = Talk!ToSet(s[i].calls)
      /\ n = Len(s[i].calls)
  BY DEF AnsweredBy
<1>3. \A k \in 1..n : a[i + k] = s[i + k]
  <2> SUFFICES ASSUME NEW k \in 1..n PROVE a[i + k] = s[i + k]
    OBVIOUS
  <2>1. i + k \in 1..Len(s)
    BY <1>1, <1>2
  <2> QED BY <1>1, <2>1
<1>4. a[i] = s[i]
  BY <1>1
<1>5. i + n < Len(a) => a[i + n + 1].role # "tool"
  <2>1. CASE i + n < Len(s)
    <3>1. i + n + 1 \in 1..Len(s)
      BY <1>1, <2>1
    <3> QED BY <1>1, <1>2, <2>1, <3>1
  <2>2. CASE ~(i + n < Len(s))
    <3>1. i + n = Len(s)
      BY <1>1, <1>2, <2>2
    <3> QED BY <2>2, <3>1
  <2> QED BY <2>1, <2>2
<1>6. {a[i + k].answers : k \in 1..n} = {s[i + k].answers : k \in 1..n}
  BY <1>3
<1>7. {a[i + k].answers : k \in 1..n} = Talk!ToSet(a[i].calls) /\ n = Len(a[i].calls)
  BY <1>2, <1>4, <1>6
<1>8. i + n <= Len(a) /\ \A k \in 1..n : a[i + k].role = "tool"
  <2>1. i \in Nat /\ i + n <= Len(s)
    BY <1>1, <1>2
  <2>2. i + n <= Len(a)
    BY <1>1, <2>1
  <2>3. \A k \in 1..n : a[i + k].role = "tool"
    BY <1>2, <1>3
  <2> QED BY <2>2, <2>3
<1> QED BY <1>5, <1>7, <1>8 DEF AnsweredBy

\* What a message without calls has is nothing.
LEMMA AnsweredByNone ==
    ASSUME NEW s, NEW i, i \in Nat, i <= Len(s), Len(s) \in Nat, s[i].calls = <<>>,
           i < Len(s) => s[i + 1].role # "tool"
    PROVE  AnsweredBy(s, i, 0)
<1>1. i + 0 = i /\ i + 0 + 1 = i + 1
  OBVIOUS
<1>2. {s[i + k].answers : k \in 1..0} = {} /\ Talk!ToSet(<<>>) = {} /\ Len(<<>>) = 0
  BY SetOfOne, EmptySeq
<1> QED BY <1>1, <1>2 DEF AnsweredBy

\* When nothing is open any message may be said; its calls are open then.
LEMMA MessagesSaid ==
    ASSUME NEW s \in Seq(FlatMessages), MessagesAgree(s, {}),
           NEW m \in FlatMessages, m.role # "tool", Talk!IsInjective(m.calls),
           NEW a, a = Append(s, m)
    PROVE  MessagesAgree(a, Talk!ToSet(m.calls))
<1> DEFINE n == Len(s)
<1>1. /\ a \in Seq(FlatMessages) /\ Len(a) = n + 1 /\ n \in Nat /\ a # <<>>
      /\ \A i \in 1..n : a[i] = s[i]
      /\ a[n + 1] = m
  BY AppendReads
<1>2. Starts(s, a)
  BY <1>1 DEF Starts
<1>3. ASSUME NEW i \in 1..n, s[i].role # "tool"
      PROVE  Talk!IsInjective(s[i].calls) /\ \E k \in Nat : AnsweredBy(a, i, k)
  <2>1. /\ Talk!IsInjective(s[i].calls)
        /\ IF i = n THEN {} = Talk!ToSet(s[i].calls) ELSE \E k \in Nat : AnsweredBy(s, i, k)
    BY <1>3 DEF MessagesAgree
  <2>2. CASE i = n
    <3>1. s[i] \in FlatMessages
      BY ElementOfSeq
    <3>2. s[i].calls \in Seq(Numbers)
      BY <3>1 DEF FlatMessages
    <3>3. s[i].calls = <<>>
      BY <2>1, <2>2, <3>2, EmptySet
    <3>4. a[i].calls = <<>> /\ i \in Nat /\ i <= Len(a) /\ Len(a) \in Nat /\ a[i + 1].role # "tool"
      BY <1>1, <2>2, <3>3
    <3>5. AnsweredBy(a, i, 0)
      BY <3>4, AnsweredByNone
    <3> QED BY <2>1, <3>5
  <2>3. CASE i # n
    <3>1. PICK k \in Nat : AnsweredBy(s, i, k)
      BY <2>1, <2>3
    <3>2. a[Len(s) + 1].role # "tool"
      BY <1>1
    <3>3. AnsweredBy(a, i, k)
      BY <1>1, <1>2, <3>1, <3>2, AnsweredStays
    <3> QED BY <2>1, <3>3
  <2> QED BY <2>2, <2>3
<1>4. ASSUME NEW i \in 1..(n + 1), a[i].role # "tool"
      PROVE  /\ Talk!IsInjective(a[i].calls)
             /\ IF i = n + 1 THEN Talk!ToSet(m.calls) = Talk!ToSet(a[i].calls)
                ELSE \E k \in Nat : AnsweredBy(a, i, k)
  <2>1. CASE i = n + 1
    BY <1>1, <2>1
  <2>2. CASE i # n + 1
    <3>1. i \in 1..n
      BY <1>1, <2>2
    <3>2. a[i] = s[i]
      BY <1>1, <3>1
    <3> QED BY <1>3, <1>4, <2>2, <3>1, <3>2
  <2> QED BY <2>1, <2>2
<1>5. a[1].role # "tool"
  <2>1. CASE s = <<>>
    <3>1. n = 0
      BY <2>1, EmptySeq
    <3> QED BY <1>1, <3>1
  <2>2. CASE s # <<>>
    <3>1. 1 \in 1..n
      BY <1>1, <2>2, EmptySeq
    <3> QED BY <1>1, <2>2, <3>1 DEF MessagesAgree
  <2> QED BY <2>1, <2>2
<1> HIDE DEF n
<1> QED BY <1>1, <1>4, <1>5 DEF MessagesAgree

\* The results of all that is open close it.
LEMMA MessagesAnswered ==
    ASSUME NEW s \in Seq(FlatMessages), NEW left, MessagesAgree(s, left),
           NEW c \in Seq(Numbers), Talk!IsInjective(c), Talk!ToSet(c) = left,
           NEW a, a = s \o ToolMessages(c)
    PROVE  MessagesAgree(a, {})
<1> DEFINE n == Len(s)
           x == ToolMessages(c)
<1>1. x \in Seq(FlatMessages) /\ Len(x) = Len(c) /\ Len(c) \in Nat
  BY ToolsGiveBack, LenProperties
<1>2. \A k \in 1..Len(c) : x[k].role = "tool" /\ x[k].answers = c[k]
  <2> SUFFICES ASSUME NEW k \in 1..Len(c) PROVE x[k].role = "tool" /\ x[k].answers = c[k]
    OBVIOUS
  <2>1. c[k] \in Numbers
    BY ElementOfSeq
  <2>2. x[k] = ToolMessage(c[k])
    BY LenProperties DEF ToolMessages
  <2> QED BY <2>1, <2>2, ToolMessageIs
<1> HIDE DEF x
<1>3. /\ a \in Seq(FlatMessages) /\ n \in Nat /\ Len(a) = n + Len(c)
      /\ \A i \in 1..(n + Len(c)) : a[i] = IF i <= n THEN s[i] ELSE x[i - n]
  <2>1. a = s \o x /\ n \in Nat
    BY LenProperties DEF x
  <2>2. /\ s \o x \in Seq(FlatMessages) /\ Len(s \o x) = Len(s) + Len(x)
        /\ \A i \in 1..(Len(s) + Len(x)) : (s \o x)[i] = IF i <= Len(s) THEN s[i] ELSE x[i - Len(s)]
    BY <1>1, ConcatProperties
  <2> QED BY <1>1, <2>1, <2>2
<1>4. \A k \in 1..Len(c) : a[n + k].role = "tool" /\ a[n + k].answers = c[k]
  <2> SUFFICES ASSUME NEW k \in 1..Len(c) PROVE a[n + k].role = "tool" /\ a[n + k].answers = c[k]
    OBVIOUS
  <2>1. n + k \in 1..(n + Len(c)) /\ ~(n + k <= n) /\ (n + k) - n = k
    BY <1>1, <1>3
  <2> QED BY <1>2, <1>3, <2>1
<1>5. \A i \in 1..n : a[i] = s[i] /\ i \in 1..(n + Len(c))
  BY <1>1, <1>3
<1>6. CASE c = <<>>
  <2>1. left = {} /\ Len(c) = 0
    BY <1>6, SetOfOne, EmptySeq
  <2>2. x = <<>>
    BY <1>1, <2>1, EmptySeq
  <2>3. a = s
    BY <2>2, ConcatEmptySeq DEF x
  <2> QED BY <2>1, <2>3
<1>7. CASE c # <<>>
  <2>1. Len(c) >= 1 /\ 1 \in 1..Len(c) /\ left # {}
    <3>1. Len(c) \in Nat \ {0}
      BY <1>7, EmptySeq
    <3> QED BY <1>7, <3>1, EmptySet
  <2>2. s # <<>> /\ s[1].role # "tool" /\ s[n].role # "tool"
    BY <2>1 DEF MessagesAgree
  <2>3. n >= 1 /\ n \in 1..n /\ 1 \in 1..n
    BY <1>3, <2>2, EmptySeq
  <2>4. Talk!IsInjective(s[n].calls) /\ left = Talk!ToSet(s[n].calls)
    BY <2>2, <2>3 DEF MessagesAgree
  <2>5. s[n].calls \in Seq(Numbers)
    <3>1. s[n] \in FlatMessages
      BY <2>3, ElementOfSeq
    <3> QED BY <3>1 DEF FlatMessages
  <2>6. Len(c) = Len(s[n].calls)
    BY <2>4, <2>5, SameLength
  <2>7. {a[n + k].answers : k \in 1..Len(c)} = Talk!ToSet(c)
    <3>1. Talk!ToSet(c) = {c[k] : k \in 1..Len(c)}
      BY LenProperties DEF Talk!ToSet
    <3> QED BY <1>4, <3>1
  <2>8. AnsweredBy(a, n, Len(c))
    <3>1. a[n] = s[n]
      BY <1>5, <2>3
    <3>2. {a[n + k].answers : k \in 1..Len(c)} = Talk!ToSet(a[n].calls) /\ Len(c) = Len(a[n].calls)
      BY <2>4, <2>6, <2>7, <3>1
    <3>3. n + Len(c) <= Len(a) /\ ~(n + Len(c) < Len(a)) /\ \A k \in 1..Len(c) : a[n + k].role = "tool"
      BY <1>1, <1>3, <1>4
    <3> HIDE DEF n
    <3> QED BY <3>2, <3>3 DEF AnsweredBy
  <2>9. ASSUME NEW i \in 1..n, s[i].role # "tool", i # n
        PROVE  Talk!IsInjective(s[i].calls) /\ \E k \in Nat : AnsweredBy(a, i, k)
    <3>1. Talk!IsInjective(s[i].calls) /\ \E k \in Nat : AnsweredBy(s, i, k)
      BY <2>9 DEF MessagesAgree
    <3>2. PICK k \in Nat : AnsweredBy(s, i, k)
      BY <3>1
    <3>3. i + k <= n /\ \A j \in 1..k : s[i + j].role = "tool"
      BY <3>2 DEF AnsweredBy
    <3>4. i + k # n
      <4>1. CASE k = 0
        BY <2>9, <4>1
      <4>2. CASE k # 0
        <5>1. k \in 1..k
          BY <4>2
        <5> QED BY <2>2, <3>3, <5>1
      <4> QED BY <4>1, <4>2
    <3>5. i + k < Len(s)
      BY <1>3, <3>3, <3>4
    <3>6. Starts(s, a)
      BY <1>1, <1>3, <1>5 DEF Starts
    <3>7. AnsweredBy(a, i, k)
      BY <1>3, <3>2, <3>5, <3>6, AnsweredStays
    <3> QED BY <3>1, <3>7
  <2>10. ASSUME NEW i \in 1..Len(a), a[i].role # "tool"
         PROVE  Talk!IsInjective(a[i].calls) /\ i # Len(a) /\ \E k \in Nat : AnsweredBy(a, i, k)
    <3>1. i \in 1..n
      <4>1. CASE ~(i <= n)
        <5>1. i - n \in 1..Len(c) /\ n + (i - n) = i
          BY <1>1, <1>3, <4>1
        <5>2. a[i].role = "tool"
          BY <1>4, <5>1
        <5> QED BY <2>10, <5>2
      <4> QED BY <1>3, <4>1
    <3>2. a[i] = s[i] /\ i # Len(a)
      BY <1>1, <1>3, <1>5, <2>1, <3>1
    <3>3. CASE i = n
      BY <1>1, <2>4, <2>8, <3>2, <3>3
    <3>4. CASE i # n
      BY <2>9, <2>10, <3>1, <3>2, <3>4
    <3> QED BY <3>3, <3>4
  <2>11. a # <<>> /\ a[1].role # "tool"
    <3>1. Len(a) # 0
      BY <1>1, <1>3, <2>3
    <3> QED BY <1>5, <2>2, <2>3, <3>1, EmptySeq
  <2> QED BY <2>10, <2>11 DEF MessagesAgree
<1> QED BY <1>6, <1>7

\* Every message is answered by those that follow it.
AllAnswered(s) == \A i \in 1..Len(s) : s[i].role # "tool" => \E n \in Nat : AnsweredBy(s, i, n)

\* That is so when nothing is open.
LEMMA AgreedIsAnswered ==
    ASSUME NEW s \in Seq(FlatMessages), MessagesAgree(s, {}) PROVE AllAnswered(s)
<1> SUFFICES ASSUME NEW i \in 1..Len(s), s[i].role # "tool"
             PROVE  \E n \in Nat : AnsweredBy(s, i, n)
  BY DEF AllAnswered
<1>1. IF i = Len(s) THEN {} = Talk!ToSet(s[i].calls) ELSE \E n \in Nat : AnsweredBy(s, i, n)
  BY DEF MessagesAgree
<1>2. CASE i = Len(s)
  <2>1. s[i] \in FlatMessages /\ Len(s) \in Nat
    BY ElementOfSeq, LenProperties
  <2>2. s[i].calls \in Seq(Numbers)
    BY <2>1 DEF FlatMessages
  <2>3. s[i].calls = <<>>
    BY <1>1, <1>2, <2>2, EmptySet
  <2>4. AnsweredBy(s, i, 0)
    BY <1>2, <2>1, <2>3, AnsweredByNone
  <2> QED BY <2>4
<1> QED BY <1>1, <1>2

\* The instructions that are put before them are not answered by anything.
LEMMA AnsweredAfter ==
    ASSUME NEW s \in Seq(FlatMessages), AllAnswered(s), s # <<>> => s[1].role # "tool",
           NEW p \in FlatMessages, p.calls = <<>>, NEW a, a = <<p>> \o s
    PROVE  a \in Seq(FlatMessages) /\ AllAnswered(a)
<1> DEFINE n == Len(s)
<1>1. <<p>> \in Seq(FlatMessages) /\ Len(<<p>>) = 1 /\ <<p>>[1] = p
  OBVIOUS
<1>2. /\ a \in Seq(FlatMessages) /\ n \in Nat /\ Len(a) = n + 1
      /\ \A i \in 1..(n + 1) : a[i] = IF i <= 1 THEN <<p>>[i] ELSE s[i - 1]
  BY <1>1, ConcatProperties, LenProperties
<1>3. a[1] = p /\ \A i \in 1..n : a[i + 1] = s[i]
  BY <1>1, <1>2
<1>4. n = 0 \/ s[1].role # "tool"
  BY EmptySeq
<1> HIDE DEF n
<1>5. ASSUME NEW i \in 1..Len(a), a[i].role # "tool"
      PROVE  \E k \in Nat : AnsweredBy(a, i, k)
  <2>1. CASE i = 1
    <3>1. 1 < Len(a) => a[2].role # "tool"
      <4>1. 1 < Len(a) => 1 \in 1..n /\ n # 0
        BY <1>2
      <4> QED BY <1>3, <1>4, <4>1
    <3>2. a[1].calls = <<>> /\ 1 <= Len(a) /\ Len(a) \in Nat /\ 1 \in Nat /\ 1 + 1 = 2
      BY <1>2, <1>3
    <3>3. AnsweredBy(a, 1, 0)
      BY <3>1, <3>2, AnsweredByNone
    <3> QED BY <2>1, <3>3
  <2>2. CASE i # 1
    <3> DEFINE j == i - 1
    <3>1. j \in 1..n /\ j + 1 = i
      BY <1>2, <2>2
    <3> HIDE DEF j
    <3>2. a[i] = s[j]
      BY <1>3, <3>1
    <3>3. PICK k \in Nat : AnsweredBy(s, j, k)
      BY <1>5, <3>1, <3>2 DEF AllAnswered, n
    <3>4. /\ j + k <= n
          /\ \A l \in 1..k : s[j + l].role = "tool"
          /\ j + k < n => s[j + k + 1].role # "tool"
          /\ {s[j + l].answers : l \in 1..k} = Talk!ToSet(s[j].calls)
          /\ k = Len(s[j].calls)
      BY <3>3 DEF AnsweredBy, n
    <3>5. \A l \in 1..k : a[i + l] = s[j + l]
      <4> SUFFICES ASSUME NEW l \in 1..k PROVE a[i + l] = s[j + l]
        OBVIOUS
      <4>1. j + l \in 1..n /\ (j + l) + 1 = i + l
        BY <1>2, <3>1, <3>4
      <4> QED BY <1>3, <4>1
    <3>6. i + k <= Len(a)
      BY <1>2, <3>1, <3>4
    <3>7. i + k < Len(a) => a[i + k + 1].role # "tool"
      <4>1. i + k < Len(a) => j + k < n /\ (j + k + 1) \in 1..n /\ (j + k + 1) + 1 = i + k + 1
        BY <1>2, <3>1
      <4> QED BY <1>3, <3>4, <4>1
    <3>8. {a[i + l].answers : l \in 1..k} = Talk!ToSet(a[i].calls) /\ k = Len(a[i].calls)
      <4>1. {a[i + l].answers : l \in 1..k} = {s[j + l].answers : l \in 1..k}
        BY <3>5
      <4> QED BY <3>2, <3>4, <4>1
    <3>9. \A l \in 1..k : a[i + l].role = "tool"
      BY <3>4, <3>5
    <3>10. AnsweredBy(a, i, k)
      BY <3>6, <3>7, <3>8, <3>9 DEF AnsweredBy
    <3> QED BY <3>10
  <2> QED BY <2>1, <2>2
<1> QED BY <1>2, <1>5 DEF AllAnswered

\* OpenAI takes messages that are answered.
LEMMA OpenaiTakes ==
    ASSUME NEW r, r.messages \in Seq(FlatMessages), AllAnswered(r.messages)
    PROVE  Talk!OpenaiAccepts(r)
<1> DEFINE a == r.messages
           Follow(i, n) == \A k \in 1..n : i + k \in DOMAIN r.messages
                                           /\ r.messages[i + k].role = "tool"
<1>1. Len(a) \in Nat /\ DOMAIN a = 1..Len(a)
  BY LenProperties
<1>2. ASSUME NEW i \in DOMAIN r.messages, r.messages[i].role # "tool"
      PROVE  LET n == CHOOSE n \in 0..Len(r.messages) : Follow(i, n) /\ ~Follow(i, n + 1)
             IN  /\ {r.messages[i + k].answers : k \in 1..n} = Talk!ToSet(r.messages[i].calls)
                 /\ n = Len(r.messages[i].calls)
  <2>1. PICK n \in Nat : AnsweredBy(a, i, n)
    BY <1>1, <1>2 DEF AllAnswered
  <2>2. /\ i + n <= Len(a)
        /\ \A k \in 1..n : a[i + k].role = "tool"
        /\ i + n < Len(a) => a[i + n + 1].role # "tool"
        /\ {a[i + k].answers : k \in 1..n} = Talk!ToSet(a[i].calls)
        /\ n = Len(a[i].calls)
    BY <2>1 DEF AnsweredBy
  <2>3. i \in 1..Len(a) /\ i \in Nat
    BY <1>1
  <2>4. Follow(i, n)
    <3> SUFFICES ASSUME NEW k \in 1..n PROVE i + k \in DOMAIN a /\ a[i + k].role = "tool"
      OBVIOUS
    <3>1. i + k \in 1..Len(a)
      BY <1>1, <2>2, <2>3
    <3> QED BY <1>1, <2>2, <3>1
  <2>5. ~(i + (n + 1) \in DOMAIN a /\ a[i + (n + 1)].role = "tool")
    <3>1. i + (n + 1) = i + n + 1
      BY <2>3
    <3>2. CASE i + n < Len(a)
      BY <2>2, <3>1, <3>2
    <3>3. CASE ~(i + n < Len(a))
      <4>1. i + (n + 1) \notin 1..Len(a)
        BY <1>1, <2>3, <3>3
      <4> QED BY <1>1, <4>1
    <3> QED BY <3>2, <3>3
  <2>6. ASSUME NEW k \in Nat, Follow(i, k) PROVE k <= n
    <3> SUFFICES ASSUME ~(k <= n) PROVE FALSE
      OBVIOUS
    <3>1. n + 1 \in 1..k
      OBVIOUS
    <3> QED BY <2>5, <2>6, <3>1
  <2>7. ~Follow(i, n + 1)
    <3>1. n + 1 \in Nat /\ ~(n + 1 <= n)
      OBVIOUS
    <3> HIDE DEF Follow
    <3> QED BY <2>6, <3>1
  <2>8. ASSUME NEW k \in Nat, Follow(i, k), ~Follow(i, k + 1) PROVE k = n
    <3>1. k <= n
      BY <2>6, <2>8
    <3>2. CASE k + 1 <= n
      <4>1. Follow(i, k + 1)
        <5> SUFFICES ASSUME NEW l \in 1..(k + 1) PROVE i + l \in DOMAIN a /\ a[i + l].role = "tool"
          OBVIOUS
        <5>1. l \in 1..n
          BY <3>2
        <5> QED BY <2>4, <5>1
      <4> HIDE DEF Follow
      <4> QED BY <2>8, <4>1
    <3> QED BY <3>1, <3>2
  <2>9. n \in 0..Len(a)
    BY <1>1, <2>2, <2>3
  <2> HIDE DEF Follow
  <2>10. (CHOOSE m \in 0..Len(r.messages) : Follow(i, m) /\ ~Follow(i, m + 1)) = n
    <3> DEFINE c == CHOOSE m \in 0..Len(r.messages) : Follow(i, m) /\ ~Follow(i, m + 1)
    <3>1. \E m \in 0..Len(r.messages) : Follow(i, m) /\ ~Follow(i, m + 1)
      BY <2>4, <2>7, <2>9
    <3>2. c \in 0..Len(r.messages) /\ Follow(i, c) /\ ~Follow(i, c + 1)
      BY <3>1
    <3> HIDE DEF c
    <3>3. c \in Nat
      BY <1>1, <3>2
    <3>4. c = n
      BY <2>8, <3>2, <3>3
    <3> QED BY <3>4 DEF c
  <2> QED BY <2>2, <2>10
<1> QED BY <1>2 DEF Talk!OpenaiAccepts

\* The messages of a Claude conversation, as an OpenAI server is to read them.
MessagesOf(msgs) == Through(msgs, SplitOf)

\* A message more is split and put at the end.
LEMMA MessagesOneMore ==
    ASSUME Talk!ConversationAssumption, NEW msgs \in Seq(SaneMessages), NEW m \in SaneMessages,
           NEW more, more = Append(msgs, m)
    PROVE  /\ MessagesOf(msgs) \in Seq(FlatMessages) /\ Talk!Split(m) \in Seq(FlatMessages)
           /\ MessagesOf(more) = MessagesOf(msgs) \o Talk!Split(m)
<1>1. Gives(SplitOf, SaneMessages, FlatMessages) /\ Through(msgs, SplitOf) \in Seq(FlatMessages)
  BY SplitKeeps
<1>2. SplitOf[m] = Talk!Split(m)
  BY DEF SplitOf
<1>3. Talk!Split(m) \in Seq(FlatMessages)
  BY SplitReads
<1>4. Through(more, SplitOf) = Through(msgs, SplitOf) \o SplitOf[m]
  BY <1>1, ThroughOneMore
<1> QED BY <1>1, <1>2, <1>3, <1>4 DEF MessagesOf

\* Blocks of a type are there if there are numbers.
LEMMA BlocksHaveSome ==
    ASSUME NEW type, NEW s \in Seq(Numbers)
    PROVE  Talk!Has(Talk!Blocks(type, s), type) <=> s # <<>>
<1>1. DOMAIN s = 1..Len(s) /\ Len(s) \in Nat /\ (s # <<>> => Len(s) # 0)
  BY LenProperties, EmptySeq
<1>2. CASE s = <<>>
  BY <1>2 DEF Talk!Has, Talk!Blocks
<1>3. CASE s # <<>>
  <2>1. 1 \in DOMAIN s
    BY <1>1, <1>3
  <2> QED BY <1>3, <2>1 DEF Talk!Has, Talk!Blocks, Talk!Block
<1> QED BY <1>2, <1>3

\* What a user's message has.
LEMMA UserHas ==
    ASSUME NEW results \in Seq(Numbers), NEW texts \in Seq(Numbers),
           NEW m, m = UserMessage(results, texts)
    PROVE  /\ Talk!Has(m.content, "tool_result") <=> results # <<>>
           /\ Talk!Has(m.content, "text") <=> texts # <<>>
<1> DEFINE c == Talk!Blocks("tool_result", results)
           d == Talk!Blocks("text", texts)
<1>1. c \in Seq(ContentBlocks) /\ d \in Seq(ContentBlocks)
  BY BlocksGiveBack DEF BlockTypes
<1>2. /\ Talk!Has(c, "tool_result") <=> results # <<>>
      /\ Talk!Has(d, "text") <=> texts # <<>>
      /\ ~Talk!Has(c, "text") /\ ~Talk!Has(d, "tool_result")
  BY BlocksHaveSome, BlocksHave
<1>3. m.content = c \o d
  BY DEF UserMessage
<1> HIDE DEF c, d
<1>4. \A type : Talk!Has(c \o d, type) <=> Talk!Has(c, type) \/ Talk!Has(d, type)
  BY <1>1, HasTwo
<1> QED BY <1>2, <1>3, <1>4

\* A user's message becomes its results, then its text.
LEMMA UserSplit ==
    ASSUME NEW results \in Seq(Numbers), NEW texts \in Seq(Numbers),
           NEW m, m = UserMessage(results, texts)
    PROVE  /\ texts # <<>> =>
                Talk!Split(m) = ToolMessages(results) \o <<Talk!Message("user", texts, <<>>, <<>>, Talk!None)>>
           /\ texts = <<>> /\ results # <<>> => Talk!Split(m) = ToolMessages(results)
<1>1. /\ Talk!Has(m.content, "tool_result") <=> results # <<>>
      /\ Talk!Has(m.content, "text") <=> texts # <<>>
  BY UserHas
<1>2. /\ m.role = "user" /\ Talk!OfType(m.content, "tool_result") = results
      /\ Talk!OfType(m.content, "text") = texts /\ Talk!OfType(m.content, "tool_use") = <<>>
  BY UserMessageIs
<1> DEFINE x == [i \in DOMAIN results |-> Talk!Message("tool", <<>>, <<>>, <<>>, results[i])]
           y == Talk!Message("user", texts, <<>>, <<>>, Talk!None)
<1>3. x = ToolMessages(results) /\ x \in Seq(FlatMessages)
  <2>1. x = ToolMessages(results)
    BY DEF ToolMessages, ToolMessage
  <2> HIDE DEF x
  <2> QED BY <2>1, ToolsGiveBack
<1>4. Talk!Split(m) = IF results # <<>> THEN x \o (IF texts # <<>> THEN <<y>> ELSE <<>>) ELSE <<y>>
  BY <1>1, <1>2 DEF Talk!Split
<1>5. results = <<>> => x = <<>>
  <2>1. results = <<>> => DOMAIN results = {}
    OBVIOUS
  <2> QED BY <2>1
<1> HIDE DEF x, y
<1>6. x \o <<>> = x
  BY <1>3, ConcatEmptySeq
<1>7. <<>> \o <<y>> = <<y>>
  <2>1. <<y>> \in Seq({y})
    OBVIOUS
  <2> QED BY <2>1, ConcatEmptySeq
<1> QED BY <1>3, <1>4, <1>5, <1>6, <1>7 DEF y

\* What the user says, after the results of what is open.
LEMMA UserSays ==
    ASSUME Talk!ConversationAssumption, NEW msgs \in Seq(SaneMessages), NEW left,
           MessagesAgree(MessagesOf(msgs), left),
           NEW results \in Seq(Numbers), Talk!IsInjective(results), Talk!ToSet(results) = left,
           NEW texts \in Seq(Numbers), texts # <<>> \/ results # <<>>,
           NEW more, more = Append(msgs, UserMessage(results, texts))
    PROVE  MessagesAgree(MessagesOf(more), {})
<1> DEFINE m == UserMessage(results, texts)
           s == MessagesOf(msgs)
           x == ToolMessages(results)
           y == Talk!Message("user", texts, <<>>, <<>>, Talk!None)
<1>1. m \in SaneMessages
  BY UserMessageIs
<1>2. /\ texts # <<>> => Talk!Split(m) = x \o <<y>>
      /\ texts = <<>> => Talk!Split(m) = x
  BY UserSplit
<1>3. more = Append(msgs, m)
  OBVIOUS
<1> HIDE DEF m
<1>4. s \in Seq(FlatMessages) /\ MessagesOf(more) = s \o Talk!Split(m)
  BY <1>1, <1>3, MessagesOneMore
<1>5. x \in Seq(FlatMessages)
  BY ToolsGiveBack
<1> HIDE DEF s
<1>6. MessagesAgree(s \o x, {})
  BY <1>4, MessagesAnswered DEF s
<1>7. CASE texts = <<>>
  BY <1>2, <1>4, <1>6, <1>7
<1>8. CASE texts # <<>>
  <2> DEFINE none == <<>>
  <2>1. y \in FlatMessages /\ y.role = "user" /\ y.calls = <<>>
    <3>1. none \in Seq(Numbers) /\ none = <<>> /\ "user" \in Speaking
      BY EmptySeq DEF Speaking
    <3>2. y = Talk!Message("user", texts, none, none, Talk!None)
      OBVIOUS
    <3> HIDE DEF y, none
    <3>3. y.role = "user" /\ y.calls = none
      BY <3>2 DEF Talk!Message
    <3>4. y \in FlatMessages
      BY <3>1, <3>2 DEF FlatMessages, Talk!Message, Talk!None
    <3> QED BY <3>1, <3>3, <3>4
  <2> HIDE DEF x, y
  <2> DEFINE sx == s \o x
  <2>2. sx \in Seq(FlatMessages)
    BY <1>4, <1>5, ConcatProperties
  <2>3. s \o (x \o <<y>>) = sx \o <<y>>
    <3>1. <<y>> \in Seq(FlatMessages)
      BY <2>1
    <3> QED BY <1>4, <1>5, <3>1, ConcatAssociative
  <2>4. MessagesAgree(sx, {})
    BY <1>6
  <2> HIDE DEF sx
  <2>5. sx \o <<y>> = Append(sx, y)
    BY <2>1, <2>2
  <2>6. Talk!IsInjective(y.calls) /\ Talk!ToSet(y.calls) = {}
    BY <2>1, SetOfOne
  <2>7. MessagesAgree(Append(sx, y), Talk!ToSet(y.calls))
    BY <2>1, <2>2, <2>4, <2>6, MessagesSaid
  <2>8. MessagesOf(more) = Append(sx, y)
    BY <1>2, <1>4, <1>8, <2>3, <2>5
  <2> QED BY <2>6, <2>7, <2>8
<1> QED BY <1>7, <1>8

\* What the assistant says.
LEMMA AssistantSays ==
    ASSUME Talk!ConversationAssumption, NEW msgs \in Seq(SaneMessages),
           MessagesAgree(MessagesOf(msgs), {}),
           NEW m \in SaneMessages, m.role = "assistant", Talk!IsInjective(CallsOf(m)),
           NEW more, more = Append(msgs, m)
    PROVE  MessagesAgree(MessagesOf(more), Talk!ToSet(CallsOf(m)))
<1> DEFINE s == MessagesOf(msgs)
           texts == Talk!OfType(m.content, "text")
           none == <<>>
           y == Talk!Message(m.role, texts, none, CallsOf(m), Talk!None)
<1>1. ~Talk!Has(m.content, "tool_result")
  BY DEF SaneMessages, Sane
<1>2. Talk!Split(m) = <<y>>
  BY <1>1 DEF Talk!Split, CallsOf
<1>3. y \in FlatMessages /\ y.role = "assistant" /\ y.calls = CallsOf(m)
  <2>1. none \in Seq(Numbers) /\ m.role \in Speaking \cup {"system"} /\ m.role # "tool"
    BY EmptySeq DEF Speaking
  <2>2. texts \in Seq(Numbers) /\ CallsOf(m) \in Seq(Numbers)
    BY SaneReads, OfTypeIsSeq
  <2>3. y = Talk!Message(m.role, texts, none, CallsOf(m), Talk!None)
    OBVIOUS
  <2> HIDE DEF texts, none, y
  <2> QED BY <2>1, <2>2, <2>3, MessageIs
<1> HIDE DEF y
<1>4. s \in Seq(FlatMessages) /\ MessagesOf(more) = s \o Talk!Split(m)
  BY MessagesOneMore
<1>5. MessagesAgree(s, {})
  OBVIOUS
<1> HIDE DEF s
<1>6. s \o <<y>> = Append(s, y)
  BY <1>3, <1>4
<1>7. MessagesAgree(Append(s, y), Talk!ToSet(y.calls))
  BY <1>3, <1>4, <1>5, MessagesSaid
<1> QED BY <1>2, <1>3, <1>4, <1>6, <1>7

-----------------------------------------------------------------------------
(* Each step keeps that.                                                   *)

\* The messages of a request, for the server of the other format, while calls are open.
AgreeIn(which, msgs, left) ==
    IF which = "openai" THEN TurnsAgree(TurnsOf(msgs), left) ELSE MessagesAgree(MessagesOf(msgs), left)

\* The invariant speaks of the request, now
LEMMA TalkAgreesIs == TalkAgrees <=> AgreeIn(client, request.messages, open)
  BY DEF TalkAgrees, AgreeIn, TurnsOf, MessagesOf

\* and after a step.
LEMMA TalkAgreesNext ==
    ASSUME client' = client, AgreeIn(client, request'.messages, open')
    PROVE  TalkAgrees'
  BY DEF TalkAgrees, AgreeIn, TurnsOf, MessagesOf

\* One message more from an OpenAI client, and the turns go on.
LEMMA OpenaiAdds ==
    ASSUME TalkTyped, TalkAgrees, client = "openai", client' = client,
           NEW m \in FlatMessages, request' = [request EXCEPT !.messages = Append(@, m)],
           Talk!IsInjective(m.calls),
           \/ m.role = "system" /\ open' = open
           \/ m.role = "user" /\ open = {} /\ open' = {}
           \/ m.role = "assistant" /\ open = {} /\ open' = Talk!ToSet(m.calls)
           \/ m.role = "tool" /\ m.answers \in open /\ open' = open \ {m.answers}
    PROVE  TalkAgrees'
<1> DEFINE msgs == request.messages
           more == request'.messages
<1>1. request \in OpenaiRequests
  BY Readings
<1>2. msgs \in Seq(FlatMessages) /\ more = Append(msgs, m)
  BY <1>1, AddedOpenai, OpenaiReads
<1>3. TurnsAgree(TurnsOf(msgs), open)
  BY TalkAgreesIs DEF AgreeIn
<1> HIDE DEF msgs, more
<1> DEFINE after == open'
<1>4. TurnsAgree(TurnsOf(more), after)
  <2>1. \/ m.role = "system" /\ after = open
        \/ m.role = "user" /\ open = {} /\ after = {}
        \/ m.role = "assistant" /\ open = {} /\ after = Talk!ToSet(m.calls)
        \/ m.role = "tool" /\ m.answers \in open /\ after = open \ {m.answers}
    OBVIOUS
  <2> HIDE DEF after
  <2> QED BY <1>2, <1>3, <2>1, TurnsGoOn
<1> QED BY <1>4, TalkAgreesNext DEF AgreeIn, more

\* A user's message of a Claude client, with the results it owes.
LEMMA ClaudeSays ==
    ASSUME Talk!ConversationAssumption, TalkTyped, TalkAgrees, client # "openai", client' = client,
           NEW texts \in Seq(Numbers), texts # <<>> \/ Talk!InOrder(open) # <<>>,
           request' = [request EXCEPT !.messages = Append(@, UserMessage(Talk!InOrder(open), texts))],
           open' = {}
    PROVE  TalkAgrees'
<1> DEFINE msgs == request.messages
           more == request'.messages
           owed == Talk!InOrder(open)
           m == UserMessage(owed, texts)
<1>1. owed \in Seq(Numbers) /\ Talk!IsInjective(owed) /\ Talk!ToSet(owed) = open
  BY OwedIs
<1>2. request \in ClaudeRequests
  BY Readings
<1>3. m \in SaneMessages /\ request' = [request EXCEPT !.messages = Append(@, m)]
  BY <1>1, UserMessageIs
<1> HIDE DEF m, owed
<1>4. msgs \in Seq(SaneMessages) /\ more = Append(msgs, m)
  BY <1>2, <1>3, AddedClaude, ClaudeReads
<1>5. MessagesAgree(MessagesOf(msgs), open)
  BY TalkAgreesIs DEF AgreeIn
<1>6. texts # <<>> \/ owed # <<>>
  BY DEF owed
<1> HIDE DEF msgs, more
<1>7. more = Append(msgs, UserMessage(owed, texts))
  BY <1>4 DEF m
<1>8. MessagesAgree(MessagesOf(more), {})
  BY <1>1, <1>4, <1>5, <1>6, <1>7, UserSays
<1> QED BY <1>8, TalkAgreesNext DEF AgreeIn, more

\* Only users speak for the client: a message of its own adds no turn of another role.
LEMMA SayAgrees ==
    ASSUME Talk!ConversationAssumption, Speakers = {"user"}, TalkTyped, TalkAgrees,
           NEW role \in Speakers, Talk!Say(role)
    PROVE  TalkAgrees'
<1>1. said \in Seq(Talk!Kinds) /\ Talk!Saying(<<"text">>) /\ "text" \in Talk!Kinds
  BY DEF Talk!Say, Talk!Kinds, TalkTyped
<1>2. Talk!Fresh \in Numbers
  BY <1>1, NewOfOne
<1> DEFINE texts == <<Talk!Fresh>>
<1>3. texts \in Seq(Numbers) /\ texts # <<>>
  BY <1>2
<1>4. client' = client /\ open' = {} /\ role = "user"
  BY DEF Talk!Say
<1>5. CASE client = "openai"
  <2> DEFINE none == <<>>
             m == Talk!Message("user", texts, none, none, Talk!None)
  <2>1. open = {} /\ request' = [request EXCEPT !.messages = Append(@, m)]
    BY <1>4, <1>5 DEF Talk!Say, Talk!Added
  <2>2. none \in Seq(Numbers) /\ none = <<>> /\ "user" \in Speaking /\ Talk!IsInjective(none)
    BY EmptySeq, SetOfOne DEF Speaking
  <2> HIDE DEF texts, none
  <2>3. m.role = "user" /\ m.calls = none
    BY DEF Talk!Message
  <2>4. m \in FlatMessages
    BY <1>3, <2>2 DEF FlatMessages, Talk!Message, Talk!None
  <2> HIDE DEF m
  <2> QED BY <1>4, <1>5, <2>1, <2>2, <2>3, <2>4, OpenaiAdds
<1>6. CASE client # "openai"
  <2>1. request' = [request EXCEPT !.messages = Append(@, UserMessage(Talk!InOrder(open), texts))]
    BY <1>4, <1>6, OneOfBlocks DEF Talk!Say, Talk!Added, UserMessage
  <2> HIDE DEF texts
  <2> QED BY <1>3, <1>4, <1>6, <2>1, ClaudeSays
<1> QED BY <1>5, <1>6

\* Nothing is open before the first turn.
LEMMA GreetAgrees ==
    ASSUME Talk!ConversationAssumption, TalkTyped, TalkAgrees, Talk!Greet
    PROVE  TalkAgrees'
<1> DEFINE texts == <<Talk!Fresh>>
           none == <<>>
           m == Talk!Message("assistant", texts, none, none, Talk!None)
<1>1. said \in Seq(Talk!Kinds) /\ Talk!Saying(<<"text">>) /\ "text" \in Talk!Kinds
  BY DEF Talk!Greet, Talk!Kinds, TalkTyped
<1>2. Talk!Fresh \in Numbers
  BY <1>1, NewOfOne
<1>3. /\ client' = client /\ open' = open /\ client = "openai"
      /\ request.messages = <<>> /\ request' = [request EXCEPT !.messages = Append(@, m)]
  BY DEF Talk!Greet, Talk!Added
<1>4. open = {}
  <2>1. TurnsAgree(TurnsOf(<<>>), open)
    BY <1>3, TalkAgreesIs DEF AgreeIn
  <2>2. TurnsOf(<<>>) = <<>>
    <3>1. Talk!Pending(<<>>) = <<>>
      <4>1. <<>> \in Seq(FlatMessages)
        BY EmptySeq
      <4> QED BY <4>1, PendingIsThrough, ThroughNothing
    <3> QED BY <3>1, MergedNothing DEF TurnsOf
  <2> QED BY <2>1, <2>2 DEF TurnsAgree
<1>5. none \in Seq(Numbers) /\ Talk!IsInjective(none) /\ Talk!ToSet(none) = {} /\ "assistant" \in Speaking
  BY EmptySeq, SetOfOne DEF Speaking
<1>6. texts \in Seq(Numbers)
  BY <1>2
<1> HIDE DEF texts, none
<1>7. m.role = "assistant" /\ m.calls = none
  BY DEF Talk!Message
<1>8. m \in FlatMessages
  BY <1>5, <1>6 DEF FlatMessages, Talk!Message, Talk!None
<1> HIDE DEF m
<1> QED BY <1>3, <1>4, <1>5, <1>7, <1>8, OpenaiAdds

\* Instructions are no turn.
LEMMA InstructAgrees ==
    ASSUME Talk!ConversationAssumption, TalkTyped, TalkAgrees, Talk!Instruct
    PROVE  TalkAgrees'
<1>1. client' = client /\ open' = open
  BY DEF Talk!Instruct
<1>2. CASE client = "openai"
  <2> DEFINE texts == <<Talk!Fresh>>
             none == <<>>
             m == Talk!Message("system", texts, none, none, Talk!None)
  <2>1. said \in Seq(Talk!Kinds) /\ Talk!Saying(<<"system">>) /\ "system" \in Talk!Kinds
    BY DEF Talk!Instruct, Talk!Kinds, TalkTyped
  <2>2. Talk!Fresh \in Numbers
    BY <2>1, NewOfOne
  <2>3. request' = [request EXCEPT !.messages = Append(@, m)]
    BY <1>2 DEF Talk!Instruct, Talk!Added
  <2>4. none \in Seq(Numbers) /\ Talk!IsInjective(none) /\ none = <<>>
    BY EmptySeq, SetOfOne
  <2>5. texts \in Seq(Numbers)
    BY <2>2
  <2> HIDE DEF texts, none
  <2>6. m.role = "system" /\ m.calls = none
    BY DEF Talk!Message
  <2>7. m \in FlatMessages
    BY <2>4, <2>5 DEF FlatMessages, Talk!Message, Talk!None
  <2> HIDE DEF m
  <2> QED BY <1>1, <1>2, <2>3, <2>4, <2>6, <2>7, OpenaiAdds
<1>3. CASE client # "openai"
  <2>1. request \in ClaudeRequests
    BY <1>3, Readings
  <2>2. request' = [request EXCEPT !.system = Append(@, Talk!Fresh)]
    BY <1>3 DEF Talk!Instruct
  <2>3. request'.messages = request.messages
    BY <2>1, <2>2 DEF ClaudeRequests
  <2> QED BY <1>1, <2>3, TalkAgreesIs, TalkAgreesNext
<1> QED BY <1>2, <1>3

\* The results of a Claude client come together, those of an OpenAI client one by one.
LEMMA AnswerCallAgrees ==
    ASSUME Talk!ConversationAssumption, TalkTyped, TalkAgrees, NEW c \in open, Talk!AnswerCall(c)
    PROVE  TalkAgrees'
<1>1. client' = client
  BY DEF Talk!AnswerCall
<1>2. CASE client = "openai"
  <2> DEFINE m == ToolMessage(c)
  <2>1. open' = open \ {c} /\ request' = [request EXCEPT !.messages = Append(@, m)]
    BY <1>2 DEF Talk!AnswerCall, Talk!Added, ToolMessage
  <2>2. c \in Numbers
    BY LenProperties DEF TalkTyped, Talk!Pieces, Numbers
  <2>3. m \in FlatMessages /\ m.role = "tool" /\ m.answers = c
    BY <2>2, ToolMessageIs
  <2>4. Talk!IsInjective(m.calls)
    BY SetOfOne DEF ToolMessage, Talk!Message
  <2> HIDE DEF m
  <2> QED BY <1>1, <1>2, <2>1, <2>3, <2>4, OpenaiAdds
<1>3. CASE client # "openai"
  <2> DEFINE owed == Talk!InOrder(open)
             none == <<>>
  <2>1. owed \in Seq(Numbers) /\ Talk!ToSet(owed) = open
    BY OwedIs
  <2>2. owed # <<>>
    BY <2>1, SetOfOne
  <2>3. Talk!Blocks("tool_result", owed) \o Talk!Blocks("text", <<>>) = Talk!Blocks("tool_result", owed)
    BY <2>1, NoBlocks, BlocksGiveBack, ConcatEmptySeq DEF BlockTypes
  <2>4. open' = {} /\ request' = [request EXCEPT !.messages = Append(@, UserMessage(owed, none))]
    BY <1>3, <2>3 DEF Talk!AnswerCall, Talk!Added, UserMessage
  <2>5. none \in Seq(Numbers)
    BY EmptySeq
  <2> HIDE DEF none
  <2> QED BY <1>1, <1>3, <2>2, <2>4, <2>5, ClaudeSays
<1> QED BY <1>2, <1>3

\* The calls of an answer are what is open then.
LEMMA AnswerAgrees ==
    ASSUME Talk!ConversationAssumption, TalkTyped, TalkAgrees,
           NEW kinds \in Talk!ClaudeAnswers \cup Talk!OpenaiAnswers, Talk!Answer(kinds)
    PROVE  TalkAgrees'
<1> DEFINE calls == Talk!NewOf(kinds, "call")
           texts == Talk!NewOf(kinds, "text")
           reasoning == Talk!NewOf(kinds, "thinking")
<1>1. kinds \in Seq(Spoke) /\ kinds \in Seq(Talk!Kinds) /\ Talk!Saying(kinds) /\ said \in Seq(Talk!Kinds)
  BY AnswersSpeak DEF Talk!Answer, TalkTyped
<1>2. client' = client /\ open = {} /\ open' = Talk!ToSet(calls)
  BY DEF Talk!Answer, TalkTyped
<1>3. /\ texts \in Seq(Numbers) /\ reasoning \in Seq(Numbers) /\ calls \in Seq(Numbers)
      /\ Talk!IsInjective(calls)
  BY <1>1, MorePieces
<1>4. CASE client = "openai"
  <2> DEFINE c == NumberedBlocks(Len(said), kinds)
             m == Talk!AnswerForOpenai(c)
  <2>1. request' = [request EXCEPT !.messages = Append(@, m)]
    BY <1>4 DEF Talk!Answer, Talk!Added, NumberedBlocks
  <2>2. Len(said) \in Nat /\ Len(said) + Len(kinds) <= MaxSaid
    BY <1>1, LenProperties DEF Talk!Saying
  <2>3. \A kind \in Spoke : Talk!OfType(c, Talk!TypeOfKind(kind)) = Talk!NewOf(kinds, kind)
    BY <1>1, <2>2, NumberedReads, NewOfSpoke
  <2>4. /\ Talk!OfType(c, "text") = texts
        /\ Talk!OfType(c, "thinking") = reasoning
        /\ Talk!OfType(c, "tool_use") = calls
    BY <2>3 DEF Spoke, Talk!TypeOfKind
  <2> HIDE DEF c
  <2>5. m = Talk!Message("assistant", texts, reasoning, calls, Talk!None)
    BY <2>4 DEF Talk!AnswerForOpenai
  <2>6. "assistant" \in Speaking
    BY DEF Speaking
  <2> HIDE DEF m, texts, reasoning, calls
  <2>7. m.role = "assistant" /\ m.calls = calls
    BY <2>5 DEF Talk!Message
  <2>8. m \in FlatMessages
    BY <1>3, <2>5, <2>6 DEF FlatMessages, Talk!Message, Talk!None
  <2> QED BY <1>2, <1>3, <1>4, <2>1, <2>7, <2>8, OpenaiAdds
<1>5. CASE client # "openai"
  <2> DEFINE m == Talk!AnswerForClaude(Talk!Message("assistant", texts, reasoning, calls, Talk!None))
             msgs == request.messages
             more == request'.messages
  <2>1. request' = [request EXCEPT !.messages = Append(@, m)]
    BY <1>5 DEF Talk!Answer, Talk!Added
  <2> HIDE DEF texts, reasoning, calls
  <2>2. m \in SaneMessages /\ m.role = "assistant" /\ CallsOf(m) = calls
    BY <1>3, AssistantMessageIs DEF CallsOf
  <2> HIDE DEF m
  <2>3. request \in ClaudeRequests
    BY <1>5, Readings
  <2>4. msgs \in Seq(SaneMessages) /\ more = Append(msgs, m)
    BY <2>1, <2>2, <2>3, AddedClaude, ClaudeReads
  <2>5. MessagesAgree(MessagesOf(msgs), {})
    BY <1>2, <1>5, TalkAgreesIs DEF AgreeIn
  <2> HIDE DEF msgs, more
  <2>6. MessagesAgree(MessagesOf(more), Talk!ToSet(CallsOf(m)))
    BY <1>3, <2>2, <2>4, <2>5, AssistantSays
  <2> QED BY <1>2, <1>5, <2>2, <2>6, TalkAgreesNext DEF AgreeIn, more
<1> QED BY <1>4, <1>5

\* What is sent when no call is open keeps the rules of the server's format.
LEMMA SendIsWellFormed ==
    ASSUME Talk!ConversationAssumption, TalkTyped, TalkAgrees, Talk!Send
    PROVE  Talk!WellFormed'
<1>1. /\ open = {}
      /\ wire' = IF client = "openai" THEN Talk!ToClaude(request) ELSE Talk!ToOpenai(request)
  BY DEF Talk!Send
<1>2. CASE client = "openai"
  <2> DEFINE s == TurnsOf(request.messages)
             w == Talk!ToClaude(request)
  <2>1. request \in OpenaiRequests
    BY <1>2, Readings
  <2>2. request.messages \in Seq(FlatMessages)
    BY <2>1, OpenaiReads
  <2>3. TurnsAgree(s, {})
    BY <1>1, <1>2, TalkAgreesIs DEF AgreeIn
  <2>4. s \in Seq(SaneMessages)
    <3>1. Talk!Pending(request.messages) \in Seq(SaneMessages)
      BY <2>2, PendingIsThrough
    <3> QED BY <3>1, ContentIsGiven, MergedKeeps DEF TurnsOf
  <2>5. w \in ClaudeRequests
    BY <2>1, ToClaudeKeeps
  <2>6. w.messages = Talk!Begun(s)
    BY DEF Talk!ToClaude, TurnsOf
  <2> HIDE DEF s, w
  <2>7. Talk!ClaudeAccepts(w) /\ Talk!InClaude(w)
    BY <2>3, <2>4, <2>5, <2>6, ClaudeTakes, ClaudeReads
  <2>8. wire' = w
    BY <1>1, <1>2 DEF w
  <2> HIDE DEF Talk!ClaudeAccepts
  <2>9. Talk!WellFormed' <=> (wire' # <<>> =>
          IF Talk!InClaude(wire') THEN Talk!ClaudeAccepts(wire') ELSE Talk!OpenaiAccepts(wire'))
    BY DEF Talk!WellFormed
  <2> QED BY <2>7, <2>8, <2>9
<1>3. CASE client # "openai"
  <2> DEFINE s == MessagesOf(request.messages)
             p == Talk!Message("system", request.system, <<>>, <<>>, Talk!None)
             w == Talk!ToOpenai(request)
  <2>1. request \in ClaudeRequests
    BY <1>3, Readings
  <2>2. request.messages \in Seq(SaneMessages) /\ request.system \in Seq(Numbers)
    BY <2>1, ClaudeReads DEF ClaudeRequests
  <2>3. s \in Seq(FlatMessages) /\ Talk!Gathered(request.messages, Talk!Split) = s
    BY <2>2, SplitKeeps DEF MessagesOf
  <2>4. w.messages = (IF request.system = <<>> THEN <<>> ELSE <<p>>) \o s
    BY <2>3 DEF Talk!ToOpenai
  <2>5. MessagesAgree(s, {})
    BY <1>1, <1>3, TalkAgreesIs DEF AgreeIn
  <2>6. w \in OpenaiRequests
    BY <2>1, ToOpenaiKeeps
  <2>7. p \in FlatMessages /\ p.calls = <<>>
    <3> DEFINE none == <<>>
               texts == request.system
    <3>1. none \in Seq(Numbers) /\ none = <<>> /\ p = Talk!Message("system", texts, none, none, Talk!None)
      BY EmptySeq
    <3>2. texts \in Seq(Numbers)
      BY <2>2
    <3> HIDE DEF p, none, texts
    <3>3. p.calls = none
      BY <3>1 DEF Talk!Message
    <3>4. p \in FlatMessages
      BY <3>1, <3>2 DEF FlatMessages, Talk!Message, Talk!None
    <3> QED BY <3>1, <3>3, <3>4
  <2>8. s # <<>> => s[1].role # "tool"
    BY <2>5 DEF MessagesAgree
  <2> HIDE DEF s, p, w
  <2>9. AllAnswered(s)
    BY <2>3, <2>5, AgreedIsAnswered
  <2>10. w.messages \in Seq(FlatMessages) /\ AllAnswered(w.messages)
    <3>1. CASE request.system = <<>>
      <4>1. <<>> \o s = s
        BY <2>3, ConcatEmptySeq
      <4> QED BY <2>3, <2>4, <2>9, <3>1, <4>1
    <3>2. CASE request.system # <<>>
      <4>1. w.messages = <<p>> \o s
        BY <2>4, <3>2
      <4> DEFINE a == w.messages
      <4>2. a = <<p>> \o s
        BY <4>1
      <4> HIDE DEF a
      <4>3. a \in Seq(FlatMessages) /\ AllAnswered(a)
        BY <2>3, <2>7, <2>8, <2>9, <4>2, AnsweredAfter
      <4> QED BY <4>3 DEF a
    <3> QED BY <3>1, <3>2
  <2>11. Talk!OpenaiAccepts(w) /\ ~Talk!InClaude(w)
    BY <2>6, <2>10, OpenaiTakes, OpenaiReads
  <2>12. wire' = w
    BY <1>1, <1>3 DEF w
  <2>13. Talk!WellFormed' <=> (wire' # <<>> =>
          IF Talk!InClaude(wire') THEN Talk!ClaudeAccepts(wire') ELSE Talk!OpenaiAccepts(wire'))
    BY DEF Talk!WellFormed
  <2> QED BY <2>11, <2>12, <2>13
<1> QED BY <1>2, <1>3

\* Nothing was sent or is open at the start.
LEMMA StartAgrees ==
    ASSUME Talk!ConversationAssumption, Talk!Init
    PROVE  TalkAgrees /\ Talk!WellFormed
<1>1. open = {} /\ wire = <<>> /\ request.messages = <<>>
  <2>1. CASE client = "openai"
    BY <2>1 DEF Talk!Init
  <2>2. CASE client # "openai"
    BY <2>2 DEF Talk!Init
  <2> QED BY <2>1, <2>2 DEF Talk!Init
<1>2. TurnsOf(<<>>) = <<>>
  <2>1. <<>> \in Seq(FlatMessages)
    BY EmptySeq
  <2>2. Talk!Pending(<<>>) = <<>>
    BY <2>1, PendingIsThrough, ThroughNothing
  <2> QED BY <2>2, MergedNothing DEF TurnsOf
<1>3. TurnsAgree(<<>>, {})
  BY DEF TurnsAgree
<1>4. MessagesOf(<<>>) = <<>>
  BY ThroughNothing DEF MessagesOf
<1>5. MessagesAgree(<<>>, {})
  BY DEF MessagesAgree
<1>6. AgreeIn(client, request.messages, open)
  BY <1>1, <1>2, <1>3, <1>4, <1>5 DEF AgreeIn
<1> QED BY <1>1, <1>6, TalkAgreesIs DEF Talk!WellFormed

\* Each step keeps the invariant.
LEMMA NextAgrees ==
    ASSUME Talk!ConversationAssumption, Speakers = {"user"}, TalkInv, Talk!Next \/ UNCHANGED talkVars
    PROVE  TalkInv'
<1>1. TalkTyped /\ TalkSays /\ TalkAgrees /\ Talk!WellFormed
  BY DEF TalkInv
<1>2. TalkTyped' /\ TalkSays'
  BY <1>1, NextTalk
<1>3. ASSUME wire' = wire PROVE Talk!WellFormed'
  BY <1>1, <1>3 DEF Talk!WellFormed
<1>4. CASE Talk!Client
  <2>1. CASE \E role \in Speakers : Talk!Say(role)
    <3>1. wire' = wire
      BY <2>1 DEF Talk!Say
    <3> QED BY <1>1, <1>2, <1>3, <2>1, <3>1, SayAgrees DEF TalkInv
  <2>2. CASE Talk!Greet
    <3>1. wire' = wire
      BY <2>2 DEF Talk!Greet
    <3> QED BY <1>1, <1>2, <1>3, <2>2, <3>1, GreetAgrees DEF TalkInv
  <2>3. CASE Talk!Instruct
    <3>1. wire' = wire
      BY <2>3 DEF Talk!Instruct
    <3> QED BY <1>1, <1>2, <1>3, <2>3, <3>1, InstructAgrees DEF TalkInv
  <2>4. CASE Talk!Send
    <3>1. client' = client /\ request' = request /\ open' = open
      BY <2>4 DEF Talk!Send
    <3>2. TalkAgrees'
      BY <1>1, <3>1, TalkAgreesIs, TalkAgreesNext
    <3> QED BY <1>1, <1>2, <2>4, <3>2, SendIsWellFormed DEF TalkInv
  <2>5. CASE \E c \in open : Talk!AnswerCall(c)
    <3>1. wire' = wire
      BY <2>5 DEF Talk!AnswerCall
    <3> QED BY <1>1, <1>2, <1>3, <2>5, <3>1, AnswerCallAgrees DEF TalkInv
  <2> QED BY <1>4, <2>1, <2>2, <2>3, <2>4, <2>5 DEF Talk!Client
<1>5. CASE Talk!Server
  <2>1. PICK kinds \in Talk!ClaudeAnswers \cup Talk!OpenaiAnswers : Talk!Answer(kinds)
    BY <1>5 DEF Talk!Server
  <2>2. wire' = wire
    BY <2>1 DEF Talk!Answer
  <2> QED BY <1>1, <1>2, <1>3, <2>1, <2>2, AnswerAgrees DEF TalkInv
<1>6. CASE UNCHANGED talkVars
  <2>1. client' = client /\ request' = request /\ wire' = wire /\ open' = open
    BY <1>6 DEF talkVars
  <2>2. TalkAgrees'
    BY <1>1, <2>1, TalkAgreesIs, TalkAgreesNext
  <2> QED BY <1>2, <1>3, <2>1, <2>2 DEF TalkInv
<1> QED BY <1>4, <1>5, <1>6 DEF Talk!Next

-----------------------------------------------------------------------------
(* The parts together.                                                     *)

\* A behaviour follows one part: to every other a step is a stutter.
LEMMA StepsAreOfAPart ==
    ASSUME [MCNext]_allVars
    PROVE  /\ [Next]_vars
           /\ Order!Next \/ UNCHANGED orderVars
           /\ Talk!Next \/ UNCHANGED talkVars
           /\ [ToClaude!Next]_toClaudeVars
           /\ [ToOpenai!Next]_toOpenaiVars
BY DEF MCNext, allVars, FollowPrice, FollowOrder, FollowTalk, FollowToClaude, FollowToOpenai

\* The price that is not followed has nothing to say against it.
LEMMA RestingPrice ==
    ASSUME RequestAssumption, PriceRests PROVE PriceInv
<1> DEFINE p == [b \in Bindings |-> Default]
           c == [max_tokens |-> Absent, max_completion_tokens |-> Absent]
<1>1. first \in Bindings
  BY DEF RequestAssumption, PriceRests
<1>2. p \in [Bindings -> Saved \cup {Default}]
  OBVIOUS
<1>3. c \in Body
  BY DEF Body
<1>4. pricing = p /\ body = c
  BY DEF PriceRests
<1> HIDE DEF p, c
<1>5. TypeOK
  BY PricingAssumption, <1>1, <1>2, <1>3, <1>4 DEF PriceRests, TypeOK, PricingAssumption
<1> QED BY <1>5 DEF PriceInv, Listed, PriceRests

\* A conversation begins with its invariant.
LEMMA StartOfTheTalk == Talk!Init => TalkInv
BY RequestAssumption, StartOfTalk, StartAgrees DEF RequestAssumption, TalkInv

\* Each part begins, or rests, where its invariant holds.
LEMMA StartOfParts ==
    ASSUME MCInit
    PROVE  PriceInv /\ RoutingInv /\ TalkInv /\ ToClaudeInv /\ ToOpenaiInv
<1>1. PriceInv
  BY RequestAssumption, PricingAssumption, InitPrice, RestingPrice DEF MCInit
<1>2. ToClaudeInv
  BY InitToClaude DEF MCInit
<1>3. ToOpenaiInv
  BY RequestAssumption, InitToOpenai DEF MCInit, RequestAssumption
<1>4. RoutingInv
  BY RequestAssumption, StartOfRouting DEF MCInit, OrderBegins, RequestAssumption
<1>5. TalkInv
  <2>1. Talk!Init
    BY RestIsAStart DEF MCInit
  <2> QED BY <2>1, StartOfTheTalk
<1> QED BY <1>1, <1>2, <1>3, <1>4, <1>5

\* As long as nobody edits it, the client pays what the pricing of the binding that
\* answered says, or nothing where it could not be read (actual_cost).
THEOREM PricesAreListed == MCSpec => []PaidAsListed
<1>1. MCInit => PriceInv
  BY StartOfParts
<1>2. PriceInv /\ [MCNext]_allVars => PriceInv'
  BY PricingAssumption, StepsAreOfAPart, NextPrice
<1>3. PriceInv => PaidAsListed
  BY PricingAssumption, PriceIsListed
<1> QED BY <1>1, <1>2, <1>3, PTL DEF MCSpec

\* Routing by itself, from any snapshot; and as part of the run, from the run's snapshots.
LEMMA RoutingKeeps == (Order!Spec => []RoutingInv) /\ (MCSpec => []RoutingInv)
<1>1. Order!Init => RoutingInv
  BY RequestAssumption, StartOfRouting DEF RequestAssumption
<1>2. RoutingInv /\ [Order!Next]_(Order!vars) => RoutingInv'
  BY RequestAssumption, NextRouting
     DEF RequestAssumption, Order!vars, Order!config, orderVars
<1>3. MCInit => RoutingInv
  BY StartOfParts
<1>4. RoutingInv /\ [MCNext]_allVars => RoutingInv'
  BY RequestAssumption, StepsAreOfAPart, NextRouting DEF RequestAssumption
<1> QED BY <1>1, <1>2, <1>3, <1>4, PTL DEF Order!Spec, MCSpec

\* Whatever is drawn, the order has every binding that may serve the request once, no
\* other, and with the keys that are available; by priority it is sorted (Router::route).
THEOREM RoutesAreWhole ==
    /\ Order!Spec => []RoutesEachOnce
    /\ MCSpec => []RoutesEachOnce
<1>1. RoutingInv => RoutesEachOnce
  BY RequestAssumption, RoutesAreGood DEF RequestAssumption, Order!RoutingAssumption
<1> QED BY <1>1, RoutingKeeps, PTL

\* A binding is drawn by exactly as many picks as it has weight, at least one, however
\* many are left and whatever they weigh (route_load_balance).
THEOREM DrawsAreProportional ==
    /\ Order!Spec => []DrawIsProportional
    /\ MCSpec => []DrawIsProportional
<1>1. RoutingInv => DrawIsProportional
  BY RequestAssumption, RoutesAreGood DEF RequestAssumption, Order!RoutingAssumption
<1> QED BY <1>1, RoutingKeeps, PTL

\* What the conversation is made of and says, whoever takes part: by itself, from any
\* start, and as part of the run.
TalkKept == TalkTyped /\ TalkSays

LEMMA TalkKeeps == (Talk!Spec => []TalkKept) /\ (MCSpec => []TalkKept)
<1>1. Talk!Init => TalkKept
  BY StartOfTheTalk DEF TalkInv, TalkKept
<1>2. TalkKept /\ [Talk!Next]_(Talk!vars) => TalkKept'
  BY RequestAssumption, NextTalk DEF RequestAssumption, Talk!vars, talkVars, TalkKept
<1>3. MCInit => TalkKept
  BY StartOfParts DEF TalkInv, TalkKept
<1>4. TalkKept /\ [MCNext]_allVars => TalkKept'
  BY RequestAssumption, StepsAreOfAPart, NextTalk DEF RequestAssumption, TalkKept
<1> QED BY <1>1, <1>2, <1>3, <1>4, PTL DEF Talk!Spec, MCSpec

\* However long the conversation and however its pieces are cut into messages, the client
\* keeps all that was said and the server reads all but the thinking, in order and once,
\* though earlier answers were translated twice (openai_to_claude_request,
\* claude_to_openai_request and the translations of answers).
THEOREM NothingOfATalkIsLost ==
    /\ Talk!Spec => []NothingIsLost
    /\ MCSpec => []NothingIsLost
<1>1. TalkKept => NothingIsLost
  BY RequestAssumption, TalkLosesNothing DEF RequestAssumption, TalkKept, NothingIsLost
<1> QED BY <1>1, TalkKeeps, PTL

\* A request that goes on through a proxy of the other direction arrives with all that was
\* said, and with the limit, the effort of thinking and the serial calls the client asked
\* for (openai_to_claude_request and claude_to_openai_request, one after the other).
THEOREM TalksSurviveProxies ==
    /\ Talk!Spec => []SurvivesTwoProxies
    /\ MCSpec => []SurvivesTwoProxies
<1>1. TalkKept => SurvivesTwoProxies
  BY RequestAssumption, TalkSurvives DEF RequestAssumption, TalkKept, SurvivesTwoProxies
<1> QED BY <1>1, TalkKeeps, PTL

\* If the client's own messages are a user's, every request the server reads keeps the
\* rules of its format: to Claude, turns that alternate from the user's on, each with the
\* results of the calls before it, all of them, at its head; to OpenAI, after each message
\* the answers to its calls and no others (openai_to_claude_request,
\* claude_to_openai_request).
THEOREM RequestsStayWellFormed ==
    ASSUME Speakers = {"user"}
    PROVE  /\ Talk!Spec => []RequestsAreWellFormed
           /\ MCSpec => []RequestsAreWellFormed
<1>1. Talk!Init => TalkInv
  BY StartOfTheTalk
<1>2. TalkInv /\ [Talk!Next]_(Talk!vars) => TalkInv'
  BY RequestAssumption, NextAgrees DEF RequestAssumption, Talk!vars, talkVars
<1>3. MCInit => TalkInv
  BY StartOfParts
<1>4. TalkInv /\ [MCNext]_allVars => TalkInv'
  BY RequestAssumption, StepsAreOfAPart, NextAgrees DEF RequestAssumption
<1>5. TalkInv => RequestsAreWellFormed
  BY TalkIsTyped DEF TalkInv, RequestsAreWellFormed
<1> QED BY <1>1, <1>2, <1>3, <1>4, <1>5, PTL DEF Talk!Spec, MCSpec

\* Both machines.
StreamsInv == ToClaudeInv /\ ToOpenaiInv

LEMMA StreamsKeep ==
    ASSUME Interleaved = FALSE, StreamsInv, [MCNext]_allVars
    PROVE  StreamsInv'
BY RequestAssumption, StepsAreOfAPart, NextToClaude, NextToOpenai
   DEF StreamsInv, RequestAssumption

\* Whatever upstream mixes into its chunks, and however many blocks, calls and tokens it
\* sends, the client of either machine reads a stream its protocol allows, if an OpenAI
\* upstream does not speak between the fragments of one call (process_chunk, process_event).
THEOREM StreamsStayWellFormed ==
    ASSUME Interleaved = FALSE PROVE MCSpec => []StreamsAreWellFormed
<1>1. MCInit => StreamsInv
  BY StartOfParts DEF StreamsInv
<1>2. StreamsInv /\ [MCNext]_allVars => StreamsInv'
  BY StreamsKeep
<1>3. StreamsInv => StreamsAreWellFormed
  BY RequestAssumption, ClaudeReadsAMessage, OpenaiReadsAnAnswer
     DEF StreamsInv, ToClaudeInv, StreamsAreWellFormed, RequestAssumption,
         ToOpenai!StreamAssumption
<1> QED BY <1>1, <1>2, <1>3, PTL DEF MCSpec

\* What is read in the end is what upstream gave: the reason and the usage, every call once
\* and under its index the arguments of its own block only (ConcludeWaiting, MessageStop).
THEOREM AnswersArrive ==
    ASSUME Interleaved = FALSE PROVE MCSpec => []AnswersArriveWhole
<1>1. MCInit => StreamsInv
  BY StartOfParts DEF StreamsInv
<1>2. StreamsInv /\ [MCNext]_allVars => StreamsInv'
  BY StreamsKeep
<1>3. StreamsInv => AnswersArriveWhole
  BY RequestAssumption, ClaudeReadsAMessage, OpenaiReadsAnAnswer
     DEF StreamsInv, AnswersArriveWhole, RequestAssumption, ToOpenai!StreamAssumption
<1> QED BY <1>1, <1>2, <1>3, PTL DEF MCSpec

=============================================================================
