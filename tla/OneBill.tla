------------------------------ MODULE OneBill ------------------------------
(***************************************************************************)
(* What the executor promises of the bill of a request, whatever happens   *)
(* to keys, upstreams and clients: one pre-charge at most, closed at most  *)
(* once, by a settlement or by a refund; no refund of a request that was   *)
(* answered with a response, no settlement of one that found no key, and   *)
(* nothing after the last answer but the settlement of a stream.           *)
(***************************************************************************)

CONSTANTS Requests

VARIABLES
    bill,    \* the BillingSession of the request
    reply    \* the answer the executor has given for it

vars == <<bill, reply>>

TypeOK ==
    /\ bill \in [Requests -> {"none", "open", "settled", "refunded"}]
    /\ reply \in [Requests -> {"none", "ok", "exhausted", "failed"}]

Init ==
    /\ bill = [r \in Requests |-> "none"]
    /\ reply = [r \in Requests |-> "none"]

\* The pre-charge.
Open(r) ==
    /\ bill[r] = "none" /\ reply[r] = "none"
    /\ bill' = [bill EXCEPT ![r] = "open"]
    /\ UNCHANGED reply

\* The settlement, for a stream after the client's response has begun.
Settle(r) ==
    /\ bill[r] = "open" /\ reply[r] \in {"none", "ok"}
    /\ bill' = [bill EXCEPT ![r] = "settled"]
    /\ UNCHANGED reply

\* The refund, of a request that ends in an error; the error is the answer.
Refund(r) ==
    /\ bill[r] = "open" /\ reply[r] = "none"
    /\ bill' = [bill EXCEPT ![r] = "refunded"]
    /\ \E error \in {"exhausted", "failed"} : reply' = [reply EXCEPT ![r] = error]

\* An answer that leaves the bill as it is: an open one if its settlement or
\* refund failed or, for a stream, is still to come.
Reply(r, answer) ==
    /\ reply[r] = "none"
    /\ answer = "ok" => bill[r] \in {"open", "settled"}
    /\ answer = "exhausted" => bill[r] \in {"none", "open"}
    /\ reply' = [reply EXCEPT ![r] = answer]
    /\ UNCHANGED bill

Next ==
    \E r \in Requests :
        \/ Open(r) \/ Settle(r) \/ Refund(r)
        \/ \E answer \in {"ok", "exhausted", "failed"} : Reply(r, answer)

Spec == Init /\ [][Next]_vars
=============================================================================
