----------------------------- MODULE MCExecutor -----------------------------
(* Executor for one requested model with few bindings. *)
EXTENDS Executor

CONSTANTS m1, m2

OneKey == <<[model |-> m1, keys |-> <<1>>]>>

\* One key that serves two models.
OneAndOne == <<[model |-> m1, keys |-> <<1>>], [model |-> m2, keys |-> <<1>>]>>

\* One more binding than the cap admits; the first and the last share a model.
ThreeBindings == <<[model |-> m1, keys |-> <<1, 2>>], [model |-> m2, keys |-> <<1>>],
                   [model |-> m1, keys |-> <<2>>]>>
=============================================================================
