---------------------------- MODULE MCStorefront ----------------------------
(* Instances of Shops for TLC: prices whose nanos carry, one with a zero in front. *)
EXTENDS Shops

MCPrice == [p \in Products |-> IF p = "mug" THEN [units |-> 1, nanos |-> 70] ELSE [units |-> 0, nanos |-> 5]]

\* Three quarters of the amount in the other currency, cut to nanos; in its own
\* currency an amount with nanos may lose one.
MCExchange(n, c) == IF c # Default THEN (n * 3) \div 4 ELSE IF n % Nano > 0 THEN n - 1 ELSE n

MCCards == {[valid |-> TRUE, type |-> "visa", expires |-> Now],
            [valid |-> TRUE, type |-> "visa", expires |-> Now - 1]}
=============================================================================
