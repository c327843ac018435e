----------------------------- MODULE MCAppTimers -----------------------------
(* Bounded instances of AppTimers: the delay of each timer and widget.      *)
EXTENDS AppTimers

CONSTANTS i1, a1, w1

(* An interval below MIN_INTERVAL and a one-shot that falls due with it.    *)
Pair       == {i1, a1}
OneAsked   == [w \in {w1} |-> 1]
PairDelays == [t \in Pair |-> IF t = i1 THEN 0 ELSE 1]
=============================================================================
