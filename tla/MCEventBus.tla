------------------------------ MODULE MCEventBus ------------------------------
(* Bounded instances of EventBus: a closure that owns the Subscription of   *)
(* another one, and an independent handler of the same type.                *)
EXTENDS EventBus

CONSTANTS a, b, c, t, u

KindOf == [h \in {a, b, c} |-> IF h = c THEN u ELSE t]
Captured == [h \in {a, b, c} |-> IF h = a THEN {c} ELSE {}]
=============================================================================
