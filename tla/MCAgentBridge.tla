---------------------------- MODULE MCAgentBridge ----------------------------
(* Bounded instances of AgentBridge: what each wait is for.                 *)
EXTENDS AgentBridge

CONSTANTS r, p

Both  == {r, p}
Wants == [k \in Both |-> IF k = r THEN [kind |-> "RevisionAfter", at |-> 1]
                         ELSE [kind |-> "PresentedAtLeast", at |-> 2]]
=============================================================================
