--------------------------- MODULE MCAgentCommands ---------------------------
(* Bounded instances of AgentCommands: which request each command is, and   *)
(* which thread submits it.                                                 *)
EXTENDS AgentCommands, TLC

CONSTANTS c1, c2, c3, c4, c5

Plain(op)          == [op |-> op, of |-> NoCmd, allow |-> FALSE]
ConfirmOf(c)       == [op |-> "confirm", of |-> c, allow |-> FALSE]
Decide(c, allowed) == [op |-> "resolve", of |-> c, allow |-> allowed]

(* A connection performs a guarded action and confirms it; the host allows  *)
(* it, allows it once more and denies it.                                   *)
Five == {c1, c2, c3, c4, c5}
ReqUser ==
  [c \in Five |-> CASE c = c1 -> Plain("guarded")
                   [] c = c2 -> ConfirmOf(c1)
                   [] c \in {c3, c4} -> Decide(c1, TRUE)
                   [] c = c5 -> Decide(c1, FALSE)]
(* The two that allow it are alike; the properties of the run name neither. *)
Alike == Permutations({c3, c4})
UserThreads == [c \in Five |-> IF c \in {c1, c2} THEN "connection" ELSE "host"]

(* A snapshot beside the connection that acts and takes a screenshot.       *)
Three == {c1, c2, c3}
ReqSettle == [c \in Three |-> CASE c = c1 -> Plain("snapshot")
                              [] c = c2 -> Plain("window")
                              [] c = c3 -> Plain("screenshot")]
SettleThreads == [c \in Three |-> IF c = c1 THEN "reader" ELSE "actor"]
=============================================================================
