------------------------- MODULE AgentCommandContract -------------------------
(***************************************************************************)
(* What a client of the agent may rely on, whatever happens between its    *)
(* request and the answer.  A request is answered at most once, and only a *)
(* request that runs is told anything but that the application closed; an  *)
(* action reaches the tree at most once, and the answers of those that     *)
(* asked for it agree with whether it did.                                 *)
(***************************************************************************)
EXTENDS Naturals

CONSTANTS Cmds, Req, Results, NoReply

VARIABLES life,      (* of each request: unsent, pending, started, cancelled *)
          answers,   (* how often it was answered                            *)
          answer,    (* and what it was told                                 *)
          effect     (* how often the action of a request reached the tree   *)

contractVars == <<life, answers, answer, effect>>

(* A confirmation and the user's decision about it are about the action     *)
(* they name.                                                               *)
Subject(c) == IF Req[c].op \in {"confirm", "resolve"} THEN Req[c].of ELSE c

(* Whoever asks for an action to be done, alone or for another one's.       *)
AsksFor(c) == \/ Req[c].op \in {"perform", "window", "confirm"}
              \/ Req[c].op = "resolve" /\ Req[c].allow

Done == {"performed", "did_not_settle"}
Refusals == {"stale_revision", "confirmation_rejected"}

Refused(p) == \E c \in Cmds : Subject(c) = p /\ answer[c] \in Refusals

Init ==
  /\ life = [c \in Cmds |-> "unsent"]
  /\ answers = [c \in Cmds |-> 0] /\ answer = [c \in Cmds |-> NoReply]
  /\ effect = [c \in Cmds |-> 0]

Submit(c) ==
  /\ life[c] = "unsent"
  /\ life' = [life EXCEPT ![c] = "pending"]
  /\ UNCHANGED <<answers, answer, effect>>

(* A client that no longer waits takes back what has not started.           *)
Withdraw(c) ==
  /\ life[c] = "pending"
  /\ life' = [life EXCEPT ![c] = "cancelled"]
  /\ UNCHANGED <<answers, answer, effect>>

(* An action is done once, at once or when the user allows it, and not any  *)
(* more after somebody was told that it is refused.                         *)
MayDo(c, p) ==
  /\ effect[p] = 0 /\ ~Refused(p)
  /\ \/ c = p /\ Req[c].op \in {"perform", "window"}
     \/ /\ Req[c].op = "resolve" /\ Req[c].allow /\ Req[c].of = p
        /\ Req[p].op = "guarded" /\ answer[p] = "requires_confirmation"

(* What c may be told: that it is done only if it is, that it is refused    *)
(* only if it is not.                                                       *)
Honest(c, result) ==
  /\ result \in Done /\ AsksFor(c) => Subject(c) \in Cmds /\ effect'[Subject(c)] = 1
  /\ result \in Refusals => Subject(c) \in Cmds /\ effect'[Subject(c)] = 0

Answer ==
  /\ answers' \in [Cmds -> {0, 1}] /\ answer' \in [Cmds -> Results \cup {NoReply}]
  /\ \A c \in Cmds :
       \/ UNCHANGED <<answers[c], answer[c]>>
       \/ /\ answers[c] = 0 /\ answers'[c] = 1
          /\ answer'[c] \in Results /\ Honest(c, answer'[c])
          /\ \/ life'[c] = "started"
             \/ life[c] # "unsent" /\ answer'[c] = "app_closed"

(* A request that starts may have its action done; it is answered then or   *)
(* later, and with it others that wait for the same decision or have waited *)
(* too long.                                                                *)
Start(c) ==
  /\ life[c] = "pending" /\ answers[c] = 0
  /\ life' = [life EXCEPT ![c] = "started"]
  /\ \/ UNCHANGED effect
     \/ \E p \in Cmds : MayDo(c, p) /\ effect' = [effect EXCEPT ![p] = 1]
  /\ Answer

Next ==
  \/ UNCHANGED <<life, effect>> /\ Answer
  \/ \E c \in Cmds : Submit(c) \/ Withdraw(c) \/ Start(c)

Spec == Init /\ [][Next]_contractVars
=============================================================================
