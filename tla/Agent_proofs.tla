---------------------------- MODULE Agent_proofs -----------------------------
(***************************************************************************)
(* Proofs about the agent's two halves.  AgentCommands, for every set of   *)
(* commands, every assignment of requests to them and every capacity: IInv *)
(* is the inductive invariant, it says who holds each unanswered command,  *)
(* which is what the answers of all handlers depend on, and TruthInv how   *)
(* the answers agree with the tree, for the contract with the clients.     *)
(* AgentBridge, for every set of waits and every number of registrations   *)
(* and revisions: BridgeInv says what each sleeper waits for and how far   *)
(* the UI thread has come with each registration.                          *)
(***************************************************************************)
EXTENDS AgentCommands, AgentBridge, TLAPS

(* The UI thread holds an envelope exactly while it executes one, and pops  *)
(* none while something is in flight.                                       *)
PhaseInv ==
  /\ ui = "exec" => hand \in Cmds
  /\ ui # "exec" => hand = NoCmd
  /\ ui \in {"drain", "exec"} => inFlight = {}

(* Who holds an unanswered command: the queue, the UI thread, the flight or *)
(* a confirmation, and never two of them.                                   *)
QueueInv ==
  /\ \A i, j \in DOMAIN queue : queue[i] = queue[j] => i = j
  /\ \A i \in DOMAIN queue : /\ sends[queue[i]] = 0 /\ hand # queue[i]
                             /\ life[queue[i]] \in {"pending", "cancelled"}
HandInv ==
  hand \in Cmds => sends[hand] = 0 /\ life[hand] \in {"pending", "cancelled"}
FlightInv ==
  \A c \in inFlight : sends[c] = 0 /\ life[c] = "started"
WaiterInv ==
  \A p \in Cmds : waiter[p] \in Cmds =>
    /\ sends[waiter[p]] = 0 /\ life[waiter[p]] = "started"
    /\ waiter[p] \notin inFlight
    /\ Of(waiter[p]) = p
    /\ confirm[p] \in {"open", "overdue"}
UnsentInv == \A c \in Cmds : life[c] = "unsent" => sends[c] = 0

CustodyInv == QueueInv /\ HandInv /\ FlightInv /\ WaiterInv /\ UnsentInv /\ AtMostOneAnswer

(* A command touches the tree, or is registered, only once it has started;  *)
(* a registered one is a guarded one that has not been dispatched.          *)
EffectInv ==
  \A c \in Cmds :
    /\ life[c] # "started" => dispatched[c] = 0 /\ confirm[c] = "none"
    /\ confirm[c] \in {"open", "overdue"} => dispatched[c] = 0 /\ Op(c) = "guarded"
    /\ dispatched[c] <= 1

ClosedInv ==
  /\ closed => queue = <<>>
  /\ ui = "gone" => /\ closed /\ inFlight = {}
                    /\ \A p \in Cmds : waiter[p] = NoCmd

TimeoutInv ==
  \A c \in Cmds : client[c] = "timeout" /\ Op(c) \notin {"snapshot", "screenshot"}
                    => life[c] = "cancelled"

IInv == TypeOK /\ PhaseInv /\ CustodyInv /\ NoAnswerLost /\ EffectInv /\ ClosedInv /\ TimeoutInv
-----------------------------------------------------------------------------
(* The type invariant.                                                      *)

USE DEF replyVars, queueVars, clientVars, confirmVars, uiVars, treeVars

Answers == [Cmds -> Results \cup {NoReply}]

LEMMA AnswerAllType ==
  ASSUME NEW S, NEW result \in Results
  PROVE  AnswerAll(S, result) \in Answers
BY DEF AnswerAll, Answers

LEMMA SendType ==
  ASSUME TypeOK, NEW answer \in Answers, SendResults(answer)
  PROVE  reply' \in Answers /\ sends' \in [Cmds -> Nat]
BY DEF TypeOK, SendResults, Answers

LEMMA RefreshType ==
  ASSUME TypeOK, NEW acted, RefreshTree(acted)
  PROVE  rev' \in Nat /\ dirty' \in BOOLEAN
<1>1. rev' \in Nat
  BY DEF RefreshTree, Refreshed, TypeOK
<1>2. dirty' \in BOOLEAN
  BY DEF RefreshTree
<1> QED
  BY <1>1, <1>2

LEMMA TypeInit == Init => TypeOK
<1> SUFFICES ASSUME Init PROVE TypeOK
  OBVIOUS
<1> USE DEF Init
<1>1. queue \in Seq(Cmds)
  OBVIOUS
<1>2. Len(queue) <= Capacity /\ passes \in 0 .. MaxSettlePasses - 1
  BY BoundAssumption
<1>3. reply \in [Cmds -> Results \cup {NoReply}] /\ sends \in [Cmds -> Nat]
  OBVIOUS
<1>4. client \in [Cmds -> ClientStates] /\ ui \in UiPhases
  BY DEF ClientStates, UiPhases
<1>5. /\ life \in [Cmds -> {"unsent", "pending", "started", "cancelled"}]
      /\ confirm \in [Cmds -> {"none", "open", "overdue", "gone"}]
      /\ waiter \in [Cmds -> Cmds \cup {NoCmd}]
      /\ expect \in [Cmds -> Nat \cup {AnyRev}]
      /\ dispatched \in [Cmds -> Nat]
  OBVIOUS
<1> QED
  BY <1>1, <1>2, <1>3, <1>4, <1>5 DEF TypeOK

(* What the connection threads and the rest of the application do.          *)
LEMMA TypeOutside ==
  ASSUME TypeOK
  PROVE  /\ \A c \in Cmds : /\ SubmitRefused(c) => TypeOK'
                            /\ SubmitAccepted(c) => TypeOK'
                            /\ PostWake(c) => TypeOK'
                            /\ RecvTimeout(c) => TypeOK'
                            /\ TimeoutReply(c) => TypeOK'
                            /\ TtlElapses(c) => TypeOK'
         /\ TreeChanges => TypeOK' 
         /\ SurfaceChanges => TypeOK'
<1> USE DEF TypeOK, ClientStates
<1>1. ASSUME NEW c \in Cmds, SubmitRefused(c) PROVE TypeOK'
  BY <1>1 DEF SubmitRefused
<1>2. ASSUME NEW c \in Cmds, SubmitAccepted(c) PROVE TypeOK'
  <2>1. queue' \in Seq(Cmds) /\ Len(queue') <= Capacity
    BY <1>2, BoundAssumption DEF SubmitAccepted, Full
  <2>2. expect' \in [Cmds -> Nat \cup {AnyRev}]
    BY <1>2 DEF SubmitAccepted, Expected
  <2> QED
    BY <1>2, <2>1, <2>2 DEF SubmitAccepted
<1>3. ASSUME NEW c \in Cmds, PostWake(c) PROVE TypeOK'
  BY <1>3 DEF PostWake
<1>4. ASSUME NEW c \in Cmds, RecvTimeout(c) PROVE TypeOK'
  BY <1>4 DEF RecvTimeout
<1>5. ASSUME NEW c \in Cmds, TimeoutReply(c) PROVE TypeOK'
  BY <1>5 DEF TimeoutReply, CancelPending
<1>6. ASSUME NEW c \in Cmds, TtlElapses(c) PROVE TypeOK'
  BY <1>6 DEF TtlElapses
<1>7. ASSUME TreeChanges PROVE TypeOK'
  BY <1>7 DEF TreeChanges
<1>8. ASSUME SurfaceChanges PROVE TypeOK'
  BY <1>8 DEF SurfaceChanges
<1> QED
  BY <1>1, <1>2, <1>3, <1>4, <1>5, <1>6, <1>7, <1>8

(* The UI thread between two commands, and whoever closes the queue.        *)
LEMMA TypeTurn ==
  ASSUME TypeOK
  PROVE  /\ CloseQueue => TypeOK'
         /\ WokenTurn => TypeOK'
         /\ OtherTurn => TypeOK'
         /\ DrainBegin => TypeOK'
         /\ DrainPop => TypeOK'
         /\ DrainEnd => TypeOK'
         /\ Skip => TypeOK'
         /\ CloseWindow => TypeOK'
<1> USE DEF UiPhases
<1>1. ASSUME CloseQueue PROVE TypeOK'
  <2>1. AnswerAll(InQueue, "app_closed") \in Answers
    BY AnswerAllType DEF Results
  <2> QED
    BY <1>1, <2>1, SendType, BoundAssumption DEF CloseQueue, TypeOK, Answers
<1>2. ASSUME WokenTurn PROVE TypeOK'
  BY <1>2 DEF WokenTurn, TypeOK
<1>3. ASSUME OtherTurn PROVE TypeOK'
  BY <1>3 DEF OtherTurn, TypeOK
<1>4. ASSUME DrainBegin PROVE TypeOK'
  BY <1>4 DEF DrainBegin, TypeOK
<1>5. ASSUME DrainPop PROVE TypeOK'
  <2>1. Head(queue) \in Cmds /\ Tail(queue) \in Seq(Cmds) /\ Len(Tail(queue)) <= Capacity
    BY <1>5, BoundAssumption DEF DrainPop, TypeOK
  <2> QED
    BY <1>5, <2>1 DEF DrainPop, TypeOK
<1>6. ASSUME DrainEnd PROVE TypeOK'
  BY <1>6 DEF DrainEnd, TypeOK
<1>7. ASSUME Skip PROVE TypeOK'
  BY <1>7 DEF Skip, TypeOK
<1>8. ASSUME CloseWindow PROVE TypeOK'
  <2>1. [c \in Cmds |-> IF c \in InQueue \cup inFlight THEN "app_closed"
                       ELSE IF c \in Waiting(Registered) THEN "confirmation_not_found"
                       ELSE NoReply] \in Answers
    BY DEF Answers, Results
  <2>2. reply' \in Answers /\ sends' \in [Cmds -> Nat]
    BY <1>8, <2>1, SendType DEF CloseWindow
  <2>3. /\ confirm' \in [Cmds -> {"none", "open", "overdue", "gone"}]
        /\ waiter' \in [Cmds -> Cmds \cup {NoCmd}]
    BY <1>8 DEF CloseWindow, Unregister, TypeOK
  <2> QED
    BY <1>8, <2>2, <2>3, BoundAssumption DEF CloseWindow, TypeOK, Answers
<1> QED
  BY <1>1, <1>2, <1>3, <1>4, <1>5, <1>6, <1>7, <1>8

LEMMA TypeSettle ==
  ASSUME TypeOK, Settle
  PROVE  TypeOK'
<1>1. rev' \in Nat /\ dirty' \in BOOLEAN
  BY RefreshType DEF Settle, SettleHidden, ObserveSettle, TypeOK
<1>2. ASSUME NEW sync, FinishOrDefer(sync)
      PROVE  /\ inFlight' \subseteq Cmds /\ passes' \in 0 .. MaxSettlePasses - 1
             /\ reply' \in Answers /\ sends' \in [Cmds -> Nat]
  <2>1. AnswerAll(inFlight, IF sync THEN "did_not_settle" ELSE "performed") \in Answers
    BY AnswerAllType DEF Results
  <2> QED
    BY <1>2, <2>1, SendType, BoundAssumption DEF FinishOrDefer, TypeOK, Answers
<1>3. AnswerAll(inFlight, "not_presentable") \in Answers
  BY AnswerAllType DEF Results
<1>4. /\ inFlight' \subseteq Cmds /\ passes' \in 0 .. MaxSettlePasses - 1
      /\ reply' \in Answers /\ sends' \in [Cmds -> Nat]
  <2>1. CASE SettleHidden
    <3>1. CASE Background # {}
      BY <2>1, <3>1, <1>2 DEF SettleHidden
    <3>2. CASE Background = {}
      BY <2>1, <3>2, <1>3, SendType, BoundAssumption DEF SettleHidden
    <3> QED
      BY <3>1, <3>2
  <2>2. CASE ObserveSettle
    BY <2>2, <1>2 DEF ObserveSettle, TypeOK, Answers
  <2> QED
    BY <2>1, <2>2 DEF Settle
<1>5. ui' \in UiPhases
  BY DEF Settle, EndTurn, UiPhases
<1> QED
  BY <1>1, <1>4, <1>5 DEF Settle, TypeOK, Answers

(* The variables a command may change, whatever it asks for.                *)
EffectType ==
  /\ reply' \in Answers /\ sends' \in [Cmds -> Nat]
  /\ inFlight' \subseteq Cmds
  /\ confirm' \in [Cmds -> {"none", "open", "overdue", "gone"}]
  /\ waiter' \in [Cmds -> Cmds \cup {NoCmd}]
  /\ dispatched' \in [Cmds -> Nat]
  /\ rev' \in Nat /\ dirty' \in BOOLEAN

LEMMA UnregisterType ==
  ASSUME TypeOK, NEW S, Unregister(S)
  PROVE  /\ confirm' \in [Cmds -> {"none", "open", "overdue", "gone"}]
         /\ waiter' \in [Cmds -> Cmds \cup {NoCmd}]
BY DEF Unregister, TypeOK

LEMMA DispatchType ==
  ASSUME TypeOK, NEW c \in Cmds, NEW verdict, Dispatch(c, verdict)
  PROVE  dispatched' \in [Cmds -> Nat] /\ rev' \in Nat /\ dirty' \in BOOLEAN
<1>1. dispatched' \in [Cmds -> Nat]
  BY DEF Dispatch, TypeOK
<1> QED
  BY <1>1, RefreshType DEF Dispatch

LEMMA TypeConfirm ==
  ASSUME TypeOK, hand \in Cmds, RunConfirm
  PROVE  EffectType
<1> DEFINE p == Of(hand)
<1>1. \A S : AnswerAll(S, "confirmation_not_found") \in Answers
  BY AnswerAllType DEF Results
<1>2. reply' \in Answers /\ sends' \in [Cmds -> Nat]
  BY <1>1, SendType DEF RunConfirm
<1>3. /\ confirm' \in [Cmds -> {"none", "open", "overdue", "gone"}]
      /\ waiter' \in [Cmds -> Cmds \cup {NoCmd}]
  <2>1. CASE Undecided(p) /\ waiter[p] = NoCmd /\ ConfirmUi
    BY <2>1 DEF RunConfirm, TypeOK
  <2>2. CASE ~(Undecided(p) /\ waiter[p] = NoCmd /\ ConfirmUi)
    BY <2>2, UnregisterType DEF RunConfirm
  <2> QED
    BY <2>1, <2>2
<1> QED
  BY <1>2, <1>3, RefreshType DEF RunConfirm, EffectType, TypeOK

LEMMA TypeResolve ==
  ASSUME TypeOK, hand \in Cmds, RunResolve
  PROVE  EffectType
<1> DEFINE p == Of(hand)
           held == IF p \in Cmds THEN {waiter[p]} \ {NoCmd} ELSE {}
           answer(toHost, toWaiter) ==
             [c \in Cmds |-> IF c \in Waiting(Expired) THEN "confirmation_not_found"
                             ELSE IF c \in held THEN toWaiter
                             ELSE IF c = hand THEN toHost ELSE NoReply]
<1>1. \A a, b \in Results \cup {NoReply} : answer(a, b) \in Answers
  BY DEF Answers, Results
<1>2. held \subseteq Cmds
  BY DEF TypeOK
<1> HIDE DEF held, answer
<1>3. CASE Undecided(p) /\ Allowed(hand)
  <2>1. PICK verdict \in Verdicts(p) :
           /\ Dispatch(p, verdict)
           /\ Unregister(Expired \cup {p})
           /\ IF verdict = "ok"
              THEN /\ inFlight' = inFlight \cup {hand} \cup held
                   /\ SendResults(answer(NoReply, NoReply))
              ELSE /\ SendResults(answer(ErrorOf(verdict), ErrorOf(verdict)))
                   /\ UNCHANGED inFlight
    BY <1>3 DEF RunResolve, answer, held
  <2>2. ErrorOf(verdict) \in Results
    BY DEF ErrorOf, Results
  <2>3. reply' \in Answers /\ sends' \in [Cmds -> Nat] /\ inFlight' \subseteq Cmds
    BY <2>1, <2>2, <1>1, <1>2, SendType DEF TypeOK
  <2>4. p \in Cmds
    BY <1>3 DEF Undecided
  <2> QED
    BY <2>1, <2>3, <2>4, DispatchType, UnregisterType DEF EffectType
<1>4. CASE Undecided(p) /\ ~Allowed(hand)
  <2>1. /\ Unregister(Expired \cup {p}) /\ RefreshTree(FALSE)
        /\ SendResults(answer("performed", "confirmation_rejected"))
        /\ UNCHANGED <<inFlight, dispatched>>
    BY <1>4 DEF RunResolve, answer, held
  <2> QED
    BY <2>1, <1>1, SendType, UnregisterType, RefreshType DEF EffectType, Results, TypeOK
<1>5. CASE ~Undecided(p)
  <2>1. AnswerAll(Waiting(Expired) \cup {hand}, "confirmation_not_found") \in Answers
    BY AnswerAllType DEF Results
  <2> QED
    BY <2>1, <1>5, SendType, UnregisterType, RefreshType DEF RunResolve, EffectType, TypeOK
<1> QED
  BY <1>3, <1>4, <1>5

LEMMA TypePlain ==
  ASSUME TypeOK, hand \in Cmds, RunSnapshot \/ RunPerform \/ RunGuarded \/ RunScreenshot
  PROVE  EffectType
<1>1. \A r \in Results : AnswerAll({hand}, r) \in Answers
  BY AnswerAllType
<1>2. \A verdict : ErrorOf(verdict) \in Results
  BY DEF ErrorOf, Results
<1>3. CASE RunSnapshot
  BY <1>1, <1>3, SendType, RefreshType DEF RunSnapshot, EffectType, TypeOK, Results
<1>4. CASE RunPerform
  <2>1. PICK verdict \in Verdicts(hand) :
           /\ Dispatch(hand, verdict)
           /\ IF verdict = "ok"
              THEN inFlight' = inFlight \cup {hand} /\ UNCHANGED replyVars
              ELSE SendResults(AnswerAll({hand}, ErrorOf(verdict))) /\ UNCHANGED inFlight
    BY <1>4 DEF RunPerform
  <2>2. reply' \in Answers /\ sends' \in [Cmds -> Nat] /\ inFlight' \subseteq Cmds
    BY <2>1, <1>1, <1>2, SendType DEF TypeOK, Answers
  <2> QED
    BY <1>4, <2>1, <2>2, DispatchType DEF RunPerform, EffectType, TypeOK
<1>5. CASE RunGuarded
  <2>1. confirm' \in [Cmds -> {"none", "open", "overdue", "gone"}]
    BY <1>5 DEF RunGuarded, TypeOK
  <2> QED
    BY <2>1, <1>1, <1>5, SendType, RefreshType DEF RunGuarded, EffectType, TypeOK, Results
<1>6. CASE RunScreenshot
  <2>1. reply' \in Answers /\ sends' \in [Cmds -> Nat] /\ inFlight' \subseteq Cmds
    BY <1>1, <1>6, SendType DEF RunScreenshot, TypeOK, Answers, Results
  <2> QED
    BY <2>1, <1>6, RefreshType DEF RunScreenshot, EffectType, TypeOK
<1> QED
  BY <1>3, <1>4, <1>5, <1>6

LEMMA TypeRun ==
  ASSUME TypeOK, hand \in Cmds, Run
  PROVE  TypeOK'
<1>1. EffectType
  BY TypePlain, TypeConfirm, TypeResolve DEF Run
<1>2. life' \in [Cmds -> {"unsent", "pending", "started", "cancelled"}]
  BY DEF Run, TypeOK
<1>3. /\ hand' \in Cmds \cup {NoCmd} /\ ui' \in UiPhases
      /\ budget' \in Nat /\ passes' \in 0 .. MaxSettlePasses - 1
  BY BoundAssumption DEF Run, NextEnvelope, TypeOK, UiPhases
<1> QED
  BY <1>1, <1>2, <1>3 DEF Run, EffectType, TypeOK, Answers
-----------------------------------------------------------------------------
(* What the UI thread holds.                                                *)

(* The steps that leave the UI thread where it is.                          *)
OutsideStep ==
  \/ \E c \in Cmds : \/ SubmitRefused(c) \/ SubmitAccepted(c) \/ PostWake(c)
                     \/ RecvTimeout(c) \/ TimeoutReply(c) \/ TtlElapses(c)
  \/ CloseQueue \/ TreeChanges \/ SurfaceChanges

LEMMA OutsideKeepsUi ==
  ASSUME OutsideStep \/ UNCHANGED vars
  PROVE  UNCHANGED <<ui, hand, inFlight, waiter>>
BY DEF OutsideStep, SubmitRefused, SubmitAccepted, PostWake, RecvTimeout, TimeoutReply,
       TtlElapses, CloseQueue, TreeChanges, SurfaceChanges, vars

LEMMA NextSplit ==
  Next <=> OutsideStep \/ UiStep \/ OtherTurn \/ CloseWindow
BY DEF Next, OutsideStep

LEMMA PhaseStep ==
  ASSUME TypeOK, PhaseInv, [Next]_vars
  PROVE  PhaseInv'
<1> USE DEF PhaseInv
<1>1. CASE OutsideStep \/ UNCHANGED vars
  BY <1>1, OutsideKeepsUi
<1>2. CASE WokenTurn \/ OtherTurn \/ DrainBegin \/ DrainEnd \/ Skip
  BY <1>2 DEF WokenTurn, OtherTurn, DrainBegin, DrainEnd, Skip
<1>3. CASE DrainPop
  BY <1>3 DEF DrainPop, TypeOK
<1>4. CASE Run
  BY <1>4 DEF Run, NextEnvelope
<1>5. CASE Settle
  BY <1>5 DEF Settle, EndTurn
<1>6. CASE CloseWindow
  BY <1>6, NullAssumption DEF CloseWindow
<1> QED
  BY <1>1, <1>2, <1>3, <1>4, <1>5, <1>6, NextSplit DEF UiStep

LEMMA TypeStep ==
  ASSUME TypeOK, PhaseInv, [Next]_vars
  PROVE  TypeOK'
<1>1. CASE UNCHANGED vars
  BY <1>1 DEF vars, TypeOK
<1>2. CASE OutsideStep
  BY <1>2, TypeOutside, TypeTurn DEF OutsideStep
<1>3. CASE Run
  BY <1>3, TypeRun DEF PhaseInv, Run
<1>4. CASE Settle
  BY <1>4, TypeSettle
<1>5. CASE WokenTurn \/ OtherTurn \/ DrainBegin \/ DrainPop \/ DrainEnd \/ Skip \/ CloseWindow
  BY <1>5, TypeTurn
<1> QED
  BY <1>1, <1>2, <1>3, <1>4, <1>5, NextSplit DEF UiStep

(* Every variable keeps its type: the queue stays within its capacity and a *)
(* settling command below the pass limit, whatever the commands ask for.    *)
THEOREM TypeCorrect == Spec => []TypeOK
<1>1. Init => TypeOK /\ PhaseInv
  BY TypeInit, NullAssumption DEF Init, PhaseInv
<1>2. TypeOK /\ PhaseInv /\ [Next]_vars => (TypeOK /\ PhaseInv)'
  BY TypeStep, PhaseStep
<1> QED
  BY <1>1, <1>2, PTL DEF Spec
-----------------------------------------------------------------------------
(* Who holds an unanswered command.  AnswersExactly says which channels a   *)
(* step sends to; a handler answers or moves on only what it holds.         *)

AnswersExactly(A) ==
  \A c \in Cmds : sends'[c] = IF c \in A THEN sends[c] + 1 ELSE sends[c]

LEMMA AnswerAllExactly ==
  ASSUME NEW S, NEW result \in Results, SendResults(AnswerAll(S, result))
  PROVE  AnswersExactly(S)
BY ReplyAssumption DEF SendResults, AnswerAll, AnswersExactly

Parked == {waiter[p] : p \in Cmds} \ {NoCmd}
CustodyAll == TypeOK /\ PhaseInv /\ CustodyInv /\ NoAnswerLost

USE DEF QueueInv, HandInv, FlightInv, WaiterInv, UnsentInv, AtMostOneAnswer

(* Steps that move no command and answer none: at most a withdrawal.        *)
Quiet ==
  /\ UNCHANGED <<queue, inFlight, waiter, sends>>
  /\ hand' \in {hand, NoCmd}
  /\ hand' # hand => life[hand] # "pending"
  /\ \A c \in Cmds : life'[c] = life[c] \/ (life[c] = "pending" /\ life'[c] = "cancelled")
  /\ \A c \in Cmds : confirm'[c] = confirm[c] \/ (confirm[c] = "open" /\ confirm'[c] = "overdue")

LEMMA QuietSteps ==
  ASSUME TypeOK, PhaseInv,
         \/ \E c \in Cmds : \/ SubmitRefused(c) \/ PostWake(c) \/ RecvTimeout(c)
                            \/ TimeoutReply(c) \/ TtlElapses(c)
         \/ TreeChanges \/ SurfaceChanges \/ WokenTurn \/ OtherTurn \/ DrainBegin
         \/ DrainEnd \/ Skip \/ UNCHANGED vars
  PROVE  Quiet
<1> USE DEF Quiet, TypeOK
<1>1. CASE \E c \in Cmds : SubmitRefused(c) \/ PostWake(c) \/ RecvTimeout(c)
  BY <1>1 DEF SubmitRefused, PostWake, RecvTimeout
<1>2. CASE \E c \in Cmds : TimeoutReply(c) \/ TtlElapses(c)
  BY <1>2 DEF TimeoutReply, TtlElapses, CancelPending
<1>3. CASE TreeChanges \/ SurfaceChanges \/ WokenTurn \/ OtherTurn \/ DrainBegin \/ DrainEnd
  BY <1>3 DEF TreeChanges, SurfaceChanges, WokenTurn, OtherTurn, DrainBegin, DrainEnd
<1>4. CASE Skip
  BY <1>4 DEF Skip, Startable
<1>5. CASE UNCHANGED vars
  BY <1>5 DEF vars
<1> QED
  BY <1>1, <1>2, <1>3, <1>4, <1>5

LEMMA QuietCustody ==
  ASSUME CustodyAll, Quiet
  PROVE  CustodyInv' /\ NoAnswerLost'
<1> USE DEF CustodyAll, Quiet, CustodyInv
<1>a. \A i \in DOMAIN queue : queue[i] \in Cmds
  BY DEF TypeOK
<1>b. inFlight \subseteq Cmds /\ hand \in Cmds \cup {NoCmd} /\ NoCmd \notin Cmds
  BY NullAssumption DEF TypeOK
<1>1. QueueInv' /\ HandInv'
  BY <1>a, <1>b
<1>2. FlightInv' /\ UnsentInv' /\ AtMostOneAnswer'
  BY <1>b
<1>c. WaiterInv'
  OBVIOUS
<1>3. NoAnswerLost'
  <2> SUFFICES ASSUME NEW c \in Cmds, life'[c] \in {"pending", "started"}, sends'[c] = 0
               PROVE  (c \in InQueue \/ HeldByUi(c))'
    BY DEF NoAnswerLost
  <2>1. life[c] \in {"pending", "started"} /\ (c \in InQueue \/ HeldByUi(c))
    BY DEF NoAnswerLost
  <2>2. CASE c = hand
    BY <2>1, <2>2, NullAssumption DEF HeldByUi, InQueue, TypeOK
  <2>3. CASE c # hand
    BY <2>1, <2>3 DEF HeldByUi, InQueue
  <2> QED
    BY <2>2, <2>3
<1> QED
  BY <1>1, <1>2, <1>c, <1>3

LEMMA SubmitCustody ==
  ASSUME CustodyAll, NEW c \in Cmds, SubmitAccepted(c)
  PROVE  CustodyInv' /\ NoAnswerLost'
<1> USE DEF CustodyAll, CustodyInv
<1>1. /\ queue' = Append(queue, c) /\ UNCHANGED <<hand, inFlight, waiter, sends, confirm>>
      /\ life[c] = "unsent" /\ life' = [life EXCEPT ![c] = "pending"]
  BY DEF SubmitAccepted, Turn
<1>2. \A i \in DOMAIN queue : queue[i] # c
  BY <1>1
<1>3. DOMAIN queue' = 1 .. Len(queue) + 1 /\ queue'[Len(queue) + 1] = c
  BY <1>1 DEF TypeOK
<1>4. /\ \A i \in DOMAIN queue : i \in DOMAIN queue' /\ queue'[i] = queue[i]
      /\ \A i \in DOMAIN queue' : \/ i \in DOMAIN queue /\ queue'[i] = queue[i]
                                  \/ i = Len(queue) + 1 /\ queue'[i] = c
  BY <1>1 DEF TypeOK
<1>8. \A d \in Cmds : life'[d] = IF d = c THEN "pending" ELSE life[d]
  BY <1>1 DEF TypeOK
<1>9. c # hand /\ sends[c] = 0
  BY <1>1
<1>10. \A i \in DOMAIN queue : queue[i] \in Cmds
  BY DEF TypeOK
<1>5. QueueInv'
  BY <1>1, <1>2, <1>4, <1>8, <1>9, <1>10
<1>6. HandInv' /\ FlightInv' /\ WaiterInv' /\ UnsentInv' /\ AtMostOneAnswer'
  BY <1>1 DEF TypeOK
<1>7. NoAnswerLost'
  BY <1>1, <1>3, <1>4, <1>8 DEF NoAnswerLost, InQueue, HeldByUi
<1> QED
  BY <1>5, <1>6, <1>7

LEMMA PopCustody ==
  ASSUME CustodyAll, DrainPop
  PROVE  CustodyInv' /\ NoAnswerLost'
<1> USE DEF CustodyAll, CustodyInv
<1>1. /\ queue # <<>> /\ hand' = Head(queue) /\ queue' = Tail(queue) /\ hand = NoCmd
      /\ UNCHANGED <<inFlight, waiter, sends, confirm, life>>
  BY DEF DrainPop, PhaseInv
<1>2. 1 \in DOMAIN queue /\ hand' = queue[1] /\ hand' \in Cmds
  BY <1>1 DEF TypeOK
<1>3. \A i \in DOMAIN queue' : i + 1 \in DOMAIN queue /\ queue'[i] = queue[i + 1] /\ i \in Nat /\ i > 0
  BY <1>1, SMTT(30) DEF TypeOK
<1>4. ASSUME NEW i \in DOMAIN queue, i # 1
      PROVE  i - 1 \in DOMAIN queue' /\ queue'[i - 1] = queue[i]
  <2>1. i \in 2 .. Len(queue) /\ Len(queue') = Len(queue) - 1 /\ queue' \in Seq(Cmds)
    BY <1>1, <1>4 DEF TypeOK
  <2>2. i - 1 \in DOMAIN queue'
    BY <2>1 DEF TypeOK
  <2> QED
    BY <2>1, <2>2, <1>3
<1>5. QueueInv' /\ HandInv'
  BY <1>1, <1>2, <1>3
<1>6. FlightInv' /\ WaiterInv' /\ UnsentInv' /\ AtMostOneAnswer'
  BY <1>1
<1>7. NoAnswerLost'
  BY <1>1, <1>2, <1>4, NullAssumption DEF NoAnswerLost, InQueue, HeldByUi
<1> QED
  BY <1>5, <1>6, <1>7

LEMMA CloseCustody ==
  ASSUME CustodyAll, CloseQueue
  PROVE  CustodyInv' /\ NoAnswerLost'
<1> USE DEF CustodyAll, CustodyInv
<1>1. /\ queue' = <<>> /\ UNCHANGED <<hand, inFlight, waiter, confirm, life>>
      /\ AnswersExactly(InQueue)
  BY AnswerAllExactly DEF CloseQueue, Results
<1>2. \A c \in InQueue : c # hand /\ sends[c] = 0 /\ life[c] \in {"pending", "cancelled"}
  BY DEF InQueue
<1>3. DOMAIN queue' = {}
  BY <1>1
<1>4. QueueInv' /\ HandInv'
  BY <1>1, <1>2, <1>3 DEF AnswersExactly
<1>5. \A c \in Cmds : life[c] = "started" \/ life[c] = "unsent" => sends'[c] = sends[c]
  BY <1>1, <1>2 DEF AnswersExactly
<1>6. FlightInv' /\ UnsentInv'
  BY <1>1, <1>5 DEF TypeOK
<1>7. WaiterInv'
  BY <1>1, <1>5
<1>8. AtMostOneAnswer'
  BY <1>1, <1>2 DEF AnswersExactly
<1>9. NoAnswerLost'
  <2> SUFFICES ASSUME NEW c \in Cmds, life'[c] \in {"pending", "started"}, sends'[c] = 0
               PROVE  HeldByUi(c)'
    BY DEF NoAnswerLost
  <2>1. c \notin InQueue /\ sends[c] = 0
    BY <1>1, <1>2 DEF AnswersExactly
  <2> QED
    BY <2>1, <1>1 DEF NoAnswerLost, HeldByUi
<1> QED
  BY <1>4, <1>6, <1>7, <1>8, <1>9

(* What a command handler does with the envelope in hand and the parked     *)
(* tickets: it answers A, puts F in flight, and keeps or parks the rest.    *)
Handled(A, F) ==
  /\ AnswersExactly(A)
  /\ inFlight' = inFlight \cup F
  /\ A \cap F = {}
  /\ A \cup F \subseteq {hand} \cup Parked
  /\ \A p \in Cmds :
       \/ waiter'[p] = waiter[p] /\ waiter[p] \notin A \cup F
          /\ (waiter[p] \in Cmds => confirm'[p] \in {confirm[p], "open"})
       \/ waiter'[p] = NoCmd /\ waiter[p] \in A \cup F \cup {NoCmd}
       \/ waiter'[p] = hand /\ hand \notin A \cup F /\ p = Of(hand) /\ waiter[p] = NoCmd
          /\ confirm'[p] \in {"open", "overdue"}
  /\ hand \in A \cup F \/ \E p \in Cmds : waiter'[p] = hand

LEMMA HandledCustody ==
  ASSUME CustodyAll, Run, NEW A, NEW F, Handled(A, F)
  PROVE  CustodyInv' /\ NoAnswerLost'
<1> USE DEF CustodyAll, CustodyInv
<1>1. /\ hand \in Cmds /\ life[hand] = "pending" /\ inFlight = {} /\ NoCmd \notin Cmds
      /\ hand' = NoCmd /\ queue' = queue
  BY NullAssumption DEF Run, Startable, PhaseInv, NextEnvelope
<1>2. \A c \in Cmds : life'[c] = IF c = hand THEN "started" ELSE life[c]
  BY DEF Run, TypeOK
<1>3. \A c \in Parked : /\ c \in Cmds /\ sends[c] = 0 /\ life[c] = "started"
                        /\ Of(c) \in Cmds /\ waiter[Of(c)] = c
  BY DEF Parked, TypeOK
<1>4. \A c \in A \cup F : c \in Cmds /\ sends[c] = 0 /\ life'[c] = "started"
  BY <1>1, <1>2, <1>3 DEF Handled
<1>5. \A i \in DOMAIN queue : queue[i] \in Cmds /\ queue[i] \notin A \cup F /\ queue[i] # hand
  <2> SUFFICES ASSUME NEW i \in DOMAIN queue
               PROVE  queue[i] \in Cmds /\ queue[i] \notin A \cup F /\ queue[i] # hand
    OBVIOUS
  <2>1. queue[i] \in Cmds
    BY DEF TypeOK
  <2>2. queue[i] # hand /\ life[queue[i]] # "started"
    OBVIOUS
  <2> QED
    BY <2>1, <2>2, <1>3 DEF Handled
<1>6. QueueInv'
  BY <1>1, <1>2, <1>5 DEF Handled, AnswersExactly
<1>7. HandInv' /\ FlightInv' /\ UnsentInv' /\ AtMostOneAnswer'
  BY <1>1, <1>2, <1>4 DEF Handled, AnswersExactly
<1>8. WaiterInv'
  <2> SUFFICES ASSUME NEW p \in Cmds, waiter'[p] \in Cmds
               PROVE  /\ sends'[waiter'[p]] = 0 /\ life'[waiter'[p]] = "started"
                      /\ waiter'[p] \notin inFlight'
                      /\ Of(waiter'[p]) = p
                      /\ confirm'[p] \in {"open", "overdue"}
    OBVIOUS
  <2>1. CASE waiter'[p] = waiter[p] /\ waiter[p] \notin A \cup F
    BY <2>1, <1>1, <1>2 DEF Handled, AnswersExactly
  <2>2. CASE waiter'[p] = hand /\ hand \notin A \cup F /\ p = Of(hand) /\ confirm'[p] \in {"open", "overdue"}
    BY <2>2, <1>1, <1>2 DEF Handled, AnswersExactly
  <2> QED
    BY <2>1, <2>2, <1>1 DEF Handled
<1>9. NoAnswerLost'
  <2> SUFFICES ASSUME NEW c \in Cmds, life'[c] \in {"pending", "started"}, sends'[c] = 0
               PROVE  (c \in InQueue \/ HeldByUi(c))'
    BY DEF NoAnswerLost
  <2>1. c \notin A
    BY <1>4 DEF Handled, AnswersExactly
  <2>2. CASE c = hand
    BY <2>1, <2>2 DEF Handled, HeldByUi
  <2>3. CASE c # hand
    <3>1. sends[c] = 0 /\ life[c] \in {"pending", "started"}
      BY <2>1, <2>3, <1>2 DEF Handled, AnswersExactly
    <3>2. c \in InQueue \/ \E p \in Cmds : waiter[p] = c
      BY <3>1, <2>3, <1>1 DEF NoAnswerLost, HeldByUi
    <3>3. CASE c \in InQueue
      BY <3>3, <1>1 DEF InQueue
    <3>4. CASE \E p \in Cmds : waiter[p] = c
      BY <3>4, <2>1, <1>1 DEF Handled, HeldByUi
    <3> QED
      BY <3>2, <3>3, <3>4
  <2> QED
    BY <2>2, <2>3
<1> QED
  BY <1>6, <1>7, <1>8, <1>9

LEMMA PlainHandled ==
  ASSUME CustodyAll, Run, RunSnapshot \/ RunPerform \/ RunGuarded \/ RunScreenshot
  PROVE  \E A, F : Handled(A, F)
<1>1. /\ hand \in Cmds /\ hand # NoCmd /\ inFlight = {}
      /\ \A p \in Cmds : waiter[p] # hand
  BY NullAssumption DEF CustodyAll, CustodyInv, Run, Startable, PhaseInv
<1>2. UNCHANGED waiter
  BY DEF RunSnapshot, RunPerform, RunGuarded, RunScreenshot
<1>3. \A p \in Cmds : confirm'[p] \in {confirm[p], "open"}
  BY DEF RunSnapshot, RunPerform, RunGuarded, RunScreenshot, CustodyAll, TypeOK
<1>4. ASSUME AnswersExactly({hand}), UNCHANGED inFlight
      PROVE  Handled({hand}, {})
  BY <1>1, <1>2, <1>3, <1>4 DEF Handled, CustodyAll, TypeOK
<1>5. ASSUME UNCHANGED sends, inFlight' = inFlight \cup {hand}
      PROVE  Handled({}, {hand})
  BY <1>1, <1>2, <1>3, <1>5 DEF Handled, AnswersExactly, CustodyAll, TypeOK
<1>6. \A r \in Results : SendResults(AnswerAll({hand}, r)) => AnswersExactly({hand})
  BY AnswerAllExactly
<1>7. \/ AnswersExactly({hand}) /\ UNCHANGED inFlight
      \/ UNCHANGED sends /\ inFlight' = inFlight \cup {hand}
  BY <1>6 DEF RunSnapshot, RunPerform, RunGuarded, RunScreenshot, Results, ErrorOf
<1> QED
  BY <1>4, <1>5, <1>7

(* Both confirmation handlers take registrations out, S, and answer or put  *)
(* in flight the tickets parked on them together with their own.            *)
LEMMA UnregisterHandled ==
  ASSUME CustodyAll, Run, NEW S \in SUBSET Cmds, Unregister(S), NEW A, NEW F,
         A \cup F = Waiting(S) \cup {hand}, A \cap F = {},
         AnswersExactly(A), inFlight' = inFlight \cup F
  PROVE  Handled(A, F)
<1>1. \A q \in Cmds : waiter[q] \in Cmds \cup {NoCmd}
  BY DEF CustodyAll, TypeOK
<1>2. \A q, r \in Cmds : waiter[q] = waiter[r] => waiter[q] = NoCmd \/ q = r
  BY <1>1 DEF CustodyAll, CustodyInv
<1>3. hand \in Cmds /\ life[hand] = "pending"
  BY DEF CustodyAll, Run, Startable, PhaseInv
<1>4. \A q \in Cmds : waiter[q] # hand
  BY <1>3 DEF CustodyAll, CustodyInv
<1>5. ASSUME NEW q \in Cmds
      PROVE  \/ waiter'[q] = waiter[q] /\ waiter[q] \notin A \cup F
                /\ (waiter[q] \in Cmds => confirm'[q] \in {confirm[q], "open"})
             \/ waiter'[q] = NoCmd /\ waiter[q] \in A \cup F \cup {NoCmd}
  <2>1. CASE q \in S
    BY <2>1 DEF Unregister, Waiting
  <2>2. CASE q \notin S
    <3>1. waiter'[q] = waiter[q] /\ confirm'[q] = confirm[q]
      BY <2>2 DEF Unregister
    <3>2. waiter[q] \notin Waiting(S)
      BY <2>2, <1>2 DEF Waiting
    <3> QED
      BY <3>1, <3>2, <1>4
  <2> QED
    BY <2>1, <2>2
<1>6. A \cup F \subseteq {hand} \cup Parked
  BY DEF Waiting, Parked
<1> QED
  BY <1>5, <1>6 DEF Handled

LEMMA ConfirmHandled ==
  ASSUME CustodyAll, Run, RunConfirm
  PROVE  \E A, F : Handled(A, F)
<1> DEFINE p == Of(hand)
<1>1. /\ hand \in Cmds /\ hand # NoCmd /\ inFlight = {} /\ UNCHANGED inFlight
      /\ \A q \in Cmds : waiter[q] # hand /\ waiter[q] \in Cmds \cup {NoCmd}
  BY NullAssumption DEF CustodyAll, CustodyInv, TypeOK, Run, Startable, PhaseInv, RunConfirm
<1>2. \A q, r \in Cmds : waiter[q] = waiter[r] => waiter[q] = NoCmd \/ q = r
  BY <1>1 DEF CustodyAll, CustodyInv
<1>3. \A S : SendResults(AnswerAll(S, "confirmation_not_found")) => AnswersExactly(S)
  BY AnswerAllExactly DEF Results
<1>4. Expired \subseteq Cmds /\ \A q \in Cmds : q \in Expired <=> confirm[q] = "overdue"
  BY DEF Expired
<1>5. CASE Undecided(p) /\ waiter[p] = NoCmd /\ ConfirmUi
  <2>1. /\ AnswersExactly(Waiting(Expired)) /\ p \in Cmds /\ confirm[p] = "open"
        /\ confirm' = [q \in Cmds |-> IF q \in Expired THEN "gone" ELSE confirm[q]]
        /\ waiter' = [q \in Cmds |-> IF q = p THEN hand
                                     ELSE IF q \in Expired THEN NoCmd ELSE waiter[q]]
    BY <1>5, <1>3 DEF RunConfirm, Undecided
  <2>2. ASSUME NEW q \in Cmds
        PROVE  \/ waiter'[q] = waiter[q] /\ waiter[q] \notin Waiting(Expired)
                  /\ (waiter[q] \in Cmds => confirm'[q] \in {confirm[q], "open"})
               \/ waiter'[q] = NoCmd /\ waiter[q] \in Waiting(Expired) \cup {NoCmd}
               \/ waiter'[q] = hand /\ q = p /\ waiter[q] = NoCmd /\ confirm'[q] = "open"
    <3>1. CASE q \in Expired
      BY <2>1, <3>1, <1>4 DEF Waiting
    <3>2. CASE q = p
      BY <2>1, <3>2, <1>4, <1>5
    <3>3. CASE q \notin Expired /\ q # p
      <4>1. waiter'[q] = waiter[q] /\ confirm'[q] = confirm[q]
        BY <2>1, <3>3
      <4>2. waiter[q] \notin Waiting(Expired)
        BY <1>2, <1>4, <3>3 DEF Waiting
      <4> QED
        BY <4>1, <4>2
    <3> QED
      BY <3>1, <3>2, <3>3
  <2>3. hand \notin Waiting(Expired) /\ Waiting(Expired) \subseteq Parked
    BY <1>1, <1>4 DEF Waiting, Parked
  <2>4. waiter'[p] = hand
    BY <2>1
  <2> QED
    BY <2>1, <2>2, <2>3, <2>4, <1>1 DEF Handled
<1>6. ASSUME NEW S \in SUBSET Cmds, Unregister(S), Waiting(S) = Waiting(Expired),
             AnswersExactly(Waiting(Expired) \cup {hand})
      PROVE  Handled(Waiting(S) \cup {hand}, {})
  BY <1>1, <1>6, UnregisterHandled
<1>7. CASE Undecided(p) /\ waiter[p] = NoCmd /\ ~ConfirmUi
  <2>1. /\ Unregister(Expired \cup {p}) /\ p \in Cmds
        /\ AnswersExactly(Waiting(Expired) \cup {hand})
    BY <1>7, <1>3 DEF RunConfirm, Undecided
  <2>2. Waiting(Expired \cup {p}) = Waiting(Expired)
    BY <1>7 DEF Waiting
  <2> QED
    BY <2>1, <2>2, <1>4, <1>6
<1>8. CASE ~(Undecided(p) /\ waiter[p] = NoCmd)
  BY <1>8, <1>3, <1>4, <1>6 DEF RunConfirm
<1> QED
  BY <1>5, <1>7, <1>8

LEMMA ResolveHandled ==
  ASSUME CustodyAll, Run, RunResolve
  PROVE  \E A, F : Handled(A, F)
<1> DEFINE p == Of(hand)
           held == IF p \in Cmds THEN {waiter[p]} \ {NoCmd} ELSE {}
           late == Waiting(Expired)
           answer(toHost, toWaiter) ==
             [c \in Cmds |-> IF c \in Waiting(Expired) THEN "confirmation_not_found"
                             ELSE IF c \in held THEN toWaiter
                             ELSE IF c = hand THEN toHost ELSE NoReply]
<1>1. /\ hand \in Cmds /\ hand # NoCmd /\ inFlight = {}
      /\ \A q \in Cmds : waiter[q] # hand /\ waiter[q] \in Cmds \cup {NoCmd}
  BY NullAssumption DEF CustodyAll, CustodyInv, TypeOK, Run, Startable, PhaseInv
<1>2. \A q, r \in Cmds : waiter[q] = waiter[r] => waiter[q] = NoCmd \/ q = r
  BY <1>1 DEF CustodyAll, CustodyInv
<1>3. \A S : SendResults(AnswerAll(S, "confirmation_not_found")) => AnswersExactly(S)
  BY AnswerAllExactly DEF Results
<1>4. Expired \subseteq Cmds /\ \A q \in Cmds : q \in Expired <=> confirm[q] = "overdue"
  BY DEF Expired
<1>5. SendResults(answer(NoReply, NoReply)) => AnswersExactly(late)
  BY ReplyAssumption DEF SendResults, AnswersExactly, Results
<1>6. \A a, b \in Results : SendResults(answer(a, b)) => AnswersExactly(late \cup held \cup {hand})
  BY ReplyAssumption DEF SendResults, AnswersExactly, Results
<1>7. Undecided(p) => p \in Cmds /\ p \notin Expired /\ Waiting(Expired \cup {p}) = late \cup held
                      /\ late \cap held = {}
  BY <1>1, <1>2, <1>4 DEF Undecided, Waiting
<1>8. hand \notin late \cup held
  BY <1>1, <1>4 DEF Waiting
<1> HIDE DEF answer
<1>9. CASE Undecided(p) /\ Allowed(hand)
  <2>1. PICK verdict \in Verdicts(p) :
           /\ Unregister(Expired \cup {p})
           /\ IF verdict = "ok"
              THEN /\ inFlight' = inFlight \cup {hand} \cup held
                   /\ SendResults(answer(NoReply, NoReply))
              ELSE /\ SendResults(answer(ErrorOf(verdict), ErrorOf(verdict)))
                   /\ UNCHANGED inFlight
    BY <1>9 DEF RunResolve, answer
  <2>2. CASE verdict = "ok"
    <3>1. AnswersExactly(late) /\ inFlight' = {hand} \cup held
      BY <2>1, <2>2, <1>1, <1>5
    <3> QED
      BY <3>1, <2>1, <1>1, <1>4, <1>7, <1>8, <1>9, UnregisterHandled, SMTT(30)
  <2>3. CASE verdict # "ok"
    <3>1. AnswersExactly(late \cup held \cup {hand}) /\ UNCHANGED inFlight
      BY <2>1, <2>3, <1>6 DEF ErrorOf, Results
    <3> QED
      BY <3>1, <2>1, <1>1, <1>4, <1>7, <1>9, UnregisterHandled
  <2> QED
    BY <2>2, <2>3
<1>10. CASE Undecided(p) /\ ~Allowed(hand)
  <2>1. /\ Unregister(Expired \cup {p}) /\ UNCHANGED inFlight
        /\ AnswersExactly(late \cup held \cup {hand})
    BY <1>10, <1>6 DEF RunResolve, answer, Results
  <2> QED
    BY <2>1, <1>1, <1>4, <1>7, <1>10, UnregisterHandled
<1>11. CASE ~Undecided(p)
  <2>1. /\ Unregister(Expired) /\ UNCHANGED inFlight
        /\ AnswersExactly(late \cup {hand})
    BY <1>11, <1>3 DEF RunResolve
  <2> QED
    BY <2>1, <1>1, <1>4, UnregisterHandled
<1> QED
  BY <1>9, <1>10, <1>11

LEMMA RunCustody ==
  ASSUME CustodyAll, Run
  PROVE  CustodyInv' /\ NoAnswerLost'
<1>1. \E A, F : Handled(A, F)
  BY PlainHandled, ConfirmHandled, ResolveHandled DEF Run
<1> QED
  BY <1>1, HandledCustody

(* The flight lands as a whole, or goes on.                                 *)
LEMMA SettleAnswers ==
  ASSUME Settle
  PROVE  \/ AnswersExactly(inFlight) /\ inFlight' = {}
         \/ UNCHANGED <<sends, inFlight>>
<1>1. \A r \in Results : SendResults(AnswerAll(inFlight, r)) => AnswersExactly(inFlight)
  BY AnswerAllExactly
<1>2. \A sync : FinishOrDefer(sync) => \/ AnswersExactly(inFlight) /\ inFlight' = {}
                                       \/ UNCHANGED <<sends, inFlight>>
  BY <1>1 DEF FinishOrDefer, Results
<1>3. CASE SettleHidden
  BY <1>1, <1>2, <1>3 DEF SettleHidden, Results
<1>4. CASE ObserveSettle
  BY <1>2, <1>4 DEF ObserveSettle
<1> QED
  BY <1>3, <1>4 DEF Settle

LEMMA SettleCustody ==
  ASSUME CustodyAll, Settle
  PROVE  CustodyInv' /\ NoAnswerLost'
<1> USE DEF CustodyAll, CustodyInv
<1>1. UNCHANGED <<queue, life, hand, confirm, waiter>>
  BY DEF Settle
<1>2. CASE UNCHANGED <<sends, inFlight>>
  BY <1>1, <1>2 DEF NoAnswerLost, InQueue, HeldByUi
<1>3. CASE AnswersExactly(inFlight) /\ inFlight' = {}
  <2>1. \A c \in Cmds : sends'[c] = IF c \in inFlight THEN 1 ELSE sends[c]
    BY <1>3 DEF AnswersExactly
  <2>2. \A i \in DOMAIN queue : queue[i] \in Cmds /\ queue[i] \notin inFlight
    <3>1. \A i \in DOMAIN queue : queue[i] \in Cmds
      BY DEF TypeOK
    <3> QED
      BY <3>1
  <2>3. QueueInv'
    BY <1>1, <2>1, <2>2
  <2>4. HandInv' /\ FlightInv' /\ UnsentInv' /\ AtMostOneAnswer'
    BY <1>1, <1>3, <2>1
  <2>5. WaiterInv'
    BY <1>1, <1>3, <2>1
  <2>6. NoAnswerLost'
    BY <1>1, <1>3, <2>1 DEF NoAnswerLost, InQueue, HeldByUi
  <2> QED
    BY <2>3, <2>4, <2>5, <2>6
<1> QED
  BY <1>2, <1>3, SettleAnswers

LEMMA CloseWindowCustody ==
  ASSUME CustodyAll, CloseWindow
  PROVE  CustodyInv' /\ NoAnswerLost'
<1> USE DEF CustodyAll, CustodyInv
<1>1. /\ queue' = <<>> /\ inFlight' = {} /\ UNCHANGED <<hand, life>> /\ hand = NoCmd
      /\ Unregister(Registered) /\ NoCmd \notin Cmds
      /\ AnswersExactly(InQueue \cup inFlight \cup Waiting(Registered))
  BY ReplyAssumption, NullAssumption
     DEF CloseWindow, PhaseInv, SendResults, AnswersExactly, Results
<1>2. \A p \in Cmds : waiter'[p] = NoCmd
  <2> SUFFICES ASSUME NEW p \in Cmds PROVE waiter'[p] = NoCmd
    OBVIOUS
  <2>1. waiter[p] \in Cmds => p \in Registered
    BY DEF Registered
  <2>2. waiter'[p] = IF p \in Registered THEN NoCmd ELSE waiter[p]
    BY <1>1 DEF Unregister
  <2> QED
    BY <2>1, <2>2 DEF TypeOK
<1>3. \A c \in Parked : c \in Waiting(Registered)
  BY <1>1 DEF Parked, Waiting, Registered, TypeOK
<1>4. \A c \in InQueue \cup inFlight \cup Waiting(Registered) : c \in Cmds => sends[c] = 0 /\ life[c] # "unsent"
  BY DEF InQueue, Waiting, Registered
<1>5. \A c \in Cmds : sends'[c] = IF c \in InQueue \cup inFlight \cup Waiting(Registered)
                                  THEN 1 ELSE sends[c]
  BY <1>1, <1>4 DEF AnswersExactly
<1>6. QueueInv' /\ HandInv' /\ FlightInv' /\ WaiterInv'
  BY <1>1, <1>2
<1>7. UnsentInv' /\ AtMostOneAnswer'
  BY <1>1, <1>4, <1>5
<1>8. NoAnswerLost'
  <2> SUFFICES ASSUME NEW c \in Cmds, life'[c] \in {"pending", "started"}
               PROVE  sends'[c] # 0
    BY DEF NoAnswerLost
  <2>1. CASE sends[c] = 0
    <3>1. c \in InQueue \cup inFlight \cup Parked
      BY <2>1, <1>1 DEF NoAnswerLost, HeldByUi, Parked
    <3> QED
      BY <3>1, <1>3, <1>5
  <2>2. CASE sends[c] # 0
    BY <2>2, <1>5
  <2> QED
    BY <2>1, <2>2
<1> QED
  BY <1>6, <1>7, <1>8

LEMMA CustodyStep ==
  ASSUME CustodyAll, [Next]_vars
  PROVE  CustodyInv' /\ NoAnswerLost'
<1>1. CASE \/ \E c \in Cmds : \/ SubmitRefused(c) \/ PostWake(c) \/ RecvTimeout(c)
                              \/ TimeoutReply(c) \/ TtlElapses(c)
           \/ TreeChanges \/ SurfaceChanges \/ WokenTurn \/ OtherTurn \/ DrainBegin
           \/ DrainEnd \/ Skip \/ UNCHANGED vars
  BY <1>1, QuietSteps, QuietCustody DEF CustodyAll
<1>2. CASE \E c \in Cmds : SubmitAccepted(c)
  BY <1>2, SubmitCustody
<1>3. CASE CloseQueue \/ DrainPop \/ Run \/ Settle \/ CloseWindow
  BY <1>3, CloseCustody, PopCustody, RunCustody, SettleCustody, CloseWindowCustody
<1> QED
  BY <1>1, <1>2, <1>3 DEF Next, UiStep

-----------------------------------------------------------------------------
(* Effects, the closed window and the timeout code.                         *)

LEMMA EffectStep ==
  ASSUME CustodyAll, EffectInv, [Next]_vars
  PROVE  EffectInv'
<1> USE DEF EffectInv
<1>1. CASE \/ OutsideStep \/ WokenTurn \/ OtherTurn \/ DrainBegin \/ DrainPop \/ DrainEnd
           \/ Skip \/ Settle \/ UNCHANGED vars
  <2>1. UNCHANGED dispatched
    BY <1>1 DEF OutsideStep, SubmitRefused, SubmitAccepted, PostWake, RecvTimeout, TimeoutReply,
       TtlElapses, CloseQueue, TreeChanges, SurfaceChanges, WokenTurn, OtherTurn, DrainBegin,
       DrainPop, DrainEnd, Skip, Settle, vars
  <2>2. \A c \in Cmds : life[c] = "started" => life'[c] = "started"
    BY <1>1 DEF CustodyAll, TypeOK, OutsideStep, SubmitRefused, SubmitAccepted, Turn, PostWake, RecvTimeout,
       TimeoutReply, CancelPending, TtlElapses, CloseQueue, TreeChanges, SurfaceChanges, WokenTurn,
       OtherTurn, DrainBegin, DrainPop, DrainEnd, Skip, Settle, vars
  <2>3. \A c \in Cmds : confirm'[c] = confirm[c] \/ (confirm[c] = "open" /\ confirm'[c] = "overdue")
    BY <1>1 DEF CustodyAll, TypeOK, OutsideStep, SubmitRefused, SubmitAccepted, PostWake, RecvTimeout,
       TimeoutReply, TtlElapses, CloseQueue, TreeChanges, SurfaceChanges, WokenTurn,
       OtherTurn, DrainBegin, DrainPop, DrainEnd, Skip, Settle, vars
  <2> QED
    BY <2>1, <2>2, <2>3
<1>2. CASE CloseWindow
  BY <1>2 DEF CloseWindow, Unregister, Registered
<1>3. CASE Run
  <2>1. /\ hand \in Cmds /\ life[hand] = "pending"
        /\ \A c \in Cmds : life'[c] = IF c = hand THEN "started" ELSE life[c]
    BY <1>3 DEF CustodyAll, Run, Startable, PhaseInv, TypeOK
  <2>2. CASE RunSnapshot \/ RunScreenshot
    BY <2>1, <2>2 DEF RunSnapshot, RunScreenshot
  <2>3. CASE RunPerform
    <3>1. PICK verdict : Dispatch(hand, verdict) /\ UNCHANGED confirm
      BY <2>3 DEF RunPerform
    <3> QED
      BY <2>1, <3>1 DEF Dispatch, CustodyAll, TypeOK
  <2>4. CASE RunGuarded
    BY <2>1, <2>4 DEF RunGuarded, CustodyAll, TypeOK
  <2>5. CASE RunConfirm
    <3>1. UNCHANGED dispatched /\ \A c \in Cmds : \/ confirm'[c] = confirm[c]
                                                  \/ confirm'[c] = "gone" /\ confirm[c] # "none"
      BY <2>5 DEF RunConfirm, Unregister, Expired, Undecided
    <3> QED
      BY <2>1, <3>1
  <2>6. CASE RunResolve
    <3>1. CASE Undecided(Of(hand))
      <4>1. /\ Of(hand) \in Cmds /\ confirm[Of(hand)] = "open"
            /\ Unregister(Expired \cup {Of(hand)})
            /\ UNCHANGED dispatched \/ \E verdict : Dispatch(Of(hand), verdict)
        BY <2>6, <3>1 DEF RunResolve, Undecided
      <4>2. \A c \in Cmds : confirm'[c] = IF c \in Expired \cup {Of(hand)} THEN "gone" ELSE confirm[c]
        BY <4>1 DEF Unregister
      <4>3. \A c \in Cmds : c # Of(hand) => dispatched'[c] = dispatched[c]
        BY <4>1 DEF Dispatch, CustodyAll, TypeOK
      <4>4. dispatched[Of(hand)] = 0 /\ dispatched'[Of(hand)] \in {0, 1}
        BY <4>1 DEF Dispatch, CustodyAll, TypeOK
      <4>5. life[Of(hand)] = "started"
        BY <4>1
      <4> QED
        BY <2>1, <4>1, <4>2, <4>3, <4>4, <4>5 DEF Expired
    <3>2. CASE ~Undecided(Of(hand))
      BY <2>1, <2>6, <3>2 DEF RunResolve, Unregister, Expired
    <3> QED
      BY <3>1, <3>2
  <2> QED
    BY <1>3, <2>2, <2>3, <2>4, <2>5, <2>6 DEF Run
<1> QED
  BY <1>1, <1>2, <1>3, NextSplit DEF UiStep

LEMMA ClosedStep ==
  ASSUME CustodyAll, ClosedInv, [Next]_vars
  PROVE  ClosedInv'
<1> USE DEF ClosedInv
<1>1. CASE OutsideStep \/ UNCHANGED vars
  BY <1>1, OutsideKeepsUi DEF OutsideStep, SubmitRefused, SubmitAccepted, PostWake, RecvTimeout,
     TimeoutReply, TtlElapses, CloseQueue, TreeChanges, SurfaceChanges, vars
<1>2. CASE WokenTurn \/ OtherTurn \/ DrainBegin \/ DrainPop \/ DrainEnd \/ Skip
  BY <1>2 DEF WokenTurn, OtherTurn, DrainBegin, DrainPop, DrainEnd, Skip
<1>3. CASE Run
  BY <1>3 DEF Run, NextEnvelope
<1>4. CASE Settle
  BY <1>4 DEF Settle, EndTurn
<1>5. CASE CloseWindow
  <2>1. \A p \in Cmds : waiter[p] = NoCmd \/ p \in Registered
    BY DEF CustodyAll, CustodyInv, Registered, TypeOK
  <2> QED
    BY <1>5, <2>1 DEF CloseWindow, Unregister
<1> QED
  BY <1>1, <1>2, <1>3, <1>4, <1>5, NextSplit DEF UiStep

LEMMA TimeoutStep ==
  ASSUME CustodyAll, TimeoutInv, [Next]_vars
  PROVE  TimeoutInv'
<1> USE DEF TimeoutInv
<1>1. CASE \E c \in Cmds : SubmitRefused(c) \/ SubmitAccepted(c) \/ RecvTimeout(c)
  BY <1>1 DEF SubmitRefused, SubmitAccepted, RecvTimeout, CustodyAll, TypeOK
<1>2. CASE \E c \in Cmds : TimeoutReply(c)
  BY <1>2 DEF TimeoutReply, CancelPending, CustodyAll, TypeOK
<1>3. CASE Run
  BY <1>3 DEF Run, Startable, CustodyAll, TypeOK
<1>4. CASE \/ \E c \in Cmds : PostWake(c) \/ TtlElapses(c)
           \/ CloseQueue \/ TreeChanges \/ SurfaceChanges \/ WokenTurn \/ OtherTurn \/ DrainBegin
           \/ DrainPop \/ DrainEnd \/ Skip \/ Settle \/ CloseWindow \/ UNCHANGED vars
  BY <1>4 DEF PostWake, TtlElapses, CloseQueue, TreeChanges, SurfaceChanges, WokenTurn, OtherTurn,
     DrainBegin, DrainPop, DrainEnd, Skip, Settle, CloseWindow, vars
<1> QED
  BY <1>1, <1>2, <1>3, <1>4 DEF Next, UiStep

-----------------------------------------------------------------------------
(* The theorems.                                                            *)

LEMMA Inductive == Spec => []IInv
<1>1. Init => IInv
  <2> SUFFICES ASSUME Init PROVE IInv
    OBVIOUS
  <2>1. DOMAIN queue = {}
    BY DEF Init
  <2>2. TypeOK /\ PhaseInv
    BY TypeInit, NullAssumption DEF Init, PhaseInv
  <2>3. CustodyInv
    BY <2>1, NullAssumption DEF Init, CustodyInv
  <2>4. NoAnswerLost /\ EffectInv /\ ClosedInv /\ TimeoutInv
    BY DEF Init, NoAnswerLost, EffectInv, ClosedInv, TimeoutInv
  <2> QED
    BY <2>2, <2>3, <2>4 DEF IInv
<1>2. IInv /\ [Next]_vars => IInv'
  <2> SUFFICES ASSUME IInv, [Next]_vars PROVE IInv'
    OBVIOUS
  <2>1. CustodyAll /\ EffectInv /\ ClosedInv /\ TimeoutInv
    BY DEF IInv, CustodyAll
  <2> QED
    BY <2>1, TypeStep, PhaseStep, CustodyStep, EffectStep, ClosedStep, TimeoutStep
       DEF IInv, CustodyAll
<1> QED
  BY <1>1, <1>2, PTL DEF Spec

(* No ticket is answered twice: the UI thread never blocks on a response    *)
(* channel that already holds its one message.                              *)
THEOREM OneAnswer == Spec => []AtMostOneAnswer
<1>1. IInv => AtMostOneAnswer
  BY DEF IInv, CustodyInv
<1> QED
  BY <1>1, Inductive, PTL

(* No sender is dropped between the queue and an answer: expiry, rejection, *)
(* settling and closing hand every started command on or answer it.         *)
THEOREM AnswersKept == Spec => []NoAnswerLost
<1>1. IInv => NoAnswerLost
  BY DEF IInv
<1> QED
  BY <1>1, Inductive, PTL

(* What a connection withdrew leaves no trace, and an action reported as    *)
(* timed out has not run: try_start and cancel_pending exclude each other.  *)
THEOREM WithdrawalHonoured == Spec => []WithdrawnNeverRuns
<1>1. IInv => WithdrawnNeverRuns
  BY DEF IInv, WithdrawnNeverRuns, EffectInv, TimeoutInv, CustodyInv
<1> QED
  BY <1>1, Inductive, PTL

(* However many confirms and decisions name one guarded action, it reaches  *)
(* the tree at most once.                                                   *)
THEOREM OneDispatch == Spec => []DispatchedOnce
<1>1. IInv => DispatchedOnce
  BY DEF IInv, EffectInv, DispatchedOnce
<1> QED
  BY <1>1, Inductive, PTL

(* WindowAgentState::close leaves no accepted command without its answer.   *)
THEOREM CloseAnswers == Spec => []ClosedAnswersAll
<1>1. IInv => ClosedAnswersAll
  <2> SUFFICES ASSUME IInv, ui = "gone", NEW c \in Cmds, life[c] \in {"pending", "started"}
               PROVE  sends[c] = 1
    BY DEF ClosedAnswersAll
  <2>1. sends[c] \in {0, 1}
    BY DEF IInv, CustodyInv, TypeOK
  <2>2. queue = <<>> /\ inFlight = {} /\ hand = NoCmd /\ \A p \in Cmds : waiter[p] = NoCmd
    BY DEF IInv, ClosedInv, PhaseInv
  <2>3. ~(c \in InQueue \/ HeldByUi(c))
    BY <2>2, NullAssumption DEF InQueue, HeldByUi
  <2> QED
    BY <2>1, <2>3 DEF IInv, NoAnswerLost
<1> QED
  BY <1>1, Inductive, PTL

(* A guarded action runs only on the decision of the user that names it.    *)
THEOREM UserDecides == Spec => []GuardedNeedsUser
<1>1. Init => GuardedNeedsUser
  BY DEF Init, GuardedNeedsUser
<1>2. IInv /\ GuardedNeedsUser /\ [Next]_vars => GuardedNeedsUser'
  <2> SUFFICES ASSUME IInv, GuardedNeedsUser, [Next]_vars, NEW c \in Cmds,
                      Op(c) = "guarded", dispatched'[c] > 0
               PROVE  \E r \in Cmds : /\ Op(r) = "resolve" /\ Of(r) = c
                                      /\ Req[r].allow /\ life'[r] = "started"
    BY DEF GuardedNeedsUser
  <2>1. \A r \in Cmds : life[r] = "started" => life'[r] = "started"
    BY NextSplit, SMTT(30) DEF IInv, TypeOK, OutsideStep, UiStep, SubmitRefused, SubmitAccepted,
       Turn, PostWake, RecvTimeout, TimeoutReply, CancelPending, TtlElapses, CloseQueue, TreeChanges,
       SurfaceChanges, WokenTurn, OtherTurn, DrainBegin, DrainPop, DrainEnd, Skip, Settle, CloseWindow,
       Run, vars
  <2>2. CASE dispatched[c] > 0
    BY <2>1, <2>2 DEF GuardedNeedsUser
  <2>3. CASE ~(dispatched[c] > 0)
    <3>1. Run
      BY <2>3, NextSplit DEF OutsideStep, UiStep, SubmitRefused, SubmitAccepted, PostWake,
         RecvTimeout, TimeoutReply, TtlElapses, CloseQueue, TreeChanges, SurfaceChanges, WokenTurn,
         OtherTurn, DrainBegin, DrainPop, DrainEnd, Skip, Settle, CloseWindow, vars
    <3>2. hand \in Cmds /\ life'[hand] = "started"
      BY <3>1 DEF IInv, PhaseInv, Run, TypeOK
    <3>3. c # hand \/ Op(hand) \notin DirectOps
      BY DEF DirectOps
    <3>4. CASE RunPerform
      BY <2>3, <3>2, <3>3, <3>4 DEF RunPerform, Dispatch, IInv, TypeOK
    <3>5. CASE RunResolve
      <4>1. Undecided(Of(hand)) /\ Allowed(hand) /\ Op(hand) = "resolve"
            /\ \E verdict : Dispatch(Of(hand), verdict)
        BY <2>3, <3>5 DEF RunResolve
      <4>2. Of(hand) = c
        BY <2>3, <4>1 DEF Dispatch, IInv, TypeOK
      <4> QED
        BY <3>2, <4>1, <4>2 DEF Allowed
    <3> QED
      BY <2>3, <3>1, <3>4, <3>5 DEF Run, RunSnapshot, RunGuarded, RunScreenshot, RunConfirm
  <2> QED
    BY <2>2, <2>3
<1> QED
  BY <1>1, <1>2, Inductive, PTL DEF Spec

(* While an action settles no other command starts.                         *)
THEOREM Barrier == Spec => SettleBarrier
<1>1. IInv /\ [Next]_vars
        => [inFlight # {} => \A c \in Cmds : life[c] = "pending" => life'[c] # "started"]_vars
  <2> SUFFICES ASSUME IInv, [Next]_vars, inFlight # {}, NEW c \in Cmds,
                      life[c] = "pending", life'[c] = "started"
               PROVE  FALSE
    OBVIOUS
  <2>1. Run
    BY NextSplit DEF IInv, TypeOK, OutsideStep, UiStep, SubmitRefused, SubmitAccepted, Turn, PostWake,
       RecvTimeout, TimeoutReply, CancelPending, TtlElapses, CloseQueue, TreeChanges, SurfaceChanges,
       WokenTurn, OtherTurn, DrainBegin, DrainPop, DrainEnd, Skip, Settle, CloseWindow, vars
  <2> QED
    BY <2>1 DEF Run, IInv, PhaseInv
<1> QED
  BY <1>1, Inductive, PTL DEF Spec, SettleBarrier

(* The event loop never blocks on queued work that nobody will announce.    *)
THEOREM WakeKept == Spec => []NoLostWake
<1>1. Init => NoLostWake
  BY DEF Init, NoLostWake
<1>2. NoLostWake /\ [Next]_vars => NoLostWake'
  <2> SUFFICES ASSUME NoLostWake, [Next]_vars PROVE NoLostWake'
    OBVIOUS
  <2> USE DEF NoLostWake
  <2>1. CASE \E c \in Cmds : SubmitAccepted(c)
    <3> PICK c \in Cmds : SubmitAccepted(c)
      BY <2>1
    <3>1. /\ ui' = ui /\ wakeup' = wakeup
          /\ owesWake' = IF queue = <<>> THEN owesWake \cup {c} ELSE owesWake
      BY DEF SubmitAccepted, WasEmpty
    <3> QED
      BY <3>1
  <2>2. CASE \/ \E c \in Cmds : SubmitRefused(c) \/ PostWake(c) \/ RecvTimeout(c)
                                \/ TimeoutReply(c) \/ TtlElapses(c)
             \/ CloseQueue \/ TreeChanges \/ SurfaceChanges \/ UNCHANGED vars
    BY <2>2 DEF SubmitRefused, PostWake, RecvTimeout, TimeoutReply, TtlElapses, CloseQueue,
       TreeChanges, SurfaceChanges, vars
  <2>3. CASE WokenTurn \/ OtherTurn \/ DrainBegin \/ DrainPop \/ DrainEnd \/ Skip \/ CloseWindow
    BY <2>3 DEF WokenTurn, OtherTurn, DrainBegin, DrainPop, DrainEnd, Skip, CloseWindow
  <2>4. CASE Run
    BY <2>4 DEF Run, NextEnvelope
  <2>5. CASE Settle
    BY <2>5 DEF Settle, EndTurn
  <2> QED
    BY <2>1, <2>2, <2>3, <2>4, <2>5 DEF Next, UiStep
<1> QED
  BY <1>1, <1>2, PTL DEF Spec

(* A step that reaches the tree for a command is one of the two handlers.   *)
LEMMA DispatchSteps ==
  ASSUME TypeOK, PhaseInv, [Next]_vars, NEW c \in Cmds, dispatched'[c] # dispatched[c]
  PROVE  \E verdict \in Verdicts(c) :
            /\ Dispatch(c, verdict)
            /\ RunPerform \/ (RunResolve /\ Undecided(c))
<1>1. Run
  BY NextSplit DEF OutsideStep, UiStep, SubmitRefused, SubmitAccepted, PostWake,
     RecvTimeout, TimeoutReply, TtlElapses, CloseQueue, TreeChanges, SurfaceChanges, WokenTurn,
     OtherTurn, DrainBegin, DrainPop, DrainEnd, Skip, Settle, CloseWindow, vars
<1>2. CASE RunPerform
  <2>1. PICK verdict \in Verdicts(hand) : Dispatch(hand, verdict)
    BY <1>2 DEF RunPerform
  <2>2. c = hand
    BY <2>1 DEF Dispatch, TypeOK
  <2> QED
    BY <1>2, <2>1, <2>2
<1>3. CASE RunResolve
  <2>1. PICK verdict \in Verdicts(Of(hand)) : Dispatch(Of(hand), verdict) /\ Undecided(Of(hand))
    BY <1>3 DEF RunResolve
  <2>2. c = Of(hand)
    BY <2>1 DEF Dispatch, TypeOK
  <2> QED
    BY <1>3, <2>1, <2>2
<1> QED
  BY <1>1, <1>2, <1>3 DEF Run, RunSnapshot, RunGuarded, RunScreenshot, RunConfirm

(* An action reaches the tree at the revision its command expected, at once *)
(* or when the user approves it turns later; and never on a late approval.  *)
THEOREM DispatchConditions == Spec => FreshDispatch /\ ApprovalWithinTtl
<1>1. IInv /\ [Next]_vars
        => /\ [\A c \in Cmds : dispatched'[c] > dispatched[c] => expect[c] \in {AnyRev, rev'}]_vars
           /\ [\A c \in Cmds : confirm[c] = "overdue" => dispatched'[c] = dispatched[c]]_vars
  <2> SUFFICES ASSUME IInv, [Next]_vars, NEW c \in Cmds, dispatched'[c] # dispatched[c]
               PROVE  expect[c] \in {AnyRev, rev'} /\ confirm[c] # "overdue"
    BY DEF IInv, TypeOK
  <2>1. PICK verdict \in Verdicts(c) :
           Dispatch(c, verdict) /\ (RunPerform \/ (RunResolve /\ Undecided(c)))
    BY DispatchSteps DEF IInv
  <2>2. verdict # "stale_revision"
    BY <2>1 DEF Dispatch, IInv, TypeOK
  <2>3. expect[c] \in {AnyRev, rev'}
    BY <2>1, <2>2 DEF Verdicts, StaleFor, Dispatch, RefreshTree
  <2>4. CASE RunPerform
    <3>1. PICK v : Dispatch(hand, v)
      BY <2>4 DEF RunPerform
    <3>2. c = hand
      BY <3>1 DEF Dispatch, IInv, TypeOK
    <3>3. UNCHANGED confirm /\ Op(hand) # "guarded"
      BY <2>4 DEF RunPerform, DirectOps
    <3> QED
      BY <2>3, <3>2, <3>3 DEF IInv, EffectInv
  <2>5. CASE RunResolve /\ Undecided(c)
    BY <2>3, <2>5 DEF Undecided
  <2> QED
    BY <2>1, <2>4, <2>5
<1> QED
  BY <1>1, Inductive, PTL DEF Spec, FreshDispatch, ApprovalWithinTtl
-----------------------------------------------------------------------------
(* The contract with the clients.  TruthInv relates what was answered to    *)
(* what was done: a registered action was answered requires_confirmation;   *)
(* one that somebody was told is refused is not done and will not be; what  *)
(* is in flight asked for an action that was done.                          *)

Registers(p) == confirm[p] \in {"open", "overdue"}

TruthInv ==
  /\ \A p \in Cmds : Registers(p) => sends[p] = 1 /\ reply[p] = "requires_confirmation"
  /\ \A c \in Cmds : reply[c] \in Contract!Refusals =>
       LET p == Contract!Subject(c) IN
       p \in Cmds /\ life[p] = "started" /\ dispatched[p] = 0 /\ ~Registers(p)
  /\ \A c \in inFlight : Contract!AsksFor(c) =>
       Contract!Subject(c) \in Cmds /\ dispatched[Contract!Subject(c)] = 1
  /\ \A p \in Cmds : waiter[p] \in Cmds => Op(waiter[p]) = "confirm"

(* Nobody is told anything.                                                 *)
Silent == [c \in Cmds |-> NoReply]

LEMMA SilentIs ==
  ASSUME TypeOK, UNCHANGED replyVars
  PROVE  Silent \in Answers /\ SendResults(Silent)
BY DEF TypeOK, SendResults, Silent, Answers

(* What a channel holds after a step that sends.                            *)
LEMMA AfterSend ==
  ASSUME NEW A \in Answers, SendResults(A), NEW c \in Cmds
  PROVE  /\ A[c] = NoReply => reply'[c] = reply[c] /\ sends'[c] = sends[c]
         /\ A[c] # NoReply => reply'[c] = A[c] /\ sends'[c] = sends[c] + 1
                              /\ A[c] \in Results
BY DEF SendResults, Answers

LEMMA AllTold ==
  ASSUME NEW S, NEW r \in Results, NEW c \in Cmds
  PROVE  AnswerAll(S, r)[c] = IF c \in S THEN r ELSE NoReply
BY DEF AnswerAll

(* Messages to unanswered commands that are entitled to them and that are   *)
(* honest are an answer of the contract.                                    *)
LEMMA Told ==
  ASSUME TypeOK, AtMostOneAnswer, NEW A \in Answers, SendResults(A),
         \A c \in Cmds : A[c] # NoReply =>
            /\ sends[c] = 0 /\ Contract!Honest(c, A[c])
            /\ life'[c] = "started" \/ (life[c] # "unsent" /\ A[c] = "app_closed")
  PROVE  Contract!Answer
<1>1. sends' \in [Cmds -> {0, 1}] /\ reply' \in [Cmds -> Results \cup {NoReply}]
  <2>1. \A c \in Cmds : sends'[c] \in {0, 1}
    <3> SUFFICES ASSUME NEW c \in Cmds PROVE sends'[c] \in {0, 1}
      OBVIOUS
    <3>1. CASE A[c] = NoReply
      <4>1. sends'[c] = sends[c] /\ sends[c] \in Nat /\ sends[c] <= 1
        BY <3>1, AfterSend DEF TypeOK
      <4> QED
        BY <4>1
    <3>2. CASE A[c] # NoReply
      <4>1. sends'[c] = sends[c] + 1 /\ sends[c] = 0
        BY <3>2, AfterSend
      <4> QED
        BY <4>1
    <3> QED
      BY <3>1, <3>2
  <2>2. sends' \in [Cmds -> Nat] /\ reply' \in Answers
    BY SendType
  <2> QED
    BY <2>1, <2>2 DEF Answers
<1>2. ASSUME NEW c \in Cmds, A[c] = NoReply
      PROVE  sends'[c] = sends[c] /\ reply'[c] = reply[c]
  BY <1>2, AfterSend
<1>3. ASSUME NEW c \in Cmds, A[c] # NoReply
      PROVE  /\ sends[c] = 0 /\ sends'[c] = 1 /\ reply'[c] = A[c] /\ A[c] \in Results
             /\ Contract!Honest(c, A[c])
             /\ life'[c] = "started" \/ (life[c] # "unsent" /\ A[c] = "app_closed")
  BY <1>3, AfterSend
<1>4. ASSUME NEW c \in Cmds
      PROVE  \/ UNCHANGED <<sends[c], reply[c]>>
             \/ /\ sends[c] = 0 /\ sends'[c] = 1
                /\ reply'[c] \in Results /\ Contract!Honest(c, reply'[c])
                /\ \/ life'[c] = "started"
                   \/ life[c] # "unsent" /\ reply'[c] = "app_closed"
  <2>1. CASE A[c] = NoReply
    BY <1>2, <2>1
  <2>2. CASE A[c] # NoReply
    <3>1. reply'[c] = A[c]
      BY <1>3, <2>2
    <3>2. Contract!Honest(c, reply'[c])
      BY <1>3, <2>2, <3>1
    <3> QED
      BY <1>3, <2>2, <3>1, <3>2
  <2> QED
    BY <2>1, <2>2
<1> QED
  BY <1>1, <1>4 DEF Contract!Answer

(* Steps that tell nobody anything and reach no tree.                       *)
LEMMA QuietTruth ==
  ASSUME TypeOK, TruthInv, UNCHANGED <<reply, sends, dispatched, inFlight, waiter>>,
         \A c \in Cmds : life[c] = "started" => life'[c] = "started",
         \A p \in Cmds : confirm'[p] = confirm[p] \/ (confirm[p] = "open" /\ confirm'[p] = "overdue")
  PROVE  TruthInv'
<1>1. \A p \in Cmds : Registers(p)' <=> Registers(p)
  BY DEF Registers
<1> QED
  BY <1>1 DEF TruthInv, Contract!Subject, Contract!AsksFor, Contract!Refusals

(* Steps that answer but refuse nothing, and register nothing.              *)
LEMMA AnsweringTruth ==
  ASSUME TypeOK, TruthInv, NEW A \in Answers, SendResults(A),
         \A c \in Cmds : A[c] # NoReply => sends[c] = 0 /\ A[c] \notin Contract!Refusals,
         UNCHANGED <<life, dispatched>>, inFlight' \subseteq inFlight,
         \A p \in Cmds : waiter'[p] \in {waiter[p], NoCmd},
         \A p \in Cmds : Registers(p)' => Registers(p)
  PROVE  TruthInv'
<1>1. ASSUME NEW p \in Cmds, Registers(p)'
      PROVE  sends'[p] = 1 /\ reply'[p] = "requires_confirmation"
  <2>1. sends[p] = 1 /\ reply[p] = "requires_confirmation"
    BY <1>1 DEF TruthInv
  <2>2. A[p] = NoReply
    BY <2>1
  <2> QED
    BY <2>1, <2>2, AfterSend
<1>2. ASSUME NEW c \in Cmds, reply'[c] \in Contract!Refusals
      PROVE  LET p == Contract!Subject(c) IN
             p \in Cmds /\ life'[p] = "started" /\ dispatched'[p] = 0 /\ ~Registers(p)'
  <2>1. A[c] = NoReply /\ reply'[c] = reply[c]
    BY <1>2, AfterSend
  <2>2. LET p == Contract!Subject(c) IN
        p \in Cmds /\ life[p] = "started" /\ dispatched[p] = 0 /\ ~Registers(p)
    BY <1>2, <2>1 DEF TruthInv
  <2> QED
    BY <2>2
<1>3. \A c \in inFlight' : Contract!AsksFor(c) =>
        Contract!Subject(c) \in Cmds /\ dispatched'[Contract!Subject(c)] = 1
  BY DEF TruthInv
<1>4. \A p \in Cmds : waiter'[p] \in Cmds => Op(waiter'[p]) = "confirm"
  BY NullAssumption DEF TruthInv
<1> QED
  BY <1>1, <1>2, <1>3, <1>4 DEF TruthInv, Contract!Subject, Contract!AsksFor, Contract!Refusals

-----------------------------------------------------------------------------
(* The steps outside the UI thread's handlers.                              *)

QuietStep ==
  \/ \E c \in Cmds : \/ SubmitRefused(c) \/ SubmitAccepted(c) \/ PostWake(c)
                     \/ RecvTimeout(c) \/ TimeoutReply(c) \/ TtlElapses(c)
  \/ TreeChanges \/ SurfaceChanges \/ WokenTurn \/ OtherTurn \/ DrainBegin \/ DrainPop
  \/ DrainEnd \/ Skip \/ UNCHANGED vars

LEMMA QuietContract ==
  ASSUME TypeOK, TruthInv, QuietStep
  PROVE  TruthInv' /\ [Contract!Next]_(Contract!contractVars)
<1>1. UNCHANGED <<reply, sends, dispatched, inFlight, waiter>>
  BY DEF QuietStep, SubmitRefused, SubmitAccepted, PostWake, RecvTimeout, TimeoutReply,
     TtlElapses, TreeChanges, SurfaceChanges, WokenTurn, OtherTurn, DrainBegin, DrainPop,
     DrainEnd, Skip, vars
<1>2. \/ UNCHANGED life
      \/ \E c \in Cmds : life[c] = "unsent" /\ life' = [life EXCEPT ![c] = "pending"]
      \/ \E c \in Cmds : life[c] = "pending" /\ life' = [life EXCEPT ![c] = "cancelled"]
  <2>1. ASSUME NEW c \in Cmds, SubmitAccepted(c)
        PROVE  life[c] = "unsent" /\ life' = [life EXCEPT ![c] = "pending"]
    BY <2>1 DEF SubmitAccepted, Turn
  <2>2. ASSUME NEW c \in Cmds, TimeoutReply(c)
        PROVE  UNCHANGED life \/ (life[c] = "pending" /\ life' = [life EXCEPT ![c] = "cancelled"])
    BY <2>2 DEF TimeoutReply, CancelPending, TypeOK
  <2>3. ASSUME ~\E c \in Cmds : SubmitAccepted(c) \/ TimeoutReply(c) PROVE UNCHANGED life
    BY <2>3 DEF QuietStep, SubmitRefused, PostWake, RecvTimeout,
       TtlElapses, TreeChanges, SurfaceChanges, WokenTurn, OtherTurn, DrainBegin, DrainPop,
       DrainEnd, Skip, vars
  <2> QED
    BY <2>1, <2>2, <2>3
<1>3. \A p \in Cmds : confirm'[p] = confirm[p] \/ (confirm[p] = "open" /\ confirm'[p] = "overdue")
  BY DEF TypeOK, QuietStep, SubmitRefused, SubmitAccepted, PostWake, RecvTimeout, TimeoutReply,
     TtlElapses, TreeChanges, SurfaceChanges, WokenTurn, OtherTurn, DrainBegin, DrainPop,
     DrainEnd, Skip, vars
<1>4. \A c \in Cmds : life[c] = "started" => life'[c] = "started"
  BY <1>2 DEF TypeOK
<1>5. TruthInv'
  BY <1>1, <1>3, <1>4, QuietTruth
<1>6. [Contract!Next]_(Contract!contractVars)
  BY <1>1, <1>2 DEF Contract!Next, Contract!Submit, Contract!Withdraw, Contract!contractVars
<1> QED
  BY <1>5, <1>6

LEMMA CloseContract ==
  ASSUME CustodyAll, TruthInv, CloseQueue
  PROVE  TruthInv' /\ Contract!Next
<1> DEFINE A == AnswerAll(InQueue, "app_closed")
<1>1. A \in Answers /\ \A c \in Cmds : A[c] = IF c \in InQueue THEN "app_closed" ELSE NoReply
  BY AnswerAllType, AllTold DEF Results
<1>2. /\ SendResults(A)
      /\ UNCHANGED <<life, dispatched, inFlight, waiter, confirm>>
  BY DEF CloseQueue
<1>3. \A c \in InQueue : sends[c] = 0 /\ life[c] # "unsent"
  BY DEF CustodyAll, CustodyInv, InQueue
<1> HIDE DEF A
<1>4. \A c \in Cmds : A[c] # NoReply => /\ sends[c] = 0 /\ life[c] # "unsent" /\ A[c] = "app_closed"
  BY <1>1, <1>3
<1>5. TruthInv'
  BY <1>1, <1>2, <1>4, AnsweringTruth DEF CustodyAll, Registers, Contract!Refusals
<1>6. Contract!Answer
  <2>1. \A c \in Cmds : A[c] # NoReply => Contract!Honest(c, A[c])
    BY <1>4 DEF Contract!Honest, Contract!Done, Contract!Refusals
  <2> QED
    BY <1>1, <1>2, <1>4, <2>1, Told DEF CustodyAll, CustodyInv
<1> QED
  BY <1>2, <1>5, <1>6 DEF Contract!Next

(* What settling tells the flight is true of each command in it.            *)
LEMMA LandingContract ==
  ASSUME CustodyAll, TruthInv, UNCHANGED <<life, dispatched, waiter, confirm>>,
         NEW r \in {"performed", "did_not_settle", "not_presentable"},
         SendResults(AnswerAll(inFlight, r)), inFlight' = {}
  PROVE  TruthInv' /\ Contract!Next
<1> DEFINE A == AnswerAll(inFlight, r)
<1>1. A \in Answers /\ \A c \in Cmds : A[c] = IF c \in inFlight THEN r ELSE NoReply
  BY AnswerAllType, AllTold DEF Results
<1>2. SendResults(A)
  OBVIOUS
<1>3. \A c \in inFlight : sends[c] = 0 /\ life[c] = "started"
  BY DEF CustodyAll, CustodyInv
<1> HIDE DEF A
<1>4. \A c \in Cmds : A[c] # NoReply => c \in inFlight /\ sends[c] = 0 /\ life'[c] = "started" /\ A[c] = r
  BY <1>1, <1>3
<1>5. TruthInv'
  BY <1>1, <1>2, <1>4, AnsweringTruth DEF CustodyAll, Registers, Contract!Refusals
<1>6. Contract!Answer
  <2>1. ASSUME NEW c \in Cmds, A[c] # NoReply PROVE Contract!Honest(c, A[c])
    <3>1. c \in inFlight /\ A[c] = r
      BY <1>4, <2>1
    <3>2. Contract!AsksFor(c) => Contract!Subject(c) \in Cmds /\ dispatched'[Contract!Subject(c)] = 1
      BY <3>1 DEF TruthInv
    <3> QED
      BY <3>1, <3>2 DEF Contract!Honest, Contract!Refusals
  <2> QED
    BY <1>1, <1>2, <1>4, <2>1, Told DEF CustodyAll, CustodyInv
<1> QED
  BY <1>5, <1>6 DEF Contract!Next

LEMMA SettleContract ==
  ASSUME CustodyAll, TruthInv, Settle
  PROVE  TruthInv' /\ [Contract!Next]_(Contract!contractVars)
<1>1. UNCHANGED <<life, dispatched, waiter, confirm>>
  BY DEF Settle
<1>2. \/ \E r \in {"performed", "did_not_settle", "not_presentable"} :
            SendResults(AnswerAll(inFlight, r)) /\ inFlight' = {}
      \/ UNCHANGED <<reply, sends, inFlight>>
  <2>1. \A sync : FinishOrDefer(sync) =>
           \/ \E r \in {"performed", "did_not_settle"} :
                 SendResults(AnswerAll(inFlight, r)) /\ inFlight' = {}
           \/ UNCHANGED <<reply, sends, inFlight>>
    BY DEF FinishOrDefer
  <2>2. CASE SettleHidden
    BY <2>1, <2>2 DEF SettleHidden
  <2>3. CASE ObserveSettle
    BY <2>1, <2>3 DEF ObserveSettle
  <2> QED
    BY <2>2, <2>3 DEF Settle
<1>3. CASE UNCHANGED <<reply, sends, inFlight>>
  BY <1>1, <1>3, QuietTruth DEF CustodyAll, Contract!contractVars
<1> QED
  BY <1>1, <1>2, <1>3, LandingContract

LEMMA CloseWindowContract ==
  ASSUME CustodyAll, TruthInv, CloseWindow
  PROVE  TruthInv' /\ Contract!Next
<1> DEFINE A == [c \in Cmds |-> IF c \in InQueue \cup inFlight THEN "app_closed"
                                ELSE IF c \in Waiting(Registered) THEN "confirmation_not_found"
                                ELSE NoReply]
<1>1. A \in Answers
  BY DEF Answers, Results
<1>2. /\ SendResults(A) /\ Unregister(Registered)
      /\ UNCHANGED <<life, dispatched>> /\ inFlight' = {}
  BY DEF CloseWindow
<1>3. \A c \in InQueue \cup inFlight : sends[c] = 0 /\ life[c] # "unsent"
  BY DEF CustodyAll, CustodyInv, InQueue
<1>4. \A c \in Waiting(Registered) : c \in Cmds => sends[c] = 0 /\ life[c] = "started"
  BY DEF CustodyAll, CustodyInv, Waiting, Registered
<1>5. ASSUME NEW c \in Cmds, A[c] # NoReply
      PROVE  /\ sends[c] = 0 /\ A[c] \in {"app_closed", "confirmation_not_found"}
             /\ life'[c] = "started" \/ (life[c] # "unsent" /\ A[c] = "app_closed")
  BY <1>2, <1>3, <1>4, <1>5
<1> HIDE DEF A
<1>6. TruthInv'
  <2>1. \A p \in Cmds : waiter'[p] \in {waiter[p], NoCmd}
    BY <1>2 DEF Unregister
  <2>2. \A p \in Cmds : ~Registers(p)'
    BY <1>2 DEF Unregister, Registered, Registers
  <2>3. \A c \in Cmds : A[c] # NoReply => sends[c] = 0 /\ A[c] \notin Contract!Refusals
    BY <1>5 DEF Contract!Refusals
  <2> QED
    BY <1>1, <1>2, <2>1, <2>2, <2>3, AnsweringTruth DEF CustodyAll
<1>7. Contract!Answer
  <2>1. \A c \in Cmds : A[c] # NoReply => Contract!Honest(c, A[c])
    BY <1>5 DEF Contract!Honest, Contract!Done, Contract!Refusals
  <2> QED
    BY <1>1, <1>2, <1>5, <2>1, Told DEF CustodyAll, CustodyInv
<1> QED
  BY <1>2, <1>6, <1>7 DEF Contract!Next

-----------------------------------------------------------------------------
(* A command that runs.                                                     *)

LEMMA RunsFirst ==
  ASSUME CustodyAll, Run
  PROVE  /\ hand \in Cmds /\ life[hand] = "pending" /\ sends[hand] = 0 /\ inFlight = {}
         /\ life' = [life EXCEPT ![hand] = "started"]
         /\ life'[hand] = "started" /\ \A c \in Cmds : life[c] = "started" => life'[c] = "started"
BY DEF CustodyAll, CustodyInv, PhaseInv, Run, Startable, TypeOK

(* What a command does to the tree is within what it may do, and every      *)
(* message is due, so it is a start of the contract.                        *)
LEMMA StartOf ==
  ASSUME CustodyAll, Run, NEW A \in Answers, SendResults(A),
         \A c \in Cmds : A[c] # NoReply =>
            sends[c] = 0 /\ Contract!Honest(c, A[c]) /\ life'[c] = "started",
         \/ UNCHANGED dispatched
         \/ \E p \in Cmds : Contract!MayDo(hand, p) /\ dispatched' = [dispatched EXCEPT ![p] = 1]
  PROVE  Contract!Next
<1>1. Contract!Answer
  BY Told DEF CustodyAll, CustodyInv
<1> QED
  BY <1>1, RunsFirst DEF Contract!Next, Contract!Start

(* An action that reaches the tree for the first time.                      *)
LEMMA DispatchIs ==
  ASSUME TypeOK, NEW p \in Cmds, dispatched[p] = 0, NEW v, Dispatch(p, v)
  PROVE  /\ v \in {"failed", "ok"} => dispatched' = [dispatched EXCEPT ![p] = 1] /\ dispatched'[p] = 1
         /\ v \notin {"failed", "ok"} => UNCHANGED dispatched
<1>1. dispatched \in [Cmds -> Nat]
  BY DEF TypeOK
<1>2. v \in {"failed", "ok"} => dispatched' = [dispatched EXCEPT ![p] = dispatched[p] + 1]
  BY DEF Dispatch
<1>3. v \notin {"failed", "ok"} => dispatched' = [dispatched EXCEPT ![p] = dispatched[p]]
  BY DEF Dispatch
<1>4. dispatched[p] + 1 = 1
  OBVIOUS
<1> QED
  BY <1>1, <1>2, <1>3, <1>4

(* The invariant after a command ran: it refuses, registers and puts in     *)
(* flight only what agrees with the tree.                                   *)
LEMMA RunTruth ==
  ASSUME CustodyAll, EffectInv, TruthInv, Run, NEW A \in Answers, SendResults(A),
         \A c \in Cmds : A[c] # NoReply => sends[c] = 0,
         \A c \in Cmds : A[c] \in Contract!Refusals =>
            LET p == Contract!Subject(c) IN
            p \in Cmds /\ life'[p] = "started" /\ dispatched'[p] = 0 /\ ~Registers(p)',
         \A p \in Cmds : Registers(p)' =>
            Registers(p) \/ (p = hand /\ A[p] = "requires_confirmation"),
         \A p \in Cmds : dispatched'[p] # dispatched[p] => p = hand \/ Registers(p),
         \A c \in inFlight' : Contract!AsksFor(c) =>
            Contract!Subject(c) \in Cmds /\ dispatched'[Contract!Subject(c)] = 1,
         \A p \in Cmds : waiter'[p] \in {waiter[p], NoCmd}
                           \/ (waiter'[p] = hand /\ Op(hand) = "confirm")
  PROVE  TruthInv'
<1>1. ASSUME NEW p \in Cmds, Registers(p)'
      PROVE  sends'[p] = 1 /\ reply'[p] = "requires_confirmation"
  <2>1. CASE Registers(p)
    <3>1. sends[p] = 1 /\ reply[p] = "requires_confirmation"
      BY <2>1 DEF TruthInv
    <3>2. A[p] = NoReply
      BY <3>1
    <3> QED
      BY <3>1, <3>2, AfterSend
  <2>2. CASE ~Registers(p)
    <3>1. p = hand /\ A[p] = "requires_confirmation" /\ sends[p] = 0
      BY <1>1, <2>2, ReplyAssumption DEF Results
    <3>2. A[p] # NoReply
      BY <3>1, ReplyAssumption DEF Results
    <3>3. reply'[p] = A[p] /\ sends'[p] = sends[p] + 1
      BY <3>2, AfterSend
    <3> QED
      BY <3>1, <3>3
  <2> QED
    BY <2>1, <2>2
<1>2. ASSUME NEW c \in Cmds, reply'[c] \in Contract!Refusals
      PROVE  LET p == Contract!Subject(c) IN
             p \in Cmds /\ life'[p] = "started" /\ dispatched'[p] = 0 /\ ~Registers(p)'
  <2> DEFINE p == Contract!Subject(c)
  <2>1. CASE A[c] = NoReply
    <3>1. reply'[c] = reply[c]
      BY <2>1, AfterSend
    <3>2. p \in Cmds /\ life[p] = "started" /\ dispatched[p] = 0 /\ ~Registers(p)
      BY <1>2, <3>1 DEF TruthInv
    <3> HIDE DEF p
    <3>3. p # hand /\ life'[p] = "started"
      BY <3>2, RunsFirst
    <3>4. dispatched'[p] = 0 /\ ~Registers(p)'
      BY <3>2, <3>3
    <3>5. p \in Cmds /\ life'[p] = "started" /\ dispatched'[p] = 0 /\ ~Registers(p)'
      BY <3>2, <3>3, <3>4
    <3> QED
      BY <3>5 DEF p
  <2>2. CASE A[c] # NoReply
    <3>1. A[c] \in Contract!Refusals
      BY <1>2, <2>2, AfterSend
    <3> QED
      BY <3>1
  <2> QED
    BY <2>1, <2>2
<1>3. \A p \in Cmds : waiter'[p] \in Cmds => Op(waiter'[p]) = "confirm"
  BY NullAssumption DEF TruthInv
<1> QED
  BY <1>1, <1>2, <1>3 DEF TruthInv, Contract!Subject, Contract!AsksFor, Contract!Refusals

(* One message, to the command that runs.                                   *)
LEMMA ToHand ==
  ASSUME CustodyAll, Run, NEW r \in Results
  PROVE  LET A == AnswerAll({hand}, r) IN
         /\ A \in Answers /\ A[hand] = r /\ r # NoReply
         /\ \A c \in Cmds : A[c] = IF c = hand THEN r ELSE NoReply
         /\ \A c \in Cmds : A[c] # NoReply => c = hand /\ sends[c] = 0 /\ life'[c] = "started"
<1> DEFINE A == AnswerAll({hand}, r)
<1>1. A \in Answers /\ \A c \in Cmds : A[c] = IF c = hand THEN r ELSE NoReply
  BY AnswerAllType, AllTold
<1> HIDE DEF A
<1>2. /\ A[hand] = r /\ r # NoReply
      /\ \A c \in Cmds : A[c] # NoReply => c = hand /\ sends[c] = 0 /\ life'[c] = "started"
  BY <1>1, RunsFirst, ReplyAssumption
<1> QED
  BY <1>1, <1>2 DEF A

(* A command that changes no confirmation, reaches the tree for itself or   *)
(* not at all, and is told r or put in flight.                              *)
LEMMA PlainContract ==
  ASSUME CustodyAll, EffectInv, TruthInv, Run, UNCHANGED <<confirm, waiter>>,
         Op(hand) \notin {"confirm", "resolve"},
         \/ UNCHANGED dispatched
         \/ Op(hand) \in DirectOps /\ dispatched' = [dispatched EXCEPT ![hand] = 1],
         \/ /\ inFlight' = {}
            /\ \E r \in Results :
                 /\ SendResults(AnswerAll({hand}, r))
                 /\ r \notin {"performed", "did_not_settle", "confirmation_rejected"}
                 /\ r = "stale_revision" => UNCHANGED dispatched
         \/ /\ inFlight' = {hand} /\ UNCHANGED replyVars
            /\ Op(hand) \in DirectOps => dispatched'[hand] = 1
            /\ Op(hand) \in DirectOps \cup {"screenshot"}
  PROVE  TruthInv' /\ Contract!Next
<1>1. /\ hand \in Cmds /\ life[hand] = "pending" /\ sends[hand] = 0
      /\ life'[hand] = "started" /\ dispatched[hand] = 0 /\ confirm[hand] = "none"
  BY RunsFirst DEF EffectInv
<1>2. Contract!Subject(hand) = hand
  BY DEF Contract!Subject, Op
<1>3. Contract!AsksFor(hand) => Op(hand) \in DirectOps
  BY DEF Contract!AsksFor, Op, DirectOps
<1>4. \/ UNCHANGED dispatched
      \/ Contract!MayDo(hand, hand) /\ dispatched' = [dispatched EXCEPT ![hand] = 1]
  <2>1. ~Contract!Refused(hand)
    BY <1>1 DEF TruthInv, Contract!Refused
  <2>2. Op(hand) \in DirectOps => Contract!MayDo(hand, hand)
    BY <1>1, <2>1 DEF Contract!MayDo, DirectOps, Op
  <2> QED
    BY <2>2
<1>5. \A q \in Cmds : Registers(q)' <=> Registers(q)
  BY DEF Registers
<1>6. \A q \in Cmds : dispatched'[q] # dispatched[q] => q = hand
  BY DEF CustodyAll, TypeOK
<1>7. confirm'[hand] \notin {"open", "overdue"}
  BY <1>1
<1>8. ASSUME inFlight' = {}, NEW r \in Results, SendResults(AnswerAll({hand}, r)),
             r \notin {"performed", "did_not_settle", "confirmation_rejected"},
             r = "stale_revision" => UNCHANGED dispatched
      PROVE  TruthInv' /\ Contract!Next
  <2> DEFINE A == AnswerAll({hand}, r)
  <2>1. /\ A \in Answers /\ A[hand] = r /\ r # NoReply
        /\ \A c \in Cmds : A[c] = IF c = hand THEN r ELSE NoReply
        /\ \A c \in Cmds : A[c] # NoReply => c = hand /\ sends[c] = 0 /\ life'[c] = "started"
    BY ToHand
  <2>2. SendResults(A)
    BY <1>8
  <2> HIDE DEF A
  <2>3. r \in Contract!Refusals => dispatched'[hand] = 0
    BY <1>1, <1>8 DEF Contract!Refusals
  <2>4. Contract!Honest(hand, r)
    BY <1>1, <1>2, <1>8, <2>3 DEF Contract!Honest, Contract!Done
  <2>5. Contract!Next
    <3>1. \A c \in Cmds : A[c] # NoReply =>
             sends[c] = 0 /\ Contract!Honest(c, A[c]) /\ life'[c] = "started"
      BY <2>1, <2>4
    <3> QED
      BY <1>1, <1>4, <2>1, <2>2, <3>1, StartOf
  <2>6. TruthInv'
    <3>1. \A c \in Cmds : A[c] \in Contract!Refusals => c = hand /\ r \in Contract!Refusals
      BY <2>1, ReplyAssumption DEF Contract!Refusals, Results
    <3>2. \A c \in Cmds : A[c] \in Contract!Refusals =>
            LET p == Contract!Subject(c) IN
            p \in Cmds /\ life'[p] = "started" /\ dispatched'[p] = 0 /\ ~Registers(p)'
      <4> SUFFICES ASSUME NEW c \in Cmds, A[c] \in Contract!Refusals
                   PROVE  LET p == Contract!Subject(c) IN
                          p \in Cmds /\ life'[p] = "started" /\ dispatched'[p] = 0 /\ ~Registers(p)'
        OBVIOUS
      <4>1. c = hand /\ Contract!Subject(c) = c /\ dispatched'[c] = 0
        BY <1>2, <2>3, <3>1
      <4>2. c \in Cmds /\ life'[c] = "started" /\ ~Registers(c)'
        BY <1>1, <1>7, <4>1 DEF Registers
      <4> QED
        BY <4>1, <4>2
    <3>3. \A c \in Cmds : A[c] # NoReply => sends[c] = 0
      BY <2>1
    <3> QED
      BY <1>5, <1>6, <1>8, <2>1, <2>2, <3>2, <3>3, RunTruth
  <2> QED
    BY <2>5, <2>6
<1>9. ASSUME inFlight' = {hand}, UNCHANGED replyVars, Op(hand) \in DirectOps => dispatched'[hand] = 1
      PROVE  TruthInv' /\ Contract!Next
  <2>1. Silent \in Answers /\ SendResults(Silent) /\ \A c \in Cmds : Silent[c] = NoReply
    BY <1>9, SilentIs DEF CustodyAll, Silent
  <2> HIDE DEF Silent
  <2>2. NoReply \notin Contract!Refusals
    BY ReplyAssumption DEF Contract!Refusals, Results
  <2>3. Contract!Next
    BY <1>1, <1>4, <2>1, StartOf
  <2>4. \A c \in inFlight' : Contract!AsksFor(c) =>
           Contract!Subject(c) \in Cmds /\ dispatched'[Contract!Subject(c)] = 1
    BY <1>1, <1>2, <1>3, <1>9
  <2>5. TruthInv'
    BY <1>5, <1>6, <2>1, <2>2, <2>4, RunTruth
  <2> QED
    BY <2>3, <2>5
<1> QED
  BY <1>8, <1>9

LEMMA SnapshotContract ==
  ASSUME CustodyAll, EffectInv, TruthInv, Run, RunSnapshot \/ RunPerform \/ RunScreenshot
  PROVE  TruthInv' /\ Contract!Next
<1>1. hand \in Cmds /\ dispatched[hand] = 0 /\ inFlight = {}
  BY RunsFirst DEF EffectInv
<1>2. CASE RunSnapshot
  <2>1. /\ UNCHANGED <<confirm, waiter>> /\ UNCHANGED dispatched /\ inFlight' = {}
        /\ Op(hand) = "snapshot" /\ SendResults(AnswerAll({hand}, "snapshot"))
    BY <1>1, <1>2 DEF RunSnapshot
  <2> QED
    BY <2>1, PlainContract DEF Results
<1>3. CASE RunScreenshot
  <2>1. UNCHANGED <<confirm, waiter>> /\ UNCHANGED dispatched /\ Op(hand) = "screenshot"
    BY <1>3 DEF RunScreenshot
  <2>2. \/ inFlight' = {hand} /\ UNCHANGED replyVars
        \/ inFlight' = {} /\ \E r \in {"error", "not_presentable"} : SendResults(AnswerAll({hand}, r))
    BY <1>1, <1>3 DEF RunScreenshot
  <2> QED
    BY <2>1, <2>2, PlainContract DEF Results, DirectOps
<1>4. CASE RunPerform
  <2>1. UNCHANGED <<confirm, waiter>> /\ Op(hand) \in DirectOps
    BY <1>4 DEF RunPerform
  <2>2. PICK v \in Verdicts(hand) :
          /\ Dispatch(hand, v)
          /\ IF v = "ok"
             THEN inFlight' = inFlight \cup {hand} /\ UNCHANGED replyVars
             ELSE SendResults(AnswerAll({hand}, ErrorOf(v))) /\ UNCHANGED inFlight
    BY <1>4 DEF RunPerform
  <2>3. /\ v \in {"failed", "ok"} => dispatched' = [dispatched EXCEPT ![hand] = 1] /\ dispatched'[hand] = 1
        /\ v \notin {"failed", "ok"} => UNCHANGED dispatched
    BY <1>1, <2>2, DispatchIs DEF CustodyAll
  <2>4. /\ Op(hand) \notin {"confirm", "resolve"}
        /\ \/ UNCHANGED dispatched
           \/ Op(hand) \in DirectOps /\ dispatched' = [dispatched EXCEPT ![hand] = 1]
    BY <2>1, <2>3 DEF DirectOps
  <2>5. CASE v = "ok"
    <3>1. /\ inFlight' = {hand} /\ UNCHANGED replyVars
          /\ Op(hand) \in DirectOps => dispatched'[hand] = 1
          /\ Op(hand) \in DirectOps \cup {"screenshot"}
      BY <1>1, <2>1, <2>2, <2>3, <2>5
    <3> QED
      BY <2>1, <2>4, <3>1, PlainContract
  <2>6. CASE v # "ok"
    <3>1. inFlight' = {} /\ SendResults(AnswerAll({hand}, ErrorOf(v)))
      BY <1>1, <2>2, <2>6
    <3>2. PICK r \in {"stale_revision", "error"} : r = ErrorOf(v)
      BY DEF ErrorOf
    <3>3. r = "stale_revision" => UNCHANGED dispatched
      BY <2>3, <3>2 DEF ErrorOf
    <3>4. /\ r \in Results /\ SendResults(AnswerAll({hand}, r))
          /\ r \notin {"performed", "did_not_settle", "confirmation_rejected"}
          /\ r = "stale_revision" => UNCHANGED dispatched
      BY <3>1, <3>2, <3>3 DEF Results
    <3>5. \E q \in Results :
             /\ SendResults(AnswerAll({hand}, q))
             /\ q \notin {"performed", "did_not_settle", "confirmation_rejected"}
             /\ q = "stale_revision" => UNCHANGED dispatched
      BY <3>4
    <3> QED
      BY <2>1, <2>4, <3>1, <3>5, PlainContract
  <2> QED
    BY <2>5, <2>6
<1> QED
  BY <1>2, <1>3, <1>4

LEMMA GuardedContract ==
  ASSUME CustodyAll, EffectInv, TruthInv, Run, RunGuarded
  PROVE  TruthInv' /\ Contract!Next
<1>1. /\ hand \in Cmds /\ dispatched[hand] = 0 /\ inFlight = {}
      /\ UNCHANGED <<inFlight, waiter, dispatched>> /\ Op(hand) = "guarded"
  BY RunsFirst DEF EffectInv, RunGuarded
<1>2. CASE UNCHANGED confirm
  <2>1. PICK r \in {"requires_confirmation", "stale_revision", "error"} :
          SendResults(AnswerAll({hand}, r))
    BY DEF RunGuarded
  <2>2. UNCHANGED <<confirm, waiter>> /\ inFlight' = {} /\ r \in Results
    BY <1>1, <1>2 DEF Results
  <2> QED
    BY <1>1, <2>1, <2>2, PlainContract
<1>3. CASE ~UNCHANGED confirm
  <2> DEFINE A == AnswerAll({hand}, "requires_confirmation")
  <2>1. confirm' = [confirm EXCEPT ![hand] = "open"] /\ SendResults(A)
    BY <1>3 DEF RunGuarded
  <2>2. /\ A \in Answers /\ A[hand] = "requires_confirmation"
        /\ \A c \in Cmds : A[c] = IF c = hand THEN "requires_confirmation" ELSE NoReply
        /\ \A c \in Cmds : A[c] # NoReply => c = hand /\ sends[c] = 0 /\ life'[c] = "started"
    BY ToHand DEF Results
  <2> HIDE DEF A
  <2>3. \A c \in Cmds : A[c] \notin Contract!Refusals
    BY <2>2, ReplyAssumption DEF Contract!Refusals, Results
  <2>4. \A q \in Cmds : Registers(q)' =>
            Registers(q) \/ (q = hand /\ A[q] = "requires_confirmation")
    BY <2>1, <2>2 DEF Registers, CustodyAll, TypeOK
  <2>5. TruthInv'
    BY <1>1, <2>1, <2>2, <2>3, <2>4, RunTruth
  <2>6. \A c \in Cmds : A[c] # NoReply =>
           sends[c] = 0 /\ Contract!Honest(c, A[c]) /\ life'[c] = "started"
    BY <2>2 DEF Contract!Honest, Contract!Done, Contract!Refusals
  <2>7. Contract!Next
    BY <1>1, <2>1, <2>2, <2>6, StartOf
  <2> QED
    BY <2>5, <2>7
<1> QED
  BY <1>2, <1>3

(* Confirmations that lapsed, and a request that finds none.                *)
LEMMA NotFoundContract ==
  ASSUME CustodyAll, EffectInv, TruthInv, Run, UNCHANGED <<inFlight, dispatched>>,
         NEW S, S \subseteq Waiting(Expired) \cup {hand},
         SendResults(AnswerAll(S, "confirmation_not_found")),
         \A p \in Cmds : Registers(p)' => Registers(p),
         \A p \in Cmds : waiter'[p] \in {waiter[p], NoCmd}
                           \/ (waiter'[p] = hand /\ Op(hand) = "confirm")
  PROVE  TruthInv' /\ Contract!Next
<1> DEFINE A == AnswerAll(S, "confirmation_not_found")
<1>1. /\ A \in Answers
      /\ \A c \in Cmds : A[c] = IF c \in S THEN "confirmation_not_found" ELSE NoReply
  BY AnswerAllType, AllTold DEF Results
<1>2. SendResults(A)
  OBVIOUS
<1>3. \A c \in Waiting(Expired) : c \in Cmds => sends[c] = 0 /\ life[c] = "started"
  BY DEF CustodyAll, CustodyInv, Waiting, Expired
<1> HIDE DEF A
<1>4. \A c \in Cmds : A[c] # NoReply =>
        sends[c] = 0 /\ A[c] = "confirmation_not_found" /\ life'[c] = "started"
  BY <1>1, <1>3, RunsFirst
<1>5. \A c \in Cmds : A[c] \notin Contract!Refusals
  BY <1>1, ReplyAssumption DEF Contract!Refusals, Results
<1>6. inFlight' = {}
  BY RunsFirst
<1>7. TruthInv'
  BY <1>1, <1>2, <1>4, <1>5, <1>6, RunTruth
<1>8. \A c \in Cmds : A[c] # NoReply =>
         sends[c] = 0 /\ Contract!Honest(c, A[c]) /\ life'[c] = "started"
  BY <1>4 DEF Contract!Honest, Contract!Done, Contract!Refusals
<1>9. Contract!Next
  BY <1>1, <1>2, <1>8, StartOf
<1> QED
  BY <1>7, <1>9

(* Whoever is unregistered is not registered, and its ticket is let go.     *)
LEMMA UnregisterIs ==
  ASSUME NEW S, Unregister(S)
  PROVE  /\ \A p \in Cmds : Registers(p)' => Registers(p) /\ p \notin S
         /\ \A p \in Cmds : waiter'[p] \in {waiter[p], NoCmd}
BY DEF Unregister, Registers

LEMMA ConfirmContract ==
  ASSUME CustodyAll, EffectInv, TruthInv, Run, RunConfirm
  PROVE  TruthInv' /\ Contract!Next
<1> DEFINE p == Of(hand)
           Told2 == SendResults(AnswerAll(Waiting(Expired) \cup {hand}, "confirmation_not_found"))
<1>1. Op(hand) = "confirm" /\ UNCHANGED <<inFlight, dispatched>>
  BY DEF RunConfirm
<1>2. ASSUME NEW S, Unregister(S), Told2 PROVE TruthInv' /\ Contract!Next
  BY <1>1, <1>2, UnregisterIs, NotFoundContract
<1>3. ASSUME SendResults(AnswerAll(Waiting(Expired), "confirmation_not_found")),
             confirm' = [q \in Cmds |-> IF q \in Expired THEN "gone" ELSE confirm[q]],
             waiter' = [q \in Cmds |-> IF q = p THEN hand
                                       ELSE IF q \in Expired THEN NoCmd ELSE waiter[q]]
      PROVE  TruthInv' /\ Contract!Next
  <2>1. \A q \in Cmds : Registers(q)' => Registers(q)
    BY <1>3 DEF Registers
  <2>2. \A q \in Cmds : waiter'[q] \in {waiter[q], NoCmd} \/ (waiter'[q] = hand /\ Op(hand) = "confirm")
    BY <1>1, <1>3
  <2> QED
    BY <1>1, <1>3, <2>1, <2>2, NotFoundContract
<1> QED
  BY <1>2, <1>3 DEF RunConfirm

(* What the host and the waiting ticket are told about a decision on p.     *)
Holds(p) == {waiter[p]} \ {NoCmd}
Decision(p, toHost, toWaiter) ==
  [c \in Cmds |-> IF c \in Waiting(Expired) THEN "confirmation_not_found"
                  ELSE IF c \in Holds(p) THEN toWaiter
                  ELSE IF c = hand THEN toHost ELSE NoReply]

LEMMA DecisionContract ==
  ASSUME CustodyAll, EffectInv, TruthInv, Run, NEW p \in Cmds,
         Op(hand) = "resolve", Of(hand) = p, confirm[p] = "open", Unregister(Expired \cup {p}),
         NEW toHost \in Results \cup {NoReply}, NEW toWaiter \in Results \cup {NoReply},
         SendResults(Decision(p, toHost, toWaiter)),
         \/ UNCHANGED dispatched
         \/ Req[hand].allow /\ dispatched' = [dispatched EXCEPT ![p] = 1],
         inFlight' = {} \/ (inFlight' = {hand} \cup Holds(p) /\ dispatched'[p] = 1),
         \/ toHost \in {NoReply, "error"}
         \/ toHost = "stale_revision" /\ UNCHANGED dispatched
         \/ toHost = "performed" /\ ~Req[hand].allow,
         \/ toWaiter \in {NoReply, "error"}
         \/ toWaiter \in {"stale_revision", "confirmation_rejected"} /\ UNCHANGED dispatched
  PROVE  TruthInv' /\ Contract!Next
<1> DEFINE A == Decision(p, toHost, toWaiter)
<1>1. /\ A \in Answers
      /\ \A c \in Cmds : \/ A[c] = NoReply
                         \/ c \in Waiting(Expired) /\ A[c] = "confirmation_not_found"
                         \/ c \in Holds(p) /\ A[c] = toWaiter
                         \/ c = hand /\ A[c] = toHost
  BY DEF Answers, Results, Decision
<1>2. SendResults(A)
  OBVIOUS
<1> HIDE DEF A
<1>3. /\ hand \in Cmds /\ sends[hand] = 0 /\ life'[hand] = "started" /\ inFlight = {}
      /\ \A c \in Cmds : life[c] = "started" => life'[c] = "started"
  BY RunsFirst
<1>4. /\ dispatched[p] = 0 /\ Op(p) = "guarded" /\ life[p] = "started" /\ life'[p] = "started"
      /\ reply[p] = "requires_confirmation" /\ Registers(p)
  BY <1>3 DEF EffectInv, TruthInv, Registers
<1>5. ASSUME NEW c \in Holds(p)
      PROVE  /\ c \in Cmds /\ sends[c] = 0 /\ life'[c] = "started"
             /\ Op(c) = "confirm" /\ Of(c) = p
  BY <1>3, <1>5 DEF CustodyAll, CustodyInv, TypeOK, Holds, TruthInv
<1>6. \A c \in Waiting(Expired) : c \in Cmds => sends[c] = 0 /\ life[c] = "started"
  BY DEF CustodyAll, CustodyInv, Waiting, Expired
<1>7. /\ \A c \in Holds(p) : Contract!Subject(c) = p
      /\ Contract!Subject(hand) = p
      /\ Contract!AsksFor(hand) <=> Req[hand].allow
  BY <1>5 DEF Contract!Subject, Contract!AsksFor, Op, Of
<1>8. \A c \in Cmds : A[c] # NoReply => sends[c] = 0 /\ life'[c] = "started"
  BY <1>1, <1>3, <1>5, <1>6
<1>9. UNCHANGED dispatched => dispatched'[p] = 0
  BY <1>4
<1>10. ASSUME NEW c \in Cmds, A[c] \in Contract!Refusals
       PROVE  Contract!Subject(c) = p /\ dispatched'[p] = 0
  <2>1. A[c] \in {"stale_revision", "confirmation_rejected"} /\ A[c] # NoReply
    BY <1>10, ReplyAssumption DEF Contract!Refusals, Results
  <2>2. \/ c \in Holds(p) /\ A[c] = toWaiter
        \/ c = hand /\ A[c] = toHost
    BY <1>1, <2>1
  <2>3. UNCHANGED dispatched
    BY <2>1, <2>2, ReplyAssumption DEF Results
  <2> QED
    BY <1>7, <1>9, <2>2, <2>3
<1>11. TruthInv'
  <2>1. \A q \in Cmds : Registers(q)' => Registers(q) /\ q # p
    BY UnregisterIs
  <2>2. \A q \in Cmds : waiter'[q] \in {waiter[q], NoCmd}
    BY UnregisterIs
  <2>3. \A q \in Cmds : dispatched'[q] # dispatched[q] => Registers(q)
    BY <1>4 DEF CustodyAll, TypeOK
  <2>4. \A c \in Cmds : A[c] \in Contract!Refusals =>
          LET q == Contract!Subject(c) IN
          q \in Cmds /\ life'[q] = "started" /\ dispatched'[q] = 0 /\ ~Registers(q)'
    <3> SUFFICES ASSUME NEW c \in Cmds, A[c] \in Contract!Refusals
                 PROVE  LET q == Contract!Subject(c) IN
                        q \in Cmds /\ life'[q] = "started" /\ dispatched'[q] = 0 /\ ~Registers(q)'
      OBVIOUS
    <3>1. Contract!Subject(c) = p /\ dispatched'[p] = 0
      BY <1>10
    <3>2. p \in Cmds /\ life'[p] = "started" /\ ~(confirm'[p] \in {"open", "overdue"})
      BY <1>4, <2>1 DEF Registers
    <3> QED
      BY <3>1, <3>2 DEF Registers
  <2>5. \A c \in inFlight' : Contract!AsksFor(c) =>
          Contract!Subject(c) \in Cmds /\ dispatched'[Contract!Subject(c)] = 1
    BY <1>7
  <2>6. \A c \in Cmds : A[c] # NoReply => sends[c] = 0
    BY <1>8
  <2> QED
    BY <1>1, <1>2, <2>1, <2>2, <2>3, <2>4, <2>5, <2>6, RunTruth
<1>12. Contract!Next
  <2>1. ASSUME NEW c \in Cmds, A[c] # NoReply PROVE Contract!Honest(c, A[c])
    <3>1. A[c] \in Contract!Refusals => Contract!Subject(c) \in Cmds /\ dispatched'[Contract!Subject(c)] = 0
      BY <1>10
    <3>2. A[c] \in Contract!Done => ~Contract!AsksFor(c)
      <4>1. A[c] \in {"performed", "did_not_settle"} => c = hand /\ ~Req[hand].allow
        BY <1>1, <2>1
      <4> QED
        BY <1>7, <4>1 DEF Contract!Done
    <3> QED
      BY <3>1, <3>2 DEF Contract!Honest
  <2>2. ~Contract!Refused(p)
    BY <1>4 DEF TruthInv, Contract!Refused
  <2>3. Req[hand].allow => Contract!MayDo(hand, p)
    BY <1>4, <2>2 DEF Contract!MayDo, Op, Of
  <2> QED
    BY <1>1, <1>2, <1>8, <2>1, <2>3, StartOf
<1> QED
  BY <1>11, <1>12

LEMMA ResolveContract ==
  ASSUME CustodyAll, EffectInv, TruthInv, Run, RunResolve
  PROVE  TruthInv' /\ Contract!Next
<1> DEFINE p == Of(hand)
<1>1. Op(hand) = "resolve" /\ inFlight = {}
  BY RunsFirst DEF RunResolve
<1>2. CASE ~Undecided(p)
  <2>1. /\ Unregister(Expired) /\ UNCHANGED <<inFlight, dispatched>>
        /\ SendResults(AnswerAll(Waiting(Expired) \cup {hand}, "confirmation_not_found"))
    BY <1>2 DEF RunResolve
  <2> QED
    BY <2>1, UnregisterIs, NotFoundContract
<1>3. CASE Undecided(p)
  <2>1. p \in Cmds /\ confirm[p] = "open"
    BY <1>3 DEF Undecided
  <2>2. Unregister(Expired \cup {p})
    BY <1>3 DEF RunResolve
  <2>3. CASE ~Allowed(hand)
    <3>1. /\ SendResults(Decision(p, "performed", "confirmation_rejected"))
          /\ UNCHANGED <<inFlight, dispatched>>
      BY <1>3, <2>1, <2>3 DEF RunResolve, Decision, Holds
    <3>2. ~Req[hand].allow
      BY <2>3 DEF Allowed
    <3> QED
      BY <1>1, <2>1, <2>2, <3>1, <3>2, DecisionContract DEF Results
  <2>4. CASE Allowed(hand)
    <3>1. PICK v \in Verdicts(p) :
             /\ Dispatch(p, v)
             /\ IF v = "ok"
                THEN /\ inFlight' = inFlight \cup {hand} \cup Holds(p)
                     /\ SendResults(Decision(p, NoReply, NoReply))
                ELSE /\ SendResults(Decision(p, ErrorOf(v), ErrorOf(v)))
                     /\ UNCHANGED inFlight
      BY <1>3, <2>1, <2>4 DEF RunResolve, Decision, Holds
    <3>2. dispatched[p] = 0
      BY <2>1 DEF EffectInv
    <3>3. /\ v \in {"failed", "ok"} => dispatched' = [dispatched EXCEPT ![p] = 1] /\ dispatched'[p] = 1
          /\ v \notin {"failed", "ok"} => UNCHANGED dispatched
      BY <2>1, <3>1, <3>2, DispatchIs DEF CustodyAll
    <3>4. \/ UNCHANGED dispatched
          \/ Req[hand].allow /\ dispatched' = [dispatched EXCEPT ![p] = 1]
      BY <2>4, <3>3 DEF Allowed
    <3>5. CASE v = "ok"
      <4>1. /\ inFlight' = {hand} \cup Holds(p) /\ dispatched'[p] = 1
            /\ SendResults(Decision(p, NoReply, NoReply))
        BY <1>1, <3>1, <3>3, <3>5
      <4> QED
        BY <1>1, <2>1, <2>2, <3>4, <4>1, DecisionContract
    <3>6. CASE v # "ok"
      <4>1. PICK r \in {"stale_revision", "error"} : r = ErrorOf(v)
        BY DEF ErrorOf
      <4>2. r = "stale_revision" => UNCHANGED dispatched
        BY <3>3, <4>1 DEF ErrorOf
      <4>3. inFlight' = {} /\ SendResults(Decision(p, r, r)) /\ r \in Results
        BY <1>1, <3>1, <3>6, <4>1 DEF Results
      <4> QED
        BY <1>1, <2>1, <2>2, <3>4, <4>1, <4>2, <4>3, DecisionContract
    <3> QED
      BY <3>5, <3>6
  <2> QED
    BY <2>3, <2>4
<1> QED
  BY <1>2, <1>3

-----------------------------------------------------------------------------
(* The pipeline keeps the contract with its clients.                        *)

LEMMA ContractStep ==
  ASSUME IInv, TruthInv, [Next]_vars
  PROVE  TruthInv' /\ [Contract!Next]_(Contract!contractVars)
<1>1. CustodyAll /\ TypeOK /\ EffectInv
  BY DEF IInv, CustodyAll
<1>2. CASE Run
  BY <1>1, <1>2, SnapshotContract, GuardedContract, ConfirmContract, ResolveContract DEF Run
<1>3. CASE CloseQueue
  BY <1>1, <1>3, CloseContract
<1>4. CASE CloseWindow
  BY <1>1, <1>4, CloseWindowContract
<1>5. CASE Settle
  BY <1>1, <1>5, SettleContract
<1>6. CASE QuietStep
  BY <1>1, <1>6, QuietContract
<1> QED
  BY <1>2, <1>3, <1>4, <1>5, <1>6 DEF Next, UiStep, QuietStep

(* Through withdrawals, confirmations, repeated decisions, expiry and       *)
(* closing every behaviour of the pipeline is one of the contract.          *)
THEOREM ClientsServed == Spec => ClientContract
<1>1. Init => TruthInv /\ Contract!Init
  BY ReplyAssumption, NullAssumption
     DEF Init, TruthInv, Registers, Contract!Init, Contract!Refusals, Results
<1>2. IInv /\ TruthInv /\ [Next]_vars => TruthInv' /\ [Contract!Next]_(Contract!contractVars)
  BY ContractStep
<1> QED
  BY <1>1, <1>2, Inductive, PTL DEF Spec, ClientContract, Contract!Spec
-----------------------------------------------------------------------------
(* The bridge's directory.  BridgeInv says, besides the types, which        *)
(* registration a sleeper waits for and on which condition variable, and    *)
(* how far the UI thread has come with each registration.                   *)

Infos == [gen : Gens, rev : Nat, presented : Nat, closed : BOOLEAN]
States == [rev : Nat, presented : Nat, closed : BOOLEAN]
Blank == [rev |-> 0, presented |-> 0, closed |-> FALSE]

(* Whoever sleeps, or was woken, waits for the registration whose condition *)
(* variable it sleeps on.                                                   *)
SleepInv ==
  \A k \in Waits : wait[k] \in {"asleep", "woken"} =>
                     asked[k] = on[k] /\ on[k] \in 1 .. gen

CloserInv == closer # "idle" => appClosed

(* Nothing is known of a registration to come, and nothing is published     *)
(* before the window is enabled.                                            *)
FreshInv ==
  \A g \in Gens : /\ g > gen => shown[g] = "none"
                  /\ shown[g] \in {"none", "bound"} => snap[g] = Blank
                  /\ shown[g] = "running" => ~snap[g].closed
                  /\ snap[g].presented <= snap[g].rev

(* The entry follows the semantic state of the current registration, and    *)
(* runs ahead of it by the revision close_window published.                 *)
LinkInv ==
  gen # 0 /\ ~appClosed =>
    /\ shown[gen] \in {"bound", "running"} =>
         /\ info.rev = snap[gen].rev /\ info.presented = snap[gen].presented
         /\ ~info.closed
    /\ shown[gen] = "closing" =>
         info.rev = snap[gen].rev + 1 /\ info.presented = snap[gen].presented

BridgeInv == /\ BridgeTypeOK /\ SleepInv /\ CloserInv /\ FreshInv /\ LinkInv
             /\ NoLostNotify

(* What NoLostNotify says of one wait.                                      *)
Heard(k) ==
  wait[k] = "asleep" /\ Verdict(k, asked[k]) # "asleep" =>
    on[k] = uiNote \/ (closer = "notify" /\ on[k] = gen)

(* A pass of the loop that decides to sleep saw its registration current    *)
(* and open, and the application too.                                       *)
LEMMA AsleepMeans ==
  ASSUME NEW k \in Waits, NEW g, Verdict(k, g) = "asleep"
  PROVE  info.gen = g /\ ~info.closed /\ ~appClosed
BY DEF Verdict

LEMMA VerdictType ==
  ASSUME NEW k \in Waits, NEW g
  PROVE  Verdict(k, g) \in WaitAnswers \cup {"asleep"} /\ Verdict(k, g) # "woken"
BY DEF Verdict, WaitAnswers

(* A verdict is read off the entry and the flag alone.                      *)
LEMMA SameVerdict ==
  ASSUME NEW k \in Waits, info' = info, appClosed' = appClosed,
         asked'[k] = asked[k]
  PROVE  Verdict(k, asked[k])' = Verdict(k, asked[k])
BY DEF Verdict, Fulfilled

(* What a step of the UI thread needs: with nothing to notify and nobody    *)
(* closing, every sleeper waits for the current registration.               *)
LEMMA QuietSleepers ==
  ASSUME BridgeInv, UiFree, NEW k \in Waits, wait[k] = "asleep"
  PROVE  /\ gen # 0 /\ info \in Infos
         /\ (closer = "notify" /\ on[k] = gen) \/ (on[k] = gen /\ asked[k] = gen
              /\ Verdict(k, asked[k]) = "asleep")
<1>1. BridgeTypeOK /\ asked[k] = on[k] /\ on[k] \in 1 .. gen /\ Heard(k)
  BY DEF BridgeInv, SleepInv, NoLostNotify, Heard
<1>2. gen \in Nat /\ gen # 0 /\ info # None /\ info \in Infos /\ info.gen = gen
  BY <1>1, BridgeAssumption DEF BridgeTypeOK, Gens, Infos
<1>3. uiNote = None /\ on[k] # None
  BY <1>1, <1>2, NoneAssumption DEF UiFree
<1>4. CASE Verdict(k, asked[k]) # "asleep"
  BY <1>1, <1>2, <1>3, <1>4 DEF Heard
<1>5. CASE Verdict(k, asked[k]) = "asleep"
  <2>1. info.gen = asked[k]
    BY <1>5, AsleepMeans
  <2> QED
    BY <1>1, <1>2, <1>5, <2>1
<1> QED
  BY <1>2, <1>4, <1>5

LEMMA BridgeStart == ASSUME BridgeInit PROVE BridgeInv
<1>1. BridgeTypeOK
  <2>1. gen \in 0 .. MaxGen
    BY BridgeAssumption DEF BridgeInit
  <2>2. snap \in [Gens -> [rev : Nat, presented : Nat, closed : BOOLEAN]]
    BY DEF BridgeInit
  <2>3. /\ asked \in [Waits -> 0 .. MaxGen]
        /\ on \in [Waits -> (0 .. MaxGen) \cup {None}]
    BY BridgeAssumption DEF BridgeInit
  <2> QED
    BY <2>1, <2>2, <2>3 DEF BridgeInit, BridgeTypeOK
<1>2. SleepInv /\ CloserInv /\ LinkInv /\ NoLostNotify
  BY DEF BridgeInit, SleepInv, CloserInv, LinkInv, NoLostNotify
<1>3. FreshInv
  BY DEF BridgeInit, FreshInv, Blank
<1> QED
  BY <1>1, <1>2, <1>3 DEF BridgeInv

LEMMA RegisterKeeps == ASSUME BridgeInv, Register PROVE BridgeInv'
<1>1. CASE appClosed
  <2>1. UNCHANGED <<gen, info, shown, uiNote>> /\ UNCHANGED <<appClosed, snap, closer>>
        /\ UNCHANGED <<wait, asked, on>>
    BY <1>1 DEF Register, waiting
  <2> QED
    BY <2>1 DEF BridgeInv, BridgeTypeOK, SleepInv, CloserInv, FreshInv, LinkInv,
                NoLostNotify, Verdict, Fulfilled
<1>2. CASE ~appClosed
  <2> DEFINE g == gen + 1
  <2>1. /\ UiFree /\ gen < MaxGen /\ gen' = g
        /\ info' = [gen |-> g, rev |-> 0, presented |-> 0, closed |-> FALSE]
        /\ shown' = [shown EXCEPT ![g] = "bound"]
        /\ uiNote' = IF gen = 0 THEN None ELSE gen
        /\ UNCHANGED <<appClosed, snap, closer>> /\ UNCHANGED <<wait, asked, on>>
    BY <1>2 DEF Register, waiting, NeverPresented
  <2>2. BridgeTypeOK /\ FreshInv /\ SleepInv /\ CloserInv
    BY DEF BridgeInv
  <2>3. gen \in 0 .. MaxGen /\ g \in Gens /\ g # 0 /\ (gen # 0 => gen \in Gens)
    BY <2>1, <2>2, BridgeAssumption DEF BridgeTypeOK, Gens
  <2>4. info' \in Infos /\ info' # None
    <3>1. info' \in Infos
      BY <2>1, <2>3 DEF Infos
    <3>2. info' \in [gen : Nat, rev : Nat, presented : Nat, closed : BOOLEAN]
      BY <2>1, <2>3 DEF Gens
    <3> QED
      BY <3>1, <3>2, NoneAssumption
  <2>5. shown' \in [Gens -> {"none", "bound", "running", "closing", "closed"}]
        /\ shown'[g] = "bound" /\ \A h \in Gens \ {g} : shown'[h] = shown[h]
    BY <2>1, <2>2, <2>3 DEF BridgeTypeOK
  <2>6. BridgeTypeOK'
    <3>1. gen' \in 0 .. MaxGen /\ (info = None <=> gen = 0)'
          /\ (info # None => info.gen = gen /\ info.presented <= info.rev)'
      BY <2>1, <2>3, <2>4 DEF Gens
    <3>2. uiNote' \in Gens \cup {None}
      BY <2>1, <2>3
    <3> QED
      BY <2>1, <2>2, <2>4, <2>5, <3>1, <3>2 DEF BridgeTypeOK, Infos
  <2>7. SleepInv'
    BY <2>1, <2>2, <2>3 DEF SleepInv
  <2>8. CloserInv'
    BY <2>1, <2>2 DEF CloserInv
  <2>9. FreshInv'
    <3> SUFFICES ASSUME NEW h \in Gens
                 PROVE  /\ h > gen' => shown'[h] = "none"
                        /\ shown'[h] \in {"none", "bound"} => snap'[h] = Blank
                        /\ shown'[h] = "running" => ~snap'[h].closed
                        /\ snap'[h].presented <= snap'[h].rev
      BY DEF FreshInv
    <3>1. CASE h = g
      <4>1. h > gen /\ ~(h > gen')
        BY <2>1, <2>3, <3>1
      <4> QED
        BY <2>1, <2>2, <4>1 DEF FreshInv
    <3>2. CASE h # g
      <4>1. h > gen' => h > gen
        BY <2>1, <2>3, <3>2 DEF Gens
      <4> QED
        BY <2>1, <2>2, <2>5, <3>2, <4>1 DEF FreshInv
    <3> QED
      BY <3>1, <3>2
  <2>10. LinkInv'
    <3>1. snap[g] = Blank
      BY <2>2, <2>3 DEF FreshInv
    <3> QED
      BY <2>1, <2>5, <3>1 DEF LinkInv, Blank
  <2>11. NoLostNotify'
    <3> SUFFICES ASSUME NEW k \in Waits, wait'[k] = "asleep" PROVE on'[k] = uiNote'
      BY DEF NoLostNotify
    <3>1. gen # 0 /\ (closer = "notify" \/ on[k] = gen)
      BY <2>1, QuietSleepers
    <3>2. closer # "notify"
      BY <1>2, <2>2 DEF CloserInv
    <3> QED
      BY <2>1, <3>1, <3>2
  <2> QED
    BY <2>6, <2>7, <2>8, <2>9, <2>10, <2>11 DEF BridgeInv
<1> QED
  BY <1>1, <1>2
(* What a published state of registration g must be: a later one than its   *)
(* last, published where the window has been enabled.                       *)
LEMMA PublishKeeps ==
  ASSUME BridgeInv, UiFree, NEW g \in Gens, NEW s \in States,
         s.presented <= s.rev, shown[g] # "none",
         Publish(g, s),
         shown' \in [Gens -> {"none", "bound", "running", "closing", "closed"}],
         shown'[g] \in {"running", "closed"},
         \A h \in Gens \ {g} : shown'[h] = shown[h],
         shown'[g] = "running" => ~s.closed
  PROVE  BridgeInv'
<1>1. BridgeTypeOK /\ SleepInv /\ CloserInv /\ FreshInv /\ LinkInv /\ NoLostNotify
  BY DEF BridgeInv
<1>2. /\ snap' = [snap EXCEPT ![g] = s] /\ uiNote = None
      /\ UNCHANGED <<gen, appClosed, closer>> /\ UNCHANGED <<wait, asked, on>>
  BY DEF Publish, waiting, UiFree
<1>3. ~(g > gen) /\ gen \in Nat /\ gen # 0
  <2>1. ~(g > gen)
    BY <1>1 DEF FreshInv
  <2> QED
    BY <1>1, <2>1, BridgeAssumption DEF BridgeTypeOK, Gens
<1>4. info \in Infos /\ info.gen = gen /\ info.presented <= info.rev /\ info # None
  BY <1>1, <1>3 DEF BridgeTypeOK, Infos
<1>5. /\ g = gen => /\ info' = [info EXCEPT !.rev = s.rev, !.presented = s.presented,
                                            !.closed = s.closed]
                    /\ uiNote' = IF Differs(s) THEN gen ELSE None
      /\ g # gen => info' = info /\ uiNote' = None
  BY <1>2, <1>4 DEF Publish, Current
<1>6. g = gen => /\ info' \in Infos /\ info'.gen = gen /\ info'.rev = s.rev
                 /\ info'.presented = s.presented /\ info'.closed = s.closed
  <2> SUFFICES ASSUME g = gen
               PROVE  /\ info' \in Infos /\ info'.gen = gen /\ info'.rev = s.rev
                      /\ info'.presented = s.presented /\ info'.closed = s.closed
    OBVIOUS
  <2>1. info' = [info EXCEPT !.rev = s.rev, !.presented = s.presented,
                             !.closed = s.closed]
    BY <1>5
  <2>2. s.rev \in Nat /\ s.presented \in Nat /\ s.closed \in BOOLEAN
    BY DEF States
  <2> QED
    BY <1>4, <2>1, <2>2 DEF Infos
<1>7. info' \in Infos /\ info'.gen = gen /\ info'.presented <= info'.rev
  BY <1>4, <1>5, <1>6
<1>8. info' # None
  <2>1. info' \in [gen : Nat, rev : Nat, presented : Nat, closed : BOOLEAN]
    BY <1>7 DEF Infos, Gens
  <2> QED
    BY <2>1, NoneAssumption
<1>9. snap' \in [Gens -> States] /\ snap'[g] = s
      /\ \A h \in Gens \ {g} : snap'[h] = snap[h]
  BY <1>1, <1>2 DEF BridgeTypeOK, States
<1>10. BridgeTypeOK'
  <2>1. uiNote' \in Gens \cup {None}
    BY <1>5
  <2> QED
    BY <1>1, <1>2, <1>3, <1>7, <1>8, <1>9, <2>1 DEF BridgeTypeOK, Infos, States
<1>11. SleepInv' /\ CloserInv'
  BY <1>1, <1>2 DEF SleepInv, CloserInv
<1>12. FreshInv'
  <2> SUFFICES ASSUME NEW h \in Gens
               PROVE  /\ h > gen => shown'[h] = "none"
                      /\ shown'[h] \in {"none", "bound"} => snap'[h] = Blank
                      /\ shown'[h] = "running" => ~snap'[h].closed
                      /\ snap'[h].presented <= snap'[h].rev
    BY <1>2 DEF FreshInv
  <2>1. CASE h = g
    BY <1>3, <1>9, <2>1
  <2>2. CASE h # g
    BY <1>1, <1>9, <2>2 DEF FreshInv
  <2> QED
    BY <2>1, <2>2
<1>13. LinkInv'
  <2>1. CASE g = gen
    BY <1>2, <1>6, <1>9, <2>1 DEF LinkInv
  <2>2. CASE g # gen
    <3>1. gen \in Gens
      BY <1>4 DEF Infos
    <3> QED
      BY <1>1, <1>2, <1>5, <1>9, <2>2, <3>1 DEF LinkInv
  <2> QED
    BY <2>1, <2>2
<1>14. NoLostNotify'
  <2> SUFFICES ASSUME NEW k \in Waits, wait'[k] = "asleep",
                      Verdict(k, asked[k])' # "asleep"
               PROVE  on'[k] = uiNote' \/ (closer' = "notify" /\ on'[k] = gen')
    BY DEF NoLostNotify
  <2>1. \/ closer = "notify" /\ on[k] = gen
        \/ on[k] = gen /\ asked[k] = gen /\ Verdict(k, asked[k]) = "asleep"
    BY <1>2, QuietSleepers
  <2>2. ASSUME on[k] = gen, Verdict(k, asked[k]) = "asleep", uiNote' # gen
        PROVE  FALSE
    <3>1. info'.rev = info.rev /\ info'.presented = info.presented
          /\ info'.closed = info.closed
      BY <1>4, <1>5, <1>6, <2>2 DEF Differs
    <3>2. Verdict(k, asked[k])' = Verdict(k, asked[k])
      BY <1>2, <1>4, <1>7, <3>1 DEF Verdict, Fulfilled
    <3> QED
      BY <2>2, <3>2
  <2> QED
    BY <1>2, <2>1, <2>2
<1> QED
  BY <1>10, <1>11, <1>12, <1>13, <1>14 DEF BridgeInv

LEMMA EnableKeeps ==
  ASSUME BridgeInv, NEW g \in Gens, Enable(g) PROVE BridgeInv'
<1> DEFINE s == [snap[g] EXCEPT !.rev = 1]
<1>1. BridgeTypeOK /\ FreshInv
  BY DEF BridgeInv
<1>2. UiFree /\ shown[g] = "bound" /\ shown' = [shown EXCEPT ![g] = "running"]
      /\ Publish(g, s)
  BY DEF Enable
<1>3. snap[g] = Blank
  BY <1>1, <1>2 DEF FreshInv
<1>4. s \in States /\ s.presented <= s.rev /\ ~s.closed
  <2>1. snap[g] \in States
    BY <1>1 DEF BridgeTypeOK, States
  <2>2. s \in States /\ s.rev = 1 /\ s.presented = snap[g].presented
        /\ s.closed = snap[g].closed
    BY <2>1 DEF States
  <2> QED
    BY <1>3, <2>2 DEF Blank
<1>5. shown' \in [Gens -> {"none", "bound", "running", "closing", "closed"}]
      /\ shown'[g] = "running" /\ \A h \in Gens \ {g} : shown'[h] = shown[h]
  BY <1>1, <1>2 DEF BridgeTypeOK
<1> HIDE DEF s
<1> QED
  BY <1>2, <1>4, <1>5, PublishKeeps

LEMMA RefreshKeeps ==
  ASSUME BridgeInv, NEW g \in Gens, Refresh(g) PROVE BridgeInv'
<1> DEFINE s == [snap[g] EXCEPT !.rev = @ + 1]
<1>1. BridgeTypeOK /\ FreshInv /\ LinkInv
  BY DEF BridgeInv
<1>2. UiFree /\ shown[g] = "running" /\ shown' = shown /\ Publish(g, s)
  BY DEF Refresh
<1>3. snap[g] \in States /\ snap[g].presented <= snap[g].rev
  BY <1>1 DEF BridgeTypeOK, FreshInv, States
<1>4. s \in States /\ s.presented <= s.rev /\ s.closed = snap[g].closed
  BY <1>3 DEF States
<1>5. ~s.closed
  BY <1>1, <1>2, <1>4 DEF FreshInv
<1>6. shown' \in [Gens -> {"none", "bound", "running", "closing", "closed"}]
  BY <1>1, <1>2 DEF BridgeTypeOK
<1> HIDE DEF s
<1> QED
  BY <1>2, <1>4, <1>5, <1>6, PublishKeeps
LEMMA MarkPresentedKeeps ==
  ASSUME BridgeInv, NEW g \in Gens, MarkPresented(g) PROVE BridgeInv'
<1> DEFINE s == [snap[g] EXCEPT !.presented = snap[g].rev]
<1>1. BridgeTypeOK /\ FreshInv
  BY DEF BridgeInv
<1>2. UiFree /\ shown[g] = "running" /\ shown' = shown /\ Publish(g, s)
  BY DEF MarkPresented
<1>3. snap[g] \in States
  BY <1>1 DEF BridgeTypeOK, States
<1>4. s \in States /\ s.presented <= s.rev /\ s.closed = snap[g].closed
  BY <1>3 DEF States
<1>5. ~s.closed
  BY <1>1, <1>2, <1>4 DEF FreshInv
<1>6. shown' \in [Gens -> {"none", "bound", "running", "closing", "closed"}]
  BY <1>1, <1>2 DEF BridgeTypeOK
<1> HIDE DEF s
<1> QED
  BY <1>2, <1>4, <1>5, <1>6, PublishKeeps

LEMMA CloseSemanticsKeeps ==
  ASSUME BridgeInv, NEW g \in Gens, CloseSemantics(g) PROVE BridgeInv'
<1> DEFINE s == [snap[g] EXCEPT !.closed = TRUE, !.rev = snap[g].rev + 1]
<1>1. BridgeTypeOK /\ FreshInv
  BY DEF BridgeInv
<1>2. UiFree /\ shown[g] = "closing" /\ shown' = [shown EXCEPT ![g] = "closed"]
      /\ Publish(g, s)
  BY DEF CloseSemantics
<1>3. snap[g] \in States /\ snap[g].presented <= snap[g].rev
  BY <1>1 DEF BridgeTypeOK, FreshInv, States
<1>4. s \in States /\ s.presented <= s.rev
  <2>1. snap[g].rev \in Nat /\ snap[g].rev + 1 \in Nat /\ snap[g].presented \in Nat
    BY <1>3 DEF States
  <2>2. s \in States /\ s.rev = snap[g].rev + 1 /\ s.presented = snap[g].presented
    BY <1>3, <2>1 DEF States
  <2> QED
    BY <1>3, <2>1, <2>2
<1>5. shown' \in [Gens -> {"none", "bound", "running", "closing", "closed"}]
      /\ shown'[g] = "closed" /\ \A h \in Gens \ {g} : shown'[h] = shown[h]
  BY <1>1, <1>2 DEF BridgeTypeOK
<1> HIDE DEF s
<1> QED
  BY <1>2, <1>4, <1>5, PublishKeeps

(* What close_window and close_all write over an open entry.                *)
LEMMA ClosedEntryType ==
  ASSUME info \in Infos, info.presented <= info.rev
  PROVE  /\ ClosedEntry \in Infos /\ ClosedEntry.gen = info.gen
         /\ ClosedEntry.rev = info.rev + 1 /\ ClosedEntry.presented = info.presented
         /\ ClosedEntry.closed /\ ClosedEntry.presented <= ClosedEntry.rev
         /\ ClosedEntry # None
<1>1. /\ ClosedEntry \in Infos /\ ClosedEntry.gen = info.gen
      /\ ClosedEntry.rev = info.rev + 1 /\ ClosedEntry.presented = info.presented
      /\ ClosedEntry.closed
  <2> DEFINE r == info.rev + 1
  <2>1. ClosedEntry = [info EXCEPT !.closed = TRUE, !.rev = r]
    BY DEF ClosedEntry
  <2>2. r \in Nat
    BY DEF Infos
  <2> HIDE DEF r
  <2>3. /\ ClosedEntry \in Infos /\ ClosedEntry.gen = info.gen
        /\ ClosedEntry.rev = r /\ ClosedEntry.presented = info.presented
        /\ ClosedEntry.closed
    BY <2>1, <2>2 DEF Infos
  <2> QED
    BY <2>3 DEF r
<1>2. ClosedEntry.presented <= ClosedEntry.rev
  BY <1>1 DEF Infos
<1>3. ClosedEntry \in [gen : Nat, rev : Nat, presented : Nat, closed : BOOLEAN]
  BY <1>1 DEF Infos, Gens
<1> QED
  BY <1>1, <1>2, <1>3, NoneAssumption

LEMMA CloseEntryKeeps == ASSUME BridgeInv, CloseEntry PROVE BridgeInv'
<1>1. BridgeTypeOK /\ SleepInv /\ CloserInv /\ FreshInv /\ LinkInv /\ NoLostNotify
  BY DEF BridgeInv
<1>2. /\ UiFree /\ uiNote = None /\ gen # 0 /\ shown[gen] \in {"bound", "running"}
      /\ shown' = [shown EXCEPT ![gen] = IF shown[gen] = "running" THEN "closing"
                                         ELSE "closed"]
      /\ UNCHANGED <<gen, appClosed, snap, closer>> /\ UNCHANGED <<wait, asked, on>>
      /\ info.closed => UNCHANGED <<info, uiNote>>
      /\ ~info.closed => info' = ClosedEntry /\ uiNote' = gen
  BY DEF CloseEntry, UiFree, waiting
<1>3. gen \in Nat /\ gen \in Gens
  BY <1>1, <1>2, BridgeAssumption DEF BridgeTypeOK, Gens
<1>4. info \in Infos /\ info.gen = gen /\ info.presented <= info.rev /\ info # None
  BY <1>1, <1>2 DEF BridgeTypeOK, Infos
<1>5. shown' \in [Gens -> {"none", "bound", "running", "closing", "closed"}]
      /\ shown'[gen] \in {"closing", "closed"}
      /\ (shown'[gen] = "closing" => shown[gen] = "running")
      /\ \A h \in Gens \ {gen} : shown'[h] = shown[h]
  BY <1>1, <1>2, <1>3 DEF BridgeTypeOK
<1>6. info' \in Infos /\ info'.gen = gen /\ info'.presented <= info'.rev /\ info' # None
  BY <1>2, <1>4, ClosedEntryType
<1>7. BridgeTypeOK'
  <2>1. uiNote' \in Gens \cup {None}
    BY <1>1, <1>2, <1>3
  <2> QED
    BY <1>1, <1>2, <1>5, <1>6, <2>1 DEF BridgeTypeOK, Infos
<1>8. SleepInv' /\ CloserInv'
  BY <1>1, <1>2 DEF SleepInv, CloserInv
<1>9. FreshInv'
  <2> SUFFICES ASSUME NEW h \in Gens
               PROVE  /\ h > gen => shown'[h] = "none"
                      /\ shown'[h] \in {"none", "bound"} => snap[h] = Blank
                      /\ shown'[h] = "running" => ~snap[h].closed
                      /\ snap[h].presented <= snap[h].rev
    BY <1>2 DEF FreshInv
  <2>1. h = gen => ~(h > gen)
    BY <1>3
  <2> QED
    BY <1>1, <1>5, <2>1 DEF FreshInv
<1>10. LinkInv'
  <2>1. CASE appClosed
    BY <1>2, <2>1 DEF LinkInv
  <2>2. CASE ~appClosed
    <3>1. info.rev = snap[gen].rev /\ info.presented = snap[gen].presented /\ ~info.closed
      BY <1>1, <1>2, <2>2 DEF LinkInv
    <3>2. info'.rev = snap[gen].rev + 1 /\ info'.presented = snap[gen].presented
      BY <1>2, <1>4, <3>1, ClosedEntryType
    <3> QED
      BY <1>2, <1>5, <3>2 DEF LinkInv
  <2> QED
    BY <2>1, <2>2
<1>11. NoLostNotify'
  <2> SUFFICES ASSUME NEW k \in Waits, wait'[k] = "asleep",
                      Verdict(k, asked[k])' # "asleep"
               PROVE  on'[k] = uiNote' \/ (closer' = "notify" /\ on'[k] = gen')
    BY DEF NoLostNotify
  <2>1. \/ closer = "notify" /\ on[k] = gen
        \/ on[k] = gen /\ Verdict(k, asked[k]) = "asleep"
    BY <1>2, QuietSleepers
  <2>2. CASE info.closed
    <3>1. Verdict(k, asked[k])' = Verdict(k, asked[k])
      BY <1>2, <2>2, SameVerdict
    <3> QED
      BY <1>2, <2>1, <3>1
  <2>3. CASE ~info.closed
    BY <1>2, <2>1, <2>3
  <2> QED
    BY <2>2, <2>3
<1> QED
  BY <1>7, <1>8, <1>9, <1>10, <1>11 DEF BridgeInv

LEMMA NotifiedType ==
  ASSUME BridgeTypeOK, NEW g
  PROVE  /\ Notified(g) \in [Waits -> {"idle", "asleep", "woken"} \cup WaitAnswers]
         /\ \A k \in Waits :
              /\ Notified(g)[k] = "asleep" => wait[k] = "asleep" /\ on[k] # g
              /\ Notified(g)[k] \in {"asleep", "woken"} => wait[k] \in {"asleep", "woken"}
BY DEF BridgeTypeOK, Notified

LEMMA UiNotifyKeeps == ASSUME BridgeInv, UiNotify PROVE BridgeInv'
<1>1. BridgeTypeOK /\ SleepInv /\ CloserInv /\ FreshInv /\ LinkInv /\ NoLostNotify
  BY DEF BridgeInv
<1>2. /\ wait' = Notified(uiNote) /\ uiNote' = None
      /\ UNCHANGED <<gen, info, appClosed, snap, shown, closer, asked, on>>
  BY DEF UiNotify
<1>3. BridgeTypeOK'
  BY <1>1, <1>2, NotifiedType DEF BridgeTypeOK
<1>4. SleepInv'
  BY <1>1, <1>2, NotifiedType DEF SleepInv
<1>5. CloserInv' /\ FreshInv' /\ LinkInv'
  BY <1>1, <1>2 DEF CloserInv, FreshInv, LinkInv
<1>6. NoLostNotify'
  <2> SUFFICES ASSUME NEW k \in Waits, wait'[k] = "asleep",
                      Verdict(k, asked[k])' # "asleep"
               PROVE  closer' = "notify" /\ on'[k] = gen'
    BY DEF NoLostNotify
  <2>1. wait[k] = "asleep" /\ on[k] # uiNote
    BY <1>1, <1>2, NotifiedType
  <2>2. Verdict(k, asked[k])' = Verdict(k, asked[k])
    BY <1>2, SameVerdict
  <2> QED
    BY <1>1, <1>2, <2>1, <2>2 DEF NoLostNotify
<1> QED
  BY <1>3, <1>4, <1>5, <1>6 DEF BridgeInv

LEMMA CloseAllKeeps == ASSUME BridgeInv, CloseAll PROVE BridgeInv'
<1>1. BridgeTypeOK /\ SleepInv /\ CloserInv /\ FreshInv /\ LinkInv /\ NoLostNotify
  BY DEF BridgeInv
<1>2. /\ appClosed' = TRUE /\ closer' = "notify"
      /\ info' = IF info = None \/ info.closed THEN info ELSE ClosedEntry
      /\ UNCHANGED <<gen, snap, shown, uiNote>> /\ UNCHANGED <<wait, asked, on>>
  BY DEF CloseAll, waiting
<1>3. info # None => /\ info \in Infos /\ info.gen = gen /\ info.presented <= info.rev
  BY <1>1 DEF BridgeTypeOK, Infos
<1>4. BridgeTypeOK'
  <2>1. info # None => /\ info' \in Infos /\ info'.gen = gen
                       /\ info'.presented <= info'.rev /\ info' # None
    BY <1>2, <1>3, ClosedEntryType
  <2>2. info = None => info' = None
    BY <1>2
  <2> QED
    BY <1>1, <1>2, <2>1, <2>2 DEF BridgeTypeOK, Infos
<1>5. SleepInv' /\ CloserInv' /\ FreshInv' /\ LinkInv'
  BY <1>1, <1>2 DEF SleepInv, CloserInv, FreshInv, LinkInv
<1>6. NoLostNotify'
  <2> SUFFICES ASSUME NEW k \in Waits, wait'[k] = "asleep"
               PROVE  on'[k] = uiNote' \/ (closer' = "notify" /\ on'[k] = gen')
    BY DEF NoLostNotify
  <2>1. wait[k] = "asleep" /\ asked[k] = on[k] /\ on[k] \in 1 .. gen
    BY <1>1, <1>2 DEF SleepInv
  <2>2. gen # 0
    BY <1>1, <2>1, BridgeAssumption DEF BridgeTypeOK
  <2>3. info.gen = gen
    BY <1>1, <1>3, <2>2 DEF BridgeTypeOK
  <2>4. Verdict(k, asked[k]) = "asleep" => on[k] = gen
    BY <2>1, <2>3, AsleepMeans
  <2>5. Verdict(k, asked[k]) # "asleep" => on[k] = uiNote \/ on[k] = gen
    BY <1>1, <2>1 DEF NoLostNotify
  <2> QED
    BY <1>2, <2>4, <2>5
<1> QED
  BY <1>4, <1>5, <1>6 DEF BridgeInv

LEMMA CloseNotifyKeeps == ASSUME BridgeInv, CloseNotify PROVE BridgeInv'
<1>1. BridgeTypeOK /\ SleepInv /\ CloserInv /\ FreshInv /\ LinkInv /\ NoLostNotify
  BY DEF BridgeInv
<1>2. /\ closer = "notify" /\ wait' = Notified(gen) /\ closer' = "done"
      /\ UNCHANGED <<gen, info, appClosed, snap, shown, uiNote, asked, on>>
  BY DEF CloseNotify
<1>3. BridgeTypeOK'
  BY <1>1, <1>2, NotifiedType DEF BridgeTypeOK
<1>4. SleepInv'
  BY <1>1, <1>2, NotifiedType DEF SleepInv
<1>5. CloserInv' /\ FreshInv' /\ LinkInv'
  BY <1>1, <1>2 DEF CloserInv, FreshInv, LinkInv
<1>6. NoLostNotify'
  <2> SUFFICES ASSUME NEW k \in Waits, wait'[k] = "asleep",
                      Verdict(k, asked[k])' # "asleep"
               PROVE  on'[k] = uiNote'
    BY DEF NoLostNotify
  <2>1. wait[k] = "asleep" /\ on[k] # gen
    BY <1>1, <1>2, NotifiedType
  <2>2. Verdict(k, asked[k])' = Verdict(k, asked[k])
    BY <1>2, SameVerdict
  <2> QED
    BY <1>1, <1>2, <2>1, <2>2 DEF NoLostNotify
<1> QED
  BY <1>3, <1>4, <1>5, <1>6 DEF BridgeInv
(* A step of connection k alone: it moves to an answer, or falls asleep     *)
(* after a pass that found nothing.                                         *)
LEMMA WaitKeeps ==
  ASSUME BridgeInv, NEW k \in Waits,
         UNCHANGED <<gen, info, appClosed, snap, shown, uiNote, closer>>,
         asked' \in [Waits -> 0 .. MaxGen], on' \in [Waits -> (0 .. MaxGen) \cup {None}],
         NEW a \in WaitAnswers \cup {"asleep"}, wait' = [wait EXCEPT ![k] = a],
         \A j \in Waits \ {k} : asked'[j] = asked[j] /\ on'[j] = on[j],
         a = "asleep" => /\ asked'[k] = on'[k] /\ on'[k] \in 1 .. gen
                         /\ Verdict(k, asked'[k]) = "asleep"
  PROVE  BridgeInv'
<1>1. BridgeTypeOK /\ SleepInv /\ CloserInv /\ FreshInv /\ LinkInv /\ NoLostNotify
  BY DEF BridgeInv
<1>2. wait' \in [Waits -> {"idle", "asleep", "woken"} \cup WaitAnswers]
      /\ wait'[k] = a /\ \A j \in Waits \ {k} : wait'[j] = wait[j]
  BY <1>1 DEF BridgeTypeOK
<1>3. a # "woken"
  BY DEF WaitAnswers
<1>4. BridgeTypeOK'
  BY <1>1, <1>2 DEF BridgeTypeOK
<1>5. SleepInv'
  BY <1>1, <1>2, <1>3 DEF SleepInv
<1>6. CloserInv' /\ FreshInv' /\ LinkInv'
  BY <1>1 DEF CloserInv, FreshInv, LinkInv
<1>7. NoLostNotify'
  <2> SUFFICES ASSUME NEW j \in Waits, wait'[j] = "asleep",
                      Verdict(j, asked[j])' # "asleep"
               PROVE  on'[j] = uiNote' \/ (closer' = "notify" /\ on'[j] = gen')
    BY DEF NoLostNotify
  <2>1. Verdict(j, asked[j])' = Verdict(j, asked'[j])
    BY DEF Verdict, Fulfilled
  <2>2. j # k
    BY <1>2, <2>1
  <2> QED
    BY <1>1, <1>2, <2>1, <2>2 DEF NoLostNotify
<1> QED
  BY <1>4, <1>5, <1>6, <1>7 DEF BridgeInv

LEMMA WaitBeginKeeps ==
  ASSUME BridgeInv, NEW k \in Waits, WaitBegin(k) PROVE BridgeInv'
<1>1. BridgeTypeOK
  BY DEF BridgeInv
<1>2. gen \in 0 .. MaxGen /\ 1 \in 0 .. MaxGen
  BY <1>1, BridgeAssumption DEF BridgeTypeOK
<1>3. PICK g \in 1 .. (IF gen = 0 THEN 1 ELSE gen) :
        /\ asked' = [asked EXCEPT ![k] = g]
        /\ wait' = [wait EXCEPT ![k] = IF appClosed THEN "appClosed"
                                       ELSE IF info = None THEN "notFound"
                                       ELSE Verdict(k, g)]
  BY DEF WaitBegin
<1>4. /\ on' = [on EXCEPT ![k] = gen]
      /\ UNCHANGED <<gen, info, appClosed, snap, shown, uiNote, closer>>
  BY DEF WaitBegin
<1>5. g \in 0 .. MaxGen
  BY <1>2, BridgeAssumption
<1>6. /\ asked' \in [Waits -> 0 .. MaxGen] /\ asked'[k] = g
      /\ on' \in [Waits -> (0 .. MaxGen) \cup {None}] /\ on'[k] = gen
      /\ \A j \in Waits \ {k} : asked'[j] = asked[j] /\ on'[j] = on[j]
  BY <1>1, <1>2, <1>3, <1>4, <1>5 DEF BridgeTypeOK
<1> DEFINE a == IF appClosed THEN "appClosed"
                ELSE IF info = None THEN "notFound" ELSE Verdict(k, g)
<1>7. a \in WaitAnswers \cup {"asleep"}
  BY VerdictType DEF WaitAnswers
<1>8. ASSUME a = "asleep"
      PROVE  asked'[k] = on'[k] /\ on'[k] \in 1 .. gen /\ Verdict(k, asked'[k]) = "asleep"
  <2>1. info # None /\ Verdict(k, g) = "asleep"
    BY <1>8
  <2>2. gen # 0 /\ info.gen = gen
    BY <1>1, <2>1 DEF BridgeTypeOK
  <2>3. g = gen /\ gen \in 1 .. gen
    BY <1>2, <2>1, <2>2, AsleepMeans
  <2> QED
    BY <1>6, <2>1, <2>3
<1>9. wait' = [wait EXCEPT ![k] = a]
  BY <1>3
<1> HIDE DEF a
<1> QED
  BY <1>4, <1>6, <1>7, <1>8, <1>9, WaitKeeps

LEMMA WaitResumesKeeps ==
  ASSUME BridgeInv, NEW k \in Waits, WaitResumes(k) PROVE BridgeInv'
<1>1. BridgeTypeOK /\ SleepInv
  BY DEF BridgeInv
<1>2. /\ wait[k] = "woken" /\ wait' = [wait EXCEPT ![k] = Verdict(k, asked[k])]
      /\ UNCHANGED <<gen, info, appClosed, snap, shown, uiNote, closer, asked, on>>
  BY DEF WaitResumes
<1>3. asked[k] = on[k] /\ on[k] \in 1 .. gen
  BY <1>1, <1>2 DEF SleepInv
<1>4. Verdict(k, asked[k]) \in WaitAnswers \cup {"asleep"}
  BY VerdictType
<1>5. asked' \in [Waits -> 0 .. MaxGen] /\ on' \in [Waits -> (0 .. MaxGen) \cup {None}]
  BY <1>1, <1>2 DEF BridgeTypeOK
<1> QED
  BY <1>2, <1>3, <1>4, <1>5, WaitKeeps

LEMMA WaitTimesOutKeeps ==
  ASSUME BridgeInv, NEW k \in Waits, WaitTimesOut(k) PROVE BridgeInv'
<1> DEFINE a == IF Verdict(k, asked[k]) = "asleep" THEN "timeout"
                ELSE Verdict(k, asked[k])
<1>1. BridgeTypeOK
  BY DEF BridgeInv
<1>2. /\ wait' = [wait EXCEPT ![k] = a]
      /\ UNCHANGED <<gen, info, appClosed, snap, shown, uiNote, closer, asked, on>>
  BY DEF WaitTimesOut
<1>3. a \in WaitAnswers \cup {"asleep"} /\ a # "asleep"
  BY VerdictType DEF WaitAnswers
<1>4. asked' \in [Waits -> 0 .. MaxGen] /\ on' \in [Waits -> (0 .. MaxGen) \cup {None}]
  BY <1>1, <1>2 DEF BridgeTypeOK
<1> HIDE DEF a
<1> QED
  BY <1>2, <1>3, <1>4, WaitKeeps

LEMMA BridgeStep == ASSUME BridgeInv, [BridgeNext]_bridgeVars PROVE BridgeInv'
<1>1. CASE Register
  BY <1>1, RegisterKeeps
<1>2. CASE CloseEntry
  BY <1>2, CloseEntryKeeps
<1>3. CASE UiNotify
  BY <1>3, UiNotifyKeeps
<1>4. CASE CloseAll
  BY <1>4, CloseAllKeeps
<1>5. CASE CloseNotify
  BY <1>5, CloseNotifyKeeps
<1>6. ASSUME NEW g \in Gens, Enable(g) \/ Refresh(g) \/ MarkPresented(g) \/ CloseSemantics(g)
      PROVE  BridgeInv'
  BY <1>6, EnableKeeps, RefreshKeeps, MarkPresentedKeeps, CloseSemanticsKeeps
<1>7. ASSUME NEW k \in Waits, WaitBegin(k) \/ WaitResumes(k) \/ WaitTimesOut(k)
      PROVE  BridgeInv'
  BY <1>7, WaitBeginKeeps, WaitResumesKeeps, WaitTimesOutKeeps
<1>8. CASE UNCHANGED bridgeVars
  <2>1. UNCHANGED <<gen, info, appClosed, snap, shown, uiNote, closer>>
        /\ UNCHANGED <<wait, asked, on>>
    BY <1>8 DEF bridgeVars, waiting
  <2>2. BridgeTypeOK' /\ SleepInv' /\ CloserInv' /\ FreshInv' /\ LinkInv'
    BY <2>1 DEF BridgeInv, BridgeTypeOK, SleepInv, CloserInv, FreshInv, LinkInv
  <2>3. NoLostNotify'
    BY <2>1 DEF BridgeInv, NoLostNotify, Verdict, Fulfilled
  <2> QED
    BY <2>2, <2>3 DEF BridgeInv
<1> QED
  BY <1>1, <1>2, <1>3, <1>4, <1>5, <1>6, <1>7, <1>8 DEF BridgeNext

(* The inductive invariant of the bridge's directory.                       *)
THEOREM BridgeInductive == BridgeSpec => []BridgeInv
<1>1. BridgeInit => BridgeInv
  BY BridgeStart
<1>2. BridgeInv /\ [BridgeNext]_bridgeVars => BridgeInv'
  BY BridgeStep
<1> QED
  BY <1>1, <1>2, PTL DEF BridgeSpec

(* The directory keeps its types, and presents nothing it never published.  *)
THEOREM BridgeTypeCorrect == BridgeSpec => []BridgeTypeOK
<1>1. BridgeInv => BridgeTypeOK
  BY DEF BridgeInv
<1> QED
  BY <1>1, BridgeInductive, PTL

(* No notification is lost: whoever sleeps although its answer is there     *)
(* sleeps on a condition variable some thread is about to notify.           *)
THEOREM NoneSleepsForever == BridgeSpec => []NoLostNotify
<1>1. BridgeInv => NoLostNotify
  BY DEF BridgeInv
<1> QED
  BY <1>1, BridgeInductive, PTL

(* What a later entry of the same registration may be.                      *)
Later ==
  ~appClosed /\ info # None /\ info'.gen = info.gen =>
    /\ info'.rev >= info.rev /\ info'.presented >= info.presented
    /\ info.closed => info'.closed

LEMMA PublishLater ==
  ASSUME BridgeInv, NEW g \in Gens, NEW s \in States, Publish(g, s),
         g = gen /\ ~appClosed /\ info # None =>
           /\ s.rev >= info.rev /\ s.presented >= info.presented
           /\ info.closed => s.closed
  PROVE  Later
<1> SUFFICES ASSUME ~appClosed, info # None
             PROVE  /\ info'.rev >= info.rev /\ info'.presented >= info.presented
                    /\ info.closed => info'.closed
  BY DEF Later
<1>1. info \in Infos /\ info.gen = gen
  BY DEF BridgeInv, BridgeTypeOK, Infos
<1>2. info.rev \in Nat /\ info.presented \in Nat
  BY <1>1 DEF Infos
<1>3. CASE g = gen
  <2>1. info' = [info EXCEPT !.rev = s.rev, !.presented = s.presented, !.closed = s.closed]
    BY <1>1, <1>3 DEF Publish, Current
  <2>2. info'.rev = s.rev /\ info'.presented = s.presented /\ info'.closed = s.closed
    BY <1>1, <2>1 DEF Infos
  <2> QED
    BY <1>3, <2>2
<1>4. CASE g # gen
  BY <1>1, <1>2, <1>4 DEF Publish, Current
<1> QED
  BY <1>3, <1>4

LEMMA Latest == ASSUME BridgeInv, [BridgeNext]_bridgeVars PROVE Later
<1>1. BridgeTypeOK /\ FreshInv /\ LinkInv
  BY DEF BridgeInv
<1>2. info # None => /\ info \in Infos /\ info.gen = gen /\ info.presented <= info.rev
                     /\ info.rev \in Nat /\ info.presented \in Nat /\ gen # 0
  BY <1>1 DEF BridgeTypeOK, Infos
<1>3. \A g \in Gens : snap[g] \in States /\ snap[g].presented <= snap[g].rev
  BY <1>1 DEF BridgeTypeOK, FreshInv, States
<1>4. \A g \in Gens : snap[g].rev \in Nat /\ snap[g].presented \in Nat
  BY <1>3 DEF States
<1>5. CASE info' = info
  BY <1>2, <1>5 DEF Later
<1>6. CASE Register
  <2>1. CASE appClosed
    BY <2>1 DEF Later
  <2>2. CASE ~appClosed
    <3>1. info'.gen = gen + 1
      BY <1>6, <2>2 DEF Register
    <3>2. gen \in Nat
      BY <1>1, BridgeAssumption DEF BridgeTypeOK
    <3>3. info # None => info'.gen # info.gen
      BY <1>2, <3>1, <3>2
    <3> QED
      BY <3>3 DEF Later
  <2> QED
    BY <2>1, <2>2
<1>7. ASSUME info' = ClosedEntry PROVE Later
  BY <1>2, <1>7, ClosedEntryType DEF Later
<1>8. CASE CloseEntry
  BY <1>5, <1>7, <1>8 DEF CloseEntry
<1>9. CASE CloseAll
  BY <1>5, <1>7, <1>9 DEF CloseAll
<1>10. CASE UiNotify \/ CloseNotify
  BY <1>5, <1>10 DEF UiNotify, CloseNotify
<1>11. ASSUME NEW g \in Gens, Enable(g) PROVE Later
  <2> DEFINE s == [snap[g] EXCEPT !.rev = 1]
  <2>1. shown[g] = "bound" /\ Publish(g, s)
    BY <1>11 DEF Enable
  <2>2. s \in States /\ s.rev = 1 /\ s.presented = snap[g].presented
        /\ s.closed = snap[g].closed
    BY <1>3 DEF States
  <2>3. snap[g].rev = 0
    BY <1>1, <2>1 DEF FreshInv, Blank
  <2>4. g = gen /\ ~appClosed /\ info # None =>
          info.rev = 0 /\ info.presented = snap[g].presented /\ ~info.closed
    BY <1>1, <1>2, <2>1, <2>3 DEF LinkInv
  <2>5. g = gen /\ ~appClosed /\ info # None =>
          /\ s.rev >= info.rev /\ s.presented >= info.presented
          /\ info.closed => s.closed
    BY <1>4, <2>2, <2>4
  <2> HIDE DEF s
  <2> QED
    BY <2>1, <2>2, <2>5, PublishLater
<1>12. ASSUME NEW g \in Gens, Refresh(g) PROVE Later
  <2> DEFINE s == [snap[g] EXCEPT !.rev = @ + 1]
  <2>1. shown[g] = "running" /\ Publish(g, s)
    BY <1>12 DEF Refresh
  <2>2. s \in States /\ s.rev = snap[g].rev + 1 /\ s.presented = snap[g].presented
    BY <1>3, <1>4 DEF States
  <2>3. g = gen /\ ~appClosed /\ info # None =>
          info.rev = snap[g].rev /\ info.presented = snap[g].presented /\ ~info.closed
    BY <1>1, <1>2, <2>1 DEF LinkInv
  <2>4. g = gen /\ ~appClosed /\ info # None =>
          /\ s.rev >= info.rev /\ s.presented >= info.presented
          /\ info.closed => s.closed
    BY <1>4, <2>2, <2>3
  <2> HIDE DEF s
  <2> QED
    BY <2>1, <2>2, <2>4, PublishLater
<1>13. ASSUME NEW g \in Gens, MarkPresented(g) PROVE Later
  <2> DEFINE s == [snap[g] EXCEPT !.presented = snap[g].rev]
  <2>1. shown[g] = "running" /\ Publish(g, s)
    BY <1>13 DEF MarkPresented
  <2>2. s \in States /\ s.rev = snap[g].rev /\ s.presented = snap[g].rev
    BY <1>3, <1>4 DEF States
  <2>3. g = gen /\ ~appClosed /\ info # None =>
          info.rev = snap[g].rev /\ info.presented = snap[g].presented /\ ~info.closed
    BY <1>1, <1>2, <2>1 DEF LinkInv
  <2>4. g = gen /\ ~appClosed /\ info # None =>
          /\ s.rev >= info.rev /\ s.presented >= info.presented
          /\ info.closed => s.closed
    BY <1>3, <1>4, <2>2, <2>3
  <2> HIDE DEF s
  <2> QED
    BY <2>1, <2>2, <2>4, PublishLater
<1>14. ASSUME NEW g \in Gens, CloseSemantics(g) PROVE Later
  <2> DEFINE s == [snap[g] EXCEPT !.closed = TRUE, !.rev = snap[g].rev + 1]
  <2>1. shown[g] = "closing" /\ Publish(g, s)
    BY <1>14 DEF CloseSemantics
  <2>2. snap[g].rev + 1 \in Nat
    BY <1>4
  <2>3. s \in States /\ s.rev = snap[g].rev + 1 /\ s.presented = snap[g].presented
        /\ s.closed
    BY <1>3, <2>2 DEF States
  <2>4. g = gen /\ ~appClosed /\ info # None =>
          info.rev = snap[g].rev + 1 /\ info.presented = snap[g].presented
    BY <1>1, <1>2, <2>1 DEF LinkInv
  <2>5. g = gen /\ ~appClosed /\ info # None =>
          /\ s.rev >= info.rev /\ s.presented >= info.presented
          /\ info.closed => s.closed
    BY <1>4, <2>3, <2>4
  <2> HIDE DEF s
  <2> QED
    BY <2>1, <2>3, <2>5, PublishLater
<1>15. ASSUME NEW k \in Waits, WaitBegin(k) \/ WaitResumes(k) \/ WaitTimesOut(k)
       PROVE  Later
  BY <1>5, <1>15 DEF WaitBegin, WaitResumes, WaitTimesOut
<1>16. CASE UNCHANGED bridgeVars
  BY <1>5, <1>16 DEF bridgeVars
<1> QED
  BY <1>6, <1>8, <1>9, <1>10, <1>11, <1>12, <1>13, <1>14, <1>15, <1>16 DEF BridgeNext

(* A client never meets a lower revision of a registration than one it has  *)
(* seen while the application is open, and closed stays closed.             *)
THEOREM RevisionsNeverFall == BridgeSpec => RevisionsGrow
<1>1. BridgeInv /\ [BridgeNext]_bridgeVars => [Later]_bridgeVars
  BY Latest
<1>2. [][Later]_bridgeVars => RevisionsGrow
  BY PTL DEF Later, RevisionsGrow
<1> QED
  BY <1>1, <1>2, BridgeInductive, PTL DEF BridgeSpec
==============================================================================
