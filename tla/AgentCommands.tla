---------------------------- MODULE AgentCommands ----------------------------
(***************************************************************************)
(* One window's agent command pipeline: the bounded AgentCommandQueue that *)
(* protocol connections submit to, the ticket each of them waits on, and   *)
(* the WindowAgentState that the UI thread drains inside drive_frame.      *)
(*                                                                         *)
(* Three kinds of actors interleave.  Connection threads submit, wait with *)
(* a timeout and try to withdraw.  The UI thread pops, starts and runs     *)
(* commands, then settles what is in flight.  Any thread may close the     *)
(* queue.  A command is used once: a member of Cmds is one submit call.    *)
(*                                                                         *)
(* An operator right above another one and named after it                  *)
(* is a wrong variant of it, kept to show which property would notice.     *)
(***************************************************************************)
EXTENDS Naturals, Sequences, FiniteSets

CONSTANTS
  Cmds,             (* the submit calls of a behaviour                       *)
  Req,              (* what each of them asks for                            *)
  Connection,       (* the thread each of them is submitted by               *)
  Capacity,         (* DEFAULT_AGENT_COMMAND_QUEUE_CAPACITY                  *)
  MaxSettlePasses,  (* MAX_AGENT_SETTLE_PASSES                               *)
  MaxRev,           (* bound: semantic revisions explored                    *)
  Outside,          (* bound: the kinds of outside events explored           *)
  ConfirmUi,        (* whether the application installed a confirmation UI   *)
  NoCmd, AnyRev, NoReply

Ops == {"snapshot", "perform", "guarded", "window", "screenshot", "confirm", "resolve"}

(* "guarded" is a Perform whose target the AgentPolicy marks as requiring   *)
(* confirmation.  A confirm_id is issued once, to one command, so the id of *)
(* a confirmation is the guarded command that registered it: field `of`.    *)
Request == [op : Ops, of : Cmds \cup {NoCmd}, allow : BOOLEAN]

ASSUME ReqAssumption == Req \in [Cmds -> Request]
ASSUME BoundAssumption == /\ Capacity \in Nat \ {0}
                          /\ MaxSettlePasses \in Nat \ {0}
                          /\ MaxRev \in Nat
                          /\ ConfirmUi \in BOOLEAN
                          /\ Outside \subseteq {"timeout", "hide", "ttl", "tree", "close"}
ASSUME NullAssumption == NoCmd \notin Cmds /\ AnyRev \notin Nat

Results == {"snapshot", "performed", "stale_revision", "error", "requires_confirmation",
            "not_presentable", "confirmation_not_found", "confirmation_rejected",
            "did_not_settle", "app_closed"}

ASSUME ReplyAssumption == NoReply \notin Results

VARIABLES
  queue, closed,        (* AgentQueueInner                                    *)
  life,                 (* AgentCommandLifecycle.state, "unsent" before submit *)
  reply, sends,         (* the response channel: last value, number of sends  *)
  client,               (* where the submitting connection stands             *)
  owesWake, wakeup,     (* submitters about to wake the loop; the posted wake *)
  ui, hand, budget,     (* UI thread: phase of drive_frame, popped envelope   *)
  inFlight, passes,     (* WindowAgentState.in_flight and settle_passes       *)
  confirm, waiter,      (* confirm_pending, by registering command            *)
  expect,               (* expected_revision of each command                  *)
  rev, dirty,           (* semantic revision; tree changed since the refresh  *)
  presentable,          (* agent_surface_presentable                          *)
  dispatched            (* history: how often the action reached the UI tree  *)

queueVars   == <<queue, closed>>
clientVars  == <<client, owesWake>>
replyVars   == <<reply, sends>>
confirmVars == <<confirm, waiter>>
uiVars      == <<ui, hand, budget>>
treeVars    == <<rev, dirty, dispatched>>
vars == <<queue, closed, life, reply, sends, client, owesWake, wakeup, ui, hand, budget,
          inFlight, passes, confirm, waiter, expect, rev, dirty, presentable, dispatched>>

-----------------------------------------------------------------------------
Op(c) == Req[c].op
Of(c) == Req[c].of

(* Only a screenshot needs a surface to complete.                           *)
RequiresSurface(c) == Op(c) = "screenshot"

(* Only what may change the tree carries the revision it was planned at.    *)
Expected(c) ==
  IF Op(c) \in {"perform", "guarded", "window"} THEN {AnyRev, rev} ELSE {AnyRev}

(* submit tests the room left and, before its push, whether it is first.    *)
Full == Len(queue) >= Capacity
WasEmpty == queue = <<>>
InQueue == {queue[i] : i \in DOMAIN queue}

(* send_result: every channel named by answer gets one more message.        *)
SendResults(answer) ==
  /\ reply' = [c \in Cmds |-> IF answer[c] = NoReply THEN reply[c] ELSE answer[c]]
  /\ sends' = [c \in Cmds |-> IF answer[c] = NoReply THEN sends[c] ELSE sends[c] + 1]

AnswerAll(S, result) == [c \in Cmds |-> IF c \in S THEN result ELSE NoReply]

(* WindowSemanticState::refresh: a changed tree gets the next revision.     *)
Refreshed == IF dirty THEN rev + 1 ELSE rev

(* AgentCommandLifecycle: try_start and cancel_pending race for "pending".  *)
Startable(c) == life[c] = "pending"
CancelAnyway(c) == life' = [life EXCEPT ![c] = "cancelled"]
CancelPending(c) == life' = [life EXCEPT ![c] = IF @ = "pending" THEN "cancelled" ELSE @]

Init ==
  /\ queue = <<>> /\ closed = FALSE
  /\ life = [c \in Cmds |-> "unsent"]
  /\ reply = [c \in Cmds |-> NoReply]
  /\ sends = [c \in Cmds |-> 0]
  /\ client = [c \in Cmds |-> "idle"]
  /\ owesWake = {} /\ wakeup = FALSE
  /\ ui = "blocked" /\ hand = NoCmd /\ budget = 0
  /\ inFlight = {} /\ passes = 0
  /\ confirm = [c \in Cmds |-> "none"]
  /\ waiter = [c \in Cmds |-> NoCmd]
  /\ expect = [c \in Cmds |-> AnyRev]
  /\ rev = 0 /\ dirty = FALSE
  /\ presentable \in BOOLEAN
  /\ dispatched = [c \in Cmds |-> 0]

-----------------------------------------------------------------------------
(* Connection threads and the host application.                             *)

(* A thread submits again once it has posted its wake and has its answer.   *)
Idle(c) ==
  /\ c \notin owesWake /\ client[c] # "timedOut"
  /\ client[c] = "waiting" => reply[c] # NoReply

Turn(c) ==
  /\ life[c] = "unsent" /\ client[c] = "idle"
  /\ \A d \in Cmds : Connection[d] = Connection[c] => Idle(d)

(* A full queue refuses, and so does a closed one.                          *)
SubmitRefused(c) ==
  /\ Turn(c)
  /\ closed \/ Full
  /\ client' = [client EXCEPT ![c] = "refused"]
  /\ UNCHANGED <<queueVars, life, replyVars, owesWake, wakeup, uiVars, inFlight, passes,
                 confirmVars, expect, treeVars, presentable>>

(* The first command of an empty queue obliges its submitter to wake the    *)
(* loop, after the lock is gone.  A host decision detaches its ticket.      *)
SubmitAccepted(c) ==
  /\ Turn(c)
  /\ ~closed /\ ~Full
  /\ queue' = Append(queue, c)
  /\ life' = [life EXCEPT ![c] = "pending"]
  /\ owesWake' = IF WasEmpty THEN owesWake \cup {c} ELSE owesWake
  /\ client' = [client EXCEPT ![c] = IF Op(c) = "resolve" THEN "detached" ELSE "waiting"]
  /\ \E e \in Expected(c) : expect' = [expect EXCEPT ![c] = e]
  /\ UNCHANGED <<closed, replyVars, wakeup, uiVars, inFlight, passes, confirmVars,
                 treeVars, presentable>>

PostWake(c) ==
  /\ c \in owesWake
  /\ owesWake' = owesWake \ {c}
  /\ wakeup' = TRUE
  /\ UNCHANGED <<queueVars, life, replyVars, client, uiVars, inFlight, passes, confirmVars,
                 expect, treeVars, presentable>>

(* recv_timeout returns Timeout; the withdrawal is a later, separate step.  *)
(* (Receiving an answer changes nothing more: the ticket dropped with it    *)
(* finds its command started, or closed and out of the queue.)              *)
RecvTimeout(c) ==
  /\ "timeout" \in Outside
  /\ client[c] = "waiting" /\ reply[c] = NoReply
  /\ client' = [client EXCEPT ![c] = "timedOut"]
  /\ UNCHANGED <<queueVars, life, replyVars, owesWake, wakeup, uiVars, inFlight, passes,
                 confirmVars, expect, treeVars, presentable>>

(* The protocol's answer after a timeout: snapshot and screenshot always    *)
(* say timeout, the others say outcome_unknown once the command started.    *)
TimeoutReply(c) ==
  /\ client[c] = "timedOut"
  /\ CancelPending(c)
  /\ client' = [client EXCEPT ![c] =
        IF life[c] = "pending" \/ Op(c) \in {"snapshot", "screenshot"}
        THEN "timeout" ELSE "outcome_unknown"]
  /\ UNCHANGED <<queueVars, replyVars, owesWake, wakeup, uiVars, inFlight, passes,
                 confirmVars, expect, treeVars, presentable>>

(* AgentCommandQueue::close from any thread: the queued are told app_closed.*)
CloseQueue ==
  /\ "close" \in Outside
  /\ ~closed
  /\ closed' = TRUE
  /\ queue' = <<>>
  /\ SendResults(AnswerAll(InQueue, "app_closed"))
  /\ UNCHANGED <<life, clientVars, wakeup, uiVars, inFlight, passes, confirmVars, expect,
                 treeVars, presentable>>

-----------------------------------------------------------------------------
(* The UI thread: the event loop and the agent part of drive_frame.         *)

WokenTurn ==
  /\ ui = "blocked" /\ wakeup
  /\ ui' = "turn" /\ wakeup' = FALSE
  /\ UNCHANGED <<queueVars, life, replyVars, clientVars, hand, budget, inFlight, passes,
                 confirmVars, expect, treeVars, presentable>>

(* Input, a timer or a frame opportunity ends the wait instead.             *)
OtherTurn ==
  /\ ui = "blocked" /\ ~wakeup
  /\ ui' = "turn"
  /\ UNCHANGED <<queueVars, life, replyVars, clientVars, wakeup, hand, budget, inFlight,
                 passes, confirmVars, expect, treeVars, presentable>>

(* drain_ready: nothing is popped while an earlier action has not settled.  *)
DrainBegin ==
  /\ ui = "turn"
  /\ IF inFlight # {} THEN ui' = "settle" /\ UNCHANGED budget
                      ELSE ui' = "drain" /\ budget' = Len(queue)
  /\ UNCHANGED <<queueVars, life, replyVars, clientVars, wakeup, hand, inFlight, passes,
                 confirmVars, expect, treeVars, presentable>>

DrainPop ==
  /\ ui = "drain" /\ budget > 0 /\ queue # <<>>
  /\ hand' = Head(queue) /\ queue' = Tail(queue)
  /\ budget' = budget - 1
  /\ ui' = "exec"
  /\ UNCHANGED <<closed, life, replyVars, clientVars, wakeup, inFlight, passes,
                 confirmVars, expect, treeVars, presentable>>

DrainEnd ==
  /\ ui = "drain" /\ (budget = 0 \/ queue = <<>>)
  /\ ui' = "settle" /\ budget' = 0
  /\ UNCHANGED <<queueVars, life, replyVars, clientVars, wakeup, hand, inFlight,
                 passes, confirmVars, expect, treeVars, presentable>>

(* try_start loses the race to the ticket's cancel_pending.                 *)
Skip ==
  /\ ui = "exec" /\ ~Startable(hand)
  /\ ui' = "drain" /\ hand' = NoCmd
  /\ UNCHANGED <<queueVars, life, replyVars, clientVars, wakeup, budget, inFlight, passes,
                 confirmVars, expect, treeVars, presentable>>

NextEnvelopeGoesOn == hand' = NoCmd /\ ui' = "drain" /\ UNCHANGED <<passes, budget>>
(* After a command ran: the loop breaks once something is in flight.        *)
NextEnvelope ==
  /\ hand' = NoCmd
  /\ IF inFlight' # {} THEN ui' = "settle" /\ passes' = 0 /\ budget' = 0
                       ELSE ui' = "drain" /\ UNCHANGED <<passes, budget>>

(* The tree moves on with the refresh, and an action may change it again.   *)
RefreshTree(acted) ==
  /\ rev' = Refreshed
  /\ dirty' \in (IF acted /\ Refreshed < MaxRev THEN BOOLEAN ELSE {FALSE})

StaleBeforeRefresh(c) == expect[c] \notin {AnyRev, rev}
StaleFor(c) == expect[c] \notin {AnyRev, Refreshed}

(* AgentCommandExecutorImpl: an action is refused before it reaches the     *)
(* tree, or dispatched and then refused, or dispatched and accepted.        *)
Verdicts(c) == IF StaleFor(c) THEN {"stale_revision"} ELSE {"rejected", "failed", "ok"}
ErrorOf(verdict) == IF verdict = "stale_revision" THEN verdict ELSE "error"
Dispatch(c, verdict) ==
  /\ dispatched' = [dispatched EXCEPT ![c] = IF verdict \in {"failed", "ok"} THEN @ + 1 ELSE @]
  /\ RefreshTree(verdict \in {"failed", "ok"})

RunSnapshot ==
  /\ Op(hand) = "snapshot"
  /\ SendResults(AnswerAll({hand}, "snapshot"))
  /\ RefreshTree(FALSE)
  /\ UNCHANGED <<inFlight, confirmVars, dispatched>>

(* The commands the policy lets through without asking the user.           *)
DirectOps == {"perform", "window"}

RunPerform ==
  /\ Op(hand) \in DirectOps
  /\ \E verdict \in Verdicts(hand) :
       /\ Dispatch(hand, verdict)
       /\ IF verdict = "ok"
          THEN inFlight' = inFlight \cup {hand} /\ UNCHANGED replyVars
          ELSE SendResults(AnswerAll({hand}, ErrorOf(verdict))) /\ UNCHANGED inFlight
  /\ UNCHANGED confirmVars

(* The policy stops a guarded action and registers it for the user.         *)
RunGuarded ==
  /\ Op(hand) = "guarded"
  /\ \/ /\ ~StaleFor(hand)
        /\ confirm' = [confirm EXCEPT ![hand] = "open"]
        /\ SendResults(AnswerAll({hand}, "requires_confirmation"))
     \/ /\ SendResults(AnswerAll({hand}, IF StaleFor(hand) THEN "stale_revision" ELSE "error"))
        /\ UNCHANGED confirm
  /\ RefreshTree(FALSE)
  /\ UNCHANGED <<inFlight, waiter, dispatched>>

RunScreenshot ==
  /\ Op(hand) = "screenshot"
  /\ \/ presentable /\ inFlight' = inFlight \cup {hand} /\ UNCHANGED replyVars
     \/ /\ SendResults(AnswerAll({hand}, IF presentable THEN "error" ELSE "not_presentable"))
        /\ UNCHANGED inFlight
  /\ RefreshTree(FALSE)
  /\ UNCHANGED <<confirmVars, dispatched>>

(* expire_confirmations runs first in both confirmation handlers.           *)
Expired == {p \in Cmds : confirm[p] = "overdue"}
WaitingForgotten(S) == {}
Waiting(S) == {waiter[p] : p \in S} \ {NoCmd}
Unregister(S) == /\ confirm' = [p \in Cmds |-> IF p \in S THEN "gone" ELSE confirm[p]]
                 /\ waiter' = [p \in Cmds |-> IF p \in S THEN NoCmd ELSE waiter[p]]

(* A confirm_id still names an action to decide about.                      *)
UndecidedIgnoringTtl(p) == p \in Cmds /\ confirm[p] \in {"open", "overdue"}
Undecided(p) == p \in Cmds /\ confirm[p] = "open"
AllowedAlways(r) == TRUE
Allowed(r) == Req[r].allow

(* handle_confirm_request.                                                  *)
RunConfirm ==
  /\ Op(hand) = "confirm"
  /\ LET p == Of(hand) IN
     IF Undecided(p) /\ waiter[p] = NoCmd
     THEN IF ConfirmUi
          THEN /\ confirm' = [q \in Cmds |-> IF q \in Expired THEN "gone" ELSE confirm[q]]
               /\ waiter' = [q \in Cmds |-> IF q = p THEN hand
                                            ELSE IF q \in Expired THEN NoCmd ELSE waiter[q]]
               /\ SendResults(AnswerAll(Waiting(Expired), "confirmation_not_found"))
          ELSE /\ Unregister(Expired \cup {p})
               /\ SendResults(AnswerAll(Waiting(Expired) \cup {hand}, "confirmation_not_found"))
     ELSE /\ Unregister(Expired)
          /\ SendResults(AnswerAll(Waiting(Expired) \cup {hand}, "confirmation_not_found"))
  /\ RefreshTree(FALSE)
  /\ UNCHANGED <<inFlight, dispatched>>

(* handle_resolve_confirmation: the decision is spent whatever it leads to. *)
RunResolve ==
  /\ Op(hand) = "resolve"
  /\ LET p == Of(hand)
         held == IF p \in Cmds THEN {waiter[p]} \ {NoCmd} ELSE {}
         answer(toHost, toWaiter) ==
           [c \in Cmds |-> IF c \in Waiting(Expired) THEN "confirmation_not_found"
                           ELSE IF c \in held THEN toWaiter
                           ELSE IF c = hand THEN toHost ELSE NoReply]
     IN IF Undecided(p)
        THEN /\ Unregister(Expired \cup {p})
             /\ IF Allowed(hand)
                THEN \E verdict \in Verdicts(p) :
                       /\ Dispatch(p, verdict)
                       /\ IF verdict = "ok"
                          THEN /\ inFlight' = inFlight \cup {hand} \cup held
                               /\ SendResults(answer(NoReply, NoReply))
                          ELSE /\ SendResults(answer(ErrorOf(verdict), ErrorOf(verdict)))
                               /\ UNCHANGED inFlight
                ELSE /\ SendResults(answer("performed", "confirmation_rejected"))
                     /\ RefreshTree(FALSE)
                     /\ UNCHANGED <<inFlight, dispatched>>
        ELSE /\ Unregister(Expired)
             /\ SendResults(AnswerAll(Waiting(Expired) \cup {hand}, "confirmation_not_found"))
             /\ RefreshTree(FALSE)
             /\ UNCHANGED <<inFlight, dispatched>>

(* try_start wins, and the command runs on the UI thread at once.           *)
Run ==
  /\ ui = "exec" /\ Startable(hand)
  /\ life' = [life EXCEPT ![hand] = "started"]
  /\ RunSnapshot \/ RunPerform \/ RunGuarded \/ RunScreenshot \/ RunConfirm \/ RunResolve
  /\ NextEnvelope
  /\ UNCHANGED <<queueVars, clientVars, wakeup, expect, presentable>>

-----------------------------------------------------------------------------
(* finish_or_defer for what is in flight: `sync` says synchronous work is   *)
(* still pending.  After MaxSettlePasses such passes the command gives up.  *)
FinishOrDeferForever(sync) ==
  IF sync THEN UNCHANGED <<passes, inFlight, replyVars>>
  ELSE inFlight' = {} /\ passes' = 0 /\ SendResults(AnswerAll(inFlight, "performed"))
FinishOrDeferKeeping(sync) ==
  /\ passes' = IF sync /\ passes + 1 < MaxSettlePasses THEN passes + 1 ELSE 0
  /\ IF passes' > 0 THEN UNCHANGED replyVars
     ELSE SendResults(AnswerAll(inFlight, IF sync THEN "did_not_settle" ELSE "performed"))
  /\ UNCHANGED inFlight
FinishOrDefer(sync) ==
  IF sync /\ passes + 1 < MaxSettlePasses
  THEN /\ passes' = passes + 1
       /\ UNCHANGED <<inFlight, replyVars>>
  ELSE /\ inFlight' = {} /\ passes' = 0
       /\ SendResults(AnswerAll(inFlight, IF sync THEN "did_not_settle" ELSE "performed"))

Background == {c \in inFlight : ~RequiresSurface(c)}

(* A turn without a surface settles background actions, then fails what is  *)
(* still waiting for one (fail_not_presentable).                            *)
SettleHidden ==
  /\ ~presentable
  /\ IF Background # {}
     THEN \E sync \in BOOLEAN : FinishOrDefer(sync) /\ RefreshTree(FALSE)
     ELSE /\ SendResults(AnswerAll(inFlight, "not_presentable"))
          /\ inFlight' = {}
          /\ passes' = 0
          /\ UNCHANGED <<rev, dirty>>

(* observe_agent_settle of a turn that goes on: one that got no frame       *)
(* opportunity refreshes only when nothing synchronous is pending.          *)
ObserveSettle ==
  IF inFlight # {}
  THEN \E sync \in BOOLEAN :
         /\ FinishOrDefer(sync)
         /\ RefreshTree(FALSE) \/ (sync /\ UNCHANGED <<rev, dirty>>)
  ELSE RefreshTree(FALSE) /\ UNCHANGED <<inFlight, passes, replyVars>>

(* The end of drive_frame: the loop polls on while the agent has work.      *)
EndTurn == ui' = IF inFlight' # {} \/ queue # <<>> THEN "turn" ELSE "blocked"

(* A hidden turn may reach a second observation: the platform window is     *)
(* there but the frame scheduler is recovering, so no opportunity is due.   *)
Settle ==
  /\ ui \in {"settle", "again"}
  /\ \/ ui = "settle" /\ SettleHidden /\ (EndTurn \/ ui' = "again")
     \/ (ui = "settle" => presentable) /\ ObserveSettle /\ EndTurn
  /\ UNCHANGED <<queueVars, life, clientVars, wakeup, hand, budget, confirmVars, expect,
                 presentable, dispatched>>

(* Everything confirm_pending still holds, overdue or not.                  *)
RegisteredInTime == {p \in Cmds : confirm[p] = "open"}
Registered == {p \in Cmds : confirm[p] \in {"open", "overdue"}}

(* WindowAgentState::close, at fail-stop or when the session shuts down.    *)
CloseWindow ==
  /\ "close" \in Outside /\ ui \in {"turn", "settle", "again"}
  /\ closed' = TRUE /\ queue' = <<>>
  /\ SendResults([c \in Cmds |-> IF c \in InQueue \cup inFlight THEN "app_closed"
                                 ELSE IF c \in Waiting(Registered) THEN "confirmation_not_found"
                                 ELSE NoReply])
  /\ Unregister(Registered)
  /\ inFlight' = {} /\ passes' = 0
  /\ ui' = "gone"
  /\ UNCHANGED <<life, clientVars, wakeup, hand, budget, expect, treeVars, presentable>>

-----------------------------------------------------------------------------
(* What the rest of the application does to this state, between turns.      *)

TreeChanges ==
  /\ "tree" \in Outside /\ ui \in {"turn", "settle"} /\ ~dirty /\ rev < MaxRev
  /\ dirty' = TRUE
  /\ UNCHANGED <<queueVars, life, replyVars, clientVars, wakeup, uiVars, inFlight, passes,
                 confirmVars, expect, rev, presentable, dispatched>>

SurfaceChanges ==
  /\ "hide" \in Outside /\ ui = "turn"
  /\ presentable' = ~presentable
  /\ UNCHANGED <<queueVars, life, replyVars, clientVars, wakeup, uiVars, inFlight, passes,
                 confirmVars, expect, treeVars>>

(* MAX_AGENT_CONFIRM_TTL elapses for a registered confirmation.             *)
TtlElapses(p) ==
  /\ "ttl" \in Outside /\ confirm[p] = "open"
  /\ confirm' = [confirm EXCEPT ![p] = "overdue"]
  /\ UNCHANGED <<queueVars, life, replyVars, clientVars, wakeup, uiVars, inFlight, passes,
                 waiter, expect, treeVars, presentable>>

UiStep == WokenTurn \/ DrainBegin \/ DrainPop \/ DrainEnd \/ Skip \/ Run \/ Settle

Next ==
  \/ \E c \in Cmds : \/ SubmitRefused(c) \/ SubmitAccepted(c) \/ PostWake(c)
                     \/ RecvTimeout(c) \/ TimeoutReply(c) \/ TtlElapses(c)
  \/ CloseQueue
  \/ UiStep \/ OtherTurn \/ CloseWindow
  \/ TreeChanges \/ SurfaceChanges

Spec == Init /\ [][Next]_vars

(* The platform loop keeps turning while it is awake, and a submitter that  *)
(* owes a wake is a running thread two instructions from posting it.        *)
FairSpec == /\ Spec
            /\ WF_vars(UiStep)
            /\ \A c \in Cmds : WF_vars(PostWake(c))
-----------------------------------------------------------------------------
(* Properties.                                                             *)

ClientStates == {"idle", "refused", "waiting", "detached", "timedOut",
                 "timeout", "outcome_unknown"}
UiPhases == {"blocked", "turn", "drain", "exec", "settle", "again", "gone"}

(* Every variable of the pipeline has its type; the queue never exceeds its *)
(* capacity, and a settling command never reaches the pass limit.           *)
TypeOK ==
  /\ queue \in Seq(Cmds) /\ Len(queue) <= Capacity /\ closed \in BOOLEAN
  /\ life \in [Cmds -> {"unsent", "pending", "started", "cancelled"}]
  /\ reply \in [Cmds -> Results \cup {NoReply}] /\ sends \in [Cmds -> Nat]
  /\ client \in [Cmds -> ClientStates]
  /\ owesWake \subseteq Cmds /\ wakeup \in BOOLEAN
  /\ ui \in UiPhases /\ hand \in Cmds \cup {NoCmd} /\ budget \in Nat
  /\ inFlight \subseteq Cmds /\ passes \in 0 .. MaxSettlePasses - 1
  /\ confirm \in [Cmds -> {"none", "open", "overdue", "gone"}]
  /\ waiter \in [Cmds -> Cmds \cup {NoCmd}]
  /\ expect \in [Cmds -> Nat \cup {AnyRev}]
  /\ rev \in Nat /\ dirty \in BOOLEAN /\ presentable \in BOOLEAN
  /\ dispatched \in [Cmds -> Nat]

Contract == INSTANCE AgentCommandContract
              WITH answers <- sends, answer <- reply, effect <- dispatched

(* The pipeline keeps the contract with its clients: through withdrawals,   *)
(* confirmations, decisions that come twice, expiry and closing no command  *)
(* is answered twice, an action runs once, and nobody is told that an       *)
(* action was done or refused when it was not.                              *)
ClientContract == Contract!Spec

(* The response channel holds one message, so a second send for the same    *)
(* command would block the UI thread on a ticket that is still alive.       *)
AtMostOneAnswer == \A c \in Cmds : sends[c] <= 1

HeldByUi(c) == hand = c \/ c \in inFlight \/ \E p \in Cmds : waiter[p] = c

(* No sender is dropped on the way: a command that was not withdrawn and    *)
(* has no answer is still in the queue, in the UI thread's hand, in flight  *)
(* or parked on a confirmation (so a ticket never sees Disconnected).       *)
NoAnswerLost ==
  \A c \in Cmds : life[c] \in {"pending", "started"} /\ sends[c] = 0
                    => c \in InQueue \/ HeldByUi(c)

(* A mutating command answered with a plain timeout was withdrawn, and a    *)
(* withdrawn command never touches the tree, registers no confirmation and  *)
(* holds up nothing, whatever the UI thread does later: it can be retried.  *)
WithdrawnNeverRuns ==
  \A c \in Cmds :
    /\ client[c] = "timeout" /\ Op(c) \notin {"snapshot", "screenshot"}
         => life[c] = "cancelled"
    /\ life[c] = "cancelled"
         => dispatched[c] = 0 /\ confirm[c] = "none" /\ c \notin inFlight

(* No action reaches the tree twice, not even a guarded one whose user      *)
(* answers several times.                                                   *)
DispatchedOnce == \A c \in Cmds : dispatched[c] <= 1

(* A guarded action reaches the tree only if the user allowed that very     *)
(* action: a started resolve with allow names it.                           *)
GuardedNeedsUser ==
  \A c \in Cmds : Op(c) = "guarded" /\ dispatched[c] > 0
                    => \E r \in Cmds : /\ Op(r) = "resolve" /\ Of(r) = c
                                       /\ Req[r].allow /\ life[r] = "started"

(* Settle barrier: while an action awaits reconcile, layout and refresh, no *)
(* other command starts, so none runs against the tree it left behind.      *)
SettleBarrier ==
  [][inFlight # {} => \A c \in Cmds : life[c] = "pending" => life'[c] # "started"]_vars

(* An action reaches the tree only at the revision its command expected,    *)
(* also when the user confirms it many turns after it was submitted.        *)
FreshDispatch ==
  [][\A c \in Cmds : dispatched'[c] > dispatched[c] => expect[c] \in {AnyRev, rev'}]_vars

(* An approval that arrives after the confirmation's TTL runs nothing.      *)
ApprovalWithinTtl ==
  [][\A c \in Cmds : confirm[c] = "overdue" => dispatched'[c] = dispatched[c]]_vars

(* The loop never sleeps on queued work: a wake is posted or some submitter *)
(* is still about to post it, though only the first one of a batch does.    *)
NoLostWake ==
  ui = "blocked" /\ queue # <<>> => wakeup \/ owesWake # {}

(* Closing the window leaves no ticket hanging: whatever was accepted and   *)
(* not withdrawn has its answer, parked confirmations included.             *)
ClosedAnswersAll ==
  ui = "gone" => \A c \in Cmds : life[c] \in {"pending", "started"} => sends[c] = 1

(* Every accepted command is answered, withdrawn or parked for the user,    *)
(* however long synchronous work stays pending and the surface stays away.  *)
EveryCommandAnswered ==
  \A c \in Cmds : life[c] = "pending" ~> \/ sends[c] > 0
                                           \/ life[c] = "cancelled"
                                           \/ \E p \in Cmds : waiter[p] = c
=============================================================================
