------------------------------- MODULE ModuleWorker -------------------------------
(***********************************************************************************)
(* The worker thread of a language module (src/lang/runtime/worker.rs) with the     *)
(* completion slots of its asynchronous ports (async_port.rs), the cancellation     *)
(* tokens (control.rs) and what of an instance the worker's decisions depend on     *)
(* (execute.rs, execute/tasks.rs).                                                  *)
(*                                                                                 *)
(* Handles submit requests into a bounded channel and wake the worker; the worker   *)
(* owns the instance, answers each request over a channel of its own and publishes  *)
(* a snapshot others read.  Revoke and close come from any thread in three steps:   *)
(* the life cycle, the cancellation, the snapshot.  A request is its sequence       *)
(* number.                                                                         *)
(***********************************************************************************)
EXTENDS Integers, Sequences, FiniteSets, FiniteSetsExt

CONSTANTS Callers,          \* threads that submit
          Stages,           \* how it is ended: "revoke", "close"
          Kinds,            \* what they submit: "sync", "async", "replace"
          ModuleCapacity,   \* of the channel, and of the tasks in flight
          MaxSeq,           \* bound: requests accepted in a behaviour
          MaxAwaits,        \* bound: awaits in a behaviour
          MaxCancels        \* bound: requests cancelled one by one

ASSUME WorkerAssumption ==
  /\ Stages \subseteq {"revoke", "close"}
  /\ Kinds \subseteq {"sync", "async", "replace"}
  /\ ModuleCapacity \in Nat \ {0} /\ MaxSeq \in Nat /\ MaxAwaits \in Nat /\ MaxCancels \in Nat

VARIABLES
  life,       \* Shared.lifecycle: 0, 1 revoked, 2 closed
  flag,       \* the flag of Shared.cancellation, parent of every request's
  control,    \* where revoke and close are
  snap,       \* Shared.snapshot
  next,       \* Shared.next
  caller,     \* whether a caller has passed the check of submit
  chan,       \* the requests in the channel, each with what it is
  cancelled,  \* requests whose own cancellation flag is up
  cancels,    \* how many of them were cancelled by a handle
  answer,     \* what was sent over the reply channel of s
  inFlight,   \* the tasks in flight
  task,       \* the task of s with its completion slot
  stopped,    \* tasks a replacement stops and has not answered yet
  at,         \* where the worker is, with which request and result
  token,      \* the worker's unpark token
  owed        \* whether a wake whose cause is there is still to be made

workerVars == <<life, flag, control, snap, next, caller, chan, cancelled, cancels, answer,
          inFlight, task, stopped, at, token, owed>>
handleVars == <<life, flag, control, next, caller, cancels>>
instanceVars == <<inFlight, task, stopped>>

Seqs == 1..MaxSeq
\* A task knows whether the revision of its last fragment is still that of the instance; the
\* generation is, because a replacement takes every task out of flight.  A slot is "made" until the
\* port has its completion handle; "ready" stands for a value and for an error, which drive
\* returns at once.
NoTask == [fresh |-> FALSE, slot |-> "none", late |-> FALSE]
Slots == {"none", "made", "pending", "ready", "consumed", "closed"}
WorkerPlaces == {"top", "sync", "async", "replace", "stop", "receipts", "drive", "begin",
           "start", "port", "publish", "reply", "scan", "parked",
           "exit", "closing", "done"}

WorkerTypeOK ==
  /\ life \in 0..2
  /\ flag \in BOOLEAN
  /\ control \in [Stages -> {"idle", "set", "cancelled", "done"}]
  /\ snap \in [active : BOOLEAN, shown : BOOLEAN, seq : 0..MaxSeq, pend : SUBSET Seqs]
  /\ next \in 0..MaxSeq
  /\ caller \in [Callers -> {"idle", "checked"}]
  /\ chan \in Seq([seq : Seqs, kind : Kinds])
  /\ cancelled \subseteq Seqs
  /\ cancels \in 0..MaxCancels
  /\ answer \in [Seqs -> {"none", "sent", "dropped"}]
  /\ inFlight \subseteq Seqs
  /\ task \in [Seqs -> [fresh : BOOLEAN, slot : Slots, late : BOOLEAN]]
  /\ stopped \subseteq Seqs
  /\ at \in [pc : WorkerPlaces, seq : 0..MaxSeq, progressed : BOOLEAN, awaits : 0..MaxAwaits]
  /\ token \in BOOLEAN
  /\ owed \in BOOLEAN

WorkerInit ==
  /\ life = 0 /\ flag = FALSE
  /\ control = [c \in Stages |-> "idle"]
  /\ snap = [active |-> TRUE, shown |-> TRUE, seq |-> 0, pend |-> {}]
  /\ next = 0
  /\ caller = [c \in Callers |-> "idle"]
  /\ chan = <<>>
  /\ cancelled = {} /\ cancels = 0
  /\ answer = [s \in Seqs |-> "none"]
  /\ inFlight = {}
  /\ task = [s \in Seqs |-> NoTask]
  /\ stopped = {}
  /\ at = [pc |-> "top", seq |-> 0, progressed |-> FALSE, awaits |-> 0]
  /\ token = FALSE
  /\ owed = FALSE

-----------------------------------------------------------------------------------
(* What the threads test *)

\* Cancellation::is_cancelled of a request: its own flag or its parent's.
IsCancelled(s) == flag \/ s \in cancelled

\* Pending::terminal
Terminal(s) == IsCancelled(s) \/ task[s].late

\* CompletionSlot::complete takes a result.
Accepts(s) == task[s].slot = "pending" /\ ~IsCancelled(s)

HasResult(s) == task[s].slot = "ready"

\* What run looks for among the tasks in flight.
Ready(s) == Terminal(s) \/ HasResult(s)

-----------------------------------------------------------------------------------
(* Handles: submit, cancel, revoke, close; each wakes the worker afterwards *)

SubmitCheck(c) ==
  /\ caller[c] = "idle" /\ next < MaxSeq
  /\ life = 0
  /\ caller' = [caller EXCEPT ![c] = "checked"]
  /\ UNCHANGED <<life, flag, control, snap, next, chan, cancelled, cancels, answer,
                 instanceVars, at, token, owed>>

\* The number, the try_send and the wake are under the lock of `next`.
SubmitSendSilent(c, k) ==
  /\ caller[c] = "checked"
  /\ next < MaxSeq /\ Len(chan) < ModuleCapacity /\ at.pc # "done"
  /\ next' = next + 1
  /\ chan' = Append(chan, [seq |-> next + 1, kind |-> k])
  /\ caller' = [caller EXCEPT ![c] = "idle"]
  /\ UNCHANGED <<life, flag, control, snap, cancelled, cancels, answer, instanceVars, at, token,
                 owed>>
SubmitSend(c, k) ==
  /\ caller[c] = "checked"
  /\ next < MaxSeq /\ Len(chan) < ModuleCapacity /\ at.pc # "done"
  /\ next' = next + 1
  /\ chan' = Append(chan, [seq |-> next + 1, kind |-> k])
  /\ caller' = [caller EXCEPT ![c] = "idle"]
  /\ owed' = TRUE
  /\ UNCHANGED <<life, flag, control, snap, cancelled, cancels, answer, instanceVars, at, token>>

\* The channel is full, or its receiver is gone: nothing is taken, no number is used up.
SubmitRefused(c) ==
  /\ caller[c] = "checked"
  /\ Len(chan) >= ModuleCapacity \/ at.pc = "done" \/ next >= MaxSeq
  /\ caller' = [caller EXCEPT ![c] = "idle"]
  /\ UNCHANGED <<life, flag, control, snap, next, chan, cancelled, cancels, answer,
                 instanceVars, at, token, owed>>

\* ModuleRequest.cancellation.cancel()
CancelRequest(s) ==
  /\ s <= next /\ answer[s] = "none" /\ s \notin cancelled
  /\ cancels < MaxCancels
  /\ cancelled' = cancelled \union {s}
  /\ cancels' = cancels + 1
  /\ owed' = TRUE
  /\ UNCHANGED <<life, flag, control, snap, next, caller, chan, answer, instanceVars, at,
                 token>>

\* revoke raises the life cycle, close sets it.
ControlSet(c) ==
  /\ control[c] = "idle"
  /\ life' = IF c = "close" THEN 2 ELSE Max({life, 1})
  /\ control' = [control EXCEPT ![c] = "set"]
  /\ UNCHANGED <<flag, snap, next, caller, chan, cancelled, cancels, answer, instanceVars,
                 at, token, owed>>

\* Cancellation::cancel of the parent.
ControlCancel(c) ==
  /\ control[c] = "set"
  /\ flag' = TRUE
  /\ control' = [control EXCEPT ![c] = "cancelled"]
  /\ owed' = TRUE
  /\ UNCHANGED <<life, snap, next, caller, chan, cancelled, cancels, answer, instanceVars,
                 at, token>>

\* mark_terminal, up to the wake.
MarkTerminal(c) ==
  /\ control[c] = "cancelled"
  /\ snap' = [snap EXCEPT !.active = FALSE, !.shown = FALSE, !.pend = {}]
  /\ control' = [control EXCEPT ![c] = "done"]
  /\ owed' = TRUE
  /\ UNCHANGED <<life, flag, next, caller, chan, cancelled, cancels, answer, instanceVars,
                 at, token>>

\* Cancellation::wake of whoever owes one.
Wake ==
  /\ owed /\ owed' = FALSE
  /\ token' = TRUE
  /\ UNCHANGED <<handleVars, snap, chan, cancelled, answer, instanceVars, at>>

-----------------------------------------------------------------------------------
(* Hosts and time *)

\* A host hands a result back, or drops the last completion handle, which counts as a failure.
Complete(s) ==
  /\ Accepts(s)
  /\ task' = [task EXCEPT ![s].slot = "ready"]
  /\ owed' = TRUE
  /\ UNCHANGED <<handleVars, snap, chan, cancelled, answer, inFlight, stopped, at, token>>

\* The time a task may take in all is over.
Expire(s) ==
  /\ s \in inFlight /\ ~task[s].late
  /\ task' = [task EXCEPT ![s].late = TRUE]
  /\ UNCHANGED <<handleVars, snap, chan, cancelled, answer, inFlight, stopped, at, token, owed>>

-----------------------------------------------------------------------------------
(* The worker: publishing and answering *)

\* Shared::publish with the tasks p in flight: under the lock of the snapshot it looks at the
\* life cycle again.
PublishedUnchecked(p, s) ==
  [snap EXCEPT !.seq = Max({snap.seq, s}), !.pend = p, !.shown = TRUE]
Published(p, s) ==
  IF life = 0
  THEN [snap EXCEPT !.seq = Max({snap.seq, s}), !.pend = p, !.shown = TRUE]
  ELSE snap

Go(pc) == at' = [at EXCEPT !.pc = pc]

\* After a request of the channel the tasks are looked at, after a task the round is over.
AfterAnswer == [at EXCEPT !.pc = IF at.progressed THEN "top" ELSE "scan", !.seq = 0,
                          !.progressed = ~at.progressed]

\* Pending::stop: the cancellation flag goes up, which wakes the worker itself, and a slot
\* somebody may still complete is closed.
StopTask(s) ==
  /\ cancelled' = cancelled \union {s}
  /\ token' = TRUE
  /\ task' = [task EXCEPT ![s].slot = IF task[s].slot = "none" THEN "none" ELSE "closed"]

FinishPublish ==
  /\ at.pc = "publish"
  /\ snap' = Published(inFlight, at.seq)
  /\ Go("reply")
  /\ UNCHANGED <<handleVars, chan, cancelled, answer, instanceVars, token, owed>>

\* The task is dropped; its slot lives on in the handles of its host.
FinishReply ==
  /\ at.pc = "reply"
  /\ answer' = [answer EXCEPT ![at.seq] = "sent"]
  /\ task' = [task EXCEPT ![at.seq] = [NoTask EXCEPT !.slot = IF task[at.seq].slot = "pending" THEN "pending" ELSE "closed"]]
  /\ at' = AfterAnswer
  /\ UNCHANGED <<handleVars, snap, chan, cancelled, inFlight, stopped, token, owed>>

-----------------------------------------------------------------------------------
(* The worker: one round of run *)

\* The round begins with the life cycle; the tasks in flight wait for the next one.
Ended ==
  /\ at.pc = "top"
  /\ life # 0
  /\ Go("exit")
  /\ UNCHANGED <<handleVars, snap, chan, cancelled, answer, instanceVars, token, owed>>

Receive ==
  /\ at.pc = "top"
  /\ life = 0 /\ chan # <<>>
  /\ at' = [at EXCEPT !.pc = Head(chan).kind, !.seq = Head(chan).seq]
  /\ chan' = Tail(chan)
  /\ UNCHANGED <<handleVars, snap, cancelled, answer, instanceVars, token, owed>>

ReceiveNone ==
  /\ at.pc = "top"
  /\ life = 0 /\ chan = <<>>
  /\ Go("scan")
  /\ UNCHANGED <<handleVars, snap, chan, cancelled, answer, instanceVars, token, owed>>

\* The smallest ready task is driven; with none, the worker parks unless this round did something.
ScanReady ==
  /\ at.pc = "scan"
  /\ \E s \in inFlight : Ready(s)
  /\ LET s == Min({o \in inFlight : Ready(o)}) IN
       /\ inFlight' = inFlight \ {s}
       /\ at' = [at EXCEPT !.pc = "drive", !.seq = s, !.progressed = TRUE]
  /\ UNCHANGED <<handleVars, snap, chan, cancelled, answer, task, stopped, token, owed>>

ScanNone ==
  /\ at.pc = "scan"
  /\ \A s \in inFlight : ~Ready(s)
  /\ at' = [at EXCEPT !.pc = IF at.progressed THEN "top" ELSE "parked", !.progressed = FALSE]
  /\ UNCHANGED <<handleVars, snap, chan, cancelled, answer, instanceVars, token, owed>>

\* park, or park_timeout up to the nearest end of a task.
Unpark ==
  /\ at.pc = "parked"
  /\ token \/ \E s \in inFlight : task[s].late
  /\ token' = FALSE
  /\ Go("top")
  /\ UNCHANGED <<handleVars, snap, chan, cancelled, answer, instanceVars, owed>>

-----------------------------------------------------------------------------------
(* The worker: process *)

\* Revoked, cancelled, an event of an earlier generation, a candidate that does not fit, a call
\* that fails, no room for another task.
PrepareFails ==
  /\ at.pc \in Kinds
  /\ Go("publish")
  /\ UNCHANGED <<handleVars, snap, chan, cancelled, answer, instanceVars, token, owed>>

MayRun == life = 0 /\ ~IsCancelled(at.seq)

\* A commit of new state is a new revision, which every task in flight finds changed.
Commit(own) ==
  [s \in Seqs |-> IF s \in own THEN [task[s] EXCEPT !.fresh = TRUE]
                               ELSE [task[s] EXCEPT !.fresh = FALSE]]

CallSync ==
  /\ at.pc = "sync"
  /\ MayRun
  /\ task' = Commit({}) \/ task' = task
  /\ Go("publish")
  /\ UNCHANGED <<handleVars, snap, chan, cancelled, answer, inFlight, stopped, token, owed>>

StartTask ==
  /\ at.pc = "async"
  /\ MayRun
  /\ Cardinality(inFlight) < ModuleCapacity
  /\ task' = [task EXCEPT ![at.seq] = [NoTask EXCEPT !.fresh = TRUE]]
  /\ Go("drive")
  /\ UNCHANGED <<handleVars, snap, chan, cancelled, answer, inFlight, stopped, token, owed>>

\* replace_cancelled went through: every task in flight is taken out.
Replace ==
  /\ at.pc = "replace"
  /\ MayRun
  /\ stopped' = inFlight
  /\ inFlight' = {}
  /\ at' = [at EXCEPT !.pc = IF inFlight = {} THEN "publish" ELSE "stop"]
  /\ UNCHANGED <<handleVars, snap, chan, cancelled, answer, task, token, owed>>

NotStopped == {s \in stopped : task[s].slot # "closed"}

StopOne ==
  /\ at.pc = "stop"
  /\ NotStopped # {}
  /\ StopTask(Min(NotStopped))
  /\ UNCHANGED <<handleVars, snap, chan, answer, inFlight, stopped, at, owed>>

\* The end of the whole batch is published before the first of its receipts is sent.
BatchSkipped ==
  /\ at.pc = "stop" /\ NotStopped = {}
  /\ Go("receipts")
  /\ UNCHANGED <<handleVars, snap, chan, cancelled, answer, instanceVars, token, owed>>
BatchCoversAll ==
  /\ at.pc = "stop" /\ NotStopped = {}
  /\ snap' = Published(inFlight, at.seq)
  /\ Go("receipts")
  /\ UNCHANGED <<handleVars, chan, cancelled, answer, instanceVars, token, owed>>
BatchPublish ==
  /\ at.pc = "stop" /\ NotStopped = {}
  /\ snap' = Published(inFlight, Max(stopped))
  /\ Go("receipts")
  /\ UNCHANGED <<handleVars, chan, cancelled, answer, instanceVars, token, owed>>

BatchReceipt ==
  /\ at.pc = "receipts"
  /\ answer' = [answer EXCEPT ![Min(stopped)] = "sent"]
  /\ stopped' = stopped \ {Min(stopped)}
  /\ Go(IF stopped' = {} THEN "publish" ELSE "receipts")
  /\ UNCHANGED <<handleVars, snap, chan, cancelled, inFlight, task, token, owed>>

-----------------------------------------------------------------------------------
(* The worker: drive *)

\* drive returned an error: the task is stopped before it is answered.
DriveFails ==
  /\ at.pc \in {"drive", "begin", "start", "port"}
  /\ StopTask(at.seq)
  /\ Go("publish")
  /\ UNCHANGED <<handleVars, snap, chan, answer, inFlight, stopped, owed>>

\* The task may go on: not terminal, its slot (if it waits) with a value, generation and revision
\* those of its last fragment.
MayResume(s) ==
  /\ ~Terminal(s)
  /\ task[s].slot \in {"none", "ready"}
  /\ task[s].fresh

\* advance_task ran a fragment, and committed what it changed; the result of the slot is consumed.
Consumed(t) == [s \in Seqs |-> IF s = at.seq /\ t[s].slot = "ready"
                               THEN [t[s] EXCEPT !.slot = "consumed"] ELSE t[s]]

FragmentCompletes ==
  /\ at.pc = "drive"
  /\ MayResume(at.seq)
  /\ \E t \in {task, Commit({at.seq})} : task' = Consumed(t)
  /\ Go("publish")
  /\ UNCHANGED <<handleVars, snap, chan, cancelled, answer, inFlight, stopped, token, owed>>

FragmentAwaits ==
  /\ at.pc = "drive"
  /\ MayResume(at.seq)
  /\ at.awaits < MaxAwaits
  /\ \E t \in {task, Commit({at.seq})} : task' = Consumed(t)
  /\ Go("begin")
  /\ UNCHANGED <<handleVars, snap, chan, cancelled, answer, inFlight, stopped, token, owed>>

\* Once the life cycle and the task allow it, a new slot; begin_await publishes the fragment and the
\* request among those under way.
BeginAwait ==
  /\ at.pc = "begin"
  /\ life = 0 /\ ~Terminal(at.seq)
  /\ task' = [task EXCEPT ![at.seq].slot = "made"]
  /\ snap' = [snap EXCEPT !.pend = snap.pend \union {at.seq}, !.shown = TRUE]
  /\ at' = [at EXCEPT !.pc = "start", !.awaits = at.awaits + 1]
  /\ UNCHANGED <<handleVars, chan, cancelled, answer, inFlight, stopped, token, owed>>

\* The port is started; its host may complete the slot from here on.
StartPort ==
  /\ at.pc = "start"
  /\ life = 0 /\ ~Terminal(at.seq)
  /\ task' = [task EXCEPT ![at.seq].slot = "pending"]
  /\ Go("port")
  /\ UNCHANGED <<handleVars, snap, chan, cancelled, answer, inFlight, stopped, token, owed>>

\* The port returned: the task goes (back) among those in flight, which is published.
Insert ==
  /\ at.pc = "port"
  /\ inFlight' = inFlight \union {at.seq}
  /\ snap' = Published(inFlight', 0)
  /\ at' = AfterAnswer
  /\ UNCHANGED <<handleVars, chan, cancelled, answer, task, stopped, token, owed>>

-----------------------------------------------------------------------------------
(* The worker: the end of run *)

ExitTask ==
  /\ at.pc = "exit"
  /\ inFlight # {}
  /\ StopTask(Min(inFlight))
  /\ answer' = [answer EXCEPT ![Min(inFlight)] = "sent"]
  /\ inFlight' = inFlight \ {Min(inFlight)}
  /\ UNCHANGED <<handleVars, snap, chan, stopped, at, owed>>

ExitDrain ==
  /\ at.pc = "exit"
  /\ inFlight = {} /\ chan # <<>>
  /\ answer' = [answer EXCEPT ![Head(chan).seq] = "sent"]
  /\ chan' = Tail(chan)
  /\ UNCHANGED <<handleVars, snap, cancelled, instanceVars, at, token, owed>>

ExitDrained ==
  /\ at.pc = "exit"
  /\ inFlight = {} /\ chan = <<>>
  /\ Go("closing")
  /\ UNCHANGED <<handleVars, snap, chan, cancelled, answer, instanceVars, token, owed>>

\* The receiver is dropped with whatever was sent since: those requests see their reply channel end.
DropReceiver ==
  /\ at.pc = "closing"
  /\ answer' = [s \in Seqs |-> IF \E i \in DOMAIN chan : chan[i].seq = s THEN "dropped" ELSE answer[s]]
  /\ chan' = <<>>
  /\ Go("done")
  /\ UNCHANGED <<handleVars, snap, cancelled, instanceVars, token, owed>>

-----------------------------------------------------------------------------------
Worker ==
  \/ Ended \/ Receive \/ ReceiveNone \/ ScanReady \/ ScanNone \/ Unpark
  \/ PrepareFails \/ CallSync \/ StartTask \/ Replace
  \/ StopOne \/ BatchPublish \/ BatchReceipt
  \/ DriveFails \/ FragmentCompletes \/ FragmentAwaits \/ BeginAwait \/ StartPort
  \/ Insert
  \/ FinishPublish \/ FinishReply
  \/ ExitTask \/ ExitDrain \/ ExitDrained \/ DropReceiver

Handle ==
  \/ \E c \in Callers : SubmitCheck(c) \/ SubmitRefused(c) \/ \E k \in Kinds : SubmitSend(c, k)
  \/ \E s \in Seqs : CancelRequest(s)
  \/ \E c \in Stages : ControlSet(c) \/ ControlCancel(c) \/ MarkTerminal(c)

Host ==
  \/ \E s \in Seqs : Complete(s) \/ Expire(s)

WorkerNext == Worker \/ Handle \/ Wake \/ Host

\* The worker is a running thread, calls and ports return; whoever owes a wake is a few
\* instructions from it; time passes.  No host need ever complete anything, nobody need close.
Fairness ==
  /\ WF_workerVars(Worker)
  /\ WF_workerVars(Wake)
  /\ \A s \in Seqs : WF_workerVars(Expire(s))
  /\ \A c \in Stages : WF_workerVars(ControlCancel(c) \/ MarkTerminal(c))

WorkerSpec == WorkerInit /\ [][WorkerNext]_workerVars /\ Fairness

-----------------------------------------------------------------------------------
(* Properties *)

\* Whoever has received the answer of its request finds it in the snapshot: among those the
\* sequence covers, and not among those under way, unless the worker was revoked or closed
\* (publish before reply in finish, and for the whole batch in Replace).
AnswerIsVisible ==
  \A s \in Seqs : answer[s] = "sent" /\ life = 0 => s <= snap.seq /\ s \notin snap.pend

\* The reverse, which the owner of an input draft relies on: a request the sequence covers and
\* that is not listed as under way is decided (pending_sequences).
Decided(s) ==
  answer[s] # "none" \/ s \in stopped \/ (at.seq = s /\ at.pc \in {"publish", "reply"})
CoveredIsDecided ==
  \A s \in Seqs : snap.active /\ s <= next /\ s <= snap.seq /\ s \notin snap.pend => Decided(s)

\* Once mark_terminal has cleared the snapshot no result comes back into it, however revoke,
\* close and the publications of the worker interleave (publish, begin_await).
TerminalStaysClear == ~snap.active => ~snap.shown /\ snap.pend = {}

\* Every accepted request is answered, or sees its channel end, and a worker that was revoked or
\* closed ends, although no host need complete anything: no wake is lost (submit, complete, cancel,
\* mark_terminal, stop against park), and the time limit ends what nobody completes.
EveryRequestEnds ==
  <>[](/\ \A s \in 1..next : answer[s] # "none"
       /\ (\E c \in Stages : control[c] # "idle") => at.pc = "done")
==================================================================================
