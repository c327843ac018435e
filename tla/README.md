# TLA+ verification of the UIX application runtime

UIX is a GUI framework in Rust: an event loop on one UI thread, windows with a widget tree,
native backends for presentation, a UI language with its compiler, and an *agent* interface
through which external clients read and drive an application. The TLA+ here is about the parts of it
in which several actors share state: who may post what to the UI thread and what happens to
it, above all when windows close, commands time out, callbacks panic or files fail.

Paths below are relative to the repository; `app/` stands for `src/app/`.

Contents: [1 Inventory](#1-inventory) · [2 Modules and code](#2-modules-and-code) ·
[3 Runs](#3-runs) · [4 Bounds](#4-bounds) · [5 Fairness](#5-fairness) ·
[6 Proofs](#6-proofs) · [7 Disagreements found](#7-disagreements-between-code-and-documentation) ·
[8 Not modelled](#8-what-is-not-modelled-and-why) · [9 Plan](#9-plan)

## 1 Inventory

### Threads and how they meet

| actor | what it does | shared state it meets the others in |
|---|---|---|
| UI thread | event loop, one turn per window (`drive_frame`), creation and closing of windows, all widget code, agent command execution | every queue below |
| application threads | hold an `AppHandle` or window handle: open windows, post jobs, set the theme, insert and cancel timers | `AppRuntime`, `MainThreadQueue`, `AppTimerQueue` |
| agent connections | one thread each: submit a command, wait for its answer with a timeout; or wait for a revision | `AgentCommandQueue`, `AgentBridgeDirectory` |
| host (confirmation UI) | decides about guarded agent actions | `AgentCommandQueue` |
| native callbacks | report failures, frames, presentation | `PendingFailureQueue`, frame scheduler |
| worker threads | language modules, extensions, frame pacer (Windows) | their ports |

Two conventions run through the code and are the source of most hazards: a thread changes state under a
lock and *wakes the loop after it let the lock go*, and only the operation that finds a queue empty
wakes it at all.

### Components

**Agent command pipeline** (`app/queues/agent_command_queue.rs`, `window_agent_state.rs`,
`app/agent/agent_control.rs`, `agent_policy.rs`, `agent_protocol/`).
*State*: a bounded queue of envelopes with a `closed` flag; a life cycle per command (pending, started,
cancelled); a response channel of capacity one; on the UI thread the commands in flight, the settle
passes used, registered confirmations and the tickets parked on them; the semantic revision.
*Operations*: submit, wait with timeout and withdraw, close; drain, start, perform, register a
confirmation, park on it, resolve it, expire it, observe settle, fail for want of a surface, close.
*Hard*: start races withdrawal; one wake per batch; confirmations live for many turns; a command that
changed the tree must settle before the next one starts; three places to answer on close.
*Correct when*: every accepted command gets exactly one answer or is withdrawn; a withdrawn one never
runs; a guarded action runs at most once and only when allowed, in time and at its own revision.

**Main thread queue** (`app/queues/main_thread_queue.rs`). *State*: pending jobs, a clear epoch, the
wave in hand. *Operations*: enqueue, clear, drain in waves under a budget, restore after a panic.
*Hard*: clear between taking a wave and running it; a panic in the middle. *Correct when*: it is a FIFO queue.

**Timers and the loop's sleep** (`app/queues/app_timer.rs`, `active_work_registry.rs`, the driver and
the event loop). *State*: entries with flag, epoch and deadline; a revision; in the registry a *copy* of the deadlines,
those of the timers widgets ask for, and a *cached* soonest one; the wait. *Operations*: insert, cancel, detach, cancel all,
sync of either kind, drain due, dispatch, fire, reinsert, fail-stop. *Hard*: an interval is out of the queue while its callback runs;
the loop sleeps by the copy, and by the cache.
*Correct when*: cancel and teardown are final, nothing is slept past, a one-shot fires once.

**Application sessions** (`app/session_runtime.rs`, `app/application/`). *State*: table of sessions,
alive flags shared with handles, queued open requests, the pending theme, `shutting_down`.
*Operations*: `open_window`, `set_theme`, three ways of posting a job, creation, `close_session`,
`shutdown_all`. *Hard*: each of them takes several locks one after the other; all of them are served from within the main
window's frame, which a fail-stop of its tree cuts short. *Correct when*: nothing outlives the shutdown, handles tell the
truth, no accepted job is stranded, a stored request is served while the main window's tree runs.

**Agent bridge directory** (`app/agent/agent_bridge.rs`, `app/window_semantics.rs`). *State*: per
window a generation, the published revisions, a condition variable per generation, `app_closed`.
*Operations*: register, publish, close a window, close all, wait. *Hard*: the condition variable is
cloned under the lock and notified after it; old handles go on publishing. *Correct when*: no wait
misses its answer, revisions of a generation never fall.

**Pending failures** (`src/diagnostics/pending.rs`). *State*: one bounded queue shared by several
sources, a closed flag and a drop counter per source. *Operations*: enqueue, take, close. *Hard*: the
two atomics live outside the lock. *Correct when*: failures keep owner and order, drops are accounted.

**Event bus** (`src/bus/`). *State*: entries, snapshot cache, dispatch depth, handler cells.
*Operations*: subscribe, unsubscribe, publish, close. *Hard*: all of them from inside handlers.
*Correct when*: a publish serves those registered when it starts, no handler is lost or re-entered.

**Settings store** (`src/data/settings/settings.rs`). *State*: values, `dirty`, and three files.
*Operations*: change, save, load, repair. *Hard*: failing file operations and crashes between any two;
load repairs without the lock. *Correct when*: a version is always found, the last one or a newer one.

**Frames of a window** (`app/window/frame_scheduler.rs`, `app/window/window_driver/`,
`src/native/backends/windows/frame_pacer.rs`). *State*: the surface's state (renderable, recovering, suspended for one of
five reasons), the outstanding request with its deadline, the opportunity that waits, attempts and probe;
the pacer's ticket, its worker's channel, the messages in the window's queue. *Operations*: request, arm,
take, notify, suspend, resume, present, fail, probe; arm, submit, complete, cancel, discard. *Hard*:
callbacks that are late, lost or cancelled, against a fallback deadline, from another thread. *Correct when*: a callback
opens only the frame it was made for, and a window with something to draw always has a next frame.

**Graphics recovery** (`src/draw/renderer/recovery.rs`, `recovery_driver.rs`). *State*: the engine, the
failure to recover from, the step of the recovery sequence, whether it has given up, the last probe.
*Operations*: record a failure, recover before a frame, rebuild on request, present, probe, resize. *Hard*: a
rebuild that fails again; two state machines (engine and scheduler) that both count failures. *Correct when*: no frame is
drawn with an engine that was torn down, and both agree on giving up.

**Language module worker** (`src/lang/runtime/worker.rs`, `async_port.rs`, `control.rs`). *State*: life
cycle, cancellation flags, the snapshot, the channel of requests, tasks in flight with their completion
slots. *Operations*: submit, cancel, revoke, close; receive, run, start, resume, replace, publish, answer; complete
from any host thread. *Hard*: handles change life cycle, flag and snapshot one after the other while the worker publishes; the
worker parks. *Correct when*: answers and snapshot agree, a closed module shows nothing again, every request ends.

**Animations in the active work registry**: entries with or without a deadline. *Planned.* **Reactive state**
(`src/ui/reactive/`): effects, computed values, invalidation. *Planned.* **Agent workspace and transport**: threads
stopped and joined with a timeout. *Planned in part.*

The remaining components (widgets and layout, geometry, drawing, native backends, the compiler and
language server, the extension interpreter, the command line tool) and why they are left out are in
section 8; `PROJECT.json` lists all 24, and the hazards of the code at their lines.

### Interactions

* An `AppHandle` finds its session in `AppRuntime` and posts to the session's `MainThreadQueue` or
  `AppTimerQueue`; closing the session clears the one and cancels the other.
* The event loop polls wakes, takes theme and open requests, and gives every live window a turn:
  timers, jobs, agent commands, settle, and, when a frame is due, layout and presentation.
* After a turn the window publishes its semantic revision to the bridge, where connections wait.
* Closing a window closes its command queue, its bridge entry and its session.
* Within a turn the window driver asks the frame scheduler for an opportunity, draws through the recovery
  driver and tells the pacer what was presented; the pacer's worker posts a message that the next turn hands to the scheduler.
* A module's handles, its hosts and its worker meet in a channel, the completion slots and the snapshot.

## 2 Modules and code

An operator standing right above another one and named after it (`FullLate` above `Full`) is a wrong
variant of it. It is used by no specification; it documents which mistake in the code would break which property.
`PROJECT.json` pairs each with its property and gives for every definition the lines it stands for.

| module | models | state of the code → variables |
|---|---|---|
| `AgentCommands` | the command pipeline of one window | `AgentQueueInner` → `queue`, `closed`; `AgentCommandLifecycle` → `life`; response channel → `reply`, `sends`; connection → `client`; `WindowAgentState` → `inFlight`, `passes`, `confirm`, `waiter`; drain loop → `ui`, `hand`, `budget`; semantic state → `rev`, `dirty`; event loop wake → `owesWake`, `wakeup` |
| `AgentCommandContract` | what a client of the agent may rely on: one answer, one effect, answers that agree with the effect; `AgentCommands` refines it | – |
| `TaskQueue` | the abstract promise of a job queue: FIFO, at most once, clear forgets | – |
| `MainThreadQueue` | the queue with waves, budget, clears, panics; refines `TaskQueue` | `MainThreadQueue` → `pending`, `clearEpoch`; `MainThreadDrainBatch` → `batch`, `batchEpoch` |
| `AppTimers` | timer queue, timers of widgets, registry, one turn, the wait | `AppTimerQueueInner` → `entry`, `active`, `epochOf`, `epoch`, `id`, `nextId`, `changed`; `ActiveWorkRegistry` → `registry`, `work`, `cache`; execution state of the tree → `tree`; loop → `ui`, `due`, `dueWork`, `running`, `lag`, `sleep` |
| `AppSessions` | session table, requests, themes, jobs, shutdown | `AppRuntime` → `sessions`, `alive`, `pending`, `theme`, `shutting`; callers → `opener`, `setter`, `job`, `owing`; UI thread → `ui`, `subject`, `live`, `taken`; the main tree's fail-stop → `stopped` |
| `AgentBridge` | one window in the directory, its registrations, waits | `AgentBridgeDirectoryState` → `gen`, `info`, `appClosed`; each `WindowSemanticState` → `snap`; waits → `wait`, `asked`, `on` |
| `PendingFailures` | the failure queue at the grain of its locks and atomics | `PendingFailureQueueInner` → `queue`; `PendingFailureSourceInner` → `dropped`, `closed`; the lock across two reads → `holder` |
| `EventBus` | the bus, nested dispatches, captured subscriptions | `Registry` → `state`, `entries`, `cache`, `depth`; call stack → `stack`; handler cells → `taken` |
| `SettingsStore` | load, save, repair, crash | three files → `disk`; `SettingsState` → `value`, `dirty`, `loaded`; each caller → `pc`, `seen`, `had`, `item` |
| `FrameScheduler` | the scheduler, as operators over its state | `FrameScheduler` → a record: `state`, `req`, `ready`, `retry`, `attempt`, `probe` |
| `GraphicsRecovery` | recovery driver, sequence and rebuilder, as operators | `RecoveryDriver` → a record: `up`, `software`, `step`, `pending`, `terminal`, `reopened`, `conflicts` |
| `FramePacer` | the pacer's shared state, its worker, the window's messages | `WindowsFramePacerState` → `pending`, `submitted`; channel → `chan`; worker → `worker`; messages → `posted` |
| `WindowFrames` | composes the three: events, waiting and the frame of one window | scheduler → `sched`; engine → `engine`; loop → `turn`, `batch`; tree and window → `work`, `animating`, `visible`, `extent`; `committed` remembers the last frame |
| `ModuleWorker` | handles, hosts and worker of one module | `Shared` → `life`, `flag`, `snap`, `next`; channel → `chan`; requests → `cancelled`, `answer`; `Pending` and slots → `inFlight`, `task`, `stopped`; worker → `at`, `token`; handles → `control`, `caller`, `owed` |
| `Selection` | `retain` and `filter` of a sequence, as an operator `Only(s, S)` that can be proved about | – |
| `MC…` | the values of the constants for TLC | – |
| `AppSessions_proofs`, `AppTimers_proofs`, `EventBus_proofs`, `SettingsStore_proofs`, `WindowFrames_proofs` | theorems about the module of that name | – |
| `Agent_proofs`, `Queues_proofs` | theorems about `AgentCommands` and `AgentBridge`; about `MainThreadQueue`, `PendingFailures` and `ModuleWorker` | – |
| `Selection_proofs` | what `Only` keeps | – |

**Actions.** There is one per lock region, atomic access or handler. Where the code gives up a lock between two
effects there are two actions: `SubmitAccepted` / `PostWake`, `CancelFlag` / `CancelRemove`,
`PostFind` / `PostEnqueue`, `CloseAll` / `CloseNotify`. What the code does in one go on one thread is one action:
`Run` is `try_start` and the whole handler of the command, its trailing refresh and the test for `break`
included; `Settle` is the end of `drive_frame`.

**AgentCommands.** A member of `Cmds` is one call of submit. `guarded` is a `Perform` the policy asks
a confirmation for; since a `confirm_id` is used for one command only, the guarded command itself
stands for it. What the executor finds is a choice: refused before the tree is touched (`rejected`), refused
after (`failed`), or accepted (`ok`); a revision that does not match is always `stale_revision`. Whether
synchronous work remains after a frame is a choice too (`sync`). The 60 s of `MAX_AGENT_CONFIRM_TTL` are an
event that may come at any time (`TtlElapses`), the timeout of a ticket another (`RecvTimeout`).

**AppTimers.** Deadlines are the ticks that are left, so that behaviours need not end. `changed`
stands for "`deadline_revision` is not the one the driver last saw". `lag` is the time a turn has spent since it
read its clock: an interval is put back relative to that reading, and a widget's timer begins at it. Which widgets ask for a
timer is a choice at each of the two syncs of a turn (`TurnDrain`, `TurnEnd`). `NextDeadline` reads the cache unless it is `Stale`,
and only a changed entry makes it so (`Cached`). A panic in the code of the tree stops it (`DispatchWidget`, `TreeStops`); the turn then ends in
`FailStop`, which drops the window's timers but leaves its session open, so that others may go on inserting.

**AppSessions.** `alive` is the flag a session and its handles share. `close_session` is three steps on
the thread that calls it (table, release, requests), and a failing `open_window` takes them too
(`OpenGivesUp`, `OpenRelease`, `OpenRetain`). A turn of the loop is the first half of the main window's frame (`MainFrame`), its
runtime tasks (`TakeTheme`, `TakeRequest` with what creates a window, and `Turn` for the secondary windows) and the rest of that
frame (`FrameEnds`). The tree of the main window may stop in an event (`TreeStops`) or at either end of the frame; from then on `MainFrame`
goes straight to `idle`, as `drive_frame` returns before `on_runtime_tasks`. A job that was refused, run or cleared is `over`: no property tells
them apart, and so a stopped secondary tree, which clears its jobs where others run them, needs no state of its own.

**AgentBridge.** Generation *g* is the *g*-th registration of the same window id, and its condition
variable bears the same number; a replaced one is notified by the step that replaced it.

**PendingFailures.** The enqueue reads the flag, takes the lock, reads the flag again and counts a drop, and
owners clear flag, counter and queue one after the other, so `EnqueueLock` and `EnqueuePut` are separate with
`holder` in between.

**EventBus.** `Owns` says which closures captured the `Subscription` of another handler. `broken` records
that the registry's `RefCell` was borrowed twice, which panics.

**SettingsStore.** All values together are one version number; a missing file is `None`, a half-written one
`Torn`. Every file operation succeeds, or fails and changes nothing. A crash is one of the process: renames
and writes that happened stay.

**WindowFrames.** A turn of the window's thread is cut where another thread can step in or the code reads something again: the top of
the loop, the wait, each event, availability, probe, taking an opportunity, the animations and the request of the next frame,
rendering, and the send to the pacer's worker. `frame_scheduler.rs` and `recovery_driver.rs` run on that thread only, hence
operators. Requests are ids; a new one is any that nothing names any more, so the finite set of the run stands for counters that never wrap. An
instant is only whether it is past: `Deadline` lets the one pass that `next_deadline` reports. A failing frame is `lost` (with every
other error), `oom`, `changed` or `occluded`; tearing down and rebuilding report `lost` or `oom` only.

**ModuleWorker.** The worker's steps are cut at its accesses to what others change: life cycle, flags, slots, snapshot, channel. What
a call computes is a choice: it succeeds or not, commits new state or not, awaits or completes. `PrepareFails`
and `DriveFails` stand for all their error paths, which end alike. A wake that is due is `owed` until `Wake` makes it, because `unpark`
is idempotent.
The run closes the module and does not revoke it, for the size of the state space; the theorems are about both. `AnswerIsVisible` speaks of a module that
is neither revoked nor closed; what a late publication does to one that is, is `TerminalStaysClear`'s.

**Composition.** `MainThreadQueue` implements `TaskQueue` through `Tasks` (wave in hand, unless cleared,
followed by the queue). `AgentCommands` implements `AgentCommandContract` through `Contract`: `answers`, `answer` and `effect`
are its `sends`, `reply` and `dispatched`, and queue, flight, confirmations and turns are hidden. `AppSessions` uses of the job queue and of the timers only what the other two modules promise:
a job is queued, run or cleared.

## 3 Runs

Passing runs, with the question each one answers. *Safety* properties are invariants unless marked
**step** (an action property) or **live**.

| run | properties | what it shows |
|---|---|---|
| `agent_user` | refinement `ClientContract`, `NoAnswerLost`, `ClosedAnswersAll`, `GuardedNeedsUser`, step `FreshDispatch`, step `ApprovalWithinTtl` | A connection performs a guarded action and parks on its confirmation while the host allows it twice and denies it. TTL, tree changes and closing interfere anywhere. Each ticket is answered once, and truly: nobody hears of an action done that was not, or of one refused that was or will be; the action runs only when allowed, in time, at its revision. |
| `agent_settle` | `WithdrawnNeverRuns`, step `SettleBarrier`, live `EveryCommandAnswered` | Snapshot, window action and screenshot of two connections, surface coming and going, connections giving up. |
| `queue` | refinement `KeepsPromise`, live `EveryJobServed` | Waves of two, clears and panics: still the FIFO queue of `TaskQueue`, and leftovers run. |
| `timers` | `CancelledStaysOut`, `TeardownIsFinal`, `SleepsToDeadline`, live `DueTimersFire` | An interval and a one-shot due together under a budget of one, cancelled and torn down around their callbacks, while a widget asks for a timer, stops asking, or panics. |
| `sessions` | `NothingOutlivesShutdown`, `OpenHandlesHaveSession`, `AcceptedJobsEnd`, live `RequestsServed` | Opening, posting and theming against closing, a fail-stop of the main window and shutting down. |
| `bridge` | `NoLostNotify`, step `RevisionsGrow`, live `WaitsEnd` | Two waits against registration, publication and closing; no wait is assumed to time out. |
| `pending` | `OwnFailuresAccounted`, `ClosedLeavesNothing` | Two owners, a flood, and both may close. |
| `bus` | `TypeOK`, `CellsMatchCalls`, step `PublishServesRegistered` | Every bus operation from inside handlers two dispatches deep. |
| `settings` | `NothingLost`, `StaleTempNeverBlocks`, `CleanMeansSaved` | Every file operation may fail, two crashes anywhere. |
| `window` | `TicketHasRequest`, `SubmittedIsUnderway`, `OpportunityFollowsPresent`, `TornDownIsOwed`, `GivenUpIsTerminal`, live `FramesKeepComing` | A window draws and animates while its graphics fail, recover and give up, callbacks are late, refused or lost, and it is resized, emptied, minimized, hidden and shown. |
| `worker` | `AnswerIsVisible`, `CoveredIsDecided`, `TerminalStaysClear`, live `EveryRequestEnds` | Calls, asynchronous tasks and replacements while handles cancel and close, hosts complete or stay silent and time runs out. |

The types of every module are stated as its `TypeOK` (`BridgeTypeOK`, `FailuresTypeOK`, `WorkerTypeOK` where two modules meet in one module of
proofs). They are proved (section 6), as are `DispatchedOnce`, `NoLostWake` and `OneShotOnce`, and need no run.

`DueTimersFire` excludes one case on purpose: `drain_due` takes the smallest ids first, so as
many always-due intervals with smaller ids as the budget holds (64) starve a timer. `RevisionsGrow` is stated while
the application is open (see section 7 for what happens after).

The run that finds a disagreement is `settings_reload`; see section 7.

`CHECK_DEADLOCK FALSE` is used where the system comes to rest: a window that is gone with all
connections done, an application shut down, a closed bus, a closed set of failure sources, an ended module worker. Queue, timers, settings and windows
never stop and are checked for deadlock.

## 4 Bounds

| constant | in the code | in the runs | why it is enough |
|---|---|---|---|
| `Capacity` (commands) | 64 | 1, 2 | full and not full are both reached, with a command in hand besides |
| `MaxSettlePasses` | 32 | 2 | one deferral and one expiry |
| `MaxRev` (agent) | unbounded | 1, 0 | one revision makes an expectation stale; the settle run is about wakes and answers, not revisions |
| `Cmds` | any number | 5 on 2 threads, 3 on 2 threads | a guarded action with a second allow and a deny; a command behind one in flight behind another |
| `Outside` | – | TTL, tree, close / surface, timeout | the events are split over two runs to keep each below some minutes; each run has those its properties need |
| `MaxPerDrain` | 64 | 2 | waves cut by the budget with two jobs left over |
| `MaxClears` | unbounded | 2 | a clear before and inside a wave |
| `Budget` (timers) | 64 | 1 | two due timers exceed it |
| `Delay` | any | 0 (raised to the minimum), 1 | both due in the same turn, or one tick apart |
| `Widgets`, `Asked` | any | 1, 1 | a timer that is kept, renewed, forgotten and due with the others; budget and dispatch of several of a kind show in the application timers |
| `Epochs` | 2^64 | 3 | a callback overlaps one teardown at most, so that two epochs would do; with three, a stopped window whose turns go on ending in the fail-stop wraps |
| `Windows`, `Jobs`, `Setters` | any | 2, 2, 2 | the main window and one that opens, fails or closes; one job of each posting path; a setter that wakes and one that relies on it |
| `MaxGen`, `MaxRevision` (bridge) | unbounded | 2, 2 | an old registration beside a new one |
| `Waits` | any | 2 | two sleepers on one condition variable |
| `Capacity` (failures) | 64 | 2 | one source fills the queue and overflows |
| `MaxDepth` | 64 | 2 | a handler inside a handler, and a refused third level |
| `MaxPublishes` | unbounded | 4 | a publish before, inside, after and one refused or cached |
| `MaxVersion`, `MaxCrashes` | unbounded | 3, 2 | a save over a repaired save, interrupted once more |
| `MaxRecoveryAttempts` | 8 | 2 | a failure that is retried and one that ends the window; the invariants were also checked with 8 |
| `Ids` (frame requests) | 64-bit counter | 7 | a request, a ticket, one in the channel, one with the worker, messages and an event, and one free: the run needs no more |
| window events | any number | one per wake, of all 7 kinds | events of one batch are handled one after the other; the pacer's comes before or after |
| `Callers`, `Stages`, `Kinds` | any | 1, close, all 3 | submitting is under one lock; close runs into every step of the worker |
| `ModuleCapacity` | 1 to 1024 | 2 | full and not full, of channel and of tasks; a replacement stops two tasks |
| `MaxSeq`, `MaxAwaits`, `MaxCancels` | unbounded | 3, 2, 1 | two tasks and the replacement that stops them; a task that awaits twice |

Symmetry is declared in `agent_user` only, for the two decisions that allow the same action: they differ in nothing but their names, and
the run checks safety only. The other runs are small enough, and several of them check liveness, where symmetry is not sound. The
theorems of section 6 lift these bounds for every safety property of the runs; the liveness properties hold for the bounds given here.

## 5 Fairness

* `AgentCommands`: weak fairness of `UiStep` (the platform loop goes on with a turn it has begun and with
  a wake that was posted) and of each `PostWake` (a submitter is a running thread a few instructions from it). Nothing is
  assumed of outside events: input, close, TTL, timeouts and the surface changing may never happen or never stop.
* `MainThreadQueue`: weak fairness of the drain: the loop gives each live window its turn and a job returns or panics.
* `AppTimers`: of the loop's steps (callbacks return), of the clock, and of a thread that inserted to go on to its wake.
* `AppSessions`: of what the UI thread has begun, and of the wake of a caller that stored a request. No native event is fair.
  The loop serves requests and themes only while the main window's tree runs, so `RequestsServed` names `stopped` as the end of that
  promise; what it promises then is that a loop that ends closes every handle.
* `AgentBridge`: of the two notifications owed and of a woken connection to get the lock. Timeouts are *not* fair, so
  `WaitsEnd` cannot be met by them.
* `WindowFrames`: weak fairness of the window's thread (the loop, handlers and graphics calls return) and strong fairness of
  `Deadline`: the thread waits again and again and is not always waiting, but the clock goes on meanwhile. Nothing is assumed of the
  pacer's worker, of events or of the graphics, so `FramesKeepComing` holds with every callback lost.
* `ModuleWorker`: of the worker (calls and ports return), of a wake that is owed, of the time limit of a task, and of a close that was
  begun. No host need complete anything, nobody need close.

The turns of a *secondary* window are part of the main window's runtime tasks. For such a window, the fairness of `AgentCommands`,
`MainThreadQueue`, `AppTimers` and `WindowFrames`, which model one window each, holds while the main window's tree has not stopped (section 7).

`PendingFailures`, `EventBus` and `SettingsStore` make no liveness claim.

## 6 Proofs

The theorems hold for every value of the constants that meets the `ASSUME`s of the module (a capacity of at
least one, delays that are natural numbers, null values outside their sets, …); TLC evaluates these on every run.
The proofs are checked by TLAPS with Z3, Zenon and LS4.

**`Agent_proofs`, the commands.** The invariant is
`IInv == TypeOK /\ PhaseInv /\ CustodyInv /\ NoAnswerLost /\ EffectInv /\ ClosedInv /\ TimeoutInv`.

* `PhaseInv`: the UI thread holds an envelope exactly while it executes one, and nothing is in flight while it drains or
  executes. This is the settle barrier.
* `CustodyInv` is the heart. It says who holds an unanswered command: the queue (`QueueInv`: once, pending or withdrawn), the
  UI thread's hand (`HandInv`), the flight (`FlightInv`) or a confirmation (`WaiterInv`), and, together with the life cycle,
  that no command is in two of these places. None of the properties about answers is inductive without
  it: that closing answers the queue *and* the flight *and* the parked once each needs that the three are disjoint.
* `EffectInv`: an action reaches the tree, or is registered for the user, only once its command started, and a registered one is
  a guarded one that was not dispatched yet.
* `ClosedInv`, `TimeoutInv`: what is left after closing; what a client was told after a timeout.

Each action is shown to keep each part (`TypeStep`, `PhaseStep`, `CustodyStep`, `EffectStep`, `ClosedStep`,
`TimeoutStep`). From `IInv` follow `TypeCorrect`, `OneAnswer`, `AnswersKept`, `WithdrawalHonoured`, `OneDispatch`,
`CloseAnswers`, `UserDecides`, `Barrier`, `WakeKept` and `DispatchConditions` (`FreshDispatch` and
`ApprovalWithinTtl`).

`ClientsServed` proves the refinement: `Spec => ClientContract`. `IInv` speaks of who is answered, not of what he is told, so the
proof adds `TruthInv`: a registered action has been answered `requires_confirmation`; of an action that somebody was told is refused
it is known that it started, was not done and is no longer registered, hence never will be; what is in flight and asked for
an action asked for one that was done; and only confirmations are parked. Each handler is shown to
be a `Start` of the contract (`StartOf`) and to keep `TruthInv` (`RunTruth`), settling and closing to be its `Answer` (`Told`), and
all other steps to be `Submit`, `Withdraw` or stutters. Together these are all the safety properties the two agent runs check, and more.

**`Agent_proofs`, the bridge.** `NoLostNotify` alone is not inductive: a sleeper may sleep on the condition variable of a registration that
was replaced, and a publication may be about to notify another one. `BridgeInv` adds

* `SleepInv`: a sleeper waits for the registration on whose condition variable it sleeps;
* `LinkInv`: while the application is open, the entry of the directory is what the current registration last published, or ahead of it by the
  one revision that `close_window` publishes. Without it a publication could take a revision back, and with it an answer a sleeper has missed;
* `FreshInv`: nothing is known of registrations to come, nothing is published before the window is enabled, and nothing is presented that was
  not published; `CloserInv`: whoever notifies on closing has set `app_closed`.

`QuietSleepers` draws from it what each step of the UI thread needs: with nothing left to notify, every sleeper waits for the current registration.
From `BridgeInv` follow `BridgeTypeCorrect`, `NoneSleepsForever` and `RevisionsNeverFall`, for any waits, registrations and revisions.
The assumption that `None` (no entry) is neither a number nor an entry is the one the code's `Option` makes true.

**`Queues_proofs`, the job queue.** `IInv` adds to `TypeOK` (with `Len(batch) <= remaining`) what each phase says of `batch`
and `running`. `WithinBudget` is the type invariant with it. `Implementation` is `Spec => KeepsPromise`:
with `Tasks == batch \o pending` unless cleared, taking a wave, finishing one, a clear noticed late and the
restore after a panic are stutters, starting a job is `Start`, its end or panic `End`.

**`Queues_proofs`, the pending failures.** `FailuresInv` joins the types, `OwnFailuresAccounted` and `ClosedLeavesNothing` with two facts:
an owner that has begun to close has raised the flag (`OwnerInv`), and no enqueue that holds the lock is for a source that was emptied for
good (`HolderInv`). The second one is why the code reads the flag again under the lock. That taking the first failure of a source leaves the order
of everybody's failures alone needs `SplitAt` and the facts about `Only` below.

**`Queues_proofs`, the module worker.** `WorkerInv` says where an accepted request is until it is answered, and what the snapshot shows of it there:

* `ChanInv`: the channel holds the last requests in order, so that the next one received is `Received + 1`;
* `CustodyInv`: a request that was received and has no answer is in the worker's hand, in flight, or among those a replacement stops, and in one of them only;
* `FreshInv`, `ListedInv`: until something of a fresh request is published the sequence does not cover it, and every task in flight is listed.
  Together they give `CoveredIsDecided`: a covered request that is not listed cannot be anywhere but on its way to the answer;
* `VisibleInv`: a result is published before it is answered, unless the worker was revoked or closed; with it `AnswerIsVisible` is inductive;
* `LifeInv`: whoever cleared the snapshot changed the life cycle first, which `publish` reads under the lock of the snapshot; it gives `TerminalStaysClear`.

Most steps of the worker only go from one place to the next; `Way` says which ways leave the invariant alone, `WayKeeps` proves it once for all
of them. `WorkerTypeCorrect` adds the flags, the tasks with their slots, and the bound on awaits.

**`Selection_proofs`.** Lists are thinned out with `retain` and `filter`. `SelectSeq` of the library takes an operator, which no theorem here may
quantify over, so the models use `Only(s, S)` with a set. Its facts (what it does with an empty sequence, with one more element, with two sequences in a
row, with a smaller set) are proved by an induction over numbers that is itself a lemma (`NatInduct`, from the well-founded relation `<` on `Nat`): the
property is the set of numbers that have it, so no operator is a parameter.

**`AppSessions_proofs`.** A window wanders from its opener to the queue and on to the UI thread. `OpenerInv`: until it is queued, and when it never will
be, it is its opener's; `PlaceInv`: queued at most once, and not while it is created, closed or runs; `AliveInv`: whatever waits, is created or runs is open;
`ShutdownInv`: what is already empty at each step of the shutdown; `ContextInv`: a job with context is looked up and queued in one step.
`NothingOutlives` needs `ShutdownInv`, since an opener that passed the check of `shutting_down` may come back at any of these steps; `OpenHandles`
and `AcceptedJobs` need the first three, as a failing opener and the UI thread close by the same three steps.

**`EventBus_proofs`.** Dispatches nest, so the invariant is about the whole stack: `FrameInv` says that all but the innermost are inside a handler;
`CacheInv` that a cached snapshot is what filtering the registry would give. `CellsMatchCalls` then is inductive (`Cell`), and a publish that begins
serves what is registered, from the cache or not (`PublishServes`).

**`WindowFrames_proofs`.** The operators of `FrameScheduler` and `GraphicsRecovery` have a lemma each (`SuspendOK`, `RequestOK`, `RecordOK`, …), which
the steps of the window cite. The invariant:

* `TypeInv(ids)` for *some* set of ids, which a request makes grow by one. The run picks ids that are free, standing for counters that never wrap;
  the proof does not need it: that a message is of the frame it completes follows from the order of events alone;
* `TurnInv`: what is empty at each point of a turn; `FrameInv`: the pacer's ticket is that of the outstanding native request, an opportunity or a submitted ticket is of a
  frame that was presented (`Fits`), and a message that waits in the batch has completed the ticket (`BatchInv`);
* `WorkerInv`: the pacer's worker has no ticket while it waits for one; `EngineInv` is `TornDownIsOwed` and `GivenUpIsTerminal`.

It gives the five invariants of the run: `TicketRequest`, `SubmittedUnderway`, `OpportunityPresented`, `TornDown`, `GivenUp`.

Two flaws of the models came up in these proofs and were corrected: `CASE` guards in `EventBus` and `FrameScheduler` that overlapped, where TLC took the first and
the semantics may take any.

**`AppTimers_proofs`.** `CancelInv` (a cancelled handle is inactive as soon as its flag is down, and out of the queue
once it was removed), `InsertedInv` (a timer not yet inserted is nowhere), `FiredInv` (a one-shot that fired is out of
the queue) and `CopyInv` (unless `changed`, the registry agrees with the queue except for what this turn drained),
and `CacheInv` (a cached deadline is no later than any entry of the registry), together with the types, `TeardownIsFinal` and
`SleepsToDeadline`, are inductive. They give `CancelIsFinal`, `TeardownFinal`, `SleepInTime` and `OneShots`. `CopyInv` and `CacheInv` are what
makes `SleepsToDeadline` inductive: the loop takes its sleep from the cache, the cache is computed from the copy, and the copy follows the queue. `Covers` is
the relation they share; `NextIsSoonest` shows that `next_deadline` meets it, cached or not, `ElapsedCovers` that time keeps it.

**`SettingsStore_proofs`.** Under `ASSUME OneThread` (one clone of the service is used; with two the property
is false, see section 7). For every step of `save`, `load` and the repair the invariant says what the repair has found and that
it is still so (`FoundInv`), what is in the three files (`FilesInv`: while the target is away the backup has it, and the temp
file holds the whole new version once it was written), that a save writes the values the service holds (`SaveInv`), and that
clean values are what a load would find (`ValueInv`). From it: `TypeCorrect`, `SavedStays`, `TempRemoved`, `CleanSaved`, for any number of changes, failures
and crashes.

**Only model-checked.** The liveness properties (`EveryCommandAnswered`, `EveryJobServed`, `DueTimersFire`, `RequestsServed`,
`WaitsEnd`, `FramesKeepComing`, `EveryRequestEnds`) rest on fairness and `ENABLED`, which is outside what the prover can do. Every other property of a passing
run is stated by a theorem.

## 7 Disagreements between code and documentation

With a run that shows it:

1. **A load that overlaps a save can lose both versions** (`settings_reload`, `FailedSaveKeepsSome`). `load` repairs
   the files without the lock a save holds (`src/data/settings/settings.rs:485`); it may remove the backup the save has
   just made and the temp file it is about to install. The comment at line 415 promises that a failed step keeps or restores the previous version.

Noticed while modelling, without a run of their own:

* After a fail-stop of the main window nobody is served any more, and nobody is told. `drive_frame` returns before `on_runtime_tasks`
  (`app/window/window_driver/frame.rs:41-59`, and again at 92, 121, 152 and 178; `frame_fail_stop.rs:91`), the only place where themes and
  open requests are taken and secondary windows get their frames. The loop goes on, the handles stay open, and `open_window`, `set_theme` and posted
  jobs are still accepted; they wait until the main window is closed. If a secondary window has a job queued meanwhile, its deadline is "now", the
  wait returns at once (`app/event_loop/event_loop.rs:648-650`) and the loop spins. No document promises otherwise; `RequestsServed` excludes the
  case by name.
* A closed window's queue accepts a job. `post_to_ui` clones the session under the lock of the table, lets it go and enqueues
  (`app/session_runtime.rs:487`). If the window closes in between, its queue has been cleared for the last time: the job neither runs nor is
  dropped as long as a handle lives. `docs/架构/app/event-loop.md:53` says that after closing no new job is accepted;
  `enqueue_with_context` (line 497) holds the lock and is right. `AcceptedJobsEnd` therefore speaks of the other ways of posting only.
* A widget that the reconcile of a frame builds has its `active_timer` registered only by the next turn: the last `sync_timers` of a turn
  comes before the frame (`app/window/window_driver/frame.rs:534`), and the loop's deadline is the registry's. An otherwise idle window sleeps
  without it, although `src/ui/widget_runtime/traits.rs:542` describes it as the timer the widget currently asks for. `SleepsToDeadline` therefore
  speaks of the timers in the registry. No widget of the library implements `active_timer`.
* Closing the event bus may panic. `close` drops the handlers while the registry is mutably borrowed
  (`src/bus/event_bus.rs:127`). A closure that captured a `Subscription` unsubscribes from its destructor and borrows again
  (`broken` in the model). The comment at lines 226-227 promises an idempotent no-op. `unsubscribe` (111-112) has the same shape.
* Minimizing, hiding and showing a window makes it renderable while it is still minimized: a suspension replaces the reason of the one
  before, and Show ends any that is called hidden (`window_driver/driver.rs:126-153`), where `event-loop.md` has hidden and minimized registered and released
  separately.
* The pacer's worker checks that its ticket is still submitted and reports a failed flush after it let the lock go
  (`frame_pacer.rs:170-183`); a cancel in between has the failure reported against a request that is gone, which the comment at
  185-187 rules out.
* An out-of-memory failure that follows another one is not kept by the recovery (first failure wins, `recovery_driver.rs:185`),
  while the scheduler ends the window at once: the engine does not count as terminal then. `GivenUpIsTerminal` holds, its converse does not.
* A rebuild whose error is classified as `SurfaceChanged` or `Occluded` would not be recorded again, and the torn-down
  engine would be drawn with; the model takes rebuild errors to be lost or out of memory.
* The comparison of tokens in `notify_opportunity` never fails on Windows, where the pacer's epoch already tells a late message.
* An answered request's error may be missing from the snapshot between the first step of a revoke (life cycle) and its last (`mark_terminal`),
  in spite of the comment at `src/lang/runtime/worker.rs:483`; `AnswerIsVisible` is about a module that is not revoked. A receipt may
  also say `Ok` although the module was revoked between the check of `finish` and its `publish`.
* A submit refused for want of room overwrites the error of a terminal snapshot with its own (`worker.rs:233`).
* A timer is accepted after its window closed, by the same pattern as 1 (`app/session_runtime.rs:458`).
* A theme may be set after `shutdown_all` cleared it (`app/session_runtime.rs:364`; comment at 409-410).
* After `close_all` from another thread the UI thread may publish a window as open again
  (`app/agent/agent_bridge.rs:333`), where `docs/使用/能力与边界/Agent控制.md:225` has closed as the terminal answer of a
  generation. Waits still end (`WaitsEnd`), since `app_closed` stays.
* The overflow signal of a failure source may overtake a failure that was queued meanwhile (`src/diagnostics/pending.rs:139`
  and `:116`).
* A save whose new version is installed and whose backup cannot be removed is reported as failed
  (`src/data/settings/settings.rs:451`); the values stay dirty, which is harmless (`CleanMeansSaved`).
* A hidden window keeps its confirmations (`app/queues/window_agent_state.rs:462`) although
  `docs/架构/app/agent.md:41` says they lapse with presentability.
* Overdue confirmations are removed only by the next confirm or resolve, not by a snapshot or a perform
  (`window_agent_state.rs:492` and `:134`); none of them can be approved (`ApprovalWithinTtl`).
* A screenshot or snapshot that had started is reported as plain `timeout` (`app/agent/agent_protocol/mod.rs:482`), not
  as an unknown outcome; it changes nothing, so a retry is safe (`WithdrawnNeverRuns` speaks of the mutating ones).

## 8 What is not modelled, and why

* **Widgets, layout, overlays, themes, drawing, geometry**: data transformations on one thread over trees and floats;
  no finite instance says anything about them. Merging of damage rectangles is a candidate for a later module.
* **UI language compiler, language server, extension interpreter**: pure functions of an input of any size.
* **Native backends, platform adapters, sockets, framing, JSON**: platform I/O; where a component depends on an outcome of
  theirs it is a nondeterministic choice.
* **Dependency container, plugins, hot reload** of an application: assembly, before the loop runs.
* **Power loss**: the settings model crashes the process, not the disk; the code's `sync_all` of the temp file is a step
  that may fail, the order in which a file system makes renames durable is not modelled.
* **Weak memory**: the models' atomics are sequentially consistent, the code's are acquire and release (the drop counter is
  relaxed). Behaviours that only a weaker memory could show are not covered.
* Within modelled components: the list of windows a client reads (pure projection), building of snapshots and screenshots,
  policy rules (only their verdict), reading of single settings.

## 9 Plan

Done in this order, the most important behaviour first: `AgentCommands` with its proofs; `TaskQueue`, `MainThreadQueue` and the
refinement; `AppTimers` with proofs; `AppSessions`; `AgentBridge`; `PendingFailures`; `EventBus`; `SettingsStore` with proofs.

Then `FrameScheduler`, `GraphicsRecovery`, `FramePacer` and `WindowFrames`, which composes them; `ModuleWorker`; and in `AppTimers` the timers
of widgets, the cached deadline and the fail-stop.

Next modules:

1. Animations in the active work registry, extending `AppTimers`: their entries with and without a deadline.
2. The extension worker (`src/extensions/worker.rs`), in the shape of `ModuleWorker`.
3. Reactive state: invalidation and the order of effects.

Proved since: the safety properties of `AppSessions`, `AgentBridge`, `PendingFailures`, `EventBus`, `WindowFrames` and `ModuleWorker`, so that every invariant and
every action property of the runs is a theorem; and that `AgentCommands` implements `AgentCommandContract`.

Next proofs: the new modules, in the manner of those they extend.
