------------------------------ MODULE AppTimers ------------------------------
(***************************************************************************)
(* The timers of one window: the AppTimerQueue any thread inserts into and *)
(* cancels from, the timers the widgets of its tree ask for, the registry  *)
(* the window loop sleeps by, with the deadline it caches, and the turn    *)
(* that fires what is due with the queue unlocked.                         *)
(*                                                                         *)
(* Time is kept relative: entry[t], registry[t], work[w], cache and sleep  *)
(* count the ticks that are left, 0 meaning due, so that time never ends.  *)
(*                                                                         *)
(* An operator right above another one and named after it is a wrong       *)
(* variant of it, kept to show which property would notice.                *)
(***************************************************************************)
EXTENDS Naturals, FiniteSets

CONSTANTS
  Timers,       (* the run_after and run_interval calls of a behaviour      *)
  Intervals,    (* those that repeat                                        *)
  Delay,        (* the ticks each asks for                                  *)
  Widgets,      (* the widgets that may ask for a timer                     *)
  Asked,        (* the ticks each asks for                                  *)
  Budget,       (* TIMER_CALLBACK_BUDGET_PER_KIND                           *)
  Epochs,       (* the cancellation epochs there are: 2^64                  *)
  None, Forever, Stale

ASSUME TimerAssumption == /\ IsFiniteSet(Timers) /\ Intervals \subseteq Timers
                          /\ Delay \in [Timers -> Nat]
                          /\ Budget \in Nat \ {0} /\ Epochs \in Nat \ {0, 1}
ASSUME WidgetAssumption == IsFiniteSet(Widgets) /\ Asked \in [Widgets -> Nat]
ASSUME NullAssumption == /\ None \notin Timers \cup Nat
                         /\ Forever \notin Nat /\ Stale \notin Nat \cup {Forever}

VARIABLES
  entry,               (* AppTimerQueueInner.entries: ticks left, or None    *)
  active, epochOf,     (* AppTimerEntry.active and .cancellation_epoch       *)
  epoch,               (* AppTimerQueueInner.cancellation_epoch              *)
  changed,             (* deadline_revision is not the one the driver knows  *)
  id, nextId,          (* the id of each timer, AppTimerQueueInner.next_id   *)
  user,                (* where the caller that owns the timer stands        *)
  session,             (* the window session: "open", "removed", "released"  *)
  wakeup,              (* a wake posted to the event loop                    *)
  tree,                (* "live", or "stopped" by a panic in its own code    *)
  registry,            (* ActiveWorkRegistry: app timers, ticks left or None *)
  work,                (* ActiveWorkRegistry: widget timers                  *)
  cache,               (* .next_deadline_cache                               *)
  ui, due, running,    (* window loop: phase, drained ids, timer called back *)
  dueWork,             (* drained widget timers                              *)
  lag,                 (* ticks since the turn read its clock                *)
  sleep,               (* what is left of the wait                           *)
  fired                (* history: one-shot timers called back               *)

ids == <<id, nextId>>
queueVars == <<entry, active, epochOf, epoch, changed, ids>>
timerLoop == <<registry, ui, due, running, lag, sleep, fired>>
loopVars  == <<tree, work, cache, dueWork, timerLoop>>
vars == <<queueVars, user, session, wakeup, loopVars>>

(* run_interval raises the interval to MIN_INTERVAL, one tick here.         *)
Period(t) == IF t \in Intervals /\ Delay[t] = 0 THEN 1 ELSE Delay[t]

Init ==
  /\ entry = [t \in Timers |-> None]
  /\ active = [t \in Timers |-> FALSE] /\ epochOf = [t \in Timers |-> 0]
  /\ epoch = 0 /\ changed = TRUE /\ id = [t \in Timers |-> 0] /\ nextId = 1
  /\ user = [t \in Timers |-> "idle"] /\ session = "open" /\ wakeup = FALSE
  /\ tree = "live"
  /\ registry = [t \in Timers |-> None] /\ work = [w \in Widgets |-> None]
  /\ cache = Stale /\ dueWork = {}
  /\ ui = "top" /\ due = {} /\ running = None /\ lag = 0 /\ sleep = Forever
  /\ fired = {}

-----------------------------------------------------------------------------
(* Any thread, a timer callback included.                                   *)

(* run_after and run_interval: look the session up, then insert, then wake. *)
Lookup(t) ==
  /\ user[t] = "idle"
  /\ user' = [user EXCEPT ![t] = IF session = "open" THEN "found" ELSE "refused"]
  /\ UNCHANGED <<queueVars, session, wakeup, loopVars>>

AnnouncedQuietly == changed
Announced == TRUE

Insert(t) ==
  /\ user[t] = "found"
  /\ entry' = [entry EXCEPT ![t] = Period(t)]
  /\ active' = [active EXCEPT ![t] = TRUE]
  /\ epochOf' = [epochOf EXCEPT ![t] = epoch]
  /\ changed' = Announced
  /\ id' = [id EXCEPT ![t] = nextId] /\ nextId' = nextId + 1
  /\ user' = [user EXCEPT ![t] = "inserted"]
  /\ UNCHANGED <<epoch, session, wakeup, loopVars>>

Posted == TRUE

WakeAfterInsert(t) ==
  /\ user[t] = "inserted"
  /\ user' = [user EXCEPT ![t] = "held"]
  /\ wakeup' = Posted
  /\ UNCHANGED <<queueVars, session, loopVars>>

Detach(t) ==
  /\ user[t] = "held"
  /\ user' = [user EXCEPT ![t] = "detached"]
  /\ UNCHANGED <<queueVars, session, wakeup, loopVars>>

(* cancel, or the drop of the handle: the flag first, the lock after it.    *)
CancelFlag(t) ==
  /\ user[t] = "held"
  /\ active' = [active EXCEPT ![t] = FALSE]
  /\ user' = [user EXCEPT ![t] = "flagged"]
  /\ UNCHANGED <<entry, epochOf, epoch, changed, ids, session, wakeup, loopVars>>

CancelRemove(t) ==
  /\ user[t] = "flagged"
  /\ entry' = [entry EXCEPT ![t] = None]
  /\ changed' = (changed \/ entry[t] # None)
  /\ user' = [user EXCEPT ![t] = IF entry[t] # None THEN "removed" ELSE "cancelled"]
  /\ UNCHANGED <<active, epochOf, epoch, ids, session, wakeup, loopVars>>

WakeAfterCancel(t) ==
  /\ user[t] = "removed"
  /\ user' = [user EXCEPT ![t] = "cancelled"]
  /\ wakeup' = TRUE
  /\ UNCHANGED <<queueVars, session, loopVars>>

(* close_session takes the session out of the table, then releases it.      *)
CloseSession ==
  /\ session = "open"
  /\ session' = "removed"
  /\ UNCHANGED <<queueVars, user, wakeup, loopVars>>

Queued == {t \in Timers : entry[t] # None}

(* cancel_all                                                               *)
QueueCancelled ==
  /\ epoch' = (epoch + 1) % Epochs
  /\ active' = [t \in Timers |-> active[t] /\ t \notin Queued]
  /\ entry' = [t \in Timers |-> None]
  /\ changed' = (changed \/ Queued # {})

CancelAll ==
  /\ session = "removed"
  /\ session' = "released"
  /\ QueueCancelled
  /\ UNCHANGED <<epochOf, ids, user, wakeup, loopVars>>

-----------------------------------------------------------------------------
(* The window loop.                                                         *)

(* WindowDriver::sync_app_timers: the registry takes over every deadline of *)
(* the queue and forgets the timers that are gone, if the revision moved.   *)
Sync == /\ registry' = IF changed THEN entry ELSE registry
        /\ changed' = FALSE

(* sync_timers: a widget that goes on asking keeps its deadline, a new one  *)
(* gets its delay from the turn's clock, and one that stopped is forgotten. *)
Resynced(asking) ==
  [w \in Widgets |-> IF w \notin asking THEN None
                     ELSE IF work[w] # None THEN work[w]
                     ELSE IF Asked[w] > lag THEN Asked[w] - lag ELSE 0]

(* Every change of an entry invalidates the cached deadline.                *)
StillCached == IF registry' = registry THEN cache ELSE Stale
Cached == IF registry' = registry /\ work' = work THEN cache ELSE Stale

(* ActiveWorkRegistry::next_deadline: the cached answer, else the soonest.  *)
Registered == ({registry'[t] : t \in Timers} \cup {work[w] : w \in Widgets}) \ {None}
NextDeadline ==
  IF registry' = registry /\ cache # Stale THEN {cache}
  ELSE IF Registered = {} THEN {Forever}
  ELSE {next \in Registered : \A left \in Registered : next <= left}

(* has_frame_work; whatever is posted is polled before the turn.            *)
LoopTop ==
  /\ ui = "top"
  /\ Sync
  /\ cache' \in NextDeadline
  /\ IF cache' = 0
     THEN ui' = "turn" /\ wakeup' = FALSE
     ELSE ui' = "arm" /\ UNCHANGED wakeup
  /\ UNCHANGED <<entry, active, epochOf, epoch, ids, user, session, tree, work, due,
                 dueWork, running, lag, sleep, fired>>

(* next_deadline and the wait that begins with it.                          *)
LoopArm ==
  /\ ui = "arm"
  /\ Sync
  /\ cache' \in NextDeadline
  /\ sleep' = cache'
  /\ ui' = "wait"
  /\ UNCHANGED <<entry, active, epochOf, epoch, ids, user, session, wakeup, tree, work,
                 due, dueWork, running, lag, fired>>

WaitOver ==
  /\ ui' = "turn" /\ wakeup' = FALSE /\ sleep' = Forever
  /\ UNCHANGED <<queueVars, user, session, tree, registry, work, cache, due, dueWork,
                 running, lag, fired>>

WaitEnds == ui = "wait" /\ (wakeup \/ sleep = 0) /\ WaitOver

(* Input or another window ends the wait.                                   *)
OtherEvent == ui = "wait" /\ WaitOver

(* drive_frame reads the clock, asks the tree for its active_timers, syncs  *)
(* and takes what is due out of the registry: of each kind no more than the *)
(* budget, app timers with the smallest ids first.  Widgets are ordered by  *)
(* a hash, and which of them ask is up to the application.                  *)
WithinBudget(ready) == {batch \in SUBSET ready :
                          /\ Cardinality(batch) <= Budget
                          /\ batch # ready => Cardinality(batch) = Budget}

Batch(ready) == {batch \in WithinBudget(ready) :
                   \A t \in batch, left \in ready \ batch : id[t] < id[left]}

TurnDrain ==
  /\ ui = "turn" /\ tree = "live"
  /\ lag' = 0
  /\ \E asking \in SUBSET Widgets :
       LET synced == IF changed THEN entry ELSE registry
           asked  == Resynced(asking)
       IN /\ due' \in Batch({t \in Timers : synced[t] = 0})
          /\ dueWork' \in WithinBudget({w \in Widgets : asked[w] = 0})
          /\ registry' = [t \in Timers |-> IF t \in due' THEN None ELSE synced[t]]
          /\ work' = [w \in Widgets |-> IF w \in dueWork' THEN None ELSE asked[w]]
  /\ cache' = Cached
  /\ changed' = FALSE
  /\ ui' = "fire"
  /\ UNCHANGED <<entry, active, epochOf, epoch, ids, user, session, wakeup, tree, running,
                 sleep, fired>>

(* dispatch_timer_work; a panic in the code of the widget stops the tree.   *)
DispatchWidget ==
  /\ ui = "fire" /\ tree = "live"
  /\ \E w \in dueWork : dueWork' = dueWork \ {w}
  /\ tree' \in {"live", "stopped"}
  /\ UNCHANGED <<queueVars, user, session, wakeup, work, cache, timerLoop>>

(* fire takes the entry out under the lock, if it is still there.           *)
Taken(t) == [entry EXCEPT ![t] = None]

FireTake ==
  /\ ui = "fire" /\ tree = "live" /\ dueWork = {}
  /\ \E t \in due :
       /\ \A other \in due : id[t] <= id[other]
       /\ due' = due \ {t}
       /\ IF entry[t] = None
          THEN UNCHANGED <<entry, changed, running, fired, ui>>
          ELSE /\ entry' = Taken(t) /\ changed' = TRUE
               /\ running' = t
               /\ fired' = fired \cup ({t} \ Intervals)
               /\ ui' = "callback"
  /\ UNCHANGED <<active, epochOf, epoch, ids, user, session, wakeup, tree, registry,
                 work, cache, dueWork, lag, sleep>>

(* An interval goes back only if neither its handle nor the window was      *)
(* cancelled while its callback ran.                                        *)
ReinsertedAfterCancel(t) == epochOf[t] = epoch
ReinsertedAfterClose(t) == active[t]
Reinserted(t) == active[t] /\ epochOf[t] = epoch

CallbackEnd ==
  /\ ui = "callback"
  /\ IF running \in Intervals /\ Reinserted(running)
     THEN /\ entry' = [entry EXCEPT ![running] = IF Period(running) > lag
                                                 THEN Period(running) - lag ELSE 0]
          /\ changed' = TRUE
     ELSE UNCHANGED <<entry, changed>>
  /\ running' = None
  /\ ui' = "fire"
  /\ UNCHANGED <<active, epochOf, epoch, ids, user, session, wakeup, tree, registry,
                 work, cache, due, dueWork, lag, sleep, fired>>

(* After jobs, commands and effects the turn syncs once more.  A reconcile  *)
(* in the frame comes after that: what it builds asks in the next turn.     *)
TurnEnd ==
  /\ ui = "fire" /\ tree = "live" /\ due = {} /\ dueWork = {}
  /\ Sync
  /\ \E asking \in SUBSET Widgets : work' = Resynced(asking)
  /\ cache' = Cached
  /\ ui' = "top" /\ lag' = 0
  /\ UNCHANGED <<entry, active, epochOf, epoch, ids, user, session, wakeup, tree, due,
                 dueWork, running, sleep, fired>>

(* A panic of an event handler, of a job or of the frame stops the tree.    *)
TreeStops ==
  /\ tree = "live"
  /\ ui = "turn" \/ (ui = "fire" /\ due = {} /\ dueWork = {})
  /\ tree' = "stopped"
  /\ UNCHANGED <<queueVars, user, session, wakeup, work, cache, dueWork,
                 timerLoop>>

(* finish_fail_stopped_frame: the window keeps its session, but no work.    *)
FailStop ==
  /\ tree = "stopped" /\ ui \in {"turn", "fire"}
  /\ registry' = [t \in Timers |-> None] /\ work' = [w \in Widgets |-> None]
  /\ cache' = Stale
  /\ QueueCancelled
  /\ due' = {} /\ dueWork' = {}
  /\ ui' = "top" /\ lag' = 0
  /\ UNCHANGED <<epochOf, ids, user, session, wakeup, tree, running, sleep, fired>>

-----------------------------------------------------------------------------
(* One tick of the clock.  Beyond the longest delay a longer turn changes   *)
(* nothing more.                                                            *)
Elapsed(left) == IF left \in {0, None, Forever, Stale} THEN left ELSE left - 1

LongerTurn == \/ \E t \in Timers : Period(t) > lag
              \/ \E w \in Widgets : Asked[w] > lag

Tick ==
  /\ entry' = [t \in Timers |-> Elapsed(entry[t])]
  /\ registry' = [t \in Timers |-> Elapsed(registry[t])]
  /\ work' = [w \in Widgets |-> Elapsed(work[w])]
  /\ cache' = Elapsed(cache) /\ sleep' = Elapsed(sleep)
  /\ lag' = IF ui \in {"fire", "callback"} /\ LongerTurn THEN lag + 1 ELSE lag
  /\ UNCHANGED <<active, epochOf, epoch, changed, ids, user, session, wakeup, tree, ui,
                 due, dueWork, running, fired>>

LoopStep == \/ LoopTop \/ LoopArm \/ WaitEnds \/ TurnDrain \/ DispatchWidget
            \/ FireTake \/ CallbackEnd \/ TurnEnd \/ FailStop

Next ==
  \/ \E t \in Timers : \/ Lookup(t) \/ Insert(t) \/ WakeAfterInsert(t) \/ Detach(t)
                       \/ CancelFlag(t) \/ CancelRemove(t) \/ WakeAfterCancel(t)
  \/ CloseSession \/ CancelAll
  \/ LoopStep \/ OtherEvent \/ TreeStops
  \/ Tick

Spec == Init /\ [][Next]_vars

(* The loop runs when it is due or woken, callbacks return, time passes,    *)
(* and a thread that inserted goes on to post its wake.                     *)
FairSpec == /\ Spec
            /\ WF_vars(LoopStep) /\ WF_vars(Tick)
            /\ \A t \in Timers : WF_vars(WakeAfterInsert(t))
-----------------------------------------------------------------------------
(* Properties.                                                             *)

Left == Nat \cup {None}

(* Types; no turn drains more than its budget of either kind.               *)
TypeOK ==
  /\ entry \in [Timers -> Left] /\ active \in [Timers -> BOOLEAN]
  /\ epochOf \in [Timers -> Nat] /\ epoch \in Nat /\ changed \in BOOLEAN
  /\ id \in [Timers -> Nat] /\ nextId \in Nat
  /\ user \in [Timers -> {"idle", "refused", "found", "inserted", "held", "detached",
                          "flagged", "removed", "cancelled"}]
  /\ session \in {"open", "removed", "released"} /\ wakeup \in BOOLEAN
  /\ tree \in {"live", "stopped"}
  /\ registry \in [Timers -> Left] /\ work \in [Widgets -> Left]
  /\ cache \in Nat \cup {Forever, Stale}
  /\ dueWork \subseteq Widgets /\ Cardinality(dueWork) <= Budget
  /\ ui \in {"top", "arm", "wait", "turn", "fire", "callback"}
  /\ due \subseteq Timers /\ Cardinality(due) <= Budget
  /\ running \in Timers \cup {None}
  /\ lag \in Nat /\ sleep \in Nat \cup {Forever} /\ fired \subseteq Timers

(* Once cancel has returned, the timer is in the queue never again, even if *)
(* its callback was under way and its interval wanted to go back.           *)
CancelledStaysOut == \A t \in Timers : user[t] = "cancelled" => entry[t] = None

(* Closing the window is final for every timer inserted before it: what is  *)
(* queued belongs to the current epoch, callbacks under way included.       *)
TeardownIsFinal == \A t \in Timers : entry[t] # None => epochOf[t] = epoch

(* A run_after callback runs once, whatever is cancelled, closed or         *)
(* resynchronised around it.                                                *)
OneShotOnce ==
  [][\A t \in fired : ~(ui # "callback" /\ ui' = "callback" /\ running' = t)]_vars

(* The loop never sleeps past a timer: it wakes by the deadline, a wake is  *)
(* posted, or the thread that inserted the timer is about to post it.  Nor  *)
(* past a timer that a widget asked for, though the deadline is a cached    *)
(* one that drains, syncs and the fail-stop have to invalidate.             *)
SleepsToDeadline ==
  ui = "wait" =>
    /\ \A t \in Timers : entry[t] # None =>
         \/ wakeup \/ user[t] = "inserted"
         \/ sleep # Forever /\ sleep <= entry[t]
    /\ \A w \in Widgets : work[w] # None => sleep # Forever /\ sleep <= work[w]

(* Live intervals with smaller ids: enough of them use up every turn.       *)
Ahead(t) == {s \in Intervals : entry[s] # None /\ id[s] < id[t]}

(* A due timer is called back or cancelled, though each turn has a budget:  *)
(* what a turn leaves behind fires in a later one.  Only intervals with     *)
(* smaller ids, as many as the budget, can keep it from that.               *)
DueTimersFire ==
  /\ \A t \in Timers :
       entry[t] = 0 ~> entry[t] # 0 \/ Cardinality(Ahead(t)) >= Budget
  /\ \A w \in Widgets : work[w] = 0 ~> work[w] # 0
=============================================================================
