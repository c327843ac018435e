-------------------------- MODULE AppTimers_proofs --------------------------
(***************************************************************************)
(* AppTimers for any timers, widgets, delays and budget.  Whether the loop *)
(* sleeps to the next deadline depends on the copy the registry keeps and  *)
(* on the deadline it caches, so the invariant says when that copy is      *)
(* current and what the cached deadline is good for.                       *)
(***************************************************************************)
EXTENDS AppTimers, TLAPS, FiniteSetTheorems

NotYet == {"idle", "refused", "found"}

(* A cancelled handle is inactive as soon as its flag is down.              *)
CancelInv ==
  \A t \in Timers :
    /\ user[t] \in {"flagged", "removed", "cancelled"} => ~active[t]
    /\ user[t] \in {"removed", "cancelled"} => entry[t] = None

(* Only an inserted timer is queued, called back or has fired.              *)
InsertedInv ==
  \A t \in Timers :
    user[t] \in NotYet => entry[t] = None /\ running # t /\ t \notin fired

(* A one-shot that has fired is out of the queue.                           *)
FiredInv == \A t \in fired : t \notin Intervals /\ entry[t] = None

(* Unless the revision moved, the registry differs from the queue only in   *)
(* what the turn under way has drained.                                     *)
CopyInv ==
  /\ ~changed => \A t \in Timers \ due : registry[t] = entry[t]
  /\ \A t \in due : registry[t] = None
  /\ ui \notin {"fire", "callback"} => due = {}

(* A deadline no later than any that is registered.                         *)
Covers(deadline, apps, widgets) ==
  /\ \A t \in Timers : apps[t] # None => deadline # Forever /\ deadline <= apps[t]
  /\ \A w \in Widgets : widgets[w] # None => deadline # Forever /\ deadline <= widgets[w]

CacheInv == cache # Stale => Covers(cache, registry, work)

IInv == /\ TypeOK /\ CancelInv /\ InsertedInv /\ FiredInv /\ CopyInv /\ CacheInv
        /\ TeardownIsFinal /\ SleepsToDeadline
-----------------------------------------------------------------------------
LEMMA PeriodType == \A t \in Timers : Period(t) \in Nat
  BY TimerAssumption DEF Period

LEMMA ElapsedLeft ==
  ASSUME NEW left \in Left
  PROVE  Elapsed(left) \in Left /\ (Elapsed(left) = None <=> left = None)
  BY NullAssumption DEF Elapsed, Left

(* One tick takes no more from a deadline than from a wait.                 *)
LEMMA ElapsedOrder ==
  ASSUME NEW x \in Nat, NEW y \in Nat, x <= y
  PROVE  Elapsed(x) # Forever /\ Elapsed(x) <= Elapsed(y)
  BY NullAssumption DEF Elapsed

(* One tick keeps a deadline early enough for all that is registered.       *)
LEMMA ElapsedCovers ==
  ASSUME NEW deadline \in Nat \cup {Forever},
         NEW apps \in [Timers -> Left], NEW widgets \in [Widgets -> Left],
         Covers(deadline, apps, widgets)
  PROVE  Covers(Elapsed(deadline), [t \in Timers |-> Elapsed(apps[t])],
                [w \in Widgets |-> Elapsed(widgets[w])])
<1>1. ASSUME NEW left \in Left, Elapsed(left) # None,
             left # None => deadline # Forever /\ deadline <= left
      PROVE  Elapsed(deadline) # Forever /\ Elapsed(deadline) <= Elapsed(left)
  <2>1. left \in Nat /\ deadline \in Nat /\ deadline <= left
    BY <1>1, ElapsedLeft DEF Left
  <2> QED
    BY <2>1, ElapsedOrder
<1>2. ASSUME NEW t \in Timers, Elapsed(apps[t]) # None
      PROVE  Elapsed(deadline) # Forever /\ Elapsed(deadline) <= Elapsed(apps[t])
  BY <1>1, <1>2 DEF Covers
<1>3. ASSUME NEW w \in Widgets, Elapsed(widgets[w]) # None
      PROVE  Elapsed(deadline) # Forever /\ Elapsed(deadline) <= Elapsed(widgets[w])
  BY <1>1, <1>3 DEF Covers
<1> QED
  BY <1>2, <1>3 DEF Covers

(* What next_deadline answers, from the cache or not.                       *)
LEMMA NextIsSoonest ==
  ASSUME TypeOK, CacheInv, registry' \in [Timers -> Left], NEW next \in NextDeadline
  PROVE  next \in Nat \cup {Forever} /\ Covers(next, registry', work)
<1> USE DEF TypeOK
<1>1. CASE registry' = registry /\ cache # Stale
  BY <1>1 DEF NextDeadline, CacheInv
<1>2. CASE ~(registry' = registry /\ cache # Stale)
  <2>1. Registered \subseteq Nat
    BY DEF Registered, Left
  <2>2. \A t \in Timers : registry'[t] # None => registry'[t] \in Registered
    BY DEF Registered
  <2>3. \A w \in Widgets : work[w] # None => work[w] \in Registered
    BY DEF Registered
  <2>4. CASE Registered = {}
    BY <1>2, <2>2, <2>3, <2>4 DEF NextDeadline, Covers
  <2>5. CASE Registered # {}
    <3>1. next \in Registered /\ \A left \in Registered : next <= left
      BY <1>2, <2>5 DEF NextDeadline
    <3>2. next \in Nat /\ next # Forever
      BY <2>1, <3>1, NullAssumption
    <3> QED
      BY <2>2, <2>3, <3>1, <3>2 DEF Covers
  <2> QED
    BY <2>4, <2>5
<1> QED
  BY <1>1, <1>2

LEMMA ResyncedType ==
  ASSUME TypeOK, NEW asking PROVE Resynced(asking) \in [Widgets -> Left]
  BY WidgetAssumption DEF TypeOK, Left, Resynced

LEMMA BatchType ==
  ASSUME NEW ready, NEW batch \in WithinBudget(ready)
  PROVE  batch \subseteq ready /\ Cardinality(batch) <= Budget
  BY DEF WithinBudget

LEMMA SmallerBatch ==
  ASSUME NEW S, IsFiniteSet(S), NEW batch \in SUBSET S, Cardinality(batch) <= Budget,
         NEW t \in batch
  PROVE  batch \ {t} \subseteq S /\ Cardinality(batch \ {t}) <= Budget
<1>1. IsFiniteSet(batch)
  BY FS_Subset
<1>2. Cardinality(batch \ {t}) <= Cardinality(batch) /\ IsFiniteSet(batch \ {t})
  BY <1>1, FS_Subset
<1>3. Cardinality(batch) \in Nat /\ Cardinality(batch \ {t}) \in Nat
  BY <1>1, <1>2, FS_CardinalityType
<1> QED
  BY <1>2, <1>3, TimerAssumption

LEMMA InitIInv == Init => IInv
<1> SUFFICES ASSUME Init PROVE IInv
  OBVIOUS
<1>1. TypeOK
  <2>1. Cardinality({}) <= Budget
    BY FS_EmptySet, TimerAssumption
  <2> QED
    BY <2>1, TimerAssumption DEF Init, TypeOK, Left
<1>2. /\ CancelInv /\ InsertedInv /\ FiredInv /\ CopyInv /\ CacheInv
      /\ TeardownIsFinal /\ SleepsToDeadline
  BY NullAssumption DEF Init, CancelInv, InsertedInv, FiredInv, CopyInv, CacheInv,
                        TeardownIsFinal, SleepsToDeadline, NotYet
<1> QED
  BY <1>1, <1>2 DEF IInv

LEMMA TypeStep ==
  ASSUME TypeOK, CacheInv, [Next]_vars
  PROVE  TypeOK'
<1> USE DEF TypeOK, Left
<1>1. ASSUME NEW t \in Timers, Lookup(t) PROVE TypeOK'
  BY <1>1 DEF Lookup, queueVars, loopVars, timerLoop, ids
<1>2. ASSUME NEW t \in Timers, Insert(t) PROVE TypeOK'
  BY <1>2, PeriodType DEF Insert, Announced, loopVars, timerLoop
<1>3. ASSUME NEW t \in Timers, WakeAfterInsert(t) PROVE TypeOK'
  BY <1>3 DEF WakeAfterInsert, Posted, queueVars, loopVars, timerLoop, ids
<1>4. ASSUME NEW t \in Timers, Detach(t) PROVE TypeOK'
  BY <1>4 DEF Detach, queueVars, loopVars, timerLoop, ids
<1>5. ASSUME NEW t \in Timers, CancelFlag(t) PROVE TypeOK'
  BY <1>5 DEF CancelFlag, loopVars, timerLoop, ids
<1>6. ASSUME NEW t \in Timers, CancelRemove(t) PROVE TypeOK'
  BY <1>6 DEF CancelRemove, loopVars, timerLoop, ids
<1>7. ASSUME NEW t \in Timers, WakeAfterCancel(t) PROVE TypeOK'
  BY <1>7 DEF WakeAfterCancel, queueVars, loopVars, timerLoop, ids
<1>8. CASE CloseSession
  BY <1>8 DEF CloseSession, queueVars, loopVars, timerLoop, ids
<1>9. CASE CancelAll
  BY <1>9, TimerAssumption DEF CancelAll, QueueCancelled, Queued, loopVars, timerLoop, ids
<1>10. CASE LoopTop
  <2>1. registry' \in [Timers -> Left] /\ changed' \in BOOLEAN
    BY <1>10 DEF LoopTop, Sync
  <2>2. cache' \in Nat \cup {Forever}
    BY <1>10, <2>1, NextIsSoonest DEF LoopTop
  <2> QED
    BY <1>10, <2>1, <2>2 DEF LoopTop, ids
<1>11. CASE LoopArm
  <2>1. registry' \in [Timers -> Left] /\ changed' \in BOOLEAN
    BY <1>11 DEF LoopArm, Sync
  <2>2. cache' \in Nat \cup {Forever}
    BY <1>11, <2>1, NextIsSoonest DEF LoopArm
  <2> QED
    BY <1>11, <2>1, <2>2 DEF LoopArm, ids
<1>12. CASE WaitEnds
  BY <1>12 DEF WaitEnds, WaitOver, queueVars, ids
<1>13. CASE OtherEvent
  BY <1>13 DEF OtherEvent, WaitOver, queueVars, ids
<1>14. CASE TurnDrain
  <2> DEFINE synced == IF changed THEN entry ELSE registry
             ready  == {t \in Timers : synced[t] = 0}
  <2>1. PICK asking \in SUBSET Widgets :
          /\ due' \in Batch(ready)
          /\ dueWork' \in WithinBudget({w \in Widgets : Resynced(asking)[w] = 0})
          /\ registry' = [t \in Timers |-> IF t \in due' THEN None ELSE synced[t]]
          /\ work' = [w \in Widgets |-> IF w \in dueWork' THEN None ELSE Resynced(asking)[w]]
    BY <1>14 DEF TurnDrain
  <2>2. due' \subseteq Timers /\ Cardinality(due') <= Budget
    <3>1. due' \in WithinBudget(ready) /\ ready \subseteq Timers
      BY <2>1 DEF Batch
    <3> QED
      BY <3>1, BatchType
  <2>3. dueWork' \subseteq Widgets /\ Cardinality(dueWork') <= Budget
    BY <2>1, BatchType
  <2>4. registry' \in [Timers -> Left]
    BY <2>1
  <2>5. work' \in [Widgets -> Left]
    BY <2>1, ResyncedType
  <2>6. cache' \in Nat \cup {Forever, Stale}
    BY <1>14 DEF TurnDrain, Cached
  <2> QED
    BY <1>14, <2>2, <2>3, <2>4, <2>5, <2>6 DEF TurnDrain, ids
<1>20. CASE DispatchWidget
  <2>1. PICK w \in dueWork : dueWork' = dueWork \ {w}
    BY <1>20 DEF DispatchWidget
  <2>2. dueWork' \subseteq Widgets /\ Cardinality(dueWork') <= Budget
    BY <2>1, SmallerBatch, WidgetAssumption
  <2> QED
    BY <1>20, <2>2 DEF DispatchWidget, queueVars, timerLoop, ids
<1>21. CASE TreeStops
  BY <1>21 DEF TreeStops, queueVars, timerLoop, ids
<1>22. CASE FailStop
  <2>1. Cardinality({}) <= Budget
    BY FS_EmptySet, TimerAssumption
  <2> QED
    BY <1>22, <2>1, TimerAssumption DEF FailStop, QueueCancelled, Queued, ids
<1>15. CASE FireTake
  <2>1. PICK t \in due :
          /\ due' = due \ {t}
          /\ \/ UNCHANGED <<entry, changed, running, fired, ui>>
             \/ /\ entry' = Taken(t) /\ changed' = TRUE /\ running' = t
                /\ fired' = fired \cup ({t} \ Intervals) /\ ui' = "callback"
    BY <1>15 DEF FireTake
  <2>2. due' \subseteq Timers /\ Cardinality(due') <= Budget
    BY <2>1, SmallerBatch, TimerAssumption
  <2>3. entry' \in [Timers -> Left] /\ changed' \in BOOLEAN
    BY <2>1 DEF Taken
  <2>4. /\ running' \in Timers \cup {None} /\ fired' \subseteq Timers
        /\ ui' \in {"top", "arm", "wait", "turn", "fire", "callback"}
    BY <2>1
  <2> QED
    BY <1>15, <2>2, <2>3, <2>4 DEF FireTake, ids
<1>16. CASE CallbackEnd
  <2>1. CASE running \in Intervals /\ Reinserted(running)
    <3>1. running \in Timers /\ Period(running) \in Nat
      BY <2>1, PeriodType, TimerAssumption
    <3>2. PICK left \in Nat : entry' = [entry EXCEPT ![running] = left] /\ changed' = TRUE
      <4>1. (IF Period(running) > lag THEN Period(running) - lag ELSE 0) \in Nat
        BY <3>1
      <4> QED
        BY <1>16, <2>1, <4>1 DEF CallbackEnd
    <3> QED
      BY <1>16, <3>2 DEF CallbackEnd, ids
  <2>2. CASE ~(running \in Intervals /\ Reinserted(running))
    BY <1>16, <2>2 DEF CallbackEnd, ids
  <2> QED
    BY <2>1, <2>2
<1>17. CASE TurnEnd
  <2>1. registry' \in [Timers -> Left] /\ changed' \in BOOLEAN
    BY <1>17 DEF TurnEnd, Sync
  <2>2. work' \in [Widgets -> Left]
    BY <1>17, ResyncedType DEF TurnEnd
  <2>3. cache' \in Nat \cup {Forever, Stale}
    BY <1>17 DEF TurnEnd, Cached
  <2> QED
    BY <1>17, <2>1, <2>2, <2>3 DEF TurnEnd, ids
<1>18. CASE Tick
  <2>1. /\ entry' \in [Timers -> Left] /\ registry' \in [Timers -> Left]
        /\ work' \in [Widgets -> Left]
    BY <1>18, ElapsedLeft DEF Tick
  <2>2. sleep' \in Nat \cup {Forever} /\ cache' \in Nat \cup {Forever, Stale}
    BY <1>18 DEF Tick, Elapsed
  <2>3. lag' \in Nat
    BY <1>18 DEF Tick
  <2> QED
    BY <1>18, <2>1, <2>2, <2>3 DEF Tick, ids
<1>19. CASE UNCHANGED vars
  BY <1>19 DEF vars, queueVars, loopVars, timerLoop, ids
<1> QED
  BY <1>1, <1>2, <1>3, <1>4, <1>5, <1>6, <1>7, <1>8, <1>9, <1>10, <1>11, <1>12, <1>13,
     <1>14, <1>15, <1>16, <1>17, <1>18, <1>19, <1>20, <1>21, <1>22 DEF Next, LoopStep

LEMMA CancelStep ==
  ASSUME TypeOK, CancelInv, [Next]_vars
  PROVE  CancelInv'
<1> USE DEF TypeOK, CancelInv
<1>1. ASSUME NEW t \in Timers, Lookup(t) PROVE CancelInv'
  BY <1>1 DEF Lookup, queueVars
<1>2. ASSUME NEW t \in Timers, Insert(t) PROVE CancelInv'
  BY <1>2 DEF Insert
<1>3. ASSUME NEW t \in Timers, WakeAfterInsert(t) PROVE CancelInv'
  BY <1>3 DEF WakeAfterInsert, queueVars
<1>4. ASSUME NEW t \in Timers, Detach(t) PROVE CancelInv'
  BY <1>4 DEF Detach, queueVars
<1>5. ASSUME NEW t \in Timers, CancelFlag(t) PROVE CancelInv'
  BY <1>5 DEF CancelFlag
<1>6. ASSUME NEW t \in Timers, CancelRemove(t) PROVE CancelInv'
  BY <1>6 DEF CancelRemove
<1>7. ASSUME NEW t \in Timers, WakeAfterCancel(t) PROVE CancelInv'
  BY <1>7 DEF WakeAfterCancel, queueVars
<1>9. CASE CancelAll
  BY <1>9 DEF CancelAll, QueueCancelled, Queued
<1>10. CASE \/ CloseSession \/ LoopTop \/ LoopArm \/ WaitEnds \/ OtherEvent \/ TurnDrain
            \/ TurnEnd \/ DispatchWidget \/ TreeStops \/ UNCHANGED vars
  BY <1>10 DEF CloseSession, LoopTop, LoopArm, WaitEnds, OtherEvent, WaitOver, TurnDrain, TurnEnd,
               DispatchWidget, TreeStops, vars, queueVars, timerLoop
<1>14. CASE FailStop
  BY <1>14 DEF FailStop, QueueCancelled, Queued
<1>15. CASE FireTake
  BY <1>15 DEF FireTake, Taken
<1>16. CASE CallbackEnd
  BY <1>16 DEF CallbackEnd, Reinserted
<1>18. CASE Tick
  <2>1. \A t \in Timers : entry[t] = None => entry'[t] = None
    BY <1>18, ElapsedLeft DEF Tick, Left
  <2> QED
    BY <1>18, <2>1 DEF Tick
<1> QED
  BY <1>1, <1>2, <1>3, <1>4, <1>5, <1>6, <1>7, <1>9, <1>10, <1>14, <1>15, <1>16, <1>18
  DEF Next, LoopStep

LEMMA InsertedStep ==
  ASSUME TypeOK, InsertedInv, [Next]_vars
  PROVE  InsertedInv'
<1> USE NullAssumption DEF TypeOK, InsertedInv, NotYet
<1>1. ASSUME NEW t \in Timers, Lookup(t) PROVE InsertedInv'
  BY <1>1 DEF Lookup, queueVars, loopVars, timerLoop
<1>2. ASSUME NEW t \in Timers, Insert(t) PROVE InsertedInv'
  BY <1>2 DEF Insert, loopVars, timerLoop
<1>3. ASSUME NEW t \in Timers, WakeAfterInsert(t) \/ Detach(t) \/ WakeAfterCancel(t)
      PROVE  InsertedInv'
  BY <1>3 DEF WakeAfterInsert, Detach, WakeAfterCancel, queueVars, loopVars, timerLoop
<1>5. ASSUME NEW t \in Timers, CancelFlag(t) \/ CancelRemove(t) PROVE InsertedInv'
  BY <1>5 DEF CancelFlag, CancelRemove, loopVars, timerLoop
<1>9. CASE CancelAll
  BY <1>9 DEF CancelAll, QueueCancelled, loopVars, timerLoop
<1>10. CASE \/ CloseSession \/ LoopTop \/ LoopArm \/ WaitEnds \/ OtherEvent \/ TurnDrain
            \/ TurnEnd \/ DispatchWidget \/ TreeStops \/ UNCHANGED vars
  BY <1>10 DEF CloseSession, LoopTop, LoopArm, WaitEnds, OtherEvent, WaitOver, TurnDrain, TurnEnd,
               DispatchWidget, TreeStops, vars, queueVars, loopVars, timerLoop
<1>14. CASE FailStop
  BY <1>14 DEF FailStop, QueueCancelled, Queued
<1>15. CASE FireTake
  <2>1. PICK t \in due :
          IF entry[t] = None
          THEN UNCHANGED <<entry, changed, running, fired, ui>>
          ELSE /\ entry' = Taken(t) /\ running' = t
               /\ fired' = fired \cup ({t} \ Intervals)
    BY <1>15 DEF FireTake
  <2>2. CASE entry[t] = None
    BY <1>15, <2>1, <2>2 DEF FireTake
  <2>3. CASE entry[t] # None
    <3>1. t \in Timers /\ user[t] \notin NotYet
      BY <2>3
    <3> QED
      BY <1>15, <2>1, <2>3, <3>1 DEF FireTake, Taken
  <2> QED
    BY <2>2, <2>3
<1>16. CASE CallbackEnd
  BY <1>16, TimerAssumption DEF CallbackEnd
<1>18. CASE Tick
  <2>1. \A t \in Timers : entry[t] = None => entry'[t] = None
    BY <1>18, ElapsedLeft DEF Tick, Left
  <2> QED
    BY <1>18, <2>1 DEF Tick
<1> QED
  BY <1>1, <1>2, <1>3, <1>5, <1>9, <1>10, <1>14, <1>15, <1>16, <1>18 DEF Next, LoopStep

LEMMA FiredStep ==
  ASSUME TypeOK, InsertedInv, FiredInv, [Next]_vars
  PROVE  FiredInv'
<1> USE DEF TypeOK, FiredInv
<1>2. ASSUME NEW t \in Timers, Insert(t) PROVE FiredInv'
  <2>1. t \notin fired
    BY <1>2 DEF Insert, InsertedInv, NotYet
  <2> QED
    BY <1>2, <2>1 DEF Insert, loopVars, timerLoop
<1>3. ASSUME NEW t \in Timers,
             Lookup(t) \/ WakeAfterInsert(t) \/ Detach(t) \/ WakeAfterCancel(t)
      PROVE  FiredInv'
  BY <1>3 DEF Lookup, WakeAfterInsert, Detach, WakeAfterCancel, queueVars, loopVars, timerLoop
<1>5. ASSUME NEW t \in Timers, CancelFlag(t) \/ CancelRemove(t) PROVE FiredInv'
  BY <1>5 DEF CancelFlag, CancelRemove, loopVars, timerLoop
<1>9. CASE CancelAll
  BY <1>9 DEF CancelAll, QueueCancelled, loopVars, timerLoop
<1>10. CASE \/ CloseSession \/ LoopTop \/ LoopArm \/ WaitEnds \/ OtherEvent \/ TurnDrain
            \/ TurnEnd \/ DispatchWidget \/ TreeStops \/ UNCHANGED vars
  BY <1>10 DEF CloseSession, LoopTop, LoopArm, WaitEnds, OtherEvent, WaitOver, TurnDrain, TurnEnd,
               DispatchWidget, TreeStops, vars, queueVars, loopVars, timerLoop
<1>14. CASE FailStop
  BY <1>14 DEF FailStop, QueueCancelled, Queued
<1>15. CASE FireTake
  BY <1>15 DEF FireTake, Taken
<1>16. CASE CallbackEnd
  BY <1>16 DEF CallbackEnd
<1>18. CASE Tick
  <2>1. \A t \in Timers : entry[t] = None => entry'[t] = None
    BY <1>18, ElapsedLeft DEF Tick, Left
  <2> QED
    BY <1>18, <2>1 DEF Tick
<1> QED
  BY <1>2, <1>3, <1>5, <1>9, <1>10, <1>14, <1>15, <1>16, <1>18 DEF Next, LoopStep

LEMMA TeardownStep ==
  ASSUME TypeOK, TeardownIsFinal, [Next]_vars
  PROVE  TeardownIsFinal'
<1> USE DEF TypeOK, TeardownIsFinal
<1>2. ASSUME NEW t \in Timers, Insert(t) PROVE TeardownIsFinal'
  BY <1>2 DEF Insert
<1>3. ASSUME NEW t \in Timers,
             Lookup(t) \/ WakeAfterInsert(t) \/ Detach(t) \/ WakeAfterCancel(t)
      PROVE  TeardownIsFinal'
  BY <1>3 DEF Lookup, WakeAfterInsert, Detach, WakeAfterCancel, queueVars
<1>5. ASSUME NEW t \in Timers, CancelFlag(t) \/ CancelRemove(t) PROVE TeardownIsFinal'
  BY <1>5 DEF CancelFlag, CancelRemove
<1>9. CASE CancelAll
  BY <1>9 DEF CancelAll, QueueCancelled
<1>10. CASE \/ CloseSession \/ LoopTop \/ LoopArm \/ WaitEnds \/ OtherEvent \/ TurnDrain
            \/ TurnEnd \/ DispatchWidget \/ TreeStops \/ UNCHANGED vars
  BY <1>10 DEF CloseSession, LoopTop, LoopArm, WaitEnds, OtherEvent, WaitOver, TurnDrain, TurnEnd,
               DispatchWidget, TreeStops, vars, queueVars, timerLoop
<1>14. CASE FailStop
  BY <1>14 DEF FailStop, QueueCancelled, Queued
<1>15. CASE FireTake
  BY <1>15 DEF FireTake, Taken
<1>16. CASE CallbackEnd
  BY <1>16 DEF CallbackEnd, Reinserted
<1>18. CASE Tick
  <2>1. \A t \in Timers : entry[t] = None => entry'[t] = None
    BY <1>18, ElapsedLeft DEF Tick, Left
  <2> QED
    BY <1>18, <2>1 DEF Tick
<1> QED
  BY <1>2, <1>3, <1>5, <1>9, <1>10, <1>14, <1>15, <1>16, <1>18 DEF Next, LoopStep

LEMMA CopyStep ==
  ASSUME TypeOK, CopyInv, [Next]_vars
  PROVE  CopyInv'
<1> USE DEF TypeOK, CopyInv
<1>2. ASSUME NEW t \in Timers, Insert(t) PROVE CopyInv'
  BY <1>2 DEF Insert, Announced, loopVars, timerLoop
<1>3. ASSUME NEW t \in Timers,
             \/ Lookup(t) \/ WakeAfterInsert(t) \/ Detach(t) \/ WakeAfterCancel(t)
             \/ CancelFlag(t)
      PROVE  CopyInv'
  BY <1>3 DEF Lookup, WakeAfterInsert, Detach, WakeAfterCancel, CancelFlag, queueVars, loopVars, timerLoop
<1>5. ASSUME NEW t \in Timers, CancelRemove(t) PROVE CopyInv'
  BY <1>5 DEF CancelRemove, loopVars, timerLoop
<1>9. CASE CancelAll
  BY <1>9 DEF CancelAll, QueueCancelled, Queued, loopVars, timerLoop
<1>10. CASE LoopTop \/ LoopArm
  BY <1>10 DEF LoopTop, LoopArm, Sync
<1>11. CASE \/ CloseSession \/ WaitEnds \/ OtherEvent \/ DispatchWidget \/ TreeStops
            \/ UNCHANGED vars
  BY <1>11 DEF CloseSession, WaitEnds, OtherEvent, WaitOver, DispatchWidget, TreeStops, vars,
                queueVars, loopVars, timerLoop
<1>14. CASE TurnDrain
  <2>1. \A t \in Timers : changed \/ registry[t] = entry[t]
    BY <1>14 DEF TurnDrain
  <2> QED
    BY <1>14, <2>1 DEF TurnDrain, Batch, WithinBudget
<1>15. CASE FireTake
  BY <1>15 DEF FireTake
<1>16. CASE CallbackEnd
  BY <1>16 DEF CallbackEnd
<1>17. CASE TurnEnd
  BY <1>17 DEF TurnEnd, Sync
<1>20. CASE FailStop
  BY <1>20 DEF FailStop, QueueCancelled, Queued
<1>18. CASE Tick
  <2>1. \A t \in Timers : registry[t] = None => registry'[t] = None
    BY <1>18, ElapsedLeft DEF Tick, Left
  <2>2. \A t \in Timers : registry[t] = entry[t] => registry'[t] = entry'[t]
    BY <1>18 DEF Tick
  <2> QED
    BY <1>18, <2>1, <2>2 DEF Tick
<1> QED
  BY <1>2, <1>3, <1>5, <1>9, <1>10, <1>11, <1>14, <1>15, <1>16, <1>17, <1>18, <1>20
  DEF Next, LoopStep

LEMMA CacheStep ==
  ASSUME TypeOK, CacheInv, [Next]_vars
  PROVE  CacheInv'
<1> USE DEF TypeOK, CacheInv
<1>1. ASSUME NEW t \in Timers,
             \/ Lookup(t) \/ Insert(t) \/ WakeAfterInsert(t) \/ Detach(t)
             \/ CancelFlag(t) \/ CancelRemove(t) \/ WakeAfterCancel(t)
      PROVE  CacheInv'
  BY <1>1 DEF Lookup, Insert, WakeAfterInsert, Detach, CancelFlag, CancelRemove,
              WakeAfterCancel, loopVars, timerLoop, Covers
<1>2. CASE CloseSession \/ CancelAll \/ UNCHANGED vars
  BY <1>2 DEF CloseSession, CancelAll, vars, loopVars, timerLoop, Covers
<1>3. CASE WaitEnds \/ OtherEvent \/ DispatchWidget \/ FireTake \/ CallbackEnd \/ TreeStops
  BY <1>3 DEF WaitEnds, OtherEvent, WaitOver, DispatchWidget, FireTake, CallbackEnd,
              TreeStops, timerLoop, Covers
<1>4. CASE LoopTop \/ LoopArm
  <2>1. registry' \in [Timers -> Left]
    BY <1>4 DEF LoopTop, LoopArm, Sync
  <2>2. cache' \in NextDeadline /\ work' = work
    BY <1>4 DEF LoopTop, LoopArm
  <2>3. Covers(cache', registry', work)
    BY <2>1, <2>2, NextIsSoonest
  <2> QED
    BY <2>2, <2>3 DEF Covers
<1>5. CASE TurnDrain \/ TurnEnd
  BY <1>5 DEF TurnDrain, TurnEnd, Cached, Covers
<1>6. CASE FailStop
  BY <1>6 DEF FailStop
<1>7. CASE Tick
  <2> SUFFICES ASSUME cache' # Stale PROVE Covers(cache', registry', work')
    OBVIOUS
  <2>1. cache # Stale /\ cache \in Nat \cup {Forever}
    BY <1>7 DEF Tick, Elapsed
  <2>2. Covers(Elapsed(cache), [t \in Timers |-> Elapsed(registry[t])],
               [w \in Widgets |-> Elapsed(work[w])])
    BY <2>1, ElapsedCovers
  <2> QED
    BY <1>7, <2>2 DEF Tick
<1> QED
  BY <1>1, <1>2, <1>3, <1>4, <1>5, <1>6, <1>7 DEF Next, LoopStep

LEMMA SleepStep ==
  ASSUME TypeOK, CopyInv, CacheInv, SleepsToDeadline, [Next]_vars
  PROVE  SleepsToDeadline'
<1> USE DEF TypeOK, SleepsToDeadline
<1>1. ASSUME NEW t \in Timers, Insert(t) PROVE SleepsToDeadline'
  BY <1>1 DEF Insert, loopVars, timerLoop
<1>2. ASSUME NEW t \in Timers, WakeAfterInsert(t) \/ WakeAfterCancel(t)
      PROVE  SleepsToDeadline'
  BY <1>2 DEF WakeAfterInsert, Posted, WakeAfterCancel, loopVars, timerLoop
<1>3. ASSUME NEW t \in Timers, Lookup(t) \/ Detach(t) \/ CancelFlag(t)
      PROVE  SleepsToDeadline'
  BY <1>3 DEF Lookup, Detach, CancelFlag, queueVars, loopVars, timerLoop
<1>4. ASSUME NEW t \in Timers, CancelRemove(t) PROVE SleepsToDeadline'
  BY <1>4 DEF CancelRemove, loopVars, timerLoop
<1>5. CASE CancelAll
  BY <1>5 DEF CancelAll, QueueCancelled, loopVars, timerLoop
<1>6. CASE LoopArm
  <2>1. registry' = entry'
    <3>1. \A t \in Timers : changed \/ registry[t] = entry[t]
      BY <1>6 DEF LoopArm, CopyInv
    <3>2. registry' \in [Timers -> Left] /\ entry' = entry
      BY <1>6 DEF LoopArm, Sync
    <3> QED
      BY <1>6, <3>1, <3>2 DEF LoopArm, Sync
  <2>2. Covers(sleep', registry', work)
    <3>1. registry' \in [Timers -> Left]
      BY <1>6 DEF LoopArm, Sync
    <3> QED
      BY <1>6, <3>1, NextIsSoonest DEF LoopArm
  <2> QED
    BY <1>6, <2>1, <2>2 DEF LoopArm, Covers
<1>7. CASE \/ LoopTop \/ WaitEnds \/ OtherEvent \/ TurnDrain \/ DispatchWidget \/ FireTake
           \/ CallbackEnd \/ TurnEnd \/ TreeStops \/ FailStop
  BY <1>7 DEF LoopTop, WaitEnds, OtherEvent, WaitOver, TurnDrain, DispatchWidget, FireTake,
              CallbackEnd, TurnEnd, TreeStops, FailStop, timerLoop
<1>8. CASE CloseSession \/ UNCHANGED vars
  BY <1>8 DEF CloseSession, vars, queueVars, loopVars, timerLoop
<1>9. CASE Tick
  <2> SUFFICES ASSUME ui = "wait" PROVE SleepsToDeadline'
    BY <1>9 DEF Tick
  <2>1. /\ entry' = [t \in Timers |-> Elapsed(entry[t])]
        /\ work' = [w \in Widgets |-> Elapsed(work[w])]
        /\ sleep' = Elapsed(sleep) /\ wakeup' = wakeup /\ user' = user
    BY <1>9 DEF Tick
  <2>2. ASSUME NEW t \in Timers, entry'[t] # None, ~wakeup, user[t] # "inserted"
        PROVE  sleep' # Forever /\ sleep' <= entry'[t]
    <3>1. entry'[t] = Elapsed(entry[t]) /\ entry[t] \in Left
      BY <2>1
    <3>2. entry[t] # None
      BY <2>2, <3>1, ElapsedLeft
    <3>3. entry[t] \in Nat /\ sleep \in Nat /\ sleep <= entry[t]
      BY <2>2, <3>1, <3>2 DEF Left
    <3> QED
      BY <2>1, <3>1, <3>3, ElapsedOrder
  <2>3. ASSUME NEW w \in Widgets, work'[w] # None
        PROVE  sleep' # Forever /\ sleep' <= work'[w]
    <3>1. work'[w] = Elapsed(work[w]) /\ work[w] \in Left
      BY <2>1
    <3>2. work[w] # None
      BY <2>3, <3>1, ElapsedLeft
    <3>3. work[w] \in Nat /\ sleep \in Nat /\ sleep <= work[w]
      BY <3>1, <3>2 DEF Left
    <3> QED
      BY <2>1, <3>1, <3>3, ElapsedOrder
  <2> QED
    BY <2>1, <2>2, <2>3
<1> QED
  BY <1>1, <1>2, <1>3, <1>4, <1>5, <1>6, <1>7, <1>8, <1>9 DEF Next, LoopStep

THEOREM Inductive == Spec => []IInv
<1>1. Init => IInv
  BY InitIInv
<1>2. IInv /\ [Next]_vars => IInv'
  BY TypeStep, CancelStep, InsertedStep, FiredStep, TeardownStep, CopyStep, CacheStep,
     SleepStep DEF IInv
<1> QED
  BY <1>1, <1>2, PTL DEF Spec
-----------------------------------------------------------------------------
(* The results, one per property of AppTimers the runs check.              *)

(* State is well typed and a turn drains no more than its budget.           *)
THEOREM TypeCorrect == Spec => []TypeOK
  BY Inductive, PTL DEF IInv

(* Once TimerHandle::cancel has returned, its timer is never queued again.  *)
THEOREM CancelIsFinal == Spec => []CancelledStaysOut
<1>1. IInv => CancelledStaysOut
  BY DEF IInv, CancelInv, CancelledStaysOut
<1> QED
  BY <1>1, Inductive, PTL

(* cancel_all is final for every timer inserted before it.                  *)
THEOREM TeardownFinal == Spec => []TeardownIsFinal
  BY Inductive, PTL DEF IInv

(* The loop never sleeps past a queued timer nor past a registered widget's.*)
THEOREM SleepInTime == Spec => []SleepsToDeadline
  BY Inductive, PTL DEF IInv

(* A run_after callback is called once.                                     *)
THEOREM OneShots == Spec => OneShotOnce
<1>1. ASSUME IInv, [Next]_vars, NEW t \in fired, ui # "callback", ui' = "callback"
      PROVE  running' # t
  <2>1. FireTake
    BY <1>1 DEF Next, LoopStep, Lookup, Insert, WakeAfterInsert, Detach, CancelFlag,
      CancelRemove, WakeAfterCancel, CloseSession, CancelAll, LoopTop, LoopArm, WaitEnds,
      OtherEvent, WaitOver, TurnDrain, DispatchWidget, CallbackEnd, TurnEnd, TreeStops,
      FailStop, Tick, vars, queueVars, loopVars, timerLoop
  <2>2. entry[t] = None
    BY <1>1 DEF IInv, FiredInv
  <2>3. PICK u \in due : running' = u /\ entry[u] # None
    BY <1>1, <2>1 DEF FireTake
  <2> QED
    BY <2>2, <2>3
<1>2. IInv /\ [Next]_vars =>
        [\A t \in fired : ~(ui # "callback" /\ ui' = "callback" /\ running' = t)]_vars
  BY <1>1
<1> QED
  BY <1>2, Inductive, PTL DEF Spec, OneShotOnce
=============================================================================
