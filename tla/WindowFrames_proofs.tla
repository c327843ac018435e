------------------------- MODULE WindowFrames_proofs -------------------------
(***************************************************************************)
(* WindowFrames for any number of failures that end a window, any set of   *)
(* request ids and any events that may arrive.  That an id is free when a  *)
(* request needs one is not used: the tickets of the frame pacer are right *)
(* by the order in which requests, frames, cancellations and messages      *)
(* follow each other.                                                      *)
(***************************************************************************)
EXTENDS WindowFrames, TLAPS

(* A scheduler whose surface cannot be drawn on waits for no frame; an      *)
(* opportunity takes the place of its request; only an occluded surface is  *)
(* probed, and failures are counted up to the one that ends the window.     *)
SchedulerOK(ids, s) ==
  /\ s \in Schedulers(ids)
  /\ s.state # "renderable" => s.req = NoRequest /\ ~s.ready
  /\ s.ready => s.req = NoRequest
  /\ s.probe # "none" => s.state = "occluded"
  /\ s.state # "terminal" => s.attempt < MaxRecoveryAttempts

(* Nothing is waiting in a scheduler.                                       *)
Idle(s) == s.req = NoRequest /\ ~s.ready

(* What asking for a frame makes of s: a request that is outstanding keeps  *)
(* its id and its native arming, and a new one is not armed.                *)
Requested(ids, s, id, t) ==
  /\ SchedulerOK(ids \cup {id}, t)
  /\ t.state = s.state /\ t.ready = s.ready
  /\ s.req # NoRequest => t.req.id = s.req.id /\ t.req.armed = s.req.armed
  /\ s.req = NoRequest => ~t.req.armed
  /\ s.state # "renderable" \/ s.ready => t = s
-----------------------------------------------------------------------------
(* The operations of the frame scheduler.                                   *)

LEMMA SchedulerFields ==
  ASSUME NEW ids, NEW s, SchedulerOK(ids, s)
  PROVE  /\ s.state \in SurfaceStates /\ s.req \in [id : ids \cup {0}, armed : BOOLEAN, due : BOOLEAN]
         /\ s.ready \in BOOLEAN /\ s.retry \in BOOLEAN /\ s.attempt \in 0 .. MaxRecoveryAttempts
         /\ s.probe \in {"none", "waiting", "due"}
BY DEF SchedulerOK, Schedulers

LEMMA NewSchedulerOK ==
  ASSUME NEW ids
  PROVE  /\ SchedulerOK(ids, NewScheduler) /\ Idle(NewScheduler)
         /\ NewScheduler.attempt = 0 /\ NewScheduler.probe = "none"
BY SchedulerAssumption DEF SchedulerOK, Schedulers, NewScheduler, NoRequest, Idle, SurfaceStates

LEMMA RenewedOK ==
  ASSUME NEW ids, NEW st \in SurfaceStates, st # "terminal"
  PROVE  SchedulerOK(ids, Renewed(st)) /\ Idle(Renewed(st)) /\ Renewed(st).state = st
<1>1. NewScheduler \in Schedulers(ids)
  BY NewSchedulerOK DEF SchedulerOK
<1>2. Renewed(st) \in Schedulers(ids) /\ Renewed(st) = [NewScheduler EXCEPT !.state = st]
  BY <1>1 DEF Renewed, Schedulers
<1>3. /\ Renewed(st).state = st /\ Idle(Renewed(st))
      /\ Renewed(st).attempt = 0 /\ Renewed(st).probe = "none"
  BY <1>1, <1>2, NewSchedulerOK DEF Schedulers, Idle
<1> QED
  BY <1>2, <1>3, SchedulerAssumption DEF SchedulerOK, Idle

LEMMA SuspendOK ==
  ASSUME NEW ids, NEW s, SchedulerOK(ids, s), NEW reason \in {"hidden", "minimized", "zero"}
  PROVE  LET t == SuspendSurface(s, reason) IN
         /\ SchedulerOK(ids, t) /\ Idle(t) /\ t.state # "renderable"
         /\ s.state = "terminal" => t = s
<1>1. SchedulerOK(ids, Renewed(reason)) /\ Idle(Renewed(reason)) /\ Renewed(reason).state = reason
  BY RenewedOK DEF SurfaceStates
<1>2. s.state # "renderable" => Idle(s)
  BY DEF SchedulerOK, Idle
<1> QED
  BY <1>1, <1>2 DEF SuspendSurface

LEMMA ResumeOK ==
  ASSUME NEW ids, NEW s, SchedulerOK(ids, s)
  PROVE  LET t == ResumeSurface(s) IN
         /\ SchedulerOK(ids, t)
         /\ s.state \in {"renderable", "terminal"} => t = s
         /\ s.state \notin {"renderable", "terminal"} => Idle(t) /\ t.state = "renderable"
BY RenewedOK DEF ResumeSurface, SurfaceStates

LEMMA ChangedOK ==
  ASSUME NEW ids, NEW s, SchedulerOK(ids, s)
  PROVE  LET t == SurfaceChanged(s) IN
         /\ SchedulerOK(ids, t) /\ Idle(t)
         /\ s.state = "terminal" => t = s
<1>1. s.state # "renderable" => Idle(s)
  BY DEF SchedulerOK, Idle
<1> QED
  BY <1>1, RenewedOK DEF SurfaceChanged, SurfaceStates

LEMMA MarkTerminalOK ==
  ASSUME NEW ids, NEW s, SchedulerOK(ids, s)
  PROVE  LET t == MarkTerminal(s) IN SchedulerOK(ids, t) /\ Idle(t) /\ t.state = "terminal"
<1>1. CASE s.state = "terminal"
  BY <1>1 DEF MarkTerminal, SchedulerOK, Idle
<1>2. CASE s.state # "terminal"
  <2>1. NoRequest \in [id : ids \cup {0}, armed : BOOLEAN, due : BOOLEAN]
    BY DEF NoRequest
  <2>2. MarkTerminal(s) = [state |-> "terminal", req |-> NoRequest, ready |-> FALSE, retry |-> FALSE,
                           attempt |-> MaxRecoveryAttempts, probe |-> "none"]
    BY <1>2 DEF MarkTerminal, Renewed, NewScheduler
  <2>3. MarkTerminal(s) \in Schedulers(ids)
    BY <2>1, <2>2, SchedulerAssumption DEF Schedulers, SurfaceStates
  <2> QED
    BY <2>2, <2>3 DEF SchedulerOK, Idle
<1> QED
  BY <1>1, <1>2

LEMMA RequestOK ==
  ASSUME NEW ids, NEW s, SchedulerOK(ids, s), NEW id, NEW now \in BOOLEAN
  PROVE  LET t == RequestFrame(s, id, now) IN
         /\ Requested(ids, s, id, t)
         /\ s.state = "renderable" /\ ~s.ready /\ s.req = NoRequest =>
              t.req = [id |-> id, armed |-> FALSE, due |-> now]
<1> DEFINE t == RequestFrame(s, id, now)
<1>0. SchedulerOK(ids \cup {id}, s)
  BY DEF SchedulerOK, Schedulers
<1>1. CASE s.state # "renderable" \/ s.ready
  <2>1. t = s /\ (s.req = NoRequest => ~t.req.armed)
    BY <1>1 DEF RequestFrame, NoRequest
  <2> QED
    BY <1>0, <1>1, <2>1 DEF Requested
<1>2. CASE s.state = "renderable" /\ ~s.ready /\ s.req # NoRequest
  <2>1. t = [s EXCEPT !.req.due = @ \/ now]
    BY <1>2 DEF RequestFrame
  <2>2. t.req.due \in BOOLEAN /\ t.req = [s.req EXCEPT !.due = t.req.due]
    BY <1>0, <2>1, SchedulerFields DEF SchedulerOK, Schedulers
  <2> QED
    BY <1>0, <1>2, <2>1, <2>2 DEF SchedulerOK, Schedulers, Requested
<1>3. CASE s.state = "renderable" /\ ~s.ready /\ s.req = NoRequest
  <2>1. t = [s EXCEPT !.req = [id |-> id, armed |-> FALSE, due |-> now]]
    BY <1>3 DEF RequestFrame
  <2>2. /\ t \in Schedulers(ids \cup {id})
        /\ t.state = s.state /\ t.ready = s.ready /\ t.attempt = s.attempt /\ t.probe = s.probe
        /\ t.req = [id |-> id, armed |-> FALSE, due |-> now]
    <3> DEFINE new == [id |-> id, armed |-> FALSE, due |-> now]
    <3>1. new \in [id : (ids \cup {id}) \cup {0}, armed : BOOLEAN, due : BOOLEAN]
      OBVIOUS
    <3>2. s \in Schedulers(ids \cup {id})
      BY <1>0 DEF SchedulerOK
    <3>3. t = [s EXCEPT !.req = new]
      BY <2>1
    <3>4. /\ t \in Schedulers(ids \cup {id}) /\ t.req = new
          /\ t.state = s.state /\ t.ready = s.ready /\ t.attempt = s.attempt /\ t.probe = s.probe
      <4> HIDE DEF new, t
      <4> QED
        BY <3>1, <3>2, <3>3 DEF Schedulers
    <3> QED
      BY <3>4
  <2>3. SchedulerOK(ids \cup {id}, t)
    BY <1>0, <1>3, <2>2 DEF SchedulerOK
  <2> QED
    BY <1>3, <2>2, <2>3, SchedulerFields DEF NoRequest, Requested
<1> QED
  BY <1>1, <1>2, <1>3

(* What arm_visual_request changes: it makes a request where there is none. *)
LEMMA ArmOK ==
  ASSUME NEW ids, NEW s, SchedulerOK(ids, s), NEW has,
         NEW continue, NEW tighten
  PROVE  Requested(ids, s, NewId, ArmVisual(s, has, continue, tighten))
<1>1. SchedulerOK(ids \cup {NewId}, s) /\ (s.req = NoRequest => ~s.req.armed)
  BY DEF SchedulerOK, Schedulers, NoRequest
<1>2. Requested(ids, s, NewId, s)
  BY <1>1 DEF Requested
<1>3. /\ Requested(ids, s, NewId, RequestFrame(s, NewId, TRUE))
      /\ Requested(ids, s, NewId, RequestFrame(s, NewId, FALSE))
  BY RequestOK
<1> QED
  BY <1>2, <1>3 DEF ArmVisual

LEMMA TakeOK ==
  ASSUME NEW ids, NEW s, SchedulerOK(ids, s), HasDueOpportunity(s)
  PROVE  LET t == TakeDueOpportunity(s) IN
         SchedulerOK(ids, t) /\ Idle(t) /\ t.state = "renderable"
<1> DEFINE t == TakeDueOpportunity(s)
<1>0. s \in Schedulers(ids) /\ NoRequest \in [id : ids \cup {0}, armed : BOOLEAN, due : BOOLEAN]
  BY DEF SchedulerOK, NoRequest
<1>1. CASE s.ready
  BY <1>0, <1>1 DEF TakeDueOpportunity, SchedulerOK, Schedulers, Idle
<1>2. CASE ~s.ready /\ s.state = "renderable"
  BY <1>0, <1>2 DEF TakeDueOpportunity, SchedulerOK, Schedulers, Idle
<1>3. CASE ~s.ready /\ s.state # "renderable"
  BY <1>0, <1>3 DEF TakeDueOpportunity, HasDueOpportunity, SchedulerOK, Schedulers, SurfaceStates, Idle
<1> QED
  BY <1>1, <1>2, <1>3

LEMMA NotifyOK ==
  ASSUME NEW ids, NEW s, SchedulerOK(ids, s), NEW id
  PROVE  LET t == NotifyOpportunity(s, id) IN
         /\ SchedulerOK(ids, t) /\ t.state = s.state
         /\ \/ t = s
            \/ s.req.armed /\ s.req.id = id /\ t.req = NoRequest
<1>0. s \in Schedulers(ids) /\ NoRequest \in [id : ids \cup {0}, armed : BOOLEAN, due : BOOLEAN]
  BY DEF SchedulerOK, NoRequest
<1>1. CASE s.state = "renderable" /\ ~s.ready /\ s.req.armed /\ s.req.id = id
  BY <1>0, <1>1 DEF NotifyOpportunity, SchedulerOK, Schedulers
<1>2. CASE ~(s.state = "renderable" /\ ~s.ready /\ s.req.armed /\ s.req.id = id)
  BY <1>2 DEF NotifyOpportunity
<1> QED
  BY <1>1, <1>2

LEMMA PassOK ==
  ASSUME NEW ids, NEW s, SchedulerOK(ids, s)
  PROVE  LET t == PassDeadline(s) IN
         /\ SchedulerOK(ids, t) /\ t.state = s.state /\ t.ready = s.ready
         /\ t.req.id = s.req.id /\ t.req.armed = s.req.armed
         /\ s.req = NoRequest => t.req = NoRequest
<1> DEFINE t == PassDeadline(s)
<1>0. s \in Schedulers(ids)
  BY DEF SchedulerOK
<1>1. CASE s.state = "renderable"
  <2>1. t = [s EXCEPT !.req.due = s.req # NoRequest]
    BY <1>1 DEF PassDeadline
  <2>2. t.req = [s.req EXCEPT !.due = s.req # NoRequest]
    BY <1>0, <2>1 DEF Schedulers
  <2>3. s.req = NoRequest => t.req = NoRequest
    <3>1. ASSUME NEW r \in [id : ids \cup {0}, armed : BOOLEAN, due : BOOLEAN], ~r.due
          PROVE  [r EXCEPT !.due = FALSE] = r
      BY <3>1
    <3>2. NoRequest \in [id : ids \cup {0}, armed : BOOLEAN, due : BOOLEAN] /\ ~NoRequest.due
      BY DEF NoRequest
    <3> QED
      BY <2>2, <3>1, <3>2
  <2>4. /\ t \in Schedulers(ids) /\ t.state = s.state /\ t.ready = s.ready
        /\ t.attempt = s.attempt /\ t.probe = s.probe
        /\ t.req.id = s.req.id /\ t.req.armed = s.req.armed
    BY <1>0, <2>1, <2>2 DEF Schedulers
  <2> QED
    BY <1>1, <2>3, <2>4 DEF SchedulerOK
<1>2. CASE s.state = "recovering"
  BY <1>0, <1>2 DEF PassDeadline, SchedulerOK, Schedulers
<1>3. CASE s.state = "occluded"
  BY <1>0, <1>3 DEF PassDeadline, SchedulerOK, Schedulers
<1>4. CASE s.state \notin {"renderable", "recovering", "occluded"}
  BY <1>4 DEF PassDeadline
<1> QED
  BY <1>1, <1>2, <1>3, <1>4

LEMMA PresentedOK ==
  ASSUME NEW ids, NEW s, SchedulerOK(ids, s), s.state = "renderable"
  PROVE  LET t == Presented(s) IN
         SchedulerOK(ids, t) /\ t.state = s.state /\ t.req = s.req /\ t.ready = s.ready
<1> DEFINE t == Presented(s)
<1>1. s \in Schedulers(ids)
  BY DEF SchedulerOK
<1>2. t = [s EXCEPT !.state = "renderable", !.retry = FALSE, !.attempt = 0, !.probe = "none"]
  BY DEF Presented
<1>3. /\ t.state = "renderable" /\ t.req = s.req /\ t.ready = s.ready
      /\ t.attempt = 0 /\ t.probe = "none"
  BY <1>1, <1>2 DEF Schedulers
<1>4. t = [state |-> "renderable", req |-> s.req, ready |-> s.ready, retry |-> FALSE,
           attempt |-> 0, probe |-> "none"]
  BY <1>1, <1>2 DEF Schedulers
<1>5. t \in Schedulers(ids)
  BY <1>1, <1>4, SchedulerAssumption DEF Schedulers, SurfaceStates
<1> QED
  BY <1>3, <1>5, SchedulerAssumption DEF SchedulerOK

LEMMA FailedOK ==
  ASSUME NEW ids, NEW s, SchedulerOK(ids, s), NEW failure
  PROVE  LET t == FrameFailed(s, failure) IN
         /\ SchedulerOK(ids, t) /\ Idle(t) /\ t.state # "renderable"
         /\ s.state = "terminal" => t.state = "terminal"
<1> DEFINE t == FrameFailed(s, failure)
<1>1. CASE s.state = "terminal" \/ failure = "oom"
  <2>1. t = MarkTerminal(s)
    BY <1>1 DEF FrameFailed
  <2> QED
    BY <2>1, MarkTerminalOK
<1>2. CASE s.state # "terminal" /\ failure = "changed"
  <2>1. SchedulerOK(ids, Renewed("recovering")) /\ Idle(Renewed("recovering"))
        /\ Renewed("recovering").state = "recovering"
    BY RenewedOK DEF SurfaceStates
  <2>2. t = [Renewed("recovering") EXCEPT !.retry = TRUE]
    BY <1>2 DEF FrameFailed
  <2> QED
    BY <1>2, <2>1, <2>2 DEF SchedulerOK, Schedulers, Idle
<1>3. CASE s.state # "terminal" /\ failure = "occluded"
  <2>1. SchedulerOK(ids, Renewed("occluded")) /\ Idle(Renewed("occluded"))
        /\ Renewed("occluded").state = "occluded"
    BY RenewedOK DEF SurfaceStates
  <2>2. t = [Renewed("occluded") EXCEPT !.probe = "waiting"]
    BY <1>3 DEF FrameFailed
  <2> QED
    BY <1>3, <2>1, <2>2 DEF SchedulerOK, Schedulers, Idle
<1>4. CASE s.state # "terminal" /\ failure \notin {"oom", "changed", "occluded"}
  <2> DEFINE attempt == s.attempt + 1
             renewed == Renewed(IF attempt >= MaxRecoveryAttempts THEN "terminal" ELSE "recovering")
  <2>1. attempt \in 0 .. MaxRecoveryAttempts
    BY <1>4, SchedulerAssumption DEF SchedulerOK, Schedulers
  <2>2. t = [renewed EXCEPT !.attempt = attempt]
    BY <1>4 DEF FrameFailed
  <2>3. renewed = [NewScheduler EXCEPT
                     !.state = IF attempt >= MaxRecoveryAttempts THEN "terminal" ELSE "recovering"]
    BY DEF Renewed
  <2>4. NewScheduler \in Schedulers(ids) /\ Idle(NewScheduler) /\ NewScheduler.probe = "none"
    BY NewSchedulerOK DEF SchedulerOK
  <2> HIDE DEF attempt, renewed
  <2>5. /\ t \in Schedulers(ids) /\ Idle(t) /\ t.attempt = attempt /\ t.probe = "none"
        /\ t.state = IF attempt >= MaxRecoveryAttempts THEN "terminal" ELSE "recovering"
    BY <2>1, <2>2, <2>3, <2>4 DEF Schedulers, SurfaceStates, Idle
  <2> QED
    BY <1>4, <2>1, <2>5, SchedulerAssumption DEF SchedulerOK, Idle
<1> QED
  BY <1>1, <1>2, <1>3, <1>4

LEMMA ProbeOK ==
  ASSUME NEW ids, NEW s, SchedulerOK(ids, s)
  PROVE  /\ LET t == TakeDueProbe(s) IN
            /\ SchedulerOK(ids, t) /\ t.state = s.state /\ t.req = s.req /\ t.ready = s.ready
         /\ LET t == OcclusionStillPresent(s) IN
            /\ SchedulerOK(ids, t) /\ t.state = s.state /\ t.req = s.req /\ t.ready = s.ready
BY DEF TakeDueProbe, OcclusionStillPresent, SchedulerOK, Schedulers

LEMMA FailureOK ==
  ASSUME NEW ids, SchedulerOK(ids, sched), NEW e, NEW failure
  PROVE  LET t == FailureOf(e, failure) IN
         /\ SchedulerOK(ids, t) /\ Idle(t) /\ t.state # "renderable"
         /\ sched.state = "terminal" \/ e.terminal => t.state = "terminal"
BY FailedOK, MarkTerminalOK DEF FailureOf

-----------------------------------------------------------------------------
(* The operations of the graphics recovery.                                 *)

(* An engine after an operation on e: nothing but a recovery gives up, and  *)
(* what was torn down stays owed.                                           *)
Owed(e) == e.up \/ e.pending # "none" \/ e.terminal
Kept(e, f) ==
  /\ f \in Engines
  /\ f.terminal = e.terminal
  /\ Owed(e) => Owed(f)

LEMMA ResetOK ==
  ASSUME NEW e \in Engines
  PROVE  LET f == ResetConflicts(e) IN
         /\ f \in Engines /\ f.up = e.up /\ f.pending = e.pending /\ f.terminal = e.terminal
<1>1. ASSUME NEW n \in 0 .. MaxPresentProbeConflicts
      PROVE  LET f == [e EXCEPT !.reopened = FALSE, !.conflicts = n] IN
             /\ f \in Engines /\ f.up = e.up /\ f.pending = e.pending /\ f.terminal = e.terminal
  BY DEF Engines
<1>2. 0 \in 0 .. MaxPresentProbeConflicts
  BY DEF MaxPresentProbeConflicts
<1> QED
  BY <1>1, <1>2 DEF ResetConflicts

LEMMA KeepOK ==
  ASSUME NEW e \in Engines, NEW failure \in {"lost", "oom"}
  PROVE  LET f == KeepFirst(e, failure) IN
         /\ f \in Engines /\ f.terminal = e.terminal
         /\ f.pending # "none" \/ f.terminal
<1>1. CASE e.terminal \/ e.pending # "none"
  BY <1>1 DEF KeepFirst
<1>2. CASE ~(e.terminal \/ e.pending # "none")
  BY <1>2 DEF KeepFirst, Engines
<1> QED
  BY <1>1, <1>2

LEMMA RecordOK ==
  ASSUME NEW e \in Engines, NEW failure \in Errors \cup {"changed", "occluded"}
  PROVE  /\ Kept(e, RecordFailure(e, failure))
         /\ failure \in Errors => Owed(RecordFailure(e, failure))
<1> DEFINE f == RecordFailure(e, failure)
<1>1. CASE failure = "changed"
  <2>1. f = ResetConflicts(e)
    BY <1>1 DEF RecordFailure
  <2> QED
    BY <1>1, <2>1, ResetOK DEF Kept, Owed, Errors
<1>2. CASE failure = "occluded" /\ ~e.reopened
  <2>1. f = e
    BY <1>2 DEF RecordFailure
  <2> QED
    BY <1>2, <2>1 DEF Kept, Errors
<1>3. CASE failure = "occluded" /\ e.reopened /\ e.conflicts + 1 < MaxPresentProbeConflicts
  <2>1. f = [e EXCEPT !.reopened = FALSE, !.conflicts = @ + 1]
    BY <1>3 DEF RecordFailure, Engines, MaxPresentProbeConflicts
  <2>2. e.conflicts + 1 \in 0 .. MaxPresentProbeConflicts
    BY <1>3 DEF Engines, MaxPresentProbeConflicts
  <2>3. f = [up |-> e.up, software |-> e.software, step |-> e.step, pending |-> e.pending,
             terminal |-> e.terminal, reopened |-> FALSE, conflicts |-> e.conflicts + 1]
    BY <2>1 DEF Engines
  <2>4. /\ f \in Engines /\ f.up = e.up /\ f.pending = e.pending /\ f.terminal = e.terminal
    BY <2>2, <2>3 DEF Engines
  <2> QED
    BY <1>3, <2>4 DEF Kept, Owed, Errors
<1>4. CASE failure = "occluded" /\ e.reopened /\ ~(e.conflicts + 1 < MaxPresentProbeConflicts)
  <2> DEFINE last == [ResetConflicts(e) EXCEPT !.step = 3]
  <2>1. f = KeepFirst(last, "lost")
    BY <1>4 DEF RecordFailure, Engines, MaxPresentProbeConflicts
  <2>2. last \in Engines /\ last.terminal = e.terminal
    BY ResetOK DEF Engines
  <2> HIDE DEF last
  <2> QED
    BY <1>4, <2>1, <2>2, KeepOK DEF Kept, Owed, Errors
<1>5. CASE failure \in Errors
  <2>1. f = KeepFirst(ResetConflicts(e), failure)
    BY <1>5 DEF RecordFailure, Errors
  <2> QED
    BY <1>5, <2>1, ResetOK, KeepOK DEF Kept, Owed, Errors
<1> QED
  BY <1>1, <1>2, <1>3, <1>4, <1>5

LEMMA NotRebuiltOK ==
  ASSUME NEW e \in Engines, NEW r \in NotRebuilt(e)
  PROVE  /\ r.failure # "none"
         /\ r.engine \in Engines /\ r.engine.terminal = e.terminal /\ Owed(r.engine)
<1>1. PICK failure \in Errors : r = Recorded([e EXCEPT !.up = FALSE], failure)
  BY DEF NotRebuilt
<1> DEFINE down == [e EXCEPT !.up = FALSE]
<1>2. down \in Engines /\ down.terminal = e.terminal
  BY DEF Engines
<1>3. r.failure = failure /\ r.engine = RecordFailure(down, failure)
  BY <1>1 DEF Recorded, Failed
<1> HIDE DEF down
<1> QED
  BY <1>2, <1>3, RecordOK DEF Kept, Errors

(* A recovery that succeeds has not given up, and whatever it did is owed.  *)
LEMMA RecoverOK ==
  ASSUME NEW e \in Engines, NEW r \in RecoverBeforeFrame(e)
  PROVE  /\ r.engine \in Engines
         /\ Owed(e) => Owed(r.engine)
         /\ r.failure = "none" => ~r.engine.terminal
<1> DEFINE oom == e.pending = "oom"
           taken == [e EXCEPT !.pending = "none", !.step = IF oom \/ @ = 5 THEN @ ELSE @ + 1]
<1>1. taken \in Engines /\ taken.terminal = e.terminal
  <2> DEFINE step == IF oom \/ e.step = 5 THEN e.step ELSE e.step + 1
  <2>1. step \in 0 .. 5
    BY DEF Engines
  <2>2. ASSUME NEW n \in 0 .. 5
        PROVE  LET f == [e EXCEPT !.pending = "none", !.step = n] IN
               f \in Engines /\ f.terminal = e.terminal
    BY DEF Engines
  <2>3. taken = [e EXCEPT !.pending = "none", !.step = step]
    BY DEF Engines
  <2> HIDE DEF step, taken
  <2> QED
    BY <2>1, <2>2, <2>3
<1>2. CASE e.terminal
  <2>1. r = Failed(e, "lost")
    BY <1>2 DEF RecoverBeforeFrame
  <2> QED
    BY <2>1 DEF Failed
<1>3. CASE ~e.terminal /\ e.pending = "none"
  <2>1. r = Ok(e)
    BY <1>3 DEF RecoverBeforeFrame
  <2> QED
    BY <1>3, <2>1 DEF Ok
<1>4. CASE ~e.terminal /\ e.pending # "none" /\ (oom \/ e.step >= Len(Actions))
  <2>1. r = Failed([taken EXCEPT !.terminal = TRUE], e.pending)
    BY <1>4 DEF RecoverBeforeFrame
  <2> HIDE DEF taken
  <2>2. /\ [taken EXCEPT !.terminal = TRUE] \in Engines
        /\ [taken EXCEPT !.terminal = TRUE].terminal
    BY <1>1 DEF Engines
  <2> QED
    BY <1>4, <2>1, <2>2 DEF Failed, Owed
<1>5. CASE ~e.terminal /\ e.pending # "none" /\ ~(oom \/ e.step >= Len(Actions))
  <2>1. r = Rebuilt(taken, Actions[e.step + 1]) \/ r \in NotRebuilt(taken)
    BY <1>5 DEF RecoverBeforeFrame
  <2> HIDE DEF taken
  <2>2. ASSUME NEW action, r = Rebuilt(taken, action)
        PROVE  r.engine \in Engines /\ r.engine.up /\ r.engine.terminal = e.terminal
    <3>1. r.engine = [ResetConflicts(taken) EXCEPT !.up = TRUE, !.software = action = "software"]
      BY <2>2 DEF Rebuilt, Ok
    <3> QED
      BY <1>1, <3>1, ResetOK DEF Engines
  <2> QED
    BY <1>1, <1>5, <2>1, <2>2, NotRebuiltOK DEF Owed
<1> QED
  BY <1>2, <1>3, <1>4, <1>5

LEMMA RenderOK ==
  ASSUME NEW e \in Engines, NEW r \in RenderFrame(e)
  PROVE  /\ r.engine \in Engines
         /\ Owed(e) => Owed(r.engine)
         /\ r.failure = "none" => ~r.engine.terminal
<1>1. PICK begun \in BeginFrame(e) :
        r \in IF begun.failure # "none" THEN {begun}
              ELSE {Ok(OnPresented(begun.engine))}
                     \cup {Recorded(begun.engine, failure) : failure \in FrameFailures(begun.engine)}
  BY DEF RenderFrame
<1>2. /\ begun.engine \in Engines
      /\ Owed(e) => Owed(begun.engine)
      /\ begun.failure = "none" => ~begun.engine.terminal
  <2>1. CASE begun \in RecoverBeforeFrame(e)
    BY <2>1, RecoverOK
  <2>2. CASE begun \in RecoverBeforeFrame(RecordFailure(e, "lost"))
    <3>1. Kept(e, RecordFailure(e, "lost"))
      BY RecordOK DEF Errors
    <3> QED
      BY <2>2, <3>1, RecoverOK DEF Kept
  <2> QED
    BY <2>1, <2>2 DEF BeginFrame
<1>3. CASE begun.failure # "none"
  BY <1>1, <1>2, <1>3
<1>4. CASE begun.failure = "none" /\ r = Ok(OnPresented(begun.engine))
  <2>1. r.engine = [ResetConflicts(begun.engine) EXCEPT !.step = 0]
    BY <1>4 DEF Ok, OnPresented
  <2>2. /\ r.engine \in Engines /\ r.engine.terminal = begun.engine.terminal
        /\ r.engine.up = begun.engine.up /\ r.engine.pending = begun.engine.pending
    BY <1>2, <2>1, ResetOK DEF Engines
  <2> QED
    BY <1>2, <1>4, <2>2 DEF Owed
<1>5. ASSUME begun.failure = "none", NEW failure \in FrameFailures(begun.engine),
             r = Recorded(begun.engine, failure)
      PROVE  /\ r.engine \in Engines
             /\ Owed(e) => Owed(r.engine)
             /\ r.failure = "none" => ~r.engine.terminal
  <2>1. r.engine = RecordFailure(begun.engine, failure)
    BY <1>5 DEF Recorded, Failed
  <2>2. Kept(begun.engine, r.engine)
    BY <1>2, <2>1, RecordOK DEF FrameFailures, Errors
  <2> QED
    BY <1>2, <1>5, <2>2 DEF Kept
<1> QED
  BY <1>1, <1>3, <1>4, <1>5

LEMMA TestOK ==
  ASSUME NEW e \in Engines, NEW r \in TestPresent(e)
  PROVE  Kept(e, r.engine)
<1> DEFINE reset == ResetConflicts(e)
<1>1. Kept(e, reset)
  BY ResetOK DEF Kept, Owed
<1> HIDE DEF reset
<1>2. ASSUME NEW failure \in Errors, r = Recorded(reset, failure)
      PROVE  Kept(e, r.engine)
  <2>1. r.engine = RecordFailure(reset, failure) /\ reset \in Engines
    BY <1>1, <1>2 DEF Recorded, Failed, Kept
  <2> QED
    BY <1>1, <2>1, RecordOK DEF Kept
<1>3. CASE r = Ok([e EXCEPT !.reopened = TRUE])
  <2>1. r.engine = [e EXCEPT !.reopened = TRUE]
    BY <1>3 DEF Ok
  <2> QED
    BY <2>1 DEF Kept, Owed, Engines
<1>4. CASE r = Failed(reset, "occluded")
  BY <1>1, <1>4 DEF Failed
<1> QED
  BY <1>2, <1>3, <1>4 DEF TestPresent, reset

LEMMA ResizeOK ==
  ASSUME NEW e \in Engines, NEW r \in ResizeEngine(e)
  PROVE  Kept(e, r.engine)
<1>1. CASE r = Failed(e, "lost") \/ r = Ok(e)
  BY <1>1 DEF Failed, Ok, Kept
<1>2. ASSUME NEW failure \in Errors, r = Recorded(e, failure)
      PROVE  Kept(e, r.engine)
  <2>1. r.engine = RecordFailure(e, failure)
    BY <1>2 DEF Recorded, Failed
  <2> QED
    BY <2>1, RecordOK
<1> QED
  BY <1>1, <1>2 DEF ResizeEngine

-----------------------------------------------------------------------------
(* The invariant.  The ids that occur are some set that grows: that a new   *)
(* request finds a free one is not assumed.                                 *)

Messages(ids) == [kind : {"opportunity"} \cup WindowEvents, id : ids \cup {0}]

TypeInv(ids) ==
  /\ turn \in Turns /\ batch \in Seq(Messages(ids))
  /\ SchedulerOK(ids, sched) /\ engine \in Engines
  /\ pending \in ids \cup {0} /\ submitted \in BOOLEAN /\ chan \in ids \cup {0}
  /\ worker \in [pc : {"none", "waiting", "flush", "post", "discard"}, ticket : ids \cup {0}]
  /\ posted \in Seq(ids \cup {0})

(* Events are dispatched before the frame; a frame starts with no request   *)
(* and no opportunity left, and with nothing submitted.                     *)
TurnInv ==
  /\ batch # <<>> => turn = "events"
  /\ turn = "probe" => sched.state = "occluded"
  /\ turn = "visual" => sched.req = NoRequest
  /\ turn \in {"visual", "render"} =>
       sched.state = "renderable" /\ ~sched.ready /\ ~submitted

(* What the pacer holds of a scheduler s: a ticket p for its native request *)
(* and, once it is submitted, the presentation of its frame.                *)
Fits(s, p, given, shown) ==
  /\ p # 0 /\ s.state # "terminal" => s.req.armed /\ s.req.id = p
  /\ s.ready => shown
  /\ given => p # 0
  /\ given /\ s.state # "terminal" => shown

(* A message that waits to be dispatched completed the pacer's ticket.      *)
BatchInv ==
  \A i \in DOMAIN batch : batch[i].kind = "opportunity" =>
    /\ pending = 0
    /\ sched.req.armed /\ sched.req.id = batch[i].id => committed

FrameInv == Fits(sched, pending, submitted, committed) /\ BatchInv

(* A worker that waits for a ticket has none.                               *)
WorkerInv ==
  /\ worker.pc \in {"none", "waiting"} => worker.ticket = 0
  /\ SubmittedIsUnderway

EngineInv == TornDownIsOwed /\ GivenUpIsTerminal

IInv == (\E ids : TypeInv(ids)) /\ TurnInv /\ FrameInv /\ WorkerInv /\ EngineInv
-----------------------------------------------------------------------------
(* The pacer's tickets and the scheduler.                                   *)

Gone(p, given) == p = 0 /\ ~given

LEMMA FitsRequested ==
  ASSUME NEW ids, NEW s, NEW id, NEW t, Requested(ids, s, id, t),
         NEW p, NEW given, NEW shown, Fits(s, p, given, shown)
  PROVE  Fits(t, p, given, shown)
<1>1. s.req = NoRequest => ~s.req.armed
  BY DEF NoRequest
<1> QED
  BY <1>1 DEF Fits, Requested

LEMMA FitsIdle ==
  ASSUME NEW t, Idle(t), NEW p, NEW given, NEW shown,
         Gone(p, given) \/ (t.state = "terminal" /\ (given => p # 0))
  PROVE  Fits(t, p, given, shown)
BY DEF Fits, Idle, Gone

(* Where nothing is drawn on, the pacer holds nothing, unless the window    *)
(* failed for good.                                                         *)
LEMMA IdleGone ==
  ASSUME NEW s, Idle(s), s.state # "terminal", NEW p, NEW given, NEW shown, Fits(s, p, given, shown)
  PROVE  Gone(p, given)
BY DEF Fits, Idle, Gone, NoRequest

LEMMA UndrawnIdle ==
  ASSUME NEW ids, NEW s, SchedulerOK(ids, s), s.state # "renderable"
  PROVE  Idle(s)
BY DEF SchedulerOK, Idle

LEMMA CancelOK ==
  ASSUME NEW id, Fits(sched, pending, submitted, committed),
         pending # 0 /\ sched.state # "terminal" => id = pending,
         CancelTickets({id} \ {0})
  PROVE  \/ Gone(pending', submitted')
         \/ sched.state = "terminal" /\ pending' = pending /\ submitted' = submitted
BY DEF CancelTickets, Fits, Gone

LEMMA CancelNativeOK ==
  ASSUME Fits(sched, pending, submitted, committed), CancelNative
  PROVE  \/ Gone(pending', submitted')
         \/ sched.state = "terminal" /\ pending' = pending /\ submitted' = submitted
<1>1. pending # 0 /\ sched.state # "terminal" => NativeToken(sched) = pending
  BY DEF Fits, NativeToken
<1> HIDE DEF NativeToken
<1> QED
  BY <1>1, CancelOK DEF CancelNative

(* A scheduler that waits for a callback.                                   *)
Armed(ids, id, t) ==
  /\ SchedulerOK(ids \cup {id}, t) /\ t.state = "renderable" /\ ~t.ready
  /\ t.req.armed /\ t.req.id = id

LEMMA ArmedOK ==
  ASSUME NEW ids, NEW s, SchedulerOK(ids, s), s.state = "renderable", Idle(s), NEW id
  PROVE  Armed(ids, id, MarkNativeArmed(RequestFrame(s, id, FALSE), id))
<1> DEFINE r == RequestFrame(s, id, FALSE)
           t == [r EXCEPT !.req.armed = TRUE, !.req.due = FALSE]
<1>1. SchedulerOK(ids \cup {id}, r) /\ r.state = "renderable" /\ ~r.ready /\ r.req.id = id
  <2>1. Requested(ids, s, id, r)
    BY RequestOK
  <2>2. r.req = [id |-> id, armed |-> FALSE, due |-> FALSE]
    BY RequestOK DEF Idle
  <2> HIDE DEF r
  <2>3. r.req.id = id
    BY <2>2
  <2> QED
    BY <2>1, <2>3 DEF Requested, Idle
<1>2. MarkNativeArmed(r, id) = t
  BY <1>1 DEF MarkNativeArmed
<1> HIDE DEF r
<1>3. /\ t \in Schedulers(ids \cup {id}) /\ t.state = "renderable" /\ ~t.ready
      /\ t.attempt = r.attempt /\ t.probe = r.probe /\ t.req.armed /\ t.req.id = id
  BY <1>1 DEF SchedulerOK, Schedulers
<1> HIDE DEF t
<1>4. SchedulerOK(ids \cup {id}, t)
  BY <1>1, <1>3 DEF SchedulerOK
<1>5. Armed(ids, id, t)
  BY <1>3, <1>4 DEF Armed
<1> USE DEF r
<1> QED
  BY <1>2, <1>5

(* A longer list of ids.                                                    *)
LEMMA Wider ==
  ASSUME NEW ids, NEW more, ids \subseteq more, NEW s, SchedulerOK(ids, s)
  PROVE  SchedulerOK(more, s)
BY DEF SchedulerOK, Schedulers

(* What a step does to the turn, the scheduler and what the pacer holds.    *)
FrameStepInv(more) ==
  /\ SchedulerOK(more, sched') /\ (sched.state = "terminal" => sched'.state = "terminal")
  /\ TurnInv' /\ FrameInv'

(* A step that leaves no opportunity in the batch that was not there.       *)
LEMMA BatchIdle ==
  ASSUME BatchInv, Idle(sched'),
         \/ Gone(pending', submitted')
         \/ pending' = pending,
         batch' = batch
  PROVE  BatchInv'
BY DEF BatchInv, Idle, Gone, NoRequest

LEMMA IdleStep ==
  ASSUME TurnInv, FrameInv, Idle(sched'),
         \/ Gone(pending', submitted')
         \/ sched'.state = "terminal" /\ pending' = pending /\ submitted' = submitted,
         batch' = batch
  PROVE  FrameInv'
<1>1. Fits(sched', pending', submitted', committed')
  BY FitsIdle DEF FrameInv, Fits
<1> QED
  BY <1>1, BatchIdle DEF FrameInv

LEMMA NoBatch ==
  ASSUME NEW ids, TypeInv(ids), TurnInv, turn # "events"
  PROVE  batch = <<>>
BY DEF TypeInv, TurnInv

LEMMA EmptyBatch ==
  ASSUME batch' = <<>>
  PROVE  BatchInv'
BY DEF BatchInv

-----------------------------------------------------------------------------
(* One lemma for each action of the window's thread.                        *)

LEMMA LoopTopStep ==
  ASSUME NEW ids, NEW more, more = ids \cup {NewId}, TypeInv(ids), TurnInv, FrameInv, LoopTop
  PROVE  FrameStepInv(more)
<1>1. Requested(ids, sched, NewId, sched')
  BY ArmOK DEF LoopTop, TypeInv
<1>2. batch' = <<>> /\ turn' = "wait" /\ UNCHANGED <<committed, pending, submitted>>
  BY NoBatch DEF LoopTop, pacerVars
<1>3. Fits(sched', pending', submitted', committed')
  BY <1>1, <1>2, FitsRequested DEF FrameInv
<1>4. SchedulerOK(more, sched') /\ sched'.state = sched.state
  BY <1>1 DEF Requested
<1> QED
  BY <1>2, <1>3, <1>4, EmptyBatch DEF FrameStepInv, FrameInv, TurnInv

LEMMA WakeStep ==
  ASSUME NEW ids, TypeInv(ids), TurnInv, FrameInv,
         NEW events, Wake(events), events = <<>> \/ \E kind \in WindowEvents : events = <<Event(kind)>>
  PROVE  FrameStepInv(ids)
<1>1. /\ turn' = "events" /\ sched' = sched /\ committed' = committed
      /\ SchedulerOK(ids, sched)
  BY DEF Wake, TypeInv
<1>2. TurnInv'
  BY <1>1 DEF TurnInv
<1>3. \A kind \in WindowEvents : Event(kind).kind # "opportunity"
  BY WindowAssumption DEF Event
<1>4. CASE Completed = 0
  <2>1. batch' = events /\ pending' = pending /\ submitted' = submitted
    BY <1>4 DEF Wake
  <2>2. \A i \in DOMAIN events : events[i].kind # "opportunity"
    BY <1>3
  <2>3. BatchInv'
    BY <2>1, <2>2 DEF BatchInv
  <2> QED
    BY <1>1, <1>2, <2>1, <2>3 DEF FrameInv, FrameStepInv
<1>5. CASE Completed # 0
  <2> DEFINE message == Opportunity(Completed)
  <2>1. Completed = pending /\ submitted
    BY <1>5 DEF Completed
  <2>2. pending' = 0 /\ submitted' = FALSE
    BY <1>5 DEF Wake
  <2>3. sched.req.armed => committed
    BY <1>1, <2>1 DEF FrameInv, Fits, SchedulerOK, NoRequest
  <2>4. message.kind = "opportunity"
    BY DEF Opportunity
  <2>5. BatchInv'
    BY <1>1, <2>2, <2>3 DEF BatchInv
  <2>6. Fits(sched', pending', submitted', committed')
    BY <1>1, <2>2 DEF FrameInv, Fits
  <2> QED
    BY <1>1, <1>2, <2>5, <2>6 DEF FrameInv, FrameStepInv
<1> QED
  BY <1>4, <1>5

LEMMA DeadlineStep ==
  ASSUME NEW ids, TypeInv(ids), TurnInv, FrameInv, Deadline
  PROVE  FrameStepInv(ids)
<1>1. /\ SchedulerOK(ids, sched') /\ sched'.state = sched.state /\ sched'.ready = sched.ready
      /\ sched'.req.id = sched.req.id /\ sched'.req.armed = sched.req.armed
  BY PassOK DEF Deadline, TypeInv
<1>2. /\ turn = "wait" /\ turn' = "wait" /\ batch' = batch
      /\ UNCHANGED <<committed, pending, submitted>>
  BY DEF Deadline, pacerVars
<1>3. Fits(sched', pending', submitted', committed')
  BY <1>1, <1>2 DEF Fits, FrameInv
<1>4. BatchInv'
  BY <1>1, <1>2 DEF BatchInv, FrameInv
<1>5. TurnInv'
  BY <1>2 DEF TurnInv
<1> QED
  BY <1>1, <1>3, <1>4, <1>5 DEF FrameStepInv, FrameInv

LEMMA OpportunityStep ==
  ASSUME NEW ids, TypeInv(ids), TurnInv, FrameInv, HandleOpportunity
  PROVE  FrameStepInv(ids)
<1> DEFINE id == Head(batch).id
<1>1. /\ turn' = "events" /\ batch # <<>> /\ batch' = Tail(batch) /\ sched' = NotifyOpportunity(sched, id)
      /\ Head(batch).kind = "opportunity" /\ UNCHANGED <<committed, pending, submitted>>
  BY DEF HandleOpportunity, pacerVars
<1>2. batch \in Seq(Messages(ids)) /\ SchedulerOK(ids, sched)
  BY DEF TypeInv
<1>3. /\ 1 \in DOMAIN batch /\ Head(batch) = batch[1]
      /\ \A i \in DOMAIN batch' : i + 1 \in DOMAIN batch /\ batch'[i] = batch[i + 1]
  BY <1>1, <1>2
<1> HIDE DEF id
<1>4. /\ SchedulerOK(ids, sched') /\ sched'.state = sched.state
      /\ sched' = sched \/ (sched.req.armed /\ sched.req.id = id /\ sched'.req = NoRequest)
  BY <1>1, <1>2, NotifyOK
<1> USE DEF id
<1>5. pending = 0 /\ (sched.req.armed /\ sched.req.id = id => committed)
  BY <1>1, <1>3 DEF FrameInv, BatchInv
<1>6. Fits(sched', pending', submitted', committed')
  BY <1>1, <1>4, <1>5 DEF Fits, FrameInv
<1>7. BatchInv'
  BY <1>1, <1>3, <1>4 DEF BatchInv, FrameInv, NoRequest
<1>8. TurnInv'
  BY <1>1 DEF TurnInv
<1> QED
  BY <1>4, <1>6, <1>7, <1>8 DEF FrameStepInv, FrameInv

LEMMA EventStep ==
  ASSUME NEW ids, TypeInv(ids), TurnInv, FrameInv, HandleEvent
  PROVE  FrameStepInv(ids)
<1> DEFINE kind == Head(batch).kind
<1>0. SchedulerOK(ids, sched) /\ Fits(sched, pending, submitted, committed) /\ BatchInv
  BY DEF TypeInv, FrameInv
<1>1. /\ turn' = "events" /\ batch # <<>> /\ batch' = Tail(batch)
      /\ committed' = (committed /\ sched'.state = "renderable" /\ kind # "resize")
  BY DEF HandleEvent
<1>2. TurnInv'
  BY <1>1 DEF TurnInv
<1>3. \A i \in DOMAIN batch' : i + 1 \in DOMAIN batch /\ batch'[i] = batch[i + 1]
  BY <1>1 DEF TypeInv
<1>4. ASSUME Idle(sched'), SchedulerOK(ids, sched'), sched.state = "terminal" => sched' = sched,
             \/ Gone(pending', submitted')
             \/ sched.state = "terminal" /\ pending' = pending /\ submitted' = submitted
      PROVE  FrameStepInv(ids)
  <2>1. Fits(sched', pending', submitted', committed')
    BY <1>0, <1>4, FitsIdle DEF Fits
  <2>2. BatchInv'
    BY <1>0, <1>3, <1>4 DEF BatchInv, Idle, Gone, NoRequest
  <2> QED
    BY <1>2, <1>4, <2>1, <2>2 DEF FrameStepInv, FrameInv
<1>5. ASSUME sched' = sched, kind # "resize",
             \/ Gone(pending', submitted')
             \/ pending' = pending /\ submitted' = submitted
      PROVE  FrameStepInv(ids)
  <2>1. CASE sched.state = "renderable"
    <3>1. committed' <=> committed
      BY <1>1, <1>5, <2>1
    <3>2. Fits(sched', pending', submitted', committed')
      BY <1>0, <1>5, <3>1 DEF Fits, Gone
    <3>3. BatchInv'
      BY <1>0, <1>3, <1>5, <3>1 DEF BatchInv, Gone
    <3> QED
      BY <1>0, <1>2, <1>5, <3>2, <3>3 DEF FrameStepInv, FrameInv
  <2>2. CASE sched.state # "renderable"
    <3>1. Idle(sched) /\ (sched.state # "terminal" => Gone(pending, submitted))
      BY <1>0, <2>2, UndrawnIdle, IdleGone
    <3> QED
      BY <1>0, <1>4, <1>5, <3>1 DEF Gone
  <2> QED
    BY <2>1, <2>2
<1> HIDE DEF kind
<1>6. CASE kind = "resize" /\ CancelNative /\ sched' = SurfaceChanged(sched)
  BY <1>0, <1>4, <1>6, CancelNativeOK, ChangedOK
<1>7. ASSUME NEW reason \in {"hidden", "minimized", "zero"}, CancelNative,
             sched' = SuspendSurface(sched, reason)
      PROVE  FrameStepInv(ids)
  BY <1>0, <1>4, <1>7, CancelNativeOK, SuspendOK
<1>8. CASE kind = "restore" /\ CancelNative /\ sched' = ResumeSurface(sched)
  <2>1. CASE sched.state \in {"renderable", "terminal"}
    BY <1>0, <1>5, <1>8, <2>1, CancelNativeOK, ResumeOK
  <2>2. CASE sched.state \notin {"renderable", "terminal"}
    BY <1>0, <1>4, <1>8, <2>2, CancelNativeOK, ResumeOK
  <2> QED
    BY <2>1, <2>2
<1>9. CASE kind = "show" /\ sched.state = "hidden" /\ sched' = ResumeSurface(sched)
           /\ pending' = pending /\ submitted' = submitted
  <2>1. Gone(pending, submitted)
    BY <1>0, <1>9, UndrawnIdle, IdleGone
  <2> QED
    BY <1>0, <1>4, <1>9, <2>1, ResumeOK
<1>10. CASE kind \in {"show", "input"} /\ sched' = sched /\ pending' = pending /\ submitted' = submitted
  BY <1>5, <1>10
<1>11. \/ kind = "resize" /\ CancelNative /\ sched' = SurfaceChanged(sched)
       \/ \E reason \in {"hidden", "minimized", "zero"} :
            CancelNative /\ sched' = SuspendSurface(sched, reason)
       \/ kind = "restore" /\ CancelNative /\ sched' = ResumeSurface(sched)
       \/ kind = "show" /\ sched.state = "hidden" /\ sched' = ResumeSurface(sched)
            /\ pending' = pending /\ submitted' = submitted
       \/ kind \in {"show", "input"} /\ sched' = sched /\ pending' = pending /\ submitted' = submitted
  BY DEF HandleEvent, kind
<1> QED
  BY <1>6, <1>7, <1>8, <1>9, <1>10, <1>11

LEMMA FailStopStep ==
  ASSUME NEW ids, TypeInv(ids), TurnInv, FrameInv, FailStop
  PROVE  FrameStepInv(ids)
<1>1. /\ batch = <<>> /\ batch' = batch /\ turn' = "top" /\ sched' = MarkTerminal(sched)
      /\ UNCHANGED <<committed, pending, submitted>>
  BY DEF FailStop, pacerVars
<1>2. SchedulerOK(ids, sched') /\ Idle(sched') /\ sched'.state = "terminal"
  BY <1>1, MarkTerminalOK DEF TypeInv
<1>3. FrameInv' /\ TurnInv'
  BY <1>1, <1>2, IdleStep DEF TurnInv
<1> QED
  BY <1>2, <1>3 DEF FrameStepInv

(* The surface goes: its native request is cancelled.                       *)
LEMMA SuspendStep ==
  ASSUME NEW ids, TypeInv(ids), TurnInv, FrameInv, CancelNative, batch = <<>>, batch' = batch,
         turn' = "top",
         NEW reason \in {"hidden", "minimized", "zero"}, sched' = SuspendSurface(sched, reason)
  PROVE  FrameStepInv(ids)
<1>1. /\ SchedulerOK(ids, sched') /\ Idle(sched')
      /\ sched.state = "terminal" => sched'.state = "terminal"
  BY SuspendOK DEF TypeInv
<1>2. \/ Gone(pending', submitted')
      \/ sched.state = "terminal" /\ pending' = pending /\ submitted' = submitted
  BY CancelNativeOK DEF FrameInv
<1>3. FrameInv' /\ TurnInv'
  BY <1>1, <1>2, IdleStep DEF TurnInv
<1> QED
  BY <1>1, <1>3 DEF FrameStepInv

(* Nothing changes but the turn.                                            *)
LEMMA SameStep ==
  ASSUME NEW ids, TypeInv(ids), TurnInv, FrameInv, batch = <<>>, batch' = batch,
         turn' = "top", UNCHANGED <<sched, committed>>,
         Gone(pending', submitted') \/ UNCHANGED <<pending, submitted>>
  PROVE  FrameStepInv(ids)
BY DEF FrameStepInv, TypeInv, FrameInv, TurnInv, Fits, BatchInv, Gone

LEMMA UnavailableStep ==
  ASSUME NEW ids, TypeInv(ids), TurnInv, FrameInv, Unavailable
  PROVE  FrameStepInv(ids)
<1>1. batch = <<>> /\ batch' = batch /\ turn' = "top"
  BY DEF Unavailable
<1>2. CASE sched.state \in {"hidden", "terminal"}
  <2>1. UNCHANGED <<sched, committed, pending, submitted>>
    BY <1>2 DEF Unavailable
  <2> QED
    BY <1>1, <2>1, SameStep
<1>3. CASE sched.state \notin {"hidden", "terminal"}
  <2>1. CancelNative /\ sched' = SuspendSurface(sched, "hidden")
    BY <1>3 DEF Unavailable
  <2> QED
    BY <1>1, <2>1, SuspendStep
<1> QED
  BY <1>2, <1>3

LEMMA AvailableStep ==
  ASSUME NEW ids, TypeInv(ids), TurnInv, FrameInv, Available
  PROVE  FrameStepInv(ids)
<1>1. /\ batch = <<>> /\ batch' = batch
      /\ turn' = IF sched.probe = "due" THEN "probe" ELSE "frame"
      /\ sched' = IF sched.state = "hidden" THEN ResumeSurface(sched)
                  ELSE IF sched.probe = "due" THEN TakeDueProbe(sched) ELSE sched
      /\ UNCHANGED <<committed, pending, submitted>>
  BY DEF Available, pacerVars
<1>2. /\ SchedulerOK(ids, sched) /\ Fits(sched, pending, submitted, committed)
      /\ sched.probe = "due" => sched.state = "occluded"
  BY DEF TypeInv, FrameInv, SchedulerOK
<1>3. CASE sched.state = "hidden"
  <2>1. SchedulerOK(ids, sched') /\ Idle(sched')
    BY <1>1, <1>2, <1>3, ResumeOK
  <2>2. Gone(pending, submitted) /\ Gone(pending', submitted')
    BY <1>1, <1>2, <1>3, UndrawnIdle, IdleGone
  <2>3. FrameInv'
    BY <1>1, <2>1, <2>2, IdleStep
  <2>4. TurnInv'
    BY <1>1, <1>2, <1>3 DEF TurnInv
  <2> QED
    BY <1>3, <2>1, <2>3, <2>4 DEF FrameStepInv
<1>4. CASE sched.state # "hidden"
  <2>1. /\ SchedulerOK(ids, sched') /\ sched'.state = sched.state
        /\ sched'.req = sched.req /\ sched'.ready = sched.ready
    BY <1>1, <1>2, <1>4, ProbeOK
  <2>2. FrameInv'
    BY <1>1, <2>1 DEF FrameInv, Fits, BatchInv
  <2>3. TurnInv'
    BY <1>1, <1>2, <2>1 DEF TurnInv
  <2> QED
    BY <2>1, <2>2, <2>3 DEF FrameStepInv
<1> QED
  BY <1>3, <1>4

LEMMA ProbeStep ==
  ASSUME NEW ids, TypeInv(ids), TurnInv, FrameInv, Probe
  PROVE  FrameStepInv(ids)
<1>1. /\ turn = "probe" /\ batch' = batch /\ turn' \in {"frame", "top"}
      /\ \/ sched' = ResumeSurface(sched)
         \/ sched' = OcclusionStillPresent(sched)
         \/ \E failure : sched' = FrameFailed(sched, failure)
      /\ UNCHANGED <<committed, pending, submitted>>
  <2>1. PICK result \in TestPresent(engine) :
          /\ sched' = CASE result.failure = "none"     -> ResumeSurface(sched)
                        [] result.failure = "occluded" -> OcclusionStillPresent(sched)
                        [] OTHER                       -> FrameFailed(sched, result.failure)
          /\ turn' = IF result.failure = "none" THEN "frame" ELSE "top"
    BY DEF Probe
  <2>2. CASE result.failure = "none"
    BY <2>1, <2>2 DEF Probe, pacerVars
  <2>3. CASE result.failure = "occluded"
    BY <2>1, <2>3 DEF Probe, pacerVars
  <2>4. CASE result.failure \notin {"none", "occluded"}
    BY <2>1, <2>4 DEF Probe, pacerVars
  <2> QED
    BY <2>2, <2>3, <2>4
<1>2. /\ sched.state = "occluded" /\ SchedulerOK(ids, sched)
      /\ Idle(sched) /\ Gone(pending, submitted) /\ batch = <<>>
  BY <1>1, UndrawnIdle, IdleGone, NoBatch DEF TurnInv, TypeInv, FrameInv
<1>3. SchedulerOK(ids, sched') /\ Idle(sched')
  <2>1. CASE sched' = ResumeSurface(sched)
    BY <1>2, <2>1, ResumeOK
  <2>2. CASE sched' = OcclusionStillPresent(sched)
    BY <1>2, <2>2, ProbeOK DEF Idle
  <2>3. ASSUME NEW failure, sched' = FrameFailed(sched, failure)
        PROVE  SchedulerOK(ids, sched') /\ Idle(sched')
    BY <1>2, <2>3, FailedOK
  <2> QED
    BY <1>1, <2>1, <2>2, <2>3
<1>4. FrameInv'
  BY <1>1, <1>2, <1>3, IdleStep
<1>5. TurnInv'
  BY <1>1, <1>2 DEF TurnInv
<1> QED
  BY <1>2, <1>3, <1>4, <1>5 DEF FrameStepInv

LEMMA TakeStep ==
  ASSUME NEW ids, NEW more, more = ids \cup {NewId}, TypeInv(ids), TurnInv, FrameInv, TakeOpportunity
  PROVE  FrameStepInv(more)
<1>1. /\ turn = "frame" /\ batch' = batch /\ committed' = committed
      /\ batch = <<>> /\ SchedulerOK(ids, sched)
  BY NoBatch DEF TakeOpportunity, TypeInv
<1>2. PICK ticked, armed :
        /\ ticked = sched \/ ticked = RequestFrame(sched, NewId, TRUE)
        /\ armed = ArmVisual(ticked, work, FALSE, TRUE)
        /\ IF HasDueOpportunity(armed)
           THEN turn' = "visual" /\ sched' = TakeDueOpportunity(armed) /\ Overtake(armed)
           ELSE turn' = "top" /\ sched' = armed /\ UNCHANGED <<pending, submitted>>
  BY DEF TakeOpportunity
<1>3. /\ SchedulerOK(more, ticked) /\ ticked.state = sched.state
      /\ Fits(ticked, pending, submitted, committed)
  <2>1. CASE ticked = sched
    BY <1>1, <2>1, Wider DEF FrameInv
  <2>2. CASE ticked = RequestFrame(sched, NewId, TRUE)
    <3>1. Requested(ids, sched, NewId, ticked)
      BY <1>1, <2>2, RequestOK
    <3> QED
      BY <3>1, FitsRequested DEF Requested, FrameInv
  <2> QED
    BY <1>2, <2>1, <2>2
<1>4. /\ SchedulerOK(more, armed) /\ armed.state = sched.state
      /\ Fits(armed, pending, submitted, committed)
  <2>1. Requested(more, ticked, NewId, armed)
    BY <1>2, <1>3, ArmOK
  <2>2. more \cup {NewId} = more
    OBVIOUS
  <2> QED
    BY <1>3, <2>1, <2>2, FitsRequested DEF Requested
<1>5. CASE ~HasDueOpportunity(armed)
  <2>1. turn' = "top" /\ sched' = armed /\ UNCHANGED <<pending, submitted>>
    BY <1>2, <1>5
  <2>2. FrameInv' /\ TurnInv'
    BY <1>1, <1>4, <2>1, EmptyBatch DEF FrameInv, TurnInv
  <2> QED
    BY <1>4, <2>1, <2>2 DEF FrameStepInv
<1>6. CASE HasDueOpportunity(armed)
  <2>1. turn' = "visual" /\ sched' = TakeDueOpportunity(armed) /\ Overtake(armed)
    BY <1>2, <1>6
  <2>2. SchedulerOK(more, sched') /\ Idle(sched') /\ sched'.state = "renderable"
    BY <1>4, <1>6, <2>1, TakeOK
  <2>3. armed.state # "terminal"
    BY <1>4, <1>6 DEF HasDueOpportunity, SchedulerOK
  <2>4. Gone(pending', submitted')
    <3>1. pending # 0 => FallbackToken(armed) = pending
      <4>1. pending # 0 => armed.req.armed /\ armed.req.id = pending
        BY <1>4, <2>3 DEF Fits
      <4>2. armed.req.armed => armed.state = "renderable" /\ ~armed.ready
        BY <1>4 DEF SchedulerOK, NoRequest
      <4> QED
        BY <4>1, <4>2 DEF FallbackToken
    <3>2. CancelTickets({FallbackToken(armed)} \ {0}) /\ (submitted => pending # 0)
      BY <1>4, <2>1 DEF Overtake, Fits
    <3> QED
      BY <3>1, <3>2 DEF CancelTickets, Gone
  <2>5. FrameInv'
    BY <1>1, <2>2, <2>4, IdleStep
  <2>6. TurnInv'
    BY <1>1, <2>1, <2>2, <2>4 DEF TurnInv, Idle, Gone
  <2> QED
    BY <1>4, <2>2, <2>3, <2>5, <2>6 DEF FrameStepInv
<1> QED
  BY <1>5, <1>6

LEMMA NextRequestStep ==
  ASSUME NEW ids, NEW more, more = ids \cup {NewId}, TypeInv(ids), TurnInv, FrameInv, RequestNext
  PROVE  FrameStepInv(more)
<1>1. /\ turn = "visual" /\ turn' = "render" /\ batch = <<>> /\ batch' = batch
      /\ committed' = committed
      /\ SchedulerOK(ids, sched) /\ sched.state = "renderable" /\ Idle(sched) /\ ~submitted
      /\ Gone(pending, submitted)
  <2>1. SchedulerOK(ids, sched) /\ sched.state = "renderable" /\ Idle(sched)
    BY DEF TypeInv, TurnInv, RequestNext, Idle
  <2>2. Gone(pending, submitted)
    BY <2>1, IdleGone DEF FrameInv
  <2> QED
    BY <2>1, <2>2, NoBatch DEF RequestNext, Gone
<1>2. CASE /\ sched' = MarkNativeArmed(RequestFrame(sched, NewId, FALSE), NewId)
           /\ ArmTicket(NewId)
  <2>1. /\ SchedulerOK(more, sched') /\ sched'.state = "renderable" /\ ~sched'.ready
        /\ sched'.req.armed /\ sched'.req.id = NewId
    <3>1. Armed(ids, NewId, sched')
      BY <1>1, <1>2, ArmedOK
    <3> QED
      BY <3>1 DEF Armed
  <2>2. pending' = NewId /\ submitted' = FALSE
    BY <1>2 DEF ArmTicket
  <2>3. Fits(sched', pending', submitted', committed')
    BY <2>1, <2>2 DEF Fits
  <2> QED
    BY <1>1, <2>1, <2>2, <2>3, EmptyBatch DEF FrameStepInv, FrameInv, TurnInv
<1>3. CASE sched' = RequestFrame(sched, NewId, FALSE) /\ UNCHANGED <<pending, submitted>>
  <2>1. Requested(ids, sched, NewId, sched')
    BY <1>1, <1>3, RequestOK
  <2>2. Fits(sched', pending', submitted', committed')
    BY <1>1, <1>3, <2>1, FitsRequested DEF FrameInv
  <2> QED
    BY <1>1, <1>3, <2>1, <2>2, EmptyBatch DEF FrameStepInv, FrameInv, TurnInv, Requested, Idle
<1>4. CASE UNCHANGED <<sched, pending, submitted>>
  <2>1. SchedulerOK(more, sched)
    BY <1>1, Wider
  <2> QED
    BY <1>1, <1>4, <2>1, EmptyBatch DEF FrameStepInv, FrameInv, TurnInv, Idle
<1> QED
  BY <1>2, <1>3, <1>4 DEF RequestNext

LEMMA IdleFrameStep ==
  ASSUME NEW ids, NEW more, more = ids \cup {NewId}, TypeInv(ids), TurnInv, FrameInv, RenderIdle
  PROVE  FrameStepInv(more)
<1>1. /\ turn = "render" /\ turn' = "top" /\ batch = <<>> /\ batch' = batch
      /\ UNCHANGED <<pending, submitted>>
      /\ SchedulerOK(ids, sched) /\ sched.state = "renderable" /\ ~sched.ready /\ ~submitted
  BY NoBatch DEF RenderIdle, TypeInv, TurnInv, pacerVars
<1>2. Requested(ids, sched, NewId, sched')
  BY <1>1, ArmOK DEF RenderIdle, FrameEnd
<1>3. Fits(sched, pending, submitted, committed')
  BY <1>1 DEF FrameInv, Fits
<1>4. Fits(sched', pending', submitted', committed')
  BY <1>1, <1>2, <1>3, FitsRequested
<1> QED
  BY <1>1, <1>2, <1>4, EmptyBatch DEF FrameStepInv, FrameInv, TurnInv, Requested

LEMMA CommitStep ==
  ASSUME NEW ids, NEW more, more = ids \cup {NewId}, TypeInv(ids), TurnInv, FrameInv, RenderCommits
  PROVE  FrameStepInv(more)
<1>1. /\ turn = "render" /\ turn' \in {"send", "top"} /\ batch = <<>> /\ batch' = batch
      /\ committed' = TRUE /\ SchedulerOK(ids, sched) /\ sched.state = "renderable"
  BY NoBatch DEF RenderCommits, TypeInv, TurnInv
<1>2. /\ SchedulerOK(ids, Presented(sched)) /\ Presented(sched).state = sched.state
      /\ Presented(sched).req = sched.req /\ Presented(sched).ready = sched.ready
  BY <1>1, PresentedOK
<1>3. Requested(ids, Presented(sched), NewId, sched')
  BY <1>2, ArmOK DEF RenderCommits, FrameEnd
<1>4. pending' = pending /\ (submitted' => pending # 0)
  BY DEF RenderCommits, MaySubmit, MarkSubmitted, pacerVars, FrameInv, Fits
<1>5. Fits(Presented(sched), pending', submitted', committed')
  BY <1>1, <1>2, <1>4 DEF FrameInv, Fits
<1>6. Fits(sched', pending', submitted', committed')
  BY <1>3, <1>5, FitsRequested
<1> QED
  BY <1>1, <1>2, <1>3, <1>6, EmptyBatch DEF FrameStepInv, FrameInv, TurnInv, Requested

LEMMA SendStep ==
  ASSUME NEW ids, TypeInv(ids), TurnInv, FrameInv, Send
  PROVE  FrameStepInv(ids)
<1>1. batch = <<>> /\ batch' = batch /\ turn' = "top" /\ UNCHANGED <<sched, committed>>
  BY NoBatch DEF Send
<1>2. Gone(pending', submitted') \/ UNCHANGED <<pending, submitted>>
  BY DEF Send, SendOrDiscard, Gone
<1> QED
  BY <1>1, <1>2, SameStep

(* A frame that fails cancels its native request.                           *)
LEMMA FailedFrameStep ==
  ASSUME NEW ids, NEW more, more = ids \cup {NewId}, TypeInv(ids), TurnInv, FrameInv,
         turn = "render", turn' = "top", batch' = batch, CancelNative,
         NEW e, NEW failure, FrameEnd(FailureOf(e, failure), "full")
  PROVE  FrameStepInv(more) /\ (e.terminal => sched'.state = "terminal")
<1>1. SchedulerOK(ids, sched) /\ sched.state = "renderable" /\ batch = <<>>
  BY NoBatch DEF TypeInv, TurnInv
<1> DEFINE t == FailureOf(e, failure)
<1>2. /\ SchedulerOK(ids, t) /\ Idle(t) /\ t.state # "renderable"
      /\ sched.state = "terminal" \/ e.terminal => t.state = "terminal"
  BY <1>1, FailureOK
<1>3. Requested(ids, t, NewId, sched')
  BY <1>2, ArmOK DEF FrameEnd
<1>4. sched' = t
  BY <1>2, <1>3 DEF Requested
<1>5. \/ Gone(pending', submitted')
      \/ sched.state = "terminal" /\ pending' = pending /\ submitted' = submitted
  BY CancelNativeOK DEF FrameInv
<1> HIDE DEF t
<1>6. FrameInv'
  BY <1>1, <1>2, <1>4, <1>5, IdleStep
<1>7. TurnInv'
  BY <1>1 DEF TurnInv
<1>8. SchedulerOK(more, sched')
  BY <1>3 DEF Requested
<1> QED
  BY <1>1, <1>2, <1>4, <1>6, <1>7, <1>8 DEF FrameStepInv

LEMMA PacerStep ==
  ASSUME NEW ids, TypeInv(ids), TurnInv, FrameInv, Worker
  PROVE  FrameStepInv(ids)
<1>1. UNCHANGED <<turn, batch, sched, committed>>
  BY DEF Worker, uiVars
<1>2. Gone(pending', submitted') \/ UNCHANGED <<pending, submitted>>
  BY DEF Worker, PacerWorker, WorkerReceive, WorkerFlushed, WorkerPost, WorkerDiscard,
         CancelTickets, Gone
<1> QED
  BY <1>1, <1>2 DEF FrameStepInv, TypeInv, FrameInv, TurnInv, Fits, BatchInv, Gone

LEMMA FrameStep ==
  ASSUME NEW ids, NEW more, more = ids \cup {NewId}, TypeInv(ids), TurnInv, FrameInv, [Next]_vars
  PROVE  FrameStepInv(more)
<1>0. ASSUME FrameStepInv(ids) PROVE FrameStepInv(more)
  BY <1>0, Wider DEF FrameStepInv
<1> HIDE DEF NewId
<1>1. CASE LoopTop
  BY <1>1, LoopTopStep
<1>2. CASE WakeDue
  <2>1. Wake(<<>>)
    BY <1>2 DEF WakeDue
  <2> QED
    BY <1>0, <2>1, WakeStep
<1>3. ASSUME NEW kind \in WindowEvents, WakeEvent(kind) PROVE FrameStepInv(more)
  <2>1. Wake(<<Event(kind)>>)
    BY <1>3 DEF WakeEvent
  <2> QED
    BY <1>0, <2>1, WakeStep
<1>4. CASE Deadline
  BY <1>0, <1>4, DeadlineStep
<1>5. CASE HandleOpportunity
  BY <1>0, <1>5, OpportunityStep
<1>6. CASE HandleEvent
  BY <1>0, <1>6, EventStep
<1>7. CASE FailStop
  BY <1>0, <1>7, FailStopStep
<1>8. CASE Unavailable
  BY <1>0, <1>8, UnavailableStep
<1>9. CASE Available
  BY <1>0, <1>9, AvailableStep
<1>10. CASE Probe
  BY <1>0, <1>10, ProbeStep
<1>11. CASE TakeOpportunity
  BY <1>11, TakeStep
<1>12. CASE RequestNext
  BY <1>12, NextRequestStep
<1>13. CASE RenderEmpty
  <2>1. /\ batch = <<>> /\ batch' = batch /\ turn' = "top" /\ CancelNative
        /\ sched' = SuspendSurface(sched, "zero")
    BY <1>13, NoBatch DEF RenderEmpty
  <2> QED
    BY <1>0, <2>1, SuspendStep
<1>14. CASE RenderIdle
  BY <1>14, IdleFrameStep
<1>15. CASE RenderCommits
  BY <1>15, CommitStep
<1>16. CASE Send
  BY <1>0, <1>16, SendStep
<1>17. CASE RenderFails
  <2>1. PICK e, failure : FrameEnd(FailureOf(e, failure), "full")
    BY <1>17 DEF RenderFails
  <2> QED
    BY <1>17, <2>1, FailedFrameStep DEF RenderFails
<1>18. CASE RenderUnrecorded
  BY <1>18, FailedFrameStep DEF RenderUnrecorded
<1>19. CASE Worker
  BY <1>0, <1>19, PacerStep
<1>20. CASE UNCHANGED vars
  <2>1. UNCHANGED <<turn, batch, sched, committed, pending, submitted>>
    BY <1>20 DEF vars, uiVars, pacerVars
  <2> QED
    BY <1>0, <2>1 DEF FrameStepInv, TypeInv, FrameInv, TurnInv, Fits, BatchInv
<1> QED
  BY <1>1, <1>2, <1>3, <1>4, <1>5, <1>6, <1>7, <1>8, <1>9, <1>10, <1>11, <1>12, <1>13, <1>14,
     <1>15, <1>16, <1>17, <1>18, <1>19, <1>20 DEF Next, Ui, Frame

-----------------------------------------------------------------------------
(* The pacer's ticket is on its way.                                        *)

LEMMA WorkerKept ==
  ASSUME WorkerInv, turn # "send", UNCHANGED <<chan, worker, posted>>,
         ~submitted' \/ (submitted' = submitted /\ pending' = pending)
  PROVE  WorkerInv'
BY DEF WorkerInv, SubmittedIsUnderway, ToSet

LEMMA CancelKeeps ==
  ASSUME NEW tickets, CancelTickets(tickets)
  PROVE  ~submitted' \/ (submitted' = submitted /\ pending' = pending)
BY DEF CancelTickets

LEMMA WakeKeeps ==
  ASSUME WorkerInv, NEW events, Wake(events)
  PROVE  WorkerInv'
<1>1. turn = "wait" /\ UNCHANGED <<chan, worker>>
  BY DEF Wake
<1>2. CASE Completed = 0
  <2>1. pending' = pending /\ submitted' = submitted
    BY <1>2 DEF Wake
  <2>2. pending # 0 /\ submitted => pending \notin ToSet(posted) \/ posted = <<>>
    <3>1. ASSUME pending # 0, submitted, pending \in ToSet(posted) PROVE FALSE
      <4>1. PICK i \in DOMAIN posted : posted[i] = pending
        BY <3>1 DEF ToSet
      <4>2. ~\E j \in 1 .. Len(posted) : posted[j] = pending
        BY <1>2, <3>1 DEF Completed
      <4> QED
        BY <4>1, <4>2
    <3> QED
      BY <3>1
  <2> QED
    BY <1>1, <2>1, <2>2 DEF WorkerInv, SubmittedIsUnderway, ToSet
<1>3. CASE Completed # 0
  <2>1. ~submitted'
    BY <1>3 DEF Wake
  <2> QED
    BY <1>1, <2>1 DEF WorkerInv, SubmittedIsUnderway
<1> QED
  BY <1>2, <1>3

(* Posting a message adds its ticket to the window's queue.                 *)
LEMMA PostedMore ==
  ASSUME NEW S, NEW s \in Seq(S), NEW x \in S
  PROVE  ToSet(Append(s, x)) = ToSet(s) \cup {x}
<1>1. DOMAIN Append(s, x) = DOMAIN s \cup {Len(s) + 1}
  OBVIOUS
<1>2. /\ \A i \in DOMAIN s : Append(s, x)[i] = s[i]
      /\ Append(s, x)[Len(s) + 1] = x
  OBVIOUS
<1> QED
  BY <1>1, <1>2 DEF ToSet

LEMMA WorkerStep ==
  ASSUME NEW ids, TypeInv(ids), TurnInv, FrameInv, WorkerInv, [Next]_vars
  PROVE  WorkerInv'
<1>1. CASE LoopTop \/ Deadline \/ HandleOpportunity \/ FailStop \/ Available \/ Probe \/ RenderIdle
  BY <1>1, WorkerKept
  DEF LoopTop, Deadline, HandleOpportunity, FailStop, Available, Probe, RenderIdle, pacerVars
<1>2. CASE WakeDue
  BY <1>2, WakeKeeps DEF WakeDue
<1>3. ASSUME NEW kind \in WindowEvents, WakeEvent(kind) PROVE WorkerInv'
  BY <1>3, WakeKeeps DEF WakeEvent
<1>4. CASE HandleEvent
  <2>1. CancelNative \/ (submitted' = submitted /\ pending' = pending)
    BY <1>4 DEF HandleEvent
  <2> QED
    BY <1>4, <2>1, CancelKeeps, WorkerKept DEF HandleEvent, CancelNative
<1>5. CASE Unavailable \/ RenderEmpty \/ RenderFails \/ RenderUnrecorded
  <2>1. CancelNative \/ (submitted' = submitted /\ pending' = pending)
    BY <1>5 DEF Unavailable, RenderEmpty, RenderFails, RenderUnrecorded
  <2> QED
    BY <1>5, <2>1, CancelKeeps, WorkerKept
    DEF Unavailable, RenderEmpty, RenderFails, RenderUnrecorded, CancelNative
<1>6. CASE TakeOpportunity
  <2>1. (\E s : Overtake(s)) \/ (submitted' = submitted /\ pending' = pending)
    BY <1>6 DEF TakeOpportunity
  <2> QED
    BY <1>6, <2>1, CancelKeeps, WorkerKept DEF TakeOpportunity, Overtake
<1>7. CASE RequestNext
  BY <1>7, WorkerKept DEF RequestNext, ArmTicket
<1>8. CASE RenderCommits
  <2>1. CASE turn' = "send" /\ MarkSubmitted
    BY <2>1 DEF MarkSubmitted, WorkerInv, SubmittedIsUnderway
  <2>2. CASE UNCHANGED pacerVars
    BY <1>8, <2>2, WorkerKept DEF RenderCommits, pacerVars
  <2> QED
    BY <1>8, <2>1, <2>2 DEF RenderCommits
<1>9. CASE Send
  <2>1. CASE chan' = pending /\ UNCHANGED <<pending, submitted, worker, posted>>
    BY <2>1 DEF WorkerInv, SubmittedIsUnderway
  <2>2. CASE submitted' = FALSE /\ UNCHANGED <<chan, worker, posted>>
    BY <2>2 DEF WorkerInv, SubmittedIsUnderway
  <2> QED
    BY <1>9, <2>1, <2>2 DEF Send, SendOrDiscard
<1>10. CASE Worker
  <2>0. /\ turn' = turn /\ posted \in Seq(ids \cup {0})
        /\ worker \in [pc : {"none", "waiting", "flush", "post", "discard"}, ticket : ids \cup {0}]
    BY <1>10 DEF Worker, uiVars, TypeInv
  <2>1. CASE WorkerReceive
    <3>1. worker.ticket = 0 /\ UNCHANGED <<pending, submitted, posted>>
      BY <2>1 DEF WorkerReceive, WorkerInv
    <3>2. CASE MatchesSubmitted(chan)
      BY <2>0, <2>1, <3>1, <3>2 DEF WorkerReceive, MatchesSubmitted, WorkerInv, SubmittedIsUnderway
    <3>3. CASE ~MatchesSubmitted(chan)
      BY <2>0, <2>1, <3>1, <3>3 DEF WorkerReceive, MatchesSubmitted, WorkerInv, SubmittedIsUnderway
    <3> QED
      BY <3>2, <3>3
  <2>2. CASE WorkerFlushed
    <3>1. UNCHANGED <<pending, submitted, chan, posted>>
      BY <2>2 DEF WorkerFlushed
    <3>2. CASE worker' = [worker EXCEPT !.pc = "post"] \/ worker' = [worker EXCEPT !.pc = "discard"]
      BY <2>0, <3>1, <3>2 DEF WorkerInv, SubmittedIsUnderway
    <3>3. CASE ~MatchesSubmitted(worker.ticket) /\ worker' = [pc |-> "waiting", ticket |-> 0]
      BY <2>0, <3>1, <3>3 DEF MatchesSubmitted, WorkerInv, SubmittedIsUnderway
    <3> QED
      BY <2>2, <3>2, <3>3 DEF WorkerFlushed
  <2>3. CASE WorkerPost
    <3>1. UNCHANGED <<pending, submitted, chan>>
      BY <2>3 DEF WorkerPost
    <3>2. CASE posted' = Append(posted, worker.ticket) /\ worker' = [pc |-> "waiting", ticket |-> 0]
      <4>1. ToSet(posted') = ToSet(posted) \cup {worker.ticket}
        BY <2>0, <3>2, PostedMore
      <4> QED
        BY <2>0, <3>1, <3>2, <4>1 DEF WorkerInv, SubmittedIsUnderway
    <3>3. CASE posted' = posted /\ worker' = [worker EXCEPT !.pc = "discard"]
      BY <2>0, <3>1, <3>3 DEF WorkerInv, SubmittedIsUnderway
    <3> QED
      BY <2>3, <3>2, <3>3 DEF WorkerPost
  <2>4. CASE WorkerDiscard
    <3>1. worker' = [pc |-> "waiting", ticket |-> 0] /\ UNCHANGED <<chan, posted>>
      BY <2>4 DEF WorkerDiscard
    <3>2. CASE pending = worker.ticket
      BY <2>4, <3>1, <3>2 DEF WorkerDiscard, CancelTickets, WorkerInv, SubmittedIsUnderway
    <3>3. CASE pending # worker.ticket
      BY <2>0, <2>4, <3>1, <3>3 DEF WorkerDiscard, CancelTickets, WorkerInv, SubmittedIsUnderway
    <3> QED
      BY <3>2, <3>3
  <2> QED
    BY <1>10, <2>1, <2>2, <2>3, <2>4 DEF Worker, PacerWorker
<1>11. CASE UNCHANGED vars
  BY <1>11 DEF vars, uiVars, pacerVars, WorkerInv, SubmittedIsUnderway
<1> QED
  BY <1>1, <1>2, <1>3, <1>4, <1>5, <1>6, <1>7, <1>8, <1>9, <1>10, <1>11 DEF Next, Ui, Frame

-----------------------------------------------------------------------------
(* The engine and the end of a window.                                      *)

LEMMA EngineKept ==
  ASSUME EngineInv, sched.state = "terminal" => sched'.state = "terminal",
         engine' = engine \/ Kept(engine, engine')
  PROVE  EngineInv'
BY DEF EngineInv, TornDownIsOwed, GivenUpIsTerminal, Kept, Owed

LEMMA EngineStep ==
  ASSUME NEW ids, NEW more, more = ids \cup {NewId}, TypeInv(ids), TurnInv, FrameInv, EngineInv,
         [Next]_vars
  PROVE  engine' \in Engines /\ EngineInv'
<1>0. engine \in Engines /\ (sched.state = "terminal" => sched'.state = "terminal")
  BY FrameStep DEF FrameStepInv, TypeInv
<1>1. CASE engine' = engine
  BY <1>0, <1>1, EngineKept
<1>2. CASE HandleEvent
  <2>1. engine' = engine \/ \E result \in ResizeEngine(engine) : engine' = result.engine
    BY <1>2 DEF HandleEvent
  <2>2. engine' = engine \/ Kept(engine, engine')
    BY <1>0, <2>1, ResizeOK
  <2> QED
    BY <1>0, <2>2, EngineKept DEF Kept
<1>3. CASE Probe
  <2>1. \E result \in TestPresent(engine) : engine' = result.engine
    BY <1>3 DEF Probe
  <2>2. Kept(engine, engine')
    BY <1>0, <2>1, TestOK
  <2> QED
    BY <1>0, <2>2, EngineKept DEF Kept
<1>4. CASE RenderCommits
  <2>1. PICK result \in RenderFrame(engine) : result.failure = "none" /\ engine' = result.engine
    BY <1>4 DEF RenderCommits
  <2>2. engine' \in Engines /\ (Owed(engine) => Owed(engine')) /\ ~engine'.terminal
    BY <1>0, <2>1, RenderOK
  <2> QED
    BY <2>2 DEF EngineInv, TornDownIsOwed, GivenUpIsTerminal, Owed
<1>5. CASE RenderFails
  <2>1. PICK result \in RenderFrame(engine) :
          engine' = result.engine /\ FrameEnd(FailureOf(result.engine, result.failure), "full")
    BY <1>5 DEF RenderFails
  <2>2. engine' \in Engines /\ (Owed(engine) => Owed(engine'))
    BY <1>0, <2>1, RenderOK
  <2>3. engine'.terminal => sched'.state = "terminal"
    BY <1>5, <2>1, FailedFrameStep DEF RenderFails
  <2> QED
    BY <2>2, <2>3 DEF EngineInv, TornDownIsOwed, GivenUpIsTerminal, Owed
<1>6. ASSUME engine' # engine
      PROVE  HandleEvent \/ Probe \/ RenderCommits \/ RenderFails
  <2>1. ASSUME NEW kind \in WindowEvents, WakeEvent(kind) PROVE engine' = engine
    BY <2>1 DEF WakeEvent, Wake
  <2> QED
    BY <1>6, <2>1
    DEF Next, Ui, Frame, LoopTop, WakeDue, Wake, Deadline, HandleOpportunity, FailStop, Unavailable,
        Available, TakeOpportunity, RequestNext, RenderEmpty, RenderIdle, Send, RenderUnrecorded,
        Worker, uiVars, vars
<1> QED
  BY <1>1, <1>2, <1>3, <1>4, <1>5, <1>6

-----------------------------------------------------------------------------
(* The types.                                                               *)

LEMMA BatchTyped ==
  ASSUME NEW ids, NEW more, ids \subseteq more, TypeInv(ids), [Next]_vars
  PROVE  batch' \in Seq(Messages(more))
<1>1. batch \in Seq(Messages(more))
  <2>1. Messages(ids) \subseteq Messages(more)
    BY DEF Messages
  <2> QED
    BY <2>1 DEF TypeInv
<1>2. ASSUME NEW kind \in WindowEvents PROVE Event(kind) \in Messages(more)
  BY DEF Event, Messages
<1>3. Opportunity(Completed) \in Messages(more)
  <2>1. Completed \in ids \cup {0}
    BY DEF Completed, TypeInv
  <2> HIDE DEF Completed
  <2> QED
    BY <2>1 DEF Opportunity, Messages
<1>4. ASSUME NEW events \in Seq(Messages(more)), Wake(events) PROVE batch' \in Seq(Messages(more))
  <2> DEFINE first == <<Opportunity(Completed)>>
  <2>1. first \in Seq(Messages(more))
    BY <1>3
  <2>2. batch' \in {events, first \o events, events \o first}
    BY <1>4 DEF Wake
  <2> HIDE DEF first
  <2>3. ASSUME NEW S, NEW s \in Seq(S), NEW t \in Seq(S) PROVE s \o t \in Seq(S)
    OBVIOUS
  <2>4. /\ first \o events \in Seq(Messages(more))
        /\ events \o first \in Seq(Messages(more))
    BY <1>4, <2>1, <2>3, Zenon
  <2> QED
    BY <1>4, <2>2, <2>4, Zenon
<1>5. CASE WakeDue
  <2>1. <<>> \in Seq(Messages(more))
    OBVIOUS
  <2> QED
    BY <1>4, <1>5, <2>1 DEF WakeDue
<1>6. ASSUME NEW kind \in WindowEvents, WakeEvent(kind) PROVE batch' \in Seq(Messages(more))
  <2>1. <<Event(kind)>> \in Seq(Messages(more))
    BY <1>2
  <2> QED
    BY <1>4, <1>6, <2>1 DEF WakeEvent
<1>7. CASE HandleOpportunity \/ HandleEvent
  BY <1>1, <1>7 DEF HandleOpportunity, HandleEvent
<1>8. CASE batch' = batch
  BY <1>1, <1>8
<1>9. batch' = batch \/ WakeDue \/ HandleOpportunity \/ HandleEvent
        \/ \E kind \in WindowEvents : WakeEvent(kind)
  BY DEF Next, Ui, Frame, LoopTop, Deadline, FailStop, Unavailable, Available, Probe,
         TakeOpportunity, RequestNext, RenderEmpty, RenderIdle, RenderCommits, Send, RenderFails,
         RenderUnrecorded, Worker, uiVars, vars
<1> QED
  BY <1>5, <1>6, <1>7, <1>8, <1>9

LEMMA TurnTyped ==
  ASSUME turn \in Turns, [Next]_vars
  PROVE  turn' \in Turns
<1>1. ASSUME NEW kind \in WindowEvents, WakeEvent(kind) PROVE turn' \in Turns
  BY <1>1 DEF WakeEvent, Wake, Turns
<1> QED
  BY <1>1
  DEF Next, Ui, Frame, LoopTop, WakeDue, Wake, Deadline, HandleOpportunity, HandleEvent, FailStop,
      Unavailable, Available, Probe, TakeOpportunity, RequestNext, RenderEmpty, RenderIdle,
      RenderCommits, Send, RenderFails, RenderUnrecorded, Worker, uiVars, vars, Turns

PacerTyped(ids) ==
  /\ pending \in ids \cup {0} /\ submitted \in BOOLEAN /\ chan \in ids \cup {0}
  /\ worker \in [pc : {"none", "waiting", "flush", "post", "discard"}, ticket : ids \cup {0}]
  /\ posted \in Seq(ids \cup {0})

LEMMA CancelTyped ==
  ASSUME NEW ids, PacerTyped(ids), NEW tickets, CancelTickets(tickets)
  PROVE  pending' \in ids \cup {0} /\ submitted' \in BOOLEAN
BY DEF PacerTyped, CancelTickets

LEMMA KeptTyped ==
  ASSUME NEW ids, PacerTyped(ids), UNCHANGED <<chan, worker, posted>>,
         pending' \in ids \cup {0}, submitted' \in BOOLEAN
  PROVE  PacerTyped(ids)'
BY DEF PacerTyped

LEMMA PacerTypedStep ==
  ASSUME NEW ids, NEW more, more = ids \cup {NewId}, TypeInv(ids), [Next]_vars
  PROVE  PacerTyped(more)'
<1>0. PacerTyped(more)
  <2>1. ids \cup {0} \subseteq more \cup {0}
    OBVIOUS
  <2>2. posted \in Seq(more \cup {0})
    BY <2>1 DEF TypeInv
  <2> QED
    BY <2>1, <2>2 DEF TypeInv, PacerTyped
<1>1. pending \in more \cup {0} /\ submitted \in BOOLEAN /\ NewId \in more
  BY <1>0 DEF PacerTyped
<1> HIDE DEF NewId
<1>2. ASSUME NEW events, Wake(events) PROVE PacerTyped(more)'
  <2>1. /\ UNCHANGED <<chan, worker>> /\ posted' = <<>>
        /\ pending' \in {pending, 0} /\ submitted' \in {submitted, FALSE}
    BY <1>2 DEF Wake
  <2>2. pending' \in more \cup {0} /\ submitted' \in BOOLEAN
    BY <1>1, <2>1
  <2>3. posted' \in Seq(more \cup {0})
    BY <2>1
  <2> QED
    BY <1>0, <2>1, <2>2, <2>3 DEF PacerTyped
<1>3. CASE UNCHANGED pacerVars
  BY <1>0, <1>3 DEF PacerTyped, pacerVars
<1>4. ASSUME NEW tickets, CancelTickets(tickets), UNCHANGED <<chan, worker, posted>>
      PROVE  PacerTyped(more)'
  BY <1>0, <1>4, CancelTyped, KeptTyped
<1>5. CASE HandleEvent \/ Unavailable \/ RenderEmpty \/ RenderFails \/ RenderUnrecorded
  <2>1. CancelNative \/ UNCHANGED <<pending, submitted>>
    BY <1>5 DEF HandleEvent, Unavailable, RenderEmpty, RenderFails, RenderUnrecorded
  <2>2. UNCHANGED <<chan, worker, posted>>
    BY <1>5 DEF HandleEvent, Unavailable, RenderEmpty, RenderFails, RenderUnrecorded
  <2> QED
    BY <1>0, <1>1, <1>4, <2>1, <2>2, KeptTyped DEF CancelNative
<1>6. CASE TakeOpportunity
  <2>1. (\E s : Overtake(s)) \/ UNCHANGED <<pending, submitted>>
    BY <1>6 DEF TakeOpportunity
  <2>2. UNCHANGED <<chan, worker, posted>>
    BY <1>6 DEF TakeOpportunity
  <2> QED
    BY <1>0, <1>1, <1>4, <2>1, <2>2, KeptTyped DEF Overtake
<1>7. CASE RequestNext
  <2>1. ArmTicket(NewId) \/ UNCHANGED <<pending, submitted>>
    BY <1>7 DEF RequestNext
  <2>2. UNCHANGED <<chan, worker, posted>>
    BY <1>7 DEF RequestNext
  <2> QED
    BY <1>0, <1>1, <2>1, <2>2, KeptTyped DEF ArmTicket
<1>8. CASE RenderCommits
  <2>1. CASE MarkSubmitted
    <3>1. worker' = [worker EXCEPT !.pc = "waiting"] \/ worker' = worker
      BY <2>1 DEF MarkSubmitted
    <3>2. submitted' = TRUE /\ UNCHANGED <<pending, chan, posted>>
      BY <2>1 DEF MarkSubmitted
    <3> QED
      BY <1>0, <3>1, <3>2 DEF PacerTyped
  <2> QED
    BY <1>3, <1>8, <2>1 DEF RenderCommits
<1>9. CASE Send
  BY <1>0, <1>9 DEF Send, SendOrDiscard, PacerTyped
<1>10. CASE Worker
  <2>1. CASE WorkerReceive
    BY <1>0, <2>1 DEF WorkerReceive, PacerTyped
  <2>2. CASE WorkerFlushed
    BY <1>0, <2>2 DEF WorkerFlushed, PacerTyped
  <2>3. CASE WorkerPost
    <3>1. worker.ticket \in more \cup {0} /\ UNCHANGED <<pending, submitted, chan>>
      BY <1>0, <2>3 DEF WorkerPost, PacerTyped
    <3>2. worker' \in [pc : {"none", "waiting", "flush", "post", "discard"}, ticket : more \cup {0}]
      BY <1>0, <2>3 DEF WorkerPost, PacerTyped
    <3>3. posted' \in Seq(more \cup {0})
      <4>1. posted \in Seq(more \cup {0}) /\ worker.ticket \in more \cup {0}
        BY <1>0 DEF PacerTyped
      <4>2. Append(posted, worker.ticket) \in Seq(more \cup {0})
        BY <4>1
      <4> QED
        BY <2>3, <4>1, <4>2 DEF WorkerPost
    <3> QED
      BY <1>0, <3>1, <3>2, <3>3 DEF PacerTyped
  <2>4. CASE WorkerDiscard
    <3>1. pending' \in more \cup {0} /\ submitted' \in BOOLEAN
      BY <1>0, <2>4, CancelTyped DEF WorkerDiscard
    <3> QED
      BY <1>0, <2>4, <3>1 DEF WorkerDiscard, PacerTyped
  <2> QED
    BY <1>10, <2>1, <2>2, <2>3, <2>4 DEF Worker, PacerWorker
<1>11. CASE UNCHANGED vars
  BY <1>3, <1>11 DEF vars
<1>12. CASE LoopTop \/ Deadline \/ HandleOpportunity \/ FailStop \/ Available \/ Probe \/ RenderIdle
  BY <1>3, <1>12
  DEF LoopTop, Deadline, HandleOpportunity, FailStop, Available, Probe, RenderIdle
<1>13. CASE WakeDue \/ \E kind \in WindowEvents : WakeEvent(kind)
  BY <1>2, <1>13 DEF WakeDue, WakeEvent
<1> QED
  BY <1>5, <1>6, <1>7, <1>8, <1>9, <1>10, <1>11, <1>12, <1>13 DEF Next, Ui, Frame

-----------------------------------------------------------------------------
LEMMA InitIInv == Init => IInv
<1> SUFFICES ASSUME Init PROVE IInv
  OBVIOUS
<1>1. /\ turn = "top" /\ batch = <<>> /\ sched = NewScheduler /\ engine = NewEngine
      /\ pending = 0 /\ submitted = FALSE /\ chan = 0 /\ posted = <<>>
      /\ worker = [pc |-> "none", ticket |-> 0]
  BY DEF Init, PacerInit
<1>2. SchedulerOK({0}, sched) /\ Idle(sched)
  BY <1>1, NewSchedulerOK
<1>3. sched.state = "renderable" /\ sched.req = NoRequest
  BY <1>1 DEF NewScheduler
<1>4. engine \in Engines /\ engine.up /\ ~engine.terminal
  BY <1>1 DEF NewEngine, Engines, MaxPresentProbeConflicts
<1>5. TypeInv({0})
  <2>1. batch \in Seq(Messages({0})) /\ posted \in Seq({0} \cup {0})
    BY <1>1
  <2>2. worker \in [pc : {"none", "waiting", "flush", "post", "discard"}, ticket : {0} \cup {0}]
    BY <1>1
  <2> QED
    BY <1>1, <1>2, <1>4, <2>1, <2>2 DEF TypeInv, Turns
<1>6. TurnInv
  BY <1>1 DEF TurnInv
<1>7. Fits(sched, pending, submitted, committed)
  BY <1>1, <1>2, FitsIdle DEF Gone
<1>8. BatchInv /\ WorkerInv
  BY <1>1 DEF BatchInv, WorkerInv, SubmittedIsUnderway
<1>9. EngineInv
  BY <1>4 DEF EngineInv, TornDownIsOwed, GivenUpIsTerminal
<1> QED
  BY <1>5, <1>6, <1>7, <1>8, <1>9 DEF IInv, FrameInv

LEMMA StepIInv == IInv /\ [Next]_vars => IInv'
<1> SUFFICES ASSUME IInv, [Next]_vars PROVE IInv'
  OBVIOUS
<1>1. TurnInv /\ FrameInv /\ WorkerInv /\ EngineInv
  BY DEF IInv
<1>2. PICK ids : TypeInv(ids)
  BY DEF IInv
<1>3. PICK more : more = ids \cup {NewId}
  OBVIOUS
<1>4. FrameStepInv(more)
  BY <1>1, <1>2, <1>3, FrameStep
<1>5. WorkerInv' /\ engine' \in Engines /\ EngineInv'
  BY <1>1, <1>2, <1>3, WorkerStep, EngineStep
<1>6. PacerTyped(more)' /\ batch' \in Seq(Messages(more)) /\ turn' \in Turns
  BY <1>2, <1>3, PacerTypedStep, BatchTyped, TurnTyped DEF TypeInv
<1>7. TypeInv(more)'
  BY <1>4, <1>5, <1>6 DEF TypeInv, PacerTyped, FrameStepInv
<1> QED
  BY <1>4, <1>5, <1>7 DEF IInv, FrameStepInv

(* The invariant holds in every behaviour.                                  *)
THEOREM Inductive == Spec => []IInv
BY InitIInv, StepIInv, PTL DEF Spec

(* A ticket the pacer holds is for the native request that is outstanding,  *)
(* whatever was cancelled, overtaken or lost: no message can stand for a    *)
(* request the window does not wait for.                                    *)
THEOREM TicketRequest == Spec => []TicketHasRequest
<1>1. IInv => TicketHasRequest
  BY DEF IInv, FrameInv, Fits, TicketHasRequest
<1> QED
  BY <1>1, Inductive, PTL

(* A submitted ticket is with the worker or on its way to it or back.       *)
THEOREM SubmittedUnderway == Spec => []SubmittedIsUnderway
<1>1. IInv => SubmittedIsUnderway
  BY DEF IInv, WorkerInv
<1> QED
  BY <1>1, Inductive, PTL

(* A callback opens an opportunity only after a frame that was presented on *)
(* the surface as it is.                                                    *)
THEOREM OpportunityPresented == Spec => []OpportunityFollowsPresent
<1>1. IInv => OpportunityFollowsPresent
  BY DEF IInv, FrameInv, Fits, OpportunityFollowsPresent
<1> QED
  BY <1>1, Inductive, PTL

(* An engine that was torn down is recovered before it draws, or given up.  *)
THEOREM TornDown == Spec => []TornDownIsOwed
<1>1. IInv => TornDownIsOwed
  BY DEF IInv, EngineInv
<1> QED
  BY <1>1, Inductive, PTL

(* A window whose recovery gave up asks for no frame.                       *)
THEOREM GivenUp == Spec => []GivenUpIsTerminal
<1>1. IInv => GivenUpIsTerminal
  BY DEF IInv, EngineInv
<1> QED
  BY <1>1, Inductive, PTL
=============================================================================
