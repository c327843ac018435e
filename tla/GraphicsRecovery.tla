----------------------------- MODULE GraphicsRecovery -----------------------------
(***********************************************************************************)
(* The recovery of a window's graphics: the wrapper around its engine               *)
(* (src/draw/renderer/recovery_driver.rs) with the recovery sequence (recovery.rs)   *)
(* and the closure that rebuilds an engine (app/application/lifecycle/runtime/       *)
(* create.rs), as operators over their state.                                       *)
(*                                                                                 *)
(* A failure is "lost" (a lost surface or device, and every other error), "oom",     *)
(* "changed" (the surface was rebuilt already) or "occluded".  What tearing down and *)
(* rebuilding reports is "lost" or "oom".                                           *)
(***********************************************************************************)
EXTENDS Integers, Sequences

MaxPresentProbeConflicts == 3

\* GraphicsRecovery::on_failure by step; what is beyond aborts.
Actions == <<"surface", "recipe", "next", "software">>

Engines ==
  [up        : BOOLEAN,                   \* not torn down by a recovery
   software  : BOOLEAN,                   \* presents through the window's own presenter
   step      : 0..5,                      \* of the recovery sequence
   pending   : {"none", "lost", "oom"},   \* the failure to recover from
   terminal  : BOOLEAN,
   reopened  : BOOLEAN,                   \* the last probe found the surface presentable
   conflicts : 0..MaxPresentProbeConflicts]

NewEngine ==
  [up |-> TRUE, software |-> FALSE, step |-> 0, pending |-> "none", terminal |-> FALSE,
   reopened |-> FALSE, conflicts |-> 0]

ResetConflicts(e) == [e EXCEPT !.reopened = FALSE, !.conflicts = 0]

\* Only the first failure since the last recovery is kept.
KeepFirst(e, failure) ==
  IF e.terminal \/ e.pending # "none" THEN e ELSE [e EXCEPT !.pending = failure]

RecordFailure(e, failure) ==
  CASE failure = "changed" -> ResetConflicts(e)
    [] failure = "occluded" /\ ~e.reopened -> e
    [] failure = "occluded" /\ e.reopened /\ e.conflicts + 1 < MaxPresentProbeConflicts ->
         [e EXCEPT !.reopened = FALSE, !.conflicts = @ + 1]
    [] failure = "occluded" /\ e.reopened /\ e.conflicts + 1 >= MaxPresentProbeConflicts ->
         KeepFirst([ResetConflicts(e) EXCEPT !.step = 3], "lost")
    [] OTHER -> KeepFirst(ResetConflicts(e), failure)

\* What an engine can report of a frame, and of tearing down or rebuilding an engine.
Errors == {"lost", "oom"}
FrameFailures(e) == IF e.software THEN Errors ELSE Errors \cup {"changed", "occluded"}

\* Results of an operation that may fail: the engine afterwards and the failure, if any.
Ok(e) == [engine |-> e, failure |-> "none"]
Failed(e, failure) == [engine |-> e, failure |-> failure]
Recorded(e, failure) == Failed(RecordFailure(e, failure), failure)

\* What can come of tearing the engine down or rebuilding it when that fails.  A failure that is
\* reported and not kept.
NotRebuiltReported(e) == {Failed([e EXCEPT !.up = FALSE], failure) : failure \in Errors}
NotRebuilt(e) == {Recorded([e EXCEPT !.up = FALSE], failure) : failure \in Errors}

Rebuilt(e, action) == Ok([ResetConflicts(e) EXCEPT !.up = TRUE, !.software = action = "software"])

RecoverBeforeFrame(e) ==
  LET oom   == e.pending = "oom"
      taken == [e EXCEPT !.pending = "none", !.step = IF oom \/ @ = 5 THEN @ ELSE @ + 1]
  IN IF e.terminal THEN {Failed(e, "lost")}
     ELSE IF e.pending = "none" THEN {Ok(e)}
     ELSE IF oom \/ e.step >= Len(Actions) THEN {Failed([taken EXCEPT !.terminal = TRUE], e.pending)}
     ELSE {Rebuilt(taken, Actions[e.step + 1])} \cup NotRebuilt(taken)

\* begin_frame up to the wrapped engine's own.  Any thread may have asked for a rebuild since the
\* last one, which is only looked at here.
BeginFrame(e) == RecoverBeforeFrame(e) \cup RecoverBeforeFrame(RecordFailure(e, "lost"))

OnPresented(e) == [ResetConflicts(e) EXCEPT !.step = 0]

\* The frame from begin_frame to the presentation, by the engine or by the presenter.
RenderFrame(e) ==
  UNION {IF begun.failure # "none" THEN {begun}
         ELSE {Ok(OnPresented(begun.engine))}
                \cup {Recorded(begun.engine, failure) : failure \in FrameFailures(begun.engine)} :
         begun \in BeginFrame(e)}

\* A probe without data; software has none and reports that as an error.
TestPresent(e) ==
  {Recorded(ResetConflicts(e), failure) : failure \in Errors}
    \cup IF e.software THEN {}
         ELSE {Ok([e EXCEPT !.reopened = TRUE]), Failed(ResetConflicts(e), "occluded")}

\* A terminal engine refuses to be resized.
ResizeEngine(e) ==
  IF e.terminal THEN {Failed(e, "lost")}
  ELSE {Ok(e)} \cup {Recorded(e, failure) : failure \in Errors}
===================================================================================
