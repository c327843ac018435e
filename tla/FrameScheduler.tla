------------------------------ MODULE FrameScheduler ------------------------------
(***********************************************************************************)
(* The frame scheduler of a window (src/app/window/frame_scheduler.rs) as operators  *)
(* over its state.                                                                  *)
(*                                                                                 *)
(* A request is at most one, named by an id nobody else holds.  The generation of a  *)
(* token is left out: whatever advances it drops the request, so that the id says    *)
(* it already.  An instant is whether it is past: `due'.  What paces a window        *)
(* without callbacks (the cadence sample, the animation clock) is left out.          *)
(***********************************************************************************)
EXTENDS Integers

CONSTANTS MaxRecoveryAttempts  \* failures in a row that end a window (8 in the code)

ASSUME SchedulerAssumption == MaxRecoveryAttempts \in Nat \ {0}

NoRequest == [id |-> 0, armed |-> FALSE, due |-> FALSE]

\* Renderable, Recovering and Suspended with its five reasons.
SurfaceStates == {"renderable", "recovering", "hidden", "minimized", "zero", "occluded", "terminal"}

Schedulers(ids) ==
  [state   : SurfaceStates,
   req     : [id : ids \cup {0}, armed : BOOLEAN, due : BOOLEAN],
   ready   : BOOLEAN,                          \* a callback's opportunity is waiting
   retry   : BOOLEAN,                          \* the instant of the retry is past
   attempt : 0..MaxRecoveryAttempts,
   probe   : {"none", "waiting", "due"}]       \* of an occluded surface

NewScheduler ==
  [state |-> "renderable", req |-> NoRequest, ready |-> FALSE, retry |-> FALSE,
   attempt |-> 0, probe |-> "none"]

-----------------------------------------------------------------------------------
(* What changes the surface *)

\* A new generation in a given state, with nothing of the old one.
Renewed(state) == [NewScheduler EXCEPT !.state = state]

SuspendSurface(s, reason) ==
  IF s.state = "terminal" \/ (s.state = reason /\ s.req = NoRequest) THEN s
  ELSE Renewed(reason)

ResumeSurface(s) ==
  IF s.state \in {"renderable", "terminal"} THEN s ELSE Renewed("renderable")

SurfaceChanged(s) == IF s.state = "terminal" THEN s ELSE Renewed("renderable")

MarkTerminal(s) ==
  IF s.state = "terminal" THEN s
  ELSE [Renewed("terminal") EXCEPT !.attempt = MaxRecoveryAttempts]

-----------------------------------------------------------------------------------
(* Requests and opportunities *)

\* request_frame with the id of a new request; `now' is the deadline of request_immediate, the
\* other one is a period away.
RequestFrame(s, id, now) ==
  IF s.state # "renderable" \/ s.ready THEN s
  ELSE IF s.req # NoRequest THEN [s EXCEPT !.req.due = @ \/ now]
  ELSE [s EXCEPT !.req = [id |-> id, armed |-> FALSE, due |-> now]]

\* The fallback deadline of a native request moves a period away.
MarkNativeArmed(s, id) ==
  IF s.req.id = id THEN [s EXCEPT !.req.armed = TRUE, !.req.due = FALSE] ELSE s

HasDueOpportunity(s) ==
  \/ s.ready
  \/ s.state = "renderable" /\ s.req.due
  \/ s.state = "recovering" /\ s.retry

TakeDueOpportunity(s) ==
  IF s.ready THEN [s EXCEPT !.ready = FALSE]
  ELSE IF s.state = "renderable" THEN [s EXCEPT !.req = NoRequest]
  ELSE [s EXCEPT !.state = "renderable", !.retry = FALSE]

\* The native request a fallback overtakes, 0 if there is none.
FallbackToken(s) == IF ~s.ready /\ s.state = "renderable" /\ s.req.armed THEN s.req.id ELSE 0

NotifyOpportunity(s, id) ==
  IF s.state = "renderable" /\ ~s.ready /\ s.req.armed /\ s.req.id = id
  THEN [s EXCEPT !.req = NoRequest, !.ready = TRUE]
  ELSE s

\* The deadline that next_deadline reports passes.  Trusting the callback of an armed request
\* would leave it without one.
PassUnarmedDeadline(s) ==
  CASE s.state = "renderable" -> [s EXCEPT !.req.due = s.req # NoRequest /\ ~s.req.armed]
    [] s.state = "recovering" -> [s EXCEPT !.retry = TRUE]
    [] s.state = "occluded"   -> [s EXCEPT !.probe = IF @ = "none" THEN @ ELSE "due"]
    [] OTHER                  -> s

PassDeadline(s) ==
  CASE s.state = "renderable" -> [s EXCEPT !.req.due = s.req # NoRequest]
    [] s.state = "recovering" -> [s EXCEPT !.retry = TRUE]
    [] s.state = "occluded"   -> [s EXCEPT !.probe = IF @ = "none" THEN @ ELSE "due"]
    [] OTHER                  -> s

-----------------------------------------------------------------------------------
(* The end of a frame, and probes of an occluded surface *)

Presented(s) ==
  IF s.state = "terminal" THEN s
  ELSE [s EXCEPT !.state = "renderable", !.retry = FALSE, !.attempt = 0, !.probe = "none"]

FrameFailed(s, failure) ==
  IF s.state = "terminal" \/ failure = "oom" THEN MarkTerminal(s)
  ELSE CASE failure = "changed"  -> [Renewed("recovering") EXCEPT !.retry = TRUE]
         [] failure = "occluded" -> [Renewed("occluded") EXCEPT !.probe = "waiting"]
         [] OTHER ->
              LET attempt == s.attempt + 1
              IN [Renewed(IF attempt >= MaxRecoveryAttempts THEN "terminal" ELSE "recovering")
                    EXCEPT !.attempt = attempt]

TakeDueProbe(s) == [s EXCEPT !.probe = "none"]

OcclusionStillPresent(s) == IF s.state = "occluded" THEN [s EXCEPT !.probe = "waiting"] ELSE s
===================================================================================
