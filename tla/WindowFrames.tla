------------------------------- MODULE WindowFrames -------------------------------
(***********************************************************************************)
(* How a window gets its frames (src/app/window/window_driver/): its thread waits    *)
(* for a deadline, a message of the frame pacer or an event, dispatches the events   *)
(* and drives one frame through the frame scheduler, the graphics recovery and the   *)
(* frame pacer.                                                                     *)
(*                                                                                 *)
(* The deferred first show, background windows and the platforms that know their     *)
(* occlusion are left out.  Work of the tree is "none", "some" that may turn out to  *)
(* need no rendering, or "full".                                                    *)
(***********************************************************************************)
EXTENDS FrameScheduler, GraphicsRecovery, FramePacer, SequencesExt

CONSTANTS WindowEvents  \* that may arrive: "resize", "empty", "minimize", "restore", "hide", "show",
                        \* "input"

ASSUME WindowAssumption ==
  WindowEvents \subseteq {"resize", "empty", "minimize", "restore", "hide", "show", "input"}

VARIABLES
  turn,       \* where the window's thread is
  batch,      \* the events it has still to dispatch
  sched,      \* WindowDriver.frame_scheduler
  engine,     \* the RecoveryDriver
  work,       \* what of the tree, or of a first frame, is to be drawn
  animating,  \* whether an animation is registered
  visible,    \* PlatformWindow::is_visible
  extent,     \* whether the client area is not empty
  committed   \* whether the last frame was presented, on the surface as it is

uiVars == <<turn, batch, sched, engine, work, animating, visible, extent, committed>>
vars == <<uiVars, pacerVars>>

Turns == {"top", "wait", "events", "frame", "probe", "visual", "render", "send"}
Opportunity(id) == [kind |-> "opportunity", id |-> id]
Event(kind) == [kind |-> kind, id |-> 0]
Events == {Opportunity(id) : id \in Ids} \cup {Event(kind) : kind \in WindowEvents}

TypeOK ==
  /\ PacerTypeOK
  /\ turn \in Turns
  /\ batch \in Seq(Events)
  /\ sched \in Schedulers(Ids)
  /\ engine \in Engines
  /\ work \in {"none", "some", "full"}
  /\ animating \in BOOLEAN /\ visible \in BOOLEAN /\ extent \in BOOLEAN /\ committed \in BOOLEAN

Init ==
  /\ PacerInit
  /\ turn = "top" /\ batch = <<>>
  /\ sched = NewScheduler
  /\ engine = NewEngine
  /\ work = "full" /\ animating = FALSE
  /\ visible = TRUE /\ extent = TRUE
  /\ committed = FALSE

\* A new id is one that nothing names any more.
Named == {sched.req.id, pending, chan, worker.ticket} \cup ToSet(posted) \cup {batch[i].id : i \in 1..Len(batch)}
NewId == CHOOSE id \in Ids : id \notin Named

-----------------------------------------------------------------------------------
(* arm_visual_request and cancel_outstanding_native_frame *)

ArmVisual(s, has, continue, tighten) ==
  IF has = "none" THEN s
  ELSE IF continue THEN RequestFrame(s, NewId, FALSE)
  ELSE IF tighten \/ s.req = NoRequest THEN RequestFrame(s, NewId, TRUE)
  ELSE s

NativeToken(s) == IF s.req.armed THEN s.req.id ELSE 0
CancelNative == CancelTickets({NativeToken(sched)} \ {0})

-----------------------------------------------------------------------------------
(* Waiting and dispatching *)

\* The top of the loop: has_frame_work and next_deadline.
LoopTop ==
  /\ turn = "top" /\ turn' = "wait"
  /\ sched' = ArmVisual(sched, work, FALSE, FALSE)
  /\ UNCHANGED <<batch, engine, work, animating, visible, extent, committed, pacerVars>>

\* The thread is woken by what is due, by a message or by an event of its window, whose message
\* comes before or after the pacer's.
Wake(events) ==
  /\ turn = "wait"
  /\ turn' = "events"
  /\ posted' = <<>>
  /\ batch' \in IF Completed = 0 THEN {events}
                ELSE {<<Opportunity(Completed)>> \o events, events \o <<Opportunity(Completed)>>}
  /\ IF Completed = 0 THEN UNCHANGED <<pending, submitted>> ELSE pending' = 0 /\ submitted' = FALSE
  /\ UNCHANGED <<sched, engine, work, animating, committed, chan, worker>>

WakeDue ==
  /\ HasDueOpportunity(sched) \/ sched.probe = "due" \/ posted # <<>>
  /\ Wake(<<>>)
  /\ UNCHANGED <<visible, extent>>

WakeEvent(kind) ==
  /\ Wake(<<Event(kind)>>)
  /\ visible' = (kind # "hide" /\ (visible \/ kind = "show"))
  /\ extent' = (kind # "empty" /\ (extent \/ kind = "resize"))

Deadline ==
  /\ turn = "wait"
  /\ sched' = PassDeadline(sched)
  /\ UNCHANGED <<turn, batch, engine, work, animating, visible, extent, committed, pacerVars>>

\* What the code of an application does when it handles an event: it changes the tree, or shows or
\* hides the window.
Handled ==
  \/ work' \in {work, "some", "full"} /\ visible' = visible
  \/ work' = work /\ visible' = ~visible

HandleOpportunity ==
  /\ turn = "events" /\ batch # <<>> /\ Head(batch).kind = "opportunity"
  /\ batch' = Tail(batch)
  /\ sched' = NotifyOpportunity(sched, Head(batch).id)
  /\ UNCHANGED <<turn, engine, work, animating, visible, extent, committed, pacerVars>>

HandleEvent ==
  /\ turn = "events" /\ batch # <<>> /\ Head(batch).kind # "opportunity"
  /\ batch' = Tail(batch)
  /\ LET kind == Head(batch).kind
     IN /\ \/ /\ kind = "resize"
              /\ CancelNative
              /\ \E result \in ResizeEngine(engine) : engine' = result.engine
              /\ sched' = SurfaceChanged(sched)
              /\ work' = "full" /\ visible' = visible
           \/ /\ kind = "empty"
              /\ CancelNative
              /\ sched' = SuspendSurface(sched, "zero")
              /\ work' = "full" /\ UNCHANGED <<engine, visible>>
           \/ /\ kind = "restore"
              /\ CancelNative
              /\ sched' = ResumeSurface(sched)
              /\ work' = "full" /\ UNCHANGED <<engine, visible>>
           \/ /\ kind = "minimize"
              /\ CancelNative
              /\ sched' = SuspendSurface(sched, "minimized")
              /\ UNCHANGED <<engine, work, visible>>
           \/ /\ kind = "hide"
              /\ CancelNative
              /\ sched' = SuspendSurface(sched, "hidden")
              /\ work' = "full" /\ UNCHANGED <<engine, visible>>
           \/ /\ kind = "show"
              /\ sched' = IF sched.state = "hidden" THEN ResumeSurface(sched) ELSE sched
              /\ work' = IF sched.state = "hidden" THEN "full" ELSE work
              /\ UNCHANGED <<engine, visible, pending, submitted>>
           \/ /\ kind = "input"
              /\ Handled
              /\ UNCHANGED <<engine, sched, pending, submitted>>
        /\ committed' = (committed /\ sched'.state = "renderable" /\ kind # "resize")
  /\ UNCHANGED <<turn, animating, extent, chan, worker, posted>>

-----------------------------------------------------------------------------------
(* drive_frame *)

\* The tree failed for good: finish_fail_stopped_frame.
FailStop ==
  /\ turn = "events" /\ batch = <<>>
  /\ turn' = "top"
  /\ sched' = MarkTerminal(sched)
  /\ UNCHANGED <<batch, engine, work, animating, visible, extent, committed, pacerVars>>

\* suspend_if_surface_unavailable
Unavailable ==
  /\ turn = "events" /\ batch = <<>> /\ ~visible
  /\ turn' = "top"
  /\ IF sched.state \in {"hidden", "terminal"}
     THEN UNCHANGED <<sched, work, committed, pending, submitted>>
     ELSE /\ CancelNative
          /\ sched' = SuspendSurface(sched, "hidden")
          /\ work' = "full" /\ committed' = FALSE
  /\ UNCHANGED <<batch, engine, animating, visible, extent, chan, worker, posted>>

Available ==
  /\ turn = "events" /\ batch = <<>> /\ visible
  /\ turn' = IF sched.probe = "due" THEN "probe" ELSE "frame"
  /\ sched' = IF sched.state = "hidden" THEN ResumeSurface(sched)
              ELSE IF sched.probe = "due" THEN TakeDueProbe(sched) ELSE sched
  /\ work' = IF sched.state = "hidden" THEN "full" ELSE work
  /\ UNCHANGED <<batch, engine, animating, visible, extent, committed, pacerVars>>

\* The probe of an occluded surface.
Probe ==
  /\ turn = "probe"
  /\ \E result \in TestPresent(engine) :
       /\ engine' = result.engine
       /\ sched' = CASE result.failure = "none"     -> ResumeSurface(sched)
                     [] result.failure = "occluded" -> OcclusionStillPresent(sched)
                     [] OTHER                       -> FrameFailed(sched, result.failure)
       /\ turn' = IF result.failure = "none" THEN "frame" ELSE "top"
       /\ work' = IF result.failure = "none" THEN "full" ELSE work
  /\ UNCHANGED <<batch, animating, visible, extent, committed, pacerVars>>

\* A fallback cancels the native request it overtakes, or leaves it to the pacer.
OvertakeSilently(s) == UNCHANGED <<pending, submitted>>
Overtake(s) == CancelTickets({FallbackToken(s)} \ {0})

\* The work of this turn is requested at once, and an opportunity is taken if one is due.
TakeOpportunity ==
  /\ turn = "frame"
  /\ \E tick \in {FALSE, animating} :
       LET ticked == IF tick THEN RequestFrame(sched, NewId, TRUE) ELSE sched
           armed  == ArmVisual(ticked, work, FALSE, TRUE)
       IN IF HasDueOpportunity(armed)
          THEN /\ turn' = "visual" /\ sched' = TakeDueOpportunity(armed)
               /\ Overtake(armed)
          ELSE turn' = "top" /\ sched' = armed /\ UNCHANGED <<pending, submitted>>
  /\ UNCHANGED <<batch, engine, work, animating, visible, extent, committed, chan, worker, posted>>

\* Animations advance; while one is registered the next frame is requested, of the pacer too unless
\* the platform has none or refuses.
RequestNext ==
  /\ turn = "visual"
  /\ turn' = "render"
  /\ animating' \in BOOLEAN
  /\ work' \in IF work = "full" \/ ~animating' THEN {work} ELSE {work, "some"}
  /\ IF animating' /\ sched.state = "renderable" /\ sched.req = NoRequest
     THEN \/ /\ sched' = MarkNativeArmed(RequestFrame(sched, NewId, FALSE), NewId)
             /\ ArmTicket(NewId)
          \/ /\ sched' = RequestFrame(sched, NewId, FALSE)
             /\ UNCHANGED <<pending, submitted>>
     ELSE UNCHANGED <<sched, pending, submitted>>
  /\ UNCHANGED <<batch, engine, visible, extent, committed, chan, worker, posted>>

\* The end of a frame: a request for what is left or came meanwhile.
FrameEnd(s, left) ==
  /\ work' = left
  /\ sched' = ArmVisual(s, left, animating, FALSE)

\* The client area turned out to be empty.
RenderEmpty ==
  /\ turn = "render" /\ ~extent
  /\ turn' = "top"
  /\ CancelNative
  /\ sched' = SuspendSurface(sched, "zero")
  /\ work' = "full" /\ committed' = FALSE
  /\ UNCHANGED <<batch, engine, animating, visible, extent, chan, worker, posted>>

\* Nothing needs rendering.
RenderIdle ==
  /\ turn = "render" /\ extent /\ work # "full"
  /\ turn' = "top"
  /\ FrameEnd(sched, "none")
  /\ committed' = FALSE
  /\ UNCHANGED <<batch, engine, animating, visible, extent, pacerVars>>

\* The frame is presented; a native request made in it is submitted.
RenderCommits ==
  /\ turn = "render" /\ extent /\ work # "none"
  /\ \E result \in RenderFrame(engine) : result.failure = "none" /\ engine' = result.engine
  /\ \E left \in {"none", "full"} : FrameEnd(Presented(sched), left)
  /\ committed' = TRUE
  /\ \/ MaySubmit(NativeToken(sched)) /\ turn' = "send" /\ MarkSubmitted
     \/ MaySubmit(NativeToken(sched)) /\ worker.pc = "none" /\ turn' = "top" /\ UNCHANGED pacerVars
     \/ ~MaySubmit(NativeToken(sched)) /\ turn' = "top" /\ UNCHANGED pacerVars
  /\ UNCHANGED <<batch, animating, visible, extent>>

Send ==
  /\ turn = "send" /\ turn' = "top"
  /\ SendOrDiscard
  /\ UNCHANGED <<batch, sched, engine, work, animating, visible, extent, committed>>

\* A terminal engine that the scheduler takes for one more failure.
FailedFrame(e, failure) == FrameFailed(sched, failure)
FailureOf(e, failure) == IF e.terminal THEN MarkTerminal(sched) ELSE FrameFailed(sched, failure)

\* The frame fails: its native request is cancelled, its work stays.
RenderFails ==
  /\ turn = "render" /\ extent /\ work # "none"
  /\ turn' = "top"
  /\ \E result \in RenderFrame(engine) :
       /\ result.failure # "none"
       /\ engine' = result.engine
       /\ FrameEnd(FailureOf(result.engine, result.failure), "full")
  /\ CancelNative
  /\ committed' = FALSE
  /\ UNCHANGED <<batch, animating, visible, extent, chan, worker, posted>>

\* A failure of the frame that the recovery is not told about.
RenderUnrecorded ==
  /\ turn = "render" /\ extent /\ work # "none"
  /\ turn' = "top"
  /\ FrameEnd(FailureOf(engine, "lost"), "full")
  /\ CancelNative
  /\ committed' = FALSE
  /\ UNCHANGED <<batch, engine, animating, visible, extent, chan, worker, posted>>

Worker == PacerWorker /\ UNCHANGED uiVars

Frame ==
  \/ FailStop \/ Unavailable \/ Available \/ Probe \/ TakeOpportunity \/ RequestNext
  \/ RenderEmpty \/ RenderIdle \/ RenderCommits \/ Send \/ RenderFails \/ RenderUnrecorded

Ui == LoopTop \/ WakeDue \/ HandleOpportunity \/ HandleEvent \/ Frame

Next ==
  \/ Ui
  \/ \E kind \in WindowEvents : WakeEvent(kind)
  \/ Deadline
  \/ Worker

\* The window's thread goes on and time passes; nothing is assumed of the worker, of events or of
\* the graphics.
Spec == Init /\ [][Next]_vars /\ WF_vars(Ui) /\ SF_vars(Deadline)

-----------------------------------------------------------------------------------
(* Properties *)

\* A ticket of the pacer is for the native request that is outstanding, however frames, events and
\* fallbacks followed each other, so that a message can only stand for a request the window still
\* waits for; only a window that failed for good leaves one behind.
TicketHasRequest ==
  pending # 0 /\ sched.state # "terminal" => sched.req.armed /\ sched.req.id = pending

\* A submitted ticket is on its way: in the channel, with the worker or in the window's queue.  One
\* that is nowhere would keep its request from ever being called back.
SubmittedIsUnderway ==
  pending # 0 /\ submitted =>
    turn = "send" \/ pending \in {chan, worker.ticket} \cup ToSet(posted)

\* An opportunity from a callback follows a frame that reached the screen of the surface as it is:
\* a callback of before a failure, a resize or a suspend opens none.
OpportunityFollowsPresent == sched.ready => committed

\* An engine a recovery tore down is still to be recovered, or the window's graphics have failed for
\* good: no frame is drawn with what is left of it.
TornDownIsOwed == engine.up \/ engine.pending # "none" \/ engine.terminal

\* When recovery has given up, the window stops asking for frames.
GivenUpIsTerminal == engine.terminal => sched.state = "terminal"

\* A window with something to draw keeps drawing it, retrying it or probing for it, unless it is
\* hidden, minimized, empty or failed for good: no callback that is lost, cancelled or late leaves
\* it asleep.
FramesKeepComing ==
  []<>(\/ work = "none" /\ ~animating
       \/ sched.state \in {"hidden", "minimized", "zero", "terminal"}
       \/ turn \in {"render", "probe"})
===================================================================================
