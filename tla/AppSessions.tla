----------------------------- MODULE AppSessions -----------------------------
(***************************************************************************)
(* AppRuntime: the table of window sessions shared by the UI thread, which *)
(* creates, runs and closes windows, and the application threads, which    *)
(* open windows, post jobs and set the theme through their AppHandle.      *)
(* The UI thread serves requests, themes and secondary windows inside the  *)
(* frames of the main window: no longer, once a panic stopped its tree.    *)
(*                                                                         *)
(* An operator right above another one and named after it is a wrong       *)
(* variant of it, kept to show which property would notice.                *)
(***************************************************************************)
EXTENDS Naturals, Sequences, FiniteSets, Selection

CONSTANTS
  Windows, Main,      (* the windows of a behaviour; Main is the first       *)
  Jobs, Target,       (* the closures posted, and the window of each         *)
  ContextJobs,        (* those posted by enqueue_with_context                *)
  Setters,            (* the calls of set_theme                              *)
  None

ASSUME WindowAssumption == IsFiniteSet(Windows) /\ Main \in Windows /\ None \notin Windows
ASSUME JobAssumption == ContextJobs \subseteq Jobs /\ Target \in [Jobs -> Windows]

VARIABLES
  sessions,           (* AppRuntime.sessions                                 *)
  alive,              (* the flag a session shares with its handles          *)
  pending,            (* pending_open_windows                                *)
  theme,              (* pending_theme holds one                             *)
  shutting,           (* shutting_down                                       *)
  wakeup,             (* a wake posted to the event loop                     *)
  job,                (* where each posted closure is: in the end refused,   *)
                      (* run or cleared, which is one here                   *)
  owing,              (* posts and themes whose caller has yet to wake       *)
  opener,             (* open_window, one call for each window but Main      *)
  setter,             (* set_theme                                           *)
  ui,                 (* where the UI thread stands                          *)
  subject, next,      (* the window it creates or closes, and what follows   *)
  live,               (* the windows it runs                                 *)
  stopped,            (* the tree of the main window is fail-stopped         *)
  taken               (* the sessions shutdown_all took and has to release   *)

callers == <<job, owing, opener, setter>>
table   == <<sessions, alive, pending, theme, shutting>>
window  == <<subject, next, live, stopped, taken>>
vars    == <<table, wakeup, callers, ui, window>>

Init ==
  /\ sessions = {Main} /\ alive = [w \in Windows |-> w = Main]
  /\ pending = <<>> /\ theme = FALSE /\ shutting = FALSE /\ wakeup = FALSE
  /\ job = [j \in Jobs |-> "new"] /\ owing = {}
  /\ opener = [w \in Windows \ {Main} |-> "idle"]
  /\ setter = [s \in Setters |-> "idle"]
  /\ ui = "events" /\ subject = None /\ next = "open"
  /\ live = {Main} /\ stopped = FALSE /\ taken = {}

Requested == {pending[i] : i \in DOMAIN pending}

Other(w) == Only(pending, Windows \ {w})

(* release_window_scheduling_resources: the flag falls, the queue of w is   *)
(* cleared.                                                                 *)
DeadNot(w) == alive
Dead(w) == [alive EXCEPT ![w] = FALSE]

ClearedNot(w) == job
Cleared(w) ==
  [j \in Jobs |-> IF Target[j] = w /\ job[j] = "queued" THEN "over" ELSE job[j]]

-----------------------------------------------------------------------------
(* open_window: check the own handle, register the session, queue the       *)
(* request, then wake the loop or give the session up.                      *)
OpenCheck(w) ==
  /\ opener[w] = "idle"
  /\ opener' = [opener EXCEPT ![w] = IF alive[Main] THEN "checked" ELSE "refused"]
  /\ UNCHANGED <<table, wakeup, job, owing, setter, ui, window>>

(* Registering looks at shutting_down under the lock of the table.          *)
AdmitsAlways == TRUE
Admits == ~shutting

OpenRegister(w) ==
  /\ opener[w] = "checked"
  /\ sessions' = IF Admits THEN sessions \cup {w} ELSE sessions
  /\ alive' = [alive EXCEPT ![w] = Admits]
  /\ opener' = [opener EXCEPT ![w] = "registered"]
  /\ UNCHANGED <<pending, theme, shutting, wakeup, job, owing, setter, ui, window>>

Queues(w) == alive[w] /\ ~shutting

OpenQueue(w) ==
  /\ opener[w] = "registered"
  /\ pending' = IF Queues(w) THEN Append(pending, w) ELSE pending
  /\ opener' = [opener EXCEPT ![w] = "queued"]
  /\ UNCHANGED <<sessions, alive, theme, shutting, wakeup, job, owing, setter, ui, window>>

PostedForgotten == wakeup
Posted == TRUE

OpenWake(w) ==
  /\ opener[w] = "queued" /\ alive[w]
  /\ wakeup' = Posted
  /\ opener' = [opener EXCEPT ![w] = "done"]
  /\ UNCHANGED <<table, job, owing, setter, ui, window>>

(* ... which is a close_session of its own, on this thread.                 *)
OpenGivesUp(w) ==
  /\ opener[w] = "queued" /\ ~alive[w]
  /\ sessions' = sessions \ {w}
  /\ opener' = [opener EXCEPT ![w] = IF w \in sessions THEN "release" ELSE "retain"]
  /\ UNCHANGED <<alive, pending, theme, shutting, wakeup, job, owing, setter, ui, window>>

OpenRelease(w) ==
  /\ opener[w] = "release"
  /\ alive' = Dead(w) /\ job' = Cleared(w)
  /\ opener' = [opener EXCEPT ![w] = "retain"]
  /\ UNCHANGED <<sessions, pending, theme, shutting, wakeup, owing, setter, ui, window>>

OpenRetain(w) ==
  /\ opener[w] = "retain"
  /\ pending' = Other(w)
  /\ opener' = [opener EXCEPT ![w] = "done"]
  /\ UNCHANGED <<sessions, alive, theme, shutting, wakeup, job, owing, setter, ui, window>>

(* post_to_ui looks the session up and enqueues after letting the table go. *)
Session(w) == w \in sessions /\ alive[w]
PostFind(j) ==
  /\ job[j] = "new" /\ j \notin ContextJobs
  /\ job' = [job EXCEPT ![j] = IF Session(Target[j]) THEN "found" ELSE "over"]
  /\ UNCHANGED <<table, wakeup, owing, opener, setter, ui, window>>

PostEnqueue(j) ==
  /\ job[j] = "found"
  /\ job' = [job EXCEPT ![j] = "queued"] /\ owing' = owing \cup {j}
  /\ UNCHANGED <<table, wakeup, opener, setter, ui, window>>

(* enqueue_with_context does both under the lock of the table.              *)
Accepts(w) == Session(w)
ContextEnqueue(j) ==
  /\ job[j] = "new" /\ j \in ContextJobs
  /\ IF Accepts(Target[j])
     THEN job' = [job EXCEPT ![j] = "queued"] /\ owing' = owing \cup {j}
     ELSE job' = [job EXCEPT ![j] = "over"] /\ UNCHANGED owing
  /\ UNCHANGED <<table, wakeup, opener, setter, ui, window>>

(* set_theme wakes the loop only if it left no theme there.                 *)
ThemeCheck(s) ==
  /\ setter[s] = "idle"
  /\ setter' = [setter EXCEPT ![s] = IF alive[Main] THEN "checked" ELSE "done"]
  /\ UNCHANGED <<table, wakeup, job, owing, opener, ui, window>>

ThemeSet(s) ==
  /\ setter[s] = "checked"
  /\ theme' = TRUE
  /\ owing' = IF theme THEN owing ELSE owing \cup {s}
  /\ setter' = [setter EXCEPT ![s] = "done"]
  /\ UNCHANGED <<sessions, alive, pending, shutting, wakeup, job, opener, ui, window>>

Wake(c) ==
  /\ c \in owing
  /\ owing' = owing \ {c} /\ wakeup' = Posted
  /\ UNCHANGED <<table, job, opener, setter, ui, window>>

-----------------------------------------------------------------------------
(* The UI thread: the main window's frame up to its runtime tasks, these    *)
(* (the theme, open requests, one turn of every secondary window), the rest *)
(* of the frame, then again at once or after a wake.                        *)
Ready(j) == job[j] = "queued" /\ Target[j] \in live

(* A frame leaves the queue of its window empty: run, or cleared by         *)
(* finish_fail_stopped_frame when the tree has stopped before or in it.     *)
Served(ws) ==
  [j \in Jobs |-> IF Ready(j) /\ Target[j] \in ws THEN "over" ELSE job[j]]

(* A stopped main window never comes to its runtime tasks.                  *)
MainFrame ==
  /\ ui = "frame"
  /\ stopped' \in {stopped, TRUE}
  /\ job' = Served({Main})
  /\ ui' = IF stopped' THEN "idle" ELSE "tasks"
  /\ UNCHANGED <<table, wakeup, owing, opener, setter, subject, next, live, taken>>

TakeTheme ==
  /\ ui = "tasks"
  /\ theme' = FALSE
  /\ ui' = "open"
  /\ UNCHANGED <<sessions, alive, pending, shutting, wakeup, callers, window>>

Rest == Tail(pending)

TakeRequest ==
  /\ ui = "open"
  /\ IF pending = <<>>
     THEN ui' = "turn" /\ UNCHANGED <<pending, subject>>
     ELSE ui' = "create" /\ subject' = Head(pending) /\ pending' = Rest
  /\ UNCHANGED <<sessions, alive, theme, shutting, wakeup, callers, next, live, stopped,
                 taken>>

Created ==
  /\ ui = "create"
  /\ live' = live \cup {subject} /\ subject' = None
  /\ ui' = "open"
  /\ UNCHANGED <<table, wakeup, callers, next, stopped, taken>>

CreateFails ==
  /\ ui = "create"
  /\ ui' = "close" /\ next' = "open"
  /\ UNCHANGED <<table, wakeup, callers, subject, live, stopped, taken>>

Turn ==
  /\ ui = "turn"
  /\ job' = Served(live \ {Main})
  /\ ui' = "rest"
  /\ UNCHANGED <<table, wakeup, owing, opener, setter, window>>

(* The tasks, effects and layout may stop the main window's tree too.       *)
FrameEnds ==
  /\ ui = "rest"
  /\ \/ UNCHANGED <<job, stopped>>
     \/ job' = Cleared(Main) /\ stopped' = TRUE
  /\ ui' = "idle"
  /\ UNCHANGED <<table, wakeup, owing, opener, setter, subject, next, live, taken>>

Again ==
  /\ ui = "idle"
  /\ ui' = IF \E j \in Jobs : Ready(j) THEN "events" ELSE "wait"
  /\ UNCHANGED <<table, wakeup, callers, window>>

Woken ==
  /\ ui = "wait" /\ wakeup
  /\ ui' = "events"
  /\ UNCHANGED <<table, wakeup, callers, window>>

Polled ==
  /\ ui = "events"
  /\ ui' = "frame" /\ wakeup' = FALSE
  /\ UNCHANGED <<table, callers, window>>

(* mark_closed drops the flag before close_session takes the session.       *)
MarkClosed(w, then) ==
  /\ w \in live
  /\ live' = live \ {w} /\ alive' = [alive EXCEPT ![w] = FALSE]
  /\ subject' = w /\ next' = then
  /\ ui' = "close"
  /\ UNCHANGED <<sessions, pending, theme, shutting, wakeup, callers, stopped, taken>>

CloseSecondary(w) == ui = "events" /\ w # Main /\ MarkClosed(w, "events")
LoopExits         == ui = "events" /\ MarkClosed(Main, "exit")
CloseLeftOver(w)  == ui = "exit" /\ MarkClosed(w, "exit")

CloseSession ==
  /\ ui = "close"
  /\ IF subject \in sessions
     THEN sessions' = sessions \ {subject} /\ ui' = "release"
     ELSE ui' = "retain" /\ UNCHANGED sessions
  /\ UNCHANGED <<alive, pending, theme, shutting, wakeup, callers, window>>

ReleaseSession ==
  /\ ui = "release"
  /\ alive' = Dead(subject) /\ job' = Cleared(subject)
  /\ ui' = "retain"
  /\ UNCHANGED <<sessions, pending, theme, shutting, wakeup, owing, opener, setter, window>>

CloseRequest ==
  /\ ui = "retain"
  /\ pending' = Other(subject)
  /\ subject' = None /\ ui' = next
  /\ UNCHANGED <<sessions, alive, theme, shutting, wakeup, callers, next, live, stopped,
                 taken>>

(* shutdown_all, once every window is closed.                               *)
ShutDown ==
  /\ ui = "exit" /\ live = {}
  /\ shutting' = TRUE
  /\ ui' = "take"
  /\ UNCHANGED <<sessions, alive, pending, theme, wakeup, callers, window>>

TakeSessions ==
  /\ ui = "take"
  /\ taken' = sessions /\ sessions' = {}
  /\ ui' = "releasing"
  /\ UNCHANGED <<alive, pending, theme, shutting, wakeup, callers, subject, next, live,
                 stopped>>

ReleaseTaken(w) ==
  /\ ui = "releasing" /\ w \in taken
  /\ alive' = Dead(w) /\ job' = Cleared(w)
  /\ taken' = taken \ {w}
  /\ UNCHANGED <<sessions, pending, theme, shutting, wakeup, owing, opener, setter, ui,
                 subject, next, live, stopped>>

ClearRequests ==
  /\ ui = "releasing" /\ taken = {}
  /\ pending' = <<>>
  /\ ui' = "theme"
  /\ UNCHANGED <<sessions, alive, theme, shutting, wakeup, callers, window>>

ClearTheme ==
  /\ ui = "theme"
  /\ theme' = FALSE
  /\ ui' = "down"
  /\ UNCHANGED <<sessions, alive, pending, shutting, wakeup, callers, window>>

UiStep == \/ MainFrame \/ TakeTheme \/ TakeRequest \/ Created \/ CreateFails \/ Turn
          \/ FrameEnds \/ Again \/ Woken \/ Polled
          \/ CloseSession \/ ReleaseSession \/ CloseRequest
          \/ ShutDown \/ TakeSessions \/ ClearRequests \/ ClearTheme
          \/ \E w \in Windows : CloseLeftOver(w) \/ ReleaseTaken(w)

(* Native events close a window, end the wait, or stop the main tree by a   *)
(* panic while its update is being published.                               *)
OtherEvent ==
  /\ ui = "wait"
  /\ ui' = "events"
  /\ UNCHANGED <<table, wakeup, callers, window>>

TreeStops ==
  /\ ui = "events" /\ ~stopped
  /\ stopped' = TRUE
  /\ UNCHANGED <<table, wakeup, callers, ui, subject, next, live, taken>>

NativeEvent == OtherEvent \/ TreeStops \/ LoopExits \/ \E w \in Windows : CloseSecondary(w)

Next ==
  \/ \E w \in Windows \ {Main} :
       \/ OpenCheck(w) \/ OpenRegister(w) \/ OpenQueue(w) \/ OpenWake(w)
       \/ OpenGivesUp(w) \/ OpenRelease(w) \/ OpenRetain(w)
  \/ \E j \in Jobs : PostFind(j) \/ PostEnqueue(j) \/ ContextEnqueue(j)
  \/ \E s \in Setters : ThemeCheck(s) \/ ThemeSet(s)
  \/ \E c \in Jobs \cup Setters : Wake(c)
  \/ UiStep \/ NativeEvent

Spec == Init /\ [][Next]_vars

(* The UI thread goes on with what it has begun and when it is woken, which *)
(* after a fail-stop of the main window is a loop that serves nobody; a     *)
(* caller that stored its request goes on to post the wake.                 *)
FairSpec ==
  /\ Spec
  /\ WF_vars(UiStep)
  /\ \A c \in Jobs \cup Setters : WF_vars(Wake(c))
  /\ \A w \in Windows \ {Main} : WF_vars(OpenWake(w))
-----------------------------------------------------------------------------
(* Properties.                                                             *)

(* Types.  A request is queued once, and no more when it is being served;   *)
(* the windows that run have their session.                                 *)
TypeOK ==
  /\ sessions \subseteq Windows /\ alive \in [Windows -> BOOLEAN]
  /\ pending \in Seq(Windows) /\ theme \in BOOLEAN /\ shutting \in BOOLEAN
  /\ \A i, k \in DOMAIN pending : pending[i] = pending[k] => i = k
  /\ subject \notin Requested
  /\ wakeup \in BOOLEAN
  /\ job \in [Jobs -> {"new", "found", "queued", "over"}]
  /\ owing \subseteq Jobs \cup Setters
  /\ opener \in [Windows \ {Main} -> {"idle", "refused", "checked", "registered",
                                      "queued", "release", "retain", "done"}]
  /\ setter \in [Setters -> {"idle", "checked", "done"}]
  /\ ui \in {"events", "frame", "tasks", "open", "create", "turn", "rest", "idle", "wait",
             "close", "release", "retain", "exit", "take", "releasing", "theme", "down"}
  /\ subject \in Windows \cup {None} /\ next \in {"open", "events", "exit"}
  /\ live \subseteq sessions /\ stopped \in BOOLEAN /\ taken \subseteq Windows

(* The comment above shutdown_all: no session and no queued request         *)
(* outlives it, whatever threads were opening windows meanwhile.            *)
NothingOutlivesShutdown == ui = "down" => sessions = {} /\ pending = <<>>

(* The sessions some thread took out of the table and is about to release.  *)
Releasing == taken \cup (IF ui = "release" THEN {subject} ELSE {})
                   \cup {w \in DOMAIN opener : opener[w] = "release"}

(* A handle that says its window is open belongs to a session; none is left *)
(* behind by a failed creation or a shutdown between registering and        *)
(* queueing.                                                                *)
OpenHandlesHaveSession == \A w \in Windows : alive[w] => w \in sessions \cup Releasing

(* What enqueue_with_context accepted runs or is cleared: it is never in    *)
(* the queue of a window whose release is over.                             *)
AcceptedJobsEnd ==
  \A j \in ContextJobs : job[j] = "queued" => Target[j] \in sessions \cup Releasing

(* Whoever stored a request in the runtime is served after one wake, be it  *)
(* the wake of somebody else: open_window ends in a running window or a     *)
(* closed handle, and a theme is taken though only its first setter wakes.  *)
(* A fail-stop of the main window ends the service, not the loop: what is   *)
(* left waits until the main window is closed and then every handle says    *)
(* that its window is closed.                                               *)
RequestsServed ==
  /\ \A w \in Windows \ {Main} :
       opener[w] = "done" ~> w \in live \/ ~alive[w] \/ stopped
  /\ theme ~> ~theme \/ ui = "down" \/ stopped
  /\ ui = "exit" ~> [](\A w \in Windows : ~alive[w])

=============================================================================
