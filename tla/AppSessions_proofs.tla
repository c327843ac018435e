------------------------- MODULE AppSessions_proofs -------------------------
(***************************************************************************)
(* AppSessions for any windows, jobs and themes.  A window goes from its   *)
(* opener to the queue and on to the UI thread; the invariant says that it *)
(* is with one of them at a time, and what of the table is left at each    *)
(* step of the shutdown.                                                   *)
(***************************************************************************)
EXTENDS AppSessions, Selection_proofs

(* Until it is queued, and when it never will be, a window is its opener's. *)
OpenerInv ==
  /\ Main \notin Requested
  /\ \A w \in Windows \ {Main} :
       opener[w] \in {"idle", "refused", "checked", "registered"} =>
         w \notin Requested /\ w # subject /\ w \notin live
  /\ \A w \in Windows \ {Main} : opener[w] \in {"release", "retain"} => ~alive[w]

(* A window waits, is being created or closed, or runs.                     *)
PlaceInv ==
  /\ live \cap Requested = {}
  /\ subject \notin live
  /\ ui \in {"create", "close", "release", "retain"} => subject \in Windows
  /\ ui \in {"events", "frame", "tasks", "open", "turn", "rest", "idle", "wait", "exit",
             "take", "releasing", "theme", "down"} => subject = None

(* A window that waits or is being created or runs is open.                 *)
AliveInv ==
  /\ \A w \in live : alive[w]
  /\ ui \notin {"releasing", "theme", "down"} =>
       \A w \in Requested : alive[w] /\ w \in sessions
  /\ ui = "create" => alive[subject] /\ subject \in sessions

(* The shutdown closes the table to new sessions before it empties it.      *)
ShutdownInv ==
  /\ ui \in {"take", "releasing", "theme", "down"} => shutting /\ live = {}
  /\ ui \in {"releasing", "theme", "down"} => sessions = {}
  /\ ui \in {"theme", "down"} => pending = <<>>
  /\ taken # {} => ui = "releasing"

(* A job with context is looked up and queued in one step.                  *)
ContextInv == \A j \in ContextJobs : job[j] # "found"

IInv == /\ TypeOK /\ OpenerInv /\ PlaceInv /\ AliveInv /\ ShutdownInv /\ ContextInv
        /\ OpenHandlesHaveSession /\ AcceptedJobsEnd
-----------------------------------------------------------------------------
(* The queue after each of the steps that change it.                        *)
LEMMA RequestsDistinct ==
  ASSUME TypeOK PROVE Distinct(pending)
BY DEF TypeOK, Distinct

LEMMA RequestsKept ==
  ASSUME pending' = pending PROVE Requested' = Requested
BY DEF Requested

LEMMA RequestsLeft ==
  ASSUME TypeOK, NEW w \in Windows, pending' = Other(w)
  PROVE  /\ pending' \in Seq(Windows) /\ Distinct(pending)'
         /\ Requested' = Requested \ {w}
         /\ pending = <<>> => pending' = <<>>
<1>1. pending \in Seq(Windows) /\ Distinct(pending)
  BY RequestsDistinct DEF TypeOK
<1>2. Elements(Other(w)) = Elements(pending) \cap (Windows \ {w})
  BY <1>1, OnlyElements DEF Other
<1>3. Elements(pending) \subseteq Windows
  BY <1>1 DEF Elements
<1>4. Other(w) \in Seq(Windows) /\ Distinct(Other(w))
  BY <1>1, OnlyType, OnlyDistinct DEF Other
<1>5. pending = <<>> => Other(w) = <<>>
  BY OnlyEmpty DEF Other
<1>6. Elements(Other(w)) = Elements(pending) \ {w}
  BY <1>2, <1>3
<1> QED
  BY <1>4, <1>5, <1>6 DEF Requested, Elements

LEMMA RequestsMore ==
  ASSUME TypeOK, NEW w \in Windows, w \notin Requested, pending' = Append(pending, w)
  PROVE  /\ pending' \in Seq(Windows) /\ Distinct(pending)'
         /\ Requested' = Requested \cup {w}
<1>1. pending \in Seq(Windows) /\ Distinct(pending)
  BY RequestsDistinct DEF TypeOK
<1>2. Elements(pending) = Requested /\ Elements(pending)' = Requested'
  BY DEF Requested, Elements
<1>3. Elements(Append(pending, w)) = Elements(pending) \cup {w}
  BY <1>1, AppendElements
<1>4. Distinct(Append(pending, w))
  BY <1>1, <1>2, AppendDistinct
<1> QED
  BY <1>1, <1>2, <1>3, <1>4

LEMMA RequestsFewer ==
  ASSUME TypeOK, pending # <<>>, pending' = Rest
  PROVE  /\ pending' \in Seq(Windows) /\ Distinct(pending)'
         /\ Head(pending) \in Requested /\ Requested \subseteq Windows
         /\ Requested' = Requested \ {Head(pending)}
<1>1. /\ pending \in Seq(Windows) /\ Len(pending) \in Nat /\ Len(pending) # 0
      /\ DOMAIN pending = 1 .. Len(pending) /\ Head(pending) = pending[1]
      /\ pending' \in Seq(Windows) /\ DOMAIN pending' = 1 .. Len(pending) - 1
      /\ \A i \in 1 .. Len(pending) - 1 : pending'[i] = pending[i + 1]
  BY DEF TypeOK, Rest
<1>2. \A i, k \in 1 .. Len(pending) : pending[i] = pending[k] => i = k
  BY <1>1 DEF TypeOK
<1>3. Distinct(pending)'
  BY <1>1, <1>2 DEF Distinct
<1>4. Head(pending) \in Requested /\ Requested \subseteq Windows
  BY <1>1 DEF Requested
<1>5. ASSUME NEW r \in Requested, r # Head(pending) PROVE r \in Requested'
  <2>1. PICK i \in 1 .. Len(pending) : r = pending[i]
    BY <1>1, <1>5 DEF Requested
  <2>2. i - 1 \in 1 .. Len(pending) - 1 /\ (i - 1) + 1 = i
    BY <1>1, <1>5, <2>1
  <2>3. pending'[i - 1] = r
    BY <1>1, <2>1, <2>2
  <2> QED
    BY <1>1, <2>2, <2>3 DEF Requested
<1>6. ASSUME NEW r \in Requested' PROVE r \in Requested \ {Head(pending)}
  <2>1. PICK i \in 1 .. Len(pending) - 1 : r = pending'[i]
    BY <1>1 DEF Requested
  <2>2. i + 1 \in 1 .. Len(pending) /\ r = pending[i + 1] /\ i + 1 # 1
    BY <1>1, <2>1
  <2> QED
    BY <1>1, <1>2, <2>2 DEF Requested
<1> QED
  BY <1>1, <1>3, <1>4, <1>5, <1>6

LEMMA NoRequests ==
  ASSUME pending' = <<>>
  PROVE  pending' \in Seq(Windows) /\ Distinct(pending)' /\ Requested' = {}
BY DEF Distinct, Requested

-----------------------------------------------------------------------------
LEMMA InitIInv == Init => IInv
<1> SUFFICES ASSUME Init PROVE IInv
  OBVIOUS
<1> USE WindowAssumption, JobAssumption DEF Init
<1>1. Requested = {}
  BY DEF Requested
<1>2. TypeOK
  <2>1. /\ pending \in Seq(Windows) /\ \A i, k \in DOMAIN pending : pending[i] = pending[k] => i = k
    OBVIOUS
  <2>2. /\ sessions \subseteq Windows /\ alive \in [Windows -> BOOLEAN]
        /\ live \subseteq sessions /\ taken \subseteq Windows
    OBVIOUS
  <2> QED
    BY <1>1, <2>1, <2>2 DEF TypeOK
<1>3. OpenerInv /\ PlaceInv /\ AliveInv /\ ShutdownInv /\ ContextInv
  BY <1>1 DEF OpenerInv, PlaceInv, AliveInv, ShutdownInv, ContextInv
<1>4. OpenHandlesHaveSession /\ AcceptedJobsEnd
  BY DEF OpenHandlesHaveSession, AcceptedJobsEnd
<1> QED
  BY <1>2, <1>3, <1>4 DEF IInv

(* A window its opener has not queued yet, with an open handle, is still in *)
(* the table.                                                               *)
LEMMA RegisteredIsThere ==
  ASSUME IInv, NEW w \in Windows \ {Main}, opener[w] = "registered", alive[w],
         ui # "releasing"
  PROVE  w \in sessions
<1>1. w \notin taken
  BY DEF IInv, ShutdownInv
<1>2. ui = "release" => w # subject
  BY DEF IInv, OpenerInv
<1> QED
  BY <1>1, <1>2 DEF IInv, OpenHandlesHaveSession, Releasing

LEMMA TypeStep ==
  ASSUME IInv, [Next]_vars
  PROVE  TypeOK'
<1> USE DEF IInv, TypeOK, table, callers, window
<1>1. ASSUME NEW w \in Windows \ {Main},
             OpenCheck(w) \/ OpenRegister(w) \/ OpenWake(w) \/ OpenGivesUp(w) \/ OpenRelease(w)
      PROVE  TypeOK'
  <2>1. Requested' = Requested
    BY <1>1, RequestsKept DEF OpenCheck, OpenRegister, OpenWake, OpenGivesUp, OpenRelease
  <2>2. OpenGivesUp(w) => w \notin live
    BY DEF OpenGivesUp, AliveInv
  <2>3. CASE OpenRegister(w)
    <3>1. alive' \in [Windows -> BOOLEAN]
      BY <2>3 DEF OpenRegister, Admits
    <3>2. sessions \subseteq sessions' /\ sessions' \subseteq Windows
      BY <2>3 DEF OpenRegister
    <3> QED
      BY <2>1, <2>3, <3>1, <3>2 DEF OpenRegister
  <2>4. CASE OpenCheck(w)
    BY <2>1, <2>4 DEF OpenCheck
  <2>7. CASE OpenWake(w)
    BY <2>1, <2>7 DEF OpenWake, Posted
  <2>5. CASE OpenGivesUp(w)
    BY <2>1, <2>2, <2>5 DEF OpenGivesUp
  <2>6. CASE OpenRelease(w)
    BY <2>1, <2>6 DEF OpenRelease, Dead, Cleared
  <2> QED
    BY <1>1, <2>3, <2>4, <2>5, <2>6, <2>7
<1>2. ASSUME NEW w \in Windows \ {Main}, OpenQueue(w) PROVE TypeOK'
  <2>1. CASE ~Queues(w)
    BY <1>2, <2>1, RequestsKept DEF OpenQueue
  <2>2. CASE Queues(w)
    <3>1. w \notin Requested /\ w # subject
      BY <1>2 DEF OpenQueue, OpenerInv
    <3>2. pending' \in Seq(Windows) /\ Distinct(pending)' /\ Requested' = Requested \cup {w}
      BY <1>2, <2>2, <3>1, RequestsMore DEF OpenQueue
    <3> QED
      BY <1>2, <3>1, <3>2 DEF OpenQueue, Distinct
  <2> QED
    BY <2>1, <2>2
<1>3. ASSUME NEW w \in Windows \ {Main}, OpenRetain(w) PROVE TypeOK'
  <2>1. pending' \in Seq(Windows) /\ Distinct(pending)' /\ Requested' = Requested \ {w}
    BY <1>3, RequestsLeft DEF OpenRetain
  <2> QED
    BY <1>3, <2>1 DEF OpenRetain, Distinct
<1>4. ASSUME NEW j \in Jobs, PostFind(j) \/ PostEnqueue(j) \/ ContextEnqueue(j)
      PROVE  TypeOK'
  <2>1. Requested' = Requested
    BY <1>4, RequestsKept DEF PostFind, PostEnqueue, ContextEnqueue
  <2> QED
    BY <1>4, <2>1 DEF PostFind, PostEnqueue, ContextEnqueue
<1>5. ASSUME NEW t \in Setters, ThemeCheck(t) \/ ThemeSet(t) PROVE TypeOK'
  <2>1. Requested' = Requested
    BY <1>5, RequestsKept DEF ThemeCheck, ThemeSet
  <2>2. CASE ThemeCheck(t)
    BY <2>1, <2>2 DEF ThemeCheck
  <2>3. CASE ThemeSet(t)
    BY <2>1, <2>3 DEF ThemeSet
  <2> QED
    BY <1>5, <2>2, <2>3
<1>6. ASSUME NEW c \in Jobs \cup Setters, Wake(c) PROVE TypeOK'
  BY <1>6, RequestsKept DEF Wake, Posted
<1>7. CASE TakeTheme \/ Again \/ Woken \/ Polled \/ ShutDown \/ ClearTheme \/ OtherEvent
           \/ TreeStops
  <2>1. Requested' = Requested
    BY <1>7, RequestsKept DEF TakeTheme, Again, Woken, Polled, ShutDown, ClearTheme,
                              OtherEvent, TreeStops
  <2>2. UNCHANGED <<sessions, alive, pending, job, owing, opener, setter, subject, next, live,
                    taken>>
    BY <1>7 DEF TakeTheme, Again, Woken, Polled, ShutDown, ClearTheme, OtherEvent, TreeStops
  <2>3. /\ theme' \in BOOLEAN /\ shutting' \in BOOLEAN /\ wakeup' \in BOOLEAN
        /\ stopped' \in BOOLEAN
        /\ ui' \in {"open", "events", "wait", "frame", "take", "down"}
    BY <1>7 DEF TakeTheme, Again, Woken, Polled, ShutDown, ClearTheme, OtherEvent, TreeStops
  <2> QED
    BY <2>1, <2>2, <2>3
<1>16. CASE MainFrame \/ Turn \/ FrameEnds
  <2>1. Requested' = Requested
    BY <1>16, RequestsKept DEF MainFrame, Turn, FrameEnds
  <2>2. job' \in [Jobs -> {"new", "found", "queued", "over"}]
    BY <1>16 DEF MainFrame, Turn, FrameEnds, Served, Cleared
  <2>3. /\ UNCHANGED <<table, wakeup, owing, opener, setter, subject, next, live, taken>>
        /\ stopped' \in BOOLEAN /\ ui' \in {"tasks", "rest", "idle"}
    BY <1>16 DEF MainFrame, Turn, FrameEnds
  <2> QED
    BY <2>1, <2>2, <2>3
<1>8. CASE TakeRequest
  <2>1. CASE pending = <<>>
    BY <1>8, <2>1, RequestsKept DEF TakeRequest
  <2>2. CASE pending # <<>>
    <3>1. /\ pending' \in Seq(Windows) /\ Distinct(pending)'
          /\ Head(pending) \in Windows /\ Requested' = Requested \ {Head(pending)}
      BY <1>8, <2>2, RequestsFewer DEF TakeRequest
    <3> QED
      BY <1>8, <2>2, <3>1 DEF TakeRequest, Distinct
  <2> QED
    BY <2>1, <2>2
<1>9. CASE Created \/ CreateFails \/ CloseSession \/ ReleaseSession
  <2>1. Requested' = Requested
    BY <1>9, RequestsKept DEF Created, CreateFails, CloseSession, ReleaseSession
  <2>2. None \notin Requested
    BY WindowAssumption DEF Requested
  <2>3. subject \notin live /\ (ui = "create" => subject \in sessions)
    BY DEF PlaceInv, AliveInv
  <2>4. CASE Created
    BY <2>1, <2>2, <2>3, <2>4 DEF Created
  <2>5. CASE CreateFails
    BY <2>1, <2>2, <2>3, <2>5 DEF CreateFails
  <2>6. CASE CloseSession
    BY <2>1, <2>2, <2>3, <2>6 DEF CloseSession
  <2>7. CASE ReleaseSession
    BY <2>1, <2>2, <2>3, <2>7 DEF ReleaseSession, Dead, Cleared
  <2> QED
    BY <1>9, <2>4, <2>5, <2>6, <2>7
<1>10. ASSUME NEW w \in Windows, NEW then \in {"events", "exit"}, MarkClosed(w, then)
       PROVE  TypeOK'
  BY <1>10, RequestsKept DEF MarkClosed, PlaceInv
<1>11. CASE CloseRequest
  <2>1. subject \in Windows
    BY <1>11 DEF CloseRequest, PlaceInv
  <2>2. pending' \in Seq(Windows) /\ Distinct(pending)' /\ Requested' = Requested \ {subject}
    BY <1>11, <2>1, RequestsLeft DEF CloseRequest
  <2>3. None \notin Requested
    BY WindowAssumption DEF Requested
  <2> QED
    BY <1>11, <2>2, <2>3 DEF CloseRequest, Distinct
<1>12. CASE TakeSessions
  BY <1>12, RequestsKept DEF TakeSessions, ShutdownInv
<1>13. ASSUME NEW w \in Windows, ReleaseTaken(w) PROVE TypeOK'
  BY <1>13, RequestsKept DEF ReleaseTaken, Dead, Cleared
<1>14. CASE ClearRequests
  BY <1>14, NoRequests DEF ClearRequests, Distinct
<1>15. CASE UNCHANGED vars
  BY <1>15, RequestsKept DEF vars
<1> QED
  BY <1>1, <1>2, <1>3, <1>4, <1>5, <1>6, <1>7, <1>8, <1>9, <1>10, <1>11, <1>12, <1>13,
     <1>14, <1>15, <1>16, WindowAssumption
     DEF Next, UiStep, NativeEvent, CloseSecondary, LoopExits, CloseLeftOver

(* A window is with its opener, in the queue, with the UI thread or running.*)
LEMMA PlacesStep ==
  ASSUME IInv, [Next]_vars
  PROVE  OpenerInv' /\ PlaceInv' /\ AliveInv'
<1> USE DEF OpenerInv, PlaceInv, AliveInv, table, callers, window
<1>0. /\ TypeOK /\ OpenerInv /\ PlaceInv /\ AliveInv /\ ShutdownInv
      /\ Requested \subseteq Windows /\ None \notin Requested /\ None \notin Windows
      /\ live \subseteq sessions /\ sessions \subseteq Windows /\ subject \notin Requested
      /\ alive \in [Windows -> BOOLEAN] /\ DOMAIN opener = Windows \ {Main}
  <2>1. TypeOK /\ OpenerInv /\ PlaceInv /\ AliveInv /\ ShutdownInv
    BY DEF IInv
  <2>2. Requested \subseteq Windows
    BY <2>1 DEF TypeOK, Requested
  <2> QED
    BY <2>1, <2>2, WindowAssumption DEF TypeOK
<1>1. ASSUME NEW w \in Windows \ {Main}, OpenCheck(w) \/ OpenWake(w)
      PROVE  OpenerInv' /\ PlaceInv' /\ AliveInv'
  <2>1. Requested' = Requested
    BY <1>1, RequestsKept DEF OpenCheck, OpenWake
  <2> QED
    BY <1>0, <1>1, <2>1 DEF OpenCheck, OpenWake
<1>2. ASSUME NEW w \in Windows \ {Main}, OpenRegister(w)
      PROVE  OpenerInv' /\ PlaceInv' /\ AliveInv'
  <2>1. Requested' = Requested
    BY <1>2, RequestsKept DEF OpenRegister
  <2>2. sessions \subseteq sessions' /\ \A v \in Windows \ {w} : alive'[v] = alive[v]
    BY <1>0, <1>2 DEF OpenRegister
  <2>3. w \notin Requested /\ w # subject /\ w \notin live
    BY <1>0, <1>2 DEF OpenRegister
  <2> QED
    BY <1>0, <1>2, <2>1, <2>2, <2>3 DEF OpenRegister
<1>3. ASSUME NEW w \in Windows \ {Main}, OpenQueue(w)
      PROVE  OpenerInv' /\ PlaceInv' /\ AliveInv'
  <2>1. CASE ~Queues(w)
    BY <1>0, <1>3, <2>1, RequestsKept DEF OpenQueue
  <2>2. CASE Queues(w)
    <3>1. w \notin Requested /\ w # subject /\ w \notin live
      BY <1>0, <1>3 DEF OpenQueue
    <3>2. Requested' = Requested \cup {w}
      BY <1>0, <1>3, <2>2, <3>1, RequestsMore DEF OpenQueue
    <3>3. ui \notin {"take", "releasing", "theme", "down"} /\ alive[w]
      BY <1>0, <2>2 DEF Queues, ShutdownInv
    <3>4. w \in sessions
      BY <1>3, <3>3, RegisteredIsThere DEF OpenQueue
    <3> QED
      BY <1>0, <1>3, <3>1, <3>2, <3>3, <3>4 DEF OpenQueue
  <2> QED
    BY <2>1, <2>2
<1>4. ASSUME NEW w \in Windows \ {Main}, OpenGivesUp(w)
      PROVE  OpenerInv' /\ PlaceInv' /\ AliveInv'
  <2>1. Requested' = Requested
    BY <1>4, RequestsKept DEF OpenGivesUp
  <2> QED
    BY <1>0, <1>4, <2>1 DEF OpenGivesUp
<1>5. ASSUME NEW w \in Windows \ {Main}, OpenRelease(w)
      PROVE  OpenerInv' /\ PlaceInv' /\ AliveInv'
  <2>1. Requested' = Requested
    BY <1>5, RequestsKept DEF OpenRelease
  <2>2. ~alive[w] /\ alive' = alive
    BY <1>0, <1>5 DEF OpenRelease, Dead
  <2> QED
    BY <1>0, <1>5, <2>1, <2>2 DEF OpenRelease
<1>6. ASSUME NEW w \in Windows \ {Main}, OpenRetain(w)
      PROVE  OpenerInv' /\ PlaceInv' /\ AliveInv'
  <2>1. Requested' = Requested \ {w}
    BY <1>0, <1>6, RequestsLeft DEF OpenRetain
  <2> QED
    BY <1>0, <1>6, <2>1 DEF OpenRetain
<1>7. CASE \/ \E j \in Jobs : PostFind(j) \/ PostEnqueue(j) \/ ContextEnqueue(j)
           \/ \E t \in Setters : ThemeCheck(t) \/ ThemeSet(t)
           \/ \E c \in Jobs \cup Setters : Wake(c)
           \/ UNCHANGED vars
  <2>1. /\ UNCHANGED <<pending, opener, alive, sessions, ui, subject, live>>
    BY <1>7 DEF PostFind, PostEnqueue, ContextEnqueue, ThemeCheck, ThemeSet, Wake, vars
  <2>2. Requested' = Requested
    BY <2>1, RequestsKept
  <2> QED
    BY <1>0, <2>1, <2>2
<1>8. CASE \/ MainFrame \/ TakeTheme \/ Turn \/ FrameEnds \/ Again \/ Woken \/ Polled
           \/ ShutDown \/ ClearTheme \/ OtherEvent \/ TreeStops
  <2>1. UNCHANGED <<pending, opener, alive, sessions, subject, live>>
    BY <1>8 DEF MainFrame, TakeTheme, Turn, FrameEnds, Again, Woken, Polled, ShutDown, ClearTheme,
                OtherEvent, TreeStops
  <2>2. Requested' = Requested
    BY <2>1, RequestsKept
  <2>3. /\ ui \in {"events", "frame", "tasks", "turn", "rest", "idle", "wait", "exit", "theme"}
        /\ ui' \in {"events", "frame", "tasks", "open", "rest", "idle", "wait", "take", "down"}
        /\ ui' = "down" <=> ui = "theme"
    BY <1>8 DEF MainFrame, TakeTheme, Turn, FrameEnds, Again, Woken, Polled, ShutDown, ClearTheme,
                OtherEvent, TreeStops
  <2> QED
    BY <1>0, <2>1, <2>2, <2>3
<1>9. CASE TakeRequest
  <2>1. CASE pending = <<>>
    BY <1>0, <1>9, <2>1, RequestsKept DEF TakeRequest
  <2>2. CASE pending # <<>>
    <3>1. Head(pending) \in Requested /\ Requested' = Requested \ {Head(pending)}
      BY <1>0, <1>9, <2>2, RequestsFewer DEF TakeRequest
    <3> QED
      BY <1>0, <1>9, <2>2, <3>1 DEF TakeRequest
  <2> QED
    BY <2>1, <2>2
<1>10. CASE Created \/ CreateFails
  <2>1. Requested' = Requested
    BY <1>10, RequestsKept DEF Created, CreateFails
  <2> QED
    BY <1>0, <1>10, <2>1 DEF Created, CreateFails
<1>11. ASSUME NEW w \in Windows, NEW then \in {"events", "exit"}, MarkClosed(w, then)
       PROVE  OpenerInv' /\ PlaceInv' /\ AliveInv'
  <2>1. Requested' = Requested
    BY <1>11, RequestsKept DEF MarkClosed
  <2>2. /\ w \notin Requested /\ ~alive'[w] /\ \A v \in Windows \ {w} : alive'[v] = alive[v]
        /\ ui \notin {"take", "releasing", "theme", "down"}
    BY <1>0, <1>11 DEF MarkClosed, ShutdownInv
  <2> QED
    BY <1>0, <1>11, <2>1, <2>2 DEF MarkClosed
<1>12. CASE CloseSession
  <2>1. Requested' = Requested
    BY <1>12, RequestsKept DEF CloseSession
  <2> QED
    BY <1>0, <1>12, <2>1 DEF CloseSession
<1>13. CASE ReleaseSession
  <2>1. Requested' = Requested
    BY <1>13, RequestsKept DEF ReleaseSession
  <2>2. ~alive'[subject] /\ \A v \in Windows \ {subject} : alive'[v] = alive[v]
    BY <1>0, <1>13 DEF ReleaseSession, Dead
  <2> QED
    BY <1>0, <1>13, <2>1, <2>2 DEF ReleaseSession
<1>14. CASE CloseRequest
  <2>1. Requested' = Requested \ {subject}
    BY <1>0, <1>14, RequestsLeft DEF CloseRequest
  <2>2. ui' \in {"open", "events", "exit"}
    BY <1>0, <1>14 DEF CloseRequest, TypeOK
  <2> QED
    BY <1>0, <1>14, <2>1, <2>2 DEF CloseRequest
<1>15. CASE TakeSessions
  <2>1. Requested' = Requested
    BY <1>15, RequestsKept DEF TakeSessions
  <2> QED
    BY <1>0, <1>15, <2>1 DEF TakeSessions
<1>16. ASSUME NEW w \in Windows, ReleaseTaken(w)
       PROVE  OpenerInv' /\ PlaceInv' /\ AliveInv'
  <2>1. Requested' = Requested
    BY <1>16, RequestsKept DEF ReleaseTaken
  <2>2. live = {} /\ \A v \in Windows : alive'[v] => alive[v]
    BY <1>0, <1>16 DEF ReleaseTaken, Dead, ShutdownInv
  <2> QED
    BY <1>0, <1>16, <2>1, <2>2 DEF ReleaseTaken
<1>17. CASE ClearRequests
  BY <1>0, <1>17, NoRequests DEF ClearRequests
<1> QED
  BY <1>1, <1>2, <1>3, <1>4, <1>5, <1>6, <1>7, <1>8, <1>9, <1>10, <1>11, <1>12, <1>13,
     <1>14, <1>15, <1>16, <1>17, WindowAssumption
     DEF Next, UiStep, NativeEvent, CloseSecondary, LoopExits, CloseLeftOver

LEMMA ShutdownStep ==
  ASSUME IInv, [Next]_vars
  PROVE  ShutdownInv' /\ ContextInv'
<1> USE DEF IInv, ShutdownInv, ContextInv, table, callers, window
<1>1. ASSUME NEW w \in Windows \ {Main},
             \/ OpenCheck(w) \/ OpenRegister(w) \/ OpenQueue(w) \/ OpenWake(w)
             \/ OpenGivesUp(w) \/ OpenRelease(w) \/ OpenRetain(w)
      PROVE  ShutdownInv' /\ ContextInv'
  <2>1. /\ UNCHANGED <<ui, live, shutting, taken>>
        /\ ui \in {"releasing", "theme", "down"} => sessions' = {}
    BY <1>1 DEF OpenCheck, OpenRegister, OpenQueue, OpenWake, OpenGivesUp, OpenRelease,
                OpenRetain, Admits
  <2>2. ui \in {"theme", "down"} => pending' = <<>>
    <3>1. OpenRetain(w) /\ pending = <<>> => pending' = <<>>
      BY RequestsLeft DEF OpenRetain
    <3>2. shutting /\ pending = <<>> /\ OpenQueue(w) => pending' = <<>>
      BY DEF OpenQueue, Queues
    <3> QED
      BY <1>1, <3>1, <3>2 DEF OpenCheck, OpenRegister, OpenWake, OpenGivesUp, OpenRelease
  <2>3. \A j \in ContextJobs : job'[j] # "found"
    BY <1>1, JobAssumption
       DEF OpenCheck, OpenRegister, OpenQueue, OpenWake, OpenGivesUp, OpenRelease,
           OpenRetain, Cleared
  <2> QED
    BY <2>1, <2>2, <2>3
<1>2. ASSUME NEW j \in Jobs, PostFind(j) \/ PostEnqueue(j) \/ ContextEnqueue(j)
      PROVE  ShutdownInv' /\ ContextInv'
  BY <1>2, JobAssumption DEF PostFind, PostEnqueue, ContextEnqueue, TypeOK
<1>3. CASE \/ \E t \in Setters : ThemeCheck(t) \/ ThemeSet(t)
           \/ \E c \in Jobs \cup Setters : Wake(c)
           \/ UNCHANGED vars
  <2>1. UNCHANGED <<ui, live, shutting, taken, sessions, pending, job>>
    BY <1>3 DEF ThemeCheck, ThemeSet, Wake, vars
  <2> QED
    BY <2>1
<1>4. CASE TakeTheme \/ TakeRequest \/ Created \/ CreateFails \/ Again \/ Woken \/ Polled
           \/ CloseSession \/ OtherEvent \/ TreeStops
  BY <1>4 DEF TakeTheme, TakeRequest, Created, CreateFails, Again, Woken, Polled, CloseSession,
              OtherEvent, TreeStops
<1>5. CASE MainFrame \/ Turn \/ FrameEnds
  <2>1. \A j \in ContextJobs : job'[j] # "found"
    BY <1>5, JobAssumption DEF MainFrame, Turn, FrameEnds, Served, Cleared
  <2>2. UNCHANGED <<live, shutting, taken, sessions, pending>>
    BY <1>5 DEF MainFrame, Turn, FrameEnds
  <2>3. ui \in {"frame", "turn", "rest"} /\ ui' \in {"tasks", "rest", "idle"}
    BY <1>5 DEF MainFrame, Turn, FrameEnds
  <2> QED
    BY <2>1, <2>2, <2>3
<1>6. ASSUME NEW w \in Windows, NEW then \in {"events", "exit"}, MarkClosed(w, then)
      PROVE  ShutdownInv' /\ ContextInv'
  BY <1>6 DEF MarkClosed
<1>7. CASE ReleaseSession
  BY <1>7, JobAssumption DEF ReleaseSession, Cleared
<1>8. CASE CloseRequest
  <2>1. ui' \in {"open", "events", "exit"}
    BY <1>8 DEF CloseRequest, TypeOK
  <2> QED
    BY <1>8, <2>1 DEF CloseRequest
<1>9. CASE ShutDown \/ TakeSessions \/ ClearRequests \/ ClearTheme
  BY <1>9 DEF ShutDown, TakeSessions, ClearRequests, ClearTheme
<1>10. ASSUME NEW w \in Windows, ReleaseTaken(w) PROVE ShutdownInv' /\ ContextInv'
  BY <1>10, JobAssumption DEF ReleaseTaken, Cleared
<1> QED
  BY <1>1, <1>2, <1>3, <1>4, <1>5, <1>6, <1>7, <1>8, <1>9, <1>10, WindowAssumption
     DEF Next, UiStep, NativeEvent, CloseSecondary, LoopExits, CloseLeftOver

(* What a step may do to the table: a session that leaves it is one some    *)
(* thread now releases, and one whose release is over has its flag down and *)
(* its queue cleared.                                                       *)
LEMMA Released ==
  ASSUME IInv, NEW w \in Windows, alive' = Dead(w), job' = Cleared(w),
         sessions' = sessions, Releasing \subseteq Releasing' \cup {w}
  PROVE  OpenHandlesHaveSession' /\ AcceptedJobsEnd'
<1>1. \A v \in Windows : alive'[v] => alive[v] /\ v # w
  BY DEF IInv, TypeOK, Dead
<1>2. \A j \in ContextJobs : job'[j] = "queued" => job[j] = "queued" /\ Target[j] # w
  BY JobAssumption DEF Cleared
<1> QED
  BY <1>1, <1>2 DEF IInv, OpenHandlesHaveSession, AcceptedJobsEnd

LEMMA Moved ==
  ASSUME IInv, sessions \cup Releasing \subseteq sessions' \cup Releasing',
         \A v \in Windows : alive'[v] => alive[v] \/ v \in sessions',
         \A j \in ContextJobs : job'[j] = "queued" => job[j] = "queued" \/ Target[j] \in sessions'
  PROVE  OpenHandlesHaveSession' /\ AcceptedJobsEnd'
BY DEF IInv, OpenHandlesHaveSession, AcceptedJobsEnd

LEMMA SessionsStep ==
  ASSUME IInv, [Next]_vars
  PROVE  OpenHandlesHaveSession' /\ AcceptedJobsEnd'
<1> USE DEF Releasing, table, callers, window
<1>0. /\ alive \in [Windows -> BOOLEAN] /\ DOMAIN opener = Windows \ {Main}
      /\ job = [j \in Jobs |-> job[j]] /\ ContextJobs \subseteq Jobs
      /\ sessions \subseteq Windows
      /\ taken # {} => ui = "releasing"
      /\ ui \in {"close", "release"} => subject \in Windows
      /\ \A j \in ContextJobs : job[j] # "found"
  BY JobAssumption DEF IInv, TypeOK, ShutdownInv, PlaceInv, ContextInv
<1>1. ASSUME NEW w \in Windows \ {Main},
             OpenCheck(w) \/ OpenQueue(w) \/ OpenWake(w) \/ OpenRetain(w)
      PROVE  OpenHandlesHaveSession' /\ AcceptedJobsEnd'
  BY <1>0, <1>1, Moved DEF OpenCheck, OpenQueue, OpenWake, OpenRetain
<1>2. ASSUME NEW w \in Windows \ {Main}, OpenRegister(w)
      PROVE  OpenHandlesHaveSession' /\ AcceptedJobsEnd'
  BY <1>0, <1>2, Moved DEF OpenRegister
<1>3. ASSUME NEW w \in Windows \ {Main}, OpenGivesUp(w)
      PROVE  OpenHandlesHaveSession' /\ AcceptedJobsEnd'
  BY <1>0, <1>3, Moved DEF OpenGivesUp
<1>4. ASSUME NEW w \in Windows \ {Main}, OpenRelease(w)
      PROVE  OpenHandlesHaveSession' /\ AcceptedJobsEnd'
  BY <1>0, <1>4, Released DEF OpenRelease
<1>5. ASSUME NEW j \in Jobs, PostFind(j) \/ PostEnqueue(j) \/ ContextEnqueue(j)
      PROVE  OpenHandlesHaveSession' /\ AcceptedJobsEnd'
  BY <1>0, <1>5, Moved DEF PostFind, PostEnqueue, ContextEnqueue, Accepts, Session
<1>6. CASE \/ \E t \in Setters : ThemeCheck(t) \/ ThemeSet(t)
           \/ \E c \in Jobs \cup Setters : Wake(c)
           \/ UNCHANGED vars
  <2>1. UNCHANGED <<sessions, alive, job, taken, ui, subject, opener>>
    BY <1>6 DEF ThemeCheck, ThemeSet, Wake, vars
  <2> QED
    BY <2>1, Moved
<1>7. CASE TakeTheme \/ TakeRequest \/ Created \/ CreateFails \/ Again \/ Woken \/ Polled
           \/ OtherEvent \/ TreeStops \/ ShutDown \/ ClearRequests \/ ClearTheme
           \/ CloseRequest
  <2>1. UNCHANGED <<sessions, alive, job, taken, opener>> /\ ui # "release"
    BY <1>7 DEF TakeTheme, TakeRequest, Created, CreateFails, Again, Woken, Polled, OtherEvent,
                TreeStops, ShutDown, ClearRequests, ClearTheme, CloseRequest
  <2> QED
    BY <2>1, Moved
<1>8. CASE MainFrame \/ Turn \/ FrameEnds
  <2>1. UNCHANGED <<sessions, alive, taken, opener>> /\ ui # "release"
    BY <1>8 DEF MainFrame, Turn, FrameEnds
  <2>2. \A j \in ContextJobs : job'[j] = "queued" => job[j] = "queued"
    BY <1>0, <1>8 DEF MainFrame, Turn, FrameEnds, Served, Cleared
  <2> QED
    BY <2>1, <2>2, Moved
<1>9. ASSUME NEW w \in Windows, NEW then \in {"events", "exit"}, ui \in {"events", "exit"},
             MarkClosed(w, then)
      PROVE  OpenHandlesHaveSession' /\ AcceptedJobsEnd'
  BY <1>0, <1>9, Moved DEF MarkClosed
<1>10. CASE CloseSession
  BY <1>0, <1>10, Moved DEF CloseSession
<1>11. CASE ReleaseSession
  BY <1>0, <1>11, Released DEF ReleaseSession
<1>12. CASE TakeSessions
  BY <1>0, <1>12, Moved DEF TakeSessions
<1>13. ASSUME NEW w \in Windows, ReleaseTaken(w)
       PROVE  OpenHandlesHaveSession' /\ AcceptedJobsEnd'
  BY <1>0, <1>13, Released DEF ReleaseTaken
<1> QED
  BY <1>1, <1>2, <1>3, <1>4, <1>5, <1>6, <1>7, <1>8, <1>9, <1>10, <1>11, <1>12, <1>13,
     WindowAssumption
     DEF Next, UiStep, NativeEvent, CloseSecondary, LoopExits, CloseLeftOver

-----------------------------------------------------------------------------
(* The invariant holds in every behaviour.                                  *)
THEOREM Inductive == Spec => []IInv
<1>1. Init => IInv
  BY InitIInv
<1>2. IInv /\ [Next]_vars => IInv'
  BY TypeStep, PlacesStep, ShutdownStep, SessionsStep DEF IInv
<1> QED
  BY <1>1, <1>2, PTL DEF Spec

(* A request is queued once, no more when the UI thread has it, and every   *)
(* window that runs is in the table (drain_pending_open_windows).           *)
THEOREM TypeCorrect == Spec => []TypeOK
<1>1. IInv => TypeOK
  BY DEF IInv
<1> QED
  BY <1>1, Inductive, PTL

(* No session and no queued request outlives shutdown_all, for any number   *)
(* of threads in open_window: whoever registers afterwards is refused under *)
(* the same lock, and the request of whoever registered before is cleared   *)
(* or never queued.                                                         *)
THEOREM NothingOutlives == Spec => []NothingOutlivesShutdown
<1>1. IInv => NothingOutlivesShutdown
  BY DEF IInv, ShutdownInv, NothingOutlivesShutdown
<1> QED
  BY <1>1, Inductive, PTL

(* A handle that says open has a session, or one that is being released.    *)
THEOREM OpenHandles == Spec => []OpenHandlesHaveSession
<1>1. IInv => OpenHandlesHaveSession
  BY DEF IInv
<1> QED
  BY <1>1, Inductive, PTL

(* No job that enqueue_with_context accepted is left in the queue of a      *)
(* window whose release is over.                                            *)
THEOREM AcceptedJobs == Spec => []AcceptedJobsEnd
<1>1. IInv => AcceptedJobsEnd
  BY DEF IInv
<1> QED
  BY <1>1, Inductive, PTL
=============================================================================
