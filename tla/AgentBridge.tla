----------------------------- MODULE AgentBridge -----------------------------
(***************************************************************************)
(* AgentBridgeDirectory: what the connections know of one window.  The UI  *)
(* thread publishes the revisions of its semantic state, connections wait  *)
(* on the condition variable of a generation, shutdown closes everything.  *)
(*                                                                         *)
(* Generation g is the g-th registration of the window; its condition      *)
(* variable bears the same number.                                         *)
(*                                                                         *)
(* An operator right above another one and named after it is a wrong       *)
(* variant of it, kept to show which property would notice.                *)
(***************************************************************************)
EXTENDS Naturals, FiniteSets

CONSTANTS
  Waits,           (* the calls of wait                                      *)
  Condition,       (* what each waits for: [kind, at]                        *)
  MaxGen, MaxRevision,  (* bounds: registrations, revisions of a semantic state   *)
  None

ASSUME BridgeAssumption == MaxGen \in Nat \ {0} /\ MaxRevision \in Nat \ {0}
ASSUME NoneAssumption ==
  /\ None \notin Nat
  /\ None \notin [gen : Nat, rev : Nat, presented : Nat, closed : BOOLEAN]
ASSUME ConditionAssumption ==
  Condition \in [Waits -> [kind : {"RevisionAfter", "PresentedAtLeast"}, at : Nat]]

Gens == 1 .. MaxGen

VARIABLES
  gen,             (* AgentBridgeDirectoryState.generations                  *)
  info,            (* .windows: [gen, rev, presented, closed]                *)
  appClosed,       (* .app_closed                                            *)
  snap,            (* the WindowSemanticState of each registration           *)
  shown,           (* what the UI thread still does for each registration    *)
  uiNote,          (* the condition variable the UI thread has to notify     *)
  closer,          (* close_all: "idle", "notify", "done"                    *)
  wait, asked, on  (* each wait, its generation, its condition variable      *)

waiting == <<wait, asked, on>>
bridgeVars == <<gen, info, appClosed, snap, shown, uiNote, closer, waiting>>

BridgeInit ==
  /\ gen = 0 /\ info = None /\ appClosed = FALSE
  /\ snap = [g \in Gens |-> [rev |-> 0, presented |-> 0, closed |-> FALSE]]
  /\ shown = [g \in Gens |-> "none"] /\ uiNote = None /\ closer = "idle"
  /\ wait = [k \in Waits |-> "idle"]
  /\ asked = [k \in Waits |-> 0] /\ on = [k \in Waits |-> None]

-----------------------------------------------------------------------------
(* The UI thread; it notifies after unlocking, before it does anything      *)
(* else.                                                                    *)
UiFree == uiNote = None

NeverPresented == 0

Register ==
  /\ UiFree /\ gen < MaxGen
  /\ IF appClosed THEN UNCHANGED <<gen, info, shown, uiNote>>
     ELSE /\ gen' = gen + 1
          /\ info' = [gen |-> gen + 1, rev |-> 0, presented |-> NeverPresented,
                       closed |-> FALSE]
          /\ shown' = [shown EXCEPT ![gen + 1] = "bound"]
          /\ uiNote' = IF gen = 0 THEN None ELSE gen
  /\ UNCHANGED <<appClosed, snap, closer, waiting>>

(* publish_semantics: a registration of the past publishes nothing; the     *)
(* wait is notified only if something it looks at changed.                  *)
CurrentAlways(g) == TRUE
Current(g) == info.gen = g

DiffersInRevision(s) == info.rev # s.rev
Differs(s) ==
  info.rev # s.rev \/ info.presented # s.presented \/ info.closed # s.closed

Publish(g, s) ==
  /\ snap' = [snap EXCEPT ![g] = s]
  /\ IF Current(g)
     THEN /\ info' = [info EXCEPT !.rev = s.rev, !.presented = s.presented,
                                  !.closed = s.closed]
          /\ uiNote' = IF Differs(s) THEN gen ELSE None
     ELSE UNCHANGED <<info, uiNote>>
  /\ UNCHANGED <<gen, appClosed, closer, waiting>>

(* bind_agent_window, then enable: the first revision.                      *)
Enable(g) ==
  /\ UiFree /\ shown[g] = "bound"
  /\ shown' = [shown EXCEPT ![g] = "running"]
  /\ Publish(g, [snap[g] EXCEPT !.rev = 1])

Refresh(g) ==
  /\ UiFree /\ shown[g] = "running" /\ snap[g].rev < MaxRevision
  /\ Publish(g, [snap[g] EXCEPT !.rev = @ + 1])
  /\ UNCHANGED shown

MarkPresented(g) ==
  /\ UiFree /\ shown[g] = "running" /\ snap[g].presented # snap[g].rev
  /\ Publish(g, [snap[g] EXCEPT !.presented = snap[g].rev])
  /\ UNCHANGED shown

(* The window closes: close_window first, the semantic state after it.      *)
ClosedEntry == [info EXCEPT !.closed = TRUE, !.rev = info.rev + 1]

CloseEntry ==
  /\ UiFree /\ gen # 0 /\ shown[gen] \in {"bound", "running"}
  /\ shown' = [shown EXCEPT ![gen] = IF @ = "running" THEN "closing" ELSE "closed"]
  /\ IF info.closed THEN UNCHANGED <<info, uiNote>>
     ELSE info' = ClosedEntry /\ uiNote' = gen
  /\ UNCHANGED <<gen, appClosed, snap, closer, waiting>>

CloseSemantics(g) ==
  /\ UiFree /\ shown[g] = "closing"
  /\ shown' = [shown EXCEPT ![g] = "closed"]
  /\ Publish(g, [snap[g] EXCEPT !.closed = TRUE, !.rev = snap[g].rev + 1])

(* notify_all of the condition variable of generation g.                    *)
NotifiedOne(g) ==
  LET sleepers == {k \in Waits : wait[k] = "asleep" /\ on[k] = g}
  IN [k \in Waits |-> IF k \in sleepers /\ k = CHOOSE j \in sleepers : TRUE
                      THEN "woken" ELSE wait[k]]
Notified(g) ==
  [k \in Waits |-> IF wait[k] = "asleep" /\ on[k] = g THEN "woken" ELSE wait[k]]

UiNotify ==
  /\ uiNote # None
  /\ wait' = Notified(uiNote)
  /\ uiNote' = None
  /\ UNCHANGED <<gen, info, appClosed, snap, shown, closer, asked, on>>

(* close_all, on the UI thread or on the one that gives up waiting for it   *)
(* (which leaves the UI thread to publish over what it closed).             *)
CloseAll ==
  /\ closer = "idle"
  /\ appClosed' = TRUE
  /\ info' = IF info = None \/ info.closed THEN info ELSE ClosedEntry
  /\ closer' = "notify"
  /\ UNCHANGED <<gen, snap, shown, uiNote, waiting>>

(* Only the condition variable of the current registration is left.         *)
CloseNotify ==
  /\ closer = "notify"
  /\ wait' = Notified(gen)
  /\ closer' = "done"
  /\ UNCHANGED <<gen, info, appClosed, snap, shown, uiNote, asked, on>>

-----------------------------------------------------------------------------
(* A connection in wait.                                                    *)
Fulfilled(k) ==
  LET c == Condition[k] IN
  \/ c.kind = "RevisionAfter" /\ info.rev > c.at
  \/ c.kind = "PresentedAtLeast" /\ info.presented >= c.at

(* What one pass of the loop decides, the clock aside.                      *)
Verdict(k, g) ==
  IF info.gen # g THEN "stale"
  ELSE IF info.closed THEN "closed"
  ELSE IF Fulfilled(k) THEN "fulfilled"
  ELSE IF appClosed THEN "appClosed" ELSE "asleep"

WaitBegin(k) ==
  /\ wait[k] = "idle"
  /\ \E g \in 1 .. (IF gen = 0 THEN 1 ELSE gen) :
       /\ asked' = [asked EXCEPT ![k] = g]
       /\ wait' = [wait EXCEPT ![k] = IF appClosed THEN "appClosed"
                                      ELSE IF info = None THEN "notFound"
                                      ELSE Verdict(k, g)]
  /\ on' = [on EXCEPT ![k] = gen]
  /\ UNCHANGED <<gen, info, appClosed, snap, shown, uiNote, closer>>

WaitResumes(k) ==
  /\ wait[k] = "woken"
  /\ wait' = [wait EXCEPT ![k] = Verdict(k, asked[k])]
  /\ UNCHANGED <<gen, info, appClosed, snap, shown, uiNote, closer, asked, on>>

WaitTimesOut(k) ==
  /\ wait[k] \in {"asleep", "woken"}
  /\ wait' = [wait EXCEPT ![k] = IF Verdict(k, asked[k]) = "asleep" THEN "timeout"
                                 ELSE Verdict(k, asked[k])]
  /\ UNCHANGED <<gen, info, appClosed, snap, shown, uiNote, closer, asked, on>>

BridgeNext ==
  \/ Register \/ CloseEntry \/ UiNotify \/ CloseAll \/ CloseNotify
  \/ \E g \in Gens : Enable(g) \/ Refresh(g) \/ MarkPresented(g) \/ CloseSemantics(g)
  \/ \E k \in Waits : WaitBegin(k) \/ WaitResumes(k) \/ WaitTimesOut(k)

BridgeSpec == BridgeInit /\ [][BridgeNext]_bridgeVars

(* A thread that holds a condition variable notifies it, and a woken        *)
(* connection gets the lock.  No wait is assumed to time out.               *)
BridgeFairSpec == /\ BridgeSpec /\ WF_bridgeVars(UiNotify) /\ WF_bridgeVars(CloseNotify)
            /\ \A k \in Waits : WF_bridgeVars(WaitResumes(k))
-----------------------------------------------------------------------------
(* Properties.                                                             *)

(* Types; nothing is presented that was never published.                    *)
WaitAnswers == {"stale", "closed", "fulfilled", "appClosed", "notFound", "timeout"}
BridgeTypeOK ==
  /\ gen \in 0 .. MaxGen /\ appClosed \in BOOLEAN
  /\ info \in {None} \cup [gen : Gens, rev : Nat, presented : Nat, closed : BOOLEAN]
  /\ info = None <=> gen = 0
  /\ info # None => info.gen = gen /\ info.presented <= info.rev
  /\ snap \in [Gens -> [rev : Nat, presented : Nat, closed : BOOLEAN]]
  /\ shown \in [Gens -> {"none", "bound", "running", "closing", "closed"}]
  /\ uiNote \in Gens \cup {None} /\ closer \in {"idle", "notify", "done"}
  /\ wait \in [Waits -> {"idle", "asleep", "woken"} \cup WaitAnswers]
  /\ asked \in [Waits -> 0 .. MaxGen] /\ on \in [Waits -> (0 .. MaxGen) \cup {None}]

(* No notification is lost: whoever sleeps although its answer is there     *)
(* sleeps on a condition variable some thread is about to notify, the one   *)
(* of a replaced registration included.                                     *)
NoLostNotify ==
  \A k \in Waits : wait[k] = "asleep" /\ Verdict(k, asked[k]) # "asleep" =>
    on[k] = uiNote \/ (closer = "notify" /\ on[k] = gen)

(* A client that has seen a revision of a registration never meets a lower  *)
(* one there while the application is open, and closed is the terminal      *)
(* answer of a generation, whatever older registrations still publish.      *)
RevisionsGrow ==
  [][~appClosed /\ info # None /\ info'.gen = info.gen =>
       /\ info'.rev >= info.rev /\ info'.presented >= info.presented
       /\ info.closed => info'.closed]_bridgeVars

(* Closing the application ends every wait, without any timeout.            *)
WaitsEnd == \A k \in Waits : appClosed ~> wait[k] \notin {"asleep", "woken"}
=============================================================================
