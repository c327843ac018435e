--------------------------- MODULE PendingFailures ---------------------------
(***************************************************************************)
(* The pending failure queue of a runtime.  Callbacks on any thread put    *)
(* typed failures into one bounded queue, and the owner of each source     *)
(* takes its own out again, or closes the source.                          *)
(*                                                                         *)
(* The closed flag and the drop counter are atomics outside the lock, so   *)
(* the sections below end wherever the lock is taken or given back.        *)
(*                                                                         *)
(* An operator right above another one and named after it is a wrong       *)
(* variant of it, kept to show which property would notice.                *)
(***************************************************************************)
EXTENDS Naturals, Sequences, SequencesExt, Selection

CONSTANTS
  Sources,    (* the owners that share the queue                            *)
  Failures,   (* the calls of enqueue                                       *)
  Of,         (* the source each is for                                     *)
  Capacity,   (* PENDING_FAILURE_CAPACITY                                   *)
  Nobody

ASSUME SourceAssumption == Of \in [Failures -> Sources] /\ Nobody \notin Failures
ASSUME CapacityAssumption == Capacity \in Nat \ {0}

VARIABLES
  queue,      (* PendingFailureQueueInner.pending                           *)
  dropped,    (* PendingFailureSourceInner.dropped                          *)
  closed,     (* .closed                                                    *)
  holder,     (* the enqueue that holds the lock across its two reads       *)
  call,       (* where each enqueue stands or how it ended                  *)
  owner,      (* where the owner of each source stands in take or close     *)
  accepted, given, lost, told   (* history, per source: failures queued and *)
                                (* taken, in order; dropped, signalled      *)

history == <<accepted, given, lost, told>>
failureVars == <<queue, dropped, closed, holder, call, owner, history>>

FailuresInit ==
  /\ queue = <<>> /\ holder = Nobody
  /\ dropped = [s \in Sources |-> 0] /\ closed = [s \in Sources |-> FALSE]
  /\ call = [f \in Failures |-> "idle"] /\ owner = [s \in Sources |-> "idle"]
  /\ accepted = [s \in Sources |-> <<>>] /\ given = [s \in Sources |-> <<>>]
  /\ lost = [s \in Sources |-> 0] /\ told = [s \in Sources |-> 0]

(* What the queue holds for a source.                                       *)
Queued(s) == Only(queue, {f \in Failures : Of[f] = s})

-----------------------------------------------------------------------------
(* A callback in enqueue.                                                   *)

EnqueueCheck(f) ==
  /\ call[f] = "idle"
  /\ call' = [call EXCEPT ![f] = IF closed[Of[f]] THEN "refused" ELSE "checked"]
  /\ UNCHANGED <<queue, dropped, closed, holder, owner, history>>

(* The flag is read again under the lock.                                   *)
RefusedOnce(s) == FALSE
Refused(s) == closed[s]

EnqueueLock(f) ==
  /\ call[f] = "checked" /\ holder = Nobody
  /\ IF Refused(Of[f])
     THEN call' = [call EXCEPT ![f] = "refused"] /\ UNCHANGED holder
     ELSE call' = [call EXCEPT ![f] = "locked"] /\ holder' = f
  /\ UNCHANGED <<queue, dropped, closed, owner, history>>

Full == Len(queue) >= Capacity

EnqueuePut(f) ==
  /\ holder = f /\ holder' = Nobody
  /\ LET s == Of[f] IN
     IF Full
     THEN /\ dropped' = [dropped EXCEPT ![s] = @ + 1]
          /\ lost' = [lost EXCEPT ![s] = @ + 1]
          /\ call' = [call EXCEPT ![f] = "overflowed"]
          /\ UNCHANGED <<queue, accepted>>
     ELSE /\ queue' = Append(queue, f)
          /\ accepted' = [accepted EXCEPT ![s] = Append(@, f)]
          /\ call' = [call EXCEPT ![f] = "queued"]
          /\ UNCHANGED <<dropped, lost>>
  /\ UNCHANGED <<closed, owner, given, told>>

-----------------------------------------------------------------------------
(* The owner in take.                                                       *)

TakeCheck(s) ==
  /\ owner[s] = "idle" /\ ~closed[s]
  /\ owner' = [owner EXCEPT ![s] = "take"]
  /\ UNCHANGED <<queue, dropped, closed, holder, call, history>>

(* Where the failures of a source stand; it is given the first of them.     *)
Places(s) == {i \in DOMAIN queue : Of[queue[i]] = s}
Place(s) == Min(Places(s))

TakeLocked(s) ==
  /\ owner[s] = "take" /\ holder = Nobody
  /\ IF Places(s) = {}
     THEN owner' = [owner EXCEPT ![s] = "empty"] /\ UNCHANGED <<queue, given>>
     ELSE /\ given' = [given EXCEPT ![s] = Append(@, queue[Place(s)])]
          /\ queue' = RemoveAt(queue, Place(s))
          /\ owner' = [owner EXCEPT ![s] = "idle"]
  /\ UNCHANGED <<dropped, closed, holder, call, accepted, lost, told>>

(* No failure was found and the lock is given back: what was dropped.       *)
LeftOverKept(s) == dropped[s]
LeftOver(s) == 0

TakeDropped(s) ==
  /\ owner[s] = "empty"
  /\ told' = [told EXCEPT ![s] = @ + dropped[s]]
  /\ dropped' = [dropped EXCEPT ![s] = LeftOver(s)]
  /\ owner' = [owner EXCEPT ![s] = "idle"]
  /\ UNCHANGED <<queue, closed, holder, call, accepted, given, lost>>

-----------------------------------------------------------------------------
(* close, and the drop of the last clone of the source.                     *)

CloseFlag(s) ==
  /\ owner[s] = "idle" /\ ~closed[s]
  /\ closed' = [closed EXCEPT ![s] = TRUE]
  /\ owner' = [owner EXCEPT ![s] = "flagged"]
  /\ UNCHANGED <<queue, dropped, holder, call, history>>

CloseCounter(s) ==
  /\ owner[s] = "flagged"
  /\ dropped' = [dropped EXCEPT ![s] = 0]
  /\ owner' = [owner EXCEPT ![s] = "zeroed"]
  /\ UNCHANGED <<queue, closed, holder, call, history>>

CloseRetain(s) ==
  /\ owner[s] = "zeroed" /\ holder = Nobody
  /\ queue' = Only(queue, {f \in Failures : Of[f] # s})
  /\ owner' = [owner EXCEPT ![s] = "closed"]
  /\ UNCHANGED <<dropped, closed, holder, call, history>>

FailuresNext ==
  \/ \E f \in Failures : EnqueueCheck(f) \/ EnqueueLock(f) \/ EnqueuePut(f)
  \/ \E s \in Sources : \/ TakeCheck(s) \/ TakeLocked(s) \/ TakeDropped(s)
                        \/ CloseFlag(s) \/ CloseCounter(s) \/ CloseRetain(s)

FailuresSpec == FailuresInit /\ [][FailuresNext]_failureVars
-----------------------------------------------------------------------------
(* Properties.                                                             *)

(* Types; the queue never grows beyond its capacity.                        *)
FailuresTypeOK ==
  /\ queue \in Seq(Failures) /\ Len(queue) <= Capacity
  /\ dropped \in [Sources -> Nat] /\ closed \in [Sources -> BOOLEAN]
  /\ holder \in Failures \cup {Nobody}
  /\ call \in [Failures ->
       {"idle", "checked", "locked", "queued", "overflowed", "refused"}]
  /\ owner \in [Sources -> {"idle", "take", "empty", "flagged", "zeroed", "closed"}]
  /\ accepted \in [Sources -> Seq(Failures)] /\ given \in [Sources -> Seq(Failures)]
  /\ lost \in [Sources -> Nat] /\ told \in [Sources -> Nat]

(* The failures of an open source reach its owner, all of them, in their    *)
(* order and no one else's, although the sources share the queue; and what  *)
(* was dropped of it is either still counted or has been signalled.         *)
OwnFailuresAccounted ==
  \A s \in Sources : ~closed[s] => /\ given[s] \o Queued(s) = accepted[s]
                                   /\ told[s] + dropped[s] = lost[s]

(* A late callback leaves nothing behind in the queue of a closed source,   *)
(* where it would take the place of another owner's failures.               *)
ClosedLeavesNothing == \A s \in Sources : owner[s] = "closed" => Queued(s) = <<>>
=============================================================================
