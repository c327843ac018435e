--------------------------- MODULE MainThreadQueue ---------------------------
(***************************************************************************)
(* The per-window queue of jobs posted to the UI thread.  The UI thread    *)
(* drains it in waves: it takes a wave under the lock, then runs it        *)
(* unlocked, while any thread, or the running job, posts or clears.  A job *)
(* may panic, and the batch guard then puts the rest of the wave back.     *)
(*                                                                         *)
(* An operator right above another one and named after it is a wrong       *)
(* variant of it, kept to show which property would notice.                *)
(***************************************************************************)
EXTENDS Naturals, Sequences

CONSTANTS
  Jobs,          (* the jobs of a behaviour, each posted once              *)
  None,
  MaxPerDrain,   (* MAX_JOBS_PER_DRAIN                                     *)
  MaxClears      (* bound: clears explored                                 *)

ASSUME QueueAssumption == /\ None \notin Jobs
                          /\ MaxPerDrain \in Nat \ {0}
                          /\ MaxClears \in Nat

VARIABLES
  pending, clearEpoch,   (* MainThreadQueue                                 *)
  batch, batchEpoch,     (* MainThreadDrainBatch                            *)
  remaining,             (* jobs this drain may still run                   *)
  phase,                 (* where drain stands                              *)
  running,               (* the job the UI thread is in                     *)
  posted, served         (* history: jobs posted, jobs that ended, in order *)

shared == <<pending, clearEpoch>>
drain  == <<batch, batchEpoch, remaining, phase, running>>
vars   == <<pending, clearEpoch, batch, batchEpoch, remaining, phase, running, posted, served>>

Init ==
  /\ pending = <<>> /\ clearEpoch = 0
  /\ batch = <<>> /\ batchEpoch = 0 /\ remaining = 0
  /\ phase = "idle" /\ running = None
  /\ posted = {} /\ served = <<>>

-----------------------------------------------------------------------------
(* Any thread, the UI thread inside a job included.                         *)

Enqueue(j) ==
  /\ j \notin posted
  /\ pending' = Append(pending, j) /\ posted' = posted \cup {j}
  /\ UNCHANGED <<clearEpoch, drain, served>>

Clear ==
  /\ clearEpoch < MaxClears
  /\ pending' = <<>> /\ clearEpoch' = clearEpoch + 1
  /\ UNCHANGED <<drain, posted, served>>

-----------------------------------------------------------------------------
(* The UI thread in drain.                                                  *)

BudgetLeftOver == remaining
Budget == MaxPerDrain

DrainBegin ==
  /\ phase = "idle"
  /\ phase' = "wave" /\ remaining' = Budget /\ batchEpoch' = clearEpoch
  /\ UNCHANGED <<shared, batch, running, posted, served>>

(* One lock per wave: the whole queue or what the budget leaves.            *)
WaveSizeUncapped == Len(pending)
WaveSize == IF Len(pending) < remaining THEN Len(pending) ELSE remaining

TakeWave ==
  /\ phase = "wave" /\ remaining > 0 /\ pending # <<>>
  /\ batch' = SubSeq(pending, 1, WaveSize)
  /\ pending' = SubSeq(pending, WaveSize + 1, Len(pending))
  /\ batchEpoch' = clearEpoch
  /\ phase' = "batch"
  /\ UNCHANGED <<clearEpoch, remaining, running, posted, served>>

(* A clear since the wave was taken: the wave is dropped, the drain goes on.*)
DropWave ==
  /\ phase = "batch" /\ batch # <<>> /\ clearEpoch # batchEpoch
  /\ batch' = <<>>
  /\ phase' = "wave"
  /\ UNCHANGED <<shared, batchEpoch, remaining, running, posted, served>>

(* The epoch check; from here the job runs even if a clear comes between.   *)
StartJob ==
  /\ phase = "batch" /\ batch # <<>> /\ clearEpoch = batchEpoch
  /\ running' = Head(batch) /\ batch' = Tail(batch)
  /\ remaining' = remaining - 1
  /\ phase' = "job"
  /\ UNCHANGED <<shared, batchEpoch, posted, served>>

EndJob ==
  /\ phase = "job"
  /\ served' = Append(served, running) /\ running' = None
  /\ phase' = "batch"
  /\ UNCHANGED <<shared, batch, batchEpoch, remaining, posted>>

NextWave ==
  /\ phase = "batch" /\ batch = <<>>
  /\ phase' = "wave"
  /\ UNCHANGED <<shared, batch, batchEpoch, remaining, running, posted, served>>

DrainEnd ==
  /\ phase = "wave" /\ (remaining = 0 \/ pending = <<>>)
  /\ phase' = "idle" /\ remaining' = 0
  /\ UNCHANGED <<shared, batch, batchEpoch, running, posted, served>>

(* MainThreadDrainBatch::drop while a job unwinds: the rest of the wave     *)
(* goes back in front, unless it was cleared meanwhile.                     *)
RestoredBehind == IF clearEpoch # batchEpoch THEN pending ELSE pending \o batch
Restored == IF clearEpoch # batchEpoch THEN pending ELSE batch \o pending

PanicJob ==
  /\ phase = "job"
  /\ served' = Append(served, running) /\ running' = None
  /\ pending' = Restored
  /\ batch' = <<>>
  /\ phase' = "idle" /\ remaining' = 0
  /\ UNCHANGED <<clearEpoch, batchEpoch, posted>>

DrainStep == \/ DrainBegin \/ TakeWave \/ DropWave \/ StartJob \/ EndJob
             \/ NextWave \/ DrainEnd \/ PanicJob

Next == (\E j \in Jobs : Enqueue(j)) \/ Clear \/ DrainStep

Spec == Init /\ [][Next]_vars

(* The event loop gives every live window its turn, and a job returns.      *)
FairSpec == Spec /\ WF_vars(DrainStep)
-----------------------------------------------------------------------------
(* Properties.                                                              *)

(* Types.  The wave in hand never exceeds what the drain may still run, so  *)
(* `remaining -= 1` cannot underflow and a drain ends after MaxPerDrain     *)
(* jobs however many the jobs themselves post.                              *)
TypeOK ==
  /\ pending \in Seq(Jobs) /\ clearEpoch \in 0 .. MaxClears
  /\ batch \in Seq(Jobs) /\ batchEpoch \in 0 .. clearEpoch
  /\ remaining \in 0 .. MaxPerDrain
  /\ phase \in {"idle", "wave", "batch", "job"}
  /\ running \in Jobs \cup {None}
  /\ posted \subseteq Jobs /\ served \in Seq(Jobs)
  /\ Len(batch) <= remaining

(* The tasks of the promise: a wave in hand counts until it was cleared.    *)
Tasks == IF batchEpoch = clearEpoch THEN batch \o pending ELSE pending

TQ == INSTANCE TaskQueue WITH tasks <- Tasks

(* Waves, the budget, clears from other threads and the restore after a     *)
(* panic keep the promise: post order, nothing lost, nothing twice, and a   *)
(* cleared job does not come back.                                          *)
KeepsPromise == TQ!Spec

(* Every posted job ends or is cleared, also one that the budget or a panic *)
(* left behind.                                                             *)
Waiting(j) == \E i \in DOMAIN Tasks : Tasks[i] = j
EveryJobServed == \A j \in Jobs : Waiting(j) ~> ~Waiting(j)
=============================================================================
