-------------------------------- MODULE FramePacer --------------------------------
(***********************************************************************************)
(* The frame pacer of a window on Windows                                           *)
(* (src/native/backends/windows/frame_pacer.rs): the window's thread arms a request, *)
(* submits it once its frame is presented and may cancel it; a worker waits for the  *)
(* compositor and posts a message to the window.  The state they share is behind a   *)
(* lock that is held for one step at a time.                                        *)
(*                                                                                 *)
(* A ticket is the id of its request: its epoch is new with every request, and no    *)
(* request is made twice.  0 stands for no ticket.                                  *)
(***********************************************************************************)
EXTENDS Integers, Sequences

CONSTANTS Ids   \* of requests; one is free whenever one is needed

ASSUME IdsAssumption == Ids \subseteq Nat \ {0}

VARIABLES
  pending,    \* the ticket of the state, submitted or not
  submitted,  \* whether submitted_epoch is its epoch
  chan,       \* the ticket in the worker's channel, which holds one
  worker,     \* where the worker is, with its ticket
  posted      \* messages in the window's queue

pacerVars == <<pending, submitted, chan, worker, posted>>

Tickets == Ids \cup {0}

PacerTypeOK ==
  /\ pending \in Tickets
  /\ submitted \in BOOLEAN
  /\ chan \in Tickets
  /\ worker \in [pc : {"none", "waiting", "flush", "post", "discard"}, ticket : Tickets]
  /\ posted \in Seq(Ids)

PacerInit ==
  /\ pending = 0 /\ submitted = FALSE
  /\ chan = 0
  /\ worker = [pc |-> "none", ticket |-> 0]
  /\ posted = <<>>

-----------------------------------------------------------------------------------
(* The owner's side.  Each is one step of the lock; what it does to the rest of the  *)
(* window is in the actions that make it.                                           *)

ArmTicket(id) == pending' = id /\ submitted' = FALSE

\* cancel of one of these tickets, any of which may be 0.
CancelTickets(ids) ==
  IF pending \in ids THEN pending' = 0 /\ submitted' = FALSE ELSE UNCHANGED <<pending, submitted>>

\* presented(id): the worker is started, then the ticket is marked as submitted.  Starting may fail.
MaySubmit(id) == pending = id /\ id # 0 /\ ~submitted
MarkSubmitted ==
  /\ submitted' = TRUE
  /\ worker' = IF worker.pc = "none" THEN [worker EXCEPT !.pc = "waiting"] ELSE worker
  /\ UNCHANGED <<pending, chan, posted>>

\* try_send of the submitted ticket, which is discarded when the channel is full.  A full channel
\* that leaves the ticket submitted.
SendOrForget ==
  /\ chan' = IF chan = 0 THEN pending ELSE chan
  /\ UNCHANGED <<pending, submitted, worker, posted>>

SendOrDiscard ==
  \/ chan = 0 /\ chan' = pending /\ UNCHANGED <<pending, submitted, worker, posted>>
  \/ chan # 0 /\ pending' = 0 /\ submitted' = FALSE /\ UNCHANGED <<chan, worker, posted>>

\* complete_posted_frame of the messages in the window's queue, in their order: at most one is the
\* submitted ticket.  A message that completes whatever is pending.
CompletedAny == IF posted # <<>> THEN pending ELSE 0
Completed == IF submitted /\ \E i \in 1..Len(posted) : posted[i] = pending THEN pending ELSE 0

-----------------------------------------------------------------------------------
(* The worker *)

MatchesSubmitted(ticket) == pending = ticket /\ submitted

WorkerReceive ==
  /\ worker.pc = "waiting" /\ chan # 0
  /\ chan' = 0
  /\ worker' = IF MatchesSubmitted(chan) THEN [pc |-> "flush", ticket |-> chan] ELSE worker
  /\ UNCHANGED <<pending, submitted, posted>>

\* DwmFlush returns and the ticket is looked at again; a failure of a stale one is not reported.
WorkerFlushed ==
  /\ worker.pc = "flush"
  /\ \/ MatchesSubmitted(worker.ticket) /\ worker' = [worker EXCEPT !.pc = "post"]
     \/ MatchesSubmitted(worker.ticket) /\ worker' = [worker EXCEPT !.pc = "discard"]
     \/ ~MatchesSubmitted(worker.ticket) /\ worker' = [pc |-> "waiting", ticket |-> 0]
  /\ UNCHANGED <<pending, submitted, chan, posted>>

WorkerPost ==
  /\ worker.pc = "post"
  /\ \/ posted' = Append(posted, worker.ticket) /\ worker' = [pc |-> "waiting", ticket |-> 0]
     \/ posted' = posted /\ worker' = [worker EXCEPT !.pc = "discard"]
  /\ UNCHANGED <<pending, submitted, chan>>

WorkerDiscard ==
  /\ worker.pc = "discard"
  /\ CancelTickets({worker.ticket})
  /\ worker' = [pc |-> "waiting", ticket |-> 0]
  /\ UNCHANGED <<chan, posted>>

PacerWorker == WorkerReceive \/ WorkerFlushed \/ WorkerPost \/ WorkerDiscard
===================================================================================
