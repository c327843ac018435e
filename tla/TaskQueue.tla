------------------------------ MODULE TaskQueue ------------------------------
(***************************************************************************)
(* What a window promises to whoever posts work to its UI thread: tasks    *)
(* start one at a time and in the order they were posted, each at most     *)
(* once, and clearing forgets every task that has not started.             *)
(***************************************************************************)
EXTENDS Sequences

CONSTANTS Jobs, None

VARIABLES tasks,     (* posted and not started, oldest first *)
          running,   (* the task the UI thread is in         *)
          served     (* the tasks that have ended, in order  *)

tvars == <<tasks, running, served>>

Init == tasks = <<>> /\ running = None /\ served = <<>>

Post(j) == tasks' = Append(tasks, j) /\ UNCHANGED <<running, served>>

Start == /\ running = None /\ tasks # <<>>
         /\ running' = Head(tasks) /\ tasks' = Tail(tasks)
         /\ UNCHANGED served

(* A task that panics has ended too.                                        *)
End == /\ running # None
       /\ served' = Append(served, running) /\ running' = None
       /\ UNCHANGED tasks

Clear == tasks' = <<>> /\ UNCHANGED <<running, served>>

Next == (\E j \in Jobs : Post(j)) \/ Start \/ End \/ Clear

Spec == Init /\ [][Next]_tvars
=============================================================================
