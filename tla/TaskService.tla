---------------------------- MODULE TaskService ----------------------------
(***************************************************************************)
(* What the task side of the dispatcher promises its clients: an accepted  *)
(* task is given to one worker, tasks are given out in the order in which  *)
(* they were accepted, a worker has one task at a time, and only the task  *)
(* it has can be completed. Signals, counters, lag, shutdown and aborts    *)
(* are left to TaskPool, which implements this specification.              *)
(***************************************************************************)
EXTENDS Naturals, Sequences

CONSTANTS Workers, Tasks, NoTask   \* NoTask is no task

VARIABLES
  waiting,   \* accepted tasks no worker has, oldest first
  running,   \* running[w]: the task worker w has, or NoTask
  finished   \* completed tasks

vars == <<waiting, running, finished>>

Known(t) ==
  \/ \E i \in 1..Len(waiting) : waiting[i] = t
  \/ \E w \in Workers : running[w] = t
  \/ t \in finished

Init ==
  /\ waiting = <<>>
  /\ running = [w \in Workers |-> NoTask]
  /\ finished = {}

Accept(t) ==
  /\ ~Known(t)
  /\ waiting' = Append(waiting, t)
  /\ UNCHANGED <<running, finished>>

Start(w) ==
  /\ running[w] = NoTask
  /\ waiting # <<>>
  /\ running' = [running EXCEPT ![w] = Head(waiting)]
  /\ waiting' = Tail(waiting)
  /\ UNCHANGED finished

Finish(w) ==
  /\ running[w] # NoTask
  /\ finished' = finished \cup {running[w]}
  /\ running' = [running EXCEPT ![w] = NoTask]
  /\ UNCHANGED waiting

Next ==
  \/ \E t \in Tasks : Accept(t)
  \/ \E w \in Workers : Start(w) \/ Finish(w)

Spec == Init /\ [][Next]_vars

=============================================================================
