------------------------------ MODULE TaskPool ------------------------------
(***************************************************************************)
(* The task side of the game server: the dispatcher's request handlers,    *)
(* the shared queue, the worker tasks that are woken through a broadcast   *)
(* topic, and the dispatcher's graceful shutdown                           *)
(* (src/src/actor/dispatcher.rs, src/src/actor/worker.rs and the topic of  *)
(* src/src/actor/broker.rs).                                               *)
(*                                                                         *)
(* A step of the model ends where the code gives another tokio task the    *)
(* chance to interleave on shared state: at an await, at the end of a      *)
(* critical section on the queue's mutex, at an access to the atomic       *)
(* counter.                                                                *)
(***************************************************************************)
EXTENDS Integers, Sequences, FiniteSets

CONSTANTS
  Workers,     \* the spawn_worker tasks of the dispatcher's JoinSet
  Tasks,       \* the task requests the websocket sessions may send
  NoTask,      \* "this worker holds no task"
  Capacity,    \* messages a broadcast receiver may have unread before it lags
  Stalled,     \* tasks whose session no longer drains its response channel
  InventoryFirst  \* the broker's HashMap yields the inventory topic before this one

ASSUME TaskPoolAssumption ==
  /\ IsFiniteSet(Workers)
  /\ NoTask \notin Tasks
  /\ Capacity \in Nat \ {0}
  /\ Stalled \subseteq Tasks
  /\ InventoryFirst \in BOOLEAN

VARIABLES
  request,         \* request[t]: how far the request for task t has come
  queue,           \* the VecDeque of accepted tasks
  activeTasks,     \* the AtomicUsize
  inbox,           \* inbox[w]: what worker w's receiver has not read yet
  lagged,          \* lagged[w]: the ring has overwritten a message w had not read
  pc,              \* pc[w]: where worker w is
  graceful,        \* graceful[w]: w's local graceful_stop
  holding,         \* holding[w]: the task w has popped and not answered yet
  done,            \* tasks whose completion was handed to respond_to
  phase,           \* where the dispatcher's own task is
  seenActive,      \* wait_for_tasks_completion's local active (0 when not in use)
  expired,         \* MAX_WAIT_TIME has passed since the wait started
  drained          \* history: the tasks accepted when the wait saw nothing left

workerVars == <<pc, graceful, holding>>
topicVars == <<inbox, lagged>>
waitVars == <<seenActive, expired, drained>>
vars == <<request, queue, activeTasks, inbox, lagged, pc, graceful, holding, done,
          phase, seenActive, expired, drained>>

-----------------------------------------------------------------------------
\* Messages on the task topic: only these three are published to it.
TaskAdded == "TaskAdded"
GracefulStop == "GracefulStop"
Stop == "Stop"
Messages == {TaskAdded, GracefulStop, Stop}

\* new: not sent; sent: in the dispatcher's mailbox; spawned: its handler task
\* exists; accepted: queued and answered Ok; refused: answered with an error.
RequestStates == {"new", "sent", "spawned", "accepted", "refused"}

\* idle: awaiting recv; popping: read a TaskAdded, about to lock the queue;
\* popped: owns a task, not counted yet; working: counted, asleep; responding:
\* no longer counted, awaiting respond_to.send; exited: the loop was left;
\* aborted: cancelled at an await by abort_all.
Ended == {"exited", "aborted"}
WorkerStates == {"idle", "popping", "popped", "working", "responding"} \cup Ended

\* serving: the select loop; polling, counting, waking: the three places of
\* wait_for_tasks_completion; stopping: wait over; joining: stop_worker_handles.
Waiting == {"polling", "counting", "waking"}
Phases == {"serving", "stopping", "joining", "stopped"} \cup Waiting

Live(w) == pc[w] \notin Ended

Accepted == {t \in Tasks : request[t] = "accepted"}

TypeOK ==
  /\ request \in [Tasks -> RequestStates]
  /\ queue \in Seq(Tasks)
  /\ activeTasks \in Nat
  /\ inbox \in [Workers -> Seq(Messages)]
  /\ \A w \in Workers : Len(inbox[w]) <= Capacity
  /\ lagged \in [Workers -> BOOLEAN]
  /\ pc \in [Workers -> WorkerStates]
  /\ graceful \in [Workers -> BOOLEAN]
  /\ holding \in [Workers -> Tasks \cup {NoTask}]
  /\ done \subseteq Tasks
  /\ phase \in Phases
  /\ seenActive \in Nat
  /\ expired \in BOOLEAN
  /\ drained \subseteq Tasks

\* start_with_shutdown has subscribed every worker before it reads a message.
Init ==
  /\ request = [t \in Tasks |-> "new"]
  /\ queue = <<>>
  /\ activeTasks = 0
  /\ inbox = [w \in Workers |-> <<>>]
  /\ lagged = [w \in Workers |-> FALSE]
  /\ pc = [w \in Workers |-> "idle"]
  /\ graceful = [w \in Workers |-> FALSE]
  /\ holding = [w \in Workers |-> NoTask]
  /\ done = {}
  /\ phase = "serving"
  /\ seenActive = 0
  /\ expired = FALSE
  /\ drained = {}

-----------------------------------------------------------------------------
(***************************************************************************)
(* The tokio broadcast channel, seen from its receivers. A message goes to *)
(* every live receiver; one that has Capacity messages unread loses the    *)
(* oldest and is told so by its next recv. Sending with no receiver is an  *)
(* error that every caller here discards.                                  *)
(***************************************************************************)
Full(w) == Len(inbox[w]) = Capacity

\* Mutation of Publish: a channel that never drops what a slow receiver has not read.
PublishUnbounded(m) ==
  /\ inbox' = [w \in Workers |-> IF Live(w) THEN Append(inbox[w], m) ELSE inbox[w]]
  /\ UNCHANGED lagged

Publish(m) ==
  /\ inbox' = [w \in Workers |->
                 IF ~Live(w) THEN inbox[w]
                 ELSE IF Full(w) THEN Append(Tail(inbox[w]), m)
                 ELSE Append(inbox[w], m)]
  /\ lagged' = [w \in Workers |-> lagged[w] \/ (Live(w) /\ Full(w))]

\* Dispatcher::broadcast visits the topics in the HashMap's order and returns at
\* the first that has no receiver. The inventory topic exists once a session has
\* added an inventory and has no receiver before the first listener subscribed and
\* after the last one ended, so its state at a broadcast is any.
Broadcast(m) == Publish(m) \/ (InventoryFirst /\ UNCHANGED topicVars)

-----------------------------------------------------------------------------
(***************************************************************************)
(* Sessions and request handlers.                                          *)
(***************************************************************************)

\* A session sends a TaskRequest. Once the dispatcher is gone its receiver is
\* dropped, so the send fails and the session reports an error.
SendRequest(t) ==
  /\ request[t] = "new"
  /\ request' = [request EXCEPT ![t] = IF phase = "stopped" THEN "refused" ELSE "sent"]
  /\ UNCHANGED <<queue, activeTasks, topicVars, workerVars, done, phase, waitVars>>

\* The select loop receives the message and spawns its handler. Handlers run
\* concurrently, so the order of the mailbox is lost here.
SpawnHandler(t) ==
  /\ phase = "serving"
  /\ request[t] = "sent"
  /\ request' = [request EXCEPT ![t] = "spawned"]
  /\ UNCHANGED <<queue, activeTasks, topicVars, workerVars, done, phase, waitVars>>

\* Mutation of HandleTaskRequest: signal only when the queue was empty.
HandleTaskRequestSignalsOnce(t) ==
  /\ request[t] = "spawned"
  /\ request' = [request EXCEPT ![t] = "accepted"]
  /\ queue' = Append(queue, t)
  /\ IF queue = <<>> THEN Publish(TaskAdded) ELSE UNCHANGED topicVars
  /\ UNCHANGED <<activeTasks, workerVars, done, phase, waitVars>>

\* handle_task_request pushes, signals and answers Ok under the queue's lock. The
\* handler is a detached task: it runs whatever the dispatcher does meanwhile.
HandleTaskRequest(t) ==
  /\ request[t] = "spawned"
  /\ request' = [request EXCEPT ![t] = "accepted"]
  /\ queue' = Append(queue, t)
  /\ Publish(TaskAdded)
  /\ UNCHANGED <<activeTasks, workerVars, done, phase, waitVars>>

-----------------------------------------------------------------------------
(***************************************************************************)
(* Workers.                                                                *)
(***************************************************************************)

\* recv is about to return message m to w.
Delivers(w, m) ==
  /\ pc[w] = "idle"
  /\ ~lagged[w]
  /\ inbox[w] # <<>>
  /\ Head(inbox[w]) = m

\* Leaving the loop drops the receiver.
Exit(w) ==
  /\ pc' = [pc EXCEPT ![w] = "exited"]
  /\ inbox' = [inbox EXCEPT ![w] = <<>>]
  /\ UNCHANGED <<request, queue, activeTasks, lagged, graceful, holding, done,
                 phase, waitVars>>

\* Mutation of TakeSignal: one read takes all the signals waiting, like a Notify.
TakeSignalCoalesced(w) ==
  /\ Delivers(w, TaskAdded)
  /\ inbox' = [inbox EXCEPT ![w] = SelectSeq(@, LAMBDA m : m # TaskAdded)]
  /\ pc' = IF graceful[w] THEN pc ELSE [pc EXCEPT ![w] = "popping"]
  /\ UNCHANGED <<request, queue, activeTasks, lagged, graceful, holding, done,
                 phase, waitVars>>

\* TaskAdded calls process_next, unless a graceful stop was announced.
TakeSignal(w) ==
  /\ Delivers(w, TaskAdded)
  /\ inbox' = [inbox EXCEPT ![w] = Tail(@)]
  /\ pc' = IF graceful[w] THEN pc ELSE [pc EXCEPT ![w] = "popping"]
  /\ UNCHANGED <<request, queue, activeTasks, lagged, graceful, holding, done,
                 phase, waitVars>>

TakeGracefulStop(w) ==
  /\ Delivers(w, GracefulStop)
  /\ inbox' = [inbox EXCEPT ![w] = Tail(@)]
  /\ graceful' = [graceful EXCEPT ![w] = TRUE]
  /\ UNCHANGED <<request, queue, activeTasks, lagged, pc, holding, done,
                 phase, waitVars>>

TakeStop(w) ==
  /\ Delivers(w, Stop)
  /\ Exit(w)

\* A receiver that fell behind gets RecvError::Lagged, and the worker leaves.
TakeLagged(w) ==
  /\ pc[w] = "idle"
  /\ lagged[w]
  /\ Exit(w)

\* Mutation of TakeTimeout: leave on any idle second, told to stop or not.
TakeTimeoutHasty(w) ==
  /\ pc[w] = "idle"
  /\ ~lagged[w]
  /\ inbox[w] = <<>>
  /\ queue = <<>>
  /\ Exit(w)

\* No message for a second: a worker told to stop gracefully leaves if nothing is
\* pending. Any other timeout just loops. (A message that lands between the timeout
\* and the look at the queue changes nothing: TaskAdded is ignored, Stop also exits.)
TakeTimeout(w) ==
  /\ pc[w] = "idle"
  /\ ~lagged[w]
  /\ inbox[w] = <<>>
  /\ graceful[w]
  /\ queue = <<>>
  /\ Exit(w)

\* Mutation of Pop: pop_back.
PopNewest(w) ==
  /\ pc[w] = "popping"
  /\ \/ /\ queue = <<>>
        /\ pc' = [pc EXCEPT ![w] = "idle"]
        /\ UNCHANGED <<queue, holding>>
     \/ /\ queue # <<>>
        /\ queue' = SubSeq(queue, 1, Len(queue) - 1)
        /\ holding' = [holding EXCEPT ![w] = queue[Len(queue)]]
        /\ pc' = [pc EXCEPT ![w] = "popped"]
  /\ UNCHANGED <<request, activeTasks, topicVars, graceful, done, phase, waitVars>>

\* Mutation of Pop: the task is copied (front().cloned()) and left in the queue.
PopPeeks(w) ==
  /\ pc[w] = "popping"
  /\ queue # <<>>
  /\ holding' = [holding EXCEPT ![w] = Head(queue)]
  /\ pc' = [pc EXCEPT ![w] = "popped"]
  /\ UNCHANGED <<request, queue, activeTasks, topicVars, graceful, done, phase, waitVars>>

\* process_next: pop_front under the lock, or QueueEmptyError.
Pop(w) ==
  /\ pc[w] = "popping"
  /\ \/ /\ queue = <<>>
        /\ pc' = [pc EXCEPT ![w] = "idle"]
        /\ UNCHANGED <<queue, holding>>
     \/ /\ queue # <<>>
        /\ queue' = Tail(queue)
        /\ holding' = [holding EXCEPT ![w] = Head(queue)]
        /\ pc' = [pc EXCEPT ![w] = "popped"]
  /\ UNCHANGED <<request, activeTasks, topicVars, graceful, done, phase, waitVars>>

\* fetch_add, after the queue's lock was released.
StartTask(w) ==
  /\ pc[w] = "popped"
  /\ activeTasks' = activeTasks + 1
  /\ pc' = [pc EXCEPT ![w] = "working"]
  /\ UNCHANGED <<request, queue, topicVars, graceful, holding, done, phase, waitVars>>

\* Mutation of FinishTask: the decrement is forgotten.
FinishTaskUncounted(w) ==
  /\ pc[w] = "working"
  /\ pc' = [pc EXCEPT ![w] = "responding"]
  /\ UNCHANGED <<request, queue, activeTasks, topicVars, graceful, holding, done, phase,
                 waitVars>>

\* The sleep is over: fetch_sub, before the response is sent.
FinishTask(w) ==
  /\ pc[w] = "working"
  /\ activeTasks' = activeTasks - 1
  /\ pc' = [pc EXCEPT ![w] = "responding"]
  /\ UNCHANGED <<request, queue, topicVars, graceful, holding, done, phase, waitVars>>

\* respond_to.send(..).await returns: at once when the channel has room or its
\* receiver is gone (the error is logged), never while a full channel is not drained.
Respond(w) ==
  /\ pc[w] = "responding"
  /\ holding[w] \notin Stalled
  /\ done' = done \cup {holding[w]}
  /\ holding' = [holding EXCEPT ![w] = NoTask]
  /\ pc' = [pc EXCEPT ![w] = "idle"]
  /\ UNCHANGED <<request, queue, activeTasks, topicVars, graceful, phase, waitVars>>

-----------------------------------------------------------------------------
(***************************************************************************)
(* The dispatcher's shutdown.                                              *)
(***************************************************************************)

\* The shutdown signal arrived or every sender of the mailbox is gone.
BeginStop ==
  /\ phase = "serving"
  /\ Broadcast(GracefulStop)
  /\ phase' = "polling"
  /\ UNCHANGED <<request, queue, activeTasks, workerVars, done, waitVars>>

\* wait_for_tasks_completion loads the counter first ...
PollActive ==
  /\ phase = "polling"
  /\ seenActive' = activeTasks
  /\ phase' = "counting"
  /\ UNCHANGED <<request, queue, activeTasks, topicVars, workerVars, done, expired,
                 drained>>

\* Mutation of PollPending: "nothing active or nothing pending" ends the wait.
PollPendingEither ==
  /\ phase = "counting"
  /\ \/ /\ seenActive = 0 \/ queue = <<>>
        /\ phase' = "stopping"
        /\ drained' = Accepted
     \/ /\ seenActive # 0 /\ queue # <<>>
        /\ phase' = IF expired THEN "stopping" ELSE "polling"
        /\ UNCHANGED drained
  /\ seenActive' = 0
  /\ UNCHANGED <<request, queue, activeTasks, topicVars, workerVars, done, expired>>

\* Mutation of PollPending: MAX_WAIT_TIME is not looked at.
PollPendingForever ==
  /\ phase = "counting"
  /\ \/ /\ seenActive = 0 /\ queue = <<>>
        /\ phase' = "stopping"
        /\ drained' = Accepted
     \/ /\ seenActive # 0 \/ queue # <<>>
        /\ phase' = IF seenActive = 0 THEN "waking" ELSE "polling"
        /\ UNCHANGED drained
  /\ seenActive' = 0
  /\ UNCHANGED <<request, queue, activeTasks, topicVars, workerVars, done, expired>>

\* ... then locks the queue for its length, and poll_tasks decides on the pair. The
\* local count is dead afterwards.
PollPending ==
  /\ phase = "counting"
  /\ \/ /\ seenActive = 0 /\ queue = <<>>
        /\ phase' = "stopping"
        /\ drained' = Accepted
     \/ /\ seenActive # 0 \/ queue # <<>>
        /\ phase' = IF expired THEN "stopping"
                    ELSE IF seenActive = 0 THEN "waking"
                    ELSE "polling"
        /\ UNCHANGED drained
  /\ seenActive' = 0
  /\ UNCHANGED <<request, queue, activeTasks, topicVars, workerVars, done, expired>>

\* Pending tasks and none active: send TaskAdded on the task topic, then sleep.
WakeWorkers ==
  /\ phase = "waking"
  /\ Publish(TaskAdded)
  /\ phase' = "polling"
  /\ UNCHANGED <<request, queue, activeTasks, workerVars, done, waitVars>>

\* start_time.elapsed() exceeds MAX_WAIT_TIME from now on.
DeadlinePasses ==
  /\ phase \in Waiting
  /\ ~expired
  /\ expired' = TRUE
  /\ UNCHANGED <<request, queue, activeTasks, topicVars, workerVars, done, phase,
                 seenActive, drained>>

BroadcastStop ==
  /\ phase = "stopping"
  /\ Broadcast(Stop)
  /\ phase' = "joining"
  /\ UNCHANGED <<request, queue, activeTasks, workerVars, done, waitVars>>

\* Mutation of StopReturns: the dispatcher keeps its mailbox when it ends.
StopReturnsKeepsMailbox ==
  /\ phase = "joining"
  /\ phase' = "stopped"
  /\ UNCHANGED <<request, queue, activeTasks, topicVars, workerVars, done, waitVars>>

\* stop returns, and with it the dispatcher's task ends: dropping the mailbox drops
\* the reply senders of the requests still in it. Either every worker was joined or
\* the five seconds are over and the rest are aborted (see Cancel).
StopReturns ==
  /\ phase = "joining"
  /\ phase' = "stopped"
  /\ request' = [t \in Tasks |-> IF request[t] = "sent" THEN "refused" ELSE request[t]]
  /\ UNCHANGED <<queue, activeTasks, topicVars, workerVars, done, waitVars>>

\* abort_all takes effect when the worker next reaches an await that is not ready.
\* The future is dropped there: a popped task and its count are not given back.
Cancel(w) ==
  /\ phase = "stopped"
  /\ pc[w] \in {"idle", "working", "responding"}
  /\ pc' = [pc EXCEPT ![w] = "aborted"]
  /\ inbox' = [inbox EXCEPT ![w] = <<>>]
  /\ UNCHANGED <<request, queue, activeTasks, lagged, graceful, holding, done, phase,
                 waitVars>>

-----------------------------------------------------------------------------
WorkerStep(w) ==
  \/ TakeSignal(w) \/ TakeGracefulStop(w) \/ TakeStop(w) \/ TakeLagged(w)
  \/ TakeTimeout(w) \/ Pop(w) \/ StartTask(w) \/ FinishTask(w) \/ Respond(w)

DispatcherStep ==
  PollActive \/ PollPending \/ WakeWorkers \/ BroadcastStop \/ StopReturns

\* The program is over: the dispatcher returned and no task or handler is left.
Terminated ==
  /\ phase = "stopped"
  /\ \A w \in Workers : ~Live(w)
  /\ \A t \in Tasks : request[t] \in {"accepted", "refused"}
  /\ UNCHANGED vars

Next ==
  \/ \E t \in Tasks : SendRequest(t) \/ SpawnHandler(t) \/ HandleTaskRequest(t)
  \/ \E w \in Workers : WorkerStep(w) \/ Cancel(w)
  \/ BeginStop \/ DispatcherStep \/ DeadlinePasses
  \/ Terminated

Spec == Init /\ [][Next]_vars

\* Tokio polls every task that is ready, so each worker, each handler and the
\* dispatcher keep going. Clients need not send, and nobody need press Ctrl+C.
Fairness ==
  /\ \A t \in Tasks : WF_vars(SpawnHandler(t)) /\ WF_vars(HandleTaskRequest(t))
  /\ \A w \in Workers : WF_vars(WorkerStep(w)) /\ WF_vars(Cancel(w))
  /\ WF_vars(DispatcherStep)

\* As if MAX_WAIT_TIME could be arbitrarily long: what the wait achieves by itself.
PatientSpec == Spec /\ Fairness

\* The clock advances, so the deadline passes if the wait lasts.
FairSpec == PatientSpec /\ WF_vars(DeadlinePasses)

-----------------------------------------------------------------------------
(***************************************************************************)
(* Safety.                                                                 *)
(***************************************************************************)

\* w still answers every TaskAdded it was sent: its receiver has not lagged and no
\* shutdown message has reached it.
Attentive(w) ==
  /\ Live(w)
  /\ ~lagged[w]
  /\ ~graceful[w]
  /\ \A i \in 1..Len(inbox[w]) : inbox[w][i] = TaskAdded

\* The pops w has yet to do: one per unread signal, and the one it is about to do.
Wakeups(w) == IF pc[w] = "popping" THEN Len(inbox[w]) + 1 ELSE Len(inbox[w])

\* No lost wake-up. One TaskAdded is sent per push and a worker pops at most one task
\* per TaskAdded it reads, so a sleeping pool with a backlog would never recover. It
\* cannot happen: every attentive worker alone has at least as many unread wake-ups
\* (plus the one it is acting on) as there are tasks in the queue.
NoLostWakeup ==
  \A w \in Workers : Attentive(w) => Len(queue) <= Wakeups(w)

InQueue(t) == \E i \in 1..Len(queue) : queue[i] = t
Held(t) == \E w \in Workers : holding[w] = t

\* A request that was answered Ok is in exactly one place, the queue, one worker's
\* hands or the completed tasks, and nothing else is in any of them: detached handlers,
\* competing workers, shutdown and aborts neither lose nor duplicate a task.
OnePlace ==
  /\ \A t \in Tasks : (t \in Accepted) <=> (InQueue(t) \/ Held(t) \/ t \in done)
  /\ \A t \in Tasks : ~(InQueue(t) /\ Held(t)) /\ ~(InQueue(t) /\ t \in done)
                          /\ ~(Held(t) /\ t \in done)
  /\ \A i, j \in 1..Len(queue) : queue[i] = queue[j] => i = j
  /\ \A v, w \in Workers : (holding[v] = holding[w] /\ holding[v] # NoTask) => v = w

Working == {w \in Workers : pc[w] = "working"}
Lost(t) == \E w \in Workers : pc[w] = "aborted" /\ holding[w] = t
AbortedHolding == {w \in Workers : pc[w] = "aborted" /\ holding[w] # NoTask}

\* The atomic counter that shutdown polls counts the workers at work: fetch_sub never
\* takes the usize below zero, and the only way it is left too high is a worker that
\* abort_all dropped between fetch_add and fetch_sub.
ActiveTasksExact ==
  /\ Cardinality(Working) <= activeTasks
  /\ activeTasks <= Cardinality(Working) + Cardinality(AbortedHolding)

\* The wait reads the counter and the queue one after the other and a popped task is
\* uncounted for a moment, so "nothing active, nothing pending" may be wrong. It is
\* made good by the join: if every worker left its loop by itself, each task that had
\* been accepted when the wait ended on an empty pair is completed when stop returns.
DrainedStop ==
  (phase = "stopped" /\ \A w \in Workers : pc[w] = "exited") => drained \subseteq done

\* A worker never leaves a serving pool because of what other actors do, short of a
\* burst: it takes more tasks than a receiver's buffer holds to make one lag and exit.
LagNeedsOverflow ==
  (phase = "serving" /\ \E w \in Workers : ~Live(w)) => Cardinality(Accepted) > Capacity

\* The task side of the dispatcher implements the service its clients rely on.
Service == INSTANCE TaskService
             WITH waiting <- queue, running <- holding, finished <- done
ImplementsService == Service!Spec

-----------------------------------------------------------------------------
(***************************************************************************)
(* Liveness, under FairSpec.                                               *)
(***************************************************************************)

\* w will pop no more tasks: it lagged, was aborted, or waits on a stalled session.
Useless(w) == lagged[w] \/ pc[w] = "aborted" \/ holding[w] \in Stalled

\* A task accepted while the dispatcher serves is completed, even when shutdown
\* starts right after and when other sessions stall some of the workers. It is not
\* only if abort_all hits its worker or no worker is left that could take it.
TaskServed ==
  \A t \in Tasks \ Stalled :
    (t \in Accepted /\ phase = "serving")
      ~> (t \in done \/ Lost(t) \/ \A w \in Workers : Useless(w))

\* Dispatcher::stop returns, whatever is pending, stalled or arriving meanwhile.
StopEnds == phase = "polling" ~> phase = "stopped"

\* A session that sent a task request gets an answer: Ok from the handler or an error
\* once the mailbox is dropped with the request still in it. As each of finitely many
\* requests is sent once, that is to say: there is always a later moment when none waits.
ReplyArrives == []<>(\A t \in Tasks : request[t] \notin {"sent", "spawned"})

-----------------------------------------------------------------------------
(***************************************************************************)
(* What comments in dispatcher.rs say of shutdown, and the code does not   *)
(* do: each is checked by a run that expects a counterexample.             *)
(***************************************************************************)

\* dispatcher.rs:116 "send a TaskAdded signal to wake up workers": if some worker is
\* alive, unstalled and not lagged, wait_for_tasks_completion's wake-ups get the backlog processed.
WakeUpDrainsBacklog ==
  (phase = "waking" /\ \E w \in Workers : Live(w) /\ ~Useless(w))
    ~> (queue = <<>> \/ expired \/ \A w \in Workers : Useless(w) \/ ~Live(w))

\* dispatcher.rs:93 "Then send stop signal to terminate workers": when stop starts to
\* join the workers, each one that still runs has the Stop message ahead of it.
StopReachesWorkers ==
  phase = "joining" =>
    \A w \in Workers : Live(w) => \E i \in 1..Len(inbox[w]) : inbox[w][i] = Stop

\* dispatcher.rs:88 "Wait for all tasks to complete": when the wait ended without
\* hitting its deadline, no worker has a task in hand.
CompletedBeforeStop ==
  (phase = "stopping" /\ ~expired) => \A w \in Workers : holding[w] = NoTask

=============================================================================
