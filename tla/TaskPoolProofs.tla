-------------------------- MODULE TaskPoolProofs ---------------------------
(***************************************************************************)
(* Theorems about TaskPool for every set of workers and tasks, every       *)
(* receiver capacity, every set of stalled sessions and both topic orders. *)
(***************************************************************************)
EXTENDS TaskPool, FiniteSetTheorems, TLAPS

-----------------------------------------------------------------------------
(***************************************************************************)
(* The topic.                                                              *)
(***************************************************************************)

\* Publishing keeps the receivers' buffers within Capacity.
LEMMA PublishTypes ==
  ASSUME TypeOK, NEW m \in Messages, Publish(m)
  PROVE  /\ inbox' \in [Workers -> Seq(Messages)]
         /\ \A w \in Workers : Len(inbox'[w]) <= Capacity
         /\ lagged' \in [Workers -> BOOLEAN]
<1> USE TaskPoolAssumption
<1>1. ASSUME NEW w \in Workers
      PROVE  /\ inbox'[w] \in Seq(Messages)
             /\ Len(inbox'[w]) <= Capacity
  <2>1. inbox[w] \in Seq(Messages) /\ Len(inbox[w]) <= Capacity
    BY DEF TypeOK
  <2>2. CASE ~Live(w)
    BY <2>1, <2>2 DEF Publish
  <2>3. CASE Live(w) /\ ~Full(w)
    BY <2>1, <2>3 DEF Publish, Full
  <2>4. CASE Live(w) /\ Full(w)
    <3>1. inbox[w] # <<>>
      BY <2>1, <2>4 DEF Full
    <3>2. Tail(inbox[w]) \in Seq(Messages) /\ Len(Tail(inbox[w])) = Len(inbox[w]) - 1
      BY <2>1, <3>1
    <3> QED
      BY <2>1, <2>4, <3>2 DEF Publish, Full
  <2> QED
    BY <2>2, <2>3, <2>4
<1>2. inbox' \in [Workers -> Seq(Messages)]
  BY <1>1 DEF Publish
<1>3. lagged' \in [Workers -> BOOLEAN]
  BY DEF Publish, TypeOK
<1> QED
  BY <1>1, <1>2, <1>3

\* The same for a broadcast, which may not get to the task topic.
LEMMA BroadcastTypes ==
  ASSUME TypeOK, NEW m \in Messages, Broadcast(m)
  PROVE  /\ inbox' \in [Workers -> Seq(Messages)]
         /\ \A w \in Workers : Len(inbox'[w]) <= Capacity
         /\ lagged' \in [Workers -> BOOLEAN]
BY PublishTypes DEF Broadcast, TypeOK, topicVars

\* A read message leaves the receiver's buffer.
LEMMA DeliverTypes ==
  ASSUME TypeOK, NEW w \in Workers, inbox[w] # <<>>,
         inbox' = [inbox EXCEPT ![w] = Tail(@)]
  PROVE  /\ inbox' \in [Workers -> Seq(Messages)]
         /\ \A v \in Workers : Len(inbox'[v]) <= Capacity
         /\ Len(inbox'[w]) = Len(inbox[w]) - 1
         /\ \A i \in 1..Len(inbox'[w]) : inbox'[w][i] = inbox[w][i + 1]
<1> USE TaskPoolAssumption
<1>1. inbox[w] \in Seq(Messages) /\ Len(inbox[w]) <= Capacity
  BY DEF TypeOK
<1>2. /\ Tail(inbox[w]) \in Seq(Messages)
      /\ Len(Tail(inbox[w])) = Len(inbox[w]) - 1
      /\ \A i \in 1..Len(Tail(inbox[w])) : Tail(inbox[w])[i] = inbox[w][i + 1]
  BY <1>1
<1>3. inbox'[w] = Tail(inbox[w])
  BY DEF TypeOK
<1> QED
  BY <1>1, <1>2, <1>3 DEF TypeOK

-----------------------------------------------------------------------------
(***************************************************************************)
(* Types.                                                                  *)
(***************************************************************************)

LEMMA TypeInit == Init => TypeOK
<1> SUFFICES ASSUME Init PROVE TypeOK
  OBVIOUS
<1>1. /\ inbox \in [Workers -> Seq(Messages)]
      /\ \A w \in Workers : Len(inbox[w]) <= Capacity
  <2>1. \A w \in Workers : inbox[w] = <<>>
    BY DEF Init
  <2>2. <<>> \in Seq(Messages) /\ Len(<<>>) = 0
    OBVIOUS
  <2> QED
    BY <2>1, <2>2, TaskPoolAssumption DEF Init
<1>2. queue \in Seq(Tasks)
  BY DEF Init
<1> QED
  BY <1>1, <1>2 DEF Init, TypeOK, RequestStates, WorkerStates, Phases

\* A worker has a task exactly from the pop to the answer; an aborted one may keep it.
HeldByPc ==
  \A w \in Workers :
    /\ pc[w] \in {"popped", "working", "responding"} => holding[w] # NoTask
    /\ pc[w] \in {"idle", "popping", "exited"} => holding[w] = NoTask

LEMMA HeldByPcStep ==
  ASSUME TypeOK, HeldByPc, [Next]_vars
  PROVE  HeldByPc'
<1> USE TaskPoolAssumption DEF Ended
<1>1. ASSUME NEW w \in Workers, WorkerStep(w) \/ Cancel(w)
      PROVE  HeldByPc'
  <2>1. ASSUME Exit(w), pc[w] = "idle" PROVE HeldByPc'
    BY <2>1 DEF Exit, HeldByPc, TypeOK
  <2>2. CASE TakeSignal(w)
    BY <2>2 DEF TakeSignal, Delivers, HeldByPc, TypeOK
  <2>3. CASE TakeGracefulStop(w)
    BY <2>3 DEF TakeGracefulStop, HeldByPc, TypeOK
  <2>4. CASE TakeStop(w) \/ TakeLagged(w) \/ TakeTimeout(w)
    BY <2>1, <2>4 DEF TakeStop, TakeLagged, TakeTimeout, Delivers
  <2>5. CASE Pop(w)
    <3>1. queue # <<>> => Head(queue) # NoTask
      <4>1. queue # <<>> => Head(queue) \in Tasks
        BY DEF TypeOK
      <4> QED
        BY <4>1
    <3> QED
      BY <2>5, <3>1 DEF Pop, HeldByPc, TypeOK
  <2>6. CASE StartTask(w)
    BY <2>6 DEF StartTask, workerVars, HeldByPc, TypeOK
  <2>7. CASE FinishTask(w)
    BY <2>7 DEF FinishTask, HeldByPc, TypeOK
  <2>8. CASE Respond(w)
    BY <2>8 DEF Respond, HeldByPc, TypeOK
  <2>9. CASE Cancel(w)
    BY <2>9 DEF Cancel, HeldByPc, TypeOK
  <2> QED
    BY <1>1, <2>2, <2>3, <2>4, <2>5, <2>6, <2>7, <2>8, <2>9 DEF WorkerStep
<1>2. ASSUME UNCHANGED workerVars PROVE HeldByPc'
  BY <1>2 DEF HeldByPc, workerVars
<1>3. ASSUME NEW t \in Tasks, SendRequest(t) \/ SpawnHandler(t) \/ HandleTaskRequest(t)
      PROVE  UNCHANGED workerVars
  BY <1>3 DEF SendRequest, SpawnHandler, HandleTaskRequest
<1>4. ASSUME BeginStop \/ DispatcherStep \/ DeadlinePasses \/ Terminated \/ UNCHANGED vars
      PROVE  UNCHANGED workerVars
  BY <1>4 DEF BeginStop, DispatcherStep, PollActive, PollPending, WakeWorkers, BroadcastStop,
              StopReturns, DeadlinePasses, Terminated, vars, workerVars
<1> QED
  BY <1>1, <1>2, <1>3, <1>4 DEF Next

-----------------------------------------------------------------------------
(***************************************************************************)
(* The counter of active tasks.                                            *)
(***************************************************************************)

LEMMA WorkerSetsFinite ==
  /\ IsFiniteSet(Working) /\ Cardinality(Working) \in Nat
  /\ IsFiniteSet(AbortedHolding) /\ Cardinality(AbortedHolding) \in Nat
BY TaskPoolAssumption, FS_Subset, FS_CardinalityType DEF Working, AbortedHolding

\* fetch_add and fetch_sub follow the workers' states one by one. The type of the
\* counter comes with it: it is never decremented at zero.
LEMMA CountStep ==
  ASSUME TypeOK, HeldByPc, ActiveTasksExact, [Next]_vars
  PROVE  ActiveTasksExact' /\ activeTasks' \in Nat
<1> USE WorkerSetsFinite DEF ActiveTasksExact
<1> activeTasks \in Nat
  BY DEF TypeOK
<1>1. ASSUME activeTasks' = activeTasks, Working' = Working, AbortedHolding' = AbortedHolding
      PROVE  ActiveTasksExact' /\ activeTasks' \in Nat
  BY <1>1
<1>2. ASSUME UNCHANGED <<pc, holding, activeTasks>>
      PROVE  ActiveTasksExact' /\ activeTasks' \in Nat
  BY <1>1, <1>2 DEF Working, AbortedHolding
<1>3. ASSUME NEW w \in Workers, Exit(w), pc[w] = "idle"
      PROVE  ActiveTasksExact' /\ activeTasks' \in Nat
  <2>1. Working' = Working /\ AbortedHolding' = AbortedHolding
    BY <1>3 DEF Exit, Working, AbortedHolding, TypeOK
  <2> QED
    BY <1>1, <1>3, <2>1 DEF Exit
<1>4. ASSUME NEW w \in Workers, TakeSignal(w) \/ TakeGracefulStop(w) \/ Pop(w) \/ Respond(w)
      PROVE  ActiveTasksExact' /\ activeTasks' \in Nat
  <2>1. Working' = Working /\ AbortedHolding' = AbortedHolding
    BY <1>4 DEF TakeSignal, Delivers, TakeGracefulStop, Pop, Respond, Working, AbortedHolding,
                TypeOK
  <2>2. activeTasks' = activeTasks
    BY <1>4 DEF TakeSignal, TakeGracefulStop, Pop, Respond
  <2> QED
    BY <1>1, <2>1, <2>2
<1>5. ASSUME NEW w \in Workers, StartTask(w)
      PROVE  ActiveTasksExact' /\ activeTasks' \in Nat
  <2>1. /\ Working' = Working \cup {w} /\ w \notin Working
        /\ AbortedHolding' = AbortedHolding
    BY <1>5 DEF StartTask, workerVars, Working, AbortedHolding, TypeOK
  <2>2. Cardinality(Working') = Cardinality(Working) + 1
    BY <2>1, FS_AddElement
  <2> QED
    BY <1>5, <2>1, <2>2 DEF StartTask
<1>6. ASSUME NEW w \in Workers, FinishTask(w)
      PROVE  ActiveTasksExact' /\ activeTasks' \in Nat
  <2>1. /\ Working' = Working \ {w} /\ w \in Working
        /\ AbortedHolding' = AbortedHolding
    BY <1>6 DEF FinishTask, Working, AbortedHolding, TypeOK
  <2>2. Cardinality(Working') = Cardinality(Working) - 1
    BY <2>1, FS_RemoveElement
  <2>3. Cardinality(Working) >= 1
    <3>1. Cardinality(Working') \in Nat
      BY <2>1, FS_RemoveElement, FS_CardinalityType
    <3> QED
      BY <2>2, <3>1
  <2> QED
    BY <1>6, <2>1, <2>2, <2>3 DEF FinishTask
<1>7. ASSUME NEW w \in Workers, Cancel(w)
      PROVE  ActiveTasksExact' /\ activeTasks' \in Nat
  <2>1. CASE pc[w] = "idle"
    <3>1. Working' = Working /\ AbortedHolding' = AbortedHolding
      BY <1>7, <2>1 DEF Cancel, Working, AbortedHolding, TypeOK, HeldByPc
    <3> QED
      BY <1>1, <1>7, <3>1 DEF Cancel
  <2>2. ASSUME pc[w] # "idle"
        PROVE  Cardinality(AbortedHolding') = Cardinality(AbortedHolding) + 1
    <3>1. AbortedHolding' = AbortedHolding \cup {w} /\ w \notin AbortedHolding
      BY <1>7, <2>2 DEF Cancel, AbortedHolding, TypeOK, HeldByPc
    <3> QED
      BY <3>1, FS_AddElement
  <2>3. CASE pc[w] = "working"
    <3>1. Working' = Working \ {w} /\ w \in Working
      BY <1>7, <2>3 DEF Cancel, Working, TypeOK
    <3>2. Cardinality(Working') = Cardinality(Working) - 1
      BY <3>1, FS_RemoveElement
    <3> QED
      BY <1>7, <2>2, <2>3, <3>2 DEF Cancel
  <2>4. CASE pc[w] = "responding"
    <3>1. Working' = Working
      BY <1>7, <2>4 DEF Cancel, Working, TypeOK
    <3> QED
      BY <1>7, <2>2, <2>4, <3>1 DEF Cancel
  <2> QED
    BY <1>7, <2>1, <2>3, <2>4 DEF Cancel
<1>8. ASSUME NEW t \in Tasks, SendRequest(t) \/ SpawnHandler(t) \/ HandleTaskRequest(t)
      PROVE  UNCHANGED <<pc, holding, activeTasks>>
  BY <1>8 DEF SendRequest, SpawnHandler, HandleTaskRequest, workerVars
<1>9. ASSUME BeginStop \/ DispatcherStep \/ DeadlinePasses \/ Terminated \/ UNCHANGED vars
      PROVE  UNCHANGED <<pc, holding, activeTasks>>
  BY <1>9 DEF BeginStop, DispatcherStep, PollActive, PollPending, WakeWorkers, BroadcastStop,
              StopReturns, DeadlinePasses, Terminated, vars, workerVars
<1>10. ASSUME NEW w \in Workers, TakeStop(w) \/ TakeLagged(w) \/ TakeTimeout(w)
       PROVE  Exit(w) /\ pc[w] = "idle"
  BY <1>10 DEF TakeStop, TakeLagged, TakeTimeout, Delivers
<1> QED
  BY <1>2, <1>3, <1>4, <1>5, <1>6, <1>7, <1>8, <1>9, <1>10 DEF Next, WorkerStep

-----------------------------------------------------------------------------
(***************************************************************************)
(* TypeOK is not inductive: answering needs a task in hand, and decrementing *)
(* needs a positive counter. PoolInv adds what is missing.                 *)
(***************************************************************************)

LEMMA TypeWorker ==
  ASSUME TypeOK, HeldByPc, NEW w \in Workers, WorkerStep(w) \/ Cancel(w), activeTasks' \in Nat
  PROVE  TypeOK'
<1> USE TaskPoolAssumption DEF WorkerStates, Ended, waitVars
<1>1. ASSUME inbox' = [inbox EXCEPT ![w] = <<>>]
      PROVE  /\ inbox' \in [Workers -> Seq(Messages)]
             /\ \A v \in Workers : Len(inbox'[v]) <= Capacity
  BY <1>1 DEF TypeOK
<1>2. ASSUME Exit(w) PROVE TypeOK'
  BY <1>1, <1>2 DEF Exit, TypeOK
<1>3. CASE TakeSignal(w)
  BY <1>3, DeliverTypes DEF TakeSignal, Delivers, TypeOK
<1>4. CASE TakeGracefulStop(w)
  BY <1>4, DeliverTypes DEF TakeGracefulStop, Delivers, TypeOK
<1>5. CASE TakeStop(w) \/ TakeLagged(w) \/ TakeTimeout(w)
  BY <1>2, <1>5 DEF TakeStop, TakeLagged, TakeTimeout
<1>6. CASE Pop(w)
  <2>1. queue # <<>> => Head(queue) \in Tasks /\ Tail(queue) \in Seq(Tasks)
    BY DEF TypeOK
  <2> QED
    BY <1>6, <2>1 DEF Pop, TypeOK, topicVars
<1>7. CASE StartTask(w)
  BY <1>7 DEF StartTask, TypeOK, topicVars
<1>8. CASE FinishTask(w)
  BY <1>8 DEF FinishTask, TypeOK, topicVars
<1>9. CASE Respond(w)
  <2>1. holding[w] \in Tasks
    BY <1>9 DEF Respond, HeldByPc, TypeOK
  <2> QED
    BY <1>9, <2>1 DEF Respond, TypeOK, topicVars
<1>10. CASE Cancel(w)
  BY <1>1, <1>10 DEF Cancel, TypeOK
<1> QED
  BY <1>3, <1>4, <1>5, <1>6, <1>7, <1>8, <1>9, <1>10 DEF WorkerStep

LEMMA TypeHandlers ==
  ASSUME TypeOK, NEW t \in Tasks, SendRequest(t) \/ SpawnHandler(t) \/ HandleTaskRequest(t)
  PROVE  TypeOK'
<1> USE DEF RequestStates, waitVars, workerVars
<1>1. CASE SendRequest(t) \/ SpawnHandler(t)
  BY <1>1 DEF SendRequest, SpawnHandler, TypeOK, topicVars
<1>2. CASE HandleTaskRequest(t)
  <2>1. Append(queue, t) \in Seq(Tasks)
    BY DEF TypeOK
  <2>2. Publish(TaskAdded) /\ TaskAdded \in Messages
    BY <1>2 DEF HandleTaskRequest, Messages
  <2> QED
    BY <1>2, <2>1, <2>2, PublishTypes DEF HandleTaskRequest, TypeOK
<1> QED
  BY <1>1, <1>2

LEMMA TypeDispatcher ==
  ASSUME TypeOK, BeginStop \/ DispatcherStep \/ DeadlinePasses
  PROVE  TypeOK'
<1> USE DEF Phases, Waiting, waitVars, workerVars
<1>1. CASE BeginStop
  BY <1>1, BroadcastTypes DEF BeginStop, TypeOK, Messages
<1>2. CASE PollActive
  BY <1>2 DEF PollActive, TypeOK, topicVars
<1>3. CASE PollPending
  BY <1>3 DEF PollPending, Accepted, TypeOK, topicVars
<1>4. CASE WakeWorkers
  BY <1>4, PublishTypes DEF WakeWorkers, TypeOK, Messages
<1>5. CASE BroadcastStop
  BY <1>5, BroadcastTypes DEF BroadcastStop, TypeOK, Messages
<1>6. CASE StopReturns
  BY <1>6 DEF StopReturns, RequestStates, TypeOK, topicVars
<1>7. CASE DeadlinePasses
  BY <1>7 DEF DeadlinePasses, TypeOK, topicVars
<1> QED
  BY <1>1, <1>2, <1>3, <1>4, <1>5, <1>6, <1>7 DEF DispatcherStep

PoolInv == TypeOK /\ HeldByPc /\ ActiveTasksExact

LEMMA PoolInvInit == Init => PoolInv
<1> SUFFICES ASSUME Init PROVE HeldByPc /\ ActiveTasksExact
  BY TypeInit DEF PoolInv
<1>1. HeldByPc
  BY DEF Init, HeldByPc
<1>2. Working = {} /\ AbortedHolding = {}
  BY DEF Init, Working, AbortedHolding
<1>3. ActiveTasksExact
  BY <1>2, FS_EmptySet DEF Init, ActiveTasksExact
<1> QED
  BY <1>1, <1>3

LEMMA PoolInvStep == PoolInv /\ [Next]_vars => PoolInv'
<1> SUFFICES ASSUME PoolInv, [Next]_vars PROVE PoolInv'
  OBVIOUS
<1>1. HeldByPc' /\ ActiveTasksExact' /\ activeTasks' \in Nat
  BY HeldByPcStep, CountStep DEF PoolInv
<1>2. CASE Terminated \/ UNCHANGED vars
  BY <1>2 DEF Terminated, vars, PoolInv, TypeOK, HeldByPc, ActiveTasksExact, Working,
              AbortedHolding
<1>3. TypeOK'
  BY <1>1, <1>2, TypeWorker, TypeHandlers, TypeDispatcher DEF Next, PoolInv
<1> QED
  BY <1>1, <1>3 DEF PoolInv

LEMMA PoolInvariant == Spec => []PoolInv
<1>1. QED
  BY PoolInvInit, PoolInvStep, PTL DEF Spec

\* Every variable keeps its type; in particular the usize counter never wraps below
\* zero and no receiver holds more than Capacity messages.
THEOREM TypeCorrect == Spec => []TypeOK
<1>1. PoolInv => TypeOK
  BY DEF PoolInv
<1> QED
  BY <1>1, PoolInvariant, PTL

\* The counter shutdown polls is exact but for workers abort_all dropped at work.
THEOREM CounterCorrect == Spec => []ActiveTasksExact
<1>1. PoolInv => ActiveTasksExact
  BY DEF PoolInv
<1> QED
  BY <1>1, PoolInvariant, PTL

-----------------------------------------------------------------------------
(***************************************************************************)
(* No lost wake-up.                                                        *)
(***************************************************************************)

\* A receiver that a publication leaves attentive was attentive before, got a
\* TaskAdded, and had room for it.
LEMMA PublishAttentive ==
  ASSUME TypeOK, NEW m \in Messages, Publish(m), UNCHANGED <<pc, graceful>>,
         NEW w \in Workers, Attentive(w)'
  PROVE  Attentive(w) /\ m = TaskAdded /\ Len(inbox'[w]) = Len(inbox[w]) + 1
<1>1. Live(w) /\ ~lagged[w] /\ ~graceful[w] /\ ~Full(w)
  BY DEF Publish, Attentive, Live, TypeOK
<1>2. inbox'[w] = Append(inbox[w], m) /\ inbox[w] \in Seq(Messages)
  BY <1>1 DEF Publish, TypeOK
<1>3. /\ Len(inbox'[w]) = Len(inbox[w]) + 1
      /\ inbox'[w][Len(inbox[w]) + 1] = m
      /\ \A i \in 1..Len(inbox[w]) : inbox'[w][i] = inbox[w][i]
  BY <1>2
<1>4. \A i \in 1..Len(inbox[w]) + 1 : inbox'[w][i] = TaskAdded
  BY <1>3 DEF Attentive
<1>5. m = TaskAdded
  <2>1. Len(inbox[w]) + 1 \in 1..Len(inbox[w]) + 1
    BY <1>2
  <2> QED
    BY <1>3, <1>4, <2>1
<1>6. \A i \in 1..Len(inbox[w]) : inbox[w][i] = TaskAdded
  <2>1. \A i \in 1..Len(inbox[w]) : i \in 1..Len(inbox[w]) + 1
    BY <1>2
  <2> QED
    BY <1>3, <1>4, <2>1
<1> QED
  BY <1>1, <1>3, <1>5, <1>6 DEF Attentive

LEMMA WakeupStep ==
  ASSUME TypeOK, TypeOK', NoLostWakeup, [Next]_vars
  PROVE  NoLostWakeup'
<1> SUFFICES ASSUME NEW w \in Workers, Attentive(w)'
             PROVE  Len(queue)' <= Wakeups(w)'
  BY DEF NoLostWakeup
<1> /\ inbox[w] \in Seq(Messages) /\ Len(inbox[w]) \in Nat /\ Len(inbox'[w]) \in Nat
    /\ queue \in Seq(Tasks) /\ Len(queue) \in Nat /\ Len(queue') \in Nat
  BY DEF TypeOK
<1>1. Attentive(w) => Len(queue) <= Wakeups(w)
  BY DEF NoLostWakeup
<1> Wakeups(w) \in Nat /\ Wakeups(w)' \in Nat
  BY DEF Wakeups
<1>2. ASSUME Attentive(w), Len(queue') <= Len(queue), Wakeups(w)' = Wakeups(w)
      PROVE  Len(queue)' <= Wakeups(w)'
  <2>1. Len(queue) \in Nat /\ Len(queue') <= Wakeups(w)
    BY <1>1, <1>2
  <2> QED
    BY <1>2, <2>1
<1>3. ASSUME UNCHANGED <<queue, inbox, lagged, pc, graceful>>
      PROVE  Len(queue)' <= Wakeups(w)'
  <2>1. Attentive(w) /\ Wakeups(w)' = Wakeups(w)
    BY <1>3 DEF Attentive, Live, Wakeups
  <2> QED
    BY <1>1, <1>3, <2>1
<1>4. ASSUME NEW t \in Tasks, HandleTaskRequest(t) PROVE Len(queue)' <= Wakeups(w)'
  <2>1. Publish(TaskAdded) /\ UNCHANGED <<pc, graceful>> /\ TaskAdded \in Messages
    BY <1>4 DEF HandleTaskRequest, workerVars, Messages
  <2>2. Attentive(w) /\ Len(inbox'[w]) = Len(inbox[w]) + 1
    BY <2>1, PublishAttentive
  <2>3. Len(queue') = Len(queue) + 1
    BY <1>4 DEF HandleTaskRequest
  <2>4. pc'[w] = pc[w]
    BY <2>1
  <2> QED
    BY <1>1, <2>2, <2>3, <2>4 DEF Wakeups
<1>5. ASSUME NEW m \in Messages, Broadcast(m), UNCHANGED <<queue, pc, graceful>>
      PROVE  Len(queue)' <= Wakeups(w)'
  <2>1. CASE UNCHANGED topicVars
    BY <1>3, <1>5, <2>1 DEF topicVars
  <2>2. CASE Publish(m)
    <3>1. Attentive(w) /\ Len(inbox'[w]) = Len(inbox[w]) + 1
      BY <1>5, <2>2, PublishAttentive
    <3>2. pc'[w] = pc[w] /\ queue' = queue
      BY <1>5
    <3> QED
      BY <1>1, <3>1, <3>2 DEF Wakeups
  <2> QED
    BY <1>5, <2>1, <2>2 DEF Broadcast
<1>6. ASSUME NEW v \in Workers, WorkerStep(v) \/ Cancel(v) PROVE Len(queue)' <= Wakeups(w)'
  <2>1. ASSUME v # w PROVE Len(queue)' <= Wakeups(w)'
    <3>1. UNCHANGED <<inbox[w], lagged[w], pc[w], graceful[w]>>
      BY <1>6, <2>1 DEF WorkerStep, TakeSignal, TakeGracefulStop, TakeStop, TakeLagged,
           TakeTimeout, Exit, Pop, StartTask, FinishTask, Respond, Cancel, topicVars,
           workerVars, TypeOK
    <3>2. Attentive(w) /\ Wakeups(w)' = Wakeups(w)
      BY <3>1 DEF Attentive, Live, Wakeups
    <3>3. queue' = queue \/ (queue # <<>> /\ queue' = Tail(queue))
      BY <1>6 DEF WorkerStep, TakeSignal, TakeGracefulStop, TakeStop, TakeLagged,
           TakeTimeout, Exit, Pop, StartTask, FinishTask, Respond, Cancel
    <3>4. Len(queue') <= Len(queue)
      BY <3>3
    <3> QED
      BY <1>2, <3>2, <3>4
  <2>2. CASE TakeSignal(w)
    <3>1. /\ inbox' = [inbox EXCEPT ![w] = Tail(@)] /\ inbox[w] # <<>>
          /\ Head(inbox[w]) = TaskAdded /\ pc[w] = "idle" /\ Live(w)
          /\ UNCHANGED <<queue, lagged, graceful>>
      BY <2>2 DEF TakeSignal, Delivers, Live, Ended
    <3>2. /\ Len(inbox'[w]) = Len(inbox[w]) - 1
          /\ \A i \in 1..Len(inbox'[w]) : inbox'[w][i] = inbox[w][i + 1]
      BY <3>1, DeliverTypes
    <3>3. Attentive(w)
      <4>1. ASSUME NEW i \in 1..Len(inbox[w]) PROVE inbox[w][i] = TaskAdded
        <5>1. CASE i = 1
          BY <3>1, <5>1
        <5>2. CASE i # 1
          <6>1. i - 1 \in 1..Len(inbox'[w])
            BY <3>2, <5>2
          <6>2. inbox'[w][i - 1] = inbox[w][(i - 1) + 1]
            BY <3>2, <6>1
          <6> QED
            BY <6>1, <6>2 DEF Attentive
        <5> QED
          BY <5>1, <5>2
      <4> QED
        BY <3>1, <4>1 DEF Attentive
    <3>4. pc'[w] = "popping"
      BY <2>2, <3>3 DEF TakeSignal, Attentive, TypeOK
    <3> QED
      BY <1>1, <3>1, <3>2, <3>3, <3>4 DEF Wakeups
  <2>3. CASE Pop(w)
    <3>1. /\ pc[w] = "popping" /\ pc'[w] # "popping"
          /\ UNCHANGED <<inbox, lagged, graceful>>
      BY <2>3 DEF Pop, topicVars, TypeOK
    <3>2. Attentive(w)
      BY <3>1 DEF Attentive, Live, Ended
    <3>3. \/ queue = <<>> /\ queue' = <<>>
          \/ queue # <<>> /\ queue' = Tail(queue)
      BY <2>3 DEF Pop
    <3>4. Len(queue') = 0 \/ Len(queue') = Len(queue) - 1
      BY <3>3
    <3> QED
      BY <1>1, <3>1, <3>2, <3>4 DEF Wakeups
  <2>4. CASE StartTask(w) \/ FinishTask(w) \/ Respond(w)
    <3>1. /\ Live(w) /\ pc[w] # "popping" /\ pc'[w] # "popping"
          /\ UNCHANGED <<queue, inbox, lagged, graceful>>
      BY <2>4 DEF StartTask, FinishTask, Respond, topicVars, Live, Ended, TypeOK
    <3>2. Attentive(w) /\ Wakeups(w)' = Wakeups(w)
      BY <3>1 DEF Attentive, Wakeups
    <3> QED
      BY <1>1, <3>1, <3>2
  <2>5. ASSUME TakeGracefulStop(w) \/ Exit(w) \/ Cancel(w) PROVE FALSE
    BY <2>5 DEF TakeGracefulStop, Exit, Cancel, Attentive, Live, Ended, TypeOK
  <2> QED
    BY <1>6, <2>1, <2>2, <2>3, <2>4, <2>5 DEF WorkerStep, TakeStop, TakeLagged, TakeTimeout
<1>7. ASSUME NEW t \in Tasks, SendRequest(t) \/ SpawnHandler(t) PROVE Len(queue)' <= Wakeups(w)'
  BY <1>3, <1>7 DEF SendRequest, SpawnHandler, topicVars, workerVars
<1>8. CASE BeginStop \/ BroadcastStop \/ WakeWorkers
  BY <1>5, <1>8 DEF BeginStop, BroadcastStop, WakeWorkers, Broadcast, workerVars, Messages
<1>9. CASE PollActive \/ PollPending \/ StopReturns \/ DeadlinePasses \/ Terminated
           \/ UNCHANGED vars
  BY <1>3, <1>9 DEF PollActive, PollPending, StopReturns, DeadlinePasses, Terminated, vars,
                   topicVars, workerVars
<1> QED
  BY <1>4, <1>6, <1>7, <1>8, <1>9 DEF Next, DispatcherStep

\* Whatever the interleaving of handlers, workers and shutdown, no backlog is left
\* without a wake-up for each of its tasks at each attentive worker.
THEOREM WakeupsCoverQueue == Spec => []NoLostWakeup
<1>1. Init => NoLostWakeup
  <2> SUFFICES ASSUME Init, NEW w \in Workers PROVE Len(queue) <= Wakeups(w)
    BY DEF NoLostWakeup
  <2>1. queue = <<>> /\ Len(queue) = 0 /\ inbox[w] = <<>> /\ Len(inbox[w]) = 0
    BY DEF Init
  <2> QED
    BY <2>1 DEF Init, Wakeups
<1>2. TypeOK /\ TypeOK' /\ NoLostWakeup /\ [Next]_vars => NoLostWakeup'
  BY WakeupStep
<1> QED
  BY <1>1, <1>2, TypeCorrect, PTL DEF Spec

-----------------------------------------------------------------------------
(***************************************************************************)
(* Tasks are neither lost nor duplicated.                                  *)
(***************************************************************************)

\* What push_back does to the queue's contents.
LEMMA PushContents ==
  ASSUME queue \in Seq(Tasks), NEW t \in Tasks, queue' = Append(queue, t)
  PROVE  /\ \A u \in Tasks : InQueue(u)' <=> (InQueue(u) \/ u = t)
         /\ (\A i, j \in 1..Len(queue) : queue[i] = queue[j] => i = j) /\ ~InQueue(t)
              => \A i, j \in 1..Len(queue') : queue'[i] = queue'[j] => i = j
<1>1. /\ Len(queue) \in Nat /\ Len(queue') = Len(queue) + 1
      /\ queue'[Len(queue) + 1] = t
      /\ \A i \in 1..Len(queue) : queue'[i] = queue[i]
  OBVIOUS
<1>2. \A i : i \in 1..Len(queue') <=> (i \in 1..Len(queue) \/ i = Len(queue) + 1)
  BY <1>1
<1>3. \A u \in Tasks : InQueue(u)' <=> (InQueue(u) \/ u = t)
  BY <1>1, <1>2 DEF InQueue
<1>4. (\A i, j \in 1..Len(queue) : queue[i] = queue[j] => i = j) /\ ~InQueue(t)
        => \A i, j \in 1..Len(queue') : queue'[i] = queue'[j] => i = j
  BY <1>1, <1>2 DEF InQueue
<1> QED
  BY <1>3, <1>4

\* What pop_front does to the queue's contents.
LEMMA PopContents ==
  ASSUME queue \in Seq(Tasks), queue # <<>>, queue' = Tail(queue)
  PROVE  /\ Head(queue) \in Tasks
         /\ \A u \in Tasks : InQueue(u) <=> (InQueue(u)' \/ u = Head(queue))
         /\ (\A i, j \in 1..Len(queue) : queue[i] = queue[j] => i = j)
              => /\ \A i, j \in 1..Len(queue') : queue'[i] = queue'[j] => i = j
                 /\ \A u \in Tasks : u = Head(queue) => ~InQueue(u)'
<1>1. /\ Len(queue) \in Nat \ {0} /\ Len(queue') = Len(queue) - 1
      /\ Head(queue) = queue[1] /\ Head(queue) \in Tasks
      /\ \A i \in 1..Len(queue') : queue'[i] = queue[i + 1]
  OBVIOUS
<1>2. \A i \in 1..Len(queue') : i + 1 \in 1..Len(queue) /\ i + 1 # 1
  BY <1>1
<1>3. \A i \in 1..Len(queue) : i = 1 \/ (i - 1 \in 1..Len(queue') /\ queue'[i - 1] = queue[i])
  <2>1. ASSUME NEW i \in 1..Len(queue), i # 1
        PROVE  i - 1 \in 1..Len(queue') /\ (i - 1) + 1 = i
    BY <1>1, <2>1
  <2> QED
    BY <1>1, <2>1
<1>4. 1 \in 1..Len(queue)
  BY <1>1
<1>5. \A u \in Tasks : InQueue(u) <=> (InQueue(u)' \/ u = Head(queue))
  <2>1. ASSUME NEW u \in Tasks, InQueue(u) PROVE InQueue(u)' \/ u = Head(queue)
    BY <1>1, <1>3, <2>1 DEF InQueue
  <2>2. ASSUME NEW u \in Tasks, InQueue(u)' PROVE InQueue(u)
    BY <1>1, <1>2, <2>2 DEF InQueue
  <2> QED
    BY <1>1, <1>4, <2>1, <2>2 DEF InQueue
<1>6. ASSUME \A i, j \in 1..Len(queue) : queue[i] = queue[j] => i = j
      PROVE  /\ \A i, j \in 1..Len(queue') : queue'[i] = queue'[j] => i = j
             /\ \A u \in Tasks : u = Head(queue) => ~InQueue(u)'
  <2>1. ASSUME NEW i \in 1..Len(queue'), NEW j \in 1..Len(queue'), queue'[i] = queue'[j]
        PROVE  i = j
    <3>1. i + 1 = j + 1
      BY <1>1, <1>2, <1>6, <2>1
    <3> QED
      BY <3>1
  <2>2. \A u \in Tasks : u = Head(queue) => ~InQueue(u)'
    BY <1>1, <1>2, <1>4, <1>6 DEF InQueue
  <2> QED
    BY <2>1, <2>2
<1> QED
  BY <1>1, <1>5, <1>6

LEMMA OnePlaceStep ==
  ASSUME TypeOK, HeldByPc, OnePlace, [Next]_vars
  PROVE  OnePlace' /\ Accepted \subseteq Accepted'
<1> USE TaskPoolAssumption
<1>1. ASSUME Accepted' = Accepted, UNCHANGED <<queue, holding, done>>
      PROVE  OnePlace' /\ Accepted \subseteq Accepted'
  BY <1>1 DEF OnePlace, InQueue, Held
<1>2. ASSUME NEW t \in Tasks, HandleTaskRequest(t)
      PROVE  OnePlace' /\ Accepted \subseteq Accepted'
  <2>1. /\ queue' = Append(queue, t) /\ UNCHANGED <<holding, done>>
        /\ t \notin Accepted /\ Accepted' = Accepted \cup {t}
    BY <1>2 DEF HandleTaskRequest, workerVars, Accepted, TypeOK
  <2>2. ~InQueue(t) /\ ~Held(t) /\ t \notin done
    BY <2>1 DEF OnePlace
  <2>3. \A u \in Tasks : Held(u)' <=> Held(u)
    BY <2>1 DEF Held
  <2>4. /\ \A u \in Tasks : InQueue(u)' <=> (InQueue(u) \/ u = t)
        /\ \A i, j \in 1..Len(queue') : queue'[i] = queue'[j] => i = j
    BY <2>1, <2>2, PushContents DEF OnePlace, TypeOK
  <2>5. \A u \in Tasks : u \in Accepted' <=> (InQueue(u)' \/ Held(u)' \/ u \in done')
    BY <2>1, <2>3, <2>4 DEF OnePlace
  <2>6. \A u \in Tasks : ~(InQueue(u)' /\ Held(u)') /\ ~(InQueue(u)' /\ u \in done')
                          /\ ~(Held(u)' /\ u \in done')
    BY <2>1, <2>2, <2>3, <2>4 DEF OnePlace
  <2> QED
    BY <2>1, <2>4, <2>5, <2>6 DEF OnePlace
<1>3. ASSUME NEW w \in Workers, Pop(w)
      PROVE  OnePlace' /\ Accepted \subseteq Accepted'
  <2>1. CASE queue = <<>>
    BY <1>1, <1>3, <2>1 DEF Pop, Accepted
  <2>2. CASE queue # <<>>
    <3> PICK h \in Tasks : h = Head(queue)
      BY <1>3, <2>2, PopContents DEF Pop, TypeOK
    <3>1. /\ queue' = Tail(queue) /\ holding' = [holding EXCEPT ![w] = h]
          /\ UNCHANGED <<request, done>> /\ holding[w] = NoTask
      BY <1>3, <2>2 DEF Pop, HeldByPc
    <3>2. /\ \A u \in Tasks : InQueue(u) <=> (InQueue(u)' \/ u = h)
          /\ \A i, j \in 1..Len(queue') : queue'[i] = queue'[j] => i = j
          /\ ~InQueue(h)'
      BY <2>2, <3>1, PopContents DEF OnePlace, TypeOK
    <3>3. InQueue(h) /\ ~Held(h) /\ h \notin done
      BY <3>2 DEF OnePlace
    <3>4. \A u \in Tasks : Held(u)' <=> (Held(u) \/ u = h)
      BY <3>1, <3>2 DEF Held, TypeOK
    <3>5. \A u \in Tasks : u \in Accepted' <=> (InQueue(u)' \/ Held(u)' \/ u \in done')
      BY <3>1, <3>2, <3>4 DEF OnePlace, Accepted
    <3>6. \A u \in Tasks : ~(InQueue(u)' /\ Held(u)') /\ ~(InQueue(u)' /\ u \in done')
                            /\ ~(Held(u)' /\ u \in done')
      BY <3>1, <3>2, <3>3, <3>4 DEF OnePlace
    <3>7. \A u, v \in Workers : (holding'[u] = holding'[v] /\ holding'[u] # NoTask) => u = v
      BY <3>1, <3>3 DEF OnePlace, Held, TypeOK
    <3> QED
      BY <3>1, <3>2, <3>5, <3>6, <3>7 DEF OnePlace, Accepted
  <2> QED
    BY <2>1, <2>2
<1>4. ASSUME NEW w \in Workers, Respond(w)
      PROVE  OnePlace' /\ Accepted \subseteq Accepted'
  <2> DEFINE t == holding[w]
  <2>1. /\ done' = done \cup {t} /\ holding' = [holding EXCEPT ![w] = NoTask]
        /\ UNCHANGED <<request, queue>> /\ t \in Tasks
    BY <1>4 DEF Respond, HeldByPc, TypeOK
  <2>2. Held(t) /\ ~InQueue(t)
    BY <2>1 DEF Held, OnePlace
  <2>3. \A u \in Tasks : Held(u)' <=> (Held(u) /\ u # t)
    BY <2>1 DEF Held, OnePlace, TypeOK
  <2>4. \A u \in Tasks : InQueue(u)' <=> InQueue(u)
    BY <2>1 DEF InQueue
  <2> HIDE DEF t
  <2>5. \A u \in Tasks : u \in Accepted' <=> (InQueue(u)' \/ Held(u)' \/ u \in done')
    BY <2>1, <2>2, <2>3, <2>4 DEF OnePlace, Accepted
  <2>6. \A u \in Tasks : ~(InQueue(u)' /\ Held(u)') /\ ~(InQueue(u)' /\ u \in done')
                          /\ ~(Held(u)' /\ u \in done')
    BY <2>1, <2>2, <2>3, <2>4 DEF OnePlace
  <2>7. \A u, v \in Workers : (holding'[u] = holding'[v] /\ holding'[u] # NoTask) => u = v
    BY <2>1 DEF OnePlace, TypeOK
  <2> QED
    BY <2>1, <2>5, <2>6, <2>7 DEF OnePlace, Accepted
<1>5. ASSUME NEW w \in Workers,
             \/ TakeSignal(w) \/ TakeGracefulStop(w) \/ TakeStop(w) \/ TakeLagged(w)
             \/ TakeTimeout(w) \/ StartTask(w) \/ FinishTask(w) \/ Cancel(w)
      PROVE  OnePlace' /\ Accepted \subseteq Accepted'
  BY <1>1, <1>5 DEF TakeSignal, TakeGracefulStop, TakeStop, TakeLagged, TakeTimeout, Exit,
                   StartTask, FinishTask, Cancel, Accepted
<1>6. ASSUME NEW t \in Tasks, SendRequest(t) \/ SpawnHandler(t)
      PROVE  OnePlace' /\ Accepted \subseteq Accepted'
  <2>1. Accepted' = Accepted
    BY <1>6 DEF SendRequest, SpawnHandler, Accepted, TypeOK
  <2> QED
    BY <1>1, <1>6, <2>1 DEF SendRequest, SpawnHandler, workerVars
<1>7. CASE StopReturns
  <2>1. Accepted' = Accepted
    BY <1>7 DEF StopReturns, Accepted, TypeOK
  <2> QED
    BY <1>1, <1>7, <2>1 DEF StopReturns, workerVars
<1>8. CASE BeginStop \/ PollActive \/ PollPending \/ WakeWorkers \/ BroadcastStop
           \/ DeadlinePasses \/ Terminated \/ UNCHANGED vars
  BY <1>1, <1>8 DEF BeginStop, PollActive, PollPending, WakeWorkers, BroadcastStop,
                   DeadlinePasses, Terminated, vars, workerVars, Accepted
<1> QED
  BY <1>2, <1>3, <1>4, <1>5, <1>6, <1>7, <1>8 DEF Next, WorkerStep, DispatcherStep

LEMMA OnePlaceInit == Init => OnePlace
<1> SUFFICES ASSUME Init PROVE OnePlace
  OBVIOUS
<1>1. queue = <<>> /\ Len(queue) = 0 /\ done = {} /\ Accepted = {}
  BY DEF Init, Accepted
<1>2. \A t \in Tasks : ~InQueue(t) /\ ~Held(t)
  BY <1>1, TaskPoolAssumption DEF Init, InQueue, Held
<1> QED
  BY <1>1, <1>2 DEF Init, OnePlace

\* Every request answered Ok is queued once, held by one worker or completed, for ever.
THEOREM NothingLostOrDuplicated == Spec => []OnePlace
<1>1. PoolInv /\ OnePlace /\ [Next]_vars => OnePlace'
  BY OnePlaceStep DEF PoolInv
<1> QED
  BY <1>1, OnePlaceInit, PoolInvariant, PTL DEF Spec

-----------------------------------------------------------------------------
(***************************************************************************)
(* The shutdown's wait.                                                    *)
(***************************************************************************)

\* What the wait saw drained had been accepted and never is in the queue again.
DrainedInv == \A t \in drained : t \in Accepted /\ ~InQueue(t)

LEMMA DrainedStep ==
  ASSUME TypeOK, OnePlace, Accepted \subseteq Accepted', DrainedInv, [Next]_vars
  PROVE  DrainedInv'
<1> drained \subseteq Tasks
  BY DEF TypeOK
<1>1. ASSUME UNCHANGED <<drained, queue>> PROVE DrainedInv'
  BY <1>1 DEF DrainedInv, InQueue
<1>2. ASSUME NEW t \in Tasks, HandleTaskRequest(t) PROVE DrainedInv'
  <2>1. queue' = Append(queue, t) /\ UNCHANGED drained /\ t \notin Accepted
    BY <1>2 DEF HandleTaskRequest, waitVars, Accepted, TypeOK
  <2>2. \A u \in Tasks : InQueue(u)' <=> (InQueue(u) \/ u = t)
    BY <2>1, PushContents DEF TypeOK
  <2> QED
    BY <2>1, <2>2 DEF DrainedInv
<1>3. ASSUME NEW w \in Workers, Pop(w) PROVE DrainedInv'
  <2>1. CASE queue = <<>>
    BY <1>1, <1>3, <2>1 DEF Pop, waitVars
  <2>2. CASE queue # <<>>
    <3>1. queue' = Tail(queue) /\ UNCHANGED drained
      BY <1>3, <2>2 DEF Pop, waitVars
    <3>2. \A u \in Tasks : InQueue(u)' => InQueue(u)
      BY <2>2, <3>1, PopContents DEF TypeOK
    <3> QED
      BY <3>1, <3>2 DEF DrainedInv
  <2> QED
    BY <2>1, <2>2
<1>4. CASE PollPending
  <2>1. UNCHANGED <<queue, request>> /\ (UNCHANGED drained \/ (queue = <<>> /\ drained' = Accepted))
    BY <1>4 DEF PollPending
  <2>2. CASE queue = <<>> /\ drained' = Accepted
    <3>1. Len(queue') = 0
      BY <2>1, <2>2
    <3> QED
      BY <2>1, <2>2, <3>1 DEF DrainedInv, InQueue, Accepted
  <2> QED
    BY <1>1, <2>1, <2>2
<1>5. ASSUME NEW w \in Workers,
             \/ TakeSignal(w) \/ TakeGracefulStop(w) \/ TakeStop(w) \/ TakeLagged(w)
             \/ TakeTimeout(w) \/ StartTask(w) \/ FinishTask(w) \/ Respond(w) \/ Cancel(w)
      PROVE  DrainedInv'
  BY <1>1, <1>5 DEF TakeSignal, TakeGracefulStop, TakeStop, TakeLagged, TakeTimeout, Exit,
                   StartTask, FinishTask, Respond, Cancel, waitVars
<1>6. ASSUME NEW t \in Tasks, SendRequest(t) \/ SpawnHandler(t) PROVE DrainedInv'
  BY <1>1, <1>6 DEF SendRequest, SpawnHandler, waitVars
<1>7. CASE BeginStop \/ PollActive \/ WakeWorkers \/ BroadcastStop \/ StopReturns
           \/ DeadlinePasses \/ Terminated \/ UNCHANGED vars
  BY <1>1, <1>7 DEF BeginStop, PollActive, WakeWorkers, BroadcastStop, StopReturns,
                   DeadlinePasses, Terminated, vars, waitVars
<1> QED
  BY <1>2, <1>3, <1>4, <1>5, <1>6, <1>7 DEF Next, WorkerStep, DispatcherStep

\* All the facts about the pool in one inductive invariant.
PlaceInv == PoolInv /\ OnePlace /\ DrainedInv

LEMMA PlaceInvariant == Spec => []PlaceInv
<1>1. Init => DrainedInv
  BY DEF Init, DrainedInv
<1>2. PoolInv /\ OnePlace /\ DrainedInv /\ [Next]_vars => DrainedInv'
  BY OnePlaceStep, DrainedStep DEF PoolInv
<1> QED
  BY <1>1, <1>2, PoolInvariant, NothingLostOrDuplicated, PTL DEF Spec, PlaceInv

\* A wait that saw nothing active and nothing pending, though it may have been wrong,
\* leaves nothing unfinished once every worker has left its loop by itself.
THEOREM DrainedIsDone == Spec => []DrainedStop
<1>1. PlaceInv => DrainedStop
  <2> SUFFICES ASSUME PlaceInv, \A w \in Workers : pc[w] = "exited", NEW t \in drained
               PROVE  t \in done
    BY DEF DrainedStop
  <2>1. t \in Tasks /\ t \in Accepted /\ ~InQueue(t)
    BY DEF PlaceInv, PoolInv, TypeOK, DrainedInv
  <2>2. ~Held(t)
    BY <2>1, TaskPoolAssumption DEF Held, PlaceInv, PoolInv, HeldByPc
  <2> QED
    BY <2>1, <2>2 DEF PlaceInv, OnePlace
<1> QED
  BY <1>1, PlaceInvariant, PTL

-----------------------------------------------------------------------------
(***************************************************************************)
(* TaskPool implements TaskService.                                        *)
(***************************************************************************)

LEMMA ServiceInit == Init => Service!Init
BY DEF Init, Service!Init

LEMMA ServiceStep ==
  ASSUME PlaceInv, [Next]_vars
  PROVE  [Service!Next]_(Service!vars)
<1> USE TaskPoolAssumption DEF Service!vars, PlaceInv, PoolInv
<1>1. ASSUME UNCHANGED <<queue, holding, done>> PROVE UNCHANGED Service!vars
  BY <1>1
<1>2. ASSUME NEW t \in Tasks, HandleTaskRequest(t) PROVE Service!Next
  <2>1. /\ queue' = Append(queue, t) /\ UNCHANGED <<holding, done>> /\ t \notin Accepted
    BY <1>2 DEF HandleTaskRequest, workerVars, Accepted, TypeOK
  <2>2. ~Service!Known(t)
    BY <2>1 DEF Service!Known, OnePlace, InQueue, Held
  <2> QED
    BY <2>1, <2>2 DEF Service!Next, Service!Accept
<1>3. ASSUME NEW w \in Workers, Pop(w) PROVE Service!Next \/ UNCHANGED Service!vars
  BY <1>3 DEF Pop, HeldByPc, Service!Next, Service!Start
<1>4. ASSUME NEW w \in Workers, Respond(w) PROVE Service!Next
  BY <1>4 DEF Respond, HeldByPc, Service!Next, Service!Finish
<1>5. ASSUME NEW w \in Workers,
             \/ TakeSignal(w) \/ TakeGracefulStop(w) \/ TakeStop(w) \/ TakeLagged(w)
             \/ TakeTimeout(w) \/ StartTask(w) \/ FinishTask(w) \/ Cancel(w)
      PROVE  UNCHANGED <<queue, holding, done>>
  BY <1>5 DEF TakeSignal, TakeGracefulStop, TakeStop, TakeLagged, TakeTimeout, Exit,
              StartTask, FinishTask, Cancel
<1>6. ASSUME NEW t \in Tasks, SendRequest(t) \/ SpawnHandler(t)
      PROVE  UNCHANGED <<queue, holding, done>>
  BY <1>6 DEF SendRequest, SpawnHandler, workerVars
<1>7. ASSUME BeginStop \/ DispatcherStep \/ DeadlinePasses \/ Terminated \/ UNCHANGED vars
      PROVE  UNCHANGED <<queue, holding, done>>
  BY <1>7 DEF BeginStop, DispatcherStep, PollActive, PollPending, WakeWorkers, BroadcastStop,
              StopReturns, DeadlinePasses, Terminated, vars, workerVars
<1> QED
  BY <1>1, <1>2, <1>3, <1>4, <1>5, <1>6, <1>7 DEF Next, WorkerStep

\* The pool with its signals, counters, lag and shutdown is a FIFO service in which a
\* task is given to one worker and completed at most once.
THEOREM PoolImplementsService == Spec => ImplementsService
BY ServiceInit, ServiceStep, PlaceInvariant, PTL DEF Spec, ImplementsService, Service!Spec

-----------------------------------------------------------------------------
(***************************************************************************)
(* Lag.                                                                    *)
(***************************************************************************)

\* While the dispatcher serves, receivers only hold signals of accepted tasks, and
\* lagging, the only way to leave the loop, takes more of those than Capacity.
ServingInv ==
  /\ IsFiniteSet(Accepted)
  /\ phase = "serving" =>
       \A w \in Workers :
         /\ ~graceful[w]
         /\ \A i \in 1..Len(inbox[w]) : inbox[w][i] = TaskAdded
         /\ Len(inbox[w]) <= Cardinality(Accepted)
         /\ lagged[w] => Cardinality(Accepted) > Capacity
         /\ ~Live(w) => lagged[w]

LEMMA ServingStep ==
  ASSUME TypeOK, ServingInv, [Next]_vars
  PROVE  ServingInv'
<1> USE TaskPoolAssumption DEF ServingInv
<1>1. ASSUME UNCHANGED <<request, phase, graceful, inbox, lagged, pc>> PROVE ServingInv'
  BY <1>1 DEF Accepted, Live
<1>2. ASSUME phase' # "serving", Accepted' = Accepted PROVE ServingInv'
  BY <1>2
<1>3. ASSUME NEW t \in Tasks, HandleTaskRequest(t) PROVE ServingInv'
  <2>1. /\ Publish(TaskAdded) /\ UNCHANGED <<phase, graceful, pc>>
        /\ t \notin Accepted /\ Accepted' = Accepted \cup {t}
    BY <1>3 DEF HandleTaskRequest, workerVars, Accepted, TypeOK
  <2>2. /\ IsFiniteSet(Accepted') /\ Cardinality(Accepted) \in Nat
        /\ Cardinality(Accepted') = Cardinality(Accepted) + 1
    BY <2>1, FS_AddElement, FS_CardinalityType
  <2>3. ASSUME phase = "serving", NEW w \in Workers
        PROVE  /\ \A i \in 1..Len(inbox'[w]) : inbox'[w][i] = TaskAdded
               /\ Len(inbox'[w]) <= Cardinality(Accepted')
               /\ lagged'[w] => Cardinality(Accepted') > Capacity
               /\ ~Live(w) => lagged'[w]
    <3>1. inbox[w] \in Seq(Messages) /\ Len(inbox[w]) \in Nat /\ Len(inbox[w]) <= Capacity
      BY DEF TypeOK
    <3>2. CASE ~Live(w)
      <4>1. inbox'[w] = inbox[w] /\ lagged'[w] = lagged[w]
        BY <2>1, <3>2 DEF Publish, TypeOK
      <4> QED
        BY <2>2, <2>3, <3>1, <4>1
    <3>3. CASE Live(w) /\ ~Full(w)
      <4>1. inbox'[w] = Append(inbox[w], TaskAdded) /\ lagged'[w] = lagged[w]
        BY <2>1, <3>3 DEF Publish, TypeOK
      <4>2. /\ Len(inbox'[w]) = Len(inbox[w]) + 1
            /\ \A i \in 1..Len(inbox'[w]) :
                 \/ i \in 1..Len(inbox[w]) /\ inbox'[w][i] = inbox[w][i]
                 \/ inbox'[w][i] = TaskAdded
        BY <3>1, <4>1
      <4> QED
        BY <2>2, <2>3, <3>1, <3>3, <4>1, <4>2
    <3>4. CASE Live(w) /\ Full(w)
      <4>1. inbox'[w] = Append(Tail(inbox[w]), TaskAdded) /\ inbox[w] # <<>>
        BY <2>1, <3>1, <3>4 DEF Publish, Full
      <4>2. /\ Len(inbox'[w]) = Len(inbox[w])
            /\ \A i \in 1..Len(inbox'[w]) :
                 \/ i + 1 \in 1..Len(inbox[w]) /\ inbox'[w][i] = inbox[w][i + 1]
                 \/ inbox'[w][i] = TaskAdded
        BY <3>1, <4>1
      <4> QED
        BY <2>2, <2>3, <3>1, <3>4, <4>2 DEF Full
    <3> QED
      BY <3>2, <3>3, <3>4
  <2> QED
    BY <2>1, <2>2, <2>3 DEF Live
<1>4. ASSUME NEW w \in Workers, Exit(w), pc[w] = "idle", phase = "serving" => lagged[w]
      PROVE  ServingInv'
  <2>1. /\ UNCHANGED <<request, phase, graceful, lagged>>
        /\ \A v \in Workers : v # w => inbox'[v] = inbox[v] /\ pc'[v] = pc[v]
        /\ inbox'[w] = <<>> /\ Len(inbox'[w]) = 0
    BY <1>4 DEF Exit, TypeOK
  <2>2. IsFiniteSet(Accepted') /\ Accepted' = Accepted /\ Cardinality(Accepted) \in Nat
    BY <2>1, FS_CardinalityType DEF Accepted
  <2> QED
    BY <1>4, <2>1, <2>2 DEF Live
<1>5. ASSUME NEW w \in Workers, TakeStop(w) PROVE ServingInv'
  <2>1. Exit(w) /\ pc[w] = "idle" /\ inbox[w] # <<>> /\ Head(inbox[w]) = Stop
    BY <1>5 DEF TakeStop, Delivers
  <2>2. 1 \in 1..Len(inbox[w]) /\ inbox[w][1] = Stop
    BY <2>1 DEF TypeOK
  <2>3. phase # "serving"
    BY <2>2 DEF Stop, TaskAdded
  <2> QED
    BY <1>4, <2>1, <2>3
<1>6. ASSUME NEW w \in Workers, TakeLagged(w) \/ TakeTimeout(w) PROVE ServingInv'
  BY <1>4, <1>6 DEF TakeLagged, TakeTimeout
<1>7. ASSUME NEW w \in Workers, TakeSignal(w) PROVE ServingInv'
  <2>1. /\ inbox[w] # <<>> /\ inbox' = [inbox EXCEPT ![w] = Tail(@)]
        /\ UNCHANGED <<request, phase, graceful, lagged>> /\ Live(w)
        /\ \A v \in Workers : Live(v)' <=> Live(v)
    BY <1>7 DEF TakeSignal, Delivers, Live, Ended, TypeOK
  <2>2. Accepted' = Accepted /\ Cardinality(Accepted) \in Nat
    BY <2>1, FS_CardinalityType DEF Accepted
  <2>3. /\ Len(inbox[w]) \in Nat /\ Len(inbox'[w]) = Len(inbox[w]) - 1
        /\ \A i \in 1..Len(inbox'[w]) : inbox'[w][i] = inbox[w][i + 1]
    BY <2>1, DeliverTypes DEF TypeOK
  <2>4. \A i \in 1..Len(inbox'[w]) : i + 1 \in 1..Len(inbox[w])
    BY <2>3
  <2>5. \A v \in Workers : v # w => inbox'[v] = inbox[v]
    BY <2>1 DEF TypeOK
  <2> QED
    BY <2>1, <2>2, <2>3, <2>4, <2>5
<1>8. ASSUME NEW w \in Workers, TakeGracefulStop(w) PROVE ServingInv'
  <2>1. /\ inbox[w] # <<>> /\ Head(inbox[w]) = GracefulStop /\ UNCHANGED <<phase, request>>
    BY <1>8 DEF TakeGracefulStop, Delivers
  <2>2. 1 \in 1..Len(inbox[w]) /\ inbox[w][1] = GracefulStop
    BY <2>1 DEF TypeOK
  <2>3. phase # "serving"
    BY <2>2 DEF GracefulStop, TaskAdded
  <2> QED
    BY <1>2, <2>1, <2>3 DEF Accepted
<1>9. ASSUME NEW w \in Workers, Pop(w) \/ StartTask(w) \/ FinishTask(w) \/ Respond(w)
      PROVE  ServingInv'
  <2>1. /\ UNCHANGED <<request, phase, graceful, inbox, lagged>>
        /\ \A v \in Workers : Live(v)' <=> Live(v)
    BY <1>9 DEF Pop, StartTask, FinishTask, Respond, topicVars, workerVars, Live, Ended, TypeOK
  <2> QED
    BY <2>1 DEF Accepted
<1>10. ASSUME NEW w \in Workers, Cancel(w) PROVE ServingInv'
  BY <1>2, <1>10 DEF Cancel, Accepted
<1>11. ASSUME NEW t \in Tasks, SendRequest(t) \/ SpawnHandler(t) PROVE ServingInv'
  <2>1. Accepted' = Accepted /\ UNCHANGED <<phase, graceful, inbox, lagged, pc>>
    BY <1>11 DEF SendRequest, SpawnHandler, Accepted, topicVars, workerVars, TypeOK
  <2> QED
    BY <2>1 DEF Live
<1>12. CASE BeginStop \/ DispatcherStep \/ DeadlinePasses
  <2>1. phase' # "serving"
    BY <1>12 DEF BeginStop, DispatcherStep, PollActive, PollPending, WakeWorkers,
                 BroadcastStop, StopReturns, DeadlinePasses, Waiting
  <2>2. Accepted' = Accepted
    BY <1>12 DEF BeginStop, DispatcherStep, PollActive, PollPending, WakeWorkers,
                 BroadcastStop, StopReturns, DeadlinePasses, Accepted, TypeOK
  <2> QED
    BY <1>2, <2>1, <2>2
<1>13. CASE Terminated \/ UNCHANGED vars
  BY <1>1, <1>13 DEF Terminated, vars
<1> QED
  BY <1>3, <1>5, <1>6, <1>7, <1>8, <1>9, <1>10, <1>11, <1>12, <1>13 DEF Next, WorkerStep

LEMMA ServingInit == Init => ServingInv
<1> SUFFICES ASSUME Init PROVE ServingInv
  OBVIOUS
<1>1. Accepted = {} /\ IsFiniteSet(Accepted) /\ Cardinality(Accepted) = 0
  BY FS_EmptySet DEF Init, Accepted
<1>2. \A w \in Workers : inbox[w] = <<>> /\ Len(inbox[w]) = 0 /\ Live(w)
  BY DEF Init, Live, Ended
<1> QED
  BY <1>1, <1>2 DEF Init, ServingInv

\* As long as no more tasks have been accepted than a receiver can buffer, every worker
\* of a serving dispatcher is still running.
THEOREM WorkersOutliveBursts == Spec => []LagNeedsOverflow
<1>1. TypeOK /\ ServingInv /\ [Next]_vars => ServingInv'
  BY ServingStep
<1>2. ServingInv => LagNeedsOverflow
  BY DEF ServingInv, LagNeedsOverflow
<1> QED
  BY <1>1, <1>2, ServingInit, TypeCorrect, PTL DEF Spec

\* While the dispatcher serves, a worker sleeps beside a backlog only when it lagged (and is
\* about to leave), for which more tasks must have been accepted than a receiver can buffer.
NobodySleepsBesideBacklog ==
  phase = "serving" /\ queue # <<>> =>
    \A w \in Workers : pc[w] = "idle" /\ inbox[w] = <<>> =>
      lagged[w] /\ Cardinality(Accepted) > Capacity

\* A task that waits for a worker keeps every worker of a serving dispatcher awake, although
\* wake-ups are broadcast and not tied to tasks.
THEOREM BacklogKeepsWorkersAwake == Spec => []NobodySleepsBesideBacklog
<1>1. TypeOK /\ ServingInv /\ [Next]_vars => ServingInv'
  BY ServingStep
<1>2. ASSUME TypeOK, ServingInv, NoLostWakeup PROVE NobodySleepsBesideBacklog
  <2>1. ASSUME NEW w \in Workers, phase = "serving", queue # <<>>, pc[w] = "idle",
               inbox[w] = <<>>, ~lagged[w]
        PROVE  FALSE
    <3>1. Len(inbox[w]) = 0 /\ Wakeups(w) = 0
      BY <2>1 DEF Wakeups
    <3>2. Attentive(w)
      BY <1>2, <2>1, <3>1 DEF Attentive, ServingInv, Live, Ended
    <3>3. Len(queue) <= 0 /\ queue \in Seq(Tasks)
      BY <1>2, <3>1, <3>2 DEF NoLostWakeup, TypeOK
    <3> QED
      BY <2>1, <3>3
  <2> QED
    BY <1>2, <2>1 DEF NobodySleepsBesideBacklog, ServingInv
<1> QED
  BY <1>1, <1>2, ServingInit, TypeCorrect, WakeupsCoverQueue, PTL DEF Spec

=============================================================================
