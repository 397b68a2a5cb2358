# A TLA+ model of the game server

This directory specifies, model-checks and proves properties of the server in
`src/` (Rust, tokio): the dispatcher with its task workers, the inventories
with their background restore and stop, the persistence worker, websocket
sessions, and the life of inventories and sessions through to the end of the
process. The modules are translated from the code; `PROJECT.json` maps each definition
to the lines it stands for.

    tlc -workers 2 -config TaskPoolSafety.cfg MCTaskPool    # a model-checking run
    tlapm TaskPoolProofs.tla                                # the proofs

## 1. The system

Paths below are relative to `src/src/`.

| part | state | operations | talks to |
|---|---|---|---|
| Dispatcher, task side (`actor/dispatcher.rs`) | mailbox, `queue` (mutex), `active_tasks` (atomic), `JoinSet` of workers | `handle_task_request`, graceful stop: announce, wait, broadcast, join, abort | sessions through mpsc and oneshot, workers through the task topic |
| Workers (`actor/worker.rs`) | receiver, local `graceful_stop`, the task in hand | the `select!` loop, `process_next` | queue, counter, a session's response channel |
| Broker (`actor/broker.rs`) | topics: `HashMap` of tokio broadcast channels of capacity 100 | `topic`, `publish` | everybody |
| Dispatcher, inventory side | `inventories` (mutex), a semaphore of 10 permits | add, remove | inventories, sessions |
| Inventory (`actor/inventory.rs`) | `status`, `resources`, `reserved` (a mutex each) | `new` with restore, `listen` with reserve and release, `stop` with persist | inventory topic, persistence worker |
| Persistence (`persistence/worker.rs`, `inmemory.rs`) | mailbox, a map under a `RwLock` | set, get, delete, stop | inventories, `main` |
| WebSocket session (`api/websocket.rs`) | response channel of capacity 100, three tasks | parse, send a task, add and remove the inventory | dispatcher, workers |
| Process (`main.rs`) | handles and the shutdown channel | start, wait for Ctrl+C, stop in order with timeouts | all |
| Tracing, examples, `blueprint` | - | - | - |

How they interact. A session sends a task request through the dispatcher's
mailbox; a detached handler pushes it on the queue and publishes `TaskAdded`;
every worker hears every signal and one pops the task, counts itself active,
sleeps, uncounts itself and sends the result to the session's response
channel. A session also adds an inventory, under its own id, and removes it
when the client leaves. Inventories listen on one topic, shared by all of
them, for reserve and release requests, and answer on the same topic. Nothing
in `src/` sends such requests yet except the tests of `inventory.rs`, and
nothing else puts resources in. On Ctrl+C the dispatcher announces a graceful
stop, waits for the tasks, broadcasts `Stop` and joins the workers; `main`
then stops the persistence worker.

What is hard, and what makes each part correct:

- *Task pool.* Wake-ups are broadcast and not tied to tasks, receivers lag,
  the counter and the queue are read apart from each other, handlers are
  detached, a slow client blocks a worker, workers are cancelled in the middle
  of a task. Correct: no accepted task is lost, done twice or left sleeping
  beside idle workers; the counter agrees with the workers; shutdown ends and
  finishes what it says it has waited for.
- *Inventory.* A check and its update are under separate locks, the restore
  overwrites both maps at any time, `stop` gives up after 400 ms, u64
  arithmetic is unchecked and panics poison the mutexes. Correct: resources
  are conserved, a receipt is redeemed once, what is stored is what was
  acknowledged, `stop` returns.
- *Inventory side of the dispatcher.* `remove` holds the mutex and a permit
  while it blocks on `stop`; two sessions may share an id. Correct: two
  listeners of one id only after a forced stop, no inventory without a session, a save
  that loses nothing an earlier one stored, and an answer to every request.
- *Persistence.* Operations behind `Stop` are dropped. Correct: a reply means
  that the operation was done, in order, and every caller hears something.
- *Session.* The writer is aborted before the response channel is empty.
  Correct: responses arrive in order and none is skipped, all of them while the
  session lasts; a session without client ends and leaves no task behind.
- *Process.* The dispatcher and persistence are gone before sessions clean
  up; `main` waits no longer than the dispatcher may take. Correct: whatever ends
  first, requests are answered or fail, and saves are not lost.

`PROJECT.json` lists these hazards at their lines, each with the properties
that would catch it or the reason why none does.

## 2. Modules

| module | what it is |
|---|---|
| `TaskPool` | dispatcher's task side, workers, task topic |
| `TaskService` | the abstract service that `TaskPool` implements: accepted tasks start in order, run, finish |
| `TaskPoolProofs` | theorems about `TaskPool` and their TLAPS proofs |
| `MCTaskPool`, `TaskPool*.cfg` | instances for TLC |
| `Holdings` | what an inventory's two maps hold, and how much that is |
| `Inventory` | one inventory from `new` to the end of `stop`, with its topic and the persistence worker |
| `Ledger` | the atomic ledger that `Inventory` implements: it grants and redeems in one step each |
| `InventoryProofs` | theorems about `Inventory` and their TLAPS proofs: types, gaps, receipts, saves |
| `LedgerProofs` | theorems about the amounts of `Inventory`: conservation, no overflow, the refinement |
| `MCInventory`, `Inventory*.cfg` | instances for TLC |
| `Persistence` | the persistence worker over its in-memory map, its callers, and main's `Stop` |
| `KeyValueStore` | the atomic store that `Persistence` implements |
| `PersistenceProofs` | theorems about `Persistence` and their TLAPS proofs |
| `MCPersistence`, `Persistence.cfg` | the instance for TLC |
| `WsSession` | one serving session: reader, forwarder, writer, its two channels, its client |
| `WsSessionProofs` | theorems about `WsSession` and their TLAPS proofs |
| `MCWsSession`, `WsSession.cfg` | the instance for TLC |
| `Lifecycle` | sessions that share inventory ids, the dispatcher's handlers under mutex and semaphore, inventories, persistence and the shutdown, composed |
| `LifecycleProofs` | theorems about `Lifecycle` and their TLAPS proofs |
| `MCLifecycle`, `Lifecycle.cfg` | the instance for TLC with two sessions |
| `MCLifecyclePermits`, `LifecyclePermits.cfg` | the instance with more sessions than permits |

How they fit. `TaskPool`, `Inventory`, `Persistence` and `WsSession` each look at one
part in full detail, with what its surroundings may do to it. `Lifecycle` puts the
parts together at the grain at which they meet: a whole request, a whole `stop`,
a whole operation of the store. What it takes from a detailed module is what that
module shows: a `stop` returns, forced or not (`StopReturns`); the dispatcher's
`stop` ends (`StopEnds`); an operation is atomic, in the order of the mailbox, or
fails behind `Stop` (`ImplementsStore`); a session that lost its client leaves
(`SessionEnds`). `WsSession` justifies in turn what `TaskPool` assumes of sessions,
that a worker with a task in its hands is held up by a stalled one only (`WorkersReleased`).

An operator whose comment says "Mutation of" the one after it is that operator with
a plausible bug; no specification uses it. `PROJECT.json` pairs each property
with a mutation that violates it.

A step of a model ends where the program lets another task interleave on
shared state: at an `await`, where a mutex is released, at an atomic access.
Two adjacent pieces of local work are one step.

### 2.1 TaskPool

| variable | in the code |
|---|---|
| `request[t]` | how far a `TaskRequest` has come: mailbox, spawned handler, answered |
| `queue`, `activeTasks` | `Dispatcher::queue`, `Dispatcher::active_tasks` |
| `inbox[w]`, `lagged[w]` | what worker `w`'s broadcast receiver has unread, and whether it lost something |
| `pc[w]`, `graceful[w]`, `holding[w]` | where the worker's future is, its local flag, the task popped |
| `done` | tasks handed to `respond_to` |
| `phase`, `seenActive`, `expired` | the dispatcher's own future during `stop`, the count it read, the elapsed time |
| `drained` | history: what had been accepted when the wait saw nothing left |

Handlers: `SendRequest`, `SpawnHandler`, `HandleTaskRequest`. Workers:
`TakeSignal`, `TakeGracefulStop`, `TakeStop`, `TakeLagged`, `TakeTimeout` are
the arms of `select!`; `Pop`, `StartTask`, `FinishTask`, `Respond` are the four
steps of `process_next`. Shutdown: `BeginStop`, then `PollActive`,
`PollPending` and `WakeWorkers` (one round of `wait_for_tasks_completion`),
`BroadcastStop`, `StopReturns`, and `Cancel` for `abort_all`.

Abstractions:

- Handlers run in any order, since each is spawned. The semaphore is left out:
  a task handler waits for nothing while it holds its permit.
- `Dispatcher::broadcast` walks the topics in `HashMap` order and returns at
  the first one without receivers. `InventoryFirst` says whether the inventory
  topic comes first; whether it has a receiver at that moment is any, because
  listeners come and go with sessions and may lag.
- `Stalled` are tasks whose session does not read: their `Respond` is never
  enabled. Who stalls does not change during a run.
- Time is `expired` only; a worker's one-second timeout may happen whenever
  its receiver is empty.
- tokio rounds the channel capacity up to a power of two (100 to 128). The
  model takes it as a constant.
- `Dispatcher::force_stop` and `Dispatcher::start` have no caller in the
  program. (`start` passes a oneshot receiver whose sender is dropped at once,
  so its loop would stop at once.)

### 2.2 Inventory

| variable | in the code |
|---|---|
| `status`, `stock`, `reserved`, `poisoned` | the three mutexes and the poisoning of the latter two |
| `listener`, `pending` | the spawned loop of `listen`, and what it carries from a check to its update |
| `inbox`, `lagged` | its broadcast receiver |
| `restore`, `loaded` | the blocking thread of `new` |
| `stop` | `Inventory::stop` as the dispatcher runs it |
| `mailbox`, `store`, `persistence` | the persistence worker with this inventory's key |
| `granted`, `returned`, `overwritten`, `stale`, `forced`, `lateRestore` | history: which ids were answered, which of them a restore touched, and which of the races happened |

`CheckReserve`/`CommitReserve` and `LookUpReceipt`/`CommitRelease` are the two
lock sections of each request; `serialize` holds both locks to the end of its
statement, so `Save` takes one consistent snapshot. `PanicOn` is the overflow
panic of a debug build, with the amounts that the `HashMap`'s order had already
changed; `% Limit` in `Changed` is the release build. Both are explored. JSON is
represented by the value it decodes to. `ClientSends` and `Insert` are
environment: the first is any user of the topic (clients, other inventories,
`Dispatcher::broadcast`), the second is what the tests do before `listen`.
`ApplyRestore` has no branch for poisoned locks: the only panics need a restore
that was applied before (`PanicNeedsRestore`), and there is one restore.

Three assumptions on the constants are about more than types. `ReceiptIdsFinite`: there are
finitely many UUIDs, so that what is on receipts has a total. `StoredAtStartSound`: what an
earlier life stored can be given back (`Sound`: every total fits a u64, and receipts name
resources that have an entry). That is what `StoreSound` says this life stores, as long as
its restore did not come between a check and its update; a life after one in which it did is
not covered. And `InventoryAssumption` takes requests' amounts to fit a u64, as the type does.

The refinement: `Ledger` has the maps as they are, `open` once the listener has started,
`restored` once the restore was applied, and `broken` when that was in a gap (`stale`).
`CommitReserve` is `Grant`, `CommitRelease` is `Redeem`, `Insert` is `Put`, `Listen` is `Open`,
`ApplyRestore` is `Restore`; checks, refusals, lags, saves and stops are stutters. `Grant` adds
and subtracts without `%`, and `Panic` is no step of it: the unchecked u64 arithmetic under
separate locks is exact. Once `broken`, the ledger promises nothing.

### 2.3 Persistence

| variable | in the code |
|---|---|
| `pc[c]`, `call[c]`, `answer[c]` | a caller (`Inventory::restore`, `Inventory::persist`): its operation, how far it is, what its send or its oneshot gave it |
| `mailbox` | `PersistenceWorker::inbox`; callers' names and `StopOp` |
| `serving`, `outcome` | the operation whose backend call returned and whose reply is not sent |
| `store` | `MemoryDatabase::db` |
| `phase` | `run` in its loop, out of it, receiver dropped |
| `ahead` | history: whose operations were queued when main sent `Stop` |

`ProcessOperation` is `process_operation` with the backend's set, delete or get
(`Written`, `Found`); `SendReply` is the reply. `HandleStop`, `CloseInbox` and `DropOp`
are the end of the worker: between the last two, a caller may still put an
operation into a mailbox that nobody will read. The mailbox has no bound: a
sender that waits for room keeps its place in line, so waiting senders are the
rear of the same sequence. `Delete` has no caller in the program; the worker
serves it, and so does the model.

The refinement: a client sees an operation's answer in `KeyValueStore` as soon as the
backend has returned, that is, `answer` there is `outcome` for the client being served
and this client's `answer` otherwise.

### 2.4 WsSession

| variable | in the code |
|---|---|
| `reader`, `received`, `reply` | the session's task in `process_incoming_messages` and after it, the number of messages read, the response it is about to queue |
| `task` | its `TaskRequest` in the dispatcher's mailbox, with a handler, or pushed |
| `backlog`, `taken` | its tasks in the queue, and those that a worker popped and has not responded to; each holds a clone of `response_tx` |
| `dispatcher` | receives; has left its loop, with its mailbox open and nobody receiving; has returned, with its mailbox dropped |
| `responses`, `writes` | the two channels, 100 places each in the program |
| `forwarder`, `carrying`, `writer`, `writing` | the two spawned tasks and what each has taken and not passed on |
| `client`, `delivered` | reads, stalls, or is gone; what it has got |
| `accepted` | history: everything that entered the response channel |

A response is its kind and the number of its message. A text message is one that
parses (`ReadRequest`) or does not (`ReadGarbage`). Sending on a full channel
waits, on a closed one it fails and the error is dropped (`Enqueue`, `PassOn`).
`abort` takes effect at the writer's next await, so an aborted writer may go on
for a while (`Cancel`). What becomes of `RemoveInventory` is in `Lifecycle`.

The task pool is here as one session sees it. `TakeTask` is a worker's pop, the
session's oldest task first; it may never come, since workers lag and leave, ignore
`TaskAdded` after `GracefulStop`, or are busy with other sessions. `TaskLost` is
`abort_all` and what goes with the queue at the end.

### 2.5 Lifecycle

| variable | in the code |
|---|---|
| `session[s]` | `accept_connection`: where it is, and which reply it waits for |
| `handler[s]`, `line` | the handler the dispatcher spawned for its request; the queue of the semaphore, whose first `Permits` hold one |
| `inventories`, `poisoned`, `target[s]` | the map under its mutex, a panic under it, the object `remove` took out |
| `listener[i]`, `restore[i]`, `content[i]`, `broken` | an inventory object, named by the session that created it: its listening task, its restore thread, its maps and their poisoning |
| `ops`, `store`, `persistence` | the persistence worker: its mailbox, what is stored, whether it has ended |
| `dispatcher`, `main` | whether the dispatcher's mailbox is alive; how far `main` is |
| `forced` | history: objects whose `stop` gave up on a listener that is still there |

Abstractions:

- An inventory's content is the set of marks that clients of the topic left in it, one
  per object at most; a mark stands for whatever was reserved, released or put in.
  What a save may lose is which marks are not in it. `store` starts with or without
  a save of an earlier session.
- tokio's semaphore is first come, first served; handlers reach it in any order,
  so the mailbox of the dispatcher is a set. A handler that holds the inventories
  mutex is in one of the states `Holding`.
- An object's `status`, by which `stop` and `listen` tell each other what they do, is in
  `Inventory`; here a stop finds the listener ended or gives up on it.
- Time is left out: `StopWaits` gives up, and `StopPersistence` stops waiting for the
  dispatcher, at any moment. Both can happen before the other side had a chance, which
  is what the code's timeouts allow on a slow machine.
- The reply to a `Get` is applied when it is given: nobody reads `content` and `store`
  in a way that tells a later application from a later reply.
- `DispatcherEnds` stands for the whole of `Dispatcher::stop` (`TaskPool` has it); handlers
  are detached and go on. Sessions that `main` aborts at the end take no more steps.
- `main` sends `Stop` once the dispatcher is done or ten seconds are over; the wait for
  persistence and the five seconds for sessions change no state but `main`'s.

## 3. Runs

Every property is checked on a state space that TLC exhausts.

| run | instance | what it shows |
|---|---|---|
| `pool_safety` | 2 workers, 4 tasks (one stalled), capacity 3, either order of topics; symmetric | `TypeOK`, `NoLostWakeup`, `OnePlace`, `ActiveTasksExact`, `DrainedStop`, `LagNeedsOverflow`, `ImplementsService` (1.5 million states) |
| `pool_liveness` | 2 workers, 3 tasks (one stalled), capacity 2, a broadcast may miss the task topic | `TaskServed`: what was accepted while serving is done, or its worker was aborted, or no useful worker is left; `StopEnds`, `ReplyArrives` (1.1 million states) |
| `inv_safety` | 2 resources, 2 requests, 3 ids, amounts 0 and 1, capacity 2; stored before or not | `TypeOK`, `GapHolds`, `PanicNeedsRestore`, `ReceiptsExact`, `CleanStop`, `StoreSound`, `Conserved`, the refinement `ImplementsLedger`, and under fairness `StopReturns` (1.7 million states) |
| `persistence` | 3 callers, 1 key, 2 values | `TypeOK`, `FlushedBeforeStop`, `EveryCallAnswered`, and the refinement `ImplementsStore` (150,720 states) |
| `ws_session` | 3 messages, channels of 1 | `TypeOK`, `NothingLost`, `DeliveredInOrder`, `ResponsesArrive`, `SessionEnds`, `WorkersReleased`, `NoTaskLeft` (916,170 states) |
| `lifecycle` | 2 sessions with one id, 2 permits | `TypeOK`, `OneListener`, `NoOrphan`, `SavesAccumulate` (228,823 states) |
| `lifecycle_permits` | 3 sessions with one id, 2 permits | `EveryRequestAnswered` (572,375 states) |
| `pool_wake_up` | 2 workers, 2 tasks | violated: the wake-ups of `wait_for_tasks_completion` are ignored by workers that were told to stop gracefully |
| `pool_broadcast` | same | violated: `Stop` may not reach the task topic |
| `pool_wait` | same | violated: the wait may end with a task in a worker's hands |
| `inv_kept` | 1 resource, 1 request, 2 ids | violated: the restore drops a receipt granted before it |
| `inv_listener` | same | violated: a listener that `stop` gave up on stays |

The five violated properties quote a comment, a log message or a test of the
repository; `PROJECT.json` "findings" tells each story.

Bounds and why they are enough to meet the interesting cases:

- Two workers compete for a task, hear the same signal, and one can be blocked,
  aborted or gone while the other serves. Four tasks with capacity 3 overflow a
  receiver, as do three with capacity 2 where liveness is checked, and shutdown messages
  count too. One
  stalled task leaves a worker blocked for ever.
- Two resources make a request that is covered in part; amounts below
  `Limit = 2` underflow and overflow after a single stale restore; ids are one
  of an earlier life and two new ones; capacity 2 lets a client's message and
  the listener's own answer overflow the ring.
- Three callers of one key: one is served while one is queued on either side of
  `Stop`. Keys do not interact in the map; the theorem is for any number.
- Channels of one place and three messages: with the forwarder's and the writer's hand
  four responses fill everything, and the reader or a worker waits with a fifth.
- Two sessions and one id: a session adds, and removes, once, so at most one object
  is created while another of its id is stopped, forced or saved.
  Sessions with ids of their own meet at the mutex, the semaphore and the mailbox of
  persistence only, as these two do.
- Three sessions and two permits: a remove holds one permit and the map, an add or a
  remove that waits for the map holds the other, and the third session's request, of
  whichever kind, waits for a permit. The instance leaves out what handlers do not wait
  for, and restricts no action that is assumed fair: nothing but an empty inventory is
  stored, no handshake is refused, sessions connect in one order, clients leave no marks
  (`content` decides nothing but what a save says), no listener ends by itself (to
  `StopWaits` that is the same as giving up on it, but for `forced`), and only the first
  session's object may begin to listen, then panic and poison the map.
- Bounds in guards: `Mark` leaves one mark per object; `ClientSends` publishes at most one reserve request per
  id left to grant, `Insert` puts in no more than fits with what is reserved.
  `Tasks` bounds the requests of `TaskPool`.

Fairness. tokio polls every ready task, so each worker, each handler, the
dispatcher, the listener, the restore thread, the caller of `stop` and the
persistence worker are weakly fair, one condition per sequential process; none
needs strong fairness. Weak fairness on a worker's timeout and on `Cancel` is
part of it. `DeadlinePasses` is fair in `FairSpec` only: time passes.
`PatientSpec` omits it for `pool_wake_up`, which asks what the wait achieves by
itself, however long it lasts. Clients need not send, nobody need remove an
inventory or press Ctrl+C, so those actions are not fair. In `WsSession` each of the session's
three tasks is weakly fair, and so are the dispatcher's receiving while it serves, the handler of a
request, the return of the dispatcher's `stop` (`StopEnds`), and a worker's response for each
task in its hands (`taken`): a worker that popped a task sleeps and then sends, as soon as
there is room. Nothing is assumed of a task that no worker took. It may stay in the queue for ever,
because its workers lagged and left, were told to stop and ignore `TaskAdded`, are held up
by other sessions, or were aborted (`pool_wake_up` shows one such behaviour, and `TaskServed`
names the exceptions). So `WorkersReleased` promises that workers are released, not that all
accepted tasks are done. A client need not read, stall or leave. In `Lifecycle` each
handler is, which is enough at the semaphore because it is first come, first
served, and at the mutex because a session adds and removes once; the dispatcher ends
once it is told to, and persistence serves its mailbox. A session may take as long as
it likes between requests.

Deadlock is checked in all runs; `Terminated` and `Idle` are the stuttering of a
program that is over.

## 4. Proofs

`TaskPoolProofs` proves, for every finite set of workers, every set of tasks and
every capacity, as theorems of `Spec`:

| theorem | property |
|---|---|
| `TypeCorrect` | `TypeOK` |
| `CounterCorrect` | `ActiveTasksExact` |
| `WakeupsCoverQueue` | `NoLostWakeup` |
| `NothingLostOrDuplicated` | `OnePlace` |
| `DrainedIsDone` | `DrainedStop` |
| `WorkersOutliveBursts` | `LagNeedsOverflow` |
| `PoolImplementsService` | `ImplementsService` |
| `BacklogKeepsWorkersAwake` | (no run) while the dispatcher serves, a worker sleeps beside a backlog only when it lagged |

The only assumption is `TaskPoolAssumption` (finitely many workers, a positive
capacity, `NoTask` not a task), which TLC evaluates in every run.

The argument. `TypeOK` is not inductive: `activeTasks - 1` stays a natural
number only if the counter is at least the number of workers at work, and that
count changes as expected only if a worker holds a task exactly where its `pc`
says. `PoolInv` is the conjunction of `TypeOK`, `HeldByPc` and
`ActiveTasksExact`; it is inductive, and one lemma per action says so. On
top of it:

- `NoLostWakeup` is inductive beside `PoolInv`: a push adds one to the queue
  and one signal to every attentive receiver (which would otherwise lag and not
  be attentive); a pop spends the signal that led to it.
- `OnePlace` needs what `Pop` and the handler do to a sequence without
  repetitions (`PushContents`, `PopContents`).
- `DrainedStop` needs `DrainedInv`: a task that had been accepted when the wait saw
  an empty queue is never in the queue again. With `OnePlace` it is in a worker's
  hands or done, and by `HeldByPc` a worker that exited by itself holds nothing.
- `LagNeedsOverflow` needs `ServingInv`: while the pool serves, a receiver has at
  most one unread message per accepted task, nothing but `TaskAdded`, and a
  worker that is gone has lagged.
- `BacklogKeepsWorkersAwake` joins `NoLostWakeup` and `ServingInv`: a serving pool's receivers
  hold nothing but signals, so a worker that did not lag is attentive.
- `PoolImplementsService` maps each action to a step of `TaskService` or to a
  stutter (`ServiceStep`), using `PoolInv` and `OnePlace`.

`InventoryProofs` proves, for all sets of resources, requests and ids, every
limit, capacity and set of earlier snapshots that satisfy `HoldingsAssumption` and
`InventoryAssumption` (requests name known resources and fit below `Limit`; the markers for
"nothing" are not values):

| theorem | property |
|---|---|
| `InventoryTypes` | `TypeOK` |
| `ChecksHold` | `GapHolds` |
| `ReceiptsRedeemedOnce` | `ReceiptsExact` |
| `CleanStopSaves` | `CleanStop` |
| `RepliesAlwaysComing` | (no run) a restore or a stop that awaits a reply has its operation before a running worker |

- `TypeOK` needs `RestoreHasSnapshot`: what `ApplyRestore` reads is a snapshot.
- `GapHolds` is inductive: in a gap the listener has no other step, clients only
  append to the topic, and a restore sets `stale`.
- `ReceiptsExact` needs `ReturnedKnown`: returned ids are granted ids or ones that
  a restore touched, so a new id is not among them.
- `CleanStop` needs `EndedInv` (a stop that was not forced found the listener
  ended, so only a restore can still change the maps) and `SaveInv` (at most
  one save is in the mailbox, and stop waits for it).

`LedgerProofs` proves, with `StoredAtStartSound` and `ReceiptIdsFinite` besides:

| theorem | property |
|---|---|
| `NoOverflow` | `PanicNeedsRestore` |
| `StoredIsSound` | `StoreSound` |
| `AmountsConserved` | `Conserved` |
| `InventoryImplementsLedger` | `ImplementsLedger` |
| `KeptUntilRestore` | until something is restored, `ReservationKept`, which `inv_kept` refutes in general |

- A sum over the receipts would need an induction. Instead, a total counts the *units* on
  receipts, pairs of a receipt and a number below its amount (`Units` in `Holdings`), and
  the facts on the cardinality of unions and products apply (`AddedUnits`, `RemovedUnits`).
- `PanicNeedsRestore` is far from inductive. An addition fits only if the total of its
  resource is below `Limit`, so `LedgerInv` says that all holdings are `Sound`: the
  current ones, and those that may become current in this life or the next, on their way
  from `store` to the restore or in the mailbox (`AllSound`). A receipt under an id that is
  handed out again would lose units, so `Known` says which ids receipts have.
- `LedgerInv` holds until the restore comes between a check and its update, and needs
  `GapHolds` for that the checks still hold. It also needs `GetAwaited`: at most one `Get` is in
  the mailbox, and the restore awaits it. Otherwise a second reply could be applied after
  the first one, outside of what `stale` records.
- A step then is exact (`SubtractingExact`, `AddingExact`), moves units between stock and
  receipts (`ReservingMoves`, `ReleasingMoves`), does not panic (`NoPanic`), and is a step of
  the ledger (`CommitGrants`, `CommitRedeems`, `InsertPuts`; `StepKeepsPromise`).

`PersistenceProofs` proves, for all clients, keys and values
(`PersistenceAssumption`: the markers are no values and no clients):

| theorem | property |
|---|---|
| `PersistenceTypes` | `TypeOK` |
| `QueuedIsFlushed` | `FlushedBeforeStop` |
| `WorkerImplementsStore` | `ImplementsStore` |
| `CallersNeverForgotten` | (no run) a waiting caller's operation is being served or in the mailbox |

- `QueueInv` says who is where: a queued or served operation is its caller's only one,
  its caller waits, and a caller has an answer exactly when its `pc` says so.
  Without it a reply could reach a caller that is not waiting, or twice.
- `FlushedBeforeStop` needs `FlushInv`: an operation that is `ahead` and unanswered is
  being served or in the mailbox before `StopOp`, so `DropOp` never meets it.
- The refinement maps `ProcessOperation` to `Perform`, `DropOp` and `SendFails` to
  `Reject`, `HandleStop` to `Close` and everything else to a call, a return or a
  stutter (`StoreStep`).

`WsSessionProofs` proves, for any number of messages and any capacity of the channels
(`WsSessionAssumption`):

| theorem | property |
|---|---|
| `SessionTypes` | `TypeOK` |
| `SessionLosesNothing` | `NothingLost` |
| `SessionInOrder` | `DeliveredInOrder` |
| `SessionNeverAbandons` | (no run) the reader awaits only what somebody owes it; once it is over, the writer is cancelled or ended and the forwarder has `Stop` before it |

- `TypeOK` needs `ReaderInv`: the reader has received a message while it works on one,
  has a reply while it answers, and has numbered what is in `backlog` and `taken`, where a
  new task's number is not yet.
- `NothingLost` (as `Lossless`, in terms of an opaque `Cat` for `\o`) is inductive beside
  `CarrierInv`; each step of the forwarder and the writer is a regrouping of one
  concatenation (`MoveIn` to `MoveOut`).
- `DeliveredInOrder` does not follow from `NothingLost`, which is silent once a task has
  ended. `CarrierInv` says more: while the writer runs, what the client has got, the
  response in the writer's hand and the write channel begin what was accepted,
  also after the forwarder has ended; afterwards `delivered` no longer grows.

`LifecycleProofs` proves, for all sessions, ids, assignments of ids to sessions and
numbers of permits (`LifecycleAssumption`):

| theorem | property |
|---|---|
| `LifecycleTypes` | `TypeOK` |
| `SharedIdOneListener` | `OneListener` |
| `InventoriesHaveSessions` | `NoOrphan` |
| `SavesLoseNothing` | `SavesAccumulate` |
| `SessionsNeverStuck` | (no run) of the sessions that wait, one has a handler that can go on, or a save with a running worker |

- `IInv` is `TypeOK` with three parts, each inductive beside the others. `LineInv`: a handler
  works for a session that waits, and is in line exactly from the semaphore to its
  answer (so `Receive` puts nobody in line twice). `MutexInv`: one handler holds the
  map, the id it removed is not in the map meanwhile, and a pending save is its own.
  `ObjectInv`: what listens is in the map, is being stopped, or was given up.
- `OneListener` follows: two objects of one id are not both in the map, not both
  being stopped, nor one in the map while the other is being stopped.
- `NoOrphan` is inductive beside `IInv`.
- `SavesAccumulate` needs `SaveInv`: what is stored is contained in every object that will be
  saved and has restored, and in the pending save. `MutexInv` makes it inductive: when a
  save is stored, no other object of the id is in the map or on its way to be saved.
- `SessionsNeverStuck` needs `WaitInv`: a session that waits has a handler, the dispatcher
  receives while a request is in its mailbox, and persistence runs while a handler's save is
  pending. Then whoever is first in line has a permit, and finds the map unlocked or
  locked by one in line that can go on or waits for its save only.

The theorems marked "no run" are what the liveness properties rest on besides fairness:
nobody waits for something that nobody will do. `RepliesAlwaysComing` is the ground of
`StopReturns`, `CallersNeverForgotten` of `EveryCallAnswered`, `SessionNeverAbandons` of
`SessionEnds` and `NoTaskLeft`, `SessionsNeverStuck` of `EveryRequestAnswered`, and
`BacklogKeepsWorkersAwake` of `TaskServed`. Runs check the liveness properties on small instances,
the theorems say for every instance that no deadlock stands in their way.

Model-checked only:

- liveness (`TaskServed`, `StopEnds`, `ReplyArrives`, `StopReturns`, `EveryCallAnswered`,
  `ResponsesArrive`, `SessionEnds`, `WorkersReleased`, `NoTaskLeft`,
  `EveryRequestAnswered`): it rests on fairness and on counting down to an end, and is out of
  the prover's reach. Every invariant and every safety property of the passing runs is proved.

## 5. What could come next

- The lives of an inventory one after another: what a restore in a gap leaves in the store,
  and what the next life makes of it.
- The order in which `Dispatcher::broadcast` visits topics, with the listeners of
  `Lifecycle` as the inventory topic's receivers; `TaskPool` lets it be any.

## 6. Not modelled

- Tracing and OTLP export, the examples, `blueprint/model.rs` (a record type).
- Of the HTTP upgrade and the JSON of a request, everything but the outcome.
- `Dispatcher::force_stop` and `Dispatcher::start` (no caller).
- Lock errors of the queue and the database: no code panics while it holds those
  locks. Lock errors of the inventories map and of an inventory's maps are modelled.
- Creation of broker topics on first use, beyond whether a topic has receivers.
- Start-up: a port that cannot be bound ends the process before anything runs.
