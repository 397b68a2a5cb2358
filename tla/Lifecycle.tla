----------------------------- MODULE Lifecycle -----------------------------
(***************************************************************************)
(* Inventories from a session's AddInventory to its RemoveInventory, and   *)
(* the shutdown of the process: the dispatcher's handlers under the        *)
(* inventories mutex and the semaphore (src/src/actor/dispatcher.rs), the  *)
(* sessions around them (src/src/api/websocket.rs), main's order of        *)
(* stopping things with its timeouts (src/src/main.rs), and inventories    *)
(* and persistence with the behaviour that Inventory and Persistence       *)
(* describe in detail. Sessions may share an inventory id: the client      *)
(* chooses it.                                                             *)
(*                                                                         *)
(* An inventory object is named by the session whose AddInventory created  *)
(* it; a session adds once. What an object holds is the set of marks its   *)
(* clients left; each object can be marked once, with its own name.        *)
(***************************************************************************)
EXTENDS Naturals, Sequences, FiniteSets, SequencesExt

CONSTANTS
  Sessions, Ids,
  IdOf,        \* IdOf[s]: from the Authorization header, or a new UUID
  Permits,     \* CONCURRENT_TASKS
  None         \* no inventory

VARIABLES
  session,      \* session[s]: where the session's task is
  handler,      \* handler[s]: where the dispatcher's handler of its request is
  line,         \* handlers at the semaphore, first come first; the first Permits have one
  inventories,  \* inventories[id]: the object in the map, or None
  poisoned,     \* a handler panicked while it held the map
  target,       \* target[s]: the object that s's remove handler stops
  listener,     \* listener[i]: where the listener of object i is
  restore,      \* restore[i]: how far its restore has come
  content,      \* content[i]: the marks in it
  broken,       \* objects whose maps are poisoned
  ops,          \* persistence's mailbox
  store,        \* store[id]: {marks} where marks are stored under this id, or {}
  persistence,  \* running or closed
  dispatcher,   \* serving, gone
  main,         \* accepting; waiting for the dispatcher; joining what is left
  forced        \* history: objects whose stop gave up on their listener, until that ends

requestVars == <<session, handler, line>>
mapVars == <<inventories, poisoned, target>>
objectVars == <<listener, restore, content, broken>>
dbVars == <<ops, store, persistence>>
processVars == <<dispatcher, main>>
vars == <<requestVars, mapVars, objectVars, dbVars, processVars, forced>>

ASSUME LifecycleAssumption ==
  /\ IdOf \in [Sessions -> Ids]
  /\ Permits \in Nat \ {0}
  /\ None \notin Sessions

GetOp(i) == [op |-> "Get", object |-> i]
\* early: history, the object's restore is not applied yet.
SetOp(s) ==
  [op |-> "Set", by |-> s, id |-> IdOf[s], marks |-> content[target[s]],
   early |-> restore[target[s]] \in {"queued", "asked"}]
StopOp == [op |-> "Stop"]
Ops == [op : {"Get"}, object : Sessions] \cup [op : {"Stop"}]
         \cup [op : {"Set"}, by : Sessions, id : Ids, marks : SUBSET Sessions, early : BOOLEAN]

\* adding, asking, removing: waiting for the reply to a request.
Waiting == {"adding", "asking", "removing"}
SessionStates == {"absent", "connected", "serving", "leaving", "gone"} \cup Waiting
\* mailed: in the dispatcher's mailbox; queued: at the semaphore, then at the mutex;
\* created: the object is in the map and does not listen yet. Stopping to persisted hold
\* the inventories mutex.
Holding == {"stopping", "saving", "persisting", "persisted"}

HandlerStates == {"none", "mailed", "queued", "created"} \cup Holding

Stores == {{}} \cup {{marks} : marks \in SUBSET Sessions}

TypeOK ==
  /\ session \in [Sessions -> SessionStates] /\ handler \in [Sessions -> HandlerStates]
  /\ line \in Seq(Sessions) /\ IsInjective(line)
  /\ inventories \in [Ids -> Sessions \cup {None}]
  /\ poisoned \in BOOLEAN
  /\ target \in [Sessions -> Sessions \cup {None}]
  /\ listener \in [Sessions -> {"none", "spawned", "listening", "ended", "panicked"}]
  /\ restore \in [Sessions -> {"none", "queued", "asked", "applied", "failed"}]
  /\ content \in [Sessions -> SUBSET Sessions]
  /\ broken \subseteq Sessions
  /\ ops \in Seq(Ops)
  /\ store \in [Ids -> Stores]
  /\ persistence \in {"running", "closed"}
  /\ dispatcher \in {"serving", "gone"}
  /\ main \in {"accepting", "waiting", "joining"}
  /\ forced \subseteq Sessions

\* Sessions that came and went before these may have left something stored.
Init ==
  /\ session = [s \in Sessions |-> "absent"]
  /\ handler = [s \in Sessions |-> "none"]
  /\ line = <<>>
  /\ inventories = [id \in Ids |-> None] /\ poisoned = FALSE
  /\ target = [s \in Sessions |-> None]
  /\ listener = [i \in Sessions |-> "none"]
  /\ restore = [i \in Sessions |-> "none"]
  /\ content = [i \in Sessions |-> {}] /\ broken = {}
  /\ ops = <<>> /\ store \in [Ids -> {{}, {{}}}] /\ persistence = "running"
  /\ dispatcher = "serving" /\ main = "accepting"
  /\ forced = {}

-----------------------------------------------------------------------------
(***************************************************************************)
(* Sessions.                                                               *)
(***************************************************************************)
\* The connection is accepted; its handshake fails, or brings the id.
Connect(s) ==
  /\ main = "accepting" /\ session[s] = "absent"
  /\ \E state \in {"connected", "gone"} : session' = [session EXCEPT ![s] = state]
  /\ UNCHANGED <<handler, line, mapVars, objectVars, dbVars, processVars, forced>>

\* A session in state from sends a request and waits in state to; the send fails when the
\* dispatcher has dropped its mailbox.
Send(s, from, to, otherwise) ==
  /\ session[s] = from
  /\ IF dispatcher = "gone"
       THEN session' = [session EXCEPT ![s] = otherwise] /\ UNCHANGED handler
       ELSE /\ session' = [session EXCEPT ![s] = to]
            /\ handler' = [handler EXCEPT ![s] = "mailed"]
  /\ UNCHANGED <<line, mapVars, objectVars, dbVars, processVars, forced>>

SetupInventory(s) == Send(s, "connected", "adding", "gone")
RequestTask(s) == Send(s, "serving", "asking", "leaving")
CleanupInventory(s) == Send(s, "leaving", "removing", "gone")

\* Mutation of Leave: a session that ends does not clean up.
LeaveAtOnce(s) ==
  /\ session[s] = "serving"
  /\ session' = [session EXCEPT ![s] = "gone"]
  /\ UNCHANGED <<handler, line, mapVars, objectVars, dbVars, processVars, forced>>

\* handle_websocket_session returns (WsSession).
Leave(s) ==
  /\ session[s] = "serving"
  /\ session' = [session EXCEPT ![s] = "leaving"]
  /\ UNCHANGED <<handler, line, mapVars, objectVars, dbVars, processVars, forced>>

-----------------------------------------------------------------------------
(***************************************************************************)
(* The dispatcher's handlers, one task each.                               *)
(***************************************************************************)
\* process_message_content spawns the handler. Spawned tasks reach the semaphore in any order,
\* so the order of the mailbox does not matter.
Receive(s) ==
  /\ dispatcher = "serving" /\ handler[s] = "mailed"
  /\ handler' = [handler EXCEPT ![s] = "queued"]
  /\ line' = Append(line, s)
  /\ UNCHANGED <<session, mapVars, objectVars, dbVars, processVars, forced>>

HasPermit(s) == handler[s] = "queued" /\ \E n \in 1..Permits : n <= Len(line) /\ line[n] = s

\* Mutation of Locked: the map is unlocked while the removed object is stopped.
LockedToSave == \E s \in Sessions : handler[s] \in {"persisting", "persisted"}

\* Mutation of Locked: the map is unlocked while the stopped object is saved.
LockedToStop == \E s \in Sessions : handler[s] = "stopping"

\* remove_inventory_and_stop keeps the mutex until stop has returned.
Locked == \E s \in Sessions : handler[s] \in Holding

\* Mutation of Reply: the permit is kept.
ReplyHoldingPermit(s, state) ==
  /\ session' = [session EXCEPT ![s] = state]
  /\ handler' = [handler EXCEPT ![s] = "none"]
  /\ UNCHANGED line

\* The handler of s answers, which brings the session to the given state, and ends.
Reply(s, state) ==
  /\ session' = [session EXCEPT ![s] = state]
  /\ handler' = [handler EXCEPT ![s] = "none"]
  /\ \E n \in DOMAIN line : line[n] = s /\ line' = RemoveAt(line, n)

HandleTaskRequest(s) ==
  /\ HasPermit(s) /\ session[s] = "asking"
  /\ Reply(s, "serving")
  /\ UNCHANGED <<mapVars, objectVars, dbVars, processVars, forced>>

\* create_inventory_if_not_exists on a poisoned mutex, and on a map that has the id.
AddRefused(s) ==
  /\ HasPermit(s) /\ session[s] = "adding" /\ ~Locked /\ poisoned
  /\ Reply(s, "gone")
  /\ UNCHANGED <<mapVars, objectVars, dbVars, processVars, forced>>

AddExisting(s) ==
  /\ HasPermit(s) /\ session[s] = "adding" /\ ~Locked /\ ~poisoned
  /\ inventories[IdOf[s]] # None
  /\ Reply(s, "serving")
  /\ UNCHANGED <<mapVars, objectVars, dbVars, processVars, forced>>

\* On a vacant entry: Inventory::new (empty, its restore on a thread of its own) and insert.
AddNew(s) ==
  /\ HasPermit(s) /\ session[s] = "adding" /\ ~Locked /\ ~poisoned
  /\ inventories[IdOf[s]] = None
  /\ inventories' = [inventories EXCEPT ![IdOf[s]] = s]
  /\ restore' = [restore EXCEPT ![s] = "queued"]
  /\ handler' = [handler EXCEPT ![s] = "created"]
  /\ UNCHANGED <<session, line, poisoned, target, listener, content, broken, dbVars,
                 processVars, forced>>

\* After the mutex is free again: listen is spawned and the request answered.
Created(s) ==
  /\ handler[s] = "created"
  /\ listener' = [listener EXCEPT ![s] = "spawned"]
  /\ Reply(s, "serving")
  /\ UNCHANGED <<mapVars, restore, content, broken, dbVars, processVars, forced>>

RemoveRefused(s) ==
  /\ HasPermit(s) /\ session[s] = "removing" /\ ~Locked
  /\ poisoned \/ inventories[IdOf[s]] = None
  /\ Reply(s, "gone")
  /\ UNCHANGED <<mapVars, objectVars, dbVars, processVars, forced>>

RemoveEntry(s) ==
  /\ HasPermit(s) /\ session[s] = "removing" /\ ~Locked /\ ~poisoned
  /\ inventories[IdOf[s]] # None
  /\ target' = [target EXCEPT ![s] = inventories[IdOf[s]]]
  /\ inventories' = [inventories EXCEPT ![IdOf[s]] = None]
  /\ handler' = [handler EXCEPT ![s] = "stopping"]
  /\ UNCHANGED <<session, line, poisoned, listener, restore, content, broken, dbVars, processVars,
                 forced>>

\* Inventory::stop sees the listener's Stopped, or gives up after 400 ms.
StopWaits(s) ==
  /\ handler[s] = "stopping"
  /\ forced' = IF listener[target[s]] \in {"ended", "panicked"}
                 THEN forced ELSE forced \cup {target[s]}
  /\ handler' = [handler EXCEPT ![s] = "saving"]
  /\ UNCHANGED <<session, line, mapVars, listener, restore, content, broken, dbVars, processVars>>

\* Inventory::persist serializes and sends. On a closed mailbox it fails, which stop ignores.
Save(s) ==
  /\ handler[s] = "saving" /\ target[s] \notin broken
  /\ IF persistence = "running"
       THEN /\ ops' = Append(ops, SetOp(s))
            /\ handler' = [handler EXCEPT ![s] = "persisting"]
       ELSE /\ handler' = [handler EXCEPT ![s] = "persisted"]
            /\ UNCHANGED ops
  /\ UNCHANGED <<session, line, mapVars, objectVars, store, persistence, processVars, forced>>

\* serialize unwraps a poisoned lock: the panic poisons the inventories mutex too.
SavePanics(s) ==
  /\ handler[s] = "saving" /\ target[s] \in broken
  /\ poisoned' = TRUE /\ target' = [target EXCEPT ![s] = None]
  /\ Reply(s, "gone")
  /\ UNCHANGED <<inventories, objectVars, dbVars, processVars, forced>>

\* The mutex and the permit are free again; whether persist failed is not told.
Removed(s) ==
  /\ handler[s] = "persisted"
  /\ target' = [target EXCEPT ![s] = None]
  /\ Reply(s, "gone")
  /\ UNCHANGED <<inventories, poisoned, objectVars, dbVars, processVars, forced>>

-----------------------------------------------------------------------------
(***************************************************************************)
(* Inventory objects, in the map or removed from it (Inventory).           *)
(***************************************************************************)
\* listen's task begins, perhaps after stop: what they tell each other is in Inventory.
Listen(i) ==
  /\ listener[i] = "spawned"
  /\ listener' = [listener EXCEPT ![i] = "listening"]
  /\ UNCHANGED <<requestVars, mapVars, restore, content, broken, dbVars, processVars, forced>>

\* A client of the topic leaves its mark.
Mark(i) ==
  /\ listener[i] = "listening" /\ i \notin content[i]
  /\ content' = [content EXCEPT ![i] = @ \cup {i}]
  /\ UNCHANGED <<requestVars, mapVars, listener, restore, broken, dbVars, processVars,
                 forced>>

\* The listener saw Stopping, got Stop or lagged.
ListenerEnds(i) ==
  /\ listener[i] = "listening"
  /\ listener' = [listener EXCEPT ![i] = "ended"]
  /\ forced' = forced \ {i}
  /\ UNCHANGED <<requestVars, mapVars, restore, content, broken, dbVars, processVars>>

\* An overflow in a debug build, which only restored amounts can cause, poisons the maps.
ListenerPanics(i) ==
  /\ listener[i] = "listening" /\ restore[i] = "applied"
  /\ listener' = [listener EXCEPT ![i] = "panicked"]
  /\ broken' = broken \cup {i} /\ forced' = forced \ {i}
  /\ UNCHANGED <<requestVars, mapVars, restore, content, dbVars, processVars>>

AskGet(i) ==
  /\ restore[i] = "queued"
  /\ IF persistence = "running"
       THEN restore' = [restore EXCEPT ![i] = "asked"] /\ ops' = Append(ops, GetOp(i))
       ELSE restore' = [restore EXCEPT ![i] = "failed"] /\ UNCHANGED ops
  /\ UNCHANGED <<requestVars, mapVars, listener, content, broken, store, persistence,
                 processVars, forced>>

-----------------------------------------------------------------------------
(***************************************************************************)
(* The persistence worker, each operation with what its caller does next.  *)
(***************************************************************************)
Stored(id) == UNION store[id]

\* The answer is applied at once: nothing that uses it can tell a later application from a
\* later answer.
HandleGet ==
  /\ ops # <<>> /\ Head(ops).op = "Get"
  /\ LET i == Head(ops).object IN
       IF store[IdOf[i]] # {}
         THEN /\ restore' = [restore EXCEPT ![i] = "applied"]
              /\ content' = [content EXCEPT ![i] = Stored(IdOf[i])]
         ELSE restore' = [restore EXCEPT ![i] = "failed"] /\ UNCHANGED content
  /\ ops' = Tail(ops)
  /\ UNCHANGED <<requestVars, mapVars, listener, broken, store, persistence, processVars,
                 forced>>

HandleSet ==
  /\ ops # <<>> /\ Head(ops).op = "Set"
  /\ store' = [store EXCEPT ![Head(ops).id] = {Head(ops).marks}]
  /\ handler' = [handler EXCEPT ![Head(ops).by] = "persisted"]
  /\ ops' = Tail(ops)
  /\ UNCHANGED <<session, line, mapVars, objectVars, persistence, processVars, forced>>

\* The worker ends; what is behind Stop fails.
HandleStop ==
  /\ ops # <<>> /\ Head(ops).op = "Stop"
  /\ persistence' = "closed" /\ ops' = <<>>
  /\ restore' = [i \in Sessions |-> IF restore[i] = "asked" THEN "failed" ELSE restore[i]]
  /\ handler' = [s \in Sessions |-> IF handler[s] = "persisting" THEN "persisted" ELSE handler[s]]
  /\ UNCHANGED <<session, line, mapVars, listener, content, broken, store, processVars,
                 forced>>

-----------------------------------------------------------------------------
(***************************************************************************)
(* Shutdown: main, and the dispatcher's own task. Handlers are detached    *)
(* and go on.                                                              *)
(***************************************************************************)
CtrlC ==
  /\ main = "accepting" /\ main' = "waiting"
  /\ UNCHANGED <<requestVars, mapVars, objectVars, dbVars, dispatcher, forced>>

\* What a session does when its reply channel is dropped.
AfterLoss(s) ==
  CASE session[s] = "adding" -> "gone"
    [] session[s] = "asking" -> "serving"
    [] session[s] = "removing" -> "gone"

\* The dispatcher leaves its loop and stop returns (TaskPool): it is dropped, with what the
\* mailbox holds by then.
DispatcherEnds ==
  /\ main # "accepting" /\ dispatcher = "serving"
  /\ dispatcher' = "gone"
  /\ session' = [s \in Sessions |-> IF handler[s] = "mailed" THEN AfterLoss(s) ELSE session[s]]
  /\ handler' = [s \in Sessions |-> IF handler[s] = "mailed" THEN "none" ELSE handler[s]]
  /\ UNCHANGED <<line, mapVars, objectVars, dbVars, main, forced>>

\* The dispatcher has ended or ten seconds have passed, which is less than its own waits
\* may take: the persistence worker is told to stop, and is waited for no longer than that.
StopPersistence ==
  /\ main = "waiting" /\ main' = "joining"
  /\ ops' = Append(ops, StopOp)
  /\ UNCHANGED <<requestVars, mapVars, objectVars, store, persistence, dispatcher, forced>>

\* main waits for the sessions, and after five seconds aborts them: they take no more steps.
Idle ==
  /\ main = "joining" /\ \A s \in Sessions : session[s] \in {"absent", "gone"}
  /\ UNCHANGED vars

SessionStep(s) ==
  Connect(s) \/ SetupInventory(s) \/ RequestTask(s) \/ Leave(s) \/ CleanupInventory(s)
HandlerStep(s) ==
  \/ HandleTaskRequest(s)
  \/ AddRefused(s) \/ AddExisting(s) \/ AddNew(s) \/ Created(s)
  \/ RemoveRefused(s) \/ RemoveEntry(s) \/ StopWaits(s) \/ Save(s) \/ SavePanics(s) \/ Removed(s)
ObjectStep(i) == Listen(i) \/ Mark(i) \/ ListenerEnds(i) \/ ListenerPanics(i) \/ AskGet(i)
PersistenceStep == HandleGet \/ HandleSet \/ HandleStop
ProcessStep == CtrlC \/ DispatcherEnds \/ StopPersistence

Next ==
  \/ \E s \in Sessions : SessionStep(s) \/ Receive(s) \/ HandlerStep(s) \/ ObjectStep(s)
  \/ PersistenceStep \/ ProcessStep \/ Idle

\* Each handler is a task or a blocking thread, the mutex and the semaphore are free again
\* when they end, and sessions add and remove once; the dispatcher receives until it is
\* told to stop, and its stop returns (TaskPool's StopEnds). Clients, topic and Ctrl+C are
\* free.
Fairness ==
  /\ \A s \in Sessions : WF_vars(Receive(s)) /\ WF_vars(HandlerStep(s))
  /\ WF_vars(PersistenceStep) /\ WF_vars(DispatcherEnds)

Spec == Init /\ [][Next]_vars
FairSpec == Spec /\ Fairness

-----------------------------------------------------------------------------
(***************************************************************************)
(* Properties.                                                             *)
(***************************************************************************)

\* Two listeners of one inventory id, which would both grant its resources, exist only
\* when a stop gave up on one: an object is created only after the one before it has left
\* the map and been stopped, whatever sessions share the id.
OneListener ==
  \A i, j \in Sessions :
    i # j /\ IdOf[i] = IdOf[j] /\ listener[i] = "listening" /\ listener[j] = "listening" =>
      i \in forced \/ j \in forced

\* A save never loses what an earlier save stored, as the object that is saved was created
\* after it and has read it. The exception is an object that is removed before its restore
\* was applied: it overwrites what is stored with what it has.
SavesAccumulate == [][\A id \in Ids : Stored(id) \subseteq Stored(id)' \/ Head(ops).early]_store

\* While the dispatcher serves, an inventory in the map has a session that will remove it.
NoOrphan ==
  dispatcher = "serving" /\ ~poisoned =>
    \A id \in Ids : inventories[id] # None =>
      \E s \in Sessions : IdOf[s] = id /\ session[s] \in {"serving", "leaving"} \cup Waiting

\* Every request is answered or fails, although remove holds the mutex and a permit while
\* it blocks on stop and on persistence, and although main stops things in between.
Answered(s) == session[s] \in Waiting ~> session[s] \notin Waiting
EveryRequestAnswered == \A s \in Sessions : Answered(s)

=============================================================================
