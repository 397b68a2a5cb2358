---------------------------- MODULE Persistence ----------------------------
(***************************************************************************)
(* The persistence worker (src/src/persistence/worker.rs) over its         *)
(* in-memory backend (src/src/persistence/inmemory.rs), with its callers   *)
(* (Inventory::restore and persist, which await a reply) and main, which   *)
(* stops it. A step ends at an await and where the backend's lock is       *)
(* released.                                                               *)
(*                                                                         *)
(* The mailbox has no bound here: a sender that waits for room keeps its   *)
(* place (tokio's semaphore is first come, first served), so the waiting   *)
(* senders are the rear of the same sequence, and a closed mailbox fails   *)
(* them as it drops what is queued.                                        *)
(***************************************************************************)
EXTENDS Sequences, Naturals

CONSTANTS
  Clients, Keys, Values,
  Missing,     \* "Key not found"
  NoCall,      \* "this client has no call"
  Pending,     \* nothing arrived on the reply channel yet
  Done,        \* the Ok of a Set or a Delete
  Failed,      \* sending failed, or the reply's sender was dropped
  StopOp,      \* OpType::Stop
  Nobody       \* the worker is between two operations

VARIABLES
  pc,        \* pc[c]: idle, sending, waiting for the reply, answered
  call,      \* call[c]: the operation c has called
  answer,    \* answer[c]: what c's send or reply channel gave it
  mailbox,   \* queued operations, named by their callers, and StopOp
  serving,   \* the client whose operation the worker has done and not answered
  outcome,   \* its result
  store,     \* MemoryDatabase::db
  phase,     \* the worker: running, leaving the loop, closed
  ahead      \* history: whose operations were queued before StopOp

clientVars == <<pc, call, answer>>
workerVars == <<serving, outcome, store, phase>>
vars == <<pc, call, answer, mailbox, serving, outcome, store, phase, ahead>>

\* What the worker promises: a client sees the outcome once it is decided.
Service == INSTANCE KeyValueStore WITH
  answer <- [c \in Clients |-> IF c = serving THEN outcome ELSE answer[c]],
  open <- phase = "running"

Operations == [op : {"Set"}, key : Keys, value : Values] \cup [op : {"Get", "Delete"}, key : Keys]
Outcomes == Values \cup {Missing, Done}
Stores == [Keys -> Values \cup {Missing}]

ASSUME PersistenceAssumption ==
  /\ Missing \notin Values
  /\ NoCall \notin Operations
  /\ Pending \notin Outcomes \cup {Failed}
  /\ Failed \notin Outcomes
  /\ StopOp \notin Clients /\ Nobody \notin Clients

TypeOK ==
  /\ pc \in [Clients -> {"idle", "sending", "waiting", "answered"}]
  /\ call \in [Clients -> Operations \cup {NoCall}]
  /\ answer \in [Clients -> Outcomes \cup {Pending, Failed}]
  /\ mailbox \in Seq(Clients \cup {StopOp})
  /\ serving \in Clients \cup {Nobody}
  /\ outcome \in Outcomes \cup {Pending}
  /\ store \in Stores
  /\ phase \in {"running", "leaving", "closed"}
  /\ ahead \subseteq Clients

Init ==
  /\ pc = [c \in Clients |-> "idle"]
  /\ call = [c \in Clients |-> NoCall]
  /\ answer = [c \in Clients |-> Pending]
  /\ mailbox = <<>>
  /\ serving = Nobody
  /\ outcome = Pending
  /\ store = [k \in Keys |-> Missing]
  /\ phase = "running"
  /\ ahead = {}

Queued(c) == \E i \in 1..Len(mailbox) : mailbox[i] = c
StopSent == phase # "running" \/ Queued(StopOp)

-----------------------------------------------------------------------------
(***************************************************************************)
(* Callers.                                                                *)
(***************************************************************************)
Begin(c, o) ==
  /\ pc[c] = "idle"
  /\ pc' = [pc EXCEPT ![c] = "sending"]
  /\ call' = [call EXCEPT ![c] = o]
  /\ UNCHANGED <<answer, mailbox, workerVars, ahead>>

SendOp(c) ==
  /\ pc[c] = "sending" /\ phase # "closed"
  /\ mailbox' = Append(mailbox, c)
  /\ pc' = [pc EXCEPT ![c] = "waiting"]
  /\ UNCHANGED <<call, answer, workerVars, ahead>>

SendFails(c) ==
  /\ pc[c] = "sending" /\ phase = "closed"
  /\ pc' = [pc EXCEPT ![c] = "answered"]
  /\ answer' = [answer EXCEPT ![c] = Failed]
  /\ UNCHANGED <<call, mailbox, workerVars, ahead>>

Return(c) ==
  /\ pc[c] = "answered"
  /\ pc' = [pc EXCEPT ![c] = "idle"]
  /\ call' = [call EXCEPT ![c] = NoCall]
  /\ answer' = [answer EXCEPT ![c] = Pending]
  /\ ahead' = ahead \ {c}
  /\ UNCHANGED <<mailbox, workerVars>>

\* main sends Stop once, with no reply channel.
SendStop ==
  /\ ~StopSent
  /\ mailbox' = Append(mailbox, StopOp)
  /\ ahead' = {c \in Clients : Queued(c) \/ c = serving}
  /\ UNCHANGED <<clientVars, workerVars>>

-----------------------------------------------------------------------------
(***************************************************************************)
(* The worker: one operation at a time, the reply after the backend call.  *)
(***************************************************************************)
\* Mutation of Written: a set that keeps the value it finds.
WrittenOnce(o) ==
  CASE o.op = "Set" -> IF store[o.key] = Missing THEN [store EXCEPT ![o.key] = o.value] ELSE store
    [] o.op = "Delete" -> [store EXCEPT ![o.key] = Missing]
    [] o.op = "Get" -> store

\* MemoryDatabase::set, delete, get on the map, and what the reply will say.
Written(o) ==
  CASE o.op = "Set" -> [store EXCEPT ![o.key] = o.value]
    [] o.op = "Delete" -> [store EXCEPT ![o.key] = Missing]
    [] o.op = "Get" -> store

\* Mutation of Found: a missing key is reported as if the operation had not been done.
FoundOrFailed(o) ==
  IF o.op # "Get" THEN Done ELSE IF store[o.key] = Missing THEN Failed ELSE store[o.key]

Found(o) == IF o.op = "Get" THEN store[o.key] ELSE Done

Free == phase = "running" /\ serving = Nobody /\ mailbox # <<>>

ProcessOperation ==
  /\ Free /\ Head(mailbox) # StopOp
  /\ serving' = Head(mailbox)
  /\ mailbox' = Tail(mailbox)
  /\ store' = Written(call[Head(mailbox)])
  /\ outcome' = Found(call[Head(mailbox)])
  /\ UNCHANGED <<clientVars, phase, ahead>>

SendReply ==
  /\ serving # Nobody
  /\ pc' = [pc EXCEPT ![serving] = "answered"]
  /\ answer' = [answer EXCEPT ![serving] = outcome]
  /\ serving' = Nobody /\ outcome' = Pending
  /\ UNCHANGED <<call, mailbox, store, phase, ahead>>

\* Mutation of HandleStop: Stop overtakes the queued operations.
HandleStopFirst ==
  /\ phase = "running" /\ serving = Nobody /\ Queued(StopOp)
  /\ phase' = "leaving"
  /\ UNCHANGED <<clientVars, mailbox, serving, outcome, store, ahead>>

HandleStop ==
  /\ Free /\ Head(mailbox) = StopOp
  /\ mailbox' = Tail(mailbox)
  /\ phase' = "leaving"
  /\ UNCHANGED <<clientVars, serving, outcome, store, ahead>>

\* Mutation of CloseInbox: main keeps the worker when run has returned, and with it an open
\* receiver that nobody reads.
CloseInboxKept ==
  /\ phase = "leaving"
  /\ UNCHANGED vars

\* run returned: its receiver is closed, then what it holds is dropped, reply
\* channels included.
CloseInbox ==
  /\ phase = "leaving"
  /\ phase' = "closed"
  /\ UNCHANGED <<clientVars, mailbox, serving, outcome, store, ahead>>

DropOp ==
  /\ phase = "closed" /\ mailbox # <<>>
  /\ mailbox' = Tail(mailbox)
  /\ pc' = [pc EXCEPT ![Head(mailbox)] = "answered"]
  /\ answer' = [answer EXCEPT ![Head(mailbox)] = Failed]
  /\ UNCHANGED <<call, workerVars, ahead>>

Run == ProcessOperation \/ SendReply \/ HandleStop \/ CloseInbox \/ DropOp

Next ==
  \/ \E c \in Clients : \/ SendOp(c) \/ SendFails(c) \/ Return(c)
                        \/ \E o \in Operations : Begin(c, o)
  \/ SendStop
  \/ Run

\* A caller that has begun goes on, and the worker is a task that tokio polls.
Fairness ==
  /\ \A c \in Clients : WF_vars(SendOp(c) \/ SendFails(c) \/ Return(c))
  /\ WF_vars(Run)

Spec == Init /\ [][Next]_vars
FairSpec == Spec /\ Fairness

-----------------------------------------------------------------------------
(***************************************************************************)
(* Properties.                                                             *)
(***************************************************************************)

\* Operations are atomic, an answer is the result of the operation it answers,
\* and a caller that is told "failed" can rely on its operation not being done:
\* an operation queued behind Stop is dropped, never applied later.
ImplementsStore == Service!Spec

\* What was queued when main sent Stop is done before the worker stops. The order
\* of shutdown relies on it: inventories that the dispatcher stopped have their
\* Set in the mailbox before main's Stop.
FlushedBeforeStop == \A c \in ahead : answer[c] # Failed

\* Every caller hears something, whether its operation came before Stop, was
\* queued behind it, or was sent to a worker that is gone.
CallAnswered(c) == pc[c] \in {"sending", "waiting"} ~> pc[c] = "answered"
EveryCallAnswered == \A c \in Clients : CallAnswered(c)

=============================================================================
