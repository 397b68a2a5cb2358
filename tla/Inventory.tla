----------------------------- MODULE Inventory ------------------------------
(***************************************************************************)
(* One inventory of src/src/actor/inventory.rs from Inventory::new to the  *)
(* end of stop: its listener on the inventory topic, the restore that new  *)
(* starts on a blocking thread, and the stop that the dispatcher runs,     *)
(* with the persistence worker they talk to. All of these run in parallel; *)
(* a step ends at an await or where a mutex is released.                   *)
(*                                                                         *)
(* u64 amounts are numbers below Limit. No code in src/ sends requests yet *)
(* but the module's tests: clients and Insert do what those tests do.      *)
(***************************************************************************)
EXTENDS Holdings, Sequences

CONSTANTS
  Capacity,       \* messages a broadcast receiver may have unread before it lags
  NoSnapshot,     \* "nothing stored for this inventory"
  StoredAtStart   \* what an earlier life of the inventory may have stored, or NoSnapshot

VARIABLES
  status,       \* the status mutex
  listener,     \* where the listener task is
  pending,      \* the request or receipt id the listener is working on
  inbox,        \* topic messages the listener has not read
  lagged,       \* the ring has overwritten one of them
  stock,        \* the resources mutex
  reserved,     \* the reserved mutex
  poisoned,     \* a thread panicked while it held both
  restore,      \* how far the restore has come
  loaded,       \* the snapshot it got from persistence
  stop,         \* how far the stop has come
  mailbox,      \* operations persistence has not handled
  store,        \* the value under this inventory's key
  persistence,  \* "running" or "stopped"
  granted,      \* history: ids answered to reserve requests
  returned,     \* history: ids acknowledged to release requests
  overwritten,  \* history: ids that a restore may have dropped or brought back
  stale,        \* history: a restore came between the listener's check and its update
  forced,       \* history: stop gave up waiting for the listener
  lateRestore   \* history: a restore was applied after stop took its snapshot

loopVars == <<status, listener, pending, inbox, lagged>>
mapVars == <<stock, reserved, poisoned>>
dbVars == <<mailbox, store, persistence>>
\* What the listener does not touch.
sideVars == <<restore, loaded, stop, dbVars>>
receiptVars == <<granted, returned, overwritten>>
historyVars == <<stale, forced, lateRestore>>
vars == <<status, listener, pending, inbox, lagged, stock, reserved, poisoned, restore, loaded,
          stop, mailbox, store, persistence, granted, returned, overwritten, stale, forced,
          lateRestore>>

-----------------------------------------------------------------------------
ASSUME InventoryAssumption ==
  /\ Capacity \in Nat \ {0}
  /\ NoSnapshot \notin Snapshots /\ StoredAtStart \subseteq Snapshots \cup {NoSnapshot}

\* The earlier life was as StoreSound says this one is.
ASSUME StoredAtStartSound == \A s \in StoredAtStart \ {NoSnapshot} : Sound(s)

\* Topic messages: requests, and the ones a listener only wakes up for.
ReserveMsg(r) == [type |-> "Reserve", request |-> r]
ReleaseMsg(i) == [type |-> "Release", id |-> i]
OtherMsg == [type |-> "Other"]
StopMsg == [type |-> "Stop"]
Messages == [type : {"Reserve"}, request : Requests] \cup [type : {"Release"}, id : ReceiptIds]
              \cup [type : {"Other", "Stop"}]

GetOp == [op |-> "Get"]
SetOp(s) == [op |-> "Set", value |-> s]
Ops == [op : {"Get"}] \cup [op : {"Set"}, value : Snapshots]

\* unborn: listen has not run; top: about to look at status; waiting: in recv;
\* reserving, releasing: between the check and the update.
Gap == {"reserving", "releasing"}
Gone == {"ended", "panicked"}
ListenerStates == {"unborn", "top", "waiting"} \cup Gap \cup Gone

\* queued: the blocking thread has not asked; asked: awaiting the reply; loaded: has it.
RestoreStates == {"queued", "asked", "loaded", "applied", "failed"}

\* waiting: polling status; saving: about to serialize; persisting: awaiting the reply.
StopEnds == {"saved", "failed", "panicked"}
StopStates == {"none", "waiting", "saving", "persisting"} \cup StopEnds

HasReceipt(i) == reserved[i] # NoReceipt
Current == [stock |-> stock, reserved |-> reserved]
StoredIds == {i \in ReceiptIds : \E s \in StoredAtStart \ {NoSnapshot} :
                                   s.reserved[i] # NoReceipt}

TypeOK ==
  /\ status \in {"Listening", "Stopping", "Stopped"}
  /\ listener \in ListenerStates
  /\ (listener = "reserving" => pending \in Requests)
  /\ (listener = "releasing" => pending \in [id : ReceiptIds, receipt : Requests])
  /\ inbox \in Seq(Messages) /\ Len(inbox) <= Capacity
  /\ lagged \in BOOLEAN
  /\ stock \in Stocks /\ reserved \in Receipts /\ poisoned \in BOOLEAN
  /\ restore \in RestoreStates
  /\ loaded \in Snapshots \cup {NoSnapshot}
  /\ stop \in StopStates
  /\ mailbox \in Seq(Ops)
  /\ store \in Snapshots \cup {NoSnapshot}
  /\ persistence \in {"running", "stopped"}
  /\ granted \subseteq ReceiptIds /\ returned \subseteq ReceiptIds
  /\ overwritten \subseteq ReceiptIds
  /\ stale \in BOOLEAN /\ forced \in BOOLEAN /\ lateRestore \in BOOLEAN

\* Inventory::new: empty maps, status Listening although nobody listens yet.
Init ==
  /\ status = "Listening"
  /\ listener = "unborn"
  /\ pending = NoReceipt
  /\ inbox = <<>>
  /\ lagged = FALSE
  /\ stock = [n \in Names |-> Absent]
  /\ reserved = [i \in ReceiptIds |-> NoReceipt]
  /\ poisoned = FALSE
  /\ restore = "queued"
  /\ loaded = NoSnapshot
  /\ stop = "none"
  /\ mailbox = <<>>
  /\ store \in StoredAtStart
  /\ persistence = "running"
  /\ granted = {} /\ returned = {} /\ overwritten = {}
  /\ stale = FALSE /\ forced = FALSE /\ lateRestore = FALSE

-----------------------------------------------------------------------------
(***************************************************************************)
(* The topic, as this inventory's receiver sees it.                        *)
(***************************************************************************)
Subscribed == listener \notin {"unborn"} \cup Gone

\* m arrives behind the unread messages q. Once the receiver has lagged its next recv
\* is an error, which ends the listener: nothing else in the ring is ever read.
Deliver(q, m) ==
  IF lagged \/ Len(q) = Capacity
    THEN inbox' = <<>> /\ lagged' = TRUE
    ELSE inbox' = Append(q, m) /\ UNCHANGED lagged

\* Every answer is published on the topic the listener itself reads.
Answer(q) == Deliver(q, OtherMsg)

IsReserve(m) == m.type = "Reserve"
UnansweredReserves ==
  Len(SelectSeq(inbox, IsReserve)) + (IF listener = "reserving" THEN 1 ELSE 0)

\* Anybody publishes m: a client, or another inventory's listener that answers one, or
\* Dispatcher::broadcast. Bound: at most one reserve request per id left to grant.
ClientSends(m) ==
  /\ Subscribed
  /\ IsReserve(m) =>
       Cardinality(granted) + UnansweredReserves < Cardinality(ReceiptIds \ StoredIds)
  /\ Deliver(inbox, m)
  /\ UNCHANGED <<status, listener, pending, mapVars, sideVars, receiptVars, historyVars>>

-----------------------------------------------------------------------------
(***************************************************************************)
(* Amounts.                                                                *)
(***************************************************************************)
Total(n) == TotalIn(Current, n)

\* Mutation of Sufficient: off by one.
SufficientOffByOne(r) == \A n \in DOMAIN r : stock[n] # Absent /\ stock[n] + 1 >= r[n]

\* has_sufficient_resources
Sufficient(r) == \A n \in DOMAIN r : stock[n] # Absent /\ stock[n] >= r[n]

\* Mutation of Changed: signed amounts that never wrap.
ChangedSigned(r, S, sign) ==
  [n \in Names |-> IF n \in S /\ stock[n] # Absent THEN stock[n] + sign * r[n] ELSE stock[n]]

\* entry(name).and_modify(..) for the names in S: a name without an entry is skipped.
Changed(r, S, sign) ==
  [n \in Names |-> IF n \in S /\ stock[n] # Absent
                   THEN (stock[n] + sign * r[n]) % Limit
                   ELSE stock[n]]

Overflowing(r, sign) ==
  {n \in DOMAIN r : stock[n] # Absent /\ stock[n] + sign * r[n] \notin Amounts}

\* The module's tests put resources into a fresh inventory, through the mutex and
\* before they call listen. Bound: what is put in fits a u64 with what is reserved.
Insert(n, a) ==
  /\ listener = "unborn" /\ stop = "none"
  /\ stock[n] = Absent
  /\ a + Total(n) < Limit
  /\ stock' = [stock EXCEPT ![n] = a]
  /\ UNCHANGED <<loopVars, reserved, poisoned, sideVars, receiptVars, historyVars>>

-----------------------------------------------------------------------------
(***************************************************************************)
(* The listener.                                                           *)
(***************************************************************************)

\* listen subscribes, sets status (whatever it was) and spawns the loop.
Listen ==
  /\ listener = "unborn"
  /\ status' = "Listening"
  /\ listener' = "top"
  /\ UNCHANGED <<pending, inbox, lagged, mapVars, sideVars, receiptVars, historyVars>>

\* Leaving the loop sets status and drops the receiver.
End ==
  /\ listener' = "ended"
  /\ status' = "Stopped"
  /\ inbox' = <<>>
  /\ UNCHANGED <<pending, lagged, mapVars, sideVars, receiptVars, historyVars>>

\* Only Stopping ends the loop here: a status forced to Stopped is overlooked.
CheckStatus ==
  /\ listener = "top"
  /\ \/ status = "Stopping" /\ End
     \/ /\ status # "Stopping"
        /\ listener' = "waiting"
        /\ UNCHANGED <<status, pending, inbox, lagged, mapVars, sideVars, receiptVars,
                       historyVars>>

Takes(m) ==
  /\ listener = "waiting"
  /\ ~lagged
  /\ inbox # <<>>
  /\ Head(inbox) = m

TakeStop == Takes(StopMsg) /\ End
TakeLagged == listener = "waiting" /\ lagged /\ End

TakeOther ==
  /\ Takes(OtherMsg)
  /\ listener' = "top"
  /\ inbox' = Tail(inbox)
  /\ UNCHANGED <<status, pending, lagged, mapVars, sideVars, receiptVars, historyVars>>

\* Mutation of CheckReserve: any of the resources suffices.
CheckReserveAny(r) ==
  /\ Takes(ReserveMsg(r))
  /\ \E n \in DOMAIN r : stock[n] # Absent /\ stock[n] >= r[n]
  /\ listener' = "reserving"
  /\ pending' = r
  /\ inbox' = Tail(inbox)
  /\ UNCHANGED <<status, lagged, mapVars, sideVars, receiptVars, historyVars>>

\* handle_reserve_request: check under the resources lock, release the lock; when it
\* does not suffice, answer Err.
CheckReserve(r) ==
  /\ Takes(ReserveMsg(r))
  /\ \/ /\ Sufficient(r)
        /\ listener' = "reserving"
        /\ pending' = r
        /\ inbox' = Tail(inbox)
        /\ UNCHANGED lagged
     \/ /\ ~Sufficient(r)
        /\ listener' = "top"
        /\ Answer(Tail(inbox))
        /\ UNCHANGED pending
  /\ UNCHANGED <<status, mapVars, sideVars, receiptVars, historyVars>>

\* handle_release_request: copy the receipt under the reserved lock, release the lock.
LookUpReceipt(i) ==
  /\ Takes(ReleaseMsg(i))
  /\ \/ /\ HasReceipt(i)
        /\ listener' = "releasing"
        /\ pending' = [id |-> i, receipt |-> reserved[i]]
        /\ inbox' = Tail(inbox)
        /\ UNCHANGED lagged
     \/ /\ ~HasReceipt(i)
        /\ listener' = "top"
        /\ Answer(Tail(inbox))
        /\ UNCHANGED pending
  /\ UNCHANGED <<status, mapVars, sideVars, receiptVars, historyVars>>

\* Mutation of CommitReserve: the receipt is handed out and not kept.
CommitReserveForgets ==
  /\ listener = "reserving"
  /\ stock' = Changed(pending, DOMAIN pending, -1)
  /\ \E i \in ReceiptIds \ (granted \cup StoredIds) : granted' = granted \cup {i}
  /\ listener' = "top" /\ pending' = NoReceipt
  /\ Answer(inbox)
  /\ UNCHANGED <<status, reserved, poisoned, sideVars, returned, overwritten,
                 historyVars>>

\* process_reservation, with both locks held: subtract without another check, insert
\* the receipt under a new UUID, answer with it. (When a subtraction overflows, this is
\* what a release build does; see Panic.)
CommitReserve ==
  /\ listener = "reserving"
  /\ stock' = Changed(pending, DOMAIN pending, -1)
  /\ \E i \in ReceiptIds \ (granted \cup StoredIds) :
       /\ reserved' = [reserved EXCEPT ![i] = pending]
       /\ granted' = granted \cup {i}
  /\ listener' = "top" /\ pending' = NoReceipt
  /\ Answer(inbox)
  /\ UNCHANGED <<status, poisoned, sideVars, returned, overwritten, historyVars>>

\* Mutation of CommitRelease: the receipt is removed, its resources are not given back.
CommitReleaseKeeps ==
  /\ listener = "releasing"
  /\ reserved' = [reserved EXCEPT ![pending.id] = NoReceipt]
  /\ returned' = returned \cup {pending.id}
  /\ listener' = "top" /\ pending' = NoReceipt
  /\ Answer(inbox)
  /\ UNCHANGED <<status, stock, poisoned, sideVars, granted, overwritten, historyVars>>

\* process_release, with both locks held: give back what the copied receipt says,
\* remove the entry, answer Ok. Neither the entry's presence nor overflow is checked.
CommitRelease ==
  /\ listener = "releasing"
  /\ stock' = Changed(pending.receipt, DOMAIN pending.receipt, 1)
  /\ reserved' = [reserved EXCEPT ![pending.id] = NoReceipt]
  /\ returned' = returned \cup {pending.id}
  /\ listener' = "top" /\ pending' = NoReceipt
  /\ Answer(inbox)
  /\ UNCHANGED <<status, poisoned, sideVars, granted, overwritten, historyVars>>

\* A debug build panics at the first amount that overflows, some of the others being
\* changed already (HashMap order). The task dies, status stays, both mutexes are poisoned.
PanicOn(r, sign) ==
  /\ Overflowing(r, sign) # {}
  /\ \E S \in SUBSET (DOMAIN r \ Overflowing(r, sign)) : stock' = Changed(r, S, sign)
  /\ listener' = "panicked"
  /\ poisoned' = TRUE
  /\ inbox' = <<>> /\ pending' = NoReceipt
  /\ UNCHANGED <<status, lagged, reserved, sideVars, receiptVars, historyVars>>

Panic ==
  \/ listener = "reserving" /\ PanicOn(pending, -1)
  \/ listener = "releasing" /\ PanicOn(pending.receipt, 1)

-----------------------------------------------------------------------------
(***************************************************************************)
(* The restore that Inventory::new starts on a blocking thread, and the    *)
(* persistence worker (src/src/persistence/worker.rs) with the inventory's *)
(* key. Operations of other inventories do not show here.                  *)
(***************************************************************************)

\* Sending fails once the worker has dropped its mailbox.
AskGet ==
  /\ restore = "queued"
  /\ \/ /\ persistence = "running"
        /\ mailbox' = Append(mailbox, GetOp)
        /\ restore' = "asked"
     \/ /\ persistence = "stopped"
        /\ restore' = "failed"
        /\ UNCHANGED mailbox
  /\ UNCHANGED <<loopVars, mapVars, loaded, stop, store, persistence, receiptVars,
                 historyVars>>

\* The worker looks the key up and replies: the value, or KeyNotFound.
HandleGet ==
  /\ persistence = "running" /\ mailbox # <<>> /\ Head(mailbox) = GetOp
  /\ mailbox' = Tail(mailbox)
  /\ restore' = IF store = NoSnapshot THEN "failed" ELSE "loaded"
  /\ loaded' = store
  /\ UNCHANGED <<loopVars, mapVars, stop, store, persistence, receiptVars, historyVars>>

\* With both locks held: replace both maps, whatever happened to them meanwhile. (A
\* poisoned lock would be an error, but nothing panics before the only restore is
\* applied: PanicNeedsRestore.)
ApplyRestore ==
  /\ restore = "loaded" /\ ~poisoned
  /\ restore' = "applied" /\ loaded' = NoSnapshot
  /\ stock' = loaded.stock
  /\ reserved' = loaded.reserved
  /\ overwritten' = overwritten \cup granted
                      \cup {i \in ReceiptIds : loaded.reserved[i] # NoReceipt}
  /\ stale' = (stale \/ listener \in Gap)
  /\ lateRestore' = (lateRestore \/ stop \in {"persisting"} \cup StopEnds)
  /\ UNCHANGED <<loopVars, poisoned, stop, dbVars, granted, returned, forced>>

\* The reply to persist.
HandleSet ==
  /\ persistence = "running" /\ mailbox # <<>> /\ Head(mailbox).op = "Set"
  /\ store' = Head(mailbox).value
  /\ mailbox' = Tail(mailbox)
  /\ stop' = "saved"
  /\ UNCHANGED <<loopVars, mapVars, restore, loaded, persistence, receiptVars,
                 historyVars>>

\* The worker took a Stop: the operations behind it are dropped, and with them the
\* reply channels that restore and persist are waiting on.
PersistenceStops ==
  /\ persistence = "running"
  /\ persistence' = "stopped"
  /\ mailbox' = <<>>
  /\ restore' = IF restore = "asked" THEN "failed" ELSE restore
  /\ stop' = IF stop = "persisting" THEN "failed" ELSE stop
  /\ UNCHANGED <<loopVars, mapVars, loaded, store, receiptVars, historyVars>>

-----------------------------------------------------------------------------
(***************************************************************************)
(* stop, called once by the dispatcher when the inventory is removed: at   *)
(* any time after new, even before listen has run.                         *)
(***************************************************************************)
StopBegin ==
  /\ stop = "none"
  /\ status' = "Stopping"
  /\ stop' = "waiting"
  /\ UNCHANGED <<listener, pending, inbox, lagged, mapVars, restore, loaded, dbVars,
                 receiptVars, historyVars>>

\* Mutation of StopSeesStopped: persist as soon as the stop was announced.
StopSeesStopping ==
  /\ stop = "waiting"
  /\ status # "Listening"
  /\ stop' = "saving"
  /\ UNCHANGED <<loopVars, mapVars, restore, loaded, dbVars, receiptVars, historyVars>>

StopSeesStopped ==
  /\ stop = "waiting"
  /\ status = "Stopped"
  /\ stop' = "saving"
  /\ UNCHANGED <<loopVars, mapVars, restore, loaded, dbVars, receiptVars, historyVars>>

\* Mutation of StopForces: gives up only on a listener that is not there any more.
StopForcesGone ==
  /\ stop = "waiting"
  /\ status # "Stopped" /\ listener \in Gone
  /\ status' = "Stopped"
  /\ stop' = "saving"
  /\ forced' = TRUE
  /\ UNCHANGED <<listener, pending, inbox, lagged, mapVars, restore, loaded, dbVars,
                 receiptVars, stale, lateRestore>>

\* The fifth look, some 400 ms after the first, still does not find Stopped.
StopForces ==
  /\ stop = "waiting"
  /\ status # "Stopped"
  /\ status' = "Stopped"
  /\ stop' = "saving"
  /\ forced' = TRUE
  /\ UNCHANGED <<listener, pending, inbox, lagged, mapVars, restore, loaded, dbVars,
                 receiptVars, stale, lateRestore>>

\* persist: serialize takes both locks, and panics if they are poisoned; then the
\* operation is sent and its reply awaited.
Save ==
  /\ stop = "saving"
  /\ \/ poisoned /\ stop' = "panicked" /\ UNCHANGED mailbox
     \/ ~poisoned /\ persistence = "stopped" /\ stop' = "failed" /\ UNCHANGED mailbox
     \/ /\ ~poisoned /\ persistence = "running"
        /\ stop' = "persisting"
        /\ mailbox' = Append(mailbox, SetOp(Current))
  /\ UNCHANGED <<loopVars, mapVars, restore, loaded, store, persistence, receiptVars,
                 historyVars>>

-----------------------------------------------------------------------------
ListenerStep ==
  \/ Listen \/ CheckStatus \/ TakeStop \/ TakeLagged \/ TakeOther
  \/ \E r \in Requests : CheckReserve(r)
  \/ \E i \in ReceiptIds : LookUpReceipt(i)
  \/ CommitReserve \/ CommitRelease \/ Panic

RestoreStep == AskGet \/ ApplyRestore
PersistenceStep == HandleGet \/ HandleSet
StopStep == StopSeesStopped \/ StopForces \/ Save

\* Nothing of the inventory is left running.
Terminated ==
  /\ listener \in Gone /\ stop \in StopEnds
  /\ restore \in {"applied", "failed"} /\ persistence = "stopped"
  /\ UNCHANGED vars

Next ==
  \/ \E m \in Messages : ClientSends(m)
  \/ \E n \in Names, a \in Amounts : Insert(n, a)
  \/ ListenerStep \/ RestoreStep \/ PersistenceStep \/ PersistenceStops
  \/ StopBegin \/ StopStep
  \/ Terminated

Spec == Init /\ [][Next]_vars

\* The listener's task, the restore's thread, the caller of stop and the persistence
\* worker run whenever they can. Clients need not send, nobody need remove the
\* inventory, and the server need not shut down.
FairSpec ==
  /\ Spec
  /\ WF_vars(ListenerStep) /\ WF_vars(RestoreStep)
  /\ WF_vars(PersistenceStep) /\ WF_vars(StopStep)

-----------------------------------------------------------------------------
(***************************************************************************)
(* Safety.                                                                 *)
(***************************************************************************)

\* What the listener saw under one lock still holds when it acts under the next one: a
\* reservation is still covered by the stock and a receipt about to be credited is
\* still the one on file. Only a restore that comes between the two can break it.
GapHolds ==
  ~stale => /\ listener = "reserving" => Sufficient(pending)
            /\ listener = "releasing" => reserved[pending.id] = pending.receipt

\* The unchecked u64 subtraction and addition never overflow, and so never panic with
\* both mutexes held, unless a restore came between a check and its update.
PanicNeedsRestore == poisoned => stale

\* An id that was answered to a reservation and not yet acknowledged to a release has
\* its receipt, and no other id has: a receipt can be redeemed once, not twice, whatever
\* clients send. Ids that a restore may have dropped or brought back are left out.
ReceiptsExact ==
  \A i \in ReceiptIds \ overwritten : (i \in granted \ returned) <=> HasReceipt(i)

\* Once listen has run, reservations, releases, refusals, stops and lags move amounts
\* between stock and receipts and neither create nor lose any; only a restore may.
Conserved ==
  [][(listener # "unborn" /\ ~stale /\ ~ApplyRestore)
       => \A n \in Names : Total(n)' = Total(n)]_vars

\* A stop that found the listener gone leaves in the store exactly what the inventory
\* holds, for good: no request is acknowledged that the next life would not know of.
\* A restore that ends after the snapshot was taken is not in it.
CleanStop ==
  (stop = "saved" /\ ~forced /\ ~lateRestore) => store = Current

\* What this life stores the next one can restore and serve from: the amounts fit, and
\* every receipt can be redeemed. (A restore that came between a check and its update may
\* leave a receipt for a resource without entry, or more than there was.)
StoreSound == ~stale /\ store # NoSnapshot => Sound(store)

\* The checks and updates under separate locks, the u64 arithmetic and the copied receipt
\* implement a ledger that grants and redeems atomically.
Promise == INSTANCE Ledger WITH
             open <- listener # "unborn", restored <- restore = "applied", broken <- stale
ImplementsLedger == Promise!Spec

-----------------------------------------------------------------------------
(***************************************************************************)
(* Liveness, under FairSpec.                                               *)
(***************************************************************************)

\* stop returns, whatever the listener does, even when it never ran, has panicked or
\* waits for a message, and when persistence goes away: its caller holds the
\* dispatcher's inventories mutex meanwhile.
StopReturns == stop = "waiting" ~> stop \in StopEnds

-----------------------------------------------------------------------------
(***************************************************************************)
(* What the module's tests and the dispatcher's log say, and the code does *)
(* not do: each is checked by a run that expects a counterexample.         *)
(***************************************************************************)

\* inventory.rs:630 "assert!(reserved_wood)": the id a reservation was answered with is
\* on file until it is released.
ReservationKept == \A i \in granted \ returned : HasReceipt(i)

\* inventory.rs:798 "Wait a moment to ensure the listener has stopped": after stop
\* has returned, the listener stops.
ListenerStops == stop = "saved" ~> listener \in Gone

=============================================================================
