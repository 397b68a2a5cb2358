-------------------------- MODULE InventoryProofs ---------------------------
(***************************************************************************)
(* Theorems about Inventory and their proofs: type correctness, the        *)
(* listener's gaps, receipts, and what a clean stop stores.                *)
(***************************************************************************)
EXTENDS Inventory, TLAPS

(***************************************************************************)
(* Types.                                                                  *)
(***************************************************************************)

\* A restore that is about to be applied has a snapshot.
RestoreHasSnapshot == restore = "loaded" => loaded \in Snapshots

TypeInv == TypeOK /\ RestoreHasSnapshot

\* Delivering a message keeps the type of the inbox.
LEMMA DeliverTypes ==
  ASSUME NEW q \in Seq(Messages), NEW m \in Messages, Len(q) <= Capacity,
         lagged \in BOOLEAN, Deliver(q, m)
  PROVE  inbox' \in Seq(Messages) /\ Len(inbox') <= Capacity /\ lagged' \in BOOLEAN
<1> USE HoldingsAssumption, InventoryAssumption
<1>1. Len(q) \in Nat
  OBVIOUS
<1>2. CASE lagged \/ Len(q) = Capacity
  <2>1. inbox' = <<>> /\ lagged' = TRUE
    BY <1>2 DEF Deliver
  <2>2. Len(inbox') = 0 /\ inbox' \in Seq(Messages)
    BY <2>1
  <2> QED
    BY <2>1, <2>2
<1>3. CASE ~(lagged \/ Len(q) = Capacity)
  <2>1. inbox' = Append(q, m) /\ lagged' = lagged
    BY <1>3 DEF Deliver
  <2>2. Len(inbox') = Len(q) + 1 /\ inbox' \in Seq(Messages)
    BY <2>1
  <2> QED
    BY <1>1, <1>3, <2>1, <2>2
<1> QED
  BY <1>2, <1>3

LEMMA OtherIsMessage == OtherMsg \in Messages
BY DEF OtherMsg, Messages

\* Reading a message shortens the inbox.
LEMMA TailTypes ==
  ASSUME inbox \in Seq(Messages), Len(inbox) <= Capacity, inbox # <<>>
  PROVE  /\ Tail(inbox) \in Seq(Messages) /\ Len(Tail(inbox)) <= Capacity
         /\ Head(inbox) \in Messages
<1>1. Len(inbox) \in Nat /\ Len(Tail(inbox)) = Len(inbox) - 1
  OBVIOUS
<1> QED
  BY <1>1, HoldingsAssumption, InventoryAssumption

\* Whatever is added or subtracted, amounts stay below Limit.
LEMMA ChangedTypes ==
  ASSUME NEW r \in Requests, NEW S \in SUBSET DOMAIN r, NEW sign \in {-1, 1},
         stock \in Stocks
  PROVE  Changed(r, S, sign) \in Stocks
<1>1. ASSUME NEW a \in Int PROVE a % Limit \in Amounts
  BY HoldingsAssumption DEF Amounts
<1>2. ASSUME NEW n \in Names, n \in S, stock[n] # Absent
      PROVE  (stock[n] + sign * r[n]) % Limit \in Amounts
  <2>1. stock[n] \in Int /\ r[n] \in Int
    BY <1>2, HoldingsAssumption DEF Stocks, Amounts
  <2>2. sign * r[n] \in Int
    BY <2>1
  <2>3. stock[n] + sign * r[n] \in Int
    BY <2>1, <2>2
  <2> QED
    BY <1>1, <2>3
<1>3. \A n \in Names : stock[n] \in Amounts \cup {Absent}
  BY DEF Stocks
<1> QED
  BY <1>2, <1>3 DEF Changed, Stocks

LEMMA InvTypeInit == Init => TypeInv
<1> SUFFICES ASSUME Init PROVE TypeInv
  OBVIOUS
<1>1. RestoreHasSnapshot
  BY DEF Init, RestoreHasSnapshot
<1>2. inbox \in Seq(Messages) /\ Len(inbox) <= Capacity
  BY InventoryAssumption DEF Init
<1>3. mailbox \in Seq(Ops)
  BY DEF Init
<1> QED
  BY <1>1, <1>2, <1>3, InventoryAssumption
  DEF Init, TypeInv, TypeOK, ListenerStates, RestoreStates, StopStates, Stocks, Receipts, Gap

\* Steps of clients, the listener's waiting and the stop's polling.
LEMMA TypeTopic ==
  ASSUME TypeInv,
         \/ \E m \in Messages : ClientSends(m)
         \/ \E n \in Names, a \in Amounts : Insert(n, a)
         \/ Listen \/ CheckStatus \/ TakeStop \/ TakeLagged \/ TakeOther
         \/ StopBegin \/ StopSeesStopped \/ StopForces
  PROVE  TypeInv'
<1> USE HoldingsAssumption, InventoryAssumption
    DEF TypeInv, TypeOK, RestoreHasSnapshot, loopVars, mapVars, dbVars, sideVars, receiptVars,
        historyVars
<1>1. ASSUME NEW m \in Messages, ClientSends(m) PROVE TypeInv'
  <2>1. inbox' \in Seq(Messages) /\ Len(inbox') <= Capacity /\ lagged' \in BOOLEAN
    BY <1>1, DeliverTypes DEF ClientSends
  <2> QED
    BY <1>1, <2>1 DEF ClientSends
<1>2. ASSUME NEW n \in Names, NEW a \in Amounts, Insert(n, a) PROVE TypeInv'
  BY <1>2 DEF Insert, Stocks
<1>3. ASSUME End PROVE TypeInv'
  BY <1>3 DEF End, ListenerStates, Gone, Gap
<1>4. CASE Listen
  BY <1>4 DEF Listen, ListenerStates, Gap
<1>5. CASE CheckStatus
  BY <1>3, <1>5 DEF CheckStatus, ListenerStates, Gap
<1>6. CASE TakeStop \/ TakeLagged
  BY <1>3, <1>6 DEF TakeStop, TakeLagged
<1>7. CASE TakeOther
  BY <1>7, TailTypes DEF TakeOther, Takes, ListenerStates, Gap
<1>8. CASE StopBegin \/ StopSeesStopped \/ StopForces
  BY <1>8 DEF StopBegin, StopSeesStopped, StopForces, StopStates
<1> QED
  BY <1>1, <1>2, <1>4, <1>5, <1>6, <1>7, <1>8

\* Steps that handle a request.
LEMMA TypeRequests ==
  ASSUME TypeInv,
         \/ \E r \in Requests : CheckReserve(r)
         \/ \E i \in ReceiptIds : LookUpReceipt(i)
         \/ CommitReserve \/ CommitRelease \/ Panic
  PROVE  TypeInv'
<1> USE HoldingsAssumption, InventoryAssumption
    DEF TypeInv, TypeOK, RestoreHasSnapshot, mapVars, dbVars, sideVars, receiptVars, historyVars
<1> DEFINE TopicOK == inbox' \in Seq(Messages) /\ Len(inbox') <= Capacity /\ lagged' \in BOOLEAN
<1>1. ASSUME Answer(inbox) PROVE TopicOK
  BY <1>1, DeliverTypes, OtherIsMessage DEF Answer
<1>2. ASSUME inbox # <<>>, Answer(Tail(inbox)) PROVE TopicOK
  BY <1>2, DeliverTypes, TailTypes, OtherIsMessage DEF Answer
<1>3. ASSUME inbox # <<>>, inbox' = Tail(inbox), UNCHANGED lagged PROVE TopicOK
  BY <1>3, TailTypes
<1> HIDE DEF TopicOK
<1>4. ASSUME TopicOK PROVE inbox' \in Seq(Messages) /\ Len(inbox') <= Capacity /\ lagged' \in BOOLEAN
  BY <1>4 DEF TopicOK
<1>5. ASSUME NEW r \in Requests, CheckReserve(r) PROVE TypeInv'
  <2>1. TopicOK
    BY <1>2, <1>3, <1>5 DEF CheckReserve, Takes
  <2> QED
    BY <1>4, <1>5, <2>1 DEF CheckReserve, ListenerStates, Gap
<1>6. ASSUME NEW i \in ReceiptIds, LookUpReceipt(i) PROVE TypeInv'
  <2>1. TopicOK
    BY <1>2, <1>3, <1>6 DEF LookUpReceipt, Takes
  <2>2. HasReceipt(i) => reserved[i] \in Requests
    BY DEF HasReceipt, Receipts
  <2> QED
    BY <1>4, <1>6, <2>1, <2>2 DEF LookUpReceipt, ListenerStates, Gap
<1>7. CASE CommitReserve
  <2>1. TopicOK
    BY <1>1, <1>7 DEF CommitReserve
  <2>2. pending \in Requests
    BY <1>7 DEF CommitReserve
  <2>3. stock' \in Stocks
    BY <1>7, <2>2, ChangedTypes DEF CommitReserve
  <2>4. PICK i \in ReceiptIds : /\ reserved' = [reserved EXCEPT ![i] = pending]
                                /\ granted' = granted \cup {i}
    BY <1>7 DEF CommitReserve
  <2>5. reserved' \in Receipts /\ granted' \subseteq ReceiptIds
    BY <2>2, <2>4 DEF Receipts
  <2> QED
    BY <1>4, <1>7, <2>1, <2>3, <2>5 DEF CommitReserve, ListenerStates, Gap
<1>8. CASE CommitRelease
  <2>1. TopicOK
    BY <1>1, <1>8 DEF CommitRelease
  <2>2. pending.id \in ReceiptIds /\ pending.receipt \in Requests
    BY <1>8 DEF CommitRelease
  <2>3. stock' \in Stocks
    BY <1>8, <2>2, ChangedTypes DEF CommitRelease
  <2>4. reserved' \in Receipts /\ returned' \subseteq ReceiptIds
    BY <1>8, <2>2 DEF CommitRelease, Receipts
  <2> QED
    BY <1>4, <1>8, <2>1, <2>3, <2>4 DEF CommitRelease, ListenerStates, Gap
<1>9. ASSUME NEW r \in Requests, NEW sign \in {-1, 1}, PanicOn(r, sign) PROVE TypeInv'
  <2>1. PICK S \in SUBSET (DOMAIN r \ Overflowing(r, sign)) : stock' = Changed(r, S, sign)
    BY <1>9 DEF PanicOn
  <2>2. stock' \in Stocks
    BY <2>1, ChangedTypes
  <2> QED
    BY <1>9, <2>2 DEF PanicOn, ListenerStates, Gap, Gone
<1>10. CASE Panic
  <2>1. listener = "releasing" => pending.receipt \in Requests
    OBVIOUS
  <2> QED
    BY <1>9, <1>10, <2>1 DEF Panic
<1> QED
  BY <1>5, <1>6, <1>7, <1>8, <1>10

\* Steps of the restore, the persistence worker and the save.
LEMMA TypePersistence ==
  ASSUME TypeInv, RestoreStep \/ PersistenceStep \/ PersistenceStops \/ Save
  PROVE  TypeInv'
<1> USE HoldingsAssumption, InventoryAssumption
    DEF TypeInv, TypeOK, RestoreHasSnapshot, loopVars, mapVars, dbVars, sideVars, receiptVars,
        historyVars, StopStates, StopEnds, RestoreStates
<1>1. ASSUME mailbox # <<>> PROVE Head(mailbox) \in Ops /\ Tail(mailbox) \in Seq(Ops)
  BY <1>1
<1>2. Current \in Snapshots
  BY DEF Current, Snapshots
<1>3. CASE AskGet
  <2>1. Append(mailbox, GetOp) \in Seq(Ops)
    BY DEF GetOp, Ops
  <2>2. mailbox' \in Seq(Ops) /\ restore' \in {"asked", "failed"}
    BY <1>3, <2>1 DEF AskGet
  <2> QED
    BY <1>3, <2>2 DEF AskGet
<1>4. CASE ApplyRestore
  <2>1. stock' \in Stocks /\ reserved' \in Receipts
    BY <1>4 DEF ApplyRestore, Snapshots
  <2> QED
    BY <1>4, <2>1 DEF ApplyRestore
<1>5. CASE HandleGet
  BY <1>1, <1>5 DEF HandleGet
<1>6. CASE HandleSet
  <2>1. Head(mailbox).value \in Snapshots
    BY <1>1, <1>6 DEF HandleSet, Ops
  <2> QED
    BY <1>1, <1>6, <2>1 DEF HandleSet
<1>7. CASE PersistenceStops
  BY <1>7 DEF PersistenceStops
<1>8. CASE Save
  <2>1. Append(mailbox, SetOp(Current)) \in Seq(Ops)
    BY <1>2 DEF SetOp, Ops
  <2>2. mailbox' \in Seq(Ops) /\ stop' \in {"panicked", "failed", "persisting"}
    BY <1>8, <2>1 DEF Save
  <2> QED
    BY <1>8, <2>2 DEF Save
<1> QED
  BY <1>3, <1>4, <1>5, <1>6, <1>7, <1>8 DEF RestoreStep, PersistenceStep

LEMMA InvTypeStep == TypeInv /\ [Next]_vars => TypeInv'
<1> SUFFICES ASSUME TypeInv, [Next]_vars PROVE TypeInv'
  OBVIOUS
<1>1. CASE UNCHANGED vars
  BY <1>1 DEF TypeInv, TypeOK, RestoreHasSnapshot, vars
<1>2. CASE Next
  BY <1>1, <1>2, TypeTopic, TypeRequests, TypePersistence
  DEF Next, ListenerStep, StopStep, Terminated
<1> QED
  BY <1>1, <1>2

LEMMA TypeInvariant == Spec => []TypeInv
BY InvTypeInit, InvTypeStep, PTL DEF Spec

\* Every variable of an inventory keeps its type, for all sets of resources, requests
\* and receipt ids: no amount leaves the u64 range, and the ring never holds more than
\* Capacity messages.
THEOREM InventoryTypes == Spec => []TypeOK
<1>1. TypeInv => TypeOK
  BY DEF TypeInv
<1> QED
  BY <1>1, TypeInvariant, PTL

(***************************************************************************)
(* The gaps between a check and its update.                                *)
(***************************************************************************)

LEMMA GapStep ==
  ASSUME TypeInv, GapHolds, [Next]_vars
  PROVE  GapHolds'
<1> USE DEF GapHolds, TypeInv, TypeOK, mapVars, dbVars, sideVars, receiptVars, historyVars, loopVars
<1>1. ASSUME UNCHANGED <<listener, pending, stock, reserved>>, stale => stale' PROVE GapHolds'
  BY <1>1 DEF Sufficient
<1>2. ASSUME listener' \notin Gap PROVE GapHolds'
  BY <1>2 DEF Gap
<1>3. ASSUME NEW r \in Requests, CheckReserve(r) PROVE GapHolds'
  BY <1>3 DEF CheckReserve, Sufficient
<1>4. ASSUME NEW i \in ReceiptIds, LookUpReceipt(i) PROVE GapHolds'
  BY <1>4 DEF LookUpReceipt
<1>5. CASE ApplyRestore
  BY <1>2, <1>5 DEF ApplyRestore, Gap
<1>6. ASSUME NEW n \in Names, NEW a \in Amounts, Insert(n, a) PROVE GapHolds'
  BY <1>2, <1>6 DEF Insert, Gap
<1>7. ASSUME End PROVE GapHolds'
  BY <1>2, <1>7 DEF End, Gap
<1>8. ASSUME \/ Listen \/ CheckStatus \/ TakeStop \/ TakeLagged \/ TakeOther
             \/ CommitReserve \/ CommitRelease \/ Panic
      PROVE  GapHolds'
  BY <1>2, <1>7, <1>8 DEF Listen, CheckStatus, TakeStop, TakeLagged, TakeOther,
    CommitReserve, CommitRelease, Panic, PanicOn, Gap
<1>9. ASSUME \/ \E m \in Messages : ClientSends(m)
             \/ AskGet \/ PersistenceStep \/ PersistenceStops \/ StopBegin \/ StopStep
             \/ UNCHANGED vars
      PROVE  GapHolds'
  BY <1>1, <1>9 DEF ClientSends, AskGet, PersistenceStep, HandleGet, HandleSet,
    PersistenceStops, StopBegin, StopStep, StopSeesStopped, StopForces, Save, vars
<1> QED
  BY <1>3, <1>4, <1>5, <1>6, <1>8, <1>9 DEF Next, ListenerStep, RestoreStep, Terminated

\* Between a check and its update nothing but a restore makes the check stale, so a
\* reservation never takes more than there is and a release credits what is on file.
THEOREM ChecksHold == Spec => []GapHolds
<1>1. Init => GapHolds
  BY DEF Init, GapHolds
<1>2. TypeInv /\ GapHolds /\ [Next]_vars => GapHolds'
  BY GapStep
<1> QED
  BY <1>1, <1>2, TypeInvariant, PTL DEF Spec

(***************************************************************************)
(* Receipts.                                                               *)
(***************************************************************************)

\* ReceiptsExact is not inductive: an id about to be granted must not be among the
\* returned ones, and the id about to be released must be one the history knows.
ReturnedKnown ==
  /\ returned \subseteq granted \cup overwritten
  /\ listener = "releasing" => pending.id \in granted \cup overwritten

ReceiptInv == ReceiptsExact /\ ReturnedKnown

LEMMA ReceiptStep ==
  ASSUME TypeInv, ReceiptInv, [Next]_vars
  PROVE  ReceiptInv'
<1> USE HoldingsAssumption, InventoryAssumption
    DEF ReceiptInv, ReceiptsExact, ReturnedKnown, HasReceipt, TypeInv, TypeOK,
        RestoreHasSnapshot, Receipts, mapVars, dbVars, sideVars, receiptVars, historyVars, loopVars
<1>1. ASSUME UNCHANGED <<reserved, receiptVars>>,
             UNCHANGED <<listener, pending>> \/ listener' # "releasing"
      PROVE  ReceiptInv'
  BY <1>1
<1>2. ASSUME NEW i \in ReceiptIds, LookUpReceipt(i) PROVE ReceiptInv'
  BY <1>2 DEF LookUpReceipt
<1>3. CASE CommitReserve
  <2>1. PICK i \in ReceiptIds \ (granted \cup StoredIds) :
          reserved' = [reserved EXCEPT ![i] = pending] /\ granted' = granted \cup {i}
    BY <1>3 DEF CommitReserve
  <2>2. pending # NoReceipt /\ listener' # "releasing" /\ UNCHANGED <<returned, overwritten>>
    BY <1>3 DEF CommitReserve
  <2>3. i \in overwritten \/ i \notin returned
    BY <2>1
  <2> QED
    BY <2>1, <2>2, <2>3
<1>4. CASE CommitRelease
  <2>1. /\ reserved' = [reserved EXCEPT ![pending.id] = NoReceipt]
        /\ returned' = returned \cup {pending.id}
        /\ listener' # "releasing" /\ UNCHANGED <<granted, overwritten>>
    BY <1>4 DEF CommitRelease
  <2>2. pending.id \in ReceiptIds /\ pending.id \in granted \cup overwritten
    BY <1>4 DEF CommitRelease
  <2> QED
    BY <2>1, <2>2
<1>5. CASE ApplyRestore
  <2>1. /\ reserved' = loaded.reserved
        /\ overwritten' = overwritten \cup granted
                            \cup {i \in ReceiptIds : loaded.reserved[i] # NoReceipt}
        /\ UNCHANGED <<granted, returned, listener, pending>>
    BY <1>5 DEF ApplyRestore
  <2> QED
    BY <2>1
<1>6. ASSUME End PROVE ReceiptInv'
  BY <1>1, <1>6 DEF End
<1>7. ASSUME \/ Listen \/ CheckStatus \/ TakeStop \/ TakeLagged \/ TakeOther \/ Panic
             \/ \E r \in Requests : CheckReserve(r)
      PROVE  ReceiptInv'
  BY <1>1, <1>6, <1>7 DEF Listen, CheckStatus, TakeStop, TakeLagged, TakeOther, Panic,
    PanicOn, CheckReserve
<1>8. ASSUME \/ \E m \in Messages : ClientSends(m)
             \/ \E n \in Names, a \in Amounts : Insert(n, a)
             \/ AskGet \/ PersistenceStep \/ PersistenceStops \/ StopBegin \/ StopStep
             \/ UNCHANGED vars
      PROVE  ReceiptInv'
  BY <1>1, <1>8 DEF ClientSends, Insert, AskGet, PersistenceStep, HandleGet, HandleSet,
    PersistenceStops, StopBegin, StopStep, StopSeesStopped, StopForces, Save, vars
<1> QED
  BY <1>2, <1>3, <1>4, <1>5, <1>7, <1>8 DEF Next, ListenerStep, RestoreStep, Terminated

\* An id that was granted and not returned has its receipt and no other id has one,
\* restored ids apart: no client redeems a receipt twice or loses one it was given.
THEOREM ReceiptsRedeemedOnce == Spec => []ReceiptsExact
<1>1. Init => ReceiptInv
  BY DEF Init, ReceiptInv, ReceiptsExact, ReturnedKnown, HasReceipt
<1>2. TypeInv /\ ReceiptInv /\ [Next]_vars => ReceiptInv'
  BY ReceiptStep
<1>3. ReceiptInv => ReceiptsExact
  BY DEF ReceiptInv
<1> QED
  BY <1>1, <1>2, <1>3, TypeInvariant, PTL DEF Spec

(***************************************************************************)
(* What a clean stop stores.                                               *)
(***************************************************************************)

Clean == ~forced /\ ~lateRestore

\* Stopped is seen only when the listener has ended, or was forced.
EndedInv ==
  /\ (status = "Stopped" /\ ~forced) => listener = "ended"
  /\ (stop \notin {"none", "waiting"} /\ ~forced) => listener = "ended"

\* At most one save is in the mailbox, with what the maps hold.
SaveInv ==
  /\ \A k \in 1..Len(mailbox) :
       mailbox[k].op = "Set" => /\ stop = "persisting"
                                /\ Clean => mailbox[k].value = Current
  /\ \A j, k \in 1..Len(mailbox) :
       (mailbox[j].op = "Set" /\ mailbox[k].op = "Set") => j = k

\* The save that the worker handles is the one that stop is waiting for.
LEMMA SetIsAwaited ==
  ASSUME TypeInv, SaveInv, HandleSet
  PROVE  stop = "persisting" /\ (Clean => Head(mailbox).value = Current)
<1>1. mailbox # <<>> /\ mailbox \in Seq(Ops)
  BY DEF HandleSet, TypeInv, TypeOK
<1>2. 1 \in 1..Len(mailbox) /\ Head(mailbox) = mailbox[1]
  BY <1>1
<1> QED
  BY <1>2 DEF HandleSet, SaveInv

LEMMA EndedStep ==
  ASSUME TypeInv, EndedInv, SaveInv, [Next]_vars
  PROVE  EndedInv'
<1> USE DEF EndedInv, TypeInv, TypeOK, loopVars, mapVars, dbVars, sideVars, receiptVars, historyVars
<1>1. ASSUME End, UNCHANGED <<stop, forced>> PROVE EndedInv'
  BY <1>1 DEF End
<1>2. ASSUME UNCHANGED <<status, stop, forced>>, listener' = listener \/ listener # "ended"
      PROVE  EndedInv'
  BY <1>2
<1>3. CASE CheckStatus \/ TakeStop \/ TakeLagged
  BY <1>1, <1>2, <1>3 DEF CheckStatus, TakeStop, TakeLagged, End
<1>4. ASSUME \/ \E m \in Messages : ClientSends(m)
             \/ \E n \in Names, a \in Amounts : Insert(n, a)
             \/ TakeOther
             \/ \E r \in Requests : CheckReserve(r)
             \/ \E i \in ReceiptIds : LookUpReceipt(i)
             \/ CommitReserve \/ CommitRelease \/ Panic
             \/ RestoreStep \/ HandleGet \/ UNCHANGED vars
      PROVE  EndedInv'
  BY <1>2, <1>4 DEF ClientSends, Insert, TakeOther, Takes, CheckReserve, LookUpReceipt,
    CommitReserve, CommitRelease, Panic, PanicOn, RestoreStep, AskGet, ApplyRestore,
    HandleGet, vars
<1>5. CASE Listen
  BY <1>5 DEF Listen
<1>6. CASE StopBegin \/ StopSeesStopped \/ StopForces \/ Save
  BY <1>6 DEF StopBegin, StopSeesStopped, StopForces, Save
<1>7. CASE PersistenceStops
  BY <1>7 DEF PersistenceStops
<1>8. CASE HandleSet
  BY <1>8, SetIsAwaited DEF HandleSet
<1> QED
  BY <1>3, <1>4, <1>5, <1>6, <1>7, <1>8
  DEF Next, ListenerStep, PersistenceStep, StopStep, Terminated

CleanInv == EndedInv /\ SaveInv /\ CleanStop

LEMMA SaveStep ==
  ASSUME TypeInv, CleanInv, [Next]_vars
  PROVE  SaveInv' /\ CleanStop'
<1> USE DEF CleanInv, SaveInv, Clean, CleanStop, Current, loopVars, mapVars, dbVars, sideVars,
        receiptVars, historyVars
<1>0. mailbox \in Seq(Ops) /\ stop \in StopStates /\ Len(mailbox) \in Nat
  BY DEF TypeInv, TypeOK
<1>1. ASSUME UNCHANGED <<stop, mailbox, store, forced, lateRestore>>,
             UNCHANGED <<stock, reserved>> \/ listener # "ended"
      PROVE  SaveInv' /\ CleanStop'
  BY <1>1 DEF EndedInv
<1>2. ASSUME \/ \E m \in Messages : ClientSends(m)
             \/ Listen \/ CheckStatus \/ TakeStop \/ TakeLagged \/ TakeOther
             \/ \E r \in Requests : CheckReserve(r)
             \/ \E i \in ReceiptIds : LookUpReceipt(i)
             \/ UNCHANGED vars
      PROVE  SaveInv' /\ CleanStop'
  BY <1>1, <1>2 DEF ClientSends, Listen, CheckStatus, TakeStop, TakeLagged, TakeOther, End,
    CheckReserve, LookUpReceipt, vars
<1>3. ASSUME \/ \E n \in Names, a \in Amounts : Insert(n, a)
             \/ CommitReserve \/ CommitRelease \/ Panic
      PROVE  SaveInv' /\ CleanStop'
  BY <1>1, <1>3 DEF Insert, CommitReserve, CommitRelease, Panic, PanicOn
<1>4. ASSUME UNCHANGED <<mailbox>>, stop # "persisting", stop' # "saved"
      PROVE  SaveInv' /\ CleanStop'
  BY <1>4
<1>5. CASE StopBegin \/ StopSeesStopped \/ StopForces
  BY <1>4, <1>5 DEF StopBegin, StopSeesStopped, StopForces
<1>6. CASE ApplyRestore
  <2>1. stop \in {"persisting", "saved"} => lateRestore'
    BY <1>6 DEF ApplyRestore, StopEnds
  <2>2. UNCHANGED <<mailbox, stop>>
    BY <1>6 DEF ApplyRestore
  <2> QED
    BY <2>1, <2>2
<1>7. ASSUME NEW o \in Ops, mailbox' = Append(mailbox, o),
             UNCHANGED <<stock, reserved, store, forced, lateRestore>>,
             \/ o.op = "Get" /\ UNCHANGED stop
             \/ o = SetOp(Current) /\ stop = "saving" /\ stop' = "persisting"
      PROVE  SaveInv' /\ CleanStop'
  <2>1. \A k \in 1..Len(mailbox') :
           \/ k \in 1..Len(mailbox) /\ mailbox'[k] = mailbox[k]
           \/ k = Len(mailbox) + 1 /\ mailbox'[k] = o
    BY <1>0, <1>7
  <2>2. CASE o.op = "Get" /\ UNCHANGED stop
    BY <1>7, <2>1, <2>2
  <2>3. CASE o = SetOp(Current) /\ stop = "saving" /\ stop' = "persisting"
    <3>1. o.value = Current
      BY <2>3 DEF SetOp
    <3> QED
      BY <1>7, <2>1, <2>3, <3>1
  <2> QED
    BY <1>7, <2>2, <2>3
<1>8. CASE AskGet
  <2>1. CASE persistence = "running"
    <3>1. GetOp \in Ops /\ GetOp.op = "Get"
      BY DEF GetOp, Ops
    <3> QED
      BY <1>7, <1>8, <2>1, <3>1 DEF AskGet
  <2>2. CASE persistence # "running"
    BY <1>1, <1>8, <2>2 DEF AskGet
  <2> QED
    BY <2>1, <2>2
<1>9. CASE Save
  <2>1. CASE ~poisoned /\ persistence = "running"
    <3>1. SetOp(Current) \in Ops
      BY DEF SetOp, Ops, Snapshots, TypeInv, TypeOK
    <3>2. mailbox' = Append(mailbox, SetOp(Current)) /\ stop' = "persisting"
      BY <1>9, <2>1 DEF Save
    <3> QED
      BY <1>7, <1>9, <3>1, <3>2 DEF Save
  <2>2. CASE poisoned \/ persistence # "running"
    <3>1. UNCHANGED mailbox /\ stop = "saving" /\ stop' \in {"panicked", "failed"}
      BY <1>9, <2>2 DEF Save
    <3> QED
      BY <1>4, <3>1
  <2> QED
    BY <2>1, <2>2
<1>10. ASSUME mailbox # <<>>, mailbox' = Tail(mailbox)
       PROVE  \A k \in 1..Len(mailbox') : /\ k + 1 \in 2..Len(mailbox)
                                          /\ mailbox'[k] = mailbox[k + 1]
  <2>1. Len(mailbox') = Len(mailbox) - 1
    BY <1>0, <1>10
  <2> QED
    BY <1>0, <1>10, <2>1
<1>11. CASE HandleGet
  <2>1. mailbox # <<>> /\ mailbox' = Tail(mailbox)
    BY <1>11 DEF HandleGet
  <2>2. UNCHANGED <<stock, reserved, stop, store, forced, lateRestore>>
    BY <1>11 DEF HandleGet
  <2> QED
    BY <1>0, <1>10, <2>1, <2>2
<1>12. CASE HandleSet
  <2>1. mailbox # <<>> /\ mailbox' = Tail(mailbox) /\ Head(mailbox).op = "Set"
    BY <1>12 DEF HandleSet
  <2>2. 1 \in 1..Len(mailbox) /\ mailbox[1].op = "Set"
    BY <1>0, <2>1
  <2>3. \A k \in 1..Len(mailbox') : mailbox'[k].op # "Set"
    BY <1>0, <1>10, <2>1, <2>2
  <2>4. Clean => store' = Current
    BY <1>12, SetIsAwaited DEF HandleSet
  <2> QED
    BY <1>12, <2>3, <2>4 DEF HandleSet
<1>13. CASE PersistenceStops
  <2>1. Len(mailbox') = 0
    BY <1>13 DEF PersistenceStops
  <2>2. stop' = "saved" => stop = "saved"
    BY <1>13 DEF PersistenceStops
  <2> QED
    BY <1>13, <2>1, <2>2 DEF PersistenceStops
<1> QED
  BY <1>2, <1>3, <1>5, <1>6, <1>8, <1>9, <1>11, <1>12, <1>13
  DEF Next, ListenerStep, RestoreStep, PersistenceStep, StopStep, Terminated

\* If stop found the listener gone and no restore came after its snapshot, the store
\* holds what the inventory holds from the moment stop returns.
THEOREM CleanStopSaves == Spec => []CleanStop
<1>1. Init => CleanInv
  <2> SUFFICES ASSUME Init PROVE CleanInv
    OBVIOUS
  <2>1. Len(mailbox) = 0
    BY DEF Init
  <2> QED
    BY <2>1 DEF Init, CleanInv, EndedInv, SaveInv, CleanStop
<1>2. TypeInv /\ CleanInv /\ [Next]_vars => CleanInv'
  BY EndedStep, SaveStep DEF CleanInv
<1>3. CleanInv => CleanStop
  BY DEF CleanInv
<1> QED
  BY <1>1, <1>2, <1>3, TypeInvariant, PTL DEF Spec

(***************************************************************************)
(* Nobody waits in vain: what the end of stop needs besides fairness.      *)
(***************************************************************************)
InMailbox(op) == \E k \in 1..Len(mailbox) : mailbox[k].op = op

\* A restore and a stop that await a reply have their operation before a worker that runs.
RepliesComing ==
  /\ restore = "asked" => persistence = "running" /\ InMailbox("Get")
  /\ stop = "persisting" => persistence = "running" /\ InMailbox("Set")

\* An operation that is appended is in the mailbox, with those that were.
LEMMA MailboxGrows ==
  ASSUME TypeInv, NEW o \in Ops, mailbox' = Append(mailbox, o)
  PROVE  InMailbox(o.op)' /\ \A op : InMailbox(op) => InMailbox(op)'
<1>1. /\ Len(mailbox) \in Nat /\ Len(mailbox') = Len(mailbox) + 1
      /\ mailbox'[Len(mailbox) + 1] = o
      /\ \A k \in 1..Len(mailbox) : mailbox'[k] = mailbox[k]
  BY DEF TypeInv, TypeOK
<1> QED
  BY <1>1 DEF InMailbox

\* Handling an operation takes none of another kind.
LEMMA MailboxShrinks ==
  ASSUME TypeInv, mailbox # <<>>, mailbox' = Tail(mailbox), NEW op, op # Head(mailbox).op,
         InMailbox(op)
  PROVE  InMailbox(op)'
<1>1. PICK k \in 1..Len(mailbox) : mailbox[k].op = op
  BY DEF InMailbox
<1>2. k # 1 /\ Len(mailbox) \in Nat /\ Len(mailbox') = Len(mailbox) - 1
  BY <1>1 DEF TypeInv, TypeOK
<1>3. k - 1 \in 1..Len(mailbox') /\ mailbox'[k - 1] = mailbox[k]
  BY <1>1, <1>2 DEF TypeInv, TypeOK
<1> QED
  BY <1>1, <1>3 DEF InMailbox

LEMMA RepliesStep ==
  ASSUME TypeInv, RepliesComing, [Next]_vars
  PROVE  RepliesComing'
<1> USE DEF RepliesComing, dbVars, sideVars
<1>1. ASSUME UNCHANGED <<restore, mailbox, persistence>>, stop' # "persisting" \/ UNCHANGED stop
      PROVE  RepliesComing'
  BY <1>1 DEF InMailbox
<1>2. ASSUME \/ \E m \in Messages : ClientSends(m)
             \/ \E n \in Names, a \in Amounts : Insert(n, a)
             \/ ListenerStep
             \/ StopBegin \/ StopSeesStopped \/ StopForces
             \/ UNCHANGED vars
      PROVE  RepliesComing'
  BY <1>1, <1>2 DEF ClientSends, Insert, ListenerStep, Listen, CheckStatus, TakeStop, TakeLagged,
    TakeOther, End, CheckReserve, LookUpReceipt, CommitReserve, CommitRelease, Panic, PanicOn,
    StopBegin, StopSeesStopped, StopForces, vars
<1>3. CASE AskGet
  <2>1. CASE persistence = "running"
    <3>1. GetOp \in Ops /\ GetOp.op = "Get" /\ mailbox' = Append(mailbox, GetOp)
      BY <1>3, <2>1 DEF AskGet, GetOp, Ops
    <3> QED
      BY <1>3, <2>1, <3>1, MailboxGrows DEF AskGet
  <2>2. CASE persistence # "running"
    BY <1>3, <2>2 DEF AskGet, InMailbox
  <2> QED
    BY <2>1, <2>2
<1>4. CASE ApplyRestore
  BY <1>4 DEF ApplyRestore, InMailbox
<1>5. CASE HandleGet
  <2>1. Head(mailbox).op = "Get" /\ "Set" # "Get"
    BY <1>5 DEF HandleGet, GetOp
  <2>2. InMailbox("Set") => InMailbox("Set")'
    BY <1>5, <2>1, MailboxShrinks DEF HandleGet
  <2> QED
    BY <1>5, <2>2 DEF HandleGet
<1>6. CASE HandleSet
  <2>1. InMailbox("Get") => InMailbox("Get")'
    BY <1>6, "Get" # "Set", MailboxShrinks DEF HandleSet
  <2> QED
    BY <1>6, <2>1 DEF HandleSet
<1>7. CASE PersistenceStops
  BY <1>7 DEF PersistenceStops
<1>8. CASE Save
  <2>1. CASE ~poisoned /\ persistence = "running"
    <3>1. SetOp(Current) \in Ops /\ SetOp(Current).op = "Set"
      BY DEF SetOp, Ops, Current, Snapshots, TypeInv, TypeOK
    <3>2. mailbox' = Append(mailbox, SetOp(Current)) /\ stop' = "persisting"
      BY <1>8, <2>1 DEF Save
    <3> QED
      BY <1>8, <2>1, <3>1, <3>2, MailboxGrows DEF Save
  <2>2. CASE poisoned \/ persistence # "running"
    BY <1>1, <1>8, <2>2 DEF Save
  <2> QED
    BY <2>1, <2>2
<1> QED
  BY <1>2, <1>3, <1>4, <1>5, <1>6, <1>7, <1>8
  DEF Next, RestoreStep, PersistenceStep, StopStep, Terminated

\* Neither the restore's thread nor a stop, which holds the dispatcher's map meanwhile,
\* waits for a reply that nobody will send, whenever the persistence worker stops.
THEOREM RepliesAlwaysComing == Spec => []RepliesComing
<1>1. Init => RepliesComing
  BY DEF Init, RepliesComing
<1> QED
  BY <1>1, RepliesStep, TypeInvariant, PTL DEF Spec

=============================================================================
