-------------------------- MODULE LifecycleProofs --------------------------
(***************************************************************************)
(* Theorems about Lifecycle: types, no two listeners of one id, no         *)
(* inventory without a session, saves that lose nothing, and sessions that *)
(* do not wait for one another.                                            *)
(***************************************************************************)
EXTENDS Lifecycle, TLAPS

\* A handler works for a session that waits for it, and is in line while it has reached the
\* semaphore.
Lined == {"queued", "created"} \cup Holding
LineInv ==
  /\ \A s \in Sessions : handler[s] # "none" => session[s] \in Waiting
  /\ \A s \in Sessions : handler[s] \in Lined <=> \E n \in DOMAIN line : line[n] = s

\* The handler that holds the map has removed an object of its id from it; what it saves is
\* queued once.
MutexInv ==
  /\ \A s, t \in Sessions : handler[s] \in Holding /\ handler[t] \in Holding => s = t
  /\ \A s \in Sessions : handler[s] \in Holding =>
       /\ target[s] \in Sessions /\ IdOf[target[s]] = IdOf[s]
       /\ inventories[IdOf[s]] = None
  /\ \A n \in DOMAIN ops : ops[n].op = "Set" => handler[ops[n].by] = "persisting"
  /\ \A m, n \in DOMAIN ops : ops[m].op = "Set" /\ ops[n].op = "Set" => m = n

\* An object is made by a session that adds, and listens only once it is in the map; what
\* listens is there, is being stopped, or its stop gave up.
InMap(i) == inventories[IdOf[i]] = i
BeingStopped(i) == \E s \in Sessions : handler[s] = "stopping" /\ target[s] = i
ObjectInv ==
  /\ \A id \in Ids : inventories[id] # None => IdOf[inventories[id]] = id
  /\ \A s \in Sessions : session[s] \in {"absent", "connected", "adding"} => listener[s] =
     "none"
  /\ \A s \in Sessions : handler[s] = "created" => session[s] = "adding"
  /\ \A i \in Sessions : listener[i] \in {"spawned", "listening"} \/ handler[i] = "created" =>
       InMap(i) \/ BeingStopped(i) \/ i \in forced

IInv == TypeOK /\ LineInv /\ MutexInv /\ ObjectInv

\* An object that will be saved, or whose save is pending, holds what is stored under its
\* id once its restore has come to an end.
ToSave(i) ==
  InMap(i) \/ \E s \in Sessions : handler[s] \in {"stopping", "saving"} /\ target[s] = i
SaveInv ==
  /\ persistence = "running" =>
       \A i \in Sessions : ToSave(i) /\ restore[i] \notin {"queued", "asked"} =>
         Stored(IdOf[i]) \subseteq content[i]
  /\ \A n \in DOMAIN ops : ops[n].op = "Set" =>
       /\ persistence = "running" /\ ops[n].id = IdOf[ops[n].by]
       /\ Stored(ops[n].id) \subseteq ops[n].marks \/ ops[n].early

-----------------------------------------------------------------------------
\* Append keeps the elements and adds one at the end.
LEMMA AppendElements ==
  ASSUME NEW S, NEW q \in Seq(S), NEW e \in S
  PROVE  /\ Append(q, e) \in Seq(S)
         /\ \A n \in DOMAIN Append(q, e) :
              \/ n \in DOMAIN q /\ Append(q, e)[n] = q[n]
              \/ n = Len(q) + 1 /\ Append(q, e)[n] = e
         /\ \A n \in DOMAIN q : n \in DOMAIN Append(q, e) /\ Append(q, e)[n] = q[n]
         /\ Len(q) + 1 \in DOMAIN Append(q, e) /\ Append(q, e)[Len(q) + 1] = e
<1>1. /\ Append(q, e) \in Seq(S) /\ Len(Append(q, e)) = Len(q) + 1 /\ Len(q) \in Nat
      /\ \A n \in 1..Len(q) : Append(q, e)[n] = q[n]
      /\ Append(q, e)[Len(q) + 1] = e
  OBVIOUS
<1>2. DOMAIN q = 1..Len(q) /\ DOMAIN Append(q, e) = 1..(Len(q) + 1)
  BY <1>1
<1> QED BY <1>1, <1>2

\* A session that sends a request is not waiting. It waits then, or the dispatcher is gone.
LEMMA RequestEffect ==
  ASSUME TypeOK, NEW s \in Sessions, SetupInventory(s) \/ RequestTask(s) \/ CleanupInventory(s)
  PROVE  /\ session[s] \notin Waiting
         /\ \A t \in Sessions : t # s => session'[t] = session[t] /\ handler'[t] = handler[t]
         /\ \/ dispatcher = "gone" /\ session'[s] \notin Waiting /\ handler'[s] = handler[s]
            \/ dispatcher # "gone" /\ session'[s] \in Waiting /\ handler'[s] = "mailed"
         /\ UNCHANGED <<line, inventories, poisoned, target, restore, content, ops, store,
                        persistence, dispatcher>>
<1> USE DEF TypeOK, Send, Waiting, mapVars, objectVars, dbVars, processVars
<1>1. CASE SetupInventory(s)
  BY <1>1 DEF SetupInventory
<1>2. CASE RequestTask(s)
  BY <1>2 DEF RequestTask
<1>3. CASE CleanupInventory(s)
  BY <1>3 DEF CleanupInventory
<1> QED BY <1>1, <1>2, <1>3

\* Tail keeps the other elements, one place further to the front.
LEMMA TailElements ==
  ASSUME NEW S, NEW q \in Seq(S), q # <<>>
  PROVE  /\ Head(q) \in S /\ Head(q) = q[1] /\ 1 \in DOMAIN q
         /\ Tail(q) \in Seq(S)
         /\ \A n \in DOMAIN Tail(q) : n + 1 \in DOMAIN q /\ Tail(q)[n] = q[n + 1] /\ n + 1 # 1
         /\ \A m, n \in DOMAIN Tail(q) : m + 1 = n + 1 => m = n
  OBVIOUS

\* RemoveAt removes one element of a sequence without duplicates, and no other.
LEMMA RemoveAtElements ==
  ASSUME NEW S, NEW q \in Seq(S), IsInjective(q), NEW k \in DOMAIN q
  PROVE  /\ RemoveAt(q, k) \in Seq(S) /\ IsInjective(RemoveAt(q, k))
         /\ \A x \in S : (\E n \in DOMAIN RemoveAt(q, k) : RemoveAt(q, k)[n] = x)
                           <=> x # q[k] /\ \E n \in DOMAIN q : q[n] = x
<1> DEFINE r == RemoveAt(q, k)
<1>1. Len(q) \in Nat /\ k \in 1..Len(q)
  OBVIOUS
<1>2. /\ SubSeq(q, 1, k - 1) \in Seq(S) /\ Len(SubSeq(q, 1, k - 1)) = k - 1
      /\ \A n \in 1..(k - 1) : SubSeq(q, 1, k - 1)[n] = q[n]
  BY <1>1
<1>3. /\ SubSeq(q, k + 1, Len(q)) \in Seq(S) /\ Len(SubSeq(q, k + 1, Len(q))) = Len(q) - k
      /\ \A n \in 1..(Len(q) - k) : SubSeq(q, k + 1, Len(q))[n] = q[n + k]
  BY <1>1
<1>4. /\ r \in Seq(S) /\ Len(r) = Len(q) - 1
      /\ \A n \in 1..Len(r) : r[n] = IF n < k THEN q[n] ELSE q[n + 1]
  <2> DEFINE front == SubSeq(q, 1, k - 1)
             back == SubSeq(q, k + 1, Len(q))
  <2> HIDE DEF front, back
  <2>1. /\ r = front \o back /\ front \in Seq(S) /\ back \in Seq(S)
        /\ Len(front) = k - 1 /\ Len(back) = Len(q) - k
        /\ \A n \in 1..(k - 1) : front[n] = q[n]
        /\ \A n \in 1..(Len(q) - k) : back[n] = q[n + k]
    BY <1>2, <1>3 DEF RemoveAt, front, back
  <2>2. r \in Seq(S) /\ Len(r) = Len(q) - 1
    BY <1>1, <2>1
  <2>3. ASSUME NEW n \in 1..Len(r), n < k PROVE r[n] = q[n]
    BY <1>1, <2>1, <2>2, <2>3
  <2>4. ASSUME NEW n \in 1..Len(r), ~(n < k) PROVE r[n] = q[n + 1]
    <3>1. n - (k - 1) \in 1..(Len(q) - k) /\ (n - (k - 1)) + k = n + 1
      BY <1>1, <2>2, <2>4
    <3>2. r[n] = back[n - (k - 1)]
      BY <1>1, <2>1, <2>2, <2>4
    <3> QED BY <2>1, <3>1, <3>2
  <2> QED BY <2>2, <2>3, <2>4
<1>5. IsInjective(r)
  BY <1>1, <1>4 DEF IsInjective
<1>6. ASSUME NEW n \in DOMAIN r PROVE r[n] # q[k] /\ \E m \in DOMAIN q : q[m] = r[n]
  <2>1. n \in 1..Len(r) /\ n \in DOMAIN q /\ n + 1 \in DOMAIN q
    BY <1>1, <1>4
  <2> QED BY <1>1, <1>4, <2>1 DEF IsInjective
<1>7. ASSUME NEW m \in DOMAIN q, q[m] # q[k] PROVE \E n \in DOMAIN r : r[n] = q[m]
  <2>1. CASE m < k
    BY <1>1, <1>4, <2>1
  <2>2. CASE m > k
    BY <1>1, <1>4, <2>2, m - 1 \in 1..Len(r)
  <2> QED BY <1>1, <1>7, <2>1, <2>2
<1> QED BY <1>4, <1>5, <1>6, <1>7

\* A handler that answers gives up its place in line.
LEMMA ReplyEffect ==
  ASSUME TypeOK, NEW s \in Sessions, NEW state \in SessionStates, Reply(s, state)
  PROVE  /\ session' \in [Sessions -> SessionStates] /\ handler' \in [Sessions -> HandlerStates]
         /\ line' \in Seq(Sessions) /\ IsInjective(line')
         /\ \A x \in Sessions : (\E n \in DOMAIN line' : line'[n] = x)
                                  <=> x # s /\ \E n \in DOMAIN line : line[n] = x
<1>1. /\ session' \in [Sessions -> SessionStates] /\ handler' \in [Sessions -> HandlerStates]
  BY DEF Reply, TypeOK, HandlerStates
<1>2. PICK k \in DOMAIN line : line[k] = s /\ line' = RemoveAt(line, k)
  BY DEF Reply
<1> QED BY <1>1, <1>2, RemoveAtElements DEF TypeOK

\* Only operations are sent.
LEMMA OpTypes ==
  ASSUME TypeOK, NEW s \in Sessions
  PROVE  GetOp(s) \in Ops /\ StopOp \in Ops /\ (target[s] \in Sessions => SetOp(s) \in Ops)
<1>1. GetOp(s) \in Ops /\ StopOp \in Ops
  BY DEF GetOp, StopOp, Ops
<1>2. ASSUME target[s] \in Sessions PROVE SetOp(s) \in Ops
  BY <1>2, LifecycleAssumption DEF TypeOK, SetOp, Ops
<1> QED BY <1>1, <1>2

\* The initial states satisfy the invariant.
LEMMA InitIInv == Init => IInv
<1> USE LifecycleAssumption DEF Init
<1>1. ASSUME Init PROVE TypeOK
  <2>1. line \in Seq(Sessions) /\ IsInjective(line)
    BY <1>1 DEF IsInjective
  <2>2. {{}, {{}}} \subseteq Stores
    BY DEF Stores
  <2>3. store \in [Ids -> Stores]
    BY <1>1, <2>2
  <2>4. ops \in Seq(Ops)
    BY <1>1
  <2> QED BY <1>1, <2>1, <2>3, <2>4 DEF TypeOK, SessionStates, HandlerStates
<1>2. Init => LineInv
  BY DEF LineInv, Lined, Holding
<1>3. Init => MutexInv
  BY DEF MutexInv, Holding
<1>4. Init => ObjectInv
  BY DEF ObjectInv
<1> QED BY <1>1, <1>2, <1>3, <1>4 DEF IInv

\* No step breaks a type.
LEMMA TypeStep == ASSUME IInv, Next PROVE TypeOK'
<1> USE LifecycleAssumption DEF requestVars, mapVars, objectVars, dbVars, processVars
<1>1. ASSUME NEW s \in Sessions, Connect(s) PROVE TypeOK'
  <2>1. session' \in [Sessions -> SessionStates]
    BY <1>1 DEF Connect, IInv, TypeOK, SessionStates
  <2> QED BY <1>1, <2>1 DEF Connect, IInv, TypeOK
<1>2. ASSUME NEW s \in Sessions, SetupInventory(s) PROVE TypeOK'
  BY <1>2
  DEF SetupInventory, Send, IInv, TypeOK, SessionStates, HandlerStates, Waiting, Holding,
      Stores
<1>3. ASSUME NEW s \in Sessions, RequestTask(s) PROVE TypeOK'
  BY <1>3
  DEF RequestTask, Send, IInv, TypeOK, SessionStates, HandlerStates, Waiting, Holding,
      Stores
<1>4. ASSUME NEW s \in Sessions, Leave(s) PROVE TypeOK'
  BY <1>4 DEF Leave, IInv, TypeOK, SessionStates, HandlerStates, Waiting, Holding, Stores
<1>5. ASSUME NEW s \in Sessions, CleanupInventory(s) PROVE TypeOK'
  BY <1>5
  DEF CleanupInventory, Send, IInv, TypeOK, SessionStates, HandlerStates, Waiting, Holding,
      Stores
<1>6. ASSUME NEW s \in Sessions, Receive(s) PROVE TypeOK'
  <2>1. line' \in Seq(Sessions) /\ IsInjective(line')
    <3>1. line' = Append(line, s) /\ ~(\E n \in DOMAIN line : line[n] = s)
      BY <1>6 DEF Receive, IInv, LineInv, Lined, Holding
    <3>2. line \in Seq(Sessions) /\ IsInjective(line)
      BY DEF IInv, TypeOK
    <3> QED BY <3>1, <3>2, AppendElements DEF IsInjective
  <2> QED BY <1>6, <2>1 DEF Receive, IInv, TypeOK, HandlerStates
<1>7. ASSUME NEW s \in Sessions, HandleTaskRequest(s) PROVE TypeOK'
  <2>1. TypeOK /\ Reply(s, "serving") /\ "serving" \in SessionStates
    BY <1>7 DEF HandleTaskRequest, IInv, SessionStates
  <2> QED BY <1>7, <2>1, ReplyEffect DEF HandleTaskRequest, TypeOK
<1>8. ASSUME NEW s \in Sessions, AddRefused(s) PROVE TypeOK'
  <2>1. TypeOK /\ Reply(s, "gone") /\ "gone" \in SessionStates
    BY <1>8 DEF AddRefused, IInv, SessionStates
  <2> QED BY <1>8, <2>1, ReplyEffect DEF AddRefused, TypeOK
<1>9. ASSUME NEW s \in Sessions, AddExisting(s) PROVE TypeOK'
  <2>1. TypeOK /\ Reply(s, "serving") /\ "serving" \in SessionStates
    BY <1>9 DEF AddExisting, IInv, SessionStates
  <2> QED BY <1>9, <2>1, ReplyEffect DEF AddExisting, TypeOK
<1>10. ASSUME NEW s \in Sessions, AddNew(s) PROVE TypeOK'
  BY <1>10 DEF AddNew, IInv, TypeOK, SessionStates, HandlerStates, Waiting, Holding, Stores
<1>11. ASSUME NEW s \in Sessions, Created(s) PROVE TypeOK'
  <2>1. TypeOK /\ Reply(s, "serving") /\ "serving" \in SessionStates
    BY <1>11 DEF Created, IInv, SessionStates
  <2> QED BY <1>11, <2>1, ReplyEffect DEF Created, TypeOK
<1>12. ASSUME NEW s \in Sessions, RemoveRefused(s) PROVE TypeOK'
  <2>1. TypeOK /\ Reply(s, "gone") /\ "gone" \in SessionStates
    BY <1>12 DEF RemoveRefused, IInv, SessionStates
  <2> QED BY <1>12, <2>1, ReplyEffect DEF RemoveRefused, TypeOK
<1>13. ASSUME NEW s \in Sessions, RemoveEntry(s) PROVE TypeOK'
  <2>1. inventories[IdOf[s]] \in Sessions
    BY <1>13 DEF RemoveEntry, IInv, TypeOK
  <2> QED BY <1>13, <2>1 DEF RemoveEntry, IInv, TypeOK, HandlerStates, Holding
<1>14. ASSUME NEW s \in Sessions, StopWaits(s) PROVE TypeOK'
  <2>1. target[s] \in Sessions
    BY <1>14 DEF StopWaits, IInv, MutexInv, Holding
  <2> QED BY <1>14, <2>1 DEF StopWaits, IInv, TypeOK, HandlerStates, Holding
<1>15. ASSUME NEW s \in Sessions, Save(s) PROVE TypeOK'
  <2>1. SetOp(s) \in Ops /\ ops \in Seq(Ops)
    BY <1>15, OpTypes DEF Save, IInv, TypeOK, MutexInv, Holding
  <2>2. Append(ops, SetOp(s)) \in Seq(Ops)
    BY <2>1, AppendElements
  <2> QED BY <1>15, <2>2 DEF Save, IInv, TypeOK, SessionStates, HandlerStates, Waiting,
     Holding, Stores
<1>16. ASSUME NEW s \in Sessions, SavePanics(s) PROVE TypeOK'
  <2>1. TypeOK /\ Reply(s, "gone") /\ "gone" \in SessionStates
    BY <1>16 DEF SavePanics, IInv, SessionStates
  <2> QED BY <1>16, <2>1, ReplyEffect DEF SavePanics, TypeOK
<1>17. ASSUME NEW s \in Sessions, Removed(s) PROVE TypeOK'
  <2>1. TypeOK /\ Reply(s, "gone") /\ "gone" \in SessionStates
    BY <1>17 DEF Removed, IInv, SessionStates
  <2> QED BY <1>17, <2>1, ReplyEffect DEF Removed, TypeOK
<1>18. ASSUME NEW s \in Sessions, Listen(s) PROVE TypeOK'
  BY <1>18 DEF Listen, IInv, TypeOK, SessionStates, HandlerStates, Waiting, Holding, Stores
<1>19. ASSUME NEW s \in Sessions, Mark(s) PROVE TypeOK'
  BY <1>19 DEF Mark, IInv, TypeOK, SessionStates, HandlerStates, Waiting, Holding, Stores
<1>20. ASSUME NEW s \in Sessions, ListenerEnds(s) PROVE TypeOK'
  BY <1>20
  DEF ListenerEnds, IInv, TypeOK, SessionStates, HandlerStates, Waiting, Holding, Stores
<1>21. ASSUME NEW s \in Sessions, ListenerPanics(s) PROVE TypeOK'
  BY <1>21
  DEF ListenerPanics, IInv, TypeOK, SessionStates, HandlerStates, Waiting, Holding, Stores
<1>22. ASSUME NEW s \in Sessions, AskGet(s) PROVE TypeOK'
  <2>1. GetOp(s) \in Ops /\ ops \in Seq(Ops)
    BY <1>22, OpTypes DEF AskGet, IInv, TypeOK
  <2>2. Append(ops, GetOp(s)) \in Seq(Ops)
    BY <2>1, AppendElements
  <2> QED BY <1>22, <2>2 DEF AskGet, IInv, TypeOK, SessionStates, HandlerStates, Waiting,
     Holding, Stores
<1>23. ASSUME HandleGet PROVE TypeOK'
  <2>1. Head(ops) \in Ops /\ Tail(ops) \in Seq(Ops)
    BY <1>23, TailElements DEF HandleGet, IInv, TypeOK
  <2>2. Head(ops).object \in Sessions
    BY <1>23, <2>1 DEF HandleGet, Ops
  <2>3. Stored(IdOf[Head(ops).object]) \in SUBSET Sessions
    <3>1. store[IdOf[Head(ops).object]] \in Stores
      BY <2>2, LifecycleAssumption DEF IInv, TypeOK
    <3> QED BY <3>1 DEF Stores, Stored
  <2>4. content' \in [Sessions -> SUBSET Sessions]
    BY <1>23, <2>2, <2>3 DEF HandleGet, IInv, TypeOK
  <2>5. restore' \in [Sessions -> {"none", "queued", "asked", "applied", "failed"}]
    BY <1>23, <2>2 DEF HandleGet, IInv, TypeOK
  <2> QED BY <1>23, <2>1, <2>4, <2>5 DEF HandleGet, IInv, TypeOK
<1>24. ASSUME HandleSet PROVE TypeOK'
  <2>1. Head(ops) \in Ops /\ Tail(ops) \in Seq(Ops)
    BY <1>24, TailElements DEF HandleSet, IInv, TypeOK
  <2>2. Head(ops).id \in Ids /\ Head(ops).marks \in SUBSET Sessions /\ Head(ops).by \in Sessions
    BY <1>24, <2>1 DEF HandleSet, Ops
  <2>3. store' \in [Ids -> Stores]
    BY <1>24, <2>2 DEF HandleSet, IInv, TypeOK, Stores
  <2> QED BY <1>24, <2>1, <2>2, <2>3 DEF HandleSet, IInv, TypeOK, HandlerStates, Holding
<1>25. ASSUME HandleStop PROVE TypeOK'
  <2>1. ops' \in Seq(Ops)
    BY <1>25 DEF HandleStop
  <2> QED BY <1>25, <2>1 DEF HandleStop, IInv, TypeOK, SessionStates, HandlerStates, Waiting,
     Holding, Stores
<1>26. ASSUME CtrlC PROVE TypeOK'
  BY <1>26 DEF CtrlC, IInv, TypeOK, SessionStates, HandlerStates, Waiting, Holding, Stores
<1>27. ASSUME DispatcherEnds PROVE TypeOK'
  <2>1. \A x \in Sessions : handler[x] = "mailed" => AfterLoss(x) \in SessionStates
    BY DEF IInv, LineInv, Waiting, AfterLoss, SessionStates
  <2> QED BY <1>27, <2>1 DEF DispatcherEnds, IInv, TypeOK, HandlerStates
<1>28. ASSUME StopPersistence PROVE TypeOK'
  <2>1. StopOp \in Ops /\ ops \in Seq(Ops)
    BY DEF IInv, TypeOK, StopOp, Ops
  <2>2. Append(ops, StopOp) \in Seq(Ops)
    BY <2>1, AppendElements
  <2> QED BY <1>28, <2>2 DEF StopPersistence, TypeOK, IInv
<1>29. ASSUME Idle PROVE TypeOK'
  BY <1>29 DEF Idle, vars, IInv, TypeOK, SessionStates, HandlerStates, Waiting, Holding, Stores
<1> QED
  BY <1>1, <1>2, <1>3, <1>4, <1>5, <1>6, <1>7, <1>8, <1>9, <1>10, <1>11, <1>12, <1>13, <1>14,
     <1>15, <1>16, <1>17, <1>18, <1>19, <1>20, <1>21, <1>22, <1>23, <1>24, <1>25, <1>26,
     <1>27, <1>28, <1>29
  DEF Next, SessionStep, HandlerStep, ObjectStep, PersistenceStep, ProcessStep

\* A handler that goes on keeps its place in line.
LEMMA LineKept ==
  ASSUME IInv, NEW s \in Sessions, handler[s] \in Lined, NEW h \in Lined,
         handler' = [handler EXCEPT ![s] = h], UNCHANGED <<session, line>>
  PROVE  LineInv'
<1>1. \A x \in Sessions : handler'[x] = IF x = s THEN h ELSE handler[x]
  BY DEF IInv, TypeOK
<1>2. \A x \in Sessions : handler'[x] \in Lined <=> handler[x] \in Lined
  BY <1>1
<1>3. \A x \in Sessions : handler'[x] # "none" => session'[x] \in Waiting
  BY <1>1 DEF IInv, LineInv, Lined, Holding
<1> QED BY <1>2, <1>3 DEF IInv, LineInv

\* An operation that is no Set leaves those in the mailbox as they are.
LEMMA OtherOpAdded ==
  ASSUME IInv, NEW o \in Ops, o.op # "Set", ops' = Append(ops, o), UNCHANGED <<handler,
     target, inventories>>
  PROVE  MutexInv'
<1>1. \A n \in DOMAIN ops' : ops'[n].op = "Set" => n \in DOMAIN ops /\ ops'[n] = ops[n]
  BY AppendElements DEF IInv, TypeOK
<1> QED BY <1>1 DEF IInv, MutexInv

\* Handlers enter and leave the line as they reach the semaphore and answer.
LEMMA LineStep == ASSUME IInv, Next PROVE LineInv'
<1> USE LifecycleAssumption DEF requestVars, mapVars, objectVars, dbVars, processVars
<1>1. ASSUME NEW s \in Sessions, Connect(s) PROVE LineInv'
  BY <1>1 DEF Connect, IInv, TypeOK, LineInv, Lined, Holding, Waiting, AfterLoss
<1>2. ASSUME NEW s \in Sessions, SetupInventory(s) PROVE LineInv'
  BY <1>2, RequestEffect DEF IInv, LineInv, Lined, Holding
<1>3. ASSUME NEW s \in Sessions, RequestTask(s) PROVE LineInv'
  BY <1>3, RequestEffect DEF IInv, LineInv, Lined, Holding
<1>4. ASSUME NEW s \in Sessions, Leave(s) PROVE LineInv'
  BY <1>4 DEF Leave, IInv, TypeOK, LineInv, Lined, Holding, Waiting, AfterLoss
<1>5. ASSUME NEW s \in Sessions, CleanupInventory(s) PROVE LineInv'
  BY <1>5, RequestEffect DEF IInv, LineInv, Lined, Holding
<1>6. ASSUME NEW s \in Sessions, Receive(s) PROVE LineInv'
  <2>1. /\ line' = Append(line, s) /\ line \in Seq(Sessions)
        /\ handler' = [handler EXCEPT ![s] = "queued"]
    BY <1>6 DEF Receive, IInv, TypeOK
  <2>2. \A x \in Sessions : (\E n \in DOMAIN line' : line'[n] = x)
                             <=> x = s \/ \E n \in DOMAIN line : line[n] = x
    BY <2>1, AppendElements
  <2>3. \A x \in Sessions : handler'[x] \in Lined <=> x = s \/ handler[x] \in Lined
    BY <2>1 DEF IInv, TypeOK, Lined
  <2>4. \A x \in Sessions : handler'[x] \in Lined <=> \E n \in DOMAIN line' : line'[n] = x
    BY <2>2, <2>3 DEF IInv, LineInv
  <2>5. \A x \in Sessions : handler'[x] # "none" => session'[x] \in Waiting
    BY <1>6 DEF Receive, IInv, TypeOK, LineInv
  <2> QED BY <2>4, <2>5 DEF LineInv
<1>7. ASSUME NEW s \in Sessions, HandleTaskRequest(s) PROVE LineInv'
  <2>1. TypeOK /\ Reply(s, "serving") /\ "serving" \in SessionStates
    BY <1>7 DEF HandleTaskRequest, IInv, SessionStates
  <2>2. session' = [session EXCEPT ![s] = "serving"] /\ handler' = [handler EXCEPT ![s] =
     "none"]
    BY <2>1 DEF Reply
  <2>3. \A x \in Sessions : (\E n \in DOMAIN line' : line'[n] = x)
                             <=> x # s /\ \E n \in DOMAIN line : line[n] = x
    BY <2>1, ReplyEffect
  <2> QED BY <2>1, <2>2, <2>3 DEF TypeOK, IInv, LineInv, Lined, Holding
<1>8. ASSUME NEW s \in Sessions, AddRefused(s) PROVE LineInv'
  <2>1. TypeOK /\ Reply(s, "gone") /\ "gone" \in SessionStates
    BY <1>8 DEF AddRefused, IInv, SessionStates
  <2>2. session' = [session EXCEPT ![s] = "gone"] /\ handler' = [handler EXCEPT ![s] = "none"]
    BY <2>1 DEF Reply
  <2>3. \A x \in Sessions : (\E n \in DOMAIN line' : line'[n] = x)
                             <=> x # s /\ \E n \in DOMAIN line : line[n] = x
    BY <2>1, ReplyEffect
  <2> QED BY <2>1, <2>2, <2>3 DEF TypeOK, IInv, LineInv, Lined, Holding
<1>9. ASSUME NEW s \in Sessions, AddExisting(s) PROVE LineInv'
  <2>1. TypeOK /\ Reply(s, "serving") /\ "serving" \in SessionStates
    BY <1>9 DEF AddExisting, IInv, SessionStates
  <2>2. session' = [session EXCEPT ![s] = "serving"] /\ handler' = [handler EXCEPT ![s] =
     "none"]
    BY <2>1 DEF Reply
  <2>3. \A x \in Sessions : (\E n \in DOMAIN line' : line'[n] = x)
                             <=> x # s /\ \E n \in DOMAIN line : line[n] = x
    BY <2>1, ReplyEffect
  <2> QED BY <2>1, <2>2, <2>3 DEF TypeOK, IInv, LineInv, Lined, Holding
<1>10. ASSUME NEW s \in Sessions, AddNew(s) PROVE LineInv'
  <2>1. handler[s] \in Lined /\ handler' = [handler EXCEPT ![s] = "created"] /\ "created" \in
     Lined
    BY <1>10 DEF AddNew, HasPermit, Lined, Holding
  <2>2. UNCHANGED <<session, line>>
    BY <1>10 DEF AddNew
  <2> QED BY <2>1, <2>2, LineKept
<1>11. ASSUME NEW s \in Sessions, Created(s) PROVE LineInv'
  <2>1. TypeOK /\ Reply(s, "serving") /\ "serving" \in SessionStates
    BY <1>11 DEF Created, IInv, SessionStates
  <2>2. session' = [session EXCEPT ![s] = "serving"] /\ handler' = [handler EXCEPT ![s] =
     "none"]
    BY <2>1 DEF Reply
  <2>3. \A x \in Sessions : (\E n \in DOMAIN line' : line'[n] = x)
                             <=> x # s /\ \E n \in DOMAIN line : line[n] = x
    BY <2>1, ReplyEffect
  <2> QED BY <2>1, <2>2, <2>3 DEF TypeOK, IInv, LineInv, Lined, Holding
<1>12. ASSUME NEW s \in Sessions, RemoveRefused(s) PROVE LineInv'
  <2>1. TypeOK /\ Reply(s, "gone") /\ "gone" \in SessionStates
    BY <1>12 DEF RemoveRefused, IInv, SessionStates
  <2>2. session' = [session EXCEPT ![s] = "gone"] /\ handler' = [handler EXCEPT ![s] = "none"]
    BY <2>1 DEF Reply
  <2>3. \A x \in Sessions : (\E n \in DOMAIN line' : line'[n] = x)
                             <=> x # s /\ \E n \in DOMAIN line : line[n] = x
    BY <2>1, ReplyEffect
  <2> QED BY <2>1, <2>2, <2>3 DEF TypeOK, IInv, LineInv, Lined, Holding
<1>13. ASSUME NEW s \in Sessions, RemoveEntry(s) PROVE LineInv'
  <2>1. handler[s] \in Lined /\ handler' = [handler EXCEPT ![s] = "stopping"] /\ "stopping"
     \in Lined
    BY <1>13 DEF RemoveEntry, HasPermit, Lined, Holding
  <2>2. UNCHANGED <<session, line>>
    BY <1>13 DEF RemoveEntry
  <2> QED BY <2>1, <2>2, LineKept
<1>14. ASSUME NEW s \in Sessions, StopWaits(s) PROVE LineInv'
  <2>1. handler[s] \in Lined /\ handler' = [handler EXCEPT ![s] = "saving"] /\ "saving" \in
     Lined
    BY <1>14 DEF StopWaits, HasPermit, Lined, Holding
  <2>2. UNCHANGED <<session, line>>
    BY <1>14 DEF StopWaits
  <2> QED BY <2>1, <2>2, LineKept
<1>15. ASSUME NEW s \in Sessions, Save(s) PROVE LineInv'
  <2>1. PICK h \in {"persisting", "persisted"} : handler' = [handler EXCEPT ![s] = h]
    BY <1>15 DEF Save
  <2>2. handler[s] \in Lined /\ h \in Lined /\ UNCHANGED <<session, line>>
    BY <1>15 DEF Save, Lined, Holding
  <2> QED BY <2>1, <2>2, LineKept
<1>16. ASSUME NEW s \in Sessions, SavePanics(s) PROVE LineInv'
  <2>1. TypeOK /\ Reply(s, "gone") /\ "gone" \in SessionStates
    BY <1>16 DEF SavePanics, IInv, SessionStates
  <2>2. session' = [session EXCEPT ![s] = "gone"] /\ handler' = [handler EXCEPT ![s] = "none"]
    BY <2>1 DEF Reply
  <2>3. \A x \in Sessions : (\E n \in DOMAIN line' : line'[n] = x)
                             <=> x # s /\ \E n \in DOMAIN line : line[n] = x
    BY <2>1, ReplyEffect
  <2> QED BY <2>1, <2>2, <2>3 DEF TypeOK, IInv, LineInv, Lined, Holding
<1>17. ASSUME NEW s \in Sessions, Removed(s) PROVE LineInv'
  <2>1. TypeOK /\ Reply(s, "gone") /\ "gone" \in SessionStates
    BY <1>17 DEF Removed, IInv, SessionStates
  <2>2. session' = [session EXCEPT ![s] = "gone"] /\ handler' = [handler EXCEPT ![s] = "none"]
    BY <2>1 DEF Reply
  <2>3. \A x \in Sessions : (\E n \in DOMAIN line' : line'[n] = x)
                             <=> x # s /\ \E n \in DOMAIN line : line[n] = x
    BY <2>1, ReplyEffect
  <2> QED BY <2>1, <2>2, <2>3 DEF TypeOK, IInv, LineInv, Lined, Holding
<1>18. ASSUME NEW s \in Sessions, Listen(s) PROVE LineInv'
  BY <1>18 DEF Listen, IInv, TypeOK, LineInv, Lined, Holding, Waiting, AfterLoss
<1>19. ASSUME NEW s \in Sessions, Mark(s) PROVE LineInv'
  BY <1>19 DEF Mark, IInv, TypeOK, LineInv, Lined, Holding, Waiting, AfterLoss
<1>20. ASSUME NEW s \in Sessions, ListenerEnds(s) PROVE LineInv'
  BY <1>20 DEF ListenerEnds, IInv, TypeOK, LineInv, Lined, Holding, Waiting, AfterLoss
<1>21. ASSUME NEW s \in Sessions, ListenerPanics(s) PROVE LineInv'
  BY <1>21 DEF ListenerPanics, IInv, TypeOK, LineInv, Lined, Holding, Waiting, AfterLoss
<1>22. ASSUME NEW s \in Sessions, AskGet(s) PROVE LineInv'
  BY <1>22 DEF AskGet, IInv, TypeOK, LineInv, Lined, Holding, Waiting, AfterLoss
<1>23. ASSUME HandleGet PROVE LineInv'
  BY <1>23 DEF HandleGet, IInv, TypeOK, LineInv, Lined, Holding, Waiting, AfterLoss
<1>24. ASSUME HandleSet PROVE LineInv'
  <2>1. Head(ops) \in Ops /\ Head(ops) = ops[1] /\ 1 \in DOMAIN ops
    BY <1>24, TailElements DEF HandleSet, IInv, TypeOK
  <2>2. Head(ops).by \in Sessions /\ handler[Head(ops).by] = "persisting"
    BY <1>24, <2>1 DEF HandleSet, Ops, IInv, MutexInv
  <2> QED BY <1>24, <2>2 DEF HandleSet, IInv, TypeOK, LineInv, Lined, Holding
<1>25. ASSUME HandleStop PROVE LineInv'
  BY <1>25 DEF HandleStop, IInv, TypeOK, LineInv, Lined, Holding, Waiting, AfterLoss
<1>26. ASSUME CtrlC PROVE LineInv'
  BY <1>26 DEF CtrlC, IInv, TypeOK, LineInv, Lined, Holding, Waiting, AfterLoss
<1>27. ASSUME DispatcherEnds PROVE LineInv'
  BY <1>27 DEF DispatcherEnds, IInv, TypeOK, LineInv, Lined, Holding, Waiting, AfterLoss
<1>28. ASSUME StopPersistence PROVE LineInv'
  BY <1>28 DEF StopPersistence, IInv, TypeOK, LineInv, Lined, Holding, Waiting, AfterLoss
<1>29. ASSUME Idle PROVE LineInv'
  BY <1>29 DEF Idle, vars, IInv, TypeOK, LineInv, Lined, Holding, Waiting, AfterLoss
<1> QED
  BY <1>1, <1>2, <1>3, <1>4, <1>5, <1>6, <1>7, <1>8, <1>9, <1>10, <1>11, <1>12, <1>13, <1>14,
     <1>15, <1>16, <1>17, <1>18, <1>19, <1>20, <1>21, <1>22, <1>23, <1>24, <1>25, <1>26,
     <1>27, <1>28, <1>29
  DEF Next, SessionStep, HandlerStep, ObjectStep, PersistenceStep, ProcessStep

\* A request is made by a session that waits for no other.
LEMMA SendEffect ==
  ASSUME IInv, NEW s \in Sessions, NEW from, NEW to, NEW otherwise, from \notin Waiting,
         Send(s, from, to, otherwise)
  PROVE  /\ handler[s] = "none"
         /\ \A x \in Sessions : handler'[x] = handler[x] \/ (x = s /\ handler'[x] = "mailed")
         /\ UNCHANGED <<target, inventories, ops>>
<1>1. handler[s] = "none" /\ UNCHANGED <<target, inventories, ops>>
  BY DEF Send, IInv, LineInv, mapVars, dbVars
<1>2. CASE dispatcher = "gone"
  BY <1>1, <1>2 DEF Send
<1>3. CASE dispatcher # "gone"
  <2>1. handler' = [handler EXCEPT ![s] = "mailed"]
    BY <1>3 DEF Send
  <2> QED BY <1>1, <2>1 DEF IInv, TypeOK
<1> QED BY <1>2, <1>3

\* No save is pending but that of the handler that holds the map.
LEMMA OneSetPending ==
  ASSUME IInv, NEW s \in Sessions, handler[s] \in Holding
  PROVE  \A n \in DOMAIN ops : ops[n].op = "Set" => ops[n].by = s /\ handler[s] = "persisting"
<1>1. ASSUME NEW n \in DOMAIN ops, ops[n].op = "Set"
      PROVE  ops[n].by = s /\ handler[s] = "persisting"
  <2>1. ops[n].by \in Sessions
    BY <1>1 DEF IInv, TypeOK, Ops
  <2>2. handler[ops[n].by] = "persisting"
    BY <1>1 DEF IInv, MutexInv
  <2> QED BY <2>1, <2>2 DEF IInv, MutexInv, Holding
<1> QED BY <1>1

\* The mutex and the pending save are as before when no handler begins to hold the map
\* and none that waits for its save goes on.
LEMMA MutexKept ==
  ASSUME IInv, UNCHANGED <<target, inventories, ops>>,
         \A x \in Sessions : handler'[x] \in Holding => handler[x] \in Holding,
         \A x \in Sessions : handler[x] = "persisting" => handler'[x] = "persisting"
  PROVE  MutexInv'
<1>1. \A n \in DOMAIN ops : ops[n].op = "Set" => ops[n].by \in Sessions
  BY DEF IInv, TypeOK, Ops
<1> QED BY <1>1 DEF IInv, MutexInv

\* One handler at a time holds the map.
LEMMA MutexStep == ASSUME IInv, Next PROVE MutexInv'
<1> USE LifecycleAssumption DEF requestVars, mapVars, objectVars, dbVars, processVars
<1>1. ASSUME NEW s \in Sessions, Connect(s) PROVE MutexInv'
  BY <1>1 DEF Connect, IInv, TypeOK, MutexInv, Holding, Lined, Locked, Ops, HasPermit, ObjectInv
<1>2. ASSUME NEW s \in Sessions, SetupInventory(s) PROVE MutexInv'
  BY <1>2, SendEffect, MutexKept DEF SetupInventory, Waiting, Holding
<1>3. ASSUME NEW s \in Sessions, RequestTask(s) PROVE MutexInv'
  BY <1>3, SendEffect, MutexKept DEF RequestTask, Waiting, Holding
<1>4. ASSUME NEW s \in Sessions, Leave(s) PROVE MutexInv'
  BY <1>4 DEF Leave, IInv, TypeOK, MutexInv, Holding, Lined, Locked, Ops, HasPermit, ObjectInv
<1>5. ASSUME NEW s \in Sessions, CleanupInventory(s) PROVE MutexInv'
  BY <1>5, SendEffect, MutexKept DEF CleanupInventory, Waiting, Holding
<1>6. ASSUME NEW s \in Sessions, Receive(s) PROVE MutexInv'
  BY <1>6 DEF Receive, IInv, TypeOK, MutexInv, Holding, Lined, Locked, Ops, HasPermit, ObjectInv
<1>7. ASSUME NEW s \in Sessions, HandleTaskRequest(s) PROVE MutexInv'
  BY <1>7
  DEF HandleTaskRequest, Reply, IInv, TypeOK, MutexInv, Holding, Lined, Locked, Ops,
      HasPermit, ObjectInv
<1>8. ASSUME NEW s \in Sessions, AddRefused(s) PROVE MutexInv'
  BY <1>8
  DEF AddRefused, Reply, IInv, TypeOK, MutexInv, Holding, Lined, Locked, Ops, HasPermit,
      ObjectInv
<1>9. ASSUME NEW s \in Sessions, AddExisting(s) PROVE MutexInv'
  BY <1>9
  DEF AddExisting, Reply, IInv, TypeOK, MutexInv, Holding, Lined, Locked, Ops, HasPermit,
      ObjectInv
<1>10. ASSUME NEW s \in Sessions, AddNew(s) PROVE MutexInv'
  BY <1>10 DEF AddNew, IInv, TypeOK, MutexInv, Holding, Lined, Locked, Ops, HasPermit, ObjectInv
<1>11. ASSUME NEW s \in Sessions, Created(s) PROVE MutexInv'
  BY <1>11
  DEF Created, Reply, IInv, TypeOK, MutexInv, Holding, Lined, Locked, Ops, HasPermit,
      ObjectInv
<1>12. ASSUME NEW s \in Sessions, RemoveRefused(s) PROVE MutexInv'
  BY <1>12
  DEF RemoveRefused, Reply, IInv, TypeOK, MutexInv, Holding, Lined, Locked, Ops, HasPermit,
      ObjectInv
<1>13. ASSUME NEW s \in Sessions, RemoveEntry(s) PROVE MutexInv'
  BY <1>13
  DEF RemoveEntry, IInv, TypeOK, MutexInv, Holding, Lined, Locked, Ops, HasPermit, ObjectInv
<1>14. ASSUME NEW s \in Sessions, StopWaits(s) PROVE MutexInv'
  BY <1>14
  DEF StopWaits, IInv, TypeOK, MutexInv, Holding, Lined, Locked, Ops, HasPermit, ObjectInv
<1>15. ASSUME NEW s \in Sessions, Save(s) PROVE MutexInv'
  <2>1. handler[s] \in Holding /\ target[s] \in Sessions
    BY <1>15 DEF Save, Holding, IInv, MutexInv
  <2>2. \A n \in DOMAIN ops : ops[n].op # "Set"
    BY <1>15, <2>1, OneSetPending DEF Save
  <2>3. UNCHANGED <<target, inventories>>
    BY <1>15 DEF Save
  <2>4. CASE persistence = "running"
    <3>1. /\ ops' = Append(ops, SetOp(s)) /\ SetOp(s) \in Ops /\ SetOp(s).by = s
          /\ handler' = [handler EXCEPT ![s] = "persisting"]
      BY <1>15, <2>1, <2>4, OpTypes DEF Save, IInv, SetOp
    <3>2. ASSUME NEW n \in DOMAIN ops', ops'[n].op = "Set"
          PROVE  n = Len(ops) + 1 /\ ops'[n] = SetOp(s)
      <4>1. \/ n \in DOMAIN ops /\ ops'[n] = ops[n]
            \/ n = Len(ops) + 1 /\ ops'[n] = SetOp(s)
        BY <3>1, AppendElements DEF IInv, TypeOK
      <4> QED BY <2>2, <3>2, <4>1
    <3>3. \A x \in Sessions : handler'[x] = IF x = s THEN "persisting" ELSE handler[x]
      BY <3>1 DEF IInv, TypeOK
    <3> QED BY <2>1, <2>3, <3>1, <3>2, <3>3 DEF IInv, MutexInv, Holding
  <2>5. CASE persistence # "running"
    <3>1. ops' = ops /\ handler' = [handler EXCEPT ![s] = "persisted"]
      BY <1>15, <2>5 DEF Save
    <3>2. \A x \in Sessions : handler'[x] = IF x = s THEN "persisted" ELSE handler[x]
      BY <3>1 DEF IInv, TypeOK
    <3> QED BY <2>1, <2>2, <2>3, <3>1, <3>2 DEF IInv, MutexInv, Holding
  <2> QED BY <2>4, <2>5
<1>16. ASSUME NEW s \in Sessions, SavePanics(s) PROVE MutexInv'
  BY <1>16
  DEF SavePanics, Reply, IInv, TypeOK, MutexInv, Holding, Lined, Locked, Ops, HasPermit,
      ObjectInv
<1>17. ASSUME NEW s \in Sessions, Removed(s) PROVE MutexInv'
  BY <1>17
  DEF Removed, Reply, IInv, TypeOK, MutexInv, Holding, Lined, Locked, Ops, HasPermit,
      ObjectInv
<1>18. ASSUME NEW s \in Sessions, Listen(s) PROVE MutexInv'
  BY <1>18 DEF Listen, IInv, TypeOK, MutexInv, Holding, Lined, Locked, Ops, HasPermit, ObjectInv
<1>19. ASSUME NEW s \in Sessions, Mark(s) PROVE MutexInv'
  BY <1>19 DEF Mark, IInv, TypeOK, MutexInv, Holding, Lined, Locked, Ops, HasPermit, ObjectInv
<1>20. ASSUME NEW s \in Sessions, ListenerEnds(s) PROVE MutexInv'
  BY <1>20
  DEF ListenerEnds, IInv, TypeOK, MutexInv, Holding, Lined, Locked, Ops, HasPermit,
      ObjectInv
<1>21. ASSUME NEW s \in Sessions, ListenerPanics(s) PROVE MutexInv'
  BY <1>21
  DEF ListenerPanics, IInv, TypeOK, MutexInv, Holding, Lined, Locked, Ops, HasPermit,
      ObjectInv
<1>22. ASSUME NEW s \in Sessions, AskGet(s) PROVE MutexInv'
  <2>1. GetOp(s) \in Ops /\ GetOp(s).op # "Set"
    BY OpTypes DEF IInv, GetOp
  <2> QED BY <1>22, <2>1, OtherOpAdded DEF AskGet, IInv, MutexInv
<1>23. ASSUME HandleGet PROVE MutexInv'
  BY <1>23
  DEF HandleGet, IInv, TypeOK, MutexInv, Holding, Lined, Locked, Ops, HasPermit, ObjectInv
<1>24. ASSUME HandleSet PROVE MutexInv'
  BY <1>24
  DEF HandleSet, IInv, TypeOK, MutexInv, Holding, Lined, Locked, Ops, HasPermit, ObjectInv
<1>25. ASSUME HandleStop PROVE MutexInv'
  BY <1>25
  DEF HandleStop, IInv, TypeOK, MutexInv, Holding, Lined, Locked, Ops, HasPermit, ObjectInv
<1>26. ASSUME CtrlC PROVE MutexInv'
  BY <1>26 DEF CtrlC, IInv, TypeOK, MutexInv, Holding, Lined, Locked, Ops, HasPermit, ObjectInv
<1>27. ASSUME DispatcherEnds PROVE MutexInv'
  BY <1>27
  DEF DispatcherEnds, IInv, TypeOK, MutexInv, Holding, Lined, Locked, Ops, HasPermit,
      ObjectInv
<1>28. ASSUME StopPersistence PROVE MutexInv'
  <2>1. StopOp \in Ops /\ StopOp.op # "Set"
    BY DEF IInv, Ops, StopOp
  <2> QED BY <1>28, <2>1, OtherOpAdded DEF StopPersistence, IInv, MutexInv
<1>29. ASSUME Idle PROVE MutexInv'
  BY <1>29
  DEF Idle, vars, IInv, TypeOK, MutexInv, Holding, Lined, Locked, Ops, HasPermit, ObjectInv
<1> QED
  BY <1>1, <1>2, <1>3, <1>4, <1>5, <1>6, <1>7, <1>8, <1>9, <1>10, <1>11, <1>12, <1>13, <1>14,
     <1>15, <1>16, <1>17, <1>18, <1>19, <1>20, <1>21, <1>22, <1>23, <1>24, <1>25, <1>26,
     <1>27, <1>28, <1>29
  DEF Next, SessionStep, HandlerStep, ObjectStep, PersistenceStep, ProcessStep

\* A listener is in the map, being stopped or forced.
LEMMA ObjectsStep == ASSUME IInv, Next PROVE ObjectInv'
<1> USE LifecycleAssumption
    DEF requestVars, mapVars, objectVars, dbVars, processVars, IInv, TypeOK, ObjectInv, InMap,
        BeingStopped, Holding, MutexInv, Locked, LineInv, Waiting, AfterLoss, HasPermit
<1>1. ASSUME NEW s \in Sessions, Connect(s) PROVE ObjectInv'
  BY <1>1 DEF Connect
<1>2. ASSUME NEW s \in Sessions, SetupInventory(s) PROVE ObjectInv'
  BY <1>2 DEF SetupInventory, Send
<1>3. ASSUME NEW s \in Sessions, RequestTask(s) PROVE ObjectInv'
  BY <1>3 DEF RequestTask, Send
<1>4. ASSUME NEW s \in Sessions, Leave(s) PROVE ObjectInv'
  BY <1>4 DEF Leave
<1>5. ASSUME NEW s \in Sessions, CleanupInventory(s) PROVE ObjectInv'
  BY <1>5 DEF CleanupInventory, Send
<1>6. ASSUME NEW s \in Sessions, Receive(s) PROVE ObjectInv'
  BY <1>6 DEF Receive
<1>7. ASSUME NEW s \in Sessions, HandleTaskRequest(s) PROVE ObjectInv'
  BY <1>7 DEF HandleTaskRequest, Reply
<1>8. ASSUME NEW s \in Sessions, AddRefused(s) PROVE ObjectInv'
  BY <1>8 DEF AddRefused, Reply
<1>9. ASSUME NEW s \in Sessions, AddExisting(s) PROVE ObjectInv'
  BY <1>9 DEF AddExisting, Reply
<1>10. ASSUME NEW s \in Sessions, AddNew(s) PROVE ObjectInv'
  BY <1>10 DEF AddNew
<1>11. ASSUME NEW s \in Sessions, Created(s) PROVE ObjectInv'
  BY <1>11 DEF Created, Reply
<1>12. ASSUME NEW s \in Sessions, RemoveRefused(s) PROVE ObjectInv'
  BY <1>12 DEF RemoveRefused, Reply
<1>13. ASSUME NEW s \in Sessions, RemoveEntry(s) PROVE ObjectInv'
  BY <1>13 DEF RemoveEntry
<1>14. ASSUME NEW s \in Sessions, StopWaits(s) PROVE ObjectInv'
  BY <1>14 DEF StopWaits
<1>15. ASSUME NEW s \in Sessions, Save(s) PROVE ObjectInv'
  BY <1>15 DEF Save
<1>16. ASSUME NEW s \in Sessions, SavePanics(s) PROVE ObjectInv'
  BY <1>16 DEF SavePanics, Reply
<1>17. ASSUME NEW s \in Sessions, Removed(s) PROVE ObjectInv'
  BY <1>17 DEF Removed, Reply
<1>18. ASSUME NEW s \in Sessions, Listen(s) PROVE ObjectInv'
  BY <1>18 DEF Listen
<1>19. ASSUME NEW s \in Sessions, Mark(s) PROVE ObjectInv'
  BY <1>19 DEF Mark
<1>20. ASSUME NEW s \in Sessions, ListenerEnds(s) PROVE ObjectInv'
  BY <1>20 DEF ListenerEnds
<1>21. ASSUME NEW s \in Sessions, ListenerPanics(s) PROVE ObjectInv'
  BY <1>21 DEF ListenerPanics
<1>22. ASSUME NEW s \in Sessions, AskGet(s) PROVE ObjectInv'
  BY <1>22 DEF AskGet
<1>23. ASSUME HandleGet PROVE ObjectInv'
  BY <1>23 DEF HandleGet
<1>24. ASSUME HandleSet PROVE ObjectInv'
  BY <1>24 DEF HandleSet
<1>25. ASSUME HandleStop PROVE ObjectInv'
  BY <1>25 DEF HandleStop
<1>26. ASSUME CtrlC PROVE ObjectInv'
  BY <1>26 DEF CtrlC
<1>27. ASSUME DispatcherEnds PROVE ObjectInv'
  BY <1>27 DEF DispatcherEnds
<1>28. ASSUME StopPersistence PROVE ObjectInv'
  BY <1>28 DEF StopPersistence
<1>29. ASSUME Idle PROVE ObjectInv'
  BY <1>29 DEF Idle, vars
<1> QED
  BY <1>1, <1>2, <1>3, <1>4, <1>5, <1>6, <1>7, <1>8, <1>9, <1>10, <1>11, <1>12, <1>13, <1>14,
     <1>15, <1>16, <1>17, <1>18, <1>19, <1>20, <1>21, <1>22, <1>23, <1>24, <1>25, <1>26,
     <1>27, <1>28, <1>29
  DEF Next, SessionStep, HandlerStep, ObjectStep, PersistenceStep, ProcessStep

\* An inventory enters the map with a session, and the last session takes it out.
LEMMA OrphanStep == ASSUME IInv, NoOrphan, Next PROVE NoOrphan'
<1> USE LifecycleAssumption
    DEF requestVars, mapVars, objectVars, dbVars, processVars, IInv, TypeOK, NoOrphan, MutexInv,
        Holding, Waiting, AfterLoss, LineInv
<1>1. ASSUME NEW s \in Sessions, Connect(s) PROVE NoOrphan'
  <2>1. /\ UNCHANGED <<inventories, poisoned, dispatcher>> /\ session[s] = "absent"
        /\ \A t \in Sessions : t # s => session'[t] = session[t]
    BY <1>1 DEF Connect
  <2>2. ASSUME NEW id \in Ids, dispatcher = "serving", ~poisoned, inventories[id] # None
        PROVE  \E t \in Sessions :
                 IdOf[t] = id /\ session'[t] \in {"serving", "leaving"} \cup Waiting
    <3>1. PICK t \in Sessions : IdOf[t] = id /\ session[t] \in {"serving", "leaving"} \cup Waiting
      BY <2>2 DEF NoOrphan
    <3>2. t # s
      BY <2>1, <3>1
    <3>3. session'[t] = session[t]
      BY <2>1, <3>2
    <3> QED BY <3>1, <3>3
  <2> QED BY <2>1, <2>2
<1>2. ASSUME NEW s \in Sessions, SetupInventory(s) PROVE NoOrphan'
  <2>1. dispatcher = "serving" => \A t \in Sessions : session'[t] \in Waiting \/ session'[t] =
        session[t]
    BY <1>2, RequestEffect
  <2> QED BY <1>2, <2>1, RequestEffect
<1>3. ASSUME NEW s \in Sessions, RequestTask(s) PROVE NoOrphan'
  BY <1>3 DEF RequestTask, Send
<1>4. ASSUME NEW s \in Sessions, Leave(s) PROVE NoOrphan'
  BY <1>4 DEF Leave
<1>5. ASSUME NEW s \in Sessions, CleanupInventory(s) PROVE NoOrphan'
  BY <1>5 DEF CleanupInventory, Send
<1>6. ASSUME NEW s \in Sessions, Receive(s) PROVE NoOrphan'
  BY <1>6 DEF Receive
<1>7. ASSUME NEW s \in Sessions, HandleTaskRequest(s) PROVE NoOrphan'
  BY <1>7 DEF HandleTaskRequest, Reply
<1>8. ASSUME NEW s \in Sessions, AddRefused(s) PROVE NoOrphan'
  BY <1>8 DEF AddRefused, Reply
<1>9. ASSUME NEW s \in Sessions, AddExisting(s) PROVE NoOrphan'
  BY <1>9 DEF AddExisting, Reply
<1>10. ASSUME NEW s \in Sessions, AddNew(s) PROVE NoOrphan'
  BY <1>10 DEF AddNew
<1>11. ASSUME NEW s \in Sessions, Created(s) PROVE NoOrphan'
  BY <1>11 DEF Created, Reply
<1>12. ASSUME NEW s \in Sessions, RemoveRefused(s) PROVE NoOrphan'
  BY <1>12 DEF RemoveRefused, Reply
<1>13. ASSUME NEW s \in Sessions, RemoveEntry(s) PROVE NoOrphan'
  BY <1>13 DEF RemoveEntry
<1>14. ASSUME NEW s \in Sessions, StopWaits(s) PROVE NoOrphan'
  BY <1>14 DEF StopWaits
<1>15. ASSUME NEW s \in Sessions, Save(s) PROVE NoOrphan'
  BY <1>15 DEF Save
<1>16. ASSUME NEW s \in Sessions, SavePanics(s) PROVE NoOrphan'
  BY <1>16 DEF SavePanics, Reply
<1>17. ASSUME NEW s \in Sessions, Removed(s) PROVE NoOrphan'
  BY <1>17 DEF Removed, Reply
<1>18. ASSUME NEW s \in Sessions, Listen(s) PROVE NoOrphan'
  BY <1>18 DEF Listen
<1>19. ASSUME NEW s \in Sessions, Mark(s) PROVE NoOrphan'
  BY <1>19 DEF Mark
<1>20. ASSUME NEW s \in Sessions, ListenerEnds(s) PROVE NoOrphan'
  BY <1>20 DEF ListenerEnds
<1>21. ASSUME NEW s \in Sessions, ListenerPanics(s) PROVE NoOrphan'
  BY <1>21 DEF ListenerPanics
<1>22. ASSUME NEW s \in Sessions, AskGet(s) PROVE NoOrphan'
  BY <1>22 DEF AskGet
<1>23. ASSUME HandleGet PROVE NoOrphan'
  BY <1>23 DEF HandleGet
<1>24. ASSUME HandleSet PROVE NoOrphan'
  BY <1>24 DEF HandleSet
<1>25. ASSUME HandleStop PROVE NoOrphan'
  BY <1>25 DEF HandleStop
<1>26. ASSUME CtrlC PROVE NoOrphan'
  BY <1>26 DEF CtrlC
<1>27. ASSUME DispatcherEnds PROVE NoOrphan'
  BY <1>27 DEF DispatcherEnds
<1>28. ASSUME StopPersistence PROVE NoOrphan'
  BY <1>28 DEF StopPersistence
<1>29. ASSUME Idle PROVE NoOrphan'
  BY <1>29 DEF Idle, vars
<1> QED
  BY <1>1, <1>2, <1>3, <1>4, <1>5, <1>6, <1>7, <1>8, <1>9, <1>10, <1>11, <1>12, <1>13, <1>14,
     <1>15, <1>16, <1>17, <1>18, <1>19, <1>20, <1>21, <1>22, <1>23, <1>24, <1>25, <1>26,
     <1>27, <1>28, <1>29
  DEF Next, SessionStep, HandlerStep, ObjectStep, PersistenceStep, ProcessStep

\* What is to be saved is covered as long as nothing new is to be saved or stored.
LEMMA SavesKept ==
  ASSUME IInv, SaveInv, UNCHANGED <<restore, content, ops, store, persistence>>,
         \A i \in Sessions : ToSave(i)' => ToSave(i)
  PROVE  SaveInv'
  BY DEF SaveInv, Stored

\* An operation that is no Set changes nothing that is to be saved.
LEMMA SavesUndisturbed ==
  ASSUME IInv, SaveInv, NEW o \in Ops, o.op # "Set", ops' = Append(ops, o),
         UNCHANGED <<content, store, persistence, handler, target, inventories>>,
         \A i \in Sessions : restore'[i] = restore[i] \/ restore'[i] = "asked"
  PROVE  SaveInv'
<1>1. \A n \in DOMAIN ops' : ops'[n].op = "Set" => n \in DOMAIN ops /\ ops'[n] = ops[n]
  BY AppendElements DEF IInv, TypeOK
<1>2. \A i \in Sessions : ToSave(i)' => ToSave(i)
  BY DEF ToSave, InMap
<1> QED BY <1>1, <1>2 DEF SaveInv, Stored

\* A save is queued, or handled, with what its object holds.
LEMMA SavesStep == ASSUME IInv, SaveInv, Next PROVE SaveInv'
<1> USE LifecycleAssumption
    DEF requestVars, mapVars, objectVars, dbVars, processVars, IInv, TypeOK, SaveInv, ToSave,
        InMap, Stored
<1>1. ASSUME NEW s \in Sessions, Connect(s) PROVE SaveInv'
  BY <1>1 DEF Connect
<1>2. ASSUME NEW s \in Sessions, SetupInventory(s) PROVE SaveInv'
  <2>1. /\ \A i \in Sessions : ToSave(i)' => ToSave(i)
        /\ UNCHANGED <<restore, content, ops, store, persistence>>
    BY <1>2, RequestEffect
  <2> QED BY <2>1, SavesKept
<1>3. ASSUME NEW s \in Sessions, RequestTask(s) PROVE SaveInv'
  <2>1. /\ \A i \in Sessions : ToSave(i)' => ToSave(i)
        /\ UNCHANGED <<restore, content, ops, store, persistence>>
    BY <1>3, RequestEffect
  <2> QED BY <2>1, SavesKept
<1>4. ASSUME NEW s \in Sessions, Leave(s) PROVE SaveInv'
  BY <1>4 DEF Leave
<1>5. ASSUME NEW s \in Sessions, CleanupInventory(s) PROVE SaveInv'
  <2>1. /\ \A i \in Sessions : ToSave(i)' => ToSave(i)
        /\ UNCHANGED <<restore, content, ops, store, persistence>>
    BY <1>5, RequestEffect
  <2> QED BY <2>1, SavesKept
<1>6. ASSUME NEW s \in Sessions, Receive(s) PROVE SaveInv'
  <2>1. \A x \in Sessions : handler'[x] = IF x = s THEN "queued" ELSE handler[x]
    BY <1>6 DEF Receive
  <2>2. \A i \in Sessions : ToSave(i)' => ToSave(i)
    BY <1>6, <2>1 DEF Receive
  <2> QED BY <1>6, <2>2, SavesKept DEF Receive
<1>7. ASSUME NEW s \in Sessions, HandleTaskRequest(s) PROVE SaveInv'
  BY <1>7 DEF HandleTaskRequest, Reply
<1>8. ASSUME NEW s \in Sessions, AddRefused(s) PROVE SaveInv'
  BY <1>8 DEF AddRefused, Reply
<1>9. ASSUME NEW s \in Sessions, AddExisting(s) PROVE SaveInv'
  <2>1. \A x \in Sessions : handler'[x] = IF x = s THEN "none" ELSE handler[x]
    BY <1>9 DEF AddExisting, Reply
  <2>2. \A i \in Sessions : ToSave(i)' => ToSave(i)
    BY <1>9, <2>1 DEF AddExisting
  <2> QED BY <1>9, <2>2, SavesKept DEF AddExisting
<1>10. ASSUME NEW s \in Sessions, AddNew(s) PROVE SaveInv'
  <2>1. \A x \in Sessions : handler'[x] = IF x = s THEN "created" ELSE handler[x]
    BY <1>10 DEF AddNew
  <2>2. \A i \in Sessions : restore'[i] = IF i = s THEN "queued" ELSE restore[i]
    BY <1>10 DEF AddNew
  <2>3. \A id \in Ids : inventories'[id] = IF id = IdOf[s] THEN s ELSE inventories[id]
    BY <1>10 DEF AddNew
  <2>4. \A i \in Sessions : i # s /\ ToSave(i)' => ToSave(i)
    BY <1>10, <2>1, <2>3 DEF AddNew
  <2>5. UNCHANGED <<content, ops, store, persistence>>
    BY <1>10 DEF AddNew
  <2>6. \A i \in Sessions : ToSave(i)' /\ restore'[i] \notin {"queued", "asked"} =>
          ToSave(i) /\ restore[i] \notin {"queued", "asked"}
    BY <2>2, <2>4
  <2> HIDE DEF ToSave
  <2> QED BY <2>5, <2>6
<1>11. ASSUME NEW s \in Sessions, Created(s) PROVE SaveInv'
  BY <1>11 DEF Created, Reply
<1>12. ASSUME NEW s \in Sessions, RemoveRefused(s) PROVE SaveInv'
  BY <1>12 DEF RemoveRefused, Reply
<1>13. ASSUME NEW s \in Sessions, RemoveEntry(s) PROVE SaveInv'
  <2>1. \A x \in Sessions : handler'[x] = IF x = s THEN "stopping" ELSE handler[x]
    BY <1>13 DEF RemoveEntry
  <2>2. \A x \in Sessions : target'[x] = IF x = s THEN inventories[IdOf[s]] ELSE target[x]
    BY <1>13 DEF RemoveEntry
  <2>3. \A id \in Ids : inventories'[id] = IF id = IdOf[s] THEN None ELSE inventories[id]
    BY <1>13 DEF RemoveEntry
  <2>4. inventories[IdOf[s]] \in Sessions /\ IdOf[inventories[IdOf[s]]] = IdOf[s]
    BY <1>13 DEF RemoveEntry, ObjectInv
  <2>5. \A i \in Sessions : ToSave(i)' => ToSave(i)
    BY <2>1, <2>2, <2>3, <2>4
  <2> QED BY <1>13, <2>5, SavesKept DEF RemoveEntry
<1>14. ASSUME NEW s \in Sessions, StopWaits(s) PROVE SaveInv'
  BY <1>14 DEF StopWaits
<1>15. ASSUME NEW s \in Sessions, Save(s) PROVE SaveInv'
  <2>1. handler[s] \in Holding /\ target[s] \in Sessions /\ IdOf[target[s]] = IdOf[s]
    BY <1>15 DEF Save, Holding, MutexInv
  <2>2. \A n \in DOMAIN ops : ops[n].op # "Set"
    BY <1>15, <2>1, OneSetPending DEF Save
  <2>3. UNCHANGED <<restore, content, store, persistence, target, inventories>>
    BY <1>15 DEF Save
  <2>4. \A x \in Sessions : handler'[x] = handler[x] \/ handler'[x] \in {"persisting", "persisted"}
    BY <1>15 DEF Save
  <2>5. \A i \in Sessions : ToSave(i)' => ToSave(i)
    BY <2>3, <2>4
  <2>6. CASE persistence = "running"
    <3>1. ops' = Append(ops, SetOp(s)) /\ SetOp(s) \in Ops
      BY <1>15, <2>1, <2>6, OpTypes DEF Save
    <3>2. \A n \in DOMAIN ops' : ops'[n].op = "Set" => ops'[n] = SetOp(s)
      BY <2>2, <3>1, AppendElements
    <3>3. SetOp(s).id = IdOf[SetOp(s).by]
      BY DEF SetOp
    <3>4. Stored(SetOp(s).id) \subseteq SetOp(s).marks \/ SetOp(s).early
      BY <1>15, <2>1, <2>6 DEF Save, SetOp
    <3> QED BY <2>3, <2>5, <2>6, <3>2, <3>3, <3>4
  <2>7. CASE persistence # "running"
    BY <1>15, <2>3, <2>5, <2>7, SavesKept DEF Save
  <2> QED BY <2>6, <2>7
<1>16. ASSUME NEW s \in Sessions, SavePanics(s) PROVE SaveInv'
  BY <1>16 DEF SavePanics, Reply
<1>17. ASSUME NEW s \in Sessions, Removed(s) PROVE SaveInv'
  BY <1>17 DEF Removed, Reply
<1>18. ASSUME NEW s \in Sessions, Listen(s) PROVE SaveInv'
  BY <1>18 DEF Listen
<1>19. ASSUME NEW s \in Sessions, Mark(s) PROVE SaveInv'
  BY <1>19 DEF Mark
<1>20. ASSUME NEW s \in Sessions, ListenerEnds(s) PROVE SaveInv'
  BY <1>20 DEF ListenerEnds
<1>21. ASSUME NEW s \in Sessions, ListenerPanics(s) PROVE SaveInv'
  BY <1>21 DEF ListenerPanics
<1>22. ASSUME NEW s \in Sessions, AskGet(s) PROVE SaveInv'
  <2>1. GetOp(s) \in Ops /\ GetOp(s).op # "Set"
    BY OpTypes DEF GetOp
  <2>2. CASE persistence = "running"
    <3>1. \A i \in Sessions : restore'[i] = restore[i] \/ restore'[i] = "asked"
      BY <1>22, <2>2 DEF AskGet
    <3> QED BY <1>22, <2>1, <2>2, <3>1, SavesUndisturbed DEF AskGet
  <2>3. CASE persistence # "running"
    BY <1>22, <2>3 DEF AskGet
  <2> QED BY <2>2, <2>3
<1>23. ASSUME HandleGet PROVE SaveInv'
  BY <1>23 DEF HandleGet
<1>24. ASSUME HandleSet PROVE SaveInv'
  <2> DEFINE o == Head(ops)
  <2>1. o \in Ops /\ o = ops[1] /\ 1 \in DOMAIN ops /\ o.op = "Set"
    BY <1>24, TailElements DEF HandleSet
  <2>2. o.by \in Sessions /\ handler[o.by] = "persisting" /\ o.id = IdOf[o.by]
    BY <2>1 DEF MutexInv, Ops
  <2>3. inventories[o.id] = None
    BY <2>2 DEF MutexInv, Holding
  <2>4. \A x \in Sessions : handler[x] \notin {"stopping", "saving"}
    BY <2>2 DEF MutexInv, Holding
  <2>5. \A n \in DOMAIN ops' : ops'[n].op # "Set"
    <3>1. \A n \in DOMAIN ops' : n + 1 \in DOMAIN ops /\ ops'[n] = ops[n + 1] /\ n + 1 # 1
      BY <1>24, TailElements DEF HandleSet
    <3> QED BY <2>1, <3>1 DEF MutexInv
  <2>6. \A id \in Ids : id # o.id => store'[id] = store[id]
    BY <1>24 DEF HandleSet
  <2>7. UNCHANGED <<inventories, target, restore, content, persistence>>
    BY <1>24 DEF HandleSet
  <2>8. \A x \in Sessions : handler'[x] \notin {"stopping", "saving"}
    BY <1>24, <2>4 DEF HandleSet
  <2>9. \A i \in Sessions : ToSave(i)' => ToSave(i) /\ IdOf[i] # o.id
    BY <2>3, <2>7, <2>8
  <2>10. ASSUME NEW i \in Sessions, ToSave(i)', persistence' = "running",
                restore'[i] \notin {"queued", "asked"}
         PROVE  Stored(IdOf[i])' \subseteq content'[i]
    <3>1. ToSave(i) /\ store'[IdOf[i]] = store[IdOf[i]]
      BY <2>6, <2>9, <2>10
    <3> QED BY <2>7, <2>10, <3>1
  <2> QED BY <2>5, <2>10
<1>25. ASSUME HandleStop PROVE SaveInv'
  BY <1>25 DEF HandleStop
<1>26. ASSUME CtrlC PROVE SaveInv'
  BY <1>26 DEF CtrlC
<1>27. ASSUME DispatcherEnds PROVE SaveInv'
  BY <1>27 DEF DispatcherEnds
<1>28. ASSUME StopPersistence PROVE SaveInv'
  <2>1. StopOp \in Ops /\ StopOp.op # "Set"
    BY DEF Ops, StopOp
  <2> QED BY <1>28, <2>1, SavesUndisturbed DEF StopPersistence
<1>29. ASSUME Idle PROVE SaveInv'
  BY <1>29 DEF Idle, vars
<1> QED
  BY <1>1, <1>2, <1>3, <1>4, <1>5, <1>6, <1>7, <1>8, <1>9, <1>10, <1>11, <1>12, <1>13, <1>14,
     <1>15, <1>16, <1>17, <1>18, <1>19, <1>20, <1>21, <1>22, <1>23, <1>24, <1>25, <1>26,
     <1>27, <1>28, <1>29
  DEF Next, SessionStep, HandlerStep, ObjectStep, PersistenceStep, ProcessStep

-----------------------------------------------------------------------------
\* Every reachable state satisfies the invariant, whatever sessions, ids and permits there are.
LEMMA Invariant == Spec => [](IInv /\ NoOrphan /\ SaveInv)
<1>1. Init => IInv /\ NoOrphan /\ SaveInv
  BY InitIInv, LifecycleAssumption DEF Init, NoOrphan, SaveInv, ToSave, InMap
<1>2. IInv /\ NoOrphan /\ SaveInv /\ [Next]_vars => (IInv /\ NoOrphan /\ SaveInv)'
  <2>1. ASSUME IInv, NoOrphan, SaveInv, Next PROVE (IInv /\ NoOrphan /\ SaveInv)'
    BY <2>1, TypeStep, LineStep, MutexStep, ObjectsStep, OrphanStep, SavesStep DEF IInv
  <2>2. ASSUME IInv, NoOrphan, SaveInv, UNCHANGED vars PROVE (IInv /\ NoOrphan /\ SaveInv)'
    BY <2>2
    DEF IInv, TypeOK, LineInv, MutexInv, ObjectInv, InMap, BeingStopped, NoOrphan, SaveInv,
        ToSave, Stored, vars, requestVars, mapVars, objectVars, dbVars, processVars
  <2> QED BY <2>1, <2>2
<1> QED BY <1>1, <1>2, PTL DEF Spec

\* Every variable keeps its type: the states of sessions, handlers and objects, the queue at
\* the semaphore without duplicates, and a store with one set of marks per id at most.
THEOREM LifecycleTypes == Spec => []TypeOK
<1>1. IInv => TypeOK
  BY DEF IInv
<1> QED BY <1>1, Invariant, PTL

\* Sessions that share an id never have two listeners unless a stop gave up on one: the
\* second object is created under the mutex that the first one's stop holds.
THEOREM SharedIdOneListener == Spec => []OneListener
<1>1. ASSUME IInv PROVE OneListener
  <2>1. ASSUME NEW i \in Sessions, NEW j \in Sessions, i # j, IdOf[i] = IdOf[j],
               listener[i] = "listening", listener[j] = "listening"
        PROVE  i \in forced \/ j \in forced
    <3>1. InMap(i) \/ BeingStopped(i) \/ i \in forced
      BY <1>1, <2>1 DEF IInv, ObjectInv
    <3>2. InMap(j) \/ BeingStopped(j) \/ j \in forced
      BY <1>1, <2>1 DEF IInv, ObjectInv
    <3>3. ~(InMap(i) /\ InMap(j))
      BY <2>1 DEF InMap
    <3>4. ~(BeingStopped(i) /\ BeingStopped(j))
      BY <1>1, <2>1 DEF BeingStopped, IInv, MutexInv, Holding
    <3>5. ~(BeingStopped(i) /\ InMap(j)) /\ ~(BeingStopped(j) /\ InMap(i))
      BY <1>1, <2>1, LifecycleAssumption DEF BeingStopped, InMap, IInv, MutexInv, Holding
    <3> QED BY <3>1, <3>2, <3>3, <3>4, <3>5
  <2> QED BY <2>1 DEF OneListener
<1> QED BY <1>1, Invariant, PTL

\* While the dispatcher serves and the map is usable, whoever is in the map has a session
\* with its id that has yet to ask for its removal, or is asking.
THEOREM InventoriesHaveSessions == Spec => []NoOrphan
BY Invariant, PTL

\* A save contains everything stored before it, unless its object's restore was still on its
\* way.
THEOREM SavesLoseNothing == Spec => SavesAccumulate
<1>1. IInv /\ NoOrphan /\ SaveInv /\ [Next]_vars =>
        [\A id \in Ids : Stored(id) \subseteq Stored(id)' \/ Head(ops).early]_store
  <2> SUFFICES ASSUME IInv, SaveInv, [Next]_vars, store' # store
               PROVE  \A id \in Ids : Stored(id) \subseteq Stored(id)' \/ Head(ops).early
    OBVIOUS
  <2>1. HandleSet
    BY DEF Next, SessionStep, HandlerStep, ObjectStep, PersistenceStep, ProcessStep, Connect,
        SetupInventory, RequestTask, Leave, CleanupInventory, Send, Receive, HandleTaskRequest,
        AddRefused, AddExisting, AddNew, Created, RemoveRefused, RemoveEntry, StopWaits, Save,
        SavePanics, Removed, Listen, Mark, ListenerEnds, ListenerPanics, AskGet, HandleGet,
        HandleStop, CtrlC, DispatcherEnds, StopPersistence, Idle, vars, dbVars
  <2>2. Head(ops) = ops[1] /\ 1 \in DOMAIN ops /\ Head(ops).op = "Set"
    BY <2>1, TailElements DEF HandleSet, IInv, TypeOK
  <2>3. Stored(Head(ops).id) \subseteq Head(ops).marks \/ Head(ops).early
    BY <2>2 DEF SaveInv
  <2>4. \A id \in Ids : store'[id] = IF id = Head(ops).id THEN {Head(ops).marks} ELSE store[id]
    BY <2>1 DEF HandleSet, IInv, TypeOK
  <2> QED BY <2>3, <2>4 DEF Stored
<1> QED BY <1>1, Invariant, PTL DEF Spec, SavesAccumulate

-----------------------------------------------------------------------------
(***************************************************************************)
(* Nobody waits for an answer that nobody will give. This is what the      *)
(* answer to every request needs besides fairness.                         *)
(***************************************************************************)
SetPending(s) == \E n \in DOMAIN ops : ops[n].op = "Set" /\ ops[n].by = s

\* A session that waits has a handler; the dispatcher still receives while a request is in
\* its mailbox, and the persistence worker runs while a handler waits for its save.
WaitInv ==
  /\ \A s \in Sessions : session[s] \in Waiting => handler[s] # "none"
  /\ \A s \in Sessions : handler[s] = "mailed" => dispatcher = "serving"
  /\ \A s \in Sessions : handler[s] = "persisting" => persistence = "running" /\ SetPending(s)

\* The handler of s can take its next step, or be spawned: it has a permit and needs no map
\* or finds it unlocked, or it holds the map and is not waiting for its save.
CanGoOn(s) ==
  \/ handler[s] = "mailed" /\ dispatcher = "serving"
  \/ HasPermit(s) /\ (session[s] = "asking" \/ ~Locked)
  \/ handler[s] \in {"created", "stopping", "saving", "persisted"}

\* Among the sessions that wait there is always one whose handler can go on, or whose save
\* is in the mailbox of the running worker.
NobodyStuck ==
  \A s \in Sessions : session[s] \in Waiting =>
    \E t \in Sessions : /\ session[t] \in Waiting
                        /\ CanGoOn(t) \/ (persistence = "running" /\ SetPending(t))

\* Nothing that a session or a handler waits for changes.
LEMMA WaitsKept ==
  ASSUME WaitInv, UNCHANGED <<session, handler, ops, persistence, dispatcher>>
  PROVE  WaitInv'
  BY DEF WaitInv, SetPending

\* A request that is sent finds a dispatcher that serves, or its session does not wait.
LEMMA WaitsSend ==
  ASSUME IInv, WaitInv, NEW s \in Sessions, NEW from, NEW to, NEW otherwise,
         from \notin Waiting, otherwise \notin Waiting, Send(s, from, to, otherwise)
  PROVE  WaitInv'
<1>1. UNCHANGED <<ops, persistence, dispatcher>>
  BY DEF Send, dbVars, processVars
<1>2. CASE dispatcher = "gone"
  <2>1. /\ \A x \in Sessions : session'[x] = IF x = s THEN otherwise ELSE session[x]
        /\ handler' = handler
    BY <1>2 DEF Send, IInv, TypeOK
  <2> QED BY <1>1, <2>1 DEF WaitInv, SetPending
<1>3. CASE dispatcher # "gone"
  <2>1. /\ \A x \in Sessions : session'[x] = IF x = s THEN to ELSE session[x]
        /\ \A x \in Sessions : handler'[x] = IF x = s THEN "mailed" ELSE handler[x]
    BY <1>3 DEF Send, IInv, TypeOK
  <2>2. dispatcher = "serving"
    BY <1>3 DEF IInv, TypeOK
  <2> QED BY <1>1, <2>1, <2>2 DEF WaitInv, SetPending
<1> QED BY <1>2, <1>3

\* A handler that answers releases its session.
LEMMA WaitsReply ==
  ASSUME IInv, WaitInv, NEW s \in Sessions, NEW state, state \notin Waiting, Reply(s, state),
         UNCHANGED <<ops, persistence, dispatcher>>
  PROVE  WaitInv'
<1>1. /\ \A x \in Sessions : session'[x] = IF x = s THEN state ELSE session[x]
      /\ \A x \in Sessions : handler'[x] = IF x = s THEN "none" ELSE handler[x]
  BY DEF Reply, IInv, TypeOK
<1> QED BY <1>1 DEF WaitInv, SetPending

\* A handler that goes on without a save does not leave its session.
LEMMA WaitsGoOn ==
  ASSUME IInv, WaitInv, NEW s \in Sessions, NEW h,
         h \notin {"none", "mailed", "persisting"}, handler' = [handler EXCEPT ![s] = h],
         UNCHANGED <<session, ops, persistence, dispatcher>>
  PROVE  WaitInv'
<1>1. \A x \in Sessions : handler'[x] = IF x = s THEN h ELSE handler[x]
  BY DEF IInv, TypeOK
<1> QED BY <1>1 DEF WaitInv, SetPending

\* A save that is pending stays so when an operation is appended ...
LEMMA PendingAppended ==
  ASSUME IInv, NEW o \in Ops, ops' = Append(ops, o), NEW s \in Sessions, SetPending(s)
  PROVE  SetPending(s)'
<1>1. PICK n \in DOMAIN ops : ops[n].op = "Set" /\ ops[n].by = s
  BY DEF SetPending
<1>2. n \in DOMAIN ops' /\ ops'[n] = ops[n]
  BY AppendElements DEF IInv, TypeOK
<1> QED BY <1>1, <1>2 DEF SetPending

\* ... and when another one is handled.
LEMMA PendingBehind ==
  ASSUME IInv, ops # <<>>, ops' = Tail(ops), NEW s \in Sessions, SetPending(s),
         Head(ops).op # "Set" \/ Head(ops).by # s
  PROVE  SetPending(s)'
<1>1. PICK n \in DOMAIN ops : ops[n].op = "Set" /\ ops[n].by = s
  BY DEF SetPending
<1>2. ops \in Seq(Ops) /\ Head(ops) = ops[1]
  BY TailElements DEF IInv, TypeOK
<1>3. n # 1
  BY <1>1, <1>2
<1>4. n - 1 \in DOMAIN Tail(ops) /\ Tail(ops)[n - 1] = ops[n]
  BY <1>1, <1>2, <1>3
<1> QED BY <1>1, <1>4 DEF SetPending

\* No step leaves a session waiting for nothing.
LEMMA WaitsStep == ASSUME IInv, WaitInv, Next PROVE WaitInv'
<1> USE DEF requestVars, mapVars, objectVars, dbVars, processVars
<1>1. ASSUME NEW s \in Sessions, Connect(s) PROVE WaitInv'
  <2>1. PICK state \in {"connected", "gone"} : session' = [session EXCEPT ![s] = state]
    BY <1>1 DEF Connect
  <2>2. \A x \in Sessions : session'[x] = IF x = s THEN state ELSE session[x]
    BY <2>1 DEF IInv, TypeOK
  <2> QED BY <1>1, <2>1, <2>2 DEF Connect, WaitInv, SetPending, Waiting
<1>2. ASSUME NEW s \in Sessions, SetupInventory(s) PROVE WaitInv'
  BY <1>2, WaitsSend DEF SetupInventory, Waiting
<1>3. ASSUME NEW s \in Sessions, RequestTask(s) PROVE WaitInv'
  BY <1>3, WaitsSend DEF RequestTask, Waiting
<1>4. ASSUME NEW s \in Sessions, Leave(s) PROVE WaitInv'
  <2>1. \A x \in Sessions : session'[x] = IF x = s THEN "leaving" ELSE session[x]
    BY <1>4 DEF Leave, IInv, TypeOK
  <2> QED BY <1>4, <2>1 DEF Leave, WaitInv, SetPending, Waiting
<1>5. ASSUME NEW s \in Sessions, CleanupInventory(s) PROVE WaitInv'
  BY <1>5, WaitsSend DEF CleanupInventory, Waiting
<1>6. ASSUME NEW s \in Sessions, Receive(s) PROVE WaitInv'
  BY <1>6, WaitsGoOn DEF Receive
<1>7. ASSUME NEW s \in Sessions, HandleTaskRequest(s) PROVE WaitInv'
  BY <1>7, WaitsReply DEF HandleTaskRequest, Waiting
<1>8. ASSUME NEW s \in Sessions, AddRefused(s) PROVE WaitInv'
  BY <1>8, WaitsReply DEF AddRefused, Waiting
<1>9. ASSUME NEW s \in Sessions, AddExisting(s) PROVE WaitInv'
  BY <1>9, WaitsReply DEF AddExisting, Waiting
<1>10. ASSUME NEW s \in Sessions, AddNew(s) PROVE WaitInv'
  BY <1>10, WaitsGoOn DEF AddNew
<1>11. ASSUME NEW s \in Sessions, Created(s) PROVE WaitInv'
  BY <1>11, WaitsReply DEF Created, Waiting
<1>12. ASSUME NEW s \in Sessions, RemoveRefused(s) PROVE WaitInv'
  BY <1>12, WaitsReply DEF RemoveRefused, Waiting
<1>13. ASSUME NEW s \in Sessions, RemoveEntry(s) PROVE WaitInv'
  BY <1>13, WaitsGoOn DEF RemoveEntry
<1>14. ASSUME NEW s \in Sessions, StopWaits(s) PROVE WaitInv'
  BY <1>14, WaitsGoOn DEF StopWaits
<1>15. ASSUME NEW s \in Sessions, Save(s) PROVE WaitInv'
  <2>1. CASE persistence = "running"
    <3>1. SetOp(s) \in Ops /\ SetOp(s).op = "Set" /\ SetOp(s).by = s
      BY <1>15, OpTypes DEF Save, SetOp, Holding, IInv, MutexInv
    <3>2. ops' = Append(ops, SetOp(s)) /\ handler' = [handler EXCEPT ![s] = "persisting"]
      BY <1>15, <2>1 DEF Save
    <3>3. \A x \in Sessions : handler'[x] = IF x = s THEN "persisting" ELSE handler[x]
      BY <3>2 DEF IInv, TypeOK
    <3>4. Len(ops) + 1 \in DOMAIN ops' /\ ops'[Len(ops) + 1] = SetOp(s)
      BY <3>1, <3>2, AppendElements DEF IInv, TypeOK
    <3>5. SetPending(s)' /\ \A x \in Sessions : SetPending(x) => SetPending(x)'
      BY <3>1, <3>2, <3>4, PendingAppended DEF SetPending
    <3> QED BY <1>15, <2>1, <3>3, <3>5 DEF Save, WaitInv
  <2>2. CASE persistence # "running"
    BY <1>15, <2>2, WaitsGoOn DEF Save
  <2> QED BY <2>1, <2>2
<1>16. ASSUME NEW s \in Sessions, SavePanics(s) PROVE WaitInv'
  BY <1>16, WaitsReply DEF SavePanics, Waiting
<1>17. ASSUME NEW s \in Sessions, Removed(s) PROVE WaitInv'
  BY <1>17, WaitsReply DEF Removed, Waiting
<1>18. ASSUME NEW s \in Sessions, Listen(s) \/ Mark(s) \/ ListenerEnds(s) \/ ListenerPanics(s)
       PROVE  WaitInv'
  BY <1>18, WaitsKept DEF Listen, Mark, ListenerEnds, ListenerPanics
<1>19. ASSUME NEW s \in Sessions, AskGet(s) PROVE WaitInv'
  <2>1. CASE persistence = "running"
    <3>1. ops' = Append(ops, GetOp(s)) /\ GetOp(s) \in Ops
      BY <1>19, <2>1, OpTypes DEF AskGet, IInv
    <3> QED BY <1>19, <3>1, PendingAppended DEF AskGet, WaitInv
  <2>2. CASE persistence # "running"
    BY <1>19, <2>2, WaitsKept DEF AskGet
  <2> QED BY <2>1, <2>2
<1>20. ASSUME HandleGet PROVE WaitInv'
  <2>1. \A x \in Sessions : SetPending(x) => SetPending(x)'
    BY <1>20, PendingBehind DEF HandleGet
  <2> QED BY <1>20, <2>1 DEF HandleGet, WaitInv
<1>21. ASSUME HandleSet PROVE WaitInv'
  <2>1. Head(ops).by \in Sessions
    <3>1. Head(ops) \in Ops /\ Head(ops).op = "Set"
      BY <1>21, TailElements DEF HandleSet, IInv, TypeOK
    <3> QED BY <3>1 DEF Ops
  <2>2. \A x \in Sessions : handler'[x] = IF x = Head(ops).by THEN "persisted" ELSE handler[x]
    BY <1>21, <2>1 DEF HandleSet, IInv, TypeOK
  <2>3. \A x \in Sessions : x # Head(ops).by /\ SetPending(x) => SetPending(x)'
    BY <1>21, PendingBehind DEF HandleSet
  <2> QED BY <1>21, <2>2, <2>3 DEF HandleSet, WaitInv
<1>22. ASSUME HandleStop PROVE WaitInv'
  BY <1>22 DEF HandleStop, WaitInv, IInv, TypeOK
<1>23. ASSUME CtrlC PROVE WaitInv'
  BY <1>23, WaitsKept DEF CtrlC
<1>24. ASSUME DispatcherEnds PROVE WaitInv'
  <2>1. /\ \A x \in Sessions : session'[x] = IF handler[x] = "mailed" THEN AfterLoss(x)
                                                                     ELSE session[x]
        /\ \A x \in Sessions : handler'[x] = IF handler[x] = "mailed" THEN "none" ELSE handler[x]
    BY <1>24 DEF DispatcherEnds
  <2>2. \A x \in Sessions : handler[x] = "mailed" => AfterLoss(x) \notin Waiting
    BY DEF IInv, LineInv, Waiting, AfterLoss
  <2> QED BY <1>24, <2>1, <2>2 DEF DispatcherEnds, WaitInv, SetPending
<1>25. ASSUME StopPersistence PROVE WaitInv'
  <2>1. ops' = Append(ops, StopOp) /\ StopOp \in Ops
    BY <1>25 DEF StopPersistence, StopOp, Ops
  <2> QED BY <1>25, <2>1, PendingAppended DEF StopPersistence, WaitInv
<1>26. ASSUME Idle PROVE WaitInv'
  BY <1>26, WaitsKept DEF Idle, vars
<1> QED
  BY <1>1, <1>2, <1>3, <1>4, <1>5, <1>6, <1>7, <1>8, <1>9, <1>10, <1>11, <1>12, <1>13, <1>14,
     <1>15, <1>16, <1>17, <1>18, <1>19, <1>20, <1>21, <1>22, <1>23, <1>24, <1>25, <1>26
  DEF Next, SessionStep, HandlerStep, ObjectStep, PersistenceStep, ProcessStep

\* Whoever is first in line has a permit, and whoever holds the map is in line.
LEMMA SomebodyGoesOn ==
  ASSUME IInv, WaitInv, NEW s \in Sessions, session[s] \in Waiting
  PROVE  \E t \in Sessions : /\ session[t] \in Waiting
                             /\ CanGoOn(t) \/ (persistence = "running" /\ SetPending(t))
<1> DEFINE Goes(t) == CanGoOn(t) \/ (persistence = "running" /\ SetPending(t))
<1>1. ASSUME NEW t \in Sessions, handler[t] \in {"mailed", "created"} \cup Holding
      PROVE  session[t] \in Waiting /\ Goes(t)
  <2>1. session[t] \in Waiting
    BY <1>1 DEF IInv, LineInv, Holding
  <2> QED BY <1>1, <2>1 DEF WaitInv, CanGoOn, Holding
<1>2. CASE handler[s] # "queued"
  <2>1. handler[s] \in {"mailed", "created"} \cup Holding
    BY <1>2 DEF WaitInv, IInv, TypeOK, HandlerStates
  <2> QED BY <1>1, <2>1
<1>3. CASE handler[s] = "queued"
  <2>1. line \in Seq(Sessions) /\ \E n \in DOMAIN line : line[n] = s
    BY <1>3 DEF IInv, TypeOK, LineInv, Lined
  <2>2. 1 \in DOMAIN line /\ 1 <= Len(line) /\ line[1] \in Sessions
    BY <2>1
  <2>3. PICK f \in Sessions : f = line[1]
    BY <2>2
  <2>4. handler[f] \in Lined
    BY <2>2, <2>3 DEF IInv, LineInv
  <2>5. CASE handler[f] = "queued"
    <3>1. 1 \in 1..Permits
      BY LifecycleAssumption
    <3>2. HasPermit(f) /\ session[f] \in Waiting
      BY <2>2, <2>3, <2>5, <3>1 DEF HasPermit, IInv, LineInv
    <3>3. CASE Locked
      BY <1>1, <3>3 DEF Locked
    <3>4. CASE ~Locked
      BY <3>2, <3>4 DEF CanGoOn
    <3> QED BY <3>3, <3>4
  <2>6. CASE handler[f] # "queued"
    BY <1>1, <2>4, <2>6 DEF Lined
  <2> QED BY <2>5, <2>6
<1> QED BY <1>2, <1>3

\* Mutex, semaphore, dispatcher and persistence never wait for one another in a circle,
\* although remove holds the mutex and a permit while it waits, and although main ends the
\* dispatcher and persistence meanwhile: of the sessions that wait one can always go on.
THEOREM SessionsNeverStuck == Spec => []NobodyStuck
<1>1. Init => WaitInv
  BY DEF Init, WaitInv, Waiting
<1>2. IInv /\ WaitInv /\ [Next]_vars => WaitInv'
  <2>1. ASSUME IInv, WaitInv, UNCHANGED vars PROVE WaitInv'
    BY <2>1, WaitsKept DEF vars, requestVars, dbVars, processVars
  <2> QED BY <2>1, WaitsStep
<1>3. IInv /\ WaitInv => NobodyStuck
  BY SomebodyGoesOn DEF NobodyStuck
<1> QED BY <1>1, <1>2, <1>3, Invariant, PTL DEF Spec

=============================================================================
