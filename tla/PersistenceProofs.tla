------------------------- MODULE PersistenceProofs -------------------------
(***************************************************************************)
(* Theorems about Persistence: types, what is flushed before Stop, and the *)
(* refinement of KeyValueStore.                                            *)
(***************************************************************************)
EXTENDS Persistence, TLAPS

\* Who is where: a queued or served operation belongs to a caller that waits, it is
\* queued once, and an answer is there exactly when its caller has been answered.
QueueInv ==
  /\ \A i \in 1..Len(mailbox) :
       mailbox[i] \in Clients => pc[mailbox[i]] = "waiting" /\ mailbox[i] # serving
  /\ \A i, j \in 1..Len(mailbox) : mailbox[i] = mailbox[j] => i = j
  /\ serving \in Clients => pc[serving] = "waiting" /\ outcome # Pending
  /\ phase # "running" => serving = Nobody /\ ~Queued(StopOp)
  /\ \A c \in Clients : pc[c] = "idle" <=> call[c] = NoCall
  /\ \A c \in Clients : pc[c] = "answered" <=> answer[c] # Pending

IInv == TypeOK /\ QueueInv

-----------------------------------------------------------------------------
\* Tail keeps the elements, one place further to the front.
LEMMA TailElements ==
  ASSUME NEW S, NEW s \in Seq(S), s # <<>>
  PROVE  /\ Head(s) \in S /\ Head(s) = s[1] /\ Len(s) \in Nat /\ Len(s) >= 1
         /\ Tail(s) \in Seq(S) /\ Len(Tail(s)) = Len(s) - 1
         /\ \A i \in 1..Len(Tail(s)) : Tail(s)[i] = s[i + 1] /\ i + 1 \in 1..Len(s)
  OBVIOUS

\* Append keeps the elements and adds one at the end.
LEMMA AppendElements ==
  ASSUME NEW S, NEW s \in Seq(S), NEW e \in S
  PROVE  /\ Append(s, e) \in Seq(S) /\ Len(Append(s, e)) = Len(s) + 1 /\ Len(s) \in Nat
         /\ \A i \in 1..Len(s) : Append(s, e)[i] = s[i]
         /\ Append(s, e)[Len(s) + 1] = e
  OBVIOUS

\* What the backend does to a map of values keeps it one, and its result is a value,
\* "missing" or "done".
LEMMA BackendTypes ==
  ASSUME NEW o \in Operations, store \in Stores
  PROVE  Written(o) \in Stores /\ Found(o) \in Outcomes
<1>1. CASE o.op = "Set"
  BY <1>1 DEF Operations, Stores, Written, Found, Outcomes
<1>2. CASE o.op = "Delete"
  BY <1>2 DEF Operations, Stores, Written, Found, Outcomes
<1>3. CASE o.op = "Get"
  BY <1>3 DEF Operations, Stores, Written, Found, Outcomes
<1> QED BY <1>1, <1>2, <1>3 DEF Operations

LEMMA InitIInv == Init => IInv
  BY PersistenceAssumption DEF Init, IInv, TypeOK, QueueInv, Stores, Outcomes, Queued

LEMMA BeginIInv ==
  ASSUME IInv, NEW c \in Clients, NEW o \in Operations, Begin(c, o) PROVE IInv'
<1>1. TypeOK' BY DEF IInv, TypeOK, Begin, workerVars
<1>2. QueueInv' BY PersistenceAssumption DEF IInv, TypeOK, QueueInv, Begin, workerVars, Queued
<1> QED BY <1>1, <1>2 DEF IInv

LEMMA SendOpIInv ==
  ASSUME IInv, NEW c \in Clients, SendOp(c) PROVE IInv'
<1> USE DEF IInv, SendOp, workerVars
<1>1. mailbox' = Append(mailbox, c) /\ mailbox \in Seq(Clients \cup {StopOp})
  BY DEF TypeOK
<1>2. /\ mailbox' \in Seq(Clients \cup {StopOp}) /\ Len(mailbox') = Len(mailbox) + 1
      /\ Len(mailbox) \in Nat
      /\ \A i \in 1..Len(mailbox) : mailbox'[i] = mailbox[i]
      /\ mailbox'[Len(mailbox) + 1] = c
  BY <1>1, AppendElements
<1>3. TypeOK' BY <1>2 DEF TypeOK
<1>4. c # serving /\ \A i \in 1..Len(mailbox) : mailbox[i] # c
  BY DEF QueueInv
<1>5. \A i \in 1..Len(mailbox') : i \in 1..Len(mailbox) \/ i = Len(mailbox) + 1
  BY <1>2
<1>6. QueueInv'
  <2>1. \A i \in 1..Len(mailbox') :
          mailbox'[i] \in Clients => pc'[mailbox'[i]] = "waiting" /\ mailbox'[i] # serving'
    BY <1>2, <1>4, <1>5 DEF QueueInv, TypeOK
  <2>2. \A i, j \in 1..Len(mailbox') : mailbox'[i] = mailbox'[j] => i = j
    BY <1>2, <1>4, <1>5 DEF QueueInv
  <2>3. (phase # "running" => serving = Nobody /\ ~Queued(StopOp))'
    BY <1>2, <1>5, PersistenceAssumption DEF QueueInv, Queued
  <2>4. (serving \in Clients => pc[serving] = "waiting" /\ outcome # Pending)'
    BY DEF QueueInv, TypeOK
  <2>5. (/\ \A d \in Clients : pc[d] = "idle" <=> call[d] = NoCall
         /\ \A d \in Clients : pc[d] = "answered" <=> answer[d] # Pending)'
    BY DEF QueueInv, TypeOK
  <2> QED BY <2>1, <2>2, <2>3, <2>4, <2>5 DEF QueueInv
<1> QED BY <1>3, <1>6

LEMMA SendFailsIInv ==
  ASSUME IInv, NEW c \in Clients, SendFails(c) PROVE IInv'
<1>1. TypeOK' BY DEF IInv, TypeOK, SendFails, workerVars
<1>2. QueueInv'
  BY PersistenceAssumption DEF IInv, TypeOK, QueueInv, SendFails, workerVars, Queued
<1> QED BY <1>1, <1>2 DEF IInv

LEMMA ReturnIInv ==
  ASSUME IInv, NEW c \in Clients, Return(c) PROVE IInv'
<1>1. TypeOK' BY DEF IInv, TypeOK, Return, workerVars
<1>2. QueueInv'
  BY PersistenceAssumption DEF IInv, TypeOK, QueueInv, Return, workerVars, Queued
<1> QED BY <1>1, <1>2 DEF IInv

LEMMA SendStopIInv ==
  ASSUME IInv, SendStop PROVE IInv'
<1> USE DEF IInv, SendStop, workerVars, clientVars
<1>1. mailbox' = Append(mailbox, StopOp) /\ mailbox \in Seq(Clients \cup {StopOp})
  BY DEF TypeOK
<1>2. /\ mailbox' \in Seq(Clients \cup {StopOp}) /\ Len(mailbox') = Len(mailbox) + 1
      /\ Len(mailbox) \in Nat
      /\ \A i \in 1..Len(mailbox) : mailbox'[i] = mailbox[i]
      /\ mailbox'[Len(mailbox) + 1] = StopOp
  BY <1>1, AppendElements
<1>3. TypeOK' BY <1>2 DEF TypeOK
<1>4. phase = "running" /\ \A i \in 1..Len(mailbox) : mailbox[i] # StopOp
  BY DEF StopSent, Queued
<1>5. \A i \in 1..Len(mailbox') : i \in 1..Len(mailbox) \/ i = Len(mailbox) + 1
  BY <1>2
<1>6. QueueInv'
  <2>1. \A i \in 1..Len(mailbox') :
          mailbox'[i] \in Clients => pc'[mailbox'[i]] = "waiting" /\ mailbox'[i] # serving'
    BY <1>2, <1>5, PersistenceAssumption DEF QueueInv, TypeOK
  <2>2. \A i, j \in 1..Len(mailbox') : mailbox'[i] = mailbox'[j] => i = j
    BY <1>2, <1>4, <1>5 DEF QueueInv
  <2> QED BY <1>4, <2>1, <2>2 DEF QueueInv
<1> QED BY <1>3, <1>6

LEMMA ProcessIInv ==
  ASSUME IInv, ProcessOperation PROVE IInv'
<1> USE DEF IInv, ProcessOperation, Free, clientVars
<1>1. mailbox \in Seq(Clients \cup {StopOp}) /\ mailbox # <<>> /\ mailbox' = Tail(mailbox)
  BY DEF TypeOK
<1>2. /\ Head(mailbox) \in Clients \cup {StopOp} /\ Head(mailbox) = mailbox[1]
      /\ Len(mailbox) \in Nat /\ Len(mailbox) >= 1
      /\ mailbox' \in Seq(Clients \cup {StopOp}) /\ Len(mailbox') = Len(mailbox) - 1
      /\ \A i \in 1..Len(mailbox') : mailbox'[i] = mailbox[i + 1] /\ i + 1 \in 1..Len(mailbox)
  BY <1>1, TailElements
<1>3. PICK c \in Clients : c = Head(mailbox)
  BY <1>2
<1>4. pc[c] = "waiting" /\ call[c] \in Operations
  BY <1>2, <1>3 DEF QueueInv, TypeOK
<1>5. store' \in Stores /\ outcome' \in Outcomes
  BY <1>3, <1>4, BackendTypes DEF TypeOK
<1>6. TypeOK' BY <1>2, <1>3, <1>5 DEF TypeOK
<1>7. QueueInv'
  <2>1. \A i \in 1..Len(mailbox') : mailbox'[i] # c
    BY <1>2, <1>3 DEF QueueInv
  <2>2. \A i, j \in 1..Len(mailbox') : mailbox'[i] = mailbox'[j] => i = j
    BY <1>2 DEF QueueInv
  <2>3. \A i \in 1..Len(mailbox') :
          mailbox'[i] \in Clients => pc'[mailbox'[i]] = "waiting" /\ mailbox'[i] # serving'
    BY <1>2, <1>3, <2>1 DEF QueueInv
  <2>4. serving' = c /\ pc'[c] = "waiting" /\ outcome' # Pending
    BY <1>3, <1>4, <1>5, PersistenceAssumption
  <2> QED BY <2>2, <2>3, <2>4 DEF QueueInv
<1> QED BY <1>6, <1>7

LEMMA SendReplyIInv ==
  ASSUME IInv, SendReply PROVE IInv'
<1> USE DEF IInv, SendReply
<1>1. serving \in Clients BY DEF TypeOK
<1>2. TypeOK' BY <1>1 DEF TypeOK
<1>3. QueueInv' BY <1>1, PersistenceAssumption DEF TypeOK, QueueInv, Queued
<1> QED BY <1>2, <1>3

LEMMA HandleStopIInv ==
  ASSUME IInv, HandleStop PROVE IInv'
<1> USE DEF IInv, HandleStop, Free, clientVars
<1>1. mailbox \in Seq(Clients \cup {StopOp}) /\ mailbox # <<>> /\ mailbox' = Tail(mailbox)
  BY DEF TypeOK
<1>2. /\ Head(mailbox) = mailbox[1] /\ Len(mailbox) \in Nat /\ Len(mailbox) >= 1
      /\ mailbox' \in Seq(Clients \cup {StopOp}) /\ Len(mailbox') = Len(mailbox) - 1
      /\ \A i \in 1..Len(mailbox') : mailbox'[i] = mailbox[i + 1] /\ i + 1 \in 1..Len(mailbox)
  BY <1>1, TailElements
<1>3. TypeOK' BY <1>2 DEF TypeOK
<1>4. QueueInv'
  <2>1. \A i \in 1..Len(mailbox') : mailbox'[i] # StopOp
    BY <1>2 DEF QueueInv
  <2>2. /\ \A i \in 1..Len(mailbox') :
             mailbox'[i] \in Clients => pc'[mailbox'[i]] = "waiting" /\ mailbox'[i] # serving'
        /\ \A i, j \in 1..Len(mailbox') : mailbox'[i] = mailbox'[j] => i = j
    BY <1>2 DEF QueueInv
  <2> QED BY <2>1, <2>2 DEF QueueInv, Queued
<1> QED BY <1>3, <1>4

LEMMA CloseInboxIInv ==
  ASSUME IInv, CloseInbox PROVE IInv'
<1>1. TypeOK' BY DEF IInv, TypeOK, CloseInbox, clientVars
<1>2. QueueInv' BY DEF IInv, QueueInv, CloseInbox, clientVars, Queued
<1> QED BY <1>1, <1>2 DEF IInv

\* What a closed mailbox still holds are operations of callers that wait.
LEMMA DroppedWaits ==
  ASSUME IInv, DropOp
  PROVE  /\ Head(mailbox) \in Clients /\ pc[Head(mailbox)] = "waiting"
         /\ Head(mailbox) = mailbox[1] /\ 1 \in 1..Len(mailbox)
         /\ serving = Nobody /\ phase # "running"
<1>1. mailbox \in Seq(Clients \cup {StopOp}) /\ mailbox # <<>> /\ phase # "running"
  BY DEF IInv, TypeOK, DropOp
<1>2. Head(mailbox) \in Clients \cup {StopOp} /\ Head(mailbox) = mailbox[1] /\ 1 \in 1..Len(mailbox)
  BY <1>1, TailElements
<1> QED BY <1>1, <1>2 DEF IInv, QueueInv, Queued

LEMMA DropOpIInv ==
  ASSUME IInv, DropOp PROVE IInv'
<1> USE DEF IInv, DropOp, workerVars
<1>1. mailbox \in Seq(Clients \cup {StopOp}) /\ mailbox # <<>> /\ mailbox' = Tail(mailbox)
  BY DEF TypeOK
<1>2. /\ Len(mailbox) \in Nat /\ Len(mailbox) >= 1
      /\ mailbox' \in Seq(Clients \cup {StopOp}) /\ Len(mailbox') = Len(mailbox) - 1
      /\ \A i \in 1..Len(mailbox') : mailbox'[i] = mailbox[i + 1] /\ i + 1 \in 1..Len(mailbox)
  BY <1>1, TailElements
<1>3. PICK c \in Clients : c = Head(mailbox) /\ c = mailbox[1] /\ pc[c] = "waiting"
  BY DroppedWaits
<1>4. TypeOK' BY <1>2, <1>3 DEF TypeOK
<1>5. QueueInv'
  <2>1. \A i \in 1..Len(mailbox') : mailbox'[i] # c
    BY <1>2, <1>3 DEF QueueInv
  <2>2. /\ \A i \in 1..Len(mailbox') :
             mailbox'[i] \in Clients => pc'[mailbox'[i]] = "waiting" /\ mailbox'[i] # serving'
        /\ \A i, j \in 1..Len(mailbox') : mailbox'[i] = mailbox'[j] => i = j
    BY <1>2, <1>3, <2>1 DEF QueueInv, TypeOK
  <2>3. serving' = Nobody /\ ~Queued(StopOp)'
    BY <1>2, DroppedWaits DEF QueueInv, Queued
  <2>4. /\ \A d \in Clients : pc'[d] = "idle" <=> call'[d] = NoCall
        /\ \A d \in Clients : pc'[d] = "answered" <=> answer'[d] # Pending
    BY <1>3, PersistenceAssumption DEF QueueInv, TypeOK
  <2> QED BY <2>2, <2>3, <2>4, PersistenceAssumption DEF QueueInv
<1> QED BY <1>4, <1>5

LEMMA StutterIInv == IInv /\ UNCHANGED vars => IInv'
  BY DEF IInv, TypeOK, QueueInv, Queued, vars

LEMMA StepIInv == IInv /\ [Next]_vars => IInv'
  BY BeginIInv, SendOpIInv, SendFailsIInv, ReturnIInv, SendStopIInv, ProcessIInv, SendReplyIInv,
     HandleStopIInv, CloseInboxIInv, DropOpIInv, StutterIInv DEF Next, Run

LEMMA IInvHolds == Spec => []IInv
  BY InitIInv, StepIInv, PTL DEF Spec

\* Every variable keeps its type: what a caller is told is a value, "missing", "done"
\* or "failed", and the worker serves callers only.
THEOREM PersistenceTypes == Spec => []TypeOK
<1>1. IInv => TypeOK BY DEF IInv
<1> QED BY <1>1, IInvHolds, PTL

-----------------------------------------------------------------------------
\* Operations that were queued before Stop stay ahead of it until they are done.
FlushInv ==
  /\ \A c \in ahead : answer[c] # Failed /\ pc[c] \in {"waiting", "answered"}
  /\ \A i, j \in 1..Len(mailbox) : mailbox[i] = StopOp /\ mailbox[j] \in ahead => j < i
  /\ phase # "running" => \A j \in 1..Len(mailbox) : mailbox[j] \notin ahead
  /\ ahead # {} => StopSent

LEMMA InitFlush == Init => FlushInv
  BY DEF Init, FlushInv

\* Taking the first operation off the mailbox keeps the order of the others.
LEMMA ShiftFlush ==
  ASSUME IInv, FlushInv, mailbox # <<>>, mailbox' = Tail(mailbox), UNCHANGED <<ahead>>,
         phase' = phase
  PROVE  /\ \A i, j \in 1..Len(mailbox') :
              mailbox'[i] = StopOp /\ mailbox'[j] \in ahead' => j < i
         /\ phase' # "running" => \A j \in 1..Len(mailbox') : mailbox'[j] \notin ahead'
         /\ mailbox[1] # StopOp /\ StopSent => StopSent'
<1>1. /\ Len(mailbox) \in Nat /\ Len(mailbox) >= 1 /\ Len(mailbox') = Len(mailbox) - 1
      /\ \A i \in 1..Len(mailbox') : mailbox'[i] = mailbox[i + 1] /\ i + 1 \in 1..Len(mailbox)
  BY TailElements DEF IInv, TypeOK
<1>2. \A i \in 1..Len(mailbox) : i # 1 => i - 1 \in 1..Len(mailbox') /\ mailbox'[i - 1] = mailbox[i]
  BY <1>1
<1> QED BY <1>1, <1>2 DEF FlushInv, StopSent, Queued

LEMMA CallerFlush ==
  ASSUME IInv, FlushInv, NEW c \in Clients,
         SendFails(c) \/ Return(c) \/ \E o \in Operations : Begin(c, o)
  PROVE  FlushInv'
<1>1. CASE SendFails(c)
  BY <1>1 DEF FlushInv, SendFails, IInv, TypeOK, workerVars, StopSent, Queued
<1>2. CASE Return(c)
  BY <1>2 DEF FlushInv, Return, IInv, TypeOK, workerVars, StopSent, Queued
<1>3. CASE \E o \in Operations : Begin(c, o)
  BY <1>3 DEF FlushInv, Begin, IInv, TypeOK, workerVars, StopSent, Queued
<1> QED BY <1>1, <1>2, <1>3

LEMMA SendOpFlush ==
  ASSUME IInv, FlushInv, NEW c \in Clients, SendOp(c) PROVE FlushInv'
<1> USE DEF SendOp, workerVars
<1>1. /\ Len(mailbox') = Len(mailbox) + 1 /\ Len(mailbox) \in Nat
      /\ \A i \in 1..Len(mailbox) : mailbox'[i] = mailbox[i]
      /\ mailbox'[Len(mailbox) + 1] = c
  BY AppendElements DEF IInv, TypeOK
<1>2. \A i \in 1..Len(mailbox') : i \in 1..Len(mailbox) \/ i = Len(mailbox) + 1
  BY <1>1
<1>3. c \notin ahead /\ c # StopOp
  BY PersistenceAssumption DEF FlushInv
<1>4. ahead' = ahead /\ phase' = phase /\ answer' = answer /\ pc' = [pc EXCEPT ![c] = "waiting"]
  OBVIOUS
<1>5. \A d \in ahead' : answer'[d] # Failed /\ pc'[d] \in {"waiting", "answered"}
  BY <1>4 DEF FlushInv, IInv, TypeOK
<1>6. /\ \A i, j \in 1..Len(mailbox') : mailbox'[i] = StopOp /\ mailbox'[j] \in ahead' => j < i
      /\ phase' # "running" => \A j \in 1..Len(mailbox') : mailbox'[j] \notin ahead'
  BY <1>1, <1>2, <1>3, <1>4 DEF FlushInv
<1>7. ahead' # {} => StopSent'
  BY <1>1, <1>4 DEF FlushInv, StopSent, Queued
<1> QED BY <1>5, <1>6, <1>7 DEF FlushInv

LEMMA SendStopFlush ==
  ASSUME IInv, FlushInv, SendStop PROVE FlushInv'
<1> USE DEF SendStop, clientVars, workerVars
<1>1. /\ Len(mailbox') = Len(mailbox) + 1 /\ Len(mailbox) \in Nat
      /\ \A i \in 1..Len(mailbox) : mailbox'[i] = mailbox[i]
      /\ mailbox'[Len(mailbox) + 1] = StopOp
  BY AppendElements DEF IInv, TypeOK
<1>2. \A i \in 1..Len(mailbox') : i \in 1..Len(mailbox) \/ i = Len(mailbox) + 1
  BY <1>1
<1>3. \A d \in ahead' : d \in Clients /\ pc[d] = "waiting" /\ answer[d] = Pending
  BY DEF IInv, QueueInv, Queued
<1>4. \A d \in ahead' : answer'[d] # Failed /\ pc'[d] \in {"waiting", "answered"}
  BY <1>3, PersistenceAssumption
<1>5. /\ phase = "running"
      /\ \A i \in 1..Len(mailbox) : mailbox[i] # StopOp
      /\ \A d \in ahead' : d # StopOp
  BY PersistenceAssumption DEF StopSent, Queued
<1>6. /\ \A i, j \in 1..Len(mailbox') : mailbox'[i] = StopOp /\ mailbox'[j] \in ahead' => j < i
      /\ phase' = "running" /\ StopSent'
  BY <1>1, <1>2, <1>5 DEF StopSent, Queued
<1> QED BY <1>4, <1>6 DEF FlushInv

LEMMA WorkerFlush ==
  ASSUME IInv, FlushInv, Run PROVE FlushInv'
<1>1. CASE ProcessOperation
  <2>1. /\ Head(mailbox) = mailbox[1] /\ mailbox[1] # StopOp /\ mailbox # <<>>
        /\ mailbox' = Tail(mailbox) /\ UNCHANGED <<ahead, phase, pc, answer>>
    BY <1>1, TailElements DEF IInv, TypeOK, ProcessOperation, Free, clientVars
  <2> QED BY <2>1, ShiftFlush DEF FlushInv
<1>2. CASE SendReply
  <2>1. outcome # Failed /\ serving \in Clients
    BY <1>2, PersistenceAssumption DEF IInv, TypeOK, SendReply
  <2> QED BY <1>2, <2>1 DEF FlushInv, SendReply, IInv, TypeOK, StopSent, Queued
<1>3. CASE HandleStop
  <2>1. /\ Head(mailbox) = mailbox[1] /\ mailbox[1] = StopOp /\ mailbox # <<>>
        /\ mailbox' = Tail(mailbox) /\ UNCHANGED <<ahead, pc, answer>> /\ phase' = "leaving"
        /\ Len(mailbox) \in Nat /\ Len(mailbox) >= 1 /\ Len(mailbox') = Len(mailbox) - 1
        /\ \A i \in 1..Len(mailbox') : mailbox'[i] = mailbox[i + 1] /\ i + 1 \in 1..Len(mailbox)
    BY <1>3, TailElements DEF IInv, TypeOK, HandleStop, Free, clientVars
  <2>2. \A j \in 1..Len(mailbox) : mailbox[j] \notin ahead
    BY <2>1 DEF FlushInv
  <2> QED BY <2>1, <2>2 DEF FlushInv, StopSent
<1>4. CASE CloseInbox
  BY <1>4 DEF FlushInv, CloseInbox, clientVars, IInv, QueueInv, StopSent
<1>5. CASE DropOp
  <2>1. PICK c \in Clients : c = Head(mailbox) /\ c = mailbox[1] /\ pc[c] = "waiting"
    BY <1>5, DroppedWaits
  <2>2. phase # "running" /\ 1 \in 1..Len(mailbox)
    BY <1>5, DroppedWaits
  <2>3. c \notin ahead
    BY <2>1, <2>2 DEF FlushInv
  <2>4. /\ mailbox # <<>> /\ mailbox' = Tail(mailbox) /\ UNCHANGED <<ahead, phase>>
        /\ pc' = [pc EXCEPT ![c] = "answered"] /\ answer' = [answer EXCEPT ![c] = Failed]
    BY <1>5, <2>1 DEF DropOp, workerVars
  <2>5. \A d \in ahead' : answer'[d] # Failed /\ pc'[d] \in {"waiting", "answered"}
    BY <2>3, <2>4 DEF FlushInv, IInv, TypeOK
  <2>6. StopSent' BY <2>2, <2>4 DEF StopSent
  <2> QED BY <2>4, <2>5, <2>6, ShiftFlush DEF FlushInv
<1> QED BY <1>1, <1>2, <1>3, <1>4, <1>5 DEF Run

LEMMA StutterFlush == FlushInv /\ UNCHANGED vars => FlushInv'
  BY DEF FlushInv, StopSent, Queued, vars

\* Whatever was in the mailbox before main's Stop is done and answered as done.
THEOREM QueuedIsFlushed == Spec => []FlushedBeforeStop
<1>1. IInv /\ FlushInv /\ [Next]_vars => FlushInv'
  BY CallerFlush, SendOpFlush, SendStopFlush, WorkerFlush, StutterFlush DEF Next
<1>2. FlushInv => FlushedBeforeStop BY DEF FlushInv, FlushedBeforeStop
<1> QED BY InitFlush, IInvHolds, <1>1, <1>2, PTL DEF Spec

-----------------------------------------------------------------------------
\* The steps of the worker that decide an outcome are the steps of the store; sending
\* an operation and sending its reply change nothing a caller of the store can tell.
LEMMA StoreStep ==
  ASSUME IInv, [Next]_vars PROVE [Service!Next]_(Service!vars)
<1> DEFINE seen == [c \in Clients |-> IF c = serving THEN outcome ELSE answer[c]]
<1>a. ASSUME UNCHANGED <<store, call, answer, serving, outcome>>,
             (phase' = "running") <=> (phase = "running")
      PROVE  UNCHANGED Service!vars
  BY <1>a DEF Service!vars
<1>1. ASSUME NEW c \in Clients, NEW o \in Operations, Begin(c, o)
      PROVE  Service!Invoke(c, o)
  <2>1. call[c] = NoCall BY <1>1 DEF IInv, QueueInv, Begin
  <2>2. UNCHANGED <<store, answer, serving, outcome, phase>> /\ call' = [call EXCEPT ![c] = o]
    BY <1>1 DEF Begin, workerVars
  <2> QED BY <2>1, <2>2 DEF Service!Invoke
<1>2. ASSUME NEW c \in Clients, SendOp(c) PROVE UNCHANGED Service!vars
  BY <1>2, <1>a DEF SendOp, workerVars
<1>3. ASSUME NEW c \in Clients, SendFails(c) PROVE Service!Reject(c)
  <2>1. serving = Nobody /\ phase # "running" /\ call[c] # NoCall /\ answer[c] = Pending
    BY <1>3 DEF SendFails, IInv, QueueInv, TypeOK
  <2>2. c # serving /\ seen[c] = Pending
    BY <2>1, PersistenceAssumption
  <2>3. UNCHANGED <<store, call, serving, outcome, phase>>
        /\ answer' = [answer EXCEPT ![c] = Failed]
    BY <1>3 DEF SendFails, workerVars
  <2>4. seen' = [seen EXCEPT ![c] = Failed]
    BY <2>1, <2>2, <2>3, PersistenceAssumption DEF IInv, TypeOK
  <2> QED BY <2>1, <2>2, <2>3, <2>4 DEF Service!Reject
<1>4. ASSUME NEW c \in Clients, Return(c) PROVE Service!Return(c)
  <2>1. answer[c] # Pending /\ c # serving
    BY <1>4 DEF Return, IInv, QueueInv, TypeOK
  <2>2. UNCHANGED <<store, serving, outcome, phase>>
        /\ answer' = [answer EXCEPT ![c] = Pending] /\ call' = [call EXCEPT ![c] = NoCall]
    BY <1>4 DEF Return, workerVars
  <2>3. seen[c] # Pending
    BY <2>1
  <2>4. \A d \in Clients : seen'[d] = IF d = c THEN Pending ELSE seen[d]
    BY <2>1, <2>2 DEF IInv, TypeOK
  <2>5. seen' = [seen EXCEPT ![c] = Pending]
    BY <2>4
  <2> QED BY <2>2, <2>3, <2>5 DEF Service!Return
<1>5. ASSUME SendStop PROVE UNCHANGED Service!vars
  BY <1>5, <1>a DEF SendStop, clientVars, workerVars
<1>6. ASSUME ProcessOperation PROVE \E c \in Clients : Service!Perform(c)
  <2>1. Head(mailbox) \in Clients \cup {StopOp} /\ Head(mailbox) = mailbox[1] /\ 1 \in 1..Len(mailbox)
    BY <1>6, TailElements DEF ProcessOperation, Free, IInv, TypeOK
  <2>2. PICK c \in Clients : c = Head(mailbox)
    BY <1>6, <2>1 DEF ProcessOperation
  <2>3. pc[c] = "waiting" /\ call[c] # NoCall /\ answer[c] = Pending
    BY <2>1, <2>2 DEF IInv, QueueInv, TypeOK
  <2>4. /\ phase = "running" /\ serving = Nobody /\ serving' = c
        /\ store' = Written(call[c]) /\ outcome' = Found(call[c])
        /\ UNCHANGED <<call, answer, phase>>
    BY <1>6, <2>2 DEF ProcessOperation, Free, clientVars
  <2>5. store' = Service!Effect(store, call[c]) /\ outcome' = Service!Result(store, call[c])
    BY <2>4 DEF Written, Found, Service!Effect, Service!Result
  <2>6. seen[c] = Pending /\ seen' = [seen EXCEPT ![c] = outcome']
    BY <2>3, <2>4, PersistenceAssumption DEF IInv, TypeOK
  <2>7. Service!Perform(c)
    BY <2>3, <2>4, <2>5, <2>6 DEF Service!Perform
  <2> QED BY <2>7
<1>7. ASSUME SendReply PROVE UNCHANGED Service!vars
  <2>1. serving \in Clients /\ serving' = Nobody /\ answer' = [answer EXCEPT ![serving] = outcome]
        /\ UNCHANGED <<call, store, phase>>
    BY <1>7 DEF SendReply, IInv, TypeOK
  <2>2. seen' = seen
    BY <2>1, PersistenceAssumption DEF IInv, TypeOK
  <2> QED BY <2>1, <2>2 DEF Service!vars
<1>8. ASSUME HandleStop PROVE Service!Close
  BY <1>8 DEF HandleStop, Free, clientVars, Service!Close
<1>9. ASSUME CloseInbox PROVE UNCHANGED Service!vars
  BY <1>9, <1>a DEF CloseInbox, clientVars
<1>10. ASSUME DropOp PROVE \E c \in Clients : Service!Reject(c)
  <2>1. PICK c \in Clients : c = Head(mailbox) /\ pc[c] = "waiting"
    BY <1>10, DroppedWaits
  <2>2. serving = Nobody /\ phase # "running" /\ call[c] # NoCall /\ answer[c] = Pending
    BY <1>10, <2>1, DroppedWaits DEF IInv, QueueInv, TypeOK
  <2>3. UNCHANGED <<store, call, serving, outcome, phase>>
        /\ answer' = [answer EXCEPT ![c] = Failed]
    BY <1>10, <2>1 DEF DropOp, workerVars
  <2>4. seen[c] = Pending /\ seen' = [seen EXCEPT ![c] = Failed]
    BY <2>2, <2>3, PersistenceAssumption DEF IInv, TypeOK
  <2>5. Service!Reject(c)
    BY <2>2, <2>3, <2>4 DEF Service!Reject
  <2> QED BY <2>5
<1>11. ASSUME UNCHANGED vars PROVE UNCHANGED Service!vars
  BY <1>11, <1>a DEF vars
<1>12. Operations = Service!Operations
  BY DEF Operations, Service!Operations
<1> QED
  BY <1>1, <1>2, <1>3, <1>4, <1>5, <1>6, <1>7, <1>8, <1>9, <1>10, <1>11, <1>12
  DEF Next, Run, Service!Next

LEMMA StoreInit == Init => Service!Init
  BY PersistenceAssumption DEF Init, Service!Init

\* The persistence worker is an atomic key-value store: operations take effect once,
\* between call and answer, and one that failed never does.
THEOREM WorkerImplementsStore == Spec => ImplementsStore
<1>1. IInv /\ [Next]_vars => [Service!Next]_(Service!vars) BY StoreStep
<1> QED BY <1>1, StoreInit, IInvHolds, PTL DEF Spec, ImplementsStore, Service!Spec

-----------------------------------------------------------------------------
\* A caller that waits for a reply has its operation with the worker, in its hand or in the
\* mailbox, which is served or, behind Stop, dropped with its reply channels.
NobodyForgotten == \A c \in Clients : pc[c] = "waiting" => serving = c \/ Queued(c)

\* An operation stays in the mailbox while others are appended ...
LEMMA QueuedAppended ==
  ASSUME TypeOK, NEW e \in Clients \cup {StopOp}, mailbox' = Append(mailbox, e)
  PROVE  Queued(e)' /\ \A c : Queued(c) => Queued(c)'
<1>1. /\ Len(mailbox') = Len(mailbox) + 1 /\ Len(mailbox) \in Nat
      /\ \A i \in 1..Len(mailbox) : mailbox'[i] = mailbox[i]
      /\ mailbox'[Len(mailbox) + 1] = e
  BY AppendElements DEF TypeOK
<1> QED BY <1>1 DEF Queued

\* ... and until it is the first that is taken off.
LEMMA QueuedBehind ==
  ASSUME TypeOK, mailbox # <<>>, mailbox' = Tail(mailbox)
  PROVE  \A c : Queued(c) => c = Head(mailbox) \/ Queued(c)'
<1>1. /\ Head(mailbox) = mailbox[1] /\ Len(mailbox) \in Nat
      /\ Len(mailbox') = Len(mailbox) - 1
      /\ \A i \in 1..Len(mailbox') : mailbox'[i] = mailbox[i + 1]
  BY TailElements DEF TypeOK
<1>2. ASSUME NEW c, NEW i \in 1..Len(mailbox), mailbox[i] = c, c # Head(mailbox) PROVE Queued(c)'
  <2>1. i - 1 \in 1..Len(mailbox') /\ mailbox'[i - 1] = c
    BY <1>1, <1>2
  <2> QED BY <2>1 DEF Queued
<1> QED BY <1>2 DEF Queued

LEMMA ForgottenStep == ASSUME IInv, NobodyForgotten, Next PROVE NobodyForgotten'
<1> USE DEF NobodyForgotten, workerVars, clientVars
<1>1. TypeOK
  BY DEF IInv
<1>2. ASSUME NEW c \in Clients, SendFails(c) \/ Return(c) \/ \E o \in Operations : Begin(c, o)
      PROVE  NobodyForgotten'
  <2>1. \A d \in Clients : pc'[d] = "waiting" => pc[d] = "waiting"
    BY <1>1, <1>2 DEF SendFails, Return, Begin, TypeOK
  <2> QED BY <1>2, <2>1 DEF SendFails, Return, Begin, Queued
<1>3. ASSUME NEW c \in Clients, SendOp(c) PROVE NobodyForgotten'
  <2>1. \A d \in Clients : d # c => pc'[d] = pc[d]
    BY <1>1, <1>3 DEF SendOp, TypeOK
  <2>2. Queued(c)' /\ \A d : Queued(d) => Queued(d)'
    BY <1>1, <1>3, QueuedAppended DEF SendOp
  <2> QED BY <1>3, <2>1, <2>2 DEF SendOp
<1>4. CASE SendStop
  BY <1>1, <1>4, QueuedAppended DEF SendStop
<1>5. CASE ProcessOperation
  <2>1. serving = Nobody /\ serving' = Head(mailbox) /\ UNCHANGED pc
    BY <1>5 DEF ProcessOperation, Free
  <2>2. \A d : Queued(d) => d = Head(mailbox) \/ Queued(d)'
    BY <1>1, <1>5, QueuedBehind DEF ProcessOperation, Free
  <2> QED BY <2>1, <2>2, PersistenceAssumption
<1>6. CASE SendReply
  <2>1. serving \in Clients
    BY <1>1, <1>6 DEF TypeOK, SendReply
  <2>2. \A d \in Clients : pc'[d] = IF d = serving THEN "answered" ELSE pc[d]
    BY <1>1, <1>6, <2>1 DEF TypeOK, SendReply
  <2> QED BY <1>6, <2>2 DEF SendReply, Queued
<1>7. CASE HandleStop
  <2>1. \A d : Queued(d) => d = StopOp \/ Queued(d)'
    BY <1>1, <1>7, QueuedBehind DEF HandleStop, Free
  <2> QED BY <1>7, <2>1, PersistenceAssumption DEF HandleStop
<1>8. CASE CloseInbox
  BY <1>8 DEF CloseInbox, Queued
<1>9. CASE DropOp
  <2>1. Head(mailbox) \in Clients
    BY <1>9, DroppedWaits
  <2>2. \A d \in Clients : pc'[d] = IF d = Head(mailbox) THEN "answered" ELSE pc[d]
    BY <1>1, <1>9, <2>1 DEF TypeOK, DropOp
  <2>3. \A d : Queued(d) => d = Head(mailbox) \/ Queued(d)'
    BY <1>1, <1>9, QueuedBehind DEF DropOp
  <2> QED BY <1>9, <2>2, <2>3 DEF DropOp
<1> QED BY <1>2, <1>3, <1>4, <1>5, <1>6, <1>7, <1>8, <1>9 DEF Next, Run

\* No caller waits for a reply that nobody will send, before Stop, behind it, or when it
\* sends to a worker that is about to close its mailbox.
THEOREM CallersNeverForgotten == Spec => []NobodyForgotten
<1>1. Init => NobodyForgotten
  BY DEF Init, NobodyForgotten
<1>2. IInv /\ NobodyForgotten /\ [Next]_vars => NobodyForgotten'
  <2>1. NobodyForgotten /\ UNCHANGED vars => NobodyForgotten'
    BY DEF NobodyForgotten, Queued, vars
  <2> QED BY <2>1, ForgottenStep
<1> QED BY <1>1, <1>2, IInvHolds, PTL DEF Spec

=============================================================================
