-------------------------- MODULE WsSessionProofs --------------------------
(***************************************************************************)
(* Theorems about WsSession: types, and that responses reach the client in *)
(* the order in which they were accepted, none skipped, whatever ends the  *)
(* session.                                                                *)
(***************************************************************************)
EXTENDS WsSession, SequenceTheorems, TLAPS

Signals == Responses \cup {Stop}

\* The reader has a message in hand while it works on it, and a response while it answers. A
\* task has the number of a message that was read, and of none whose request is under way.
Tasks == backlog \cup taken
ReaderInv ==
  /\ task # "none" => reader = "awaiting"
  /\ reader \in {"sending", "awaiting"} => received \in Numbers
  /\ reader \in {"answering", "parting"} => reply # Nothing
  /\ \A n \in Tasks : n <= received
  /\ reader = "sending" \/ task \in {"mailed", "received"} => received \notin Tasks

\* \o without what the provers know of it.
Cat(s, t) == s \o t

\* The two tasks that carry responses: what each has in hand, and that what the client has
\* got and the writer will take next is the beginning of what was accepted.
Begins(s, t) == \E rest \in Seq(Signals) : t = Cat(s, rest)
CarrierInv ==
  /\ forwarder = "ended" => carrying = Nothing
  /\ writer = "ended" => writing = Nothing
  /\ client # "gone" /\ writer # "ended" =>
       Begins(Cat(Cat(delivered, InHand(writing)), writes), accepted)
  /\ Begins(delivered, accepted)

\* NothingLost in the same terms.
Between == Cat(Cat(Cat(InHand(writing), writes), InHand(carrying)), responses)
Lossless ==
  client # "gone" /\ forwarder = "running" /\ writer # "ended" =>
    accepted = Cat(delivered, Between)

OrderInv == CarrierInv /\ Lossless
IInv == TypeOK /\ ReaderInv /\ OrderInv

-----------------------------------------------------------------------------
(***************************************************************************)
(* Sequences of signals.                                                   *)
(***************************************************************************)
\* The laws of concatenation.
LEMMA Laws ==
  /\ \A s, t \in Seq(Signals) : Cat(s, t) \in Seq(Signals)
  /\ \A s, t, u \in Seq(Signals) : Cat(Cat(s, t), u) = Cat(s, Cat(t, u))
  /\ \A s \in Seq(Signals) : Cat(s, <<>>) = s /\ Cat(<<>>, s) = s
  /\ <<>> \in Seq(Signals)
<1>1. ASSUME NEW s \in Seq(Signals), NEW t \in Seq(Signals) PROVE Cat(s, t) \in Seq(Signals)
  BY DEF Cat
<1>2. ASSUME NEW s \in Seq(Signals), NEW t \in Seq(Signals), NEW u \in Seq(Signals)
      PROVE  Cat(Cat(s, t), u) = Cat(s, Cat(t, u))
  BY DEF Cat
<1>3. ASSUME NEW s \in Seq(Signals) PROVE Cat(s, <<>>) = s /\ Cat(<<>>, s) = s
  BY DEF Cat
<1> QED BY <1>1, <1>2, <1>3

\* Append adds a sequence of one.
LEMMA AppendIsCat ==
  ASSUME NEW s \in Seq(Signals), NEW e \in Signals
  PROVE  <<e>> \in Seq(Signals) /\ Append(s, e) \in Seq(Signals) /\ Append(s, e) = Cat(s, <<e>>)
<1>1. <<e>> \in Seq(Signals) /\ Append(s, e) \in Seq(Signals)
  OBVIOUS
<1>2. Append(s, e) = s \o <<e>>
  OBVIOUS
<1> QED BY <1>1, <1>2 DEF Cat

\* What begins a sequence begins it still when it has grown.
LEMMA BeginsGrown ==
  ASSUME NEW s \in Seq(Signals), NEW t \in Seq(Signals), NEW e \in Signals, Begins(s, t)
  PROVE  Begins(s, Append(t, e))
<1> DEFINE one == <<e>>
<1>1. PICK rest \in Seq(Signals) : t = Cat(s, rest)
  BY DEF Begins
<1>2. one \in Seq(Signals) /\ Append(t, e) = Cat(t, one)
  BY AppendIsCat
<1> HIDE DEF one
<1>3. Cat(rest, one) \in Seq(Signals) /\ Cat(t, one) = Cat(s, Cat(rest, one))
  BY <1>1, <1>2, Laws
<1> QED BY <1>2, <1>3 DEF Begins

\* The first part of what begins a sequence begins it.
LEMMA BeginsLess ==
  ASSUME NEW s \in Seq(Signals), NEW u \in Seq(Signals), NEW t, Begins(Cat(s, u), t)
  PROVE  Begins(s, t)
<1>1. PICK rest \in Seq(Signals) : t = Cat(Cat(s, u), rest)
  BY DEF Begins
<1>2. Cat(u, rest) \in Seq(Signals) /\ t = Cat(s, Cat(u, rest))
  BY <1>1, Laws
<1> QED BY <1>2 DEF Begins

\* IsPrefix says the same by subsequences.
LEMMA BeginsIsPrefix ==
  ASSUME NEW s \in Seq(Signals), NEW t \in Seq(Signals), Begins(s, t)
  PROVE  IsPrefix(s, t)
<1>1. PICK rest \in Seq(Signals) : t = s \o rest
  BY DEF Begins, Cat
<1>2. Len(s) \in Nat /\ Len(rest) \in Nat /\ Len(t) = Len(s) + Len(rest)
  BY <1>1, ConcatProperties
<1>3. SubSeq(t, 1, Len(s)) = s
  BY <1>1, <1>2
<1>4. SubSeq(s, 1, Len(s)) = s
  BY <1>2
<1> QED BY <1>2, <1>3, <1>4 DEF IsPrefix

\* What is in a task's hand is nothing, or one signal.
LEMMA InHandSeq ==
  ASSUME NEW r \in Signals \cup {Nothing}
  PROVE  InHand(r) \in Seq(Signals)
BY DEF InHand

\* A signal enters the response channel. In this lemma and the next four a signal moves
\* along the way to the client: a is in the writer's hand, b in the write channel, c in the
\* forwarder's hand, d in the response channel; u is what is ahead of it, p is delivered.
LEMMA MoveIn ==
  ASSUME NEW p \in Seq(Signals), NEW u \in Seq(Signals), NEW d \in Seq(Signals),
         NEW e \in Signals
  PROVE  Append(Cat(p, Cat(u, d)), e) = Cat(p, Cat(u, Append(d, e)))
<1> DEFINE one == <<e>>
<1>1. Cat(u, d) \in Seq(Signals) /\ Cat(p, Cat(u, d)) \in Seq(Signals)
  BY Laws
<1>2. one \in Seq(Signals) /\ Append(d, e) = Cat(d, one)
  BY AppendIsCat
<1>3. Append(Cat(p, Cat(u, d)), e) = Cat(Cat(p, Cat(u, d)), one)
  BY <1>1, AppendIsCat
<1> HIDE DEF one
<1>4. Cat(Cat(p, Cat(u, d)), one) = Cat(p, Cat(u, Cat(d, one)))
  BY <1>1, <1>2, Laws
<1> QED BY <1>2, <1>3, <1>4

\* The forwarder takes it.
LEMMA MoveForward ==
  ASSUME NEW u \in Seq(Signals), NEW d \in Seq(Signals), d # <<>>
  PROVE  Cat(Cat(u, <<>>), d) = Cat(Cat(u, <<Head(d)>>), Tail(d))
<1> DEFINE one == <<Head(d)>>
           rest == Tail(d)
<1>1. rest \in Seq(Signals) /\ one \in Seq(Signals) /\ d = Cat(one, rest)
  BY HeadTailProperties, ConcatProperties DEF Cat
<1> HIDE DEF one, rest
<1>2. Cat(Cat(u, <<>>), d) = Cat(Cat(u, one), rest)
  BY <1>1, Laws
<1> QED BY <1>2 DEF one, rest

\* The forwarder passes it on.
LEMMA MovePassOn ==
  ASSUME NEW a \in Seq(Signals), NEW b \in Seq(Signals), NEW d \in Seq(Signals),
         NEW e \in Signals
  PROVE  Cat(Cat(Cat(a, b), <<e>>), d) = Cat(Cat(Cat(a, Append(b, e)), <<>>), d)
<1> DEFINE one == <<e>>
<1>1. one \in Seq(Signals) /\ Append(b, e) = Cat(b, one)
  BY AppendIsCat
<1> HIDE DEF one
<1>2. Cat(b, one) \in Seq(Signals) /\ Cat(a, Cat(b, one)) \in Seq(Signals)
  BY <1>1, Laws
<1>3. Cat(Cat(a, b), one) = Cat(Cat(a, Cat(b, one)), <<>>)
  BY <1>1, <1>2, Laws
<1> QED BY <1>1, <1>3 DEF one

\* The writer takes it.
LEMMA MoveTaken ==
  ASSUME NEW b \in Seq(Signals), b # <<>>
  PROVE  /\ Head(b) \in Signals /\ Tail(b) \in Seq(Signals)
         /\ Cat(<<>>, b) = Cat(<<Head(b)>>, Tail(b))
<1>1. Head(b) \in Signals /\ Tail(b) \in Seq(Signals) /\ b = Cat(<<Head(b)>>, Tail(b))
  BY HeadTailProperties, ConcatProperties DEF Cat
<1>2. Cat(<<>>, b) = b
  BY Laws
<1> QED BY <1>1, <1>2

\* The client gets it.
LEMMA MoveOut ==
  ASSUME NEW p \in Seq(Signals), NEW b \in Seq(Signals), NEW c \in Seq(Signals),
         NEW d \in Seq(Signals), NEW e \in Signals
  PROVE  Cat(p, Cat(Cat(Cat(<<e>>, b), c), d)) = Cat(Append(p, e), Cat(Cat(Cat(<<>>, b), c), d))
<1> DEFINE one == <<e>>
<1>1. one \in Seq(Signals) /\ Append(p, e) = Cat(p, one)
  BY AppendIsCat
<1> HIDE DEF one
<1>2. /\ Cat(<<>>, b) = b
      /\ Cat(b, c) \in Seq(Signals) /\ Cat(Cat(b, c), d) \in Seq(Signals)
  BY Laws
<1>3. Cat(Cat(Cat(one, b), c), d) = Cat(one, Cat(Cat(b, c), d))
  BY <1>1, <1>2, Laws
<1>4. Cat(p, Cat(one, Cat(Cat(b, c), d))) = Cat(Cat(p, one), Cat(Cat(b, c), d))
  BY <1>1, <1>2, Laws
<1> QED BY <1>1, <1>2, <1>3, <1>4 DEF one

-----------------------------------------------------------------------------
(***************************************************************************)
(* The invariant: what a step that leaves the signals where they are keeps,*)
(* and then one step per move.                                             *)
(***************************************************************************)
Quiet ==
  /\ UNCHANGED <<responses, forwarderVars, writes, writing, delivered, accepted>>
  /\ writer' = "ended" <=> writer = "ended"
  /\ client' # "gone" => client # "gone"

\* A quiet step keeps every statement about where the signals are.
LEMMA QuietStep == ASSUME OrderInv, Quiet PROVE OrderInv'
BY DEF OrderInv, Quiet, CarrierInv, Lossless, Between, InHand, forwarderVars

\* A step of the reader, of the dispatcher or of the client is quiet, unless it queues.
LEMMA QuietActions ==
  ASSUME \/ ReadMessage \/ SendTask \/ TaskAnswered \/ ReadEnds
         \/ AbortWriter \/ RemoveInventory \/ ReceiveRequest \/ HandleTaskRequest
         \/ \E n \in Numbers : TakeTask(n) \/ TaskLost(n)
         \/ DispatcherStops \/ DispatcherEnds
         \/ ClientStalls \/ ClientLeaves \/ Terminated
  PROVE  Quiet
<1> USE DEF Quiet, forwarderVars, writerVars, readerVars
<1>1. CASE ReadMessage
  BY <1>1 DEF ReadMessage, ReadRequest, ReadGarbage, ReadOther, ReadFails
<1>2. CASE SendTask \/ TaskAnswered \/ ReadEnds
  BY <1>2 DEF SendTask, TaskAnswered, ReadEnds
<1>3. CASE AbortWriter \/ RemoveInventory
  BY <1>3 DEF AbortWriter, RemoveInventory
<1>4. CASE \/ ReceiveRequest \/ HandleTaskRequest \/ DispatcherStops \/ DispatcherEnds
           \/ \E n \in Numbers : TakeTask(n) \/ TaskLost(n)
  BY <1>4 DEF ReceiveRequest, HandleTaskRequest, DispatcherStops, DispatcherEnds, TakeTask, TaskLost
<1>5. CASE ClientStalls \/ ClientLeaves \/ Terminated
  BY <1>5 DEF ClientStalls, ClientLeaves, Terminated, vars
<1> QED BY <1>1, <1>2, <1>3, <1>4, <1>5

\* The parts of the way are sequences of signals.
LEMMA WayTypes ==
  ASSUME TypeOK
  PROVE  /\ InHand(writing) \in Seq(Signals) /\ InHand(carrying) \in Seq(Signals)
         /\ responses \in Seq(Signals) /\ writes \in Seq(Signals)
         /\ delivered \in Seq(Signals) /\ accepted \in Seq(Signals)
<1>1. InHand(writing) \in Seq(Signals) /\ InHand(carrying) \in Seq(Signals)
  BY InHandSeq DEF TypeOK, Signals
<1>2. responses \in Seq(Signals) /\ writes \in Seq(Signals) /\ accepted \in Seq(Signals)
  BY DEF TypeOK, Signals
<1>3. delivered \in Seq(Signals)
  BY SeqMonotonic, Responses \subseteq Signals DEF TypeOK, Signals
<1> QED BY <1>1, <1>2, <1>3

\* A signal enters the response channel.
LEMMA EnqueueStep ==
  ASSUME TypeOK, OrderInv, NEW e \in Signals, Enqueue(e),
         UNCHANGED <<client, forwarderVars, writes, writerVars>>
  PROVE  OrderInv'
<1> DEFINE ready == Cat(Cat(delivered, InHand(writing)), writes)
           ahead == Cat(Cat(InHand(writing), writes), InHand(carrying))
<1>1. /\ ready \in Seq(Signals) /\ ahead \in Seq(Signals)
      /\ responses \in Seq(Signals) /\ delivered \in Seq(Signals) /\ accepted \in Seq(Signals)
  BY WayTypes, Laws
<1>2. ready' = ready /\ ahead' = ahead
      /\ UNCHANGED <<client, forwarder, carrying, writer, writing, delivered>>
  BY DEF forwarderVars, writerVars, InHand
<1>3. /\ OrderInv <=> /\ forwarder = "ended" => carrying = Nothing
                      /\ writer = "ended" => writing = Nothing
                      /\ client # "gone" /\ writer # "ended" => Begins(ready, accepted)
                      /\ Begins(delivered, accepted)
                      /\ client # "gone" /\ forwarder = "running" /\ writer # "ended" =>
                           accepted = Cat(delivered, Cat(ahead, responses))
      /\ OrderInv' <=> /\ forwarder' = "ended" => carrying' = Nothing
                       /\ writer' = "ended" => writing' = Nothing
                       /\ client' # "gone" /\ writer' # "ended" => Begins(ready', accepted')
                       /\ Begins(delivered', accepted')
                       /\ client' # "gone" /\ forwarder' = "running" /\ writer' # "ended" =>
                            accepted' = Cat(delivered', Cat(ahead', responses'))
  BY DEF OrderInv, CarrierInv, Lossless, Between
<1> HIDE DEF ready, ahead
<1>4. CASE forwarder = "ended"
  BY <1>2, <1>3, <1>4 DEF Enqueue
<1>5. CASE /\ forwarder = "running" /\ accepted' = Append(accepted, e)
           /\ responses' = Append(responses, e)
  <2>1. ASSUME NEW s \in Seq(Signals), Begins(s, accepted) PROVE Begins(s, accepted')
    BY <1>1, <1>5, <2>1, BeginsGrown
  <2>2. Append(Cat(delivered, Cat(ahead, responses)), e)
          = Cat(delivered, Cat(ahead, Append(responses, e)))
    BY <1>1, MoveIn
  <2> QED BY <1>1, <1>2, <1>3, <1>5, <2>1, <2>2
<1> QED BY <1>4, <1>5 DEF Enqueue

\* The forwarder takes one from the response channel.
LEMMA ForwardStep == ASSUME TypeOK, OrderInv, Forward PROVE OrderInv'
<1>1. /\ UNCHANGED <<client, forwarder, writes, writer, writing, delivered, accepted>>
      /\ forwarder = "running" /\ responses # <<>> /\ responses' = Tail(responses)
      /\ InHand(carrying) = <<>> /\ InHand(writing)' = InHand(writing)
  BY DEF Forward, forwarderVars, writerVars, InHand
<1>2. InHand(carrying)' = <<Head(responses)>>
  <2>1. Head(responses) \in Signals
    BY <1>1, WayTypes, HeadTailProperties
  <2> QED BY <2>1, WsSessionAssumption DEF Forward, InHand, Signals
<1>3. CarrierInv'
  BY <1>1 DEF OrderInv, CarrierInv
<1>4. Between' = Between
  <2> DEFINE ahead == Cat(InHand(writing), writes)
  <2>1. ahead \in Seq(Signals) /\ responses \in Seq(Signals)
    BY WayTypes, Laws
  <2>2. Between = Cat(Cat(ahead, <<>>), responses)
        /\ Between' = Cat(Cat(ahead, <<Head(responses)>>), Tail(responses))
    BY <1>1, <1>2 DEF Between
  <2> HIDE DEF ahead
  <2> QED BY <1>1, <2>1, <2>2, MoveForward
<1> QED BY <1>1, <1>3, <1>4 DEF OrderInv, Lossless

\* The forwarder passes on what it carries, or Stop, or fails to.
LEMMA PassOnStep == ASSUME TypeOK, OrderInv, PassOn PROVE OrderInv'
<1> DEFINE a == InHand(writing)
           b == Append(writes, carrying)
<1>1. /\ carrying \in Signals /\ forwarder = "running"
      /\ InHand(carrying) = <<carrying>> /\ InHand(carrying)' = <<>> /\ a' = a
      /\ UNCHANGED <<client, writer, writing, delivered, accepted>> /\ carrying' = Nothing
      /\ writer # "ended" => writes' = b
      /\ forwarder' = "running" => responses' = responses
  BY DEF PassOn, TypeOK, Signals, OrderInv, CarrierInv, InHand, writerVars
<1>2. ASSUME client # "gone", writer # "ended"
      PROVE  /\ accepted = Cat(delivered, Cat(Cat(Cat(a, b), <<>>), responses))
             /\ Begins(Cat(Cat(delivered, a), b), accepted)
  <2>1. /\ a \in Seq(Signals) /\ b \in Seq(Signals) /\ responses \in Seq(Signals)
        /\ delivered \in Seq(Signals) /\ writes \in Seq(Signals)
    BY <1>1, WayTypes, AppendIsCat
  <2>2. accepted = Cat(delivered, Cat(Cat(Cat(a, writes), <<carrying>>), responses))
    BY <1>1, <1>2 DEF OrderInv, Lossless, Between
  <2> HIDE DEF a
  <2>3. accepted = Cat(delivered, Cat(Cat(Cat(a, b), <<>>), responses))
    BY <1>1, <2>1, <2>2, MovePassOn
  <2> HIDE DEF b
  <2>4. Cat(a, b) \in Seq(Signals) /\ Cat(Cat(a, b), <<>>) = Cat(a, b)
    BY <2>1, Laws
  <2>5. accepted = Cat(Cat(Cat(delivered, a), b), responses)
    BY <2>1, <2>3, <2>4, Laws
  <2> QED BY <2>1, <2>3, <2>5 DEF Begins
<1>3. CarrierInv'
  BY <1>1, <1>2 DEF OrderInv, CarrierInv
<1>4. Lossless'
  BY <1>1, <1>2 DEF Lossless, Between
<1> QED BY <1>3, <1>4 DEF OrderInv

\* The writer takes one from the write channel, or Stop, after which nothing moves.
LEMMA TakeWriteStep == ASSUME TypeOK, OrderInv, TakeWrite PROVE OrderInv'
<1>1. CASE Head(writes) = Stop
  BY <1>1 DEF TakeWrite, OrderInv, CarrierInv, Lossless, forwarderVars
<1>2. CASE Head(writes) # Stop
  <2>1. /\ UNCHANGED <<client, responses, forwarder, carrying, writer, delivered, accepted>>
        /\ writer # "ended" /\ writes # <<>> /\ writes' = Tail(writes)
        /\ writing = Nothing /\ writing' = Head(writes)
    BY <1>2 DEF TakeWrite, forwarderVars
  <2>2. /\ Head(writes) \in Signals /\ Tail(writes) \in Seq(Signals)
        /\ Cat(<<>>, writes) = Cat(<<Head(writes)>>, Tail(writes))
    BY <2>1, WayTypes, MoveTaken
  <2>3. InHand(writing) = <<>> /\ InHand(writing)' = <<Head(writes)>>
        /\ InHand(carrying)' = InHand(carrying)
    BY <2>1, <2>2, WsSessionAssumption DEF InHand, Signals
  <2>4. Cat(Cat(delivered, <<>>), writes) = Cat(Cat(delivered, <<Head(writes)>>), Tail(writes))
    BY <2>1, WayTypes, MoveForward
  <2>5. CarrierInv'
    BY <2>1, <2>3, <2>4 DEF OrderInv, CarrierInv
  <2>6. Lossless'
    BY <2>1, <2>2, <2>3 DEF OrderInv, Lossless, Between
  <2> QED BY <2>5, <2>6 DEF OrderInv
<1> QED BY <1>1, <1>2

\* The writer writes to a client that reads, or learns that it is gone.
LEMMA WriteStep == ASSUME TypeOK, OrderInv, Write PROVE OrderInv'
<1>1. CASE client # "reading"
  BY <1>1 DEF Write, OrderInv, CarrierInv, Lossless, TypeOK, forwarderVars
<1>2. CASE client = "reading"
  <2>1. /\ writing \in Signals /\ writer # "ended" /\ writing' = Nothing
        /\ UNCHANGED <<client, responses, forwarder, carrying, writes, writer, accepted>>
        /\ delivered' = Append(delivered, writing)
        /\ InHand(writing) = <<writing>> /\ InHand(writing)' = <<>>
        /\ InHand(carrying)' = InHand(carrying)
    BY <1>2 DEF Write, TypeOK, Signals, OrderInv, CarrierInv, InHand, forwarderVars
  <2>2. /\ delivered \in Seq(Signals) /\ <<writing>> \in Seq(Signals) /\ writes \in Seq(Signals)
        /\ InHand(carrying) \in Seq(Signals) /\ responses \in Seq(Signals)
        /\ delivered' \in Seq(Signals) /\ delivered' = Cat(delivered, <<writing>>)
    BY <2>1, WayTypes, AppendIsCat
  <2>3. Begins(Cat(delivered', writes), accepted)
    BY <1>2, <2>1, <2>2 DEF OrderInv, CarrierInv
  <2>4. Begins(delivered', accepted)
    BY <2>2, <2>3, BeginsLess
  <2>5. Cat(delivered', <<>>) = delivered'
    BY <2>2, Laws
  <2>6. CarrierInv'
    BY <2>1, <2>3, <2>4, <2>5 DEF OrderInv, CarrierInv
  <2>7. Cat(delivered, Between) = Cat(delivered', Between')
    <3> DEFINE e == writing
               c == InHand(carrying)
    <3>1. /\ e \in Signals /\ c \in Seq(Signals)
          /\ Between = Cat(Cat(Cat(<<e>>, writes), c), responses)
          /\ Between' = Cat(Cat(Cat(<<>>, writes), c), responses)
      BY <2>1, <2>2 DEF Between
    <3>2. delivered' = Append(delivered, e)
      BY <2>1
    <3> HIDE DEF e, c
    <3>3. Cat(delivered, Cat(Cat(Cat(<<e>>, writes), c), responses))
            = Cat(Append(delivered, e), Cat(Cat(Cat(<<>>, writes), c), responses))
      BY <2>2, <3>1, MoveOut
    <3> QED BY <3>1, <3>2, <3>3
  <2>8. Lossless'
    BY <1>2, <2>1, <2>7 DEF OrderInv, Lossless
  <2> QED BY <2>6, <2>8 DEF OrderInv
<1> QED BY <1>1, <1>2

\* The abort reaches the writer: nothing moves any more.
LEMMA CancelStep == ASSUME OrderInv, Cancel PROVE OrderInv'
BY DEF OrderInv, CarrierInv, Lossless, Cancel, forwarderVars

\* Whatever step: the actions that queue, and the others above.
LEMMA OrderStep == ASSUME TypeOK, ReaderInv, OrderInv, Next PROVE OrderInv'
<1>1. CASE Answer
  <2>1. reply \in Signals /\ UNCHANGED <<client, forwarderVars, writes, writerVars>>
        /\ Enqueue(reply)
    BY <1>1 DEF Answer, TypeOK, ReaderInv, Signals
  <2> QED BY <2>1, EnqueueStep
<1>2. CASE SendStop
  <2>1. Stop \in Signals /\ UNCHANGED <<client, forwarderVars, writes, writerVars>>
        /\ Enqueue(Stop)
    BY <1>2 DEF SendStop, Signals
  <2> QED BY <2>1, EnqueueStep
<1>3. ASSUME NEW n \in Numbers, WorkerResponds(n) PROVE OrderInv'
  <2>1. Response("finished", n) \in Signals /\ Enqueue(Response("finished", n))
        /\ UNCHANGED <<client, forwarderVars, writes, writerVars>>
    BY <1>3 DEF WorkerResponds, Signals, Responses, Response
  <2> QED BY <2>1, EnqueueStep
<1>4. CASE Forward
  BY <1>4, ForwardStep
<1>5. CASE PassOn
  BY <1>5, PassOnStep
<1>6. CASE TakeWrite
  BY <1>6, TakeWriteStep
<1>7. CASE Write
  BY <1>7, WriteStep
<1>8. CASE Cancel
  BY <1>8, CancelStep
<1>9. CASE Quiet
  BY <1>9, QuietStep
<1> QED
  BY <1>1, <1>2, <1>3, <1>4, <1>5, <1>6, <1>7, <1>8, <1>9, QuietActions
  DEF Next, Respond, Finish

\* A channel with room for e takes it; a channel that holds something gives its head.
LEMMA Room ==
  ASSUME NEW q \in Seq(Signals), Len(q) <= Capacity
  PROVE  /\ \A e \in Signals : Len(q) < Capacity =>
              Append(q, e) \in Seq(Signals) /\ Len(Append(q, e)) <= Capacity
         /\ q # <<>> => /\ Head(q) \in Signals
                        /\ Tail(q) \in Seq(Signals) /\ Len(Tail(q)) <= Capacity
<1>1. Len(q) \in Nat /\ Capacity \in Nat
  BY WsSessionAssumption
<1>2. \A e \in Signals : Append(q, e) \in Seq(Signals) /\ Len(Append(q, e)) = Len(q) + 1
  OBVIOUS
<1>3. q # <<>> => Head(q) \in Signals /\ Tail(q) \in Seq(Signals) /\ Len(Tail(q)) = Len(q) - 1
  BY HeadTailProperties
<1> QED BY <1>1, <1>2, <1>3

\* Both channels after one entered the first.
LEMMA EnqueueTypes ==
  ASSUME TypeOK, NEW e \in Signals, Enqueue(e)
  PROVE  /\ responses' \in Seq(Signals) /\ Len(responses') <= Capacity
         /\ accepted' \in Seq(Signals)
<1>1. responses \in Seq(Signals) /\ Len(responses) <= Capacity /\ accepted \in Seq(Signals)
  BY DEF TypeOK, Signals
<1>2. Append(accepted, e) \in Seq(Signals)
  BY <1>1
<1> QED BY <1>1, <1>2, Room DEF Enqueue

\* Types: the reader has what it works on.
LEMMA TypeStep == ASSUME TypeOK, ReaderInv, Next PROVE TypeOK' /\ ReaderInv'
<1> USE WsSessionAssumption
    DEF TypeOK, ReaderInv, Tasks, readerVars, taskVars, forwarderVars, writerVars, ReaderStates, Active
<1>1. CASE ReadMessage
  <2>1. received' \in Numbers /\ Response("error", received + 1) \in Responses
        /\ received' = received + 1
    BY <1>1 DEF ReadMessage, ReadRequest, ReadGarbage, ReadOther, ReadFails, Numbers, Responses,
       Response
  <2>2. received' \in 0..MaxMessages
    BY <2>1 DEF Numbers
  <2>3. \A n \in Tasks : n <= received' /\ n # received'
    BY <2>1, <2>2 DEF Numbers
  <2> QED
    BY <1>1, <2>1, <2>2, <2>3 DEF ReadMessage, ReadRequest, ReadGarbage, ReadOther, ReadFails
<1>2. CASE SendTask
  BY <1>2 DEF SendTask, Numbers, Responses, Response
<1>3. CASE TaskAnswered
  BY <1>3 DEF TaskAnswered, Numbers, Responses, Response
<1>4. CASE ReadEnds \/ AbortWriter \/ RemoveInventory
  BY <1>4 DEF ReadEnds, AbortWriter, RemoveInventory
<1>5. CASE ReceiveRequest
  BY <1>5 DEF ReceiveRequest
<1>5a. CASE HandleTaskRequest
  <2>1. received \in Numbers /\ received <= received /\ received \notin Tasks
    BY <1>5a DEF HandleTaskRequest, Numbers
  <2>2. /\ task' = "queued" /\ backlog' = backlog \cup {received}
        /\ UNCHANGED <<reader, reply, received, taken>>
    BY <1>5a DEF HandleTaskRequest
  <2>3. Tasks' = Tasks \cup {received} /\ reader = "awaiting"
    BY <1>5a, <2>2 DEF HandleTaskRequest
  <2>4. \A n \in Tasks' : n <= received'
    BY <2>1, <2>2, <2>3
  <2>5. backlog' \subseteq Numbers /\ backlog' \cap taken' = {}
    BY <2>1, <2>2
  <2>6. ReaderInv'
    BY <2>1, <2>2, <2>3, <2>4
  <2> QED BY <1>5a, <2>2, <2>5, <2>6 DEF HandleTaskRequest
<1>6. CASE Answer
  <2>1. reply \in Signals /\ Enqueue(reply)
    BY <1>6 DEF Answer, Signals
  <2>2. /\ responses' \in Seq(Signals) /\ Len(responses') <= Capacity
        /\ accepted' \in Seq(Signals)
    BY <2>1, EnqueueTypes
  <2> QED BY <1>6, <2>2 DEF Answer, Signals
<1>7. CASE SendStop
  <2>1. Stop \in Signals /\ Enqueue(Stop)
    BY <1>7 DEF SendStop, Signals
  <2>2. /\ responses' \in Seq(Signals) /\ Len(responses') <= Capacity
        /\ accepted' \in Seq(Signals)
    BY <2>1, EnqueueTypes
  <2> QED BY <1>7, <2>2 DEF SendStop, Signals
<1>8. ASSUME NEW n \in Numbers, WorkerResponds(n) PROVE TypeOK' /\ ReaderInv'
  <2>1. Response("finished", n) \in Signals /\ Enqueue(Response("finished", n))
    BY <1>8 DEF WorkerResponds, Responses, Response, Signals
  <2>2. /\ responses' \in Seq(Signals) /\ Len(responses') <= Capacity
        /\ accepted' \in Seq(Signals)
    BY <2>1, EnqueueTypes
  <2> QED BY <1>8, <2>2 DEF WorkerResponds, Signals
<1>9. ASSUME NEW n \in Numbers, TakeTask(n) \/ TaskLost(n) PROVE TypeOK' /\ ReaderInv'
  BY <1>9 DEF TakeTask, TaskLost
<1>10. CASE Forward
  <2>1. /\ Head(responses) \in Signals
        /\ Tail(responses) \in Seq(Signals) /\ Len(Tail(responses)) <= Capacity
    BY <1>10, Room DEF Forward, Signals
  <2> QED BY <1>10, <2>1 DEF Forward, Signals
<1>11. CASE PassOn
  <2>1. writes' \in Seq(Signals) /\ Len(writes') <= Capacity
    BY <1>11, Room DEF PassOn, Signals
  <2>2. <<>> \in Seq(Signals) /\ Len(<<>>) <= Capacity
    OBVIOUS
  <2>3. forwarder' \in {"running", "ended"} /\ (responses' = responses \/ responses' = <<>>)
    BY <1>11 DEF PassOn
  <2>4. responses' \in Seq(Signals) /\ Len(responses') <= Capacity
    BY <2>2, <2>3 DEF Signals
  <2> QED BY <1>11, <2>1, <2>3, <2>4 DEF PassOn, Signals
<1>12. CASE TakeWrite
  <2>1. /\ Head(writes) \in Signals
        /\ Tail(writes) \in Seq(Signals) /\ Len(Tail(writes)) <= Capacity
    BY <1>12, Room DEF TakeWrite, Signals
  <2> QED BY <1>12, <2>1 DEF TakeWrite, Signals
<1>13. CASE Write
  <2>1. Append(delivered, writing) \in Seq(Responses)
    BY <1>13 DEF Write
  <2>2. delivered' \in Seq(Responses)
    BY <1>13, <2>1 DEF Write
  <2>3. writer' \in {"running", "aborted", "ended"}
    BY <1>13 DEF Write
  <2> QED BY <1>13, <2>2, <2>3 DEF Write
<1>14. CASE Cancel \/ ClientStalls \/ ClientLeaves \/ Terminated
  BY <1>14 DEF Cancel, ClientStalls, ClientLeaves, Terminated, vars
<1>15. CASE DispatcherStops \/ DispatcherEnds
  BY <1>15 DEF DispatcherStops, DispatcherEnds
<1> QED
  BY <1>1, <1>2, <1>3, <1>4, <1>5, <1>6, <1>7, <1>8, <1>9, <1>10, <1>11, <1>12, <1>13, <1>14,
     <1>15, <1>5a
  DEF Next, Respond, Finish

\* A session begins with nothing under way.
LEMMA InitHolds == ASSUME Init PROVE IInv
<1> USE WsSessionAssumption DEF Init
<1>1. TypeOK /\ ReaderInv
  BY DEF TypeOK, ReaderInv, Tasks, ReaderStates, Active
<1>2. Cat(<<>>, <<>>) = <<>> /\ <<>> \in Seq(Signals)
  BY Laws
<1>3. Begins(<<>>, <<>>)
  BY <1>2 DEF Begins
<1>4. OrderInv
  BY <1>2, <1>3 DEF OrderInv, CarrierInv, Lossless, Between, InHand
<1> QED BY <1>1, <1>4 DEF IInv

\* The invariant holds in every reachable state.
LEMMA Invariant == Spec => []IInv
<1>1. Init => IInv
  BY InitHolds
<1>2. IInv /\ [Next]_vars => IInv'
  <2>1. IInv /\ Next => IInv'
    BY TypeStep, OrderStep DEF IInv
  <2>2. IInv /\ UNCHANGED vars => IInv'
    <3> SUFFICES ASSUME IInv, UNCHANGED vars PROVE IInv'
      OBVIOUS
    <3>1. OrderInv'
      BY QuietStep DEF IInv, Quiet, vars, writerVars
    <3>2. TypeOK' /\ ReaderInv'
      BY DEF IInv, TypeOK, ReaderInv, Tasks, vars, readerVars, taskVars, forwarderVars, writerVars
    <3> QED BY <3>1, <3>2 DEF IInv
  <2> QED BY <2>1, <2>2
<1> QED BY <1>1, <1>2, PTL DEF Spec

-----------------------------------------------------------------------------
\* Every variable of the session keeps to its values, and no channel holds more than it has
\* room for, however many messages and whatever room there is.
THEOREM SessionTypes == Spec => []TypeOK
<1>1. IInv => TypeOK
  BY DEF IInv
<1> QED BY <1>1, Invariant, PTL

\* As long as both response tasks of spawn_response_handler run and the client is there,
\* every response is where it should be on its way: none lost, repeated or overtaken.
THEOREM SessionLosesNothing == Spec => []NothingLost
<1>1. IInv => NothingLost
  BY DEF IInv, OrderInv, Lossless, NothingLost, Between, Underway, Cat
<1> QED BY <1>1, Invariant, PTL

\* Whatever ends the session, what the client has got is the beginning of what the response
\* channel accepted.
THEOREM SessionInOrder == Spec => []DeliveredInOrder
<1>1. IInv => DeliveredInOrder
  BY WayTypes, BeginsIsPrefix DEF IInv, OrderInv, CarrierInv, DeliveredInOrder
<1> QED BY <1>1, Invariant, PTL

-----------------------------------------------------------------------------
(***************************************************************************)
(* Nobody waits in vain: what the end of a session needs besides fairness. *)
(***************************************************************************)
\* The forwarder will meet Stop.
StopAhead == carrying = Stop \/ \E n \in DOMAIN responses : responses[n] = Stop

\* The reader awaits a request that somebody has, or that was dropped. Once the reader is over,
\* the writer is to be cancelled, or was, and the forwarder has Stop before it.
WaitInv ==
  /\ reader = "awaiting" <=> task # "none"
  /\ task = "mailed" => dispatcher # "gone"
  /\ reader \in {"stopping", "removing", "gone"} => writer # "running"
  /\ reader \in {"removing", "gone"} /\ forwarder = "running" => StopAhead

\* A response that enters the channel leaves Stop where it is; Stop is ahead once it entered.
LEMMA StopStays ==
  ASSUME TypeOK, NEW e \in Signals, Enqueue(e), UNCHANGED forwarderVars
  PROVE  /\ forwarder = "running" /\ StopAhead => StopAhead'
         /\ forwarder = "running" /\ e = Stop => StopAhead'
<1>1. responses \in Seq(Signals) /\ Len(responses) \in Nat
  BY DEF TypeOK, Signals
<1>2. CASE forwarder = "running"
  <2>1. responses' = Append(responses, e) /\ UNCHANGED <<forwarder, carrying>>
    BY <1>2 DEF Enqueue, forwarderVars
  <2>2. /\ \A n \in DOMAIN responses : n \in DOMAIN responses' /\ responses'[n] = responses[n]
        /\ Len(responses) + 1 \in DOMAIN responses' /\ responses'[Len(responses) + 1] = e
    BY <1>1, <2>1
  <2> QED BY <2>1, <2>2 DEF StopAhead
<1> QED BY <1>2

\* The forwarder takes Stop, or brings it nearer.
LEMMA StopNearer ==
  ASSUME TypeOK, Forward, StopAhead PROVE StopAhead'
<1>1. /\ responses \in Seq(Signals) /\ responses # <<>> /\ carrying = Nothing
      /\ carrying' = Head(responses) /\ responses' = Tail(responses)
  BY DEF TypeOK, Signals, Forward
<1>2. PICK n \in DOMAIN responses : responses[n] = Stop
  BY <1>1, WsSessionAssumption DEF StopAhead
<1>3. CASE n = 1
  BY <1>1, <1>2, <1>3 DEF StopAhead
<1>4. CASE n # 1
  <2>1. n - 1 \in DOMAIN responses' /\ responses'[n - 1] = responses[n]
    BY <1>1, <1>2, <1>4
  <2> QED BY <1>2, <2>1 DEF StopAhead
<1> QED BY <1>3, <1>4

\* No step leaves the reader, the forwarder or the writer waiting for nothing.
LEMMA WaitStep == ASSUME TypeOK, ReaderInv, WaitInv, Next PROVE WaitInv'
<1> USE DEF WaitInv, readerVars, taskVars, forwarderVars, writerVars
<1>1. CASE ReadMessage
  BY <1>1 DEF ReadMessage, ReadRequest, ReadGarbage, ReadOther, ReadFails
<1>2. CASE SendTask
  BY <1>2 DEF SendTask
<1>3. CASE TaskAnswered \/ ReadEnds
  BY <1>3 DEF TaskAnswered, ReadEnds
<1>4. CASE Answer
  BY <1>4 DEF Answer
<1>5. CASE AbortWriter
  BY <1>5 DEF AbortWriter
<1>6. CASE SendStop
  <2>1. Enqueue(Stop) /\ Stop \in Signals /\ reader = "stopping" /\ reader' = "removing"
    BY <1>6 DEF SendStop, Signals
  <2>2. UNCHANGED <<dispatcher, task, forwarder, carrying, writer>>
    BY <1>6 DEF SendStop
  <2>3. forwarder = "running" => StopAhead'
    BY <2>1, <2>2, StopStays
  <2> QED BY <2>1, <2>2, <2>3
<1>7. CASE RemoveInventory
  BY <1>7 DEF RemoveInventory, StopAhead
<1>8. CASE ReceiveRequest \/ HandleTaskRequest
  BY <1>8 DEF ReceiveRequest, HandleTaskRequest, StopAhead
<1>9. ASSUME NEW n \in Numbers, WorkerResponds(n) PROVE WaitInv'
  <2>1. Enqueue(Response("finished", n)) /\ Response("finished", n) \in Signals
    BY <1>9 DEF WorkerResponds, Responses, Response, Signals
  <2>2. UNCHANGED <<dispatcher, reader, task, forwarder, carrying, writer>>
    BY <1>9 DEF WorkerResponds
  <2>3. forwarder = "running" /\ StopAhead => StopAhead'
    BY <2>1, <2>2, StopStays
  <2> QED BY <2>2, <2>3
<1>10. ASSUME NEW n \in Numbers, TakeTask(n) \/ TaskLost(n) PROVE WaitInv'
  BY <1>10 DEF TakeTask, TaskLost, StopAhead
<1>11. CASE Forward
  <2>1. UNCHANGED <<dispatcher, reader, task, forwarder, writer>>
    BY <1>11 DEF Forward
  <2> QED BY <1>11, <2>1, StopNearer
<1>12. CASE PassOn
  <2>1. UNCHANGED <<dispatcher, reader, task, writer>>
    BY <1>12 DEF PassOn
  <2>2. CASE carrying = Stop
    BY <1>12, <2>1, <2>2 DEF PassOn
  <2>3. CASE carrying # Stop
    BY <1>12, <2>1, <2>3 DEF PassOn, StopAhead
  <2> QED BY <2>2, <2>3
<1>13. CASE TakeWrite \/ Write \/ Cancel
  BY <1>13 DEF TakeWrite, Write, Cancel, StopAhead
<1>14. CASE DispatcherStops \/ DispatcherEnds
  BY <1>14 DEF DispatcherStops, DispatcherEnds, StopAhead
<1>15. CASE ClientStalls \/ ClientLeaves \/ Terminated
  BY <1>15 DEF ClientStalls, ClientLeaves, Terminated, vars, StopAhead
<1> QED
  BY <1>1, <1>2, <1>3, <1>4, <1>5, <1>6, <1>7, <1>8, <1>9, <1>10, <1>11, <1>12, <1>13, <1>14,
     <1>15
  DEF Next, Respond, Finish

\* The reader never awaits an answer that nobody will give, and a session that is over leaves
\* no task behind that is neither cancelled nor about to read Stop.
THEOREM SessionNeverAbandons == Spec => []WaitInv
<1>1. Init => WaitInv
  BY DEF Init, WaitInv
<1>2. IInv /\ WaitInv /\ [Next]_vars => WaitInv'
  <2>1. ASSUME IInv, WaitInv, Next PROVE WaitInv'
    BY <2>1, WaitStep DEF IInv
  <2>2. ASSUME WaitInv, UNCHANGED vars PROVE WaitInv'
    BY <2>2 DEF WaitInv, StopAhead, vars, readerVars, taskVars, forwarderVars, writerVars
  <2> QED BY <2>1, <2>2
<1> QED BY <1>1, <1>2, Invariant, PTL DEF Spec

=============================================================================
