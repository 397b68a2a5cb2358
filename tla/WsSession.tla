----------------------------- MODULE WsSession -----------------------------
(***************************************************************************)
(* One serving websocket session (src/src/api/websocket.rs from            *)
(* handle_websocket_session on): the reader, which turns text messages     *)
(* into task requests, and the two tasks that bring responses to the       *)
(* client. The reader and the workers that finished its tasks put          *)
(* responses in one bounded channel; the forwarder moves them to a second  *)
(* one; the writer sends them. A step ends at an await.                    *)
(***************************************************************************)
EXTENDS Naturals, Sequences, SequencesExt

CONSTANTS
  MaxMessages, \* messages the client sends, numbered 1..MaxMessages
  Capacity,   \* of each of the two channels, 100 in the program
  Nothing,    \* no response in hand
  Stop        \* ResponseSignal::Stop

VARIABLES
  client,       \* reading its responses, stalled, or gone
  received,     \* the number of the message the reader read last
  reader,       \* where the session's own task is
  reply,        \* the response it is about to queue
  task,         \* its request: none, mailed, received by a handler, queued, dropped
  backlog,      \* its accepted tasks that no worker has taken
  taken,        \* its tasks in a worker's hands: the worker has not responded
  dispatcher,   \* serving, stopping (it receives no more), or gone with its mailbox
  responses,    \* the response channel
  forwarder,    \* running or ended (and the response channel closed)
  carrying,     \* what the forwarder took and has not passed on
  writes,       \* the write channel
  writer,       \* running, aborted (not cancelled yet) or ended
  writing,      \* what the writer took and has not written
  delivered,    \* what the client has got
  accepted      \* history: everything that entered the response channel, Stop included

readerVars == <<received, reader, reply, task>>
taskVars == <<backlog, taken>>
forwarderVars == <<forwarder, carrying>>
writerVars == <<writer, writing, delivered>>
vars == <<client, dispatcher, readerVars, taskVars, responses, forwarderVars, writes, writerVars,
          accepted>>

Numbers == 1..MaxMessages
\* Success or Error in answer to message number n, and a worker's Success for its task.
Response(k, n) == [kind |-> k, number |-> n]
Responses == [kind : {"received", "error", "finished"}, number : Numbers]

ASSUME WsSessionAssumption ==
  /\ MaxMessages \in Nat /\ Capacity \in Nat \ {0}
  /\ Nothing \notin Responses /\ Stop \notin Responses /\ Nothing # Stop

\* sending, awaiting: the task request and its reply; answering: queueing reply, after
\* which the reader goes on (answering) or leaves (parting); leaving: about to abort
\* the writer; stopping: queueing Stop; removing: its inventory.
Active == {"reading", "sending", "awaiting", "answering"}
ReaderStates == Active \cup {"parting", "leaving", "stopping", "removing", "gone"}

TypeOK ==
  /\ client \in {"reading", "stalled", "gone"}
  /\ received \in 0..MaxMessages
  /\ reader \in ReaderStates
  /\ reply \in Responses \cup {Nothing}
  /\ task \in {"none", "mailed", "received", "queued", "dropped"}
  /\ backlog \subseteq Numbers /\ taken \subseteq Numbers /\ backlog \cap taken = {}
  /\ dispatcher \in {"serving", "stopping", "gone"}
  /\ responses \in Seq(Responses \cup {Stop}) /\ Len(responses) <= Capacity
  /\ forwarder \in {"running", "ended"}
  /\ carrying \in Responses \cup {Stop, Nothing}
  /\ writes \in Seq(Responses \cup {Stop}) /\ Len(writes) <= Capacity
  /\ writer \in {"running", "aborted", "ended"}
  /\ writing \in Responses \cup {Nothing}
  /\ delivered \in Seq(Responses) /\ accepted \in Seq(Responses \cup {Stop})

Init ==
  /\ client = "reading" /\ dispatcher = "serving"
  /\ received = 0 /\ reader = "reading" /\ reply = Nothing
  /\ task = "none" /\ backlog = {} /\ taken = {}
  /\ responses = <<>> /\ forwarder = "running" /\ carrying = Nothing
  /\ writes = <<>> /\ writer = "running" /\ writing = Nothing
  /\ delivered = <<>> /\ accepted = <<>>

-----------------------------------------------------------------------------
(***************************************************************************)
(* The response channel. Sending waits for room; once the receiver is      *)
(* gone it fails, and every sender here ignores that.                      *)
(***************************************************************************)
\* Mutation of Enqueue: the channel is not bounded.
EnqueueUnbounded(r) ==
  \/ /\ forwarder = "running"
     /\ responses' = Append(responses, r)
     /\ accepted' = Append(accepted, r)
  \/ /\ forwarder = "ended"
     /\ UNCHANGED <<responses, accepted>>

Enqueue(r) ==
  \/ /\ forwarder = "running" /\ Len(responses) < Capacity
     /\ responses' = Append(responses, r)
     /\ accepted' = Append(accepted, r)
  \/ /\ forwarder = "ended"
     /\ UNCHANGED <<responses, accepted>>

-----------------------------------------------------------------------------
(***************************************************************************)
(* The reader: process_incoming_messages and what follows it.              *)
(***************************************************************************)
\* A text message that parses becomes a task request.
ReadRequest ==
  /\ reader = "reading" /\ received < MaxMessages
  /\ received' = received + 1
  /\ reader' = "sending"
  /\ UNCHANGED <<client, dispatcher, reply, task, taskVars, responses, forwarderVars, writes,
                 writerVars, accepted>>

\* One that does not parse is answered at once.
ReadGarbage ==
  /\ reader = "reading" /\ received < MaxMessages
  /\ received' = received + 1
  /\ reader' = "answering"
  /\ reply' = Response("error", received + 1)
  /\ UNCHANGED <<client, dispatcher, task, taskVars, responses, forwarderVars, writes,
                 writerVars, accepted>>

\* A binary message, a ping or a close frame is passed over.
ReadOther ==
  /\ reader = "reading" /\ received < MaxMessages
  /\ received' = received + 1
  /\ UNCHANGED <<client, dispatcher, reader, reply, task, taskVars, responses, forwarderVars,
                 writes, writerVars, accepted>>

\* The stream reports an error: a broken connection or a protocol violation. It is
\* answered under the number of the message that was not read.
ReadFails ==
  /\ reader = "reading" /\ received < MaxMessages
  /\ received' = received + 1
  /\ reader' = "parting"
  /\ reply' = Response("error", received + 1)
  /\ UNCHANGED <<client, dispatcher, task, taskVars, responses, forwarderVars, writes,
                 writerVars, accepted>>

\* The stream is over, which it is only when the client closed it.
ReadEnds ==
  /\ reader = "reading" /\ client = "gone"
  /\ reader' = "leaving"
  /\ UNCHANGED <<client, dispatcher, received, reply, task, taskVars, responses,
                 forwarderVars, writes, writerVars, accepted>>

\* handle_text_message sends the task request; without a dispatcher it fails and the
\* session will end.
SendTask ==
  /\ reader = "sending"
  /\ IF dispatcher # "gone"
       THEN task' = "mailed" /\ reader' = "awaiting" /\ UNCHANGED reply
       ELSE reader' = "parting" /\ reply' = Response("error", received) /\ UNCHANGED task
  /\ UNCHANGED <<client, dispatcher, received, taskVars, responses, forwarderVars, writes,
                 writerVars, accepted>>

\* The dispatcher spawns a handler, which goes on whatever becomes of the dispatcher.
ReceiveRequest ==
  /\ task = "mailed" /\ dispatcher = "serving"
  /\ task' = "received"
  /\ UNCHANGED <<client, dispatcher, received, reader, reply, taskVars, responses,
                 forwarderVars, writes, writerVars, accepted>>

\* Dispatcher::handle_task_request: pushes and replies while it holds the queue.
HandleTaskRequest ==
  /\ task = "received"
  /\ task' = "queued"
  /\ backlog' = backlog \cup {received}
  /\ UNCHANGED <<client, dispatcher, received, reader, reply, taken, responses, forwarderVars,
                 writes, writerVars, accepted>>

\* handle_task_response: a dropped reply is an error, and both are answered.
TaskAnswered ==
  /\ reader = "awaiting" /\ task \in {"queued", "dropped"}
  /\ reply' = Response(IF task = "queued" THEN "received" ELSE "error", received)
  /\ task' = "none"
  /\ reader' = "answering"
  /\ UNCHANGED <<client, dispatcher, received, taskVars, responses, forwarderVars, writes,
                 writerVars, accepted>>

\* The response to the message is queued; the reader reads on or leaves.
Answer ==
  /\ reader \in {"answering", "parting"}
  /\ Enqueue(reply)
  /\ reply' = Nothing
  /\ reader' = IF reader = "answering" THEN "reading" ELSE "leaving"
  /\ UNCHANGED <<client, dispatcher, received, task, taskVars, forwarderVars, writes,
                 writerVars>>

\* Mutation of AbortWriter: the forwarder is aborted instead of the writer.
AbortForwarder ==
  /\ reader = "leaving"
  /\ reader' = "stopping"
  /\ forwarder' = "ended" /\ carrying' = Nothing
  /\ UNCHANGED <<client, dispatcher, received, reply, task, taskVars, responses, writes,
                 writerVars, accepted>>

AbortWriter ==
  /\ reader = "leaving"
  /\ reader' = "stopping"
  /\ writer' = IF writer = "running" THEN "aborted" ELSE writer
  /\ UNCHANGED <<client, dispatcher, received, reply, task, taskVars, responses,
                 forwarderVars, writes, writing, delivered, accepted>>

SendStop ==
  /\ reader = "stopping"
  /\ Enqueue(Stop)
  /\ reader' = "removing"
  /\ UNCHANGED <<client, dispatcher, received, reply, task, taskVars, forwarderVars, writes,
                 writerVars>>

\* cleanup_inventory: answered or not, the session's task is over (Lifecycle has the request,
\* and what main aborts at exit).
RemoveInventory ==
  /\ reader = "removing"
  /\ reader' = "gone"
  /\ UNCHANGED <<client, dispatcher, received, reply, task, taskVars, responses,
                 forwarderVars, writes, writerVars, accepted>>

-----------------------------------------------------------------------------
(***************************************************************************)
(* The forwarder and the writer of spawn_response_handler.                 *)
(***************************************************************************)
Forward ==
  /\ forwarder = "running" /\ carrying = Nothing /\ responses # <<>>
  /\ carrying' = Head(responses)
  /\ responses' = Tail(responses)
  /\ UNCHANGED <<client, dispatcher, readerVars, taskVars, forwarder, writes, writerVars,
                 accepted>>

\* Mutation of PassOn: the forwarder waits for room although nobody makes any.
PassOnWithRoom ==
  /\ carrying # Nothing /\ Len(writes) < Capacity
  /\ writes' = Append(writes, carrying)
  /\ carrying' = Nothing
  /\ IF carrying = Stop THEN forwarder' = "ended" /\ responses' = <<>>
                        ELSE UNCHANGED <<forwarder, responses>>
  /\ UNCHANGED <<client, dispatcher, readerVars, taskVars, writerVars, accepted>>

\* Mutation of PassOn: a full write channel drops the response.
PassOnOrDrop ==
  /\ carrying # Nothing
  /\ writes' = IF Len(writes) < Capacity /\ writer # "ended"
                 THEN Append(writes, carrying) ELSE writes
  /\ carrying' = Nothing
  /\ IF carrying = Stop THEN forwarder' = "ended" /\ responses' = <<>>
                        ELSE UNCHANGED <<forwarder, responses>>
  /\ UNCHANGED <<client, dispatcher, readerVars, taskVars, writerVars, accepted>>

\* Waits for room unless the writer is gone, when sending fails at once. After Stop
\* the forwarder ends and the response channel is closed with what it holds. It never ends
\* for want of senders: the session sends Stop before it drops its own.
PassOn ==
  /\ carrying # Nothing
  /\ \/ writer # "ended" /\ Len(writes) < Capacity /\ writes' = Append(writes, carrying)
     \/ writer = "ended" /\ UNCHANGED writes
  /\ carrying' = Nothing
  /\ IF carrying = Stop THEN forwarder' = "ended" /\ responses' = <<>>
                        ELSE UNCHANGED <<forwarder, responses>>
  /\ UNCHANGED <<client, dispatcher, readerVars, taskVars, writerVars, accepted>>

\* Mutation of TakeWrite: the writer ends on an error response.
TakeWriteUntilError ==
  /\ writer # "ended" /\ writing = Nothing /\ writes # <<>>
  /\ writes' = Tail(writes)
  /\ IF Head(writes) = Stop \/ Head(writes).kind = "error"
       THEN writer' = "ended" /\ UNCHANGED writing
       ELSE writing' = Head(writes) /\ UNCHANGED writer
  /\ UNCHANGED <<client, dispatcher, readerVars, taskVars, responses, forwarderVars,
                 delivered, accepted>>

TakeWrite ==
  /\ writer # "ended" /\ writing = Nothing /\ writes # <<>>
  /\ writes' = Tail(writes)
  /\ IF Head(writes) = Stop THEN writer' = "ended" /\ UNCHANGED writing
                            ELSE writing' = Head(writes) /\ UNCHANGED writer
  /\ UNCHANGED <<client, dispatcher, readerVars, taskVars, responses, forwarderVars,
                 delivered, accepted>>

\* A client that reads gets the response; one that is gone may let a last write pass
\* before the socket reports it; one that stalls lets the writer wait.
Write ==
  /\ writing # Nothing /\ client # "stalled"
  /\ writing' = Nothing
  /\ IF client = "reading"
       THEN delivered' = Append(delivered, writing) /\ UNCHANGED writer
       ELSE writer' \in {writer, "ended"} /\ UNCHANGED delivered
  /\ UNCHANGED <<client, dispatcher, readerVars, taskVars, responses, forwarderVars, writes,
                 accepted>>

\* The abort takes effect at the writer's next await; the receiver goes with it.
Cancel ==
  /\ writer = "aborted"
  /\ writer' = "ended" /\ writing' = Nothing
  /\ UNCHANGED <<client, dispatcher, readerVars, taskVars, responses, forwarderVars, writes,
                 delivered, accepted>>

-----------------------------------------------------------------------------
(***************************************************************************)
(* The rest of the program, and the client.                                *)
(***************************************************************************)
\* process_next: a worker pops the oldest. None needs to: workers may be busy, lagged, or
\* told to stop. What an aborted worker pops is lost at once (TaskLost).
TakeTask(n) ==
  /\ n \in backlog /\ \A m \in backlog : n <= m
  /\ dispatcher # "gone"
  /\ backlog' = backlog \ {n} /\ taken' = taken \cup {n}
  /\ UNCHANGED <<client, dispatcher, readerVars, responses, forwarderVars, writes, writerVars,
                 accepted>>

\* The worker responds, if need be once there is room.
WorkerResponds(n) ==
  /\ n \in taken
  /\ Enqueue(Response("finished", n))
  /\ taken' = taken \ {n}
  /\ UNCHANGED <<client, dispatcher, readerVars, backlog, forwarderVars, writes, writerVars>>

\* stop aborts workers that do not end; a task that is still queued goes with the queue.
TaskLost(n) ==
  /\ \/ n \in taken /\ dispatcher # "serving"
     \/ n \in backlog /\ dispatcher = "gone"
  /\ backlog' = backlog \ {n} /\ taken' = taken \ {n}
  /\ UNCHANGED <<client, dispatcher, readerVars, responses, forwarderVars, writes, writerVars,
                 accepted>>

\* The dispatcher leaves its loop: from here on its mailbox is open and nobody receives.
DispatcherStops ==
  /\ dispatcher = "serving" /\ dispatcher' = "stopping"
  /\ UNCHANGED <<client, readerVars, taskVars, responses, forwarderVars, writes, writerVars,
                 accepted>>

\* stop has returned; a request in the mailbox is dropped with its reply channel.
DispatcherEnds ==
  /\ dispatcher = "stopping" /\ dispatcher' = "gone"
  /\ task' = IF task = "mailed" THEN "dropped" ELSE task
  /\ UNCHANGED <<client, received, reader, reply, taskVars, responses, forwarderVars, writes,
                 writerVars, accepted>>

ClientStalls ==
  /\ client = "reading" /\ client' = "stalled"
  /\ UNCHANGED <<dispatcher, readerVars, taskVars, responses, forwarderVars, writes,
                 writerVars, accepted>>

ClientLeaves ==
  /\ client # "gone" /\ client' = "gone"
  /\ UNCHANGED <<dispatcher, readerVars, taskVars, responses, forwarderVars, writes,
                 writerVars, accepted>>

Over == reader = "gone" /\ forwarder = "ended" /\ writer = "ended"
Terminated ==
  /\ Over /\ backlog = {} /\ taken = {}
  /\ client = "gone" /\ dispatcher = "gone" /\ UNCHANGED vars

ReadMessage == ReadRequest \/ ReadGarbage \/ ReadOther \/ ReadFails
Respond == SendTask \/ TaskAnswered \/ Answer \/ ReadEnds
Finish == AbortWriter \/ SendStop \/ RemoveInventory
Next ==
  \/ ReadMessage \/ Respond \/ Finish
  \/ ReceiveRequest \/ HandleTaskRequest
  \/ \E n \in Numbers : TakeTask(n) \/ WorkerResponds(n) \/ TaskLost(n)
  \/ Forward \/ PassOn \/ TakeWrite \/ Write \/ Cancel
  \/ DispatcherStops \/ DispatcherEnds \/ ClientStalls \/ ClientLeaves \/ Terminated

\* tokio polls every task that can go on: the session's, its two response tasks, the
\* dispatcher while it serves, a handler (its permit comes: Lifecycle), and a worker that has
\* taken a task and finds room. stop returns (TaskPool's StopEnds). Nothing is assumed of
\* tasks that no worker took. Clients need not send, stall or leave, the dispatcher need not
\* stop, and no task need be lost.
Fairness ==
  /\ WF_vars(Respond) /\ WF_vars(Finish)
  /\ WF_vars(ReceiveRequest) /\ WF_vars(HandleTaskRequest) /\ WF_vars(DispatcherEnds)
  /\ \A n \in Numbers : WF_vars(WorkerResponds(n))
  /\ WF_vars(Forward \/ PassOn)
  /\ WF_vars(TakeWrite \/ Write) /\ WF_vars(Cancel)

Spec == Init /\ [][Next]_vars
FairSpec == Spec /\ Fairness

-----------------------------------------------------------------------------
(***************************************************************************)
(* Properties.                                                             *)
(***************************************************************************)
InHand(r) == IF r = Nothing THEN <<>> ELSE <<r>>
\* Everything between the response channel's entrance and the client, oldest first.
Underway == InHand(writing) \o writes \o InHand(carrying) \o responses

\* Responses pass two channels and two tasks, but as long as both run and the client is
\* there none is lost, repeated or overtaken by another.
NothingLost ==
  client # "gone" /\ forwarder = "running" /\ writer # "ended" =>
    accepted = delivered \o Underway

\* And whatever ends the session, what the client has got is the beginning of what was
\* accepted for it: a lost response is never followed by one that arrives.
DeliveredInOrder == IsPrefix(delivered, accepted)

\* A client that goes on reading gets every accepted response, unless its session ends.
ResponsesArrive == []<>(client # "reading" \/ reader \notin Active \/ delivered = accepted)

\* Once the client is gone its session ends, however full the channels are and
\* wherever the reader was: the failing writer lets the forwarder drain them.
SessionEnds == client = "gone" ~> reader = "gone"

\* A worker that waits to respond to a session is released when the client is gone or the
\* session is over (what TaskPool assumes of every session but the stalled ones). Tasks that
\* no worker has taken may stay in the queue for ever.
WorkersReleased == client = "gone" \/ reader = "gone" ~> taken = {}

\* A session leaves neither of its two tasks behind.
NoTaskLeft == reader = "gone" ~> forwarder = "ended" /\ writer = "ended"

=============================================================================
