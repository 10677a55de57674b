------------------------------- MODULE WsNode -------------------------------
(***************************************************************************)
(* The reconnecting websocket under the backend's transport handler        *)
(* (src/src-tauri/rtc/ws_node.rs), with the parts of TransportHandler      *)
(* that use its queue: the ack_send task and stop                          *)
(* (src/src-tauri/rtc/ws_node_handler.rs).                                 *)
(*                                                                         *)
(* run_loop connects, gives the two halves of the connection and the end   *)
(* of the queue to a sender and a receiver task, waits for either to end,  *)
(* stops the other and connects again.  Tasks are kept per connection, so  *)
(* that a task that outlives its connection would be seen.  A select!      *)
(* chooses at random among the branches that are ready, so no branch is    *)
(* guarded by the absence of another.  Payloads are numbers; the socket    *)
(* and the server are the environment.  The message handler does not       *)
(* panic.                                                                  *)
(***************************************************************************)
EXTENDS Naturals, Sequences

CONSTANTS QueueCapacity,   \* of the queue between send() and the sender task: 64
          AckLimit,        \* of the handler's queue of acknowledgements: 16
          MaxFrames,       \* bound: frames submitted
          MaxConnections   \* bound: connections made; later attempts fail

ASSUME NodeAssumption == /\ QueueCapacity \in Nat \ {0} /\ AckLimit \in Nat \ {0}
                         /\ MaxFrames \in Nat /\ MaxConnections \in Nat

VARIABLES
  loop,      \* what run_loop awaits
  conn,      \* the number of connections made
  up,        \* connections whose socket works
  local,     \* connections whose local_stopper was cancelled by run_loop
  sender,    \* sender_task of each connection
  receiver,  \* receive_task of each connection
  hand,      \* the frame inside ws_sender.send, if the sender is "writing"
  queue,     \* the queue behind send_tx
  flag,      \* is_connected
  stopper,   \* the node's stopper
  owner,     \* the program's send(): "idle" or "putting", waiting for room
  acks,      \* acknowledgements in ack_q
  acker,     \* the ack_send task: "idle", "putting" or "ended"
  stopping,  \* TransportHandler::stop: "no", "acks", "node", "returned"
  submitted, \* frames put into the queue so far
  sent,      \* history: the frames that were put on the wire, in order
  serving    \* history: the connection that carried a frame last

taskVars == <<up, local, sender, receiver, hand>>
loopVars == <<loop, conn, flag>>
userVars == <<owner, acks, acker, stopping, stopper>>
history == <<sent, serving>>
vars == <<loopVars, taskVars, queue, submitted, userVars, history>>

Connection == 1..MaxConnections

TypeOK ==
  /\ loop \in {"connecting", "sleeping", "serving", "joinSender", "joinReceiver",
               "joinBoth", "ended"}
  /\ conn \in 0..MaxConnections
  /\ up \in SUBSET Connection /\ local \in SUBSET Connection
  /\ sender \in [Connection -> {"none", "idle", "writing", "done"}]
  /\ receiver \in [Connection -> {"none", "idle", "done"}]
  /\ hand \in [Connection -> 0..MaxFrames]
  /\ queue \in Seq(1..MaxFrames) /\ Len(queue) <= QueueCapacity
  /\ flag \in BOOLEAN /\ stopper \in BOOLEAN
  /\ owner \in {"idle", "putting"}
  /\ acks \in 0..AckLimit
  /\ acker \in {"idle", "putting", "ended"}
  /\ stopping \in {"no", "acks", "node", "returned"}
  /\ submitted \in 0..MaxFrames /\ sent \in Seq(1..MaxFrames)
  /\ serving \in 0..MaxConnections

Init ==
  /\ loop = "connecting" /\ conn = 0 /\ flag = FALSE /\ stopper = FALSE
  /\ up = {} /\ local = {}
  /\ sender = [c \in Connection |-> "none"]
  /\ receiver = [c \in Connection |-> "none"]
  /\ hand = [c \in Connection |-> 0]
  /\ queue = <<>> /\ submitted = 0
  /\ owner = "idle" /\ acks = 0 /\ acker = "idle" /\ stopping = "no"
  /\ sent = <<>> /\ serving = 0

(***************************************************************************)
(* run_loop                                                                *)
(***************************************************************************)
\* The queue's receiving end is dropped with the loop.
EndLoop == /\ loop' = "ended" /\ flag' = FALSE /\ queue' = <<>>
           /\ UNCHANGED conn

\* The condition of the while loop.
LoopTop == \/ stopper /\ EndLoop
           \/ ~stopper /\ loop' = "connecting" /\ UNCHANGED <<conn, flag, queue>>

ConnectOk ==
  /\ loop = "connecting" /\ conn < MaxConnections
  /\ loop' = "serving" /\ conn' = conn + 1 /\ flag' = TRUE
  /\ up' = up \cup {conn + 1}
  /\ sender' = [sender EXCEPT ![conn + 1] = "idle"]
  /\ receiver' = [receiver EXCEPT ![conn + 1] = "idle"]
  /\ UNCHANGED <<local, hand, queue, submitted, userVars, history>>

\* mutant: a failed attempt ends the node.
ConnectFailsForGood ==
  /\ loop = "connecting"
  /\ EndLoop
  /\ UNCHANGED <<taskVars, submitted, userVars, history>>

ConnectFails ==
  /\ loop = "connecting"
  /\ loop' = "sleeping"
  /\ UNCHANGED <<conn, flag, taskVars, queue, submitted, userVars, history>>

RetryPauseOver ==
  /\ loop = "sleeping"
  /\ LoopTop
  /\ UNCHANGED <<taskVars, submitted, userVars, history>>

StopWhileConnecting ==
  /\ loop \in {"connecting", "sleeping"} /\ stopper
  /\ EndLoop
  /\ UNCHANGED <<taskVars, submitted, userVars, history>>

StopSeen ==
  /\ loop = "serving" /\ stopper
  /\ loop' = "joinBoth"
  /\ UNCHANGED <<conn, flag, taskVars, queue, submitted, userVars, history>>

\* mutant: reconnects without waiting for the sender task.
ReceiverGoneNoJoin ==
  /\ loop = "serving" /\ receiver[conn] = "done"
  /\ loop' = "connecting" /\ local' = local \cup {conn}
  /\ UNCHANGED <<conn, flag, up, sender, receiver, hand, queue, submitted, userVars, history>>

ReceiverGone ==
  /\ loop = "serving" /\ receiver[conn] = "done"
  /\ loop' = "joinSender" /\ local' = local \cup {conn}
  /\ UNCHANGED <<conn, flag, up, sender, receiver, hand, queue, submitted, userVars, history>>

SenderGone ==
  /\ loop = "serving" /\ sender[conn] = "done"
  /\ loop' = "joinReceiver" /\ local' = local \cup {conn}
  /\ UNCHANGED <<conn, flag, up, sender, receiver, hand, queue, submitted, userVars, history>>

Joined ==
  /\ \/ loop = "joinSender" /\ sender[conn] = "done"
     \/ loop = "joinReceiver" /\ receiver[conn] = "done"
  /\ LoopTop
  /\ UNCHANGED <<taskVars, submitted, userVars, history>>

JoinedBoth ==
  /\ loop = "joinBoth" /\ receiver[conn] = "done" /\ sender[conn] = "done"
  /\ EndLoop
  /\ UNCHANGED <<taskVars, submitted, userVars, history>>

(***************************************************************************)
(* The tasks of a connection                                               *)
(***************************************************************************)
Cancelled(c) == stopper \/ c \in local

SenderTakes(c) ==
  /\ sender[c] = "idle" /\ queue # <<>>
  /\ sender' = [sender EXCEPT ![c] = "writing"]
  /\ hand' = [hand EXCEPT ![c] = Head(queue)]
  /\ queue' = Tail(queue)
  /\ UNCHANGED <<loopVars, up, local, receiver, submitted, userVars, history>>

SenderCancelled(c) ==
  /\ sender[c] = "idle" /\ Cancelled(c)
  /\ sender' = [sender EXCEPT ![c] = "done"]
  /\ UNCHANGED <<loopVars, up, local, receiver, hand, queue, submitted, userVars, history>>

\* A broken connection may still take a frame.
WriteDone(c) ==
  /\ sender[c] = "writing"
  /\ sender' = [sender EXCEPT ![c] = "idle"]
  /\ hand' = [hand EXCEPT ![c] = 0]
  /\ sent' = Append(sent, hand[c]) /\ serving' = c
  /\ UNCHANGED <<loopVars, up, local, receiver, queue, submitted, userVars>>

\* mutant: the frame goes back to the head of the queue.
WriteFailsRequeues(c) ==
  /\ sender[c] = "writing" /\ c \notin up
  /\ sender' = [sender EXCEPT ![c] = "done"]
  /\ hand' = [hand EXCEPT ![c] = 0]
  /\ \/ sent' = Append(sent, hand[c]) /\ serving' = c
     \/ UNCHANGED history
  /\ queue' = <<hand[c]>> \o queue
  /\ UNCHANGED <<loopVars, up, local, receiver, submitted, userVars>>

\* The frame is gone from the queue; it may have been transmitted or not.
WriteFails(c) ==
  /\ sender[c] = "writing" /\ c \notin up
  /\ sender' = [sender EXCEPT ![c] = "done"]
  /\ hand' = [hand EXCEPT ![c] = 0]
  /\ \/ sent' = Append(sent, hand[c]) /\ serving' = c
     \/ UNCHANGED history
  /\ UNCHANGED <<loopVars, up, local, receiver, queue, submitted, userVars>>

InTransit == submitted + acks + (IF owner = "putting" THEN 1 ELSE 0)
                              + (IF acker = "putting" THEN 1 ELSE 0)

\* A payload comes in: the handler acknowledges it with try_send, whatever its
\* filter says of it, unless the queue is full or the task that reads it is gone.
ReceivePayload(c) ==
  /\ receiver[c] = "idle" /\ InTransit < MaxFrames
  /\ serving' = c
  /\ acks' = IF acks < AckLimit /\ acker # "ended" THEN acks + 1 ELSE acks
  /\ UNCHANGED <<loopVars, taskVars, queue, submitted, owner, acker, stopping, stopper, sent>>

\* An acknowledgement comes in and is given to the program, or a frame that does
\* not decode and is dropped.
ReceiveAck(c) ==
  /\ receiver[c] = "idle"
  /\ serving' = c
  /\ UNCHANGED <<loopVars, taskVars, queue, submitted, userVars, sent>>

ReceiverEnds(c) ==
  /\ receiver[c] = "idle" /\ (c \notin up \/ Cancelled(c))
  /\ receiver' = [receiver EXCEPT ![c] = "done"]
  /\ UNCHANGED <<loopVars, up, local, sender, hand, queue, submitted, userVars, history>>

\* The peer closes the connection or the network breaks it.
ConnectionBreaks(c) ==
  /\ c \in up /\ (sender[c] # "done" \/ receiver[c] # "done")
  /\ up' = up \ {c}
  /\ UNCHANGED <<loopVars, local, sender, receiver, hand, queue, submitted, userVars, history>>

(***************************************************************************)
(* The users of the queue                                                  *)
(***************************************************************************)
\* mutant: a full queue takes one more.
HasRoomForOneMore == loop # "ended" /\ Len(queue) <= QueueCapacity

HasRoom == loop # "ended" /\ Len(queue) < QueueCapacity

Put == /\ HasRoom
       /\ queue' = Append(queue, submitted + 1)
       /\ submitted' = submitted + 1

\* send() looks at is_connected first, and fails without a trace if it is not set.
Send ==
  /\ owner = "idle" /\ stopping = "no" /\ flag /\ InTransit < MaxFrames
  /\ owner' = "putting"
  /\ UNCHANGED <<loopVars, taskVars, queue, submitted, acks, acker, stopping, stopper, history>>

SendPut ==
  /\ owner = "putting" /\ Put
  /\ owner' = "idle"
  /\ UNCHANGED <<loopVars, taskVars, acks, acker, stopping, stopper, history>>

\* The retry timer drops the future of send().
SendTimesOut ==
  /\ owner = "putting"
  /\ owner' = "idle"
  /\ UNCHANGED <<loopVars, taskVars, queue, submitted, acks, acker, stopping, stopper, history>>

AckTake ==
  /\ acker = "idle" /\ acks > 0
  /\ acks' = acks - 1 /\ acker' = "putting"
  /\ UNCHANGED <<loopVars, taskVars, queue, submitted, owner, stopping, stopper, history>>

AckPut ==
  /\ acker = "putting" /\ Put
  /\ acker' = "idle"
  /\ UNCHANGED <<loopVars, taskVars, owner, acks, stopping, stopper, history>>

AckTaskCancelled ==
  /\ acker = "idle" /\ stopping # "no"
  /\ acker' = "ended" /\ acks' = 0
  /\ UNCHANGED <<loopVars, taskVars, queue, submitted, owner, stopping, stopper, history>>

\* stop consumes the handler: no send is under way.
Stop ==
  /\ stopping = "no" /\ owner = "idle"
  /\ stopping' = "acks"
  /\ UNCHANGED <<loopVars, taskVars, queue, submitted, owner, acks, acker, stopper, history>>

\* mutant: the node is stopped while the acknowledgement task runs.
AckTaskAbandoned ==
  /\ stopping = "acks"
  /\ stopping' = "node" /\ stopper' = TRUE
  /\ UNCHANGED <<loopVars, taskVars, queue, submitted, owner, acks, acker, history>>

\* mutant: the acknowledgement task is joined, the node is not told to stop.
AckTaskJoinedOnly ==
  /\ stopping = "acks" /\ acker = "ended"
  /\ stopping' = "node"
  /\ UNCHANGED <<loopVars, taskVars, queue, submitted, owner, acks, acker, stopper, history>>

AckTaskJoined ==
  /\ stopping = "acks" /\ acker = "ended"
  /\ stopping' = "node" /\ stopper' = TRUE
  /\ UNCHANGED <<loopVars, taskVars, queue, submitted, owner, acks, acker, history>>

StopReturns ==
  /\ stopping = "node" /\ loop = "ended"
  /\ stopping' = "returned"
  /\ UNCHANGED <<loopVars, taskVars, queue, submitted, owner, acks, acker, stopper, history>>

RunLoop == \/ ConnectOk \/ ConnectFails \/ RetryPauseOver \/ StopWhileConnecting
           \/ StopSeen \/ ReceiverGone \/ SenderGone \/ Joined \/ JoinedBoth

SenderTask(c) == SenderTakes(c) \/ SenderCancelled(c) \/ WriteDone(c) \/ WriteFails(c)

ReceiveTask(c) == ReceivePayload(c) \/ ReceiveAck(c) \/ ReceiverEnds(c)

AckTask == AckTake \/ AckPut \/ AckTaskCancelled

Handler == Send \/ SendPut \/ SendTimesOut \/ Stop \/ AckTaskJoined \/ StopReturns

Next == \/ RunLoop \/ AckTask \/ Handler
        \/ \E c \in Connection : SenderTask(c) \/ ReceiveTask(c) \/ ConnectionBreaks(c)

Spec == Init /\ [][Next]_vars

(***************************************************************************)
(* Fairness: the runtime polls every task that is ready.  A random select! *)
(* does not pass over the cancellation for ever (SenderCancelled); a write *)
(* is done or fails, as TCP gives up in the end; a server that is tried    *)
(* again and again answers some time.  Nothing is assumed of the program's *)
(* sends, of frames coming in, or of connections breaking.                 *)
(***************************************************************************)
FairSpec ==
  /\ Spec
  /\ WF_vars(RunLoop) /\ SF_vars(ConnectOk)
  /\ WF_vars(AckTask) /\ SF_vars(AckTaskCancelled)
  /\ WF_vars(AckTaskJoined) /\ WF_vars(StopReturns)
  /\ \A c \in Connection : /\ WF_vars(SenderTask(c)) /\ SF_vars(SenderCancelled(c))
                           /\ WF_vars(ReceiverEnds(c))

(***************************************************************************)
(* Properties                                                              *)
(***************************************************************************)
\* No two connections are served at once, and no task is left when run_loop
\* connects again or has ended: it waits for both tasks on every path
\* (run_loop), so the handler is never called by two tasks and the queue never
\* read by two.
Gone(c) == sender[c] = "done" /\ receiver[c] = "done"
NoTaskOutlivesItsConnection ==
  /\ \A c \in Connection : c < conn => Gone(c)
  /\ loop \in {"connecting", "sleeping", "ended"} /\ conn > 0 => Gone(conn)

\* The node ends after everybody who uses its queue: TransportHandler::stop joins
\* the acknowledgement task first, so nobody finds the queue closed.
UsersEndFirst == loop = "ended" => owner = "idle" /\ acker = "ended"

\* What a node promises (FrameChannel): frames go out in order and at most once
\* across reconnections, connections follow one another, and nothing moves
\* after the end that stop waits for.
Promise == INSTANCE FrameChannel WITH closed <- (loop = "ended")
RefinesChannel == Promise!Spec

\* Frames that wait for a connection are sent on the next one (sender_task is
\* given the queue of its predecessor): unless it is stopped the node goes on
\* and its queue is empty again and again, for as long as the server of the
\* instance answers.
QueueDrains ==
  []<>(stopper \/ conn = MaxConnections \/ (queue = <<>> /\ loop # "ended"))

\* stop returns.  The one way it does not: the acknowledgement task, which it
\* waits for first, waits for room in the queue of a node that never gets a
\* connection again.
WaitsForEver == /\ stopping = "acks" /\ acker = "putting"
                /\ Len(queue) = QueueCapacity
                /\ loop \in {"connecting", "sleeping"} /\ conn = MaxConnections
StopEnds == stopping # "no" ~> [](stopping = "returned" \/ WaitsForEver)

\* memo.md: the node handles "reconnection automatically, without making any
\* other routine wait for it".  It is violated: is_connected stays set while the
\* loop reconnects, so send() fills the queue and then waits in it.
NobodyWaitsForReconnection ==
  loop \in {"connecting", "sleeping"} =>
     ~ (Len(queue) = QueueCapacity /\ "putting" \in {owner, acker})
=============================================================================
