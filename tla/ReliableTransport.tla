-------------------------- MODULE ReliableTransport -------------------------
(***************************************************************************)
(* Reliable delivery over a channel that loses, repeats and reorders: the  *)
(* backend's TransportHandler (src/src-tauri/rtc/ws_node_handler.rs) and   *)
(* the browser's (src/src/transport/rtc-ts/transport_handler.ts), which    *)
(* talk to each other through the signalling server, and again over the    *)
(* data channel.  Each sends one payload at a time under a sequence number *)
(* and repeats it until an acknowledgement of that number arrives; each    *)
(* acknowledges whatever it receives and then lets its SnFilter decide     *)
(* whether the program sees it.                                            *)
(*                                                                         *)
(* The backend's steps are separated by its awaits and queues, the browser *)
(* runs each call to the end.  What lies in between (WsNode, sockets, the  *)
(* signalling server) is the channel.  A handler that is created anew      *)
(* draws a new node_id and starts counting again.                          *)
(***************************************************************************)
EXTENDS Naturals, Sequences

CONSTANTS Backend, Browser,  \* the two ends
          AckLimit,          \* capacity of the backend's two acknowledgement queues
          MaxSends,          \* bound: sends of one handler
          MaxCopies,         \* bound: copies of a message in the channel at a time
          MaxLives,          \* bound: handlers an end creates
          Restarting,        \* ends that may be restarted
          Stopping           \* ends whose handler may be stopped

Node == {Backend, Browser}

ASSUME TransportAssumption ==
  /\ Backend # Browser
  /\ AckLimit \in Nat \ {0}
  /\ MaxSends \in Nat /\ MaxCopies \in Nat \ {0} /\ MaxLives \in Nat \ {0}
  /\ Restarting \subseteq Node /\ Stopping \subseteq Node

VARIABLES
  life,       \* which handler of the end is running, numbered from 1
  seq,        \* seq_num_out
  task,       \* send(): "idle", "transmit" (backend: in ws_node.send), "wait" (for the ack)
  cur,        \* the sequence number being sent
  filter,     \* SnFilter: the payload it accepted last, if any
  ackOut,     \* the backend's ack_q
  ackIn,      \* the backend's incoming_ack queue: sequence numbers
  stopped,    \* "no", "cancelled", or "ended": the ack_send task is gone
  net,        \* the channel: how many copies of each message are in it
  accepted,   \* what the filter let through for message_handler, in order
  handing,    \* the backend has acknowledged the last of them and not yet handed it over
  confirmed   \* sends that returned Ok

endVars == <<life, seq, task, cur, filter, ackOut, ackIn, stopped>>
vars == <<endVars, net, accepted, handing, confirmed>>

Peer(n) == IF n = Backend THEN Browser ELSE Backend

\* A node_id is a fresh uuid for every handler.
NodeId == [end : Node, life : 1..MaxLives]
NodeIdOf(n) == [end |-> n, life |-> life[n]]

Sn == 0..MaxSends

\* A payload is identified by its sender and sequence number.  The node_id of
\* an acknowledgement is not read by either handler.
Payload == [node : NodeId, sn : Sn]
Message == [type : {"normal", "ack"}, to : Node, node : NodeId, sn : Sn]

Normal(n, s) == [type |-> "normal", to |-> Peer(n), node |-> NodeIdOf(n), sn |-> s]
AckOf(n, m) == [type |-> "ack", to |-> Peer(n), sn |-> m.sn,
                node |-> IF n = Backend THEN m.node ELSE NodeIdOf(n)]

TypeOK ==
  /\ life \in [Node -> 1..MaxLives]
  /\ seq \in [Node -> 0..MaxSends]
  /\ task \in [Node -> {"idle", "transmit", "wait"}]
  /\ cur \in [Node -> Sn]
  /\ filter \in [Node -> SUBSET Payload]
  /\ ackOut \in Seq(Message) /\ Len(ackOut) <= AckLimit
  /\ ackIn \in Seq(Sn) /\ Len(ackIn) <= AckLimit
  /\ stopped \in [Node -> {"no", "cancelled", "ended"}]
  /\ net \in [Message -> 0..MaxCopies]
  /\ accepted \in [Node -> Seq(Payload)]
  /\ handing \in BOOLEAN
  /\ confirmed \in [Node -> SUBSET Payload]

Init ==
  /\ life = [n \in Node |-> 1]
  /\ seq = [n \in Node |-> 0]
  /\ task = [n \in Node |-> "idle"]
  /\ cur = [n \in Node |-> 0]
  /\ filter = [n \in Node |-> {}]
  /\ ackOut = <<>>
  /\ ackIn = <<>>
  /\ stopped = [n \in Node |-> "no"]
  /\ net = [m \in Message |-> 0]
  /\ accepted = [n \in Node |-> <<>>]
  /\ handing = FALSE
  /\ confirmed = [n \in Node |-> {}]

-----------------------------------------------------------------------------
(* The channel.                                                             *)

\* A browser's sender that throws loses the message, as Lose does.
With(ch, m) == [ch EXCEPT ![m] = IF @ < MaxCopies THEN @ + 1 ELSE @]
Without(ch, m) == [ch EXCEPT ![m] = @ - 1]

Lose(m) == /\ net[m] > 0
           /\ net' = Without(net, m)
           /\ UNCHANGED <<endVars, accepted, handing, confirmed>>

-----------------------------------------------------------------------------
(* send().                                                                  *)

\* fetch_add returns the old value, the browser's ++ is taken before use.
Serial(n, sn) == IF n = Backend THEN sn + 1 ELSE sn
NextSn(n) == IF n = Backend THEN seq[n] ELSE seq[n] + 1

Begin(n) ==
  /\ task[n] = "idle"
  /\ seq[n] < MaxSends
  /\ seq' = [seq EXCEPT ![n] = @ + 1]
  /\ cur' = [cur EXCEPT ![n] = NextSn(n)]

BackendSend ==
  /\ Begin(Backend)
  /\ task' = [task EXCEPT ![Backend] = "transmit"]
  /\ UNCHANGED <<life, filter, ackOut, ackIn, stopped, net, accepted, handing, confirmed>>

\* ws_node.send succeeds.  When the node is not connected send() tries again at
\* once, which changes nothing.
BackendTransmit ==
  /\ task[Backend] = "transmit"
  /\ net' = With(net, Normal(Backend, cur[Backend]))
  /\ task' = [task EXCEPT ![Backend] = "wait"]
  /\ UNCHANGED <<life, seq, cur, filter, ackOut, ackIn, stopped, accepted, handing, confirmed>>

BackendTimeout ==
  /\ task[Backend] = "wait"
  /\ task' = [task EXCEPT ![Backend] = "transmit"]
  /\ UNCHANGED <<life, seq, cur, filter, ackOut, ackIn, stopped, net, accepted, handing, confirmed>>

\* A send is refused while another one waits and after stop().
BrowserSend ==
  /\ stopped[Browser] = "no"
  /\ Begin(Browser)
  /\ task' = [task EXCEPT ![Browser] = "wait"]
  /\ net' = With(net, Normal(Browser, NextSn(Browser)))
  /\ UNCHANGED <<life, filter, ackOut, ackIn, stopped, accepted, handing, confirmed>>

BrowserTimeout ==
  /\ task[Browser] = "wait"
  /\ net' = With(net, Normal(Browser, cur[Browser]))
  /\ UNCHANGED <<endVars, accepted, handing, confirmed>>

\* abort_current_delivery: the caller has something newer to send.
BrowserAbort ==
  /\ task[Browser] = "wait"
  /\ task' = [task EXCEPT ![Browser] = "idle"]
  /\ UNCHANGED <<life, seq, cur, filter, ackOut, ackIn, stopped, net, accepted, handing, confirmed>>

\* mutant: any acknowledgement will do.
AnyAck(n, sn) == task[n] = "wait"

\* An acknowledgement is matched by its number alone.
Matches(n, sn) == task[n] = "wait" /\ sn = cur[n]

Confirm(n) ==
  /\ task' = [task EXCEPT ![n] = "idle"]
  /\ confirmed' = [confirmed EXCEPT ![n] = @ \cup {[node |-> NodeIdOf(n), sn |-> cur[n]]}]

\* send_and_wait_ack takes the next number from its queue.
BackendTakeAck ==
  /\ task[Backend] = "wait"
  /\ ackIn # <<>>
  /\ ackIn' = Tail(ackIn)
  /\ IF Matches(Backend, Head(ackIn)) THEN Confirm(Backend) ELSE UNCHANGED <<task, confirmed>>
  /\ UNCHANGED <<life, seq, cur, filter, ackOut, stopped, net, accepted, handing>>

-----------------------------------------------------------------------------
(* Incoming messages.                                                       *)

\* mutant: the number accepted last is accepted again.
AcceptsRepeated(n, m) ==
  \A p \in filter[n] : p.node = m.node /\ m.sn >= p.sn

\* mutant: nothing accepted yet is taken for number 0 accepted.
AcceptsFromZero(n, m) ==
  m.sn > 0 /\ \A p \in filter[n] : p.node = m.node /\ m.sn > p.sn

\* SnFilter::next: the first message pins the sender.
Accepts(n, m) ==
  \A p \in filter[n] : p.node = m.node /\ m.sn > p.sn

PayloadOf(m) == [node |-> m.node, sn |-> m.sn]

\* The payload is acknowledged before the filter sees it.
Filter(n, m) ==
  IF Accepts(n, m)
  THEN /\ filter' = [filter EXCEPT ![n] = {PayloadOf(m)}]
       /\ accepted' = [accepted EXCEPT ![n] = Append(@, PayloadOf(m))]
  ELSE UNCHANGED <<filter, accepted>>

\* mutant: acknowledgements are queued without a limit.
AlwaysQueued(q, e) == Append(q, e)

\* try_send into a bounded queue whose failure is ignored.
TryQueued(q, e) == IF Len(q) < AckLimit THEN Append(q, e) ELSE q

\* mutant: only what the filter accepts is acknowledged.
BackendAcksAccepted(m) ==
  /\ m.type = "normal"
  /\ ackOut' = IF Accepts(Backend, m) THEN TryQueued(ackOut, AckOf(Backend, m)) ELSE ackOut
  /\ Filter(Backend, m) /\ handing' = Accepts(Backend, m)
  /\ net' = Without(net, m)
  /\ UNCHANGED <<life, seq, task, cur, ackIn, stopped, confirmed>>

BackendReceive(m) ==
  /\ m.type = "normal"
  /\ ackOut' = IF stopped[Backend] = "ended" THEN ackOut ELSE TryQueued(ackOut, AckOf(Backend, m))
  /\ Filter(Backend, m) /\ handing' = Accepts(Backend, m)
  /\ net' = Without(net, m)
  /\ UNCHANGED <<life, seq, task, cur, ackIn, stopped, confirmed>>

\* message_handler(payload): the task that reads the acknowledgements to send is
\* another one and may have sent this payload's in between.
BackendHandOver ==
  /\ handing
  /\ handing' = FALSE
  /\ UNCHANGED <<endVars, net, accepted, confirmed>>

BackendReceiveAck(m) ==
  /\ m.type = "ack"
  /\ ackIn' = TryQueued(ackIn, m.sn)
  /\ net' = Without(net, m)
  /\ UNCHANGED <<life, seq, task, cur, filter, ackOut, stopped, accepted, handing, confirmed>>

BrowserReceive(m) ==
  /\ m.type = "normal"
  /\ net' = With(Without(net, m), AckOf(Browser, m))
  /\ Filter(Browser, m)
  /\ UNCHANGED <<life, seq, task, cur, ackOut, ackIn, stopped, handing, confirmed>>

BrowserReceiveAck(m) ==
  /\ m.type = "ack"
  /\ net' = Without(net, m)
  /\ IF Matches(Browser, m.sn) THEN Confirm(Browser) ELSE UNCHANGED <<task, confirmed>>
  /\ UNCHANGED <<life, seq, cur, filter, ackOut, ackIn, stopped, accepted, handing>>

Receive(m) ==
  /\ net[m] > 0
  /\ \/ m.to = Backend /\ ~handing /\ (BackendReceive(m) \/ BackendReceiveAck(m))
     \/ m.to = Browser /\ (BrowserReceive(m) \/ BrowserReceiveAck(m))

\* The ack_send task passes an acknowledgement on.
BackendSendAck ==
  /\ stopped[Backend] # "ended"
  /\ ackOut # <<>>
  /\ net' = With(net, Head(ackOut))
  /\ ackOut' = Tail(ackOut)
  /\ UNCHANGED <<life, seq, task, cur, filter, ackIn, stopped, accepted, handing, confirmed>>

-----------------------------------------------------------------------------
(* Stopping and restarting.                                                 *)

\* TransportHandlerControl::cancel stops the ack_send task and nothing else.
BackendCancel ==
  /\ Backend \in Stopping
  /\ stopped[Backend] = "no"
  /\ stopped' = [stopped EXCEPT ![Backend] = "cancelled"]
  /\ UNCHANGED <<life, seq, task, cur, filter, ackOut, ackIn, net, accepted, handing, confirmed>>

AckTaskEnds ==
  /\ stopped[Backend] = "cancelled"
  /\ stopped' = [stopped EXCEPT ![Backend] = "ended"]
  /\ ackOut' = <<>>
  /\ UNCHANGED <<life, seq, task, cur, filter, ackIn, net, accepted, handing, confirmed>>

\* stop() aborts the current send and every later one; what arrives is still
\* handled.
BrowserStop ==
  /\ Browser \in Stopping
  /\ stopped[Browser] = "no"
  /\ stopped' = [stopped EXCEPT ![Browser] = "ended"]
  /\ task' = [task EXCEPT ![Browser] = "idle"]
  /\ UNCHANGED <<life, seq, cur, filter, ackOut, ackIn, net, accepted, handing, confirmed>>

\* A page is reloaded, the backend is started again: a new handler.
Restart(n) ==
  /\ n \in Restarting
  /\ life[n] < MaxLives
  /\ life' = [life EXCEPT ![n] = @ + 1]
  /\ seq' = [seq EXCEPT ![n] = 0]
  /\ task' = [task EXCEPT ![n] = "idle"]
  /\ filter' = [filter EXCEPT ![n] = {}]
  /\ stopped' = [stopped EXCEPT ![n] = "no"]
  /\ IF n = Backend THEN ackOut' = <<>> /\ ackIn' = <<>> ELSE UNCHANGED <<ackOut, ackIn>>
  /\ handing' = (handing /\ n # Backend)
  /\ UNCHANGED <<cur, net, accepted, confirmed>>

-----------------------------------------------------------------------------
Next ==
  \/ BackendSend \/ BackendTransmit \/ BackendTimeout \/ BackendTakeAck \/ BackendSendAck \/ BackendHandOver
  \/ BrowserSend \/ BrowserTimeout \/ BrowserAbort
  \/ \E m \in Message : Receive(m) \/ Lose(m)
  \/ BackendCancel \/ AckTaskEnds \/ BrowserStop
  \/ \E n \in Node : Restart(n)

Spec == Init /\ [][Next]_vars

\* The message that an end is waiting to see acknowledged, and that ack.
ReceiveAwaited(n) == Receive(Normal(n, cur[n]))
ReceiveAwaitedAck(n) ==
  \E id \in NodeId : Receive([type |-> "ack", to |-> n, node |-> id, sn |-> cur[n]])

\* The runtime runs the tasks and fires the timers; a message that is sent again
\* and again is received some time; and select! chooses at random between its
\* ready arms, so a timeout does not always win against a queued acknowledgement.
FairSpec ==
  /\ Spec
  /\ WF_vars(BackendTransmit) /\ SF_vars(BackendTakeAck)
  /\ WF_vars(BackendTimeout) /\ WF_vars(BackendSendAck) /\ WF_vars(BackendHandOver)
  /\ WF_vars(BrowserTimeout)
  /\ \A n \in Node : SF_vars(ReceiveAwaited(n)) /\ SF_vars(ReceiveAwaitedAck(n))
-----------------------------------------------------------------------------
(* Properties.                                                              *)

WasAccepted(n, c) == \E i \in DOMAIN accepted[n] : accepted[n][i] = c

\* A send that returns Ok has been let through to the peer's program (not only
\* received and filtered out, and not taken for an earlier one's late
\* acknowledgement), for every sender that is not restarted, also when the
\* receiver is restarted or stopped in between.  The browser has called its
\* handler by then; the backend may be about to (handing), and if it ends in that
\* moment the payload is confirmed and lost.
ConfirmedWasDelivered ==
  \A n \in Node \ Restarting : \A c \in confirmed[n] : WasAccepted(Peer(n), c)

\* memo.md:261: "Use incoming acks to notify successful delivery", of every sender.
AckMeansDelivered ==
  \A n \in Node : \A c \in confirmed[n] : WasAccepted(Peer(n), c)

\* Both handlers, when neither is restarted, as the abstract service: a payload
\* counts as handed over when the filter has let it through.
serials == [n \in Node |-> [i \in DOMAIN accepted[n] |-> Serial(Peer(n), accepted[n][i].sn)]]
reported == [n \in Node |-> {Serial(n, c.sn) : c \in confirmed[n]}]

Delivery == INSTANCE OrderedDelivery WITH issued <- seq, handed <- serials, sure <- reported

\* Whatever the channel loses, repeats or reorders, the two handlers implement
\* ordered delivery with gaps.
RefinesDelivery == Delivery!Spec

\* A send comes to an end: the acknowledgement gets through, although both of
\* the backend's queues drop what they have no room for and old acknowledgements
\* may fill them.
EverySendEnds ==
  \A n \in Node : task[n] # "idle" ~> task[n] = "idle" \/ stopped[Peer(n)] # "no"
=============================================================================
