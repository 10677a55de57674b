----------------------- MODULE ReliableTransportProofs ----------------------
(***************************************************************************)
(* Proofs about ReliableTransport, for any bounds, any capacity of the     *)
(* acknowledgement queues and any choice of ends that restart or stop.     *)
(***************************************************************************)
EXTENDS ReliableTransport, TLAPS

LEMMA Ends ==
  /\ Backend # Browser /\ Backend \in Node /\ Browser \in Node
  /\ \A n \in Node : Peer(n) \in Node /\ Peer(Peer(n)) = n /\ Peer(n) # n
  /\ Peer(Backend) = Browser /\ Peer(Browser) = Backend
BY TransportAssumption DEF Node, Peer

-----------------------------------------------------------------------------
(* The channel and the queues.                                              *)

LEMMA WithType ==
  ASSUME NEW ch \in [Message -> 0..MaxCopies], NEW m \in Message
  PROVE  /\ With(ch, m) \in [Message -> 0..MaxCopies]
         /\ \A x \in Message : With(ch, m)[x] > 0 => ch[x] > 0 \/ x = m
BY TransportAssumption DEF With

LEMMA WithoutType ==
  ASSUME NEW ch \in [Message -> 0..MaxCopies], NEW m \in Message, ch[m] > 0
  PROVE  /\ Without(ch, m) \in [Message -> 0..MaxCopies]
         /\ \A x \in Message : Without(ch, m)[x] > 0 => ch[x] > 0
BY TransportAssumption DEF Without

LEMMA TryQueuedType ==
  ASSUME NEW S, NEW q \in Seq(S), NEW e \in S, Len(q) <= AckLimit
  PROVE  /\ TryQueued(q, e) \in Seq(S)
         /\ Len(TryQueued(q, e)) <= AckLimit
         /\ \A i \in DOMAIN TryQueued(q, e) :
              TryQueued(q, e)[i] = e \/ \E j \in DOMAIN q : TryQueued(q, e)[i] = q[j]
BY TransportAssumption DEF TryQueued

LEMMA TailType ==
  ASSUME NEW S, NEW q \in Seq(S), q # <<>>, Len(q) <= AckLimit
  PROVE  /\ Tail(q) \in Seq(S) /\ Len(Tail(q)) <= AckLimit
         /\ Head(q) \in S
         /\ \E j \in DOMAIN q : Head(q) = q[j]
         /\ \A i \in DOMAIN Tail(q) : \E j \in DOMAIN q : Tail(q)[i] = q[j]
<1>1. 1 \in DOMAIN q /\ Head(q) = q[1] /\ Head(q) \in S
  OBVIOUS
<1>2. Tail(q) \in Seq(S) /\ Len(Tail(q)) = Len(q) - 1 /\ Len(q) \in Nat
  OBVIOUS
<1>3. \A i \in DOMAIN Tail(q) : i + 1 \in DOMAIN q /\ Tail(q)[i] = q[i + 1]
  OBVIOUS
<1>4. QED BY <1>1, <1>2, <1>3, TransportAssumption

LEMMA MessageTypes ==
  ASSUME TypeOK, NEW n \in Node
  PROVE  /\ NodeIdOf(n) \in NodeId
         /\ \A s \in Sn : Normal(n, s) \in Message
         /\ \A m \in Message : AckOf(n, m) \in Message /\ PayloadOf(m) \in Payload
<1>1. NodeIdOf(n) \in NodeId
  BY DEF TypeOK, NodeIdOf, NodeId
<1>2. \A s \in Sn : Normal(n, s) \in Message
  BY <1>1, Ends DEF Normal, Message
<1>3. ASSUME NEW m \in Message
      PROVE  AckOf(n, m) \in Message /\ PayloadOf(m) \in Payload
  BY <1>1, <1>3, Ends DEF AckOf, PayloadOf, Payload, Message
<1>4. QED BY <1>1, <1>2, <1>3

LEMMA EntryTypes ==
  ASSUME TypeOK, NEW q \in Node
  PROVE  /\ \A p \in filter[q] : p \in Payload /\ p.sn \in Sn
         /\ \A i \in DOMAIN accepted[q] : accepted[q][i] \in Payload /\ accepted[q][i].sn \in Sn
<1>1. filter[q] \subseteq Payload /\ accepted[q] \in Seq(Payload)
  BY DEF TypeOK
<1>2. \A p \in Payload : p.sn \in Sn
  BY DEF Payload
<1>3. QED BY <1>1, <1>2

LEMMA SnTypes ==
  ASSUME TypeOK, NEW n \in Node, seq[n] < MaxSends
  PROVE  /\ NextSn(n) \in Sn
         /\ Serial(n, NextSn(n)) = seq[n] + 1
         /\ seq[n] + 1 \in 0..MaxSends
BY TransportAssumption DEF TypeOK, NextSn, Serial, Sn

-----------------------------------------------------------------------------
(* The inductive invariant.  What it says of a sender holds of those that   *)
(* are not restarted, whatever happens to the other end.                    *)

IssuedBy(n, p) == p.node = NodeIdOf(n) /\ Serial(n, p.sn) \in 1..seq[n]

\* Whatever is on its way to the peer or was handed to it was sent, and what is
\* being sent is the latest.
Issued ==
  \A n \in Node \ Restarting :
    /\ \A m \in Message : net[m] > 0 /\ m.type = "normal" /\ m.to = Peer(n)
                            => IssuedBy(n, PayloadOf(m))
    /\ \A i \in DOMAIN accepted[Peer(n)] : IssuedBy(n, accepted[Peer(n)][i])
    /\ task[n] # "idle" => seq[n] > 0 /\ Serial(n, cur[n]) = seq[n]

\* The filter's memory is of something that was handed over.
Filtered ==
  \A n \in Node \ Restarting : \A p \in filter[Peer(n)] : WasAccepted(Peer(n), p)

\* An acknowledgement of s is under way to n.
AckUnderWay(n, s) ==
  \/ \E m \in Message : net[m] > 0 /\ m.type = "ack" /\ m.to = n /\ m.sn = s
  \/ n = Browser /\ \E i \in DOMAIN ackOut : ackOut[i].sn = s
  \/ n = Backend /\ \E i \in DOMAIN ackIn : ackIn[i] = s

\* The peer has been handed s, or something later.
Reached(n, s) == \E i \in DOMAIN accepted[Peer(n)] : s <= accepted[Peer(n)][i].sn

AckedWasReached ==
  \A n \in Node \ Restarting : \A s \in Sn : AckUnderWay(n, s) => Reached(n, s)

AckQueue ==
  \A i \in DOMAIN ackOut : ackOut[i].type = "ack" /\ ackOut[i].to = Browser

IInv == /\ TypeOK
        /\ Issued
        /\ Filtered
        /\ AckQueue
        /\ AckedWasReached
        /\ ConfirmedWasDelivered

-----------------------------------------------------------------------------
(* Initially, and steps that change nothing.                                *)

LEMMA InitIInv == Init => IInv
<1> SUFFICES ASSUME Init PROVE IInv
  OBVIOUS
<1>1. TypeOK
  <2>1. ackOut \in Seq(Message) /\ Len(ackOut) <= AckLimit /\ ackIn \in Seq(Sn) /\ Len(ackIn) <= AckLimit
    BY TransportAssumption DEF Init
  <2>2. handing \in BOOLEAN
    BY DEF Init
  <2>3. QED BY <2>1, <2>2, TransportAssumption DEF Init, TypeOK, Sn
<1>2. \A n \in Node : accepted[Peer(n)] = <<>> /\ task[n] = "idle" /\ filter[Peer(n)] = {} /\ confirmed[n] = {}
  BY Ends DEF Init
<1>3. \A m \in Message : net[m] = 0
  BY DEF Init
<1>4. Issued /\ Filtered /\ ConfirmedWasDelivered
  BY <1>2, <1>3 DEF Issued, Filtered, ConfirmedWasDelivered
<1>5. AckQueue
  BY DEF Init, AckQueue
<1>6. AckedWasReached
  BY <1>3 DEF Init, AckedWasReached, AckUnderWay
<1>7. QED BY <1>1, <1>4, <1>5, <1>6 DEF IInv

LEMMA StutterIInv == IInv /\ UNCHANGED vars => IInv'
BY DEF vars, endVars, IInv, TypeOK, Issued, Filtered, AckQueue, AckedWasReached,
       ConfirmedWasDelivered, IssuedBy, NodeIdOf, AckUnderWay, Reached, WasAccepted

-----------------------------------------------------------------------------
(* Types are preserved.                                                     *)

LEMMA ConfirmType ==
  ASSUME TypeOK, NEW n \in Node, Confirm(n) \/ UNCHANGED <<task, confirmed>>
  PROVE  /\ task' \in [Node -> {"idle", "transmit", "wait"}]
         /\ confirmed' \in [Node -> SUBSET Payload]
<1>1. [node |-> NodeIdOf(n), sn |-> cur[n]] \in Payload
  BY MessageTypes DEF TypeOK, Payload
<1>2. CASE Confirm(n)
  BY <1>1, <1>2 DEF TypeOK, Confirm
<1>3. CASE UNCHANGED <<task, confirmed>>
  BY <1>3 DEF TypeOK
<1>4. QED BY <1>2, <1>3

LEMMA TypeStep == TypeOK /\ [Next]_vars => TypeOK'
<1> SUFFICES ASSUME TypeOK, [Next]_vars PROVE TypeOK'
  OBVIOUS
<1> USE Ends
<1>1. CASE BackendSend \/ BackendTransmit \/ BackendTimeout
  <2>1. CASE BackendSend
    BY <2>1, SnTypes DEF TypeOK, BackendSend, Begin
  <2>2. CASE BackendTransmit
    <3>1. Normal(Backend, cur[Backend]) \in Message
      BY MessageTypes DEF TypeOK
    <3>2. net' \in [Message -> 0..MaxCopies]
      BY <2>2, <3>1, WithType DEF TypeOK, BackendTransmit
    <3>3. QED BY <2>2, <3>2 DEF TypeOK, BackendTransmit
  <2>3. CASE BackendTimeout
    BY <2>3 DEF TypeOK, BackendTimeout
  <2>4. QED BY <1>1, <2>1, <2>2, <2>3
<1>2. CASE BackendTakeAck
  <2>1. ackIn' \in Seq(Sn) /\ Len(ackIn') <= AckLimit
    BY <1>2, TailType DEF TypeOK, BackendTakeAck
  <2>2. task' \in [Node -> {"idle", "transmit", "wait"}] /\ confirmed' \in [Node -> SUBSET Payload]
    BY <1>2, ConfirmType DEF BackendTakeAck
  <2>3. QED BY <1>2, <2>1, <2>2 DEF TypeOK, BackendTakeAck
<1>3. CASE BackendSendAck
  <2>1. ackOut' \in Seq(Message) /\ Len(ackOut') <= AckLimit /\ Head(ackOut) \in Message
    BY <1>3, TailType DEF TypeOK, BackendSendAck
  <2>2. net' \in [Message -> 0..MaxCopies]
    BY <1>3, <2>1, WithType DEF TypeOK, BackendSendAck
  <2>3. QED BY <1>3, <2>1, <2>2 DEF TypeOK, BackendSendAck
<1>4. CASE BrowserSend \/ BrowserTimeout \/ BrowserAbort
  <2>1. CASE BrowserSend
    <3>1. NextSn(Browser) \in Sn /\ seq[Browser] + 1 \in 0..MaxSends
      BY <2>1, SnTypes DEF BrowserSend, Begin
    <3>2. Normal(Browser, NextSn(Browser)) \in Message
      BY <3>1, MessageTypes
    <3>3. net' \in [Message -> 0..MaxCopies]
      BY <2>1, <3>2, WithType DEF TypeOK, BrowserSend
    <3>4. QED BY <2>1, <3>1, <3>3 DEF TypeOK, BrowserSend, Begin
  <2>2. CASE BrowserTimeout
    <3>1. Normal(Browser, cur[Browser]) \in Message
      BY MessageTypes DEF TypeOK
    <3>2. net' \in [Message -> 0..MaxCopies]
      BY <2>2, <3>1, WithType DEF TypeOK, BrowserTimeout
    <3>3. QED BY <2>2, <3>2 DEF TypeOK, BrowserTimeout, endVars
  <2>3. CASE BrowserAbort
    BY <2>3 DEF TypeOK, BrowserAbort
  <2>4. QED BY <1>4, <2>1, <2>2, <2>3
<1>5. ASSUME NEW m \in Message, Lose(m) PROVE TypeOK'
  <2>1. net' \in [Message -> 0..MaxCopies]
    BY <1>5, WithoutType DEF TypeOK, Lose
  <2>2. QED BY <1>5, <2>1 DEF TypeOK, Lose, endVars
<1>6. ASSUME NEW m \in Message, Receive(m) PROVE TypeOK'
  <2>1. Without(net, m) \in [Message -> 0..MaxCopies]
    BY <1>6, WithoutType DEF TypeOK, Receive
  <2>2. ASSUME NEW n \in Node, Filter(n, m)
        PROVE  filter' \in [Node -> SUBSET Payload] /\ accepted' \in [Node -> Seq(Payload)]
    <3>1. PayloadOf(m) \in Payload /\ accepted[n] \in Seq(Payload)
      BY MessageTypes DEF TypeOK
    <3>2. Append(accepted[n], PayloadOf(m)) \in Seq(Payload)
      BY <3>1
    <3>3. CASE Accepts(n, m)
      <4>1. /\ filter' = [filter EXCEPT ![n] = {PayloadOf(m)}]
            /\ accepted' = [accepted EXCEPT ![n] = Append(accepted[n], PayloadOf(m))]
        BY <2>2, <3>3 DEF Filter
      <4>2. QED BY <4>1, <3>1, <3>2 DEF TypeOK
    <3>4. CASE ~Accepts(n, m)
      BY <2>2, <3>4 DEF TypeOK, Filter
    <3>5. QED BY <3>3, <3>4
  <2>3. CASE BackendReceive(m)
    <3>1. AckOf(Backend, m) \in Message
      BY MessageTypes
    <3>2. ackOut' \in Seq(Message) /\ Len(ackOut') <= AckLimit
      <4>1. ackOut \in Seq(Message) /\ Len(ackOut) <= AckLimit
        BY DEF TypeOK
      <4>2. TryQueued(ackOut, AckOf(Backend, m)) \in Seq(Message) /\ Len(TryQueued(ackOut, AckOf(Backend, m))) <= AckLimit
        BY <3>1, <4>1, TryQueuedType
      <4>3. QED BY <2>3, <4>1, <4>2 DEF BackendReceive
    <3>3. Filter(Backend, m)
      BY <2>3 DEF BackendReceive
    <3>4. filter' \in [Node -> SUBSET Payload] /\ accepted' \in [Node -> Seq(Payload)]
      BY <2>2, <3>3
    <3>5. handing' \in BOOLEAN
      BY <2>3, Zenon DEF BackendReceive, Accepts
    <3>6. QED BY <2>3, <2>1, <3>2, <3>4, <3>5 DEF TypeOK, BackendReceive
  <2>4. CASE BackendReceiveAck(m)
    <3>1. ackIn' \in Seq(Sn) /\ Len(ackIn') <= AckLimit
      <4>1. m.sn \in Sn /\ ackIn \in Seq(Sn) /\ Len(ackIn) <= AckLimit
        BY DEF TypeOK, Message
      <4>2. QED BY <4>1, <2>4, TryQueuedType DEF BackendReceiveAck
    <3>2. QED BY <2>4, <2>1, <3>1 DEF TypeOK, BackendReceiveAck
  <2>5. CASE BrowserReceive(m)
    <3>1. AckOf(Browser, m) \in Message
      BY MessageTypes
    <3>2. net' \in [Message -> 0..MaxCopies]
      BY <2>5, <2>1, <3>1, WithType DEF BrowserReceive
    <3>3. Filter(Browser, m)
      BY <2>5 DEF BrowserReceive
    <3>4. filter' \in [Node -> SUBSET Payload] /\ accepted' \in [Node -> Seq(Payload)]
      BY <2>2, <3>3
    <3>5. QED BY <2>5, <3>2, <3>4 DEF TypeOK, BrowserReceive
  <2>6. CASE BrowserReceiveAck(m)
    <3>1. task' \in [Node -> {"idle", "transmit", "wait"}] /\ confirmed' \in [Node -> SUBSET Payload]
      BY <2>6, ConfirmType DEF BrowserReceiveAck
    <3>2. QED BY <2>6, <2>1, <3>1 DEF TypeOK, BrowserReceiveAck
  <2>7. QED BY <1>6, <2>3, <2>4, <2>5, <2>6 DEF Receive
<1>7. CASE BackendCancel \/ AckTaskEnds \/ BrowserStop
  <2>1. CASE BackendCancel
    BY <2>1 DEF TypeOK, BackendCancel
  <2>2. CASE AckTaskEnds
    BY <2>2, TransportAssumption DEF TypeOK, AckTaskEnds
  <2>3. CASE BrowserStop
    BY <2>3 DEF TypeOK, BrowserStop
  <2>4. QED BY <1>7, <2>1, <2>2, <2>3
<1>8. ASSUME NEW n \in Node, Restart(n) PROVE TypeOK'
  <2>1. ackOut' \in Seq(Message) /\ Len(ackOut') <= AckLimit /\ ackIn' \in Seq(Sn) /\ Len(ackIn') <= AckLimit
    <3>1. <<>> \in Seq(Message) /\ <<>> \in Seq(Sn) /\ Len(<<>>) = 0
      OBVIOUS
    <3>2. CASE n = Backend
      BY <1>8, <3>1, <3>2, TransportAssumption DEF Restart
    <3>3. CASE n # Backend
      BY <1>8, <3>3 DEF TypeOK, Restart
    <3>4. QED BY <3>2, <3>3
  <2>2. life' \in [Node -> 1..MaxLives] /\ seq' \in [Node -> 0..MaxSends]
    BY <1>8, TransportAssumption DEF TypeOK, Restart
  <2>3. QED BY <1>8, <2>1, <2>2 DEF TypeOK, Restart
<1>9. CASE UNCHANGED vars
  BY <1>9 DEF vars, endVars, TypeOK
<1>11. CASE BackendHandOver
  BY <1>11 DEF BackendHandOver, endVars, TypeOK
<1>10. QED
  BY <1>11, <1>1, <1>2, <1>3, <1>4, <1>5, <1>6, <1>7, <1>8, <1>9 DEF Next

-----------------------------------------------------------------------------
(* What a step can do to the five things the invariant relates.             *)

\* A sender keeps its identity, counts upwards, and sends its latest number.
LEMMA SenderStep ==
  ASSUME TypeOK, Next, NEW n \in Node \ Restarting
  PROVE  /\ life'[n] = life[n]
         /\ seq'[n] \in Nat /\ seq[n] <= seq'[n]
         /\ task'[n] # "idle" => \/ /\ task[n] # "idle"
                                    /\ seq'[n] = seq[n] /\ cur'[n] = cur[n]
                                 \/ seq'[n] > 0 /\ Serial(n, cur'[n]) = seq'[n]
<1> USE Ends
<1>1. seq[n] \in Nat
  BY DEF TypeOK
<1>2. CASE BackendSend \/ BrowserSend
  <2>1. ASSUME NEW e \in Node, Begin(e), life' = life, \E t : task' = [task EXCEPT ![e] = t]
        PROVE  /\ life'[n] = life[n]
               /\ seq'[n] \in Nat /\ seq[n] <= seq'[n]
               /\ task'[n] # "idle" => \/ /\ task[n] # "idle"
                                          /\ seq'[n] = seq[n] /\ cur'[n] = cur[n]
                                       \/ seq'[n] > 0 /\ Serial(n, cur'[n]) = seq'[n]
    <3>1. Serial(e, NextSn(e)) = seq[e] + 1
      BY <2>1, SnTypes DEF Begin
    <3>2. seq'[e] = seq[e] + 1 /\ cur'[e] = NextSn(e)
      BY <2>1 DEF Begin, TypeOK
    <3>3. n # e => seq'[n] = seq[n] /\ cur'[n] = cur[n] /\ task'[n] = task[n]
      BY <2>1 DEF Begin, TypeOK
    <3>4. QED BY <1>1, <2>1, <3>1, <3>2, <3>3
  <2>2. QED BY <1>2, <2>1 DEF BackendSend, BrowserSend
<1>3. CASE BackendTransmit \/ BackendTimeout \/ BackendTakeAck \/ BackendSendAck
           \/ BrowserTimeout \/ BrowserAbort \/ BackendHandOver
  BY <1>1, <1>3 DEF BackendHandOver, BackendTransmit, BackendTimeout, BackendTakeAck, BackendSendAck,
       BrowserTimeout, BrowserAbort, Confirm, endVars, TypeOK
<1>4. ASSUME NEW m \in Message, Receive(m) \/ Lose(m)
      PROVE  life' = life /\ seq' = seq /\ cur' = cur
             /\ (task'[n] # "idle" => task[n] # "idle")
  BY <1>4 DEF Receive, BackendReceive, BackendReceiveAck, BrowserReceive, BrowserReceiveAck,
       Confirm, Lose, endVars, TypeOK
<1>5. CASE BackendCancel \/ AckTaskEnds \/ BrowserStop
  BY <1>1, <1>5 DEF BackendCancel, AckTaskEnds, BrowserStop, TypeOK
<1>6. ASSUME NEW e \in Node, Restart(e)
      PROVE  life'[n] = life[n] /\ seq'[n] = seq[n] /\ cur' = cur /\ task'[n] = task[n]
  BY <1>6 DEF Restart, TypeOK
<1>7. QED
  <2>1. CASE \E m \in Message : Receive(m) \/ Lose(m)
    BY <1>1, <1>4, <2>1
  <2>2. CASE \E e \in Node : Restart(e)
    BY <1>1, <1>6, <2>2
  <2>3. QED BY <1>2, <1>3, <1>5, <2>1, <2>2 DEF Next

\* What is new in the channel for the peer is the sender's latest payload.
LEMMA ChannelStep ==
  ASSUME TypeOK, Issued, AckQueue, Next, NEW n \in Node \ Restarting,
         NEW x \in Message, x.type = "normal", x.to = Peer(n), net'[x] > 0, ~(net[x] > 0)
  PROVE  x.node = NodeIdOf(n) /\ Serial(n, x.sn) = seq'[n] /\ seq'[n] > 0
<1> USE Ends
<1>1. CASE BackendTransmit \/ BrowserTimeout
  <2>1. PICK e \in Node : /\ net' = With(net, Normal(e, cur[e])) /\ seq' = seq
                          /\ task[e] # "idle"
    BY <1>1 DEF BackendTransmit, BrowserTimeout, endVars
  <2>2. Normal(e, cur[e]) \in Message
    BY MessageTypes DEF TypeOK
  <2>3. x = Normal(e, cur[e])
    BY <2>1, <2>2, WithType DEF TypeOK
  <2>4. e = n
    BY <2>3 DEF Normal, Peer, Node
  <2>5. QED BY <2>1, <2>3, <2>4 DEF Issued, Normal
<1>2. CASE BrowserSend
  <2>1. NextSn(Browser) \in Sn /\ Serial(Browser, NextSn(Browser)) = seq[Browser] + 1
    BY <1>2, SnTypes DEF BrowserSend, Begin
  <2>2. Normal(Browser, NextSn(Browser)) \in Message
    BY <2>1, MessageTypes
  <2>3. x = Normal(Browser, NextSn(Browser))
    BY <1>2, <2>2, WithType DEF TypeOK, BrowserSend
  <2>4. n = Browser
    BY <2>3 DEF Normal, Peer, Node
  <2>5. seq'[n] = seq[n] + 1 /\ seq[n] \in Nat
    BY <1>2, <2>4 DEF BrowserSend, Begin, TypeOK
  <2>6. QED BY <2>1, <2>3, <2>4, <2>5 DEF Normal
<1>3. CASE BackendSendAck
  <2>1. Head(ackOut) \in Message /\ \E j \in DOMAIN ackOut : Head(ackOut) = ackOut[j]
    BY <1>3, TailType DEF TypeOK, BackendSendAck
  <2>2. Head(ackOut).type = "ack"
    BY <2>1 DEF AckQueue
  <2>3. x = Head(ackOut)
    BY <1>3, <2>1, WithType DEF TypeOK, BackendSendAck
  <2>4. QED BY <2>2, <2>3
<1>4. ASSUME NEW m \in Message, Receive(m) PROVE FALSE
  <2>1. \A y \in Message : Without(net, m)[y] > 0 => net[y] > 0
    BY <1>4, WithoutType DEF Receive, TypeOK
  <2>2. CASE BrowserReceive(m)
    <3>1. Without(net, m) \in [Message -> 0..MaxCopies] /\ AckOf(Browser, m) \in Message
      BY <1>4, WithoutType, MessageTypes DEF Receive, TypeOK
    <3>2. x = AckOf(Browser, m)
      BY <2>1, <2>2, <3>1, WithType DEF BrowserReceive
    <3>3. QED BY <3>2 DEF AckOf
  <2>3. QED BY <1>4, <2>1, <2>2 DEF Receive, BackendReceive, BackendReceiveAck, BrowserReceiveAck
<1>5. ASSUME NEW m \in Message, Lose(m) PROVE FALSE
  BY <1>5, WithoutType DEF Lose, TypeOK
<1>6. CASE UNCHANGED net
  BY <1>6
<1>7. QED
  BY <1>1, <1>2, <1>3, <1>4, <1>5, <1>6
     DEF Next, BackendHandOver, BackendSend, BackendTimeout, BackendTakeAck, BrowserAbort, BackendCancel,
         AckTaskEnds, BrowserStop, Restart

\* The handler takes m from the channel and lets the filter decide about it.
Taken(q, m) == net[m] > 0 /\ m.type = "normal" /\ m.to = q /\ Filter(q, m)

Untouched(q) == /\ accepted'[q] = accepted[q]
                /\ filter'[q] = filter[q] \/ (filter'[q] = {} /\ q \in Restarting)

\* Otherwise a handler hands over nothing, and its filter forgets at most.
LEMMA ReceiverStep ==
  ASSUME TypeOK, Next, NEW q \in Node
  PROVE  \/ \E m \in Message : Taken(q, m)
         \/ Untouched(q)
<1> USE Ends
<1>1. ASSUME NEW m \in Message, Receive(m)
      PROVE  \/ Taken(q, m)
             \/ Untouched(q)
  <2>1. ASSUME NEW e \in Node, Filter(e, m), e # q
        PROVE  Untouched(q)
    BY <2>1 DEF Filter, Untouched, TypeOK
  <2>2. CASE m.to = Backend /\ BackendReceive(m)
    BY <1>1, <2>1, <2>2 DEF Receive, BackendReceive, Taken, Node
  <2>3. CASE m.to = Browser /\ BrowserReceive(m)
    BY <1>1, <2>1, <2>3 DEF Receive, BrowserReceive, Taken, Node
  <2>4. CASE BackendReceiveAck(m) \/ BrowserReceiveAck(m)
    BY <2>4 DEF Untouched, BackendReceiveAck, BrowserReceiveAck
  <2>5. QED BY <1>1, <2>2, <2>3, <2>4 DEF Receive
<1>2. ASSUME NEW e \in Node, Restart(e)
      PROVE  Untouched(q)
  BY <1>2 DEF Restart, Untouched, TypeOK
<1>3. CASE UNCHANGED <<accepted, filter>>
  BY <1>3 DEF Untouched
<1>4. QED
  BY <1>1, <1>2, <1>3
     DEF Next, BackendHandOver, BackendSend, BackendTransmit, BackendTimeout, BackendTakeAck, BackendSendAck,
         BrowserSend, BrowserTimeout, BrowserAbort, BackendCancel, AckTaskEnds, BrowserStop,
         Lose, endVars

\* What was handed over stays handed over; a step adds a payload at most.
LEMMA DeliveredGrows ==
  ASSUME TypeOK, Next, NEW q \in Node
  PROVE  /\ \A i \in DOMAIN accepted[q] :
              i \in DOMAIN accepted'[q] /\ accepted'[q][i] = accepted[q][i]
         /\ \A i \in DOMAIN accepted'[q] :
              \/ i \in DOMAIN accepted[q] /\ accepted'[q][i] = accepted[q][i]
              \/ \E m \in Message : Taken(q, m) /\ accepted'[q][i] = PayloadOf(m)
<1>1. accepted[q] \in Seq(Payload)
  BY DEF TypeOK
<1>2. ASSUME NEW m \in Message, Taken(q, m), accepted'[q] # accepted[q]
      PROVE  accepted'[q] = Append(accepted[q], PayloadOf(m)) /\ PayloadOf(m) \in Payload
  BY <1>2, MessageTypes DEF Taken, Filter, TypeOK
<1>3. CASE accepted'[q] = accepted[q]
  BY <1>3
<1>4. ASSUME NEW m \in Message, Taken(q, m), accepted'[q] # accepted[q]
      PROVE  /\ \A i \in DOMAIN accepted[q] :
                  i \in DOMAIN accepted'[q] /\ accepted'[q][i] = accepted[q][i]
             /\ \A i \in DOMAIN accepted'[q] :
                  \/ i \in DOMAIN accepted[q] /\ accepted'[q][i] = accepted[q][i]
                  \/ accepted'[q][i] = PayloadOf(m)
  BY <1>1, <1>2, <1>4
<1>5. QED BY <1>3, <1>4, ReceiverStep DEF Untouched

LEMMA ReachedStays ==
  ASSUME TypeOK, Next, NEW n \in Node, NEW s \in Sn, Reached(n, s)
  PROVE  Reached(n, s)'
BY DeliveredGrows, Ends DEF Reached

\* Whatever the filter says, the receiver has then been handed that payload or
\* something later from the same sender.
LEMMA TakenIsReached ==
  ASSUME TypeOK, Next, Issued, Filtered, NEW n \in Node \ Restarting,
         NEW m \in Message, Taken(Peer(n), m)
  PROVE  Reached(n, m.sn)'
<1> DEFINE q == Peer(n)
<1>1. q \in Node /\ Peer(q) = n
  BY Ends
<1>2. CASE Accepts(q, m)
  <2>1. accepted'[q] = Append(accepted[q], PayloadOf(m))
    BY <1>1, <1>2 DEF Taken, Filter, TypeOK
  <2>2. accepted[q] \in Seq(Payload) /\ PayloadOf(m) \in Payload
    BY <1>1, MessageTypes DEF TypeOK
  <2>3. Len(accepted[q]) + 1 \in DOMAIN accepted'[q]
        /\ accepted'[q][Len(accepted[q]) + 1] = PayloadOf(m)
    BY <2>1, <2>2
  <2>4. m.sn <= PayloadOf(m).sn
    BY DEF PayloadOf, Message, Sn
  <2>5. QED BY <2>3, <2>4 DEF Reached
<1>3. CASE ~Accepts(q, m)
  <2>1. PICK p \in filter[q] : ~(p.node = m.node /\ m.sn > p.sn)
    BY <1>3 DEF Accepts
  <2>2. PICK i \in DOMAIN accepted[q] : accepted[q][i] = p
    BY <2>1, <1>1 DEF Filtered, WasAccepted
  <2>3. p.node = NodeIdOf(n)
    BY <2>2 DEF Issued, IssuedBy
  <2>4. m.node = NodeIdOf(n)
    BY <1>1 DEF Issued, IssuedBy, Taken, PayloadOf
  <2>5. p \in Payload
    BY <2>1, <1>1 DEF TypeOK
  <2>6. m.sn <= p.sn
    BY <2>1, <2>3, <2>4, <2>5 DEF Message, Payload, Sn
  <2>7. i \in DOMAIN accepted'[q] /\ accepted'[q][i] = p
    BY <2>2, <1>1, DeliveredGrows
  <2>8. QED BY <2>6, <2>7 DEF Reached
<1>4. QED BY <1>2, <1>3

-----------------------------------------------------------------------------
(* The parts of the invariant are preserved.                                *)

LEMMA IssuedStep ==
  ASSUME TypeOK, Issued, AckQueue, Next
  PROVE  Issued'
<1> SUFFICES ASSUME NEW n \in Node \ Restarting
             PROVE  /\ \A m \in Message : net'[m] > 0 /\ m.type = "normal" /\ m.to = Peer(n)
                                            => IssuedBy(n, PayloadOf(m))'
                    /\ \A i \in DOMAIN accepted'[Peer(n)] : IssuedBy(n, accepted[Peer(n)][i])'
                    /\ task'[n] # "idle" => seq'[n] > 0 /\ Serial(n, cur'[n]) = seq'[n]
  BY DEF Issued
<1>1. NodeIdOf(n)' = NodeIdOf(n) /\ seq'[n] \in Nat /\ seq[n] \in Nat /\ seq[n] <= seq'[n]
  BY SenderStep DEF NodeIdOf, TypeOK
<1>2. \A p \in Payload : IssuedBy(n, p) => p.node = NodeIdOf(n)' /\ Serial(n, p.sn) \in 1..seq'[n]
  BY <1>1 DEF IssuedBy, Serial, Payload, Sn
<1>3. ASSUME NEW m \in Message, net'[m] > 0, m.type = "normal", m.to = Peer(n)
      PROVE  IssuedBy(n, PayloadOf(m))'
  <2>1. PayloadOf(m) \in Payload /\ PayloadOf(m).node = m.node /\ PayloadOf(m).sn = m.sn
    BY MessageTypes DEF PayloadOf
  <2>2. CASE net[m] > 0
    BY <2>1, <2>2, <1>2, <1>3 DEF Issued, IssuedBy
  <2>3. CASE ~(net[m] > 0)
    <3>1. m.node = NodeIdOf(n) /\ Serial(n, m.sn) = seq'[n] /\ seq'[n] > 0
      BY <1>3, <2>3, ChannelStep
    <3>2. QED BY <3>1, <2>1, <1>1 DEF IssuedBy
  <2>4. QED BY <2>2, <2>3
<1>4. ASSUME NEW i \in DOMAIN accepted'[Peer(n)]
      PROVE  IssuedBy(n, accepted[Peer(n)][i])'
  <2>1. CASE i \in DOMAIN accepted[Peer(n)] /\ accepted'[Peer(n)][i] = accepted[Peer(n)][i]
    <3>1. accepted[Peer(n)][i] \in Payload
      BY <2>1, Ends DEF TypeOK
    <3>2. QED BY <2>1, <3>1, <1>2 DEF Issued, IssuedBy
  <2>2. ASSUME NEW m \in Message, Taken(Peer(n), m), accepted'[Peer(n)][i] = PayloadOf(m)
        PROVE  IssuedBy(n, accepted[Peer(n)][i])'
    <3>1. IssuedBy(n, PayloadOf(m)) /\ PayloadOf(m) \in Payload
      BY <2>2, MessageTypes DEF Issued, Taken
    <3>2. QED BY <2>2, <3>1, <1>2 DEF IssuedBy
  <2>3. QED BY <2>1, <2>2, <1>4, DeliveredGrows, Ends
<1>5. task'[n] # "idle" => seq'[n] > 0 /\ Serial(n, cur'[n]) = seq'[n]
  BY SenderStep DEF Issued
<1>6. QED BY <1>3, <1>4, <1>5

LEMMA FilteredStep ==
  ASSUME TypeOK, Filtered, Next
  PROVE  Filtered'
<1> SUFFICES ASSUME NEW n \in Node \ Restarting, NEW p \in filter'[Peer(n)]
             PROVE  WasAccepted(Peer(n), p)'
  BY DEF Filtered
<1>1. Peer(n) \in Node
  BY Ends
<1>2. CASE p \in filter[Peer(n)]
  BY <1>1, <1>2, DeliveredGrows DEF Filtered, WasAccepted
<1>3. CASE p \notin filter[Peer(n)]
  <2>1. PICK m \in Message : Taken(Peer(n), m)
    BY <1>1, <1>3, ReceiverStep DEF Untouched
  <2>2. p = PayloadOf(m) /\ accepted'[Peer(n)] = Append(accepted[Peer(n)], PayloadOf(m))
    <3>1. CASE Accepts(Peer(n), m)
      BY <1>1, <1>3, <2>1, <3>1 DEF Taken, Filter, TypeOK
    <3>2. CASE ~Accepts(Peer(n), m)
      BY <1>1, <1>3, <2>1, <3>2 DEF Taken, Filter, TypeOK
    <3>3. QED BY <3>1, <3>2
  <2>3. accepted[Peer(n)] \in Seq(Payload) /\ PayloadOf(m) \in Payload
    BY <1>1, MessageTypes DEF TypeOK
  <2>4. QED BY <2>2, <2>3 DEF WasAccepted
<1>4. QED BY <1>2, <1>3

LEMMA AckQueueStep ==
  ASSUME TypeOK, AckQueue, Next
  PROVE  AckQueue'
<1>1. ackOut \in Seq(Message) /\ Len(ackOut) <= AckLimit
  BY DEF TypeOK
<1>2. ASSUME NEW m \in Message, BackendReceive(m)
      PROVE  AckQueue'
  <2>1. AckOf(Backend, m) \in Message
        /\ AckOf(Backend, m).type = "ack" /\ AckOf(Backend, m).to = Browser
    BY MessageTypes, Ends DEF AckOf
  <2>2. \A i \in DOMAIN ackOut' : ackOut'[i] = AckOf(Backend, m) \/ \E j \in DOMAIN ackOut : ackOut'[i] = ackOut[j]
    <3>1. \A e \in Message : \A i \in DOMAIN TryQueued(ackOut, e) :
            TryQueued(ackOut, e)[i] = e \/ \E j \in DOMAIN ackOut : TryQueued(ackOut, e)[i] = ackOut[j]
      BY <1>1, TryQueuedType
    <3>2. ackOut' = ackOut \/ ackOut' = TryQueued(ackOut, AckOf(Backend, m))
      BY <1>2 DEF BackendReceive
    <3>3. QED BY <2>1, <3>1, <3>2
  <2>3. QED BY <2>1, <2>2 DEF AckQueue
<1>3. CASE BackendSendAck
  BY <1>1, <1>3, TailType DEF AckQueue, BackendSendAck
<1>4. CASE ackOut' = <<>> \/ ackOut' = ackOut
  BY <1>4 DEF AckQueue
<1>5. QED
  BY <1>2, <1>3, <1>4
     DEF Next, BackendHandOver, BackendSend, BackendTransmit, BackendTimeout, BackendTakeAck, BrowserSend,
         BrowserTimeout, BrowserAbort, Receive, BackendReceiveAck, BrowserReceive,
         BrowserReceiveAck, Lose, BackendCancel, AckTaskEnds, BrowserStop, Restart, endVars

\* An acknowledgement that enters the channel comes from the backend's queue or
\* answers what the browser has just taken.
LEMMA AckEntersChannel ==
  ASSUME TypeOK, AckQueue, Next,
         NEW x \in Message, x.type = "ack", net'[x] > 0, ~(net[x] > 0)
  PROVE  \/ x.to = Browser /\ \E i \in DOMAIN ackOut : ackOut[i] = x
         \/ x.to = Backend /\ \E m \in Message : Taken(Browser, m) /\ x.sn = m.sn
<1> USE Ends
<1>1. \A e \in Node, k \in Sn : net' # With(net, Normal(e, k))
  <2>1. SUFFICES ASSUME NEW e \in Node, NEW k \in Sn, net' = With(net, Normal(e, k))
                 PROVE  FALSE
    OBVIOUS
  <2>2. Normal(e, k) \in Message /\ Normal(e, k).type = "normal"
    BY MessageTypes DEF Normal
  <2>3. QED BY <2>1, <2>2, WithType DEF TypeOK
<1>2. CASE BackendTransmit \/ BrowserTimeout
  BY <1>1, <1>2 DEF BackendTransmit, BrowserTimeout, TypeOK
<1>3. CASE BrowserSend
  <2>1. NextSn(Browser) \in Sn
    BY <1>3, SnTypes DEF BrowserSend, Begin
  <2>2. QED BY <1>1, <1>3, <2>1 DEF BrowserSend
<1>4. CASE BackendSendAck
  <2>1. Head(ackOut) \in Message /\ \E j \in DOMAIN ackOut : Head(ackOut) = ackOut[j]
    BY <1>4, TailType DEF TypeOK, BackendSendAck
  <2>2. x = Head(ackOut)
    BY <1>4, <2>1, WithType DEF TypeOK, BackendSendAck
  <2>3. QED BY <2>1, <2>2 DEF AckQueue
<1>5. ASSUME NEW m \in Message, Receive(m)
      PROVE  x.to = Backend /\ Taken(Browser, m) /\ x.sn = m.sn
  <2>1. Without(net, m) \in [Message -> 0..MaxCopies]
        /\ \A y \in Message : Without(net, m)[y] > 0 => net[y] > 0
    BY <1>5, WithoutType DEF Receive, TypeOK
  <2>2. m.to = Browser /\ BrowserReceive(m)
    BY <1>5, <2>1 DEF Receive, BackendReceive, BackendReceiveAck, BrowserReceiveAck
  <2>3. AckOf(Browser, m) \in Message
    BY MessageTypes
  <2>4. x = AckOf(Browser, m)
    BY <2>1, <2>2, <2>3, WithType DEF BrowserReceive
  <2>5. QED BY <1>5, <2>2, <2>4 DEF AckOf, Taken, Receive, BrowserReceive
<1>6. ASSUME NEW m \in Message, Lose(m) PROVE FALSE
  BY <1>6, WithoutType DEF Lose, TypeOK
<1>7. CASE UNCHANGED net
  BY <1>7
<1>8. QED
  BY <1>2, <1>3, <1>4, <1>5, <1>6, <1>7
     DEF Next, BackendHandOver, BackendSend, BackendTimeout, BackendTakeAck, BrowserAbort, BackendCancel,
         AckTaskEnds, BrowserStop, Restart

\* The queues of acknowledgements: what enters them was in the channel, or
\* answers what the backend has just taken.
LEMMA AckEntersQueue ==
  ASSUME TypeOK, Next
  PROVE  /\ \A i \in DOMAIN ackOut' :
              \/ \E j \in DOMAIN ackOut : ackOut'[i] = ackOut[j]
              \/ \E m \in Message : Taken(Backend, m) /\ ackOut'[i].sn = m.sn
         /\ \A i \in DOMAIN ackIn' :
              \/ \E j \in DOMAIN ackIn : ackIn'[i] = ackIn[j]
              \/ \E m \in Message : /\ net[m] > 0 /\ m.type = "ack" /\ m.to = Backend
                                    /\ ackIn'[i] = m.sn
<1> DEFINE OutFrom == \A i \in DOMAIN ackOut' :
              \/ \E j \in DOMAIN ackOut : ackOut'[i] = ackOut[j]
              \/ \E m \in Message : Taken(Backend, m) /\ ackOut'[i].sn = m.sn
           InFrom == \A i \in DOMAIN ackIn' :
              \/ \E j \in DOMAIN ackIn : ackIn'[i] = ackIn[j]
              \/ \E m \in Message : /\ net[m] > 0 /\ m.type = "ack" /\ m.to = Backend
                                    /\ ackIn'[i] = m.sn
<1>1. ackOut \in Seq(Message) /\ Len(ackOut) <= AckLimit /\ ackIn \in Seq(Sn) /\ Len(ackIn) <= AckLimit
  BY DEF TypeOK
<1>2. ASSUME NEW m \in Message, Receive(m), BackendReceive(m), m.to = Backend
      PROVE  OutFrom /\ ackIn' = ackIn
  <2>1. \A e \in Message : \A i \in DOMAIN TryQueued(ackOut, e) :
          TryQueued(ackOut, e)[i] = e \/ \E j \in DOMAIN ackOut : TryQueued(ackOut, e)[i] = ackOut[j]
    BY <1>1, TryQueuedType
  <2>2. AckOf(Backend, m) \in Message /\ AckOf(Backend, m).sn = m.sn
    BY MessageTypes, Ends DEF AckOf
  <2>3. Taken(Backend, m)
    BY <1>2 DEF Taken, Receive, BackendReceive
  <2>4. ackOut' = ackOut \/ ackOut' = TryQueued(ackOut, AckOf(Backend, m))
    BY <1>2 DEF BackendReceive
  <2>5. QED BY <1>2, <2>1, <2>2, <2>3, <2>4 DEF BackendReceive
<1>3. ASSUME NEW m \in Message, Receive(m), BackendReceiveAck(m), m.to = Backend
      PROVE  InFrom /\ ackOut' = ackOut
  <2>1. \A e \in Sn : \A i \in DOMAIN TryQueued(ackIn, e) :
          TryQueued(ackIn, e)[i] = e \/ \E j \in DOMAIN ackIn : TryQueued(ackIn, e)[i] = ackIn[j]
    BY <1>1, TryQueuedType
  <2>2. m.sn \in Sn
    BY DEF Message
  <2>3. \A i \in DOMAIN ackIn' : ackIn'[i] = m.sn \/ \E j \in DOMAIN ackIn : ackIn'[i] = ackIn[j]
    BY <1>3, <2>1, <2>2 DEF BackendReceiveAck
  <2>4. net[m] > 0 /\ m.type = "ack"
    BY <1>3 DEF Receive, BackendReceiveAck
  <2>5. QED BY <1>3, <2>3, <2>4 DEF BackendReceiveAck
<1>4. CASE BackendSendAck
  BY <1>1, <1>4, TailType DEF BackendSendAck
<1>5. CASE BackendTakeAck
  BY <1>1, <1>5, TailType DEF BackendTakeAck
<1>6. CASE (ackOut' = <<>> \/ ackOut' = ackOut) /\ (ackIn' = <<>> \/ ackIn' = ackIn)
  BY <1>6
<1>7. ASSUME NEW n \in Node, Restart(n)
      PROVE  (ackOut' = <<>> \/ ackOut' = ackOut) /\ (ackIn' = <<>> \/ ackIn' = ackIn)
  BY <1>7 DEF Restart
<1> HIDE DEF OutFrom, InFrom
<1>8. ackOut' = ackOut => OutFrom
  BY DEF OutFrom
<1>9. ackIn' = ackIn => InFrom
  BY DEF InFrom
<1>10. OutFrom /\ InFrom
  <2>1. ASSUME NEW m \in Message, Receive(m) PROVE OutFrom /\ InFrom
    BY <1>2, <1>3, <1>8, <1>9, <2>1 DEF Receive, BrowserReceive, BrowserReceiveAck
  <2>2. CASE BackendSendAck \/ BackendTakeAck
    BY <1>4, <1>5, <2>2 DEF OutFrom, InFrom
  <2>3. CASE (ackOut' = <<>> \/ ackOut' = ackOut) /\ (ackIn' = <<>> \/ ackIn' = ackIn)
    BY <1>6, <2>3 DEF OutFrom, InFrom
  <2>4. QED
    BY <2>1, <2>2, <2>3, <1>7
       DEF Next, BackendHandOver, BackendSend, BackendTransmit, BackendTimeout, BrowserSend, BrowserTimeout,
           BrowserAbort, Lose, BackendCancel, AckTaskEnds, BrowserStop, endVars
<1>11. QED BY <1>10 DEF OutFrom, InFrom

LEMMA AckedStep ==
  ASSUME TypeOK, Issued, Filtered, AckQueue, AckedWasReached, Next
  PROVE  AckedWasReached'
<1> SUFFICES ASSUME NEW n \in Node \ Restarting, NEW s \in Sn, AckUnderWay(n, s)'
             PROVE  Reached(n, s)'
  BY DEF AckedWasReached
<1> USE Ends
<1>1. ASSUME AckUnderWay(n, s) PROVE Reached(n, s)'
  BY <1>1, ReachedStays DEF AckedWasReached
<1>2. ASSUME NEW m \in Message, Taken(Peer(n), m), m.sn = s PROVE Reached(n, s)'
  BY <1>2, TakenIsReached
<1>3. ASSUME NEW x \in Message, net'[x] > 0, x.type = "ack", x.to = n, x.sn = s
      PROVE  Reached(n, s)'
  <2>1. CASE net[x] > 0
    BY <1>1, <1>3, <2>1 DEF AckUnderWay
  <2>2. CASE ~(net[x] > 0)
    <3>1. \/ x.to = Browser /\ \E i \in DOMAIN ackOut : ackOut[i] = x
          \/ x.to = Backend /\ \E m \in Message : Taken(Browser, m) /\ x.sn = m.sn
      BY <1>3, <2>2, AckEntersChannel
    <3>2. CASE x.to = Browser /\ \E i \in DOMAIN ackOut : ackOut[i] = x
      BY <1>1, <1>3, <3>2 DEF AckUnderWay
    <3>3. CASE x.to = Backend /\ \E m \in Message : Taken(Browser, m) /\ x.sn = m.sn
      BY <1>2, <1>3, <3>3
    <3>4. QED BY <3>1, <3>2, <3>3
  <2>3. QED BY <2>1, <2>2
<1>4. ASSUME n = Browser, NEW i \in DOMAIN ackOut', ackOut'[i].sn = s
      PROVE  Reached(n, s)'
  <2>1. CASE \E j \in DOMAIN ackOut : ackOut'[i] = ackOut[j]
    BY <1>1, <1>4, <2>1 DEF AckUnderWay
  <2>2. CASE \E m \in Message : Taken(Backend, m) /\ ackOut'[i].sn = m.sn
    BY <1>2, <1>4, <2>2
  <2>3. QED BY <2>1, <2>2, AckEntersQueue
<1>5. ASSUME n = Backend, NEW i \in DOMAIN ackIn', ackIn'[i] = s
      PROVE  Reached(n, s)'
  <2>1. CASE \E j \in DOMAIN ackIn : ackIn'[i] = ackIn[j]
    BY <1>1, <1>5, <2>1 DEF AckUnderWay
  <2>2. CASE \E m \in Message : net[m] > 0 /\ m.type = "ack" /\ m.to = Backend /\ ackIn'[i] = m.sn
    BY <1>1, <1>5, <2>2 DEF AckUnderWay
  <2>3. QED BY <2>1, <2>2, AckEntersQueue
<1>6. QED BY <1>3, <1>4, <1>5 DEF AckUnderWay

\* A send that is confirmed was waiting for an acknowledgement under way.
LEMMA ConfirmingStep ==
  ASSUME TypeOK, Next, NEW n \in Node
  PROVE  \/ confirmed'[n] = confirmed[n]
         \/ /\ task[n] # "idle" /\ AckUnderWay(n, cur[n])
            /\ confirmed'[n] = confirmed[n] \cup {[node |-> NodeIdOf(n), sn |-> cur[n]]}
<1> USE Ends
<1>1. CASE BackendTakeAck
  <2>1. ackIn \in Seq(Sn) /\ Len(ackIn) <= AckLimit
    BY DEF TypeOK
  <2>2. \E j \in DOMAIN ackIn : Head(ackIn) = ackIn[j]
    BY <1>1, <2>1, TailType DEF BackendTakeAck
  <2>3. CASE Matches(Backend, Head(ackIn))
    BY <1>1, <2>2, <2>3 DEF BackendTakeAck, Matches, Confirm, AckUnderWay, TypeOK
  <2>4. CASE ~Matches(Backend, Head(ackIn))
    BY <1>1, <2>4 DEF BackendTakeAck
  <2>5. QED BY <2>3, <2>4
<1>2. ASSUME NEW m \in Message, Receive(m), BrowserReceiveAck(m), m.to = Browser
      PROVE  \/ confirmed'[n] = confirmed[n]
             \/ /\ task[n] # "idle" /\ AckUnderWay(n, cur[n])
                /\ confirmed'[n] = confirmed[n] \cup {[node |-> NodeIdOf(n), sn |-> cur[n]]}
  <2>1. CASE Matches(Browser, m.sn)
    <3>1. AckUnderWay(Browser, cur[Browser]) /\ task[Browser] # "idle"
      BY <1>2, <2>1 DEF Receive, BrowserReceiveAck, Matches, AckUnderWay
    <3>2. QED BY <1>2, <2>1, <3>1 DEF BrowserReceiveAck, Confirm, TypeOK
  <2>2. CASE ~Matches(Browser, m.sn)
    BY <1>2, <2>2 DEF BrowserReceiveAck
  <2>3. QED BY <2>1, <2>2
<1>3. CASE UNCHANGED confirmed
  BY <1>3
<1>4. QED
  BY <1>1, <1>2, <1>3
     DEF Next, BackendHandOver, BackendSend, BackendTransmit, BackendTimeout, BackendSendAck, BrowserSend,
         BrowserTimeout, BrowserAbort, Receive, BackendReceive, BackendReceiveAck,
         BrowserReceive, Lose, BackendCancel, AckTaskEnds, BrowserStop, Restart

LEMMA ConfirmedStep ==
  ASSUME TypeOK, Issued, AckedWasReached, ConfirmedWasDelivered, Next
  PROVE  ConfirmedWasDelivered'
<1> SUFFICES ASSUME NEW n \in Node \ Restarting, NEW c \in confirmed'[n]
             PROVE  WasAccepted(Peer(n), c)'
  BY DEF ConfirmedWasDelivered
<1>1. Peer(n) \in Node /\ NodeIdOf(n) \in NodeId
  BY Ends, MessageTypes
<1>2. WasAccepted(Peer(n), c)
  <2>1. CASE c \in confirmed[n]
    BY <2>1 DEF ConfirmedWasDelivered
  <2>2. CASE c \notin confirmed[n]
    <3>1. /\ task[n] # "idle" /\ AckUnderWay(n, cur[n])
          /\ c = [node |-> NodeIdOf(n), sn |-> cur[n]]
      BY <2>2, ConfirmingStep
    <3>2. cur[n] \in Sn
      BY DEF TypeOK
    <3>3. PICK i \in DOMAIN accepted[Peer(n)] : cur[n] <= accepted[Peer(n)][i].sn
      BY <3>1, <3>2 DEF AckedWasReached, Reached
    <3>4. accepted[Peer(n)][i] \in Payload /\ IssuedBy(n, accepted[Peer(n)][i])
      BY <1>1, <3>3 DEF TypeOK, Issued
    <3>5. Serial(n, cur[n]) = seq[n] /\ seq[n] \in Nat
      BY <3>1 DEF Issued, TypeOK
    <3>6. accepted[Peer(n)][i].sn = cur[n]
      BY <3>2, <3>3, <3>4, <3>5 DEF IssuedBy, Serial, Payload, Sn
    <3>7. accepted[Peer(n)][i] = c
      BY <3>1, <3>4, <3>6 DEF IssuedBy, Payload
    <3>8. QED BY <3>7 DEF WasAccepted
  <2>3. QED BY <2>1, <2>2
<1>3. QED BY <1>1, <1>2, DeliveredGrows DEF WasAccepted

-----------------------------------------------------------------------------
(* The theorems.                                                            *)

\* The invariant holds in every state the two handlers and the channel reach,
\* whichever messages are lost, repeated or reordered.
THEOREM Inductive == Spec => []IInv
<1>1. IInv /\ [Next]_vars => IInv'
  <2>1. ASSUME IInv, Next PROVE IInv'
    <3>1. TypeOK'
      BY <2>1, TypeStep DEF IInv
    <3>2. Issued' /\ Filtered' /\ AckQueue' /\ AckedWasReached' /\ ConfirmedWasDelivered'
      BY <2>1, IssuedStep, FilteredStep, AckQueueStep, AckedStep, ConfirmedStep DEF IInv
    <3>3. QED BY <3>1, <3>2 DEF IInv
  <2>2. QED BY <2>1, StutterIInv
<1>2. QED BY InitIInv, <1>1, PTL DEF Spec

\* Every variable of the two handlers and of the channel keeps its type, and the
\* bounded acknowledgement queues (mpsc::channel(N)) keep within their capacity.
THEOREM TypeCorrect == Spec => []TypeOK
BY Inductive, PTL DEF IInv

\* Ok from send_and_wait_ack_repeated means that the filter of the other end has
\* let that very payload through to its message_handler, for every sender that is
\* not itself restarted.
THEOREM OkMeansHandedOver == Spec => []ConfirmedWasDelivered
BY Inductive, PTL DEF IInv

-----------------------------------------------------------------------------
(* Refinement, when neither end is restarted: a restarted sender counts     *)
(* from the start again, which the abstract service does not do.            *)

\* The filter of an end that is not restarted remembers the newest payload that
\* was handed over.
Newest == \A q \in Node \ Restarting :
            \A i \in DOMAIN accepted[q] : \E p \in filter[q] : accepted[q][i].sn <= p.sn

LEMMA NewestStep ==
  ASSUME TypeOK, TypeOK', Newest, [Next]_vars
  PROVE  Newest'
<1> SUFFICES ASSUME NEW q \in Node \ Restarting, NEW i \in DOMAIN accepted'[q]
             PROVE  \E p \in filter'[q] : accepted'[q][i].sn <= p.sn
  BY DEF Newest
<1>1. CASE Untouched(q) \/ UNCHANGED vars
  BY <1>1 DEF Untouched, Newest, vars, endVars
<1>2. ASSUME NEW m \in Message, Taken(q, m), ~Untouched(q)
      PROVE  \E p \in filter'[q] : accepted'[q][i].sn <= p.sn
  <2>1. CASE Accepts(q, m)
    <3>1. PayloadOf(m) \in filter'[q] /\ PayloadOf(m).sn = m.sn /\ m.sn \in Sn
      BY <1>2, <2>1 DEF Taken, Filter, TypeOK, PayloadOf, Message
    <3>2. accepted'[q] = Append(accepted[q], PayloadOf(m)) /\ accepted[q] \in Seq(Payload)
          /\ PayloadOf(m) \in Payload
      BY <1>2, <2>1, MessageTypes DEF Taken, Filter, TypeOK
    <3>3. CASE i \in DOMAIN accepted[q]
      <4>1. PICK p \in filter[q] : accepted[q][i].sn <= p.sn
        BY <3>3 DEF Newest
      <4>2. m.sn > p.sn /\ p.sn \in Sn /\ accepted[q][i].sn \in Sn
        BY <2>1, <3>3, <4>1, EntryTypes DEF Accepts
      <4>3. accepted'[q][i] = accepted[q][i]
        BY <3>2, <3>3
      <4>4. accepted[q][i].sn <= m.sn
        BY <4>1, <4>2, <3>1 DEF Sn
      <4>5. QED BY <3>1, <4>3, <4>4
    <3>4. CASE i \notin DOMAIN accepted[q]
      <4>1. accepted'[q][i] = PayloadOf(m)
        BY <3>2, <3>4
      <4>2. QED BY <3>1, <4>1 DEF Sn
    <3>5. QED BY <3>3, <3>4
  <2>2. CASE ~Accepts(q, m)
    BY <1>2, <2>2 DEF Taken, Filter, Untouched
  <2>3. QED BY <2>1, <2>2
<1>3. QED BY <1>1, <1>2, ReceiverStep

LEMMA AlwaysNewest == Spec => []Newest
<1>1. Init => Newest
  BY DEF Init, Newest
<1>2. TypeOK /\ TypeOK' /\ Newest /\ [Next]_vars => Newest'
  BY NewestStep
<1>3. QED BY <1>1, <1>2, TypeCorrect, PTL DEF Spec

\* The steps the abstract service can see.
Submits(n) == Begin(n) /\ UNCHANGED <<accepted, confirmed>>
Hands(q, m) == Taken(q, m) /\ UNCHANGED <<seq, confirmed>>
Confirms(n) == /\ task[n] # "idle" /\ AckUnderWay(n, cur[n]) /\ Confirm(n)
               /\ UNCHANGED <<seq, accepted>>

LEMMA VisibleSteps ==
  ASSUME TypeOK, Restarting = {}, Next
  PROVE  \/ \E n \in Node : Submits(n) \/ Confirms(n)
         \/ \E q \in Node, m \in Message : Hands(q, m)
         \/ UNCHANGED <<seq, accepted, confirmed>>
<1> USE Ends
<1>1. CASE BackendTakeAck
  <2>1. ackIn \in Seq(Sn) /\ Len(ackIn) <= AckLimit
    BY DEF TypeOK
  <2>2. \E j \in DOMAIN ackIn : Head(ackIn) = ackIn[j]
    BY <1>1, <2>1, TailType DEF BackendTakeAck
  <2>3. CASE Matches(Backend, Head(ackIn))
    BY <1>1, <2>2, <2>3 DEF BackendTakeAck, Matches, AckUnderWay, Confirms
  <2>4. CASE ~Matches(Backend, Head(ackIn))
    BY <1>1, <2>4 DEF BackendTakeAck
  <2>5. QED BY <2>3, <2>4
<1>2. ASSUME NEW m \in Message, Receive(m), BrowserReceiveAck(m), m.to = Browser
      PROVE  Confirms(Browser) \/ UNCHANGED <<seq, accepted, confirmed>>
  <2>1. CASE Matches(Browser, m.sn)
    BY <1>2, <2>1 DEF Receive, BrowserReceiveAck, Matches, AckUnderWay, Confirms
  <2>2. CASE ~Matches(Browser, m.sn)
    BY <1>2, <2>2 DEF BrowserReceiveAck
  <2>3. QED BY <2>1, <2>2
<1>3. ASSUME NEW m \in Message, Receive(m)
      PROVE  \/ \E q \in Node : Hands(q, m)
             \/ Confirms(Browser)
             \/ UNCHANGED <<seq, accepted, confirmed>>
  <2>1. CASE m.to = Backend /\ BackendReceive(m)
    BY <1>3, <2>1 DEF Receive, BackendReceive, Hands, Taken
  <2>2. CASE m.to = Browser /\ BrowserReceive(m)
    BY <1>3, <2>2 DEF Receive, BrowserReceive, Hands, Taken
  <2>3. CASE BackendReceiveAck(m)
    BY <2>3 DEF BackendReceiveAck
  <2>4. QED BY <1>2, <1>3, <2>1, <2>2, <2>3 DEF Receive
<1>4. CASE BackendSend \/ BrowserSend
  BY <1>4 DEF BackendSend, BrowserSend, Submits
<1>5. QED
  BY <1>1, <1>3, <1>4
     DEF Next, BackendHandOver, BackendTransmit, BackendTimeout, BackendSendAck, BrowserTimeout, BrowserAbort,
         Lose, BackendCancel, AckTaskEnds, BrowserStop, Restart, endVars

\* A serial number the peer's program has seen.
LEMMA SerialsAre ==
  ASSUME TypeOK, NEW q \in Node
  PROVE  /\ serials[q] = [i \in DOMAIN accepted[q] |-> Serial(Peer(q), accepted[q][i].sn)]
         /\ DOMAIN serials[q] = DOMAIN accepted[q]
         /\ \A i \in DOMAIN accepted[q] : serials[q][i] = Serial(Peer(q), accepted[q][i].sn)
BY DEF serials

LEMMA SubmitRefines ==
  ASSUME TypeOK, NEW n \in Node, Submits(n)
  PROVE  Delivery!Submit(n)
<1>1. serials' = serials /\ reported' = reported
  BY DEF Submits, serials, reported
<1>2. QED BY <1>1 DEF Submits, Begin, Delivery!Submit

LEMMA ConfirmRefines ==
  ASSUME IInv, Restarting = {}, NEW n \in Node, Confirms(n), Next
  PROVE  Delivery!Report(n)
<1>1. Serial(n, cur[n]) = seq[n] /\ cur[n] \in Sn
  BY DEF IInv, Issued, Confirms, TypeOK
<1>2. serials' = serials
  BY DEF Confirms, serials
<1>3. reported' = [reported EXCEPT ![n] = reported[n] \cup {seq[n]}]
  <2>1. \A k \in Node \ {n} : confirmed'[k] = confirmed[k]
    BY DEF Confirms, Confirm, IInv, TypeOK
  <2>2. confirmed'[n] = confirmed[n] \cup {[node |-> NodeIdOf(n), sn |-> cur[n]]}
    BY DEF Confirms, Confirm, IInv, TypeOK
  <2>3. {Serial(n, c.sn) : c \in confirmed'[n]} = {Serial(n, c.sn) : c \in confirmed[n]} \cup {seq[n]}
    <3>1. \A S, e : {Serial(n, c.sn) : c \in S \cup {e}} = {Serial(n, c.sn) : c \in S} \cup {Serial(n, e.sn)}
      OBVIOUS
    <3>2. [node |-> NodeIdOf(n), sn |-> cur[n]].sn = cur[n]
      OBVIOUS
    <3>3. {Serial(n, c.sn) : c \in confirmed[n] \cup {[node |-> NodeIdOf(n), sn |-> cur[n]]}}
          = {Serial(n, c.sn) : c \in confirmed[n]} \cup {Serial(n, [node |-> NodeIdOf(n), sn |-> cur[n]].sn)}
      BY <3>1, Zenon
    <3>4. {Serial(n, c.sn) : c \in confirmed'[n]}
          = {Serial(n, c.sn) : c \in confirmed[n] \cup {[node |-> NodeIdOf(n), sn |-> cur[n]]}}
      BY <2>2, Zenon
    <3>5. QED BY <1>1, <3>2, <3>3, <3>4
  <2>4. QED BY <2>1, <2>3 DEF reported
<1>4. \E i \in DOMAIN serials[Peer(n)] : serials[Peer(n)][i] = seq[n]
  <2>1. PICK i \in DOMAIN accepted[Peer(n)] : cur[n] <= accepted[Peer(n)][i].sn
    BY <1>1 DEF IInv, Confirms, AckedWasReached, Reached
  <2>2. accepted[Peer(n)][i] \in Payload /\ IssuedBy(n, accepted[Peer(n)][i])
    BY <2>1, Ends DEF IInv, TypeOK, Issued
  <2>3. seq[n] \in Nat
    BY DEF IInv, TypeOK
  <2>4. Serial(n, accepted[Peer(n)][i].sn) = seq[n]
    BY <1>1, <2>1, <2>2, <2>3 DEF IssuedBy, Serial, Payload, Sn
  <2>5. DOMAIN serials[Peer(n)] = DOMAIN accepted[Peer(n)]
        /\ serials[Peer(n)][i] = Serial(Peer(Peer(n)), accepted[Peer(n)][i].sn)
    BY <2>1, SerialsAre, Ends DEF IInv
  <2>6. QED BY <2>1, <2>4, <2>5, Ends
<1>5. seq' = seq
  BY DEF Confirms
<1>6. QED BY <1>2, <1>3, <1>4, <1>5 DEF Delivery!Report

LEMMA HandRefines ==
  ASSUME IInv, Newest, Restarting = {}, NEW q \in Node, NEW m \in Message, Hands(q, m)
  PROVE  Delivery!HandOver(q) \/ UNCHANGED <<seq, serials, reported>>
<1> DEFINE k == Serial(Peer(q), m.sn)
<1>1. seq' = seq /\ reported' = reported
  BY DEF Hands, reported
<1>2. CASE ~Accepts(q, m)
  BY <1>1, <1>2 DEF Hands, Taken, Filter, serials
<1>3. CASE Accepts(q, m)
  <2>1. accepted[q] \in Seq(Payload) /\ PayloadOf(m) \in Payload /\ PayloadOf(m).sn = m.sn /\ m.sn \in Sn
    BY MessageTypes DEF IInv, TypeOK, PayloadOf, Message
  <2>2. accepted' = [accepted EXCEPT ![q] = Append(accepted[q], PayloadOf(m))]
    BY <1>3 DEF Hands, Taken, Filter
  <2>3. k \in 1..seq[Peer(q)]
    BY <2>1, Ends DEF IInv, Issued, IssuedBy, Hands, Taken
  <2>4. \A i \in DOMAIN serials[q] : serials[q][i] < k
    <3>1. SUFFICES ASSUME NEW i \in DOMAIN accepted[q]
                   PROVE  Serial(Peer(q), accepted[q][i].sn) < k
      BY SerialsAre DEF IInv
    <3>2. PICK p \in filter[q] : accepted[q][i].sn <= p.sn
      BY DEF Newest
    <3>3. m.sn > p.sn /\ p.sn \in Sn /\ accepted[q][i].sn \in Sn
      BY <1>3, <3>2, EntryTypes DEF Accepts, IInv
    <3>4. QED BY <2>1, <3>2, <3>3 DEF Serial, Sn
  <2>5. serials' = [serials EXCEPT ![q] = Append(serials[q], k)]
    <3>1. \A r \in Node \ {q} : serials'[r] = serials[r]
      BY <2>2 DEF serials, IInv, TypeOK
    <3>2. serials'[q] = Append(serials[q], k)
      <4>1. accepted'[q] = Append(accepted[q], PayloadOf(m))
        BY <2>2 DEF IInv, TypeOK
      <4>2. serials'[q] = [i \in DOMAIN accepted'[q] |-> Serial(Peer(q), accepted'[q][i].sn)]
        BY DEF serials
      <4>3. serials[q] = [i \in DOMAIN accepted[q] |-> Serial(Peer(q), accepted[q][i].sn)]
        BY DEF serials
      <4>4. DOMAIN accepted[q] = 1..Len(accepted[q]) /\ Len(accepted[q]) \in Nat
        BY <2>1
      <4>5. serials[q] \in Seq({Serial(Peer(q), s) : s \in Sn}) /\ Len(serials[q]) = Len(accepted[q])
        <5>1. \A i \in DOMAIN accepted[q] : accepted[q][i].sn \in Sn
          BY EntryTypes DEF IInv
        <5>2. QED BY <4>3, <4>4, <5>1
      <4>6. QED BY <2>1, <4>1, <4>2, <4>3, <4>4, <4>5
    <3>3. serials = [r \in Node |-> serials[r]] /\ serials' = [r \in Node |-> serials'[r]]
      BY DEF serials
    <3>4. QED BY <3>1, <3>2, <3>3
  <2>6. QED BY <1>1, <2>3, <2>4, <2>5 DEF Delivery!HandOver
<1>4. QED BY <1>2, <1>3

\* Two handlers that are not restarted implement ordered delivery with gaps:
\* each payload is let through at most once and in the order of sending, and a
\* send is confirmed only when its payload, the latest, has been let through,
\* whatever the channel loses, repeats or reorders and whenever they are stopped.
THEOREM TransportRefinesDelivery ==
  ASSUME Restarting = {}
  PROVE  Spec => RefinesDelivery
<1>1. Init => Delivery!Init
  <2>1. ASSUME Init PROVE serials = [n \in Node |-> <<>>] /\ reported = [n \in Node |-> {}]
    BY <2>1, Ends DEF Init, serials, reported
  <2>2. QED BY <2>1 DEF Init, Delivery!Init
<1>2. IInv /\ Newest /\ [Next]_vars => [Delivery!Next]_(Delivery!dvars)
  <2>1. SUFFICES ASSUME IInv, Newest, [Next]_vars PROVE [Delivery!Next]_(Delivery!dvars)
    OBVIOUS
  <2>2. CASE UNCHANGED <<seq, accepted, confirmed>>
    BY <2>2 DEF serials, reported, Delivery!dvars
  <2>3. ASSUME NEW n \in Node, Submits(n) PROVE Delivery!Next
    BY <2>1, <2>3, SubmitRefines DEF IInv, Delivery!Next
  <2>4. ASSUME NEW n \in Node, Confirms(n), Next PROVE Delivery!Next
    BY <2>1, <2>4, ConfirmRefines DEF Delivery!Next
  <2>5. ASSUME NEW q \in Node, NEW m \in Message, Hands(q, m)
        PROVE  [Delivery!Next]_(Delivery!dvars)
    BY <2>1, <2>5, HandRefines DEF Delivery!Next, Delivery!dvars
  <2>6. CASE Next
    <3>1. \/ \E n \in Node : Submits(n) \/ Confirms(n)
          \/ \E q \in Node, m \in Message : Hands(q, m)
          \/ UNCHANGED <<seq, accepted, confirmed>>
      BY <2>1, <2>6, VisibleSteps DEF IInv
    <3>2. QED BY <2>2, <2>3, <2>4, <2>5, <2>6, <3>1
  <2>7. CASE UNCHANGED vars
    BY <2>2, <2>7 DEF vars, endVars
  <2>8. QED BY <2>1, <2>6, <2>7
<1>3. QED BY <1>1, <1>2, Inductive, AlwaysNewest, PTL DEF Spec, RefinesDelivery, Delivery!Spec
=============================================================================
