----------------------- MODULE SignallingServerProofs -----------------------
(***************************************************************************)
(* Proofs about SignallingServer, for any number of connections and tags   *)
(* and any limits.                                                         *)
(***************************************************************************)
EXTENDS SignallingServer, TLAPS

-----------------------------------------------------------------------------
(* The update operators of the routing table.                               *)

LEMMA SetRecordType ==
  ASSUME NEW t \in Tag, NEW pair \in SUBSET Conn, TypeOK
  PROVE  /\ DOMAIN SetRecord(t, pair) \subseteq Tag
         /\ \A u \in DOMAIN SetRecord(t, pair) : SetRecord(t, pair)[u] \subseteq Conn
BY DEF SetRecord, TypeOK

LEMMA WithoutMemberType ==
  ASSUME NEW c \in Conn, NEW t, TypeOK
  PROVE  /\ DOMAIN WithoutMember(c, t) \subseteq Tag
         /\ \A u \in DOMAIN WithoutMember(c, t) : WithoutMember(c, t)[u] \subseteq Conn
BY DEF WithoutMember, DropRecord, SetRecord, TypeOK

LEMMA RecordType ==
  ASSUME NEW t, TypeOK
  PROVE  Record(t) \subseteq Conn
BY DEF Record, TypeOK

-----------------------------------------------------------------------------
(* Types.                                                                   *)

LEMMA RunType ==
  ASSUME TypeOK, NEW c \in Conn, Run(c)
  PROVE  TypeOK'
<1>1. CASE RecordConnection(c)
  BY <1>1 DEF RecordConnection, TypeOK, taskVars, limiterVars
<1>2. CASE RemoveRecordsFor(c)
  BY <1>2, WithoutMemberType
     DEF RemoveRecordsFor, Cancel, TypeOK, taskVars, limiterVars
<1>3. QED BY <1>1, <1>2 DEF Run

\* A message that waits to be routed has branded its connection and was counted.
Branded ==
  \A c \in Conn : listen[c] \in {"register", "forward", "put"}
                     => brand[c] \in Tag /\ total[c] > 0

LEMMA ListenType ==
  ASSUME TypeOK, Branded, PutStaysInsideTheRoom, NEW c \in Conn, Listen(c)
  PROVE  TypeOK'
<1> USE SignallingAssumption
<1>1. CASE ListenCancelled(c)
  BY <1>1 DEF ListenCancelled, EndOfStream, ListenDone, Cancel, TypeOK, limiterVars, tables
<1>2. CASE RecordRtrAndGetForwardingQueue(c)
  <2>1. brand[c] \in Tag
    BY <1>2 DEF RecordRtrAndGetForwardingQueue, Branded
  <2>2. Joined(c) \in SUBSET Conn
    BY RecordType DEF Joined
  <2>3. CASE SkipMessage(c)
    BY <1>2, <2>3 DEF RecordRtrAndGetForwardingQueue, SkipMessage, TypeOK, limiterVars
  <2>4. CASE JoinOnly(c)
    BY <1>2, <2>1, <2>2, <2>4, SetRecordType
       DEF RecordRtrAndGetForwardingQueue, JoinOnly, TypeOK, limiterVars
  <2>5. ASSUME NEW d \in Conn, RouteTo(c, d)
        PROVE  TypeOK'
    <3> DEFINE pair == IF d \in ct THEN Joined(c) ELSE Joined(c) \ {d}
    <3>1. pair \in SUBSET Conn /\ rtt' = SetRecord(brand[c], pair)
      BY <2>2, <2>5 DEF RouteTo
    <3>2. /\ DOMAIN rtt' \subseteq Tag
          /\ \A u \in DOMAIN rtt' : rtt'[u] \subseteq Conn
      BY <2>1, <3>1, SetRecordType
    <3>3. QED
      BY <1>2, <2>5, <3>2 DEF RecordRtrAndGetForwardingQueue, RouteTo, TypeOK, limiterVars
  <2>6. QED
    BY <1>2, <2>3, <2>4, <2>5 DEF RecordRtrAndGetForwardingQueue
<1>3. CASE TrySend(c)
  <2> DEFINE m == [from |-> c, n |-> total[c]]
             d == dst[c]
  <2>0. d \in Conn
    BY <1>3 DEF TrySend, PutStaysInsideTheRoom
  <2>1. CASE Accepts(d)
    <3>1. m \in Message
      BY <1>3 DEF TrySend, Branded, TypeOK, Message
    <3>2. queue[d] \in Seq(Message) /\ Len(queue[d]) < SendBufferLimit
      BY <2>0, <2>1 DEF Accepts, TypeOK
    <3>3. /\ Append(queue[d], m) \in Seq(Message)
          /\ Len(Append(queue[d], m)) <= SendBufferLimit
      BY <3>1, <3>2
    <3>4. /\ queue' \in [Conn -> Seq(Message)]
          /\ \A x \in Conn : Len(queue'[x]) <= SendBufferLimit
      <4>1. queue' = [queue EXCEPT ![d] = Append(queue[d], m)]
        BY <1>3, <2>1 DEF TrySend
      <4>2. QED BY <2>0, <3>3, <4>1 DEF TypeOK
    <3>5. QED BY <1>3, <2>1, <3>4 DEF TrySend, TypeOK, limiterVars, tables
  <2>2. CASE ~Accepts(d)
    BY <1>3, <2>2 DEF TrySend, ListenDone, Cancel, TypeOK, limiterVars, tables
  <2>3. QED BY <2>1, <2>2
<1>4. QED BY <1>1, <1>2, <1>3 DEF Listen

LEMMA EgressType ==
  ASSUME TypeOK, NEW c \in Conn, Egress(c)
  PROVE  TypeOK'
<1>1. CASE EgressTake(c)
  <2>1. queue[c] \in Seq(Message) /\ queue[c] # <<>> /\ Len(queue[c]) <= SendBufferLimit
    BY <1>1 DEF EgressTake, TypeOK
  <2>2. /\ Tail(queue[c]) \in Seq(Message)
        /\ Len(Tail(queue[c])) <= SendBufferLimit
        /\ <<Head(queue[c])>> \in Seq(Message)
        /\ Len(<<Head(queue[c])>>) = 1
    BY <2>1, SignallingAssumption
  <2>3. /\ wire' \in [Conn -> Seq(Message)] /\ queue' \in [Conn -> Seq(Message)]
        /\ \A x \in Conn : Len(queue'[x]) <= SendBufferLimit /\ Len(wire'[x]) <= 1
    BY <1>1, <2>2 DEF EgressTake, TypeOK
  <2>4. QED BY <1>1, <2>3 DEF EgressTake, TypeOK, limiterVars, tables
<1>2. CASE EgressSent(c)
  BY <1>2 DEF EgressSent, TypeOK, limiterVars, tables
<1>3. CASE EgressFails(c)
  BY <1>3 DEF EgressFails, Cancel, TypeOK, limiterVars, tables
<1>4. CASE EgressCancelled(c)
  BY <1>4 DEF EgressCancelled, TypeOK, limiterVars, tables
<1>5. CASE EgressClosed(c)
  BY <1>5, SignallingAssumption DEF EgressClosed, TypeOK, limiterVars, tables
<1>6. QED BY <1>1, <1>2, <1>3, <1>4, <1>5 DEF Egress

LEMMA IdleCheckType ==
  ASSUME TypeOK, NEW c \in Conn, IdleCheck(c)
  PROVE  TypeOK'
<1>1. CASE FirstMessageDelayOver(c)
  BY <1>1 DEF FirstMessageDelayOver, Cancel, TypeOK, limiterVars, tables
<1>2. CASE IdleTimeout(c)
  BY <1>2 DEF IdleTimeout, Cancel, TypeOK, limiterVars, tables
<1>3. CASE IdleCancelled(c)
  BY <1>3 DEF IdleCancelled, TypeOK, limiterVars, tables
<1>4. QED BY <1>1, <1>2, <1>3 DEF IdleCheck

LEMMA ClientType ==
  ASSUME TypeOK, NEW c \in Conn, Client(c)
  PROVE  TypeOK'
<1> USE SignallingAssumption
<1>1. CASE AcceptConnection(c)
  BY <1>1 DEF AcceptConnection, TypeOK, limiterVars, tables
<1>2. CASE HandshakeFails(c)
  BY <1>2 DEF HandshakeFails, TypeOK, taskVars, limiterVars, tables
<1>3. CASE EndOfStream(c)
  BY <1>3 DEF EndOfStream, ListenDone, Cancel, TypeOK, limiterVars, tables
<1>4. CASE DropRateLimited(c)
  BY <1>4 DEF DropRateLimited, TypeOK, vars, taskVars, limiterVars, tables
<1>5. CASE RefuseMessage(c)
  <2>1. window' \in [Conn -> 0..MessagesPerSecond]
    BY <1>5 DEF RefuseMessage, CountInWindow, WithinWindow, TypeOK
  <2>2. total' \in [Conn -> 0..MessagesPerConnection]
    BY <1>5 DEF RefuseMessage, WithinCap, TypeOK
  <2>3. QED BY <1>5, <2>1, <2>2 DEF RefuseMessage, ListenDone, Cancel, TypeOK, tables
<1>6. ASSUME NEW t \in Tag, NEW payload \in BOOLEAN, AcceptMessage(c, t, payload)
      PROVE  TypeOK'
  <2>1. window' \in [Conn -> 0..MessagesPerSecond]
    BY <1>6 DEF AcceptMessage, CountInWindow, WithinWindow, TypeOK
  <2>2. total' \in [Conn -> 0..MessagesPerConnection]
    BY <1>6 DEF AcceptMessage, WithinCap, TypeOK
  <2>3. QED BY <1>6, <2>1, <2>2 DEF AcceptMessage, TypeOK, tables
<1>7. CASE ClientStalls(c)
  BY <1>7 DEF ClientStalls, TypeOK, taskVars, limiterVars, tables
<1>8. QED BY <1>1, <1>2, <1>3, <1>4, <1>5, <1>6, <1>7 DEF Client

-----------------------------------------------------------------------------
(* The inductive invariant.                                                 *)

\* The lifecycle of a connection.
Lifecycle ==
  \A c \in Conn :
    /\ c \in ct <=> phase[c] = "live"
    /\ phase[c] = "none" => listen[c] = "off" /\ egress[c] = "off" /\ brand[c] = NoTag
    /\ phase[c] \in {"opening", "live"} => egress[c] # "off"
    /\ phase[c] = "gone" => listen[c] \in {"off", "done"} /\ egress[c] \in {"off", "done"}
    /\ egress[c] # "sending" => wire[c] = <<>>
    /\ egress[c] \in {"off", "done"} => queue[c] = <<>>

IInv == /\ TypeOK
        /\ Branded
        /\ Lifecycle
        /\ RoomsHoldLiveMembers
        /\ PutStaysInsideTheRoom

LEMMA InitIInv == Init => IInv
BY SignallingAssumption
   DEF Init, IInv, TypeOK, Branded, Lifecycle, RoomsHoldLiveMembers, PutStaysInsideTheRoom

LEMMA NextType ==
  ASSUME IInv, [Next]_vars
  PROVE  TypeOK'
<1>1. CASE UNCHANGED vars
  BY <1>1 DEF IInv, TypeOK, vars, taskVars, limiterVars, tables
<1>2. CASE Next
  BY <1>2, RunType, ListenType, EgressType, IdleCheckType, ClientType DEF IInv, Next
<1>3. QED BY <1>1, <1>2

LEMMA NextBranded ==
  ASSUME IInv, [Next]_vars
  PROVE  Branded'
<1> USE DEF IInv
<1>1. CASE UNCHANGED vars
  BY <1>1 DEF Branded, vars, taskVars, limiterVars
<1>2. ASSUME NEW c \in Conn, Run(c)
      PROVE  Branded'
  BY <1>2 DEF Run, RecordConnection, RemoveRecordsFor, Branded, taskVars, limiterVars
<1>3. ASSUME NEW c \in Conn, Listen(c)
      PROVE  Branded'
  BY <1>3 DEF Listen, ListenCancelled, EndOfStream, ListenDone, TrySend,
              RecordRtrAndGetForwardingQueue, SkipMessage, JoinOnly, RouteTo,
              Branded, TypeOK, limiterVars
<1>4. ASSUME NEW c \in Conn, Egress(c)
      PROVE  Branded'
  BY <1>4 DEF Egress, EgressTake, EgressSent, EgressFails, EgressCancelled, EgressClosed,
              Branded, limiterVars
<1>5. ASSUME NEW c \in Conn, IdleCheck(c)
      PROVE  Branded'
  BY <1>5 DEF IdleCheck, FirstMessageDelayOver, IdleTimeout, IdleCancelled, Branded, limiterVars
<1>6. ASSUME NEW c \in Conn, Client(c)
      PROVE  Branded'
  <2>1. CASE AcceptConnection(c) \/ HandshakeFails(c) \/ ClientStalls(c)
    BY <2>1 DEF AcceptConnection, HandshakeFails, ClientStalls, Branded, TypeOK,
                taskVars, limiterVars
  <2>2. CASE EndOfStream(c) \/ DropRateLimited(c)
    BY <2>2 DEF EndOfStream, DropRateLimited, ListenDone, Branded, TypeOK,
                vars, taskVars, limiterVars
  <2>3. CASE RefuseMessage(c)
    BY <2>3 DEF RefuseMessage, ListenDone, Branded, TypeOK
  <2>4. ASSUME NEW t \in Tag, NEW payload \in BOOLEAN, AcceptMessage(c, t, payload)
        PROVE  Branded'
    BY <2>4 DEF AcceptMessage, WithinCap, Branded, TypeOK
  <2>5. QED BY <1>6, <2>1, <2>2, <2>3, <2>4 DEF Client
<1>7. QED BY <1>1, <1>2, <1>3, <1>4, <1>5, <1>6 DEF Next

LEMMA NextLifecycle ==
  ASSUME IInv, [Next]_vars
  PROVE  Lifecycle'
<1> USE DEF IInv
<1>1. CASE UNCHANGED vars
  BY <1>1 DEF Lifecycle, vars, taskVars, limiterVars, tables
<1>2. ASSUME NEW c \in Conn, Run(c)
      PROVE  Lifecycle'
  <2>1. CASE RecordConnection(c)
    BY <2>1 DEF RecordConnection, Lifecycle, TypeOK, taskVars, limiterVars
  <2>2. CASE RemoveRecordsFor(c)
    BY <2>2 DEF RemoveRecordsFor, TasksDone, Lifecycle, TypeOK, taskVars, limiterVars
  <2>3. QED BY <1>2, <2>1, <2>2 DEF Run
<1>3. ASSUME NEW c \in Conn, Listen(c)
      PROVE  Lifecycle'
  <2>1. CASE ListenCancelled(c)
    BY <2>1 DEF ListenCancelled, EndOfStream, ListenDone, Lifecycle, TypeOK, limiterVars, tables
  <2>2. CASE RecordRtrAndGetForwardingQueue(c)
    BY <2>2 DEF RecordRtrAndGetForwardingQueue, SkipMessage, JoinOnly, RouteTo,
                Lifecycle, TypeOK, limiterVars
  <2>3. CASE TrySend(c)
    <3> DEFINE d == dst[c]
    <3>1. d \in Conn \ {c}
      BY <2>3 DEF TrySend, PutStaysInsideTheRoom
    <3>2. CASE Accepts(d)
      <4>1. d \in Record(brand[c])
        BY <2>3, <3>2 DEF TrySend, Accepts, PutStaysInsideTheRoom
      <4>2. phase[d] = "live"
        BY <4>1, <3>1 DEF Record, RoomsHoldLiveMembers, Lifecycle
      <4>3. egress[d] \notin {"off", "done"}
        BY <3>1, <3>2, <4>2 DEF Accepts, Lifecycle
      <4>4. \A x \in Conn \ {d} : queue'[x] = queue[x]
        BY <2>3, <3>2 DEF TrySend, TypeOK
      <4>5. QED
        BY <2>3, <3>1, <3>2, <4>3, <4>4 DEF TrySend, Lifecycle, TypeOK, limiterVars, tables
    <3>3. CASE ~Accepts(d)
      BY <2>3, <3>3 DEF TrySend, ListenDone, Lifecycle, TypeOK, limiterVars, tables
    <3>4. QED BY <3>2, <3>3
  <2>4. QED BY <1>3, <2>1, <2>2, <2>3 DEF Listen
<1>4. ASSUME NEW c \in Conn, Egress(c)
      PROVE  Lifecycle'
  BY <1>4 DEF Egress, EgressTake, EgressSent, EgressFails, EgressCancelled, EgressClosed,
              Lifecycle, TypeOK, limiterVars, tables
<1>5. ASSUME NEW c \in Conn, IdleCheck(c)
      PROVE  Lifecycle'
  BY <1>5 DEF IdleCheck, FirstMessageDelayOver, IdleTimeout, IdleCancelled,
              Lifecycle, limiterVars, tables
<1>6. ASSUME NEW c \in Conn, Client(c)
      PROVE  Lifecycle'
  <2>1. CASE AcceptConnection(c) \/ HandshakeFails(c) \/ ClientStalls(c)
    BY <2>1 DEF AcceptConnection, HandshakeFails, ClientStalls, Lifecycle, TypeOK,
                taskVars, limiterVars, tables
  <2>2. CASE EndOfStream(c) \/ DropRateLimited(c)
    BY <2>2 DEF EndOfStream, DropRateLimited, ListenDone, Lifecycle, TypeOK,
                vars, taskVars, limiterVars, tables
  <2>3. CASE RefuseMessage(c)
    BY <2>3 DEF RefuseMessage, ListenDone, Lifecycle, TypeOK, tables
  <2>4. ASSUME NEW t \in Tag, NEW payload \in BOOLEAN, AcceptMessage(c, t, payload)
        PROVE  Lifecycle'
    BY <2>4 DEF AcceptMessage, Lifecycle, TypeOK, tables
  <2>5. QED BY <1>6, <2>1, <2>2, <2>3, <2>4 DEF Client
<1>7. QED BY <1>1, <1>2, <1>3, <1>4, <1>5, <1>6 DEF Next

LEMMA NextRooms ==
  ASSUME IInv, [Next]_vars
  PROVE  RoomsHoldLiveMembers'
<1> USE SignallingAssumption DEF IInv
<1>1. CASE UNCHANGED vars
  BY <1>1 DEF RoomsHoldLiveMembers, vars, limiterVars, tables
<1>2. ASSUME NEW c \in Conn, Run(c)
      PROVE  RoomsHoldLiveMembers'
  <2>1. CASE RecordConnection(c)
    BY <2>1 DEF RecordConnection, RoomsHoldLiveMembers, limiterVars
  <2>2. CASE RemoveRecordsFor(c)
    <3>1. brand' = brand /\ ct' = ct \ {c} /\ rtt' = WithoutMember(c, brand[c])
      BY <2>2 DEF RemoveRecordsFor, limiterVars
    <3>2. \A u \in DOMAIN rtt' : /\ u \in DOMAIN rtt
                                 /\ rtt'[u] = rtt[u] \ {c}
                                 /\ rtt'[u] # {}
      BY <3>1 DEF WithoutMember, DropRecord, SetRecord, RoomsHoldLiveMembers
    <3>3. QED BY <3>1, <3>2 DEF RoomsHoldLiveMembers
  <2>3. QED BY <1>2, <2>1, <2>2 DEF Run
<1>3. ASSUME NEW c \in Conn, Listen(c)
      PROVE  RoomsHoldLiveMembers'
  <2>1. CASE ListenCancelled(c)
    BY <2>1 DEF ListenCancelled, EndOfStream, RoomsHoldLiveMembers, limiterVars, tables
  <2>2. CASE RecordRtrAndGetForwardingQueue(c)
    <3>1. CASE SkipMessage(c)
      BY <2>2, <3>1 DEF RecordRtrAndGetForwardingQueue, SkipMessage, RoomsHoldLiveMembers, limiterVars
    <3>2. ASSUME MayJoin(c), rtt' = SetRecord(brand[c], Joined(c))
          PROVE  RoomsHoldLiveMembers'
      <4>1. ct' = ct /\ brand' = brand /\ c \in ct
        BY <2>2, <3>2 DEF RecordRtrAndGetForwardingQueue, MayJoin, limiterVars
      <4>2. /\ \A x \in Joined(c) : x \in ct /\ brand[x] = brand[c]
            /\ c \in Joined(c)
        BY <4>1 DEF Joined, Record, RoomsHoldLiveMembers
      <4>3. \A x, y, z \in Joined(c) : x = y \/ y = z \/ x = z
        BY <3>2 DEF MayJoin, Joined, Record, IsFull, RoomsHoldLiveMembers
      <4>4. QED
        BY <3>2, <4>1, <4>2, <4>3 DEF SetRecord, RoomsHoldLiveMembers
    <3>3. ASSUME NEW d \in Conn, RouteTo(c, d)
          PROVE  rtt' = SetRecord(brand[c], Joined(c))
      BY <3>3 DEF RouteTo, Joined, Record, RoomsHoldLiveMembers
    <3>4. QED
      BY <2>2, <3>1, <3>2, <3>3 DEF RecordRtrAndGetForwardingQueue, JoinOnly, RouteTo
  <2>3. CASE TrySend(c)
    BY <2>3 DEF TrySend, RoomsHoldLiveMembers, limiterVars, tables
  <2>4. QED BY <1>3, <2>1, <2>2, <2>3 DEF Listen
<1>4. ASSUME NEW c \in Conn, Egress(c)
      PROVE  RoomsHoldLiveMembers'
  BY <1>4 DEF Egress, EgressTake, EgressSent, EgressFails, EgressCancelled, EgressClosed,
              RoomsHoldLiveMembers, limiterVars, tables
<1>5. ASSUME NEW c \in Conn, IdleCheck(c)
      PROVE  RoomsHoldLiveMembers'
  BY <1>5 DEF IdleCheck, FirstMessageDelayOver, IdleTimeout, IdleCancelled,
              RoomsHoldLiveMembers, limiterVars, tables
<1>6. ASSUME NEW c \in Conn, Client(c)
      PROVE  RoomsHoldLiveMembers'
  <2>1. ASSUME NEW t \in Tag, NEW payload \in BOOLEAN, AcceptMessage(c, t, payload)
        PROVE  RoomsHoldLiveMembers'
    <3>1. rtt' = rtt /\ ct' = ct /\ brand' = [brand EXCEPT ![c] = t] /\ brand[c] \in {NoTag, t}
      BY <2>1 DEF AcceptMessage, TryBrand, tables
    <3>2. \A u \in DOMAIN rtt : c \in rtt[u] => u = t
      BY <3>1 DEF RoomsHoldLiveMembers, TypeOK
    <3>3. QED BY <3>1, <3>2 DEF RoomsHoldLiveMembers, TypeOK
  <2>2. ASSUME UNCHANGED <<brand, tables>>
        PROVE  RoomsHoldLiveMembers'
    BY <2>2 DEF RoomsHoldLiveMembers, tables
  <2>3. CASE AcceptConnection(c) \/ HandshakeFails(c) \/ ClientStalls(c)
    BY <2>2, <2>3 DEF AcceptConnection, HandshakeFails, ClientStalls, limiterVars
  <2>4. CASE EndOfStream(c) \/ DropRateLimited(c)
    BY <2>2, <2>4 DEF EndOfStream, DropRateLimited, vars, limiterVars
  <2>5. CASE RefuseMessage(c)
    BY <2>2, <2>5 DEF RefuseMessage
  <2>6. QED BY <1>6, <2>1, <2>3, <2>4, <2>5 DEF Client
<1>7. QED BY <1>1, <1>2, <1>3, <1>4, <1>5, <1>6 DEF Next

\* A step that leaves the routing table alone, starts no put and reopens no queue.
LEMMA PutUntouched ==
  ASSUME PutStaysInsideTheRoom, rtt' = rtt,
         \A x \in Conn : listen'[x] = "put"
            => listen[x] = "put" /\ dst'[x] = dst[x] /\ brand'[x] = brand[x],
         \A x \in Conn : egress[x] = "done" => egress'[x] = "done"
  PROVE  PutStaysInsideTheRoom'
BY DEF PutStaysInsideTheRoom, Record

LEMMA NextPut ==
  ASSUME IInv, [Next]_vars
  PROVE  PutStaysInsideTheRoom'
<1> USE SignallingAssumption DEF IInv
<1>1. CASE UNCHANGED vars
  BY <1>1 DEF PutStaysInsideTheRoom, Record, vars, taskVars, limiterVars, tables
<1>2. ASSUME NEW c \in Conn, Run(c)
      PROVE  PutStaysInsideTheRoom'
  <2>1. CASE RecordConnection(c)
    BY <2>1 DEF RecordConnection, PutStaysInsideTheRoom, Record, taskVars, limiterVars
  <2>2. CASE RemoveRecordsFor(c)
    <3>1. /\ listen' = listen /\ dst' = dst /\ egress' = egress /\ brand' = brand
          /\ listen[c] = "done" /\ egress[c] = "done"
          /\ rtt' = WithoutMember(c, brand[c])
      BY <2>2 DEF RemoveRecordsFor, TasksDone, taskVars, limiterVars
    <3>2. \A t : \A a \in Record(t) : a # c => a \in Record(t)'
      BY <3>1 DEF Record, WithoutMember, DropRecord, SetRecord
    <3>3. QED BY <3>1, <3>2 DEF PutStaysInsideTheRoom
  <2>3. QED BY <1>2, <2>1, <2>2 DEF Run
<1>3. ASSUME NEW c \in Conn, Listen(c)
      PROVE  PutStaysInsideTheRoom'
  <2>1. CASE ListenCancelled(c)
    BY <2>1 DEF ListenCancelled, EndOfStream, ListenDone, PutStaysInsideTheRoom, Record,
                TypeOK, limiterVars, tables
  <2>2. CASE RecordRtrAndGetForwardingQueue(c)
    <3>1. egress' = egress /\ brand' = brand /\ listen \in [Conn -> {"off", "recv", "register", "forward", "put", "done"}]
      BY <2>2 DEF RecordRtrAndGetForwardingQueue, TypeOK, limiterVars
    <3>2. CASE SkipMessage(c)
      BY <3>1, <3>2 DEF SkipMessage, PutStaysInsideTheRoom, Record
    <3>3. ASSUME rtt' = SetRecord(brand[c], Joined(c))
          PROVE  /\ \A t : Record(t) \subseteq Record(t)'
                 /\ Record(brand[c])' = Joined(c)
      BY <3>1, <3>3 DEF SetRecord, Joined, Record
    <3>4. CASE JoinOnly(c)
      BY <3>1, <3>3, <3>4 DEF JoinOnly, PutStaysInsideTheRoom
    <3>5. ASSUME NEW d \in Conn, RouteTo(c, d)
          PROVE  PutStaysInsideTheRoom'
      <4>1. d \in Record(brand[c]) /\ d # c /\ d \in ct
        BY <3>5 DEF RouteTo, Joined, Record, RoomsHoldLiveMembers
      <4>2. /\ rtt' = SetRecord(brand[c], Joined(c))
            /\ dst' = [dst EXCEPT ![c] = d]
            /\ listen' = [listen EXCEPT ![c] = "put"]
        BY <3>5, <4>1 DEF RouteTo
      <4>3. {c, d} \subseteq Record(brand[c])'
        BY <3>3, <4>1, <4>2 DEF Joined
      <4>4. dst'[c] = d /\ \A x \in Conn \ {c} : dst'[x] = dst[x] /\ listen'[x] = listen[x]
        BY <3>1, <4>2 DEF TypeOK
      <4>5. QED BY <3>1, <3>3, <4>1, <4>2, <4>3, <4>4 DEF PutStaysInsideTheRoom
    <3>6. QED
      BY <2>2, <3>2, <3>4, <3>5 DEF RecordRtrAndGetForwardingQueue
  <2>3. CASE TrySend(c)
    <3>1. listen'[c] # "put" /\ \A x \in Conn \ {c} : listen'[x] = listen[x] /\ dst'[x] = dst[x]
      BY <2>3 DEF TrySend, ListenDone, TypeOK
    <3>2. egress' = egress /\ brand' = brand /\ rtt' = rtt
      BY <2>3 DEF TrySend, limiterVars, tables
    <3>3. QED BY <3>1, <3>2, PutUntouched
  <2>4. QED BY <1>3, <2>1, <2>2, <2>3 DEF Listen
<1>4. ASSUME NEW c \in Conn, Egress(c)
      PROVE  PutStaysInsideTheRoom'
  <2>1. \A x \in Conn : egress[x] = "done" => egress'[x] = "done"
    BY <1>4 DEF Egress, EgressTake, EgressSent, EgressFails, EgressCancelled, EgressClosed, TypeOK
  <2>2. listen' = listen /\ dst' = dst /\ brand' = brand /\ rtt' = rtt
    BY <1>4 DEF Egress, EgressTake, EgressSent, EgressFails, EgressCancelled, EgressClosed,
                limiterVars, tables
  <2>3. QED BY <2>1, <2>2, PutUntouched
<1>5. ASSUME NEW c \in Conn, IdleCheck(c)
      PROVE  PutStaysInsideTheRoom'
  BY <1>5, PutUntouched
     DEF IdleCheck, FirstMessageDelayOver, IdleTimeout, IdleCancelled, limiterVars, tables
<1>6. ASSUME NEW c \in Conn, Client(c)
      PROVE  PutStaysInsideTheRoom'
  <2>1. ASSUME NEW t \in Tag, NEW payload \in BOOLEAN, AcceptMessage(c, t, payload)
        PROVE  PutStaysInsideTheRoom'
    BY <2>1 DEF AcceptMessage, PutStaysInsideTheRoom, Record, TypeOK, tables
  <2>2. CASE AcceptConnection(c)
    <3>1. \A x \in Conn : listen'[x] = "put" => listen[x] = "put"
      BY <2>2 DEF AcceptConnection, TypeOK
    <3>2. \A x \in Conn : egress[x] = "done" => egress'[x] = "done"
      BY <2>2 DEF AcceptConnection, Lifecycle, TypeOK
    <3>3. dst' = dst /\ brand' = brand /\ rtt' = rtt
      BY <2>2 DEF AcceptConnection, limiterVars, tables
    <3>4. QED BY <3>1, <3>2, <3>3, PutUntouched
  <2>3. CASE HandshakeFails(c) \/ ClientStalls(c)
    BY <2>3, PutUntouched DEF HandshakeFails, ClientStalls, taskVars, limiterVars, tables
  <2>4. CASE EndOfStream(c) \/ RefuseMessage(c)
    <3>1. \A x \in Conn : listen'[x] = "put" => listen[x] = "put"
      BY <2>4 DEF EndOfStream, RefuseMessage, ListenDone, TypeOK
    <3>2. dst' = dst /\ egress' = egress /\ brand' = brand /\ rtt' = rtt
      BY <2>4 DEF EndOfStream, RefuseMessage, limiterVars, tables
    <3>3. QED BY <3>1, <3>2, PutUntouched
  <2>5. CASE DropRateLimited(c)
    BY <2>5, PutUntouched DEF DropRateLimited, vars, taskVars, limiterVars, tables
  <2>6. QED BY <1>6, <2>1, <2>2, <2>3, <2>4, <2>5 DEF Client
<1>7. QED BY <1>1, <1>2, <1>3, <1>4, <1>5, <1>6 DEF Next

LEMMA NextIInv == IInv /\ [Next]_vars => IInv'
BY NextType, NextBranded, NextLifecycle, NextRooms, NextPut DEF IInv

\* IInv is an invariant of the server.
THEOREM Inductive == Spec => []IInv
BY InitIInv, NextIInv, PTL DEF Spec

-----------------------------------------------------------------------------
(* The theorems.                                                            *)

\* Every variable of the server keeps its type for any number of connections,
\* tags and any limits: in particular no queue of ConnectionHandler outgrows
\* send_buffer_limit and no MsgRateLimiter counts past its limits.
THEOREM TypeCorrect == Spec => []TypeOK
<1>1. IInv => TypeOK
  BY DEF IInv
<1>2. QED BY <1>1, Inductive, PTL

\* A routing record never names a connection that is not in the connection
\* table, never one branded with another tag, never three, and is never empty:
\* what record_rtr_and_get_forwarding_queue and remove_records_for maintain.
THEOREM RoomsAreSound == Spec => []RoomsHoldLiveMembers
<1>1. IInv => RoomsHoldLiveMembers
  BY DEF IInv
<1>2. QED BY <1>1, Inductive, PTL

\* The ConnectionHandler that MsgProcessor::process uses after the unlock still
\* belongs to the other member of the sender's room, or its queue is closed.
THEOREM PutIsSafe == Spec => []PutStaysInsideTheRoom
<1>1. IInv => PutStaysInsideTheRoom
  BY DEF IInv
<1>2. QED BY <1>1, Inductive, PTL

\* A step of the server that takes a connection out of a record is its teardown:
\* no MsgProcessor::process, of a peer or of a third connection, ever does.
LEMMA StepKeepsMembers ==
  ASSUME IInv, [Next]_vars
  PROVE  \A t \in DOMAIN rtt : \A c \in rtt[t] :
           c \notin Record(t)' => TasksDone(c) /\ c \notin ct'
<1> USE DEF IInv
<1>1. ASSUME rtt' = rtt
      PROVE  \A t \in DOMAIN rtt : \A c \in rtt[t] : c \in Record(t)'
  BY <1>1 DEF Record
<1>2. CASE UNCHANGED vars
  BY <1>1, <1>2 DEF vars, tables
<1>3. ASSUME NEW x \in Conn, Run(x)
      PROVE  \A t \in DOMAIN rtt : \A c \in rtt[t] :
               c \notin Record(t)' => TasksDone(c) /\ c \notin ct'
  <2>1. CASE RecordConnection(x)
    BY <1>1, <2>1 DEF RecordConnection
  <2>2. CASE RemoveRecordsFor(x)
    <3>1. rtt' = WithoutMember(x, brand[x]) /\ ct' = ct \ {x} /\ TasksDone(x)
      BY <2>2 DEF RemoveRecordsFor
    <3>2. \A t \in DOMAIN rtt : \A c \in rtt[t] : c # x => c \in Record(t)'
      BY <3>1 DEF Record, WithoutMember, DropRecord, SetRecord
    <3>3. QED BY <3>1, <3>2
  <2>3. QED BY <1>3, <2>1, <2>2 DEF Run
<1>4. ASSUME NEW x \in Conn, Listen(x)
      PROVE  \A t \in DOMAIN rtt : \A c \in rtt[t] : c \in Record(t)'
  <2>1. CASE ListenCancelled(x) \/ TrySend(x)
    BY <1>1, <2>1 DEF ListenCancelled, EndOfStream, TrySend, tables
  <2>2. CASE RecordRtrAndGetForwardingQueue(x)
    <3>1. ASSUME rtt' = SetRecord(brand[x], Joined(x))
          PROVE  \A t \in DOMAIN rtt : \A c \in rtt[t] : c \in Record(t)'
      BY <3>1 DEF SetRecord, Joined, Record
    <3>2. ASSUME NEW d \in Conn, RouteTo(x, d)
          PROVE  rtt' = SetRecord(brand[x], Joined(x))
      BY <3>2 DEF RouteTo, Joined, Record, RoomsHoldLiveMembers
    <3>3. QED
      BY <1>1, <2>2, <3>1, <3>2 DEF RecordRtrAndGetForwardingQueue, SkipMessage, JoinOnly
  <2>3. QED BY <1>4, <2>1, <2>2 DEF Listen
<1>5. ASSUME NEW x \in Conn, Egress(x) \/ IdleCheck(x) \/ Client(x)
      PROVE  rtt' = rtt
  BY <1>5 DEF Egress, EgressTake, EgressSent, EgressFails, EgressCancelled, EgressClosed,
              IdleCheck, FirstMessageDelayOver, IdleTimeout, IdleCancelled,
              Client, AcceptConnection, HandshakeFails, EndOfStream, DropRateLimited,
              RefuseMessage, AcceptMessage, ClientStalls, vars, tables
<1>6. QED BY <1>1, <1>2, <1>3, <1>4, <1>5 DEF Next

\* Nothing but a connection's own teardown removes it from its room
\* (run_connection's remove_records_for, after the join of its three tasks).
THEOREM MembersLeaveByTeardown == Spec => MembershipEndsWithTeardown
<1>1. IInv /\ [Next]_vars
        => [\A t \in DOMAIN rtt : \A c \in rtt[t] :
              c \notin Record(t)' => TasksDone(c) /\ c \notin ct']_vars
  BY StepKeepsMembers
<1>2. QED BY <1>1, Inductive, PTL DEF Spec, MembershipEndsWithTeardown
=============================================================================
