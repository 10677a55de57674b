------------------------ MODULE SignallingRefinement ------------------------
(***************************************************************************)
(* SignallingServer implements TwoPersonRooms: every step of the server    *)
(* maps to a step of the abstract service or leaves it as it is.  What it  *)
(* holds for a client in between is in order.                              *)
(***************************************************************************)
EXTENDS SignallingServerProofs, SequenceTheorems

-----------------------------------------------------------------------------
(* Sequences.                                                               *)

LEMMA ConcatAppend ==
  ASSUME NEW S, NEW s \in Seq(S), NEW t \in Seq(S), NEW e \in S
  PROVE  s \o Append(t, e) = Append(s \o t, e)
<1>1. s \o Append(t, e) \in Seq(S) /\ Append(s \o t, e) \in Seq(S)
  OBVIOUS
<1>2. Len(s \o Append(t, e)) = Len(Append(s \o t, e))
  OBVIOUS
<1>3. \A i \in 1..Len(s \o Append(t, e)) : (s \o Append(t, e))[i] = Append(s \o t, e)[i]
  OBVIOUS
<1>4. QED BY <1>1, <1>2, <1>3, SeqEqual

-----------------------------------------------------------------------------
(* What the abstract variables are made of.                                 *)

LEMMA InFlightType ==
  ASSUME TypeOK, NEW c \in Conn
  PROVE  /\ wire[c] \in Seq(Message) /\ queue[c] \in Seq(Message)
         /\ InFlight(c) \in Seq(Message)
BY DEF InFlight, TypeOK

\* The abstract rooms depend on rtt alone, what is held on wire and queue, who
\* has left on phase.
LEMMA SameRooms == ASSUME rtt' = rtt PROVE members' = members
BY DEF members, Record

LEMMA SameHeld == ASSUME wire' = wire, queue' = queue PROVE heldFor' = heldFor
BY DEF heldFor, InFlight

LEMMA SameGone ==
  ASSUME \A c \in Conn : phase'[c] = "gone" <=> phase[c] = "gone"
  PROVE  ended' = ended
BY DEF ended

\* Only one connection's queue or socket changes.
LEMMA HeldOfOne ==
  ASSUME NEW c \in Conn,
         \A x \in Conn \ {c} : wire'[x] = wire[x] /\ queue'[x] = queue[x]
  PROVE  heldFor' = [heldFor EXCEPT ![c] = InFlight(c)']
BY DEF heldFor, InFlight

LEMMA HeldType ==
  ASSUME TypeOK
  PROVE  heldFor \in [Conn -> Seq(Message)]
BY InFlightType DEF heldFor

-----------------------------------------------------------------------------
(* Steps that the abstract service cannot see.                              *)

LEMMA Invisible ==
  ASSUME UNCHANGED <<rtt, wire, queue>>,
         \A c \in Conn : phase'[c] = "gone" <=> phase[c] = "gone"
  PROVE  UNCHANGED Rooms!rvars
BY SameRooms, SameHeld, SameGone DEF Rooms!rvars

-----------------------------------------------------------------------------
(* Steps that it can see.                                                   *)

\* A connection that its first accepted message takes into a room enters it;
\* one that is there already changes nothing.
LEMMA JoinRefines ==
  ASSUME IInv, NEW c \in Conn, MayJoin(c), brand[c] \in Tag,
         rtt' = SetRecord(brand[c], Joined(c)), UNCHANGED <<phase, wire, queue>>
  PROVE  Rooms!Enter(c, brand[c]) \/ UNCHANGED Rooms!rvars
<1> USE DEF IInv
<1>1. heldFor' = heldFor /\ ended' = ended
  BY SameHeld, SameGone
<1>2. members' = [members EXCEPT ![brand[c]] = @ \cup {c}]
  BY DEF members, SetRecord, Joined, Record
<1>3. CASE c \in Record(brand[c])
  <2>1. \A t \in Tag : Record(t)' = Record(t)
    BY <1>3 DEF SetRecord, Joined, Record
  <2>2. members' = members
    BY <2>1 DEF members
  <2>3. QED BY <1>1, <2>2 DEF Rooms!rvars
<1>4. CASE c \notin Record(brand[c])
  <2>1. c \notin ended
    BY DEF ended, MayJoin, Lifecycle
  <2>2. Rooms!Homeless(c)
    BY <1>4 DEF Rooms!Homeless, members, Record, RoomsHoldLiveMembers
  <2>3. ~Rooms!Full(brand[c])
    BY <1>4 DEF Rooms!Full, members, MayJoin, IsFull
  <2>4. QED BY <1>1, <1>2, <2>1, <2>2, <2>3 DEF Rooms!Enter
<1>5. QED BY <1>3, <1>4

\* try_send that succeeds appends the payload to what the other member of the
\* room is to get.
LEMMA PutAppends ==
  ASSUME IInv, NEW c \in Conn, NEW d \in Conn, TrySend(c), dst[c] = d, Accepts(d)
  PROVE  /\ c # d /\ {c, d} \subseteq Record(brand[c]) /\ brand[c] \in Tag
         /\ total[c] \in 1..MessagesPerConnection
         /\ heldFor' = [heldFor EXCEPT ![d] = Append(@, [from |-> c, n |-> total[c]])]
<1> USE DEF IInv
<1> DEFINE m == [from |-> c, n |-> total[c]]
<1>1. c # d /\ {c, d} \subseteq Record(brand[c]) /\ brand[c] \in Tag
  BY DEF TrySend, Accepts, PutStaysInsideTheRoom, Branded
<1>2. total[c] \in 1..MessagesPerConnection
  BY DEF TrySend, Branded, TypeOK
<1>3. queue' = [queue EXCEPT ![d] = Append(@, m)] /\ wire' = wire
  BY DEF TrySend
<1>4. InFlight(d)' = Append(InFlight(d), m)
  <2>1. wire[d] \in Seq(Message) /\ queue[d] \in Seq(Message) /\ m \in Message
    BY <1>2, InFlightType DEF Message
  <2> HIDE DEF m
  <2>2. wire'[d] = wire[d] /\ queue'[d] = Append(queue[d], m)
    BY <1>3 DEF TypeOK
  <2>3. wire[d] \o Append(queue[d], m) = Append(wire[d] \o queue[d], m)
    <3>1. \A s, t \in Seq(Message), e \in Message : s \o Append(t, e) = Append(s \o t, e)
      BY ConcatAppend
    <3>2. QED BY <2>1, <3>1, Zenon
  <2>4. QED BY <2>2, <2>3 DEF InFlight
<1>5. heldFor' = [heldFor EXCEPT ![d] = Append(@, m)]
  <2>1. \A x \in Conn \ {d} : wire'[x] = wire[x] /\ queue'[x] = queue[x]
    BY <1>1, <1>3 DEF TypeOK
  <2>2. heldFor' = [heldFor EXCEPT ![d] = InFlight(d)']
    BY <1>1, <2>1, HeldOfOne
  <2>3. heldFor[d] = InFlight(d)
    BY <1>1 DEF heldFor
  <2>4. QED BY <1>4, <2>2, <2>3
<1>6. QED BY <1>1, <1>2, <1>5

LEMMA PutRefines ==
  ASSUME IInv, NEW c \in Conn, NEW d \in Conn, TrySend(c), dst[c] = d, Accepts(d)
  PROVE  Rooms!Accept(c, d)
<1>1. \E t \in Tag : {c, d} \subseteq members[t]
  BY PutAppends DEF members
<1>2. UNCHANGED <<phase, rtt>>
  BY DEF TrySend, tables
<1>3. members' = members /\ ended' = ended
  BY <1>2, SameRooms, SameGone
<1>4. QED BY <1>1, <1>3, PutAppends DEF Rooms!Accept

\* egress_task gives its payload to the socket, or loses it with the socket.
LEMMA SentRefines ==
  ASSUME IInv, NEW c \in Conn, EgressSent(c) \/ EgressFails(c)
  PROVE  Rooms!Release(c) \/ UNCHANGED Rooms!rvars
<1> USE DEF IInv
<1>1. /\ wire' = [wire EXCEPT ![c] = <<>>]
      /\ UNCHANGED <<phase, queue, rtt>>
  BY DEF EgressSent, EgressFails, tables
<1>2. members' = members /\ ended' = ended
  BY <1>1, SameRooms, SameGone
<1>3. heldFor' = [heldFor EXCEPT ![c] = queue[c]]
  <2>1. InFlight(c)' = <<>> \o queue[c]
    BY <1>1 DEF InFlight, TypeOK
  <2>2. <<>> \o queue[c] = queue[c]
    BY InFlightType, ConcatEmptySeq
  <2>3. \A x \in Conn \ {c} : wire'[x] = wire[x] /\ queue'[x] = queue[x]
    BY <1>1 DEF TypeOK
  <2>4. QED BY <2>1, <2>2, <2>3, HeldOfOne
<1>4. CASE wire[c] = <<>>
  <2>1. wire' = wire
    BY <1>1, <1>4 DEF TypeOK
  <2>2. heldFor' = heldFor
    BY <1>1, <2>1, SameHeld
  <2>3. QED BY <1>2, <2>2 DEF Rooms!rvars
<1>5. CASE wire[c] # <<>>
  <2>1. PICK m \in Message : wire[c] = <<m>>
    BY <1>5 DEF TypeOK
  <2>2. <<m>> \o queue[c] # <<>> /\ Tail(<<m>> \o queue[c]) = queue[c]
    BY InFlightType
  <2>3. heldFor[c] = <<m>> \o queue[c]
    BY <2>1 DEF heldFor, InFlight
  <2>4. QED BY <1>2, <1>3, <2>2, <2>3 DEF Rooms!Release
<1>6. QED BY <1>4, <1>5

\* What is still queued when egress_task returns is lost.
LEMMA ClosedRefines ==
  ASSUME IInv, NEW c \in Conn, EgressClosed(c)
  PROVE  Rooms!Discard(c)
<1> USE DEF IInv
<1>1. /\ queue' = [queue EXCEPT ![c] = <<>>]
      /\ UNCHANGED <<phase, wire, rtt>>
      /\ egress[c] = "closing"
  BY DEF EgressClosed, tables
<1>2. InFlight(c)' = <<>>
  <2>1. wire'[c] = <<>> /\ queue'[c] = <<>>
    BY <1>1 DEF Lifecycle, TypeOK
  <2>2. QED BY <2>1 DEF InFlight
<1>3. \A x \in Conn \ {c} : wire'[x] = wire[x] /\ queue'[x] = queue[x]
  BY <1>1 DEF TypeOK
<1>4. heldFor' = [heldFor EXCEPT ![c] = <<>>]
  BY <1>2, <1>3, HeldOfOne
<1>5. QED BY <1>1, <1>4, SameRooms, SameGone DEF Rooms!Discard

\* egress_task moves the front of its queue into the socket.
LEMMA TakeRefines ==
  ASSUME IInv, NEW c \in Conn, EgressTake(c)
  PROVE  UNCHANGED Rooms!rvars
<1> USE DEF IInv
<1>1. /\ wire' = [wire EXCEPT ![c] = <<Head(queue[c])>>]
      /\ queue' = [queue EXCEPT ![c] = Tail(@)]
      /\ UNCHANGED <<phase, rtt>>
      /\ queue[c] # <<>> /\ wire[c] = <<>>
  BY DEF EgressTake, Lifecycle, tables
<1>2. <<Head(queue[c])>> \o Tail(queue[c]) = queue[c] /\ <<>> \o queue[c] = queue[c]
  BY <1>1, InFlightType
<1>3. InFlight(c)' = InFlight(c)
  <2>1. wire'[c] = <<Head(queue[c])>> /\ queue'[c] = Tail(queue[c])
    BY <1>1 DEF TypeOK
  <2>2. QED BY <1>1, <1>2, <2>1 DEF InFlight
<1>4. \A x \in Conn \ {c} : wire'[x] = wire[x] /\ queue'[x] = queue[x]
  BY <1>1 DEF TypeOK
<1>5. heldFor' = heldFor
  <2>1. \A x \in Conn : InFlight(x)' = InFlight(x)
    BY <1>3, <1>4 DEF InFlight
  <2>2. QED BY <2>1 DEF heldFor
<1>6. QED BY <1>1, <1>5, SameRooms, SameGone DEF Rooms!rvars

\* A connection is over: nothing is held for it any more, it is in no room and
\* its identifier never comes back.
LEMMA EndRefines ==
  ASSUME IInv, NEW c \in Conn, RemoveRecordsFor(c) \/ HandshakeFails(c)
  PROVE  Rooms!Leave(c)
<1> USE DEF IInv
<1>1. phase' = [phase EXCEPT ![c] = "gone"] /\ UNCHANGED <<wire, queue>>
  BY DEF RemoveRecordsFor, HandshakeFails, taskVars
<1>2. ended' = ended \cup {c}
  BY <1>1 DEF ended, TypeOK
<1>3. wire[c] = <<>> /\ queue[c] = <<>>
  BY DEF RemoveRecordsFor, HandshakeFails, TasksDone, Lifecycle
<1>4. heldFor[c] = <<>>
  BY <1>3 DEF heldFor, InFlight
<1>5. \A t \in Tag : Record(t)' = Record(t) \ {c}
  <2>1. CASE RemoveRecordsFor(c)
    BY <2>1 DEF RemoveRecordsFor, WithoutMember, DropRecord, SetRecord, Record, RoomsHoldLiveMembers
  <2>2. CASE HandshakeFails(c)
    BY <2>2 DEF HandshakeFails, Record, RoomsHoldLiveMembers, Lifecycle, tables
  <2>3. QED BY <2>1, <2>2
<1>6. members' = [t \in Tag |-> members[t] \ {c}]
  BY <1>5 DEF members
<1>7. QED BY <1>1, <1>2, <1>4, <1>6, SameHeld DEF Rooms!Leave

-----------------------------------------------------------------------------
(* The refinement.                                                          *)

LEMMA InitRefines == Init => Rooms!Init
<1> SUFFICES ASSUME Init
             PROVE  Rooms!Init
  OBVIOUS
<1>1. members = [t \in Tag |-> {}]
  BY DEF Init, members, Record
<1>2. heldFor = [c \in Conn |-> <<>>]
  BY DEF Init, heldFor, InFlight
<1>3. ended = {}
  BY DEF Init, ended
<1>4. QED BY <1>1, <1>2, <1>3 DEF Rooms!Init

LEMMA NextRefines ==
  ASSUME IInv, [Next]_vars
  PROVE  [Rooms!Next]_(Rooms!rvars)
<1> USE DEF IInv
<1>1. CASE UNCHANGED vars
  BY <1>1, Invisible DEF vars, taskVars, tables
<1>2. ASSUME NEW c \in Conn, Run(c)
      PROVE  [Rooms!Next]_(Rooms!rvars)
  <2>1. CASE RecordConnection(c)
    BY <2>1, Invisible DEF RecordConnection, TypeOK, taskVars
  <2>2. CASE RemoveRecordsFor(c)
    BY <2>2, EndRefines DEF Rooms!Next
  <2>3. QED BY <1>2, <2>1, <2>2 DEF Run
<1>3. ASSUME NEW c \in Conn, Listen(c)
      PROVE  [Rooms!Next]_(Rooms!rvars)
  <2>1. CASE ListenCancelled(c)
    BY <2>1, Invisible DEF ListenCancelled, EndOfStream, tables
  <2>2. CASE RecordRtrAndGetForwardingQueue(c)
    <3>1. brand[c] \in Tag /\ UNCHANGED <<phase, wire, queue>>
      BY <2>2 DEF RecordRtrAndGetForwardingQueue, Branded
    <3>2. CASE SkipMessage(c)
      BY <3>1, <3>2, Invisible DEF SkipMessage
    <3>3. ASSUME MayJoin(c), rtt' = SetRecord(brand[c], Joined(c))
          PROVE  [Rooms!Next]_(Rooms!rvars)
      BY <3>1, <3>3, JoinRefines DEF Rooms!Next
    <3>4. ASSUME NEW d \in Conn, RouteTo(c, d)
          PROVE  rtt' = SetRecord(brand[c], Joined(c))
      BY <3>4 DEF RouteTo, Joined, Record, RoomsHoldLiveMembers
    <3>5. QED
      BY <2>2, <3>2, <3>3, <3>4 DEF RecordRtrAndGetForwardingQueue, JoinOnly, RouteTo
  <2>3. CASE TrySend(c)
    <3>1. dst[c] \in Conn
      BY <2>3 DEF TrySend, PutStaysInsideTheRoom
    <3>2. CASE Accepts(dst[c])
      BY <2>3, <3>1, <3>2, PutRefines DEF Rooms!Next
    <3>3. CASE ~Accepts(dst[c])
      BY <2>3, <3>3, Invisible DEF TrySend, tables
    <3>4. QED BY <3>2, <3>3
  <2>4. QED BY <1>3, <2>1, <2>2, <2>3 DEF Listen
<1>4. ASSUME NEW c \in Conn, Egress(c)
      PROVE  [Rooms!Next]_(Rooms!rvars)
  <2>1. CASE EgressTake(c)
    BY <2>1, TakeRefines
  <2>2. CASE EgressSent(c) \/ EgressFails(c)
    BY <2>2, SentRefines DEF Rooms!Next
  <2>3. CASE EgressCancelled(c)
    BY <2>3, Invisible DEF EgressCancelled, tables
  <2>4. CASE EgressClosed(c)
    BY <2>4, ClosedRefines DEF Rooms!Next
  <2>5. QED BY <1>4, <2>1, <2>2, <2>3, <2>4 DEF Egress
<1>5. ASSUME NEW c \in Conn, IdleCheck(c)
      PROVE  [Rooms!Next]_(Rooms!rvars)
  BY <1>5, Invisible DEF IdleCheck, FirstMessageDelayOver, IdleTimeout, IdleCancelled, tables
<1>6. ASSUME NEW c \in Conn, Client(c)
      PROVE  [Rooms!Next]_(Rooms!rvars)
  <2>1. CASE AcceptConnection(c)
    BY <2>1, Invisible DEF AcceptConnection, TypeOK, tables
  <2>2. CASE HandshakeFails(c)
    BY <2>2, EndRefines DEF Rooms!Next
  <2>3. CASE EndOfStream(c) \/ DropRateLimited(c) \/ RefuseMessage(c) \/ ClientStalls(c)
    BY <2>3, Invisible
       DEF EndOfStream, DropRateLimited, RefuseMessage, ClientStalls, vars, taskVars, tables
  <2>4. ASSUME NEW t \in Tag, NEW payload \in BOOLEAN, AcceptMessage(c, t, payload)
        PROVE  [Rooms!Next]_(Rooms!rvars)
    BY <2>4, Invisible DEF AcceptMessage, tables
  <2>5. QED BY <1>6, <2>1, <2>2, <2>3, <2>4 DEF Client
<1>7. QED BY <1>1, <1>2, <1>3, <1>4, <1>5, <1>6 DEF Next

\* The signalling server implements the two-person room service, for any number
\* of connections and tags: tasks, locks, limits and the order in which
\* run_connection records and removes a connection (ws_server.rs:207-260) never
\* show a client anything that TwoPersonRooms does not allow.
THEOREM ServerRefinesRooms == Spec => RefinesRooms
<1>1. Init /\ [][Next]_vars /\ []IInv => Rooms!Init /\ [][Rooms!Next]_(Rooms!rvars)
  BY InitRefines, NextRefines, PTL
<1>2. QED BY <1>1, Inductive, PTL DEF Spec, RefinesRooms, Rooms!Spec

-----------------------------------------------------------------------------
(* What is held for a client is in order.                                   *)

\* m was sent to d from its own room, and its sender has not begun to route a
\* message since, or it is a later one.
Fits(d, m) ==
  /\ m.from # d /\ brand[m.from] = brand[d] /\ brand[d] \in Tag
  /\ m.n <= total[m.from]
  /\ listen[m.from] \in {"forward", "put"} => m.n < total[m.from]
InOrder(q) == \A i, j \in DOMAIN q : i < j /\ q[j].from = q[i].from => q[i].n < q[j].n
Fitting == [d \in Conn |-> {m \in Message : Fits(d, m)}]
AllFit(q, S) == \A i \in DOMAIN q : q[i] \in S
InFlightFits == \A d \in Conn : InOrder(heldFor[d]) /\ AllFit(heldFor[d], Fitting[d])

LEMMA FitsStays ==
  ASSUME IInv, [Next]_vars, NEW d \in Conn, NEW m \in Message, Fits(d, m)
  PROVE  Fits(d, m)'
<1> DEFINE f == m.from
<1>1. f \in Conn /\ m.n \in Nat /\ f # d /\ brand[f] = brand[d] /\ brand[d] \in Tag
      /\ m.n <= total[f] /\ (listen[f] \in {"forward", "put"} => m.n < total[f])
  BY SignallingAssumption DEF Message, Fits
<1> HIDE DEF f
<1>2. /\ listen \in [Conn -> {"off", "recv", "register", "forward", "put", "done"}]
      /\ brand \in [Conn -> Tag \cup {NoTag}] /\ total \in [Conn -> 0..MessagesPerConnection]
  BY DEF IInv, TypeOK
<1>3. ASSUME brand'[f] = brand[f], brand'[d] = brand[d], total'[f] >= total[f],
             \/ listen'[f] = listen[f] \/ listen'[f] \notin {"forward", "put"}
             \/ listen[f] = "forward" /\ total'[f] = total[f]
             \/ total'[f] > total[f],
             total'[f] \in Nat
      PROVE  Fits(d, m)'
  BY <1>1, <1>2, <1>3, SignallingAssumption DEF Fits, f
<1>4. CASE UNCHANGED vars
  BY <1>1, <1>2, <1>3, <1>4, SignallingAssumption DEF vars, taskVars, limiterVars
<1>5. ASSUME NEW c \in Conn, Run(c) \/ Egress(c) \/ IdleCheck(c)
      PROVE  Fits(d, m)'
  <2>1. UNCHANGED <<listen, brand, total>>
    BY <1>5 DEF Run, RecordConnection, RemoveRecordsFor, Egress, EgressTake, EgressSent, EgressFails,
                EgressCancelled, EgressClosed, IdleCheck, FirstMessageDelayOver, IdleTimeout,
                IdleCancelled, taskVars, limiterVars
  <2>2. QED BY <1>1, <1>2, <1>3, <2>1, SignallingAssumption
<1>6. ASSUME NEW c \in Conn, Listen(c)
      PROVE  Fits(d, m)'
  <2>1. UNCHANGED <<brand, total>>
    BY <1>6 DEF Listen, ListenCancelled, EndOfStream, RecordRtrAndGetForwardingQueue, TrySend, limiterVars
  <2>2. /\ \A x \in Conn \ {c} : listen'[x] = listen[x]
        /\ listen'[c] \in {"recv", "done"} \/ listen[c] = "forward"
    BY <1>2, <1>6
       DEF Listen, ListenCancelled, EndOfStream, ListenDone, RecordRtrAndGetForwardingQueue,
           SkipMessage, JoinOnly, RouteTo, TrySend
  <2>3. QED BY <1>1, <1>2, <1>3, <2>1, <2>2, SignallingAssumption
<1>7. ASSUME NEW c \in Conn, Client(c)
      PROVE  Fits(d, m)'
  <2>1. CASE HandshakeFails(c) \/ ClientStalls(c) \/ DropRateLimited(c)
    <3>1. UNCHANGED <<listen, brand, total>>
      BY <2>1 DEF HandshakeFails, ClientStalls, DropRateLimited, vars, taskVars, limiterVars
    <3>2. QED BY <1>1, <1>2, <1>3, <3>1, SignallingAssumption
  <2>2. CASE AcceptConnection(c) \/ EndOfStream(c) \/ RefuseMessage(c)
    <3>1. brand' = brand /\ \A x \in Conn : total'[x] >= total[x] /\ total'[x] \in Nat
      BY <1>2, <2>2, SignallingAssumption DEF AcceptConnection, EndOfStream, RefuseMessage, limiterVars
    <3>2. \A x \in Conn : listen'[x] = listen[x] \/ listen'[x] \in {"recv", "done"}
      BY <1>2, <2>2 DEF AcceptConnection, EndOfStream, RefuseMessage, ListenDone
    <3>3. QED BY <1>1, <1>3, <3>1, <3>2
  <2>3. ASSUME NEW t \in Tag, NEW payload \in BOOLEAN, AcceptMessage(c, t, payload)
        PROVE  Fits(d, m)'
    <3>1. /\ brand[c] \in {NoTag, t} /\ brand' = [brand EXCEPT ![c] = t]
          /\ total' = [total EXCEPT ![c] = @ + 1]
          /\ \A x \in Conn \ {c} : listen'[x] = listen[x]
      BY <1>2, <2>3 DEF AcceptMessage, TryBrand
    <3>2. brand'[f] = brand[f] /\ brand'[d] = brand[d]
      BY <1>1, <1>2, <3>1, SignallingAssumption
    <3>3. total'[f] \in Nat /\ total'[f] >= total[f] /\ (f = c => total'[f] > total[f])
      BY <1>1, <1>2, <3>1, SignallingAssumption
    <3>4. QED BY <1>1, <1>3, <3>1, <3>2, <3>3
  <2>4. QED BY <1>7, <2>1, <2>2, <2>3 DEF Client
<1>8. QED BY <1>4, <1>5, <1>6, <1>7 DEF Next

\* What a step does to what is held.
LEMMA HeldCases ==
  ASSUME IInv, [Next]_vars
  PROVE  \/ heldFor' = heldFor
         \/ \E d \in Conn : \/ heldFor[d] # <<>> /\ heldFor' = [heldFor EXCEPT ![d] = Tail(@)]
                            \/ heldFor' = [heldFor EXCEPT ![d] = <<>>]
         \/ \E c \in Conn : TrySend(c) /\ dst[c] \in Conn /\ Accepts(dst[c])
<1>1. CASE UNCHANGED <<wire, queue>>
  BY <1>1, SameHeld
<1>2. ASSUME NEW c \in Conn, TrySend(c)
      PROVE  UNCHANGED <<wire, queue>> \/ (dst[c] \in Conn /\ Accepts(dst[c]))
  BY <1>2 DEF TrySend, IInv, PutStaysInsideTheRoom
<1>3. ASSUME NEW c \in Conn, EgressTake(c)
      PROVE  heldFor' = heldFor
  BY <1>3, TakeRefines DEF Rooms!rvars
<1>4. ASSUME NEW c \in Conn, EgressSent(c) \/ EgressFails(c)
      PROVE  heldFor' = heldFor \/ (heldFor[c] # <<>> /\ heldFor' = [heldFor EXCEPT ![c] = Tail(@)])
  BY <1>4, SentRefines DEF Rooms!rvars, Rooms!Release
<1>5. ASSUME NEW c \in Conn, EgressClosed(c)
      PROVE  heldFor' = [heldFor EXCEPT ![c] = <<>>]
  BY <1>5, ClosedRefines DEF Rooms!Discard
<1>6. ASSUME NEW c \in Conn, EgressCancelled(c) \/ IdleCheck(c) \/ Client(c) \/ Run(c)
      PROVE  UNCHANGED <<wire, queue>>
  BY <1>6 DEF EgressCancelled, IdleCheck, FirstMessageDelayOver, IdleTimeout, IdleCancelled, Client,
              AcceptConnection, HandshakeFails, EndOfStream, DropRateLimited, RefuseMessage,
              AcceptMessage, ClientStalls, Run, RecordConnection, RemoveRecordsFor, vars, taskVars
<1>7. ASSUME NEW c \in Conn, ListenCancelled(c) \/ RecordRtrAndGetForwardingQueue(c)
      PROVE  UNCHANGED <<wire, queue>>
  BY <1>7 DEF ListenCancelled, EndOfStream, RecordRtrAndGetForwardingQueue
<1>8. CASE UNCHANGED vars
  BY <1>1, <1>8 DEF vars, taskVars
<1>9. QED
  BY <1>1, <1>2, <1>3, <1>4, <1>5, <1>6, <1>7, <1>8 DEF Next, Listen, Egress

\* The front of a queue may go, and a later message of a sender may be added.
LEMMA TailFits ==
  ASSUME NEW q \in Seq(Message), q # <<>>, InOrder(q)
  PROVE  /\ Tail(q) \in Seq(Message) /\ InOrder(Tail(q))
         /\ \A i \in DOMAIN Tail(q) : \E j \in DOMAIN q : Tail(q)[i] = q[j]
<1>1. \A i \in DOMAIN Tail(q) : i \in Nat /\ i + 1 \in DOMAIN q /\ Tail(q)[i] = q[i + 1]
  OBVIOUS
<1>2. QED BY <1>1 DEF InOrder

LEMMA AppendFits ==
  ASSUME NEW q \in Seq(Message), NEW m \in Message, InOrder(q),
         \A i \in DOMAIN q : q[i].from = m.from => q[i].n < m.n
  PROVE  /\ Append(q, m) \in Seq(Message) /\ InOrder(Append(q, m))
         /\ \A i \in DOMAIN Append(q, m) : Append(q, m)[i] = m \/ \E j \in DOMAIN q : Append(q, m)[i] = q[j]
<1>1. /\ Append(q, m) \in Seq(Message) /\ Len(q) \in Nat
      /\ \A i \in DOMAIN Append(q, m) :
           \/ i \in DOMAIN q /\ Append(q, m)[i] = q[i] /\ i < Len(q) + 1
           \/ i = Len(q) + 1 /\ Append(q, m)[i] = m
  OBVIOUS
<1>2. \A i \in DOMAIN q : i \in Nat
  OBVIOUS
<1>3. InOrder(Append(q, m))
  BY <1>1, <1>2 DEF InOrder
<1>4. QED BY <1>1, <1>3

LEMMA FittingStays ==
  ASSUME IInv, [Next]_vars, NEW d \in Conn
  PROVE  Fitting[d] \subseteq Fitting'[d]
<1>1. \A m \in Message : Fits(d, m) => Fits(d, m)'
  BY FitsStays
<1>2. Fitting[d] = {m \in Message : Fits(d, m)} /\ Fitting'[d] = {m \in Message : Fits(d, m)'}
  BY DEF Fitting
<1>3. QED BY <1>1, <1>2

LEMMA PutFits ==
  ASSUME IInv, NEW c \in Conn, NEW d \in Conn, TrySend(c), dst[c] = d, Accepts(d), NEW m \in Message,
         m.from = c, m.n = total[c]
  PROVE  /\ m \in Fitting'[d]
         /\ \A x \in Fitting[d] : x.from = c => x.n < total[c]
<1>1. c # d /\ {c, d} \subseteq Record(brand[c]) /\ brand[c] \in Tag /\ total[c] \in Nat
  <2>1. c # d /\ {c, d} \subseteq Record(brand[c]) /\ brand[c] \in Tag /\ total[c] \in 1..MessagesPerConnection
    BY PutAppends
  <2>2. QED BY <2>1, SignallingAssumption
<1>2. listen[c] = "put" /\ UNCHANGED <<brand, total>> /\ listen'[c] = "recv"
  BY DEF TrySend, limiterVars, IInv, TypeOK
<1>3. brand[d] = brand[c]
  BY <1>1 DEF IInv, RoomsHoldLiveMembers, Record
<1>4. Fits(d, m)'
  BY <1>1, <1>2, <1>3 DEF Fits
<1>5. Fitting[d] = {x \in Message : Fits(d, x)} /\ Fitting'[d] = {x \in Message : Fits(d, x)'}
  BY DEF Fitting
<1>6. \A x \in Message : Fits(d, x) /\ x.from = c => x.n < total[c]
  BY <1>2 DEF Fits
<1>7. QED BY <1>4, <1>5, <1>6

LEMMA NextFits ==
  ASSUME IInv, InFlightFits, [Next]_vars
  PROVE  InFlightFits'
<1>1. heldFor \in [Conn -> Seq(Message)]
  BY HeldType DEF IInv
<1>2. \A d \in Conn : Fitting[d] \subseteq Fitting'[d]
  BY FittingStays
<1>3. \A d \in Conn : InOrder(heldFor[d]) /\ AllFit(heldFor[d], Fitting[d]) /\ AllFit(heldFor[d], Fitting'[d])
  BY <1>2 DEF InFlightFits, AllFit
<1>4. ASSUME NEW d \in Conn, NEW q \in Seq(Message), heldFor' = [heldFor EXCEPT ![d] = q],
             InOrder(q), AllFit(q, Fitting'[d])
      PROVE  InFlightFits'
  <2>1. \A x \in Conn : heldFor'[x] = IF x = d THEN q ELSE heldFor[x]
    BY <1>1, <1>4
  <2>2. \A x \in Conn : InOrder(heldFor'[x]) /\ AllFit(heldFor'[x], Fitting'[x])
    BY <1>3, <1>4, <2>1
  <2>3. QED BY <2>2 DEF InFlightFits, InOrder, AllFit
<1>5. CASE heldFor' = heldFor
  BY <1>3, <1>5 DEF InFlightFits, InOrder, AllFit
<1>6. ASSUME NEW d \in Conn, heldFor[d] # <<>>, heldFor' = [heldFor EXCEPT ![d] = Tail(@)]
      PROVE  InFlightFits'
  <2>1. /\ Tail(heldFor[d]) \in Seq(Message) /\ InOrder(Tail(heldFor[d]))
        /\ \A i \in DOMAIN Tail(heldFor[d]) : \E j \in DOMAIN heldFor[d] : Tail(heldFor[d])[i] = heldFor[d][j]
    BY <1>1, <1>3, <1>6, TailFits
  <2>2. AllFit(Tail(heldFor[d]), Fitting'[d])
    BY <1>3, <2>1 DEF AllFit
  <2>3. QED BY <1>4, <1>6, <2>1, <2>2
<1>7. ASSUME NEW d \in Conn, heldFor' = [heldFor EXCEPT ![d] = <<>>]
      PROVE  InFlightFits'
  <2>1. <<>> \in Seq(Message) /\ InOrder(<<>>) /\ AllFit(<<>>, Fitting'[d])
    BY DEF InOrder, AllFit
  <2>2. QED BY <1>4, <1>7, <2>1
<1>8. ASSUME NEW c \in Conn, NEW d \in Conn, TrySend(c), dst[c] = d, Accepts(d)
      PROVE  InFlightFits'
  <2> DEFINE m == [from |-> c, n |-> total[c]]
  <2>1. /\ total[c] \in 1..MessagesPerConnection
        /\ heldFor' = [heldFor EXCEPT ![d] = Append(heldFor[d], m)]
    BY <1>8, PutAppends
  <2>2. m \in Message /\ m.from = c /\ m.n = total[c]
    BY <2>1 DEF Message
  <2> HIDE DEF m
  <2>3. m \in Fitting'[d] /\ \A x \in Fitting[d] : x.from = c => x.n < total[c]
    BY <1>8, <2>2, PutFits
  <2>4. heldFor[d] \in Seq(Message) /\ \A i \in DOMAIN heldFor[d] : heldFor[d][i].from = m.from => heldFor[d][i].n < m.n
    BY <1>1, <1>3, <2>2, <2>3 DEF AllFit
  <2>5. /\ Append(heldFor[d], m) \in Seq(Message) /\ InOrder(Append(heldFor[d], m))
        /\ \A i \in DOMAIN Append(heldFor[d], m) :
             Append(heldFor[d], m)[i] = m \/ \E j \in DOMAIN heldFor[d] : Append(heldFor[d], m)[i] = heldFor[d][j]
    BY <1>3, <2>2, <2>4, AppendFits
  <2>6. AllFit(Append(heldFor[d], m), Fitting'[d])
    BY <1>3, <2>3, <2>5 DEF AllFit
  <2>7. QED BY <1>4, <2>1, <2>5, <2>6
<1>9. QED BY <1>5, <1>6, <1>7, <1>8, HeldCases

\* Whatever waits for a client is from the other members of its room, and each
\* sender's messages are in the order in which MsgProcessor::process counted
\* them: between the count and try_send (ws_server.rs:110-147) the sender's
\* task routes nothing else, and a queue that closes is never filled again.
THEOREM HeldInOrder == Spec => []InFlightIsOrdered
<1>1. Init => InFlightFits
  <2>1. Init => heldFor = [c \in Conn |-> <<>>]
    BY InitRefines DEF Rooms!Init
  <2>2. QED BY <2>1 DEF InFlightFits, InOrder, AllFit
<1>2. IInv /\ InFlightFits => InFlightIsOrdered
  <2> SUFFICES ASSUME IInv, InFlightFits, NEW d \in Conn
               PROVE  \A i \in DOMAIN heldFor[d] :
                        /\ Fits(d, heldFor[d][i])
                        /\ \A j \in DOMAIN heldFor[d] :
                             i < j /\ heldFor[d][j].from = heldFor[d][i].from => heldFor[d][i].n < heldFor[d][j].n
    BY DEF InFlightIsOrdered, heldFor, Fits
  <2>1. QED BY DEF InFlightFits, AllFit, Fitting, InOrder
<1>3. QED BY <1>1, <1>2, NextFits, Inductive, PTL DEF Spec
=============================================================================
