-------------------------- MODULE SignallingServer --------------------------
(***************************************************************************)
(* The websocket signalling server, src/src-tauri/signalling/ws_server.rs. *)
(*                                                                         *)
(* Every accepted connection runs three tokio tasks: listen_task reads     *)
(* client messages and forwards payloads, egress_task drains the           *)
(* connection's outgoing queue into the socket, start_idle_checker closes  *)
(* the connection when it is of no use.  They share a cancellation token.  *)
(* run_connection spawns the three, THEN enters the connection into the    *)
(* connection table, joins the three and removes what it recorded.  The    *)
(* connection table ct and the routing table rtt are under one async       *)
(* mutex; each critical section is one action here.                        *)
(*                                                                         *)
(* Time is abstract: a timer may fire whenever it is armed, a rate window  *)
(* may have expired whenever a message arrives.  A message is its sender   *)
(* and its number among the messages of that sender that were counted.     *)
(***************************************************************************)
EXTENDS Naturals, Sequences

CONSTANTS Conn,                   \* connections the listener may accept
          Tag,                    \* routing tags clients may use
          NoConn, NoTag,
          SendBufferLimit,        \* ServerConfig::send_buffer_limit
          MessagesPerConnection,  \* ServerConfig::messages_per_connection
          MessagesPerSecond,      \* ServerConfig::messages_per_second
          Stalling                \* clients that may stop reading their socket

ASSUME SignallingAssumption ==
  /\ NoConn \notin Conn
  /\ NoTag \notin Tag
  /\ SendBufferLimit \in Nat \ {0}
  /\ MessagesPerConnection \in Nat
  /\ MessagesPerSecond \in Nat \ {0}
  /\ Stalling \subseteq Conn

VARIABLES
  phase,      \* run_connection: "none", "opening" (tasks run, not in ct), "live", "gone"
  cancelled,  \* the connection's close_notifier
  listen,     \* listen_task: what it awaits, see TypeOK
  dst,        \* the handler listen_task got from the table, used after the unlock
  egress,     \* egress_task: "idle" in select!, "sending", "closing", "done"
  wire,       \* the message inside ws_egress.send, if any
  queue,      \* the bounded mpsc channel into egress_task
  idle,       \* start_idle_checker: "first", "watch", "done"
  active,     \* the checker holds a checked_forwarded that forwarded() has passed
  brand,      \* MsgRateLimiter::tag
  total,      \* MsgRateLimiter::total_message_count
  window,     \* MsgRateLimiter::window_message_count
  ct,         \* ServerState::ct
  rtt,        \* ServerState::rtt, a function on the tags that have a record
  stalled     \* clients whose socket buffer is full because they stopped reading

taskVars == <<listen, dst, egress, wire, queue, idle, active>>
limiterVars == <<brand, total, window>>
tables == <<ct, rtt>>
vars == <<phase, cancelled, taskVars, limiterVars, tables, stalled>>

Message == [from : Conn, n : 1..MessagesPerConnection]

TypeOK ==
  /\ phase \in [Conn -> {"none", "opening", "live", "gone"}]
  /\ cancelled \in [Conn -> BOOLEAN]
  /\ listen \in [Conn -> {"off", "recv", "register", "forward", "put", "done"}]
  /\ dst \in [Conn -> Conn \cup {NoConn}]
  /\ egress \in [Conn -> {"off", "idle", "sending", "closing", "done"}]
  /\ wire \in [Conn -> Seq(Message)]
  /\ queue \in [Conn -> Seq(Message)]
  /\ \A c \in Conn : Len(queue[c]) <= SendBufferLimit /\ Len(wire[c]) <= 1
  /\ idle \in [Conn -> {"off", "first", "watch", "done"}]
  /\ active \in [Conn -> BOOLEAN]
  /\ brand \in [Conn -> Tag \cup {NoTag}]
  /\ total \in [Conn -> 0..MessagesPerConnection]
  /\ window \in [Conn -> 0..MessagesPerSecond]
  /\ ct \subseteq Conn
  /\ DOMAIN rtt \subseteq Tag
  /\ \A t \in DOMAIN rtt : rtt[t] \subseteq Conn
  /\ stalled \subseteq Stalling

Init ==
  /\ phase = [c \in Conn |-> "none"]
  /\ cancelled = [c \in Conn |-> FALSE]
  /\ listen = [c \in Conn |-> "off"]
  /\ dst = [c \in Conn |-> NoConn]
  /\ egress = [c \in Conn |-> "off"]
  /\ wire = [c \in Conn |-> <<>>]
  /\ queue = [c \in Conn |-> <<>>]
  /\ idle = [c \in Conn |-> "off"]
  /\ active = [c \in Conn |-> FALSE]
  /\ brand = [c \in Conn |-> NoTag]
  /\ total = [c \in Conn |-> 0]
  /\ window = [c \in Conn |-> 0]
  /\ ct = {}
  /\ rtt = [t \in {} |-> {}]
  /\ stalled = {}

Cancel(c) == cancelled' = [cancelled EXCEPT ![c] = TRUE]

-----------------------------------------------------------------------------
(* Routing records: the Vec of a RoutingRecord is a set here, because add   *)
(* refuses a member it contains and no order is ever read from it.          *)

\* mutant: a default record replaces the one already there.
RecordReplaced(t) == {}

Record(t) == IF t \in DOMAIN rtt THEN rtt[t] ELSE {}

SetRecord(t, pair) ==
  [u \in DOMAIN rtt \cup {t} |-> IF u = t THEN pair ELSE rtt[u]]

DropRecord(t) == [u \in DOMAIN rtt \ {t} |-> rtt[u]]

\* mutant: a room for three.
IsFullAtThree(pair) == \E a, b, c \in pair : a # b /\ b # c /\ a # c

IsFull(pair) == \E a, b \in pair : a # b

\* remove_records_for: the record loses the connection, and goes when empty.
WithoutMember(c, t) ==
  IF t \notin DOMAIN rtt THEN rtt
  ELSE IF rtt[t] \subseteq {c} THEN DropRecord(t)
  ELSE SetRecord(t, rtt[t] \ {c})

-----------------------------------------------------------------------------
(* run_connection.                                                          *)

\* The three tasks are spawned here and may all run before RecordConnection.
AcceptConnection(c) ==
  /\ phase[c] = "none"
  /\ phase' = [phase EXCEPT ![c] = "opening"]
  /\ listen' = [listen EXCEPT ![c] = "recv"]
  /\ egress' = [egress EXCEPT ![c] = "idle"]
  /\ idle' = [idle EXCEPT ![c] = "first"]
  /\ UNCHANGED <<cancelled, dst, wire, queue, active, limiterVars, tables, stalled>>

HandshakeFails(c) ==
  /\ phase[c] = "none"
  /\ phase' = [phase EXCEPT ![c] = "gone"]
  /\ UNCHANGED <<cancelled, taskVars, limiterVars, tables, stalled>>

RecordConnection(c) ==
  /\ phase[c] = "opening"
  /\ phase' = [phase EXCEPT ![c] = "live"]
  /\ ct' = ct \cup {c}
  /\ UNCHANGED <<cancelled, taskVars, limiterVars, rtt, stalled>>

\* mutant: the join does not wait for egress_task.
ListenAndIdleDone(c) == listen[c] = "done" /\ idle[c] = "done"

TasksDone(c) == listen[c] = "done" /\ egress[c] = "done" /\ idle[c] = "done"

RemoveRecordsFor(c) ==
  /\ phase[c] = "live"
  /\ TasksDone(c)
  /\ Cancel(c)
  /\ ct' = ct \ {c}
  /\ rtt' = WithoutMember(c, brand[c])
  /\ phase' = [phase EXCEPT ![c] = "gone"]
  /\ UNCHANGED <<taskVars, limiterVars, stalled>>

-----------------------------------------------------------------------------
(* listen_task and MsgProcessor::process.  A select! with two ready arms    *)
(* takes either, so a cancelled connection may still process a message.     *)

ListenDone(c) == /\ listen' = [listen EXCEPT ![c] = "done"]
                 /\ Cancel(c)

\* A close frame, a read error or the end of the stream; or cancellation.
EndOfStream(c) ==
  /\ listen[c] = "recv"
  /\ ListenDone(c)
  /\ UNCHANGED <<phase, dst, egress, wire, queue, idle, active, limiterVars, tables, stalled>>

ListenCancelled(c) == cancelled[c] /\ EndOfStream(c)

WithinWindow(c, expired) == expired \/ window[c] < MessagesPerSecond

CountInWindow(c, expired) ==
  window' = [window EXCEPT ![c] = IF expired THEN 1 ELSE @ + 1]

\* rate_limit_by_time: the message is dropped, the connection stays as it is.
DropRateLimited(c) ==
  /\ listen[c] = "recv"
  /\ ~WithinWindow(c, FALSE)
  /\ UNCHANGED vars

\* mutant: the message beyond the cap is let through.
WithinCapOffByOne(c) == total[c] <= MessagesPerConnection

WithinCap(c) == total[c] < MessagesPerConnection

\* limit_messages refuses, or parse_incoming or try_brand_rtt_tag does: the
\* last two have the same effect, and the first needs no condition.
RefuseMessage(c) ==
  /\ listen[c] = "recv"
  /\ \E expired \in BOOLEAN : WithinWindow(c, expired) /\ CountInWindow(c, expired)
  /\ total' = [total EXCEPT ![c] = IF WithinCap(c) THEN @ + 1 ELSE @]
  /\ ListenDone(c)
  /\ UNCHANGED <<phase, dst, egress, wire, queue, idle, active, brand, tables, stalled>>

\* mutant: the tag is set again by every message.
AlwaysBrand(c, t) == TRUE

TryBrand(c, t) == brand[c] \in {NoTag, t}

AcceptMessage(c, t, payload) ==
  /\ listen[c] = "recv"
  /\ \E expired \in BOOLEAN : WithinWindow(c, expired) /\ CountInWindow(c, expired)
  /\ WithinCap(c)
  /\ TryBrand(c, t)
  /\ total' = [total EXCEPT ![c] = @ + 1]
  /\ brand' = [brand EXCEPT ![c] = t]
  /\ listen' = [listen EXCEPT ![c] = IF payload THEN "forward" ELSE "register"]
  /\ UNCHANGED <<phase, cancelled, dst, egress, wire, queue, idle, active, tables, stalled>>

\* mutant: a connection that is not in the table is routed too.
MayJoinUnrecorded(c) == IsFull(Record(brand[c])) => c \in Record(brand[c])

MayJoin(c) == /\ c \in ct
              /\ IsFull(Record(brand[c])) => c \in Record(brand[c])

Joined(c) == Record(brand[c]) \cup {c}

\* The connection is not in the table, or the room has two others: skipped.
SkipMessage(c) ==
  /\ ~MayJoin(c)
  /\ listen' = [listen EXCEPT ![c] = "recv"]
  /\ UNCHANGED <<rtt, dst>>

\* No payload, or nobody else in the room yet.
JoinOnly(c) ==
  /\ MayJoin(c)
  /\ listen[c] = "register" \/ Joined(c) = {c}
  /\ rtt' = SetRecord(brand[c], Joined(c))
  /\ listen' = [listen EXCEPT ![c] = "recv"]
  /\ UNCHANGED dst

\* The other member's handle is looked up; one that is not in the table is
\* removed from the record.
RouteTo(c, d) ==
  /\ MayJoin(c)
  /\ listen[c] = "forward"
  /\ d \in Joined(c) \ {c}
  /\ rtt' = SetRecord(brand[c], IF d \in ct THEN Joined(c) ELSE Joined(c) \ {d})
  /\ dst' = [dst EXCEPT ![c] = IF d \in ct THEN d ELSE @]
  /\ listen' = [listen EXCEPT ![c] = IF d \in ct THEN "put" ELSE "recv"]

\* record_rtr_and_get_forwarding_queue, all under the lock.  An error of any
\* kind only means that the message is skipped.
RecordRtrAndGetForwardingQueue(c) ==
  /\ listen[c] \in {"register", "forward"}
  /\ \/ SkipMessage(c)
     \/ JoinOnly(c)
     \/ \E d \in Conn : RouteTo(c, d)
  /\ UNCHANGED <<phase, cancelled, egress, wire, queue, idle, active, limiterVars, ct, stalled>>

\* The receiver half of the channel lives as long as egress_task does.
Accepts(d) == egress[d] # "done" /\ Len(queue[d]) < SendBufferLimit

\* try_send, after the unlock: a full or closed queue is an error of process,
\* which ends the SENDER's connection.
TrySend(c) ==
  /\ listen[c] = "put"
  /\ dst' = [dst EXCEPT ![c] = NoConn]
  /\ IF Accepts(dst[c])
     THEN /\ queue' = [queue EXCEPT ![dst[c]] = Append(@, [from |-> c, n |-> total[c]])]
          /\ active' = [active EXCEPT ![c] = idle[c] = "watch"]
          /\ listen' = [listen EXCEPT ![c] = "recv"]
          /\ UNCHANGED cancelled
     ELSE /\ ListenDone(c)
          /\ UNCHANGED <<queue, active>>
  /\ UNCHANGED <<phase, egress, wire, idle, limiterVars, tables, stalled>>

-----------------------------------------------------------------------------
(* egress_task.  Neither ws_egress.send nor ws_egress.close is in a select! *)
(* with the cancellation token: both wait for the client's socket.          *)

EgressTake(c) ==
  /\ egress[c] = "idle"
  /\ queue[c] # <<>>
  /\ wire' = [wire EXCEPT ![c] = <<Head(queue[c])>>]
  /\ queue' = [queue EXCEPT ![c] = Tail(@)]
  /\ egress' = [egress EXCEPT ![c] = "sending"]
  /\ UNCHANGED <<phase, cancelled, listen, dst, idle, active, limiterVars, tables, stalled>>

EgressSent(c) ==
  /\ egress[c] = "sending"
  /\ c \notin stalled
  /\ wire' = [wire EXCEPT ![c] = <<>>]
  /\ egress' = [egress EXCEPT ![c] = "idle"]
  /\ UNCHANGED <<phase, cancelled, listen, dst, queue, idle, active, limiterVars, tables, stalled>>

EgressFails(c) ==
  /\ egress[c] = "sending"
  /\ c \notin stalled
  /\ wire' = [wire EXCEPT ![c] = <<>>]
  /\ egress' = [egress EXCEPT ![c] = "closing"]
  /\ Cancel(c)
  /\ UNCHANGED <<phase, listen, dst, queue, idle, active, limiterVars, tables, stalled>>

EgressCancelled(c) ==
  /\ egress[c] = "idle"
  /\ cancelled[c]
  /\ egress' = [egress EXCEPT ![c] = "closing"]
  /\ UNCHANGED <<phase, cancelled, listen, dst, wire, queue, idle, active, limiterVars, tables, stalled>>

\* The task returns: the receiver is dropped with everything still queued.
EgressClosed(c) ==
  /\ egress[c] = "closing"
  /\ c \notin stalled
  /\ egress' = [egress EXCEPT ![c] = "done"]
  /\ queue' = [queue EXCEPT ![c] = <<>>]
  /\ UNCHANGED <<phase, cancelled, listen, dst, wire, idle, active, limiterVars, tables, stalled>>

\* The client stops reading while a message is on its way into a full socket.
ClientStalls(c) ==
  /\ c \in Stalling \ stalled
  /\ egress[c] = "sending"
  /\ stalled' = stalled \cup {c}
  /\ UNCHANGED <<phase, cancelled, taskVars, limiterVars, tables>>

-----------------------------------------------------------------------------
(* start_idle_checker.  incoming() is zero exactly until the listen task    *)
(* brands the connection: it is incremented in the same poll.               *)

FirstMessageDelayOver(c) ==
  /\ idle[c] = "first"
  /\ IF brand[c] = NoTag
     THEN /\ idle' = [idle EXCEPT ![c] = "done"]
          /\ Cancel(c)
     ELSE /\ idle' = [idle EXCEPT ![c] = "watch"]
          /\ UNCHANGED cancelled
  /\ UNCHANGED <<phase, listen, dst, egress, wire, queue, active, limiterVars, tables, stalled>>

\* mutant: checked_forwarded keeps its first value.
IdleTimeoutStaleCount(c) ==
  /\ idle[c] = "watch"
  /\ ~active[c]
  /\ idle' = [idle EXCEPT ![c] = "done"]
  /\ Cancel(c)
  /\ UNCHANGED <<phase, listen, dst, egress, wire, queue, active, limiterVars, tables, stalled>>

IdleTimeout(c) ==
  /\ idle[c] = "watch"
  /\ IF active[c]
     THEN /\ active' = [active EXCEPT ![c] = FALSE]
          /\ UNCHANGED <<idle, cancelled>>
     ELSE /\ idle' = [idle EXCEPT ![c] = "done"]
          /\ Cancel(c)
          /\ UNCHANGED active
  /\ UNCHANGED <<phase, listen, dst, egress, wire, queue, limiterVars, tables, stalled>>

IdleCancelled(c) ==
  /\ idle[c] \in {"first", "watch"}
  /\ cancelled[c]
  /\ idle' = [idle EXCEPT ![c] = "done"]
  /\ active' = [active EXCEPT ![c] = FALSE]
  /\ UNCHANGED <<phase, cancelled, listen, dst, egress, wire, queue, limiterVars, tables, stalled>>

-----------------------------------------------------------------------------
\* What the tokio runtime will get to: the steps of a task that waits for
\* nothing but a lock, the token, a timer or a socket that makes progress.
Run(c) ==
  \/ RecordConnection(c)
  \/ RemoveRecordsFor(c)

Listen(c) ==
  \/ ListenCancelled(c)
  \/ RecordRtrAndGetForwardingQueue(c)
  \/ TrySend(c)

Egress(c) ==
  \/ EgressTake(c)
  \/ EgressSent(c)
  \/ EgressFails(c)
  \/ EgressCancelled(c)
  \/ EgressClosed(c)

IdleCheck(c) ==
  \/ FirstMessageDelayOver(c)
  \/ IdleTimeout(c)
  \/ IdleCancelled(c)

\* What only clients decide.
Client(c) ==
  \/ AcceptConnection(c)
  \/ HandshakeFails(c)
  \/ EndOfStream(c)
  \/ DropRateLimited(c)
  \/ RefuseMessage(c)
  \/ \E t \in Tag, payload \in BOOLEAN : AcceptMessage(c, t, payload)
  \/ ClientStalls(c)

Next == \E c \in Conn : Run(c) \/ Listen(c) \/ Egress(c) \/ IdleCheck(c) \/ Client(c)

Spec == Init /\ [][Next]_vars

FairSpec ==
  /\ Spec
  /\ \A c \in Conn : /\ WF_vars(Run(c))
                     /\ WF_vars(Listen(c))
                     /\ WF_vars(Egress(c))
                     /\ WF_vars(IdleCheck(c))

-----------------------------------------------------------------------------
(* Properties.                                                              *)

\* A routing record never outlives what it names: each member is in the
\* connection table and is branded with that tag, there are at most two of
\* them, and an empty record is not left behind.  It is why the clean-up branch
\* of record_rtr_and_get_forwarding_queue (ws_server.rs:486-490) is never
\* needed, although the connection is removed with the tag that listen_task
\* happens to return.
RoomsHoldLiveMembers ==
  \A t \in DOMAIN rtt :
    /\ rtt[t] # {}
    /\ \A c \in rtt[t] : c \in ct /\ brand[c] = t
    /\ \A a, b, c \in rtt[t] : a = b \/ b = c \/ a = c

\* The handle a listen_task carries past the unlock stays good enough: as long
\* as the destination's queue is open, sender and destination are both still
\* members of the sender's room, so try_send (ws_server.rs:143) can at worst
\* reach nobody, never a connection that has changed places.
PutStaysInsideTheRoom ==
  \A c \in Conn : listen[c] = "put" =>
    /\ dst[c] \in Conn \ {c}
    /\ egress[dst[c]] # "done" => {c, dst[c]} \subseteq Record(brand[c])

\* Messages on their way to the client of d: in its queue or in its socket.
InFlight(d) == wire[d] \o queue[d]

\* Whatever waits for a client comes from another connection branded with the
\* client's own tag, and the messages of one sender stay in the order they were
\* received in, each at most once.
InFlightIsOrdered ==
  \A d \in Conn : \A i \in DOMAIN InFlight(d) :
    LET m == InFlight(d)[i] IN
      /\ m.from # d
      /\ brand[m.from] = brand[d]
      /\ m.n <= total[m.from]
      /\ listen[m.from] \in {"forward", "put"} => m.n < total[m.from]
      /\ \A j \in DOMAIN InFlight(d) :
           i < j /\ InFlight(d)[j].from = m.from => m.n < InFlight(d)[j].n

\* A connection loses its place in a room only by its own teardown, once all
\* of its tasks have ended: neither a third participant nor a message of the
\* peer can remove it (memo.md:48, "Don't touch the other participant").
MembershipEndsWithTeardown ==
  [][\A t \in DOMAIN rtt : \A c \in rtt[t] :
       c \notin Record(t)' => TasksDone(c) /\ c \notin ct']_vars

\* The server as the abstract service: a room's members are its routing
\* record, a payload is held from try_send until the socket has it.
members == [t \in Tag |-> Record(t)]
heldFor == [c \in Conn |-> InFlight(c)]
ended == {c \in Conn : phase[c] = "gone"}

Rooms == INSTANCE TwoPersonRooms WITH
  Serial <- 1..MessagesPerConnection, room <- members, held <- heldFor, left <- ended

\* Every step of the server is a step of the two-person room service or
\* invisible to it.
RefinesRooms == Rooms!Spec

\* Every accepted connection is torn down and forgotten in the end, whatever
\* its client and its peers do, also when its registration was processed before
\* it was recorded (ws_server.rs:223-246) and so was lost: the message cap
\* bounds what it can forward and the idle checker ends it when that stops.
EveryConnectionEnds ==
  \A c \in Conn \ Stalling : phase[c] = "opening" ~> phase[c] = "gone"

\* memo.md:49, on stale connections: "if one does not send anything to be
\* forwarded, it is removed."  Checked of the clients that may stop reading.
StaleConnectionIsRemoved ==
  \A c \in Stalling : phase[c] = "opening" ~> phase[c] = "gone"
=============================================================================
