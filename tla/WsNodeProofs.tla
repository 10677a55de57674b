----------------------------- MODULE WsNodeProofs ---------------------------
(***************************************************************************)
(* Proofs about WsNode, for any capacities and any numbers of frames and   *)
(* connections: types, the lifetime of tasks, the order of stop, and that  *)
(* the node implements FrameChannel.                                       *)
(***************************************************************************)
EXTENDS WsNode, TLAPS

(***************************************************************************)
(* The inductive invariant                                                 *)
(***************************************************************************)
\* What was promised to the queue fits the bound on frames.
Bounded == InTransit <= MaxFrames

\* Which tasks exist, for each place of run_loop.
Tasks ==
  /\ \A c \in Connection : c > conn => sender[c] = "none" /\ receiver[c] = "none"
  /\ loop \in {"serving", "joinSender", "joinReceiver", "joinBoth"} => conn > 0
  /\ loop = "joinSender" => receiver[conn] = "done"
  /\ loop = "joinReceiver" => sender[conn] = "done"
  /\ serving <= conn

\* How far TransportHandler::stop has come decides who still runs.
Stopped ==
  /\ stopping # "no" => owner = "idle"
  /\ stopping \in {"node", "returned"} => acker = "ended"
  /\ stopper => stopping \in {"node", "returned"}
  /\ loop \in {"joinBoth", "ended"} => stopper

\* The frames on the wire, in hand and in the queue, in this order, ascend.
Frames ==
  /\ \A i \in DOMAIN queue : queue[i] <= submitted
  /\ \A i, j \in DOMAIN queue : i < j => queue[i] < queue[j]
  /\ \A c \in Connection : sender[c] = "writing" =>
        /\ hand[c] \in 1..submitted
        /\ \A i \in DOMAIN queue : hand[c] < queue[i]
        /\ \A i \in DOMAIN sent : sent[i] < hand[c]
  /\ \A i \in DOMAIN sent : \A j \in DOMAIN queue : sent[i] < queue[j]
  /\ \A i \in DOMAIN sent : sent[i] <= submitted

IInv == TypeOK /\ Bounded /\ NoTaskOutlivesItsConnection /\ Tasks /\ Stopped /\ Frames

(***************************************************************************)
(* Sequences of frames                                                     *)
(***************************************************************************)
\* An element of s with something appended is one of s or the new one.
LEMMA AppendOne ==
  ASSUME NEW S, NEW s \in Seq(S), NEW e \in S
  PROVE  /\ Append(s, e) \in Seq(S) /\ Len(Append(s, e)) = Len(s) + 1
         /\ DOMAIN s \subseteq Nat
         /\ \A i \in DOMAIN s : i < Len(s) + 1
         /\ \A i \in DOMAIN Append(s, e) :
               \/ i \in DOMAIN s /\ Append(s, e)[i] = s[i]
               \/ i = Len(s) + 1 /\ Append(s, e)[i] = e
  OBVIOUS

\* t is s with e appended, element by element.
IsAppend(s, e, t) ==
  \A i \in DOMAIN t : \/ i \in DOMAIN s /\ t[i] = s[i]
                      \/ i = Len(s) + 1 /\ t[i] = e

\* Append does that.
LEMMA AppendIs ==
  ASSUME NEW s \in Seq(Nat), NEW e \in Nat, NEW t, t = Append(s, e)
  PROVE  IsAppend(s, e, t)
  BY DEF IsAppend

\* The tail of s holds the later elements of s, one place earlier.
LEMMA TailOne ==
  ASSUME NEW S, NEW s \in Seq(S), s # <<>>
  PROVE  /\ Tail(s) \in Seq(S) /\ Len(Tail(s)) = Len(s) - 1
         /\ 1 \in DOMAIN s /\ Head(s) = s[1] /\ Head(s) \in S
         /\ \A i \in DOMAIN Tail(s) : /\ i \in Nat /\ i + 1 \in DOMAIN s /\ 1 < i + 1
                                      /\ Tail(s)[i] = s[i + 1]
  OBVIOUS

\* No frame is in an empty queue.
LEMMA NoFrames == /\ <<>> \in Seq(1..MaxFrames) /\ Len(<<>>) = 0
                  /\ \A i \in DOMAIN <<>> : FALSE
  OBVIOUS

(***************************************************************************)
(* Initially                                                               *)
(***************************************************************************)
LEMMA InitHolds == Init => IInv
<1> SUFFICES ASSUME Init PROVE IInv
  OBVIOUS
<1> USE NodeAssumption DEF NodeAssumption, Init
<1>1. TypeOK
  <2>1. queue \in Seq(1..MaxFrames) /\ Len(queue) = 0 /\ sent \in Seq(1..MaxFrames)
    BY NoFrames
  <2>2. /\ sender \in [Connection -> {"none", "idle", "writing", "done"}]
        /\ receiver \in [Connection -> {"none", "idle", "done"}]
        /\ hand \in [Connection -> 0..MaxFrames]
    BY DEF Connection
  <2>3. up \in SUBSET Connection /\ local \in SUBSET Connection
    OBVIOUS
  <2>4. /\ conn \in 0..MaxConnections /\ serving \in 0..MaxConnections
        /\ acks \in 0..AckLimit /\ submitted \in 0..MaxFrames /\ Len(queue) <= QueueCapacity
    BY <2>1
  <2> QED BY <2>1, <2>2, <2>3, <2>4 DEF TypeOK
<1>2. Bounded
  BY DEF Bounded, InTransit
<1>3. NoTaskOutlivesItsConnection /\ Tasks /\ Stopped
  BY DEF NoTaskOutlivesItsConnection, Tasks, Stopped, Connection
<1>4. Frames
  BY NoFrames DEF Frames, Connection
<1> QED BY <1>1, <1>2, <1>3, <1>4 DEF IInv

(***************************************************************************)
(* Every step, conjunct by conjunct                                        *)
(***************************************************************************)
\* Types and the bound on frames.
LEMMA TypeStep ==
  ASSUME TypeOK, Bounded, Tasks, Frames, [Next]_vars
  PROVE  TypeOK' /\ Bounded'
<1> USE NodeAssumption DEF NodeAssumption, TypeOK, Bounded, InTransit, Connection
<1>1. CASE ConnectOk
  BY <1>1 DEF ConnectOk, loopVars, taskVars, userVars, history
<1>2. CASE ConnectFails
  BY <1>2 DEF ConnectFails, loopVars, taskVars, userVars, history
<1>3. CASE RetryPauseOver
  <2>1. queue' \in Seq(1..MaxFrames) /\ Len(queue') <= QueueCapacity
    <3>1. CASE queue' = <<>>
      BY <3>1, NoFrames
    <3>2. CASE queue' = queue
      BY <3>2
    <3> QED BY <1>3, <3>1, <3>2 DEF RetryPauseOver, LoopTop, EndLoop
  <2>2. flag' \in BOOLEAN /\ UNCHANGED <<conn, taskVars, submitted, userVars, history>>
    BY <1>3 DEF RetryPauseOver, LoopTop, EndLoop
  <2>3. loop' \in {"connecting", "ended"}
    BY <1>3 DEF RetryPauseOver, LoopTop, EndLoop
  <2> QED BY <2>1, <2>2, <2>3 DEF taskVars, userVars, history
<1>4. CASE StopWhileConnecting
  <2>1. queue' \in Seq(1..MaxFrames) /\ Len(queue') <= QueueCapacity
    BY <1>4, NoFrames DEF StopWhileConnecting, EndLoop
  <2>2. flag' \in BOOLEAN /\ UNCHANGED <<conn, taskVars, submitted, userVars, history>>
    BY <1>4 DEF StopWhileConnecting, EndLoop
  <2>3. loop' \in {"connecting", "ended"}
    BY <1>4 DEF StopWhileConnecting, EndLoop
  <2> QED BY <2>1, <2>2, <2>3 DEF taskVars, userVars, history
<1>5. CASE StopSeen
  BY <1>5 DEF StopSeen, loopVars, taskVars, userVars, history
<1>6. CASE ReceiverGone
  BY <1>6 DEF Tasks, ReceiverGone, loopVars, taskVars, userVars, history
<1>7. CASE SenderGone
  BY <1>7 DEF Tasks, SenderGone, loopVars, taskVars, userVars, history
<1>8. CASE Joined
  <2>1. queue' \in Seq(1..MaxFrames) /\ Len(queue') <= QueueCapacity
    <3>1. CASE queue' = <<>>
      BY <3>1, NoFrames
    <3>2. CASE queue' = queue
      BY <3>2
    <3> QED BY <1>8, <3>1, <3>2 DEF Joined, LoopTop, EndLoop
  <2>2. flag' \in BOOLEAN /\ UNCHANGED <<conn, taskVars, submitted, userVars, history>>
    BY <1>8 DEF Joined, LoopTop, EndLoop
  <2>3. loop' \in {"connecting", "ended"}
    BY <1>8 DEF Joined, LoopTop, EndLoop
  <2> QED BY <2>1, <2>2, <2>3 DEF taskVars, userVars, history
<1>9. CASE JoinedBoth
  <2>1. queue' \in Seq(1..MaxFrames) /\ Len(queue') <= QueueCapacity
    BY <1>9, NoFrames DEF JoinedBoth, EndLoop
  <2>2. flag' \in BOOLEAN /\ UNCHANGED <<conn, taskVars, submitted, userVars, history>>
    BY <1>9 DEF JoinedBoth, EndLoop
  <2>3. loop' \in {"connecting", "ended"}
    BY <1>9 DEF JoinedBoth, EndLoop
  <2> QED BY <2>1, <2>2, <2>3 DEF taskVars, userVars, history
<1>10. CASE AckTake
  BY <1>10 DEF AckTake, loopVars, taskVars, userVars, history
<1>11. CASE AckPut
  BY <1>11 DEF AckPut, Put, HasRoom, loopVars, taskVars, userVars, history
<1>12. CASE AckTaskCancelled
  BY <1>12 DEF AckTaskCancelled, loopVars, taskVars, userVars, history
<1>13. CASE Send
  BY <1>13 DEF Send, InTransit, loopVars, taskVars, userVars, history
<1>14. CASE SendPut
  BY <1>14 DEF SendPut, Put, HasRoom, loopVars, taskVars, userVars, history
<1>15. CASE SendTimesOut
  BY <1>15 DEF SendTimesOut, loopVars, taskVars, userVars, history
<1>16. CASE Stop
  BY <1>16 DEF Stop, loopVars, taskVars, userVars, history
<1>17. CASE AckTaskJoined
  BY <1>17 DEF AckTaskJoined, loopVars, taskVars, userVars, history
<1>18. CASE StopReturns
  BY <1>18 DEF StopReturns, loopVars, taskVars, userVars, history
<1>19. ASSUME NEW c \in Connection, SenderTakes(c) PROVE TypeOK' /\ Bounded'
  <2>1. queue' \in Seq(1..MaxFrames) /\ Len(queue') <= QueueCapacity /\ Head(queue) \in 1..MaxFrames
    BY <1>19, TailOne DEF SenderTakes
  <2>2. /\ sender' \in [Connection -> {"none", "idle", "writing", "done"}]
        /\ hand' \in [Connection -> 0..MaxFrames]
    BY <1>19, <2>1 DEF SenderTakes
  <2>3. UNCHANGED <<loop, conn, flag, up, local, receiver, submitted, owner, acks, acker,
                    stopping, stopper, sent, serving>>
    BY <1>19 DEF SenderTakes, loopVars, userVars, history
  <2> QED BY <2>1, <2>2, <2>3
<1>20. ASSUME NEW c \in Connection, SenderCancelled(c) PROVE TypeOK' /\ Bounded'
  BY <1>20 DEF SenderCancelled, loopVars, taskVars, userVars, history
<1>21. ASSUME NEW c \in Connection, WriteDone(c) PROVE TypeOK' /\ Bounded'
  <2>1. hand[c] \in 1..MaxFrames
    BY <1>21 DEF Frames, WriteDone
  <2> QED BY <1>21, <2>1, AppendOne DEF WriteDone, loopVars, taskVars, userVars, history
<1>22. ASSUME NEW c \in Connection, WriteFails(c) PROVE TypeOK' /\ Bounded'
  <2>1. hand[c] \in 1..MaxFrames
    BY <1>22 DEF Frames, WriteFails
  <2>2. sent' \in Seq(1..MaxFrames) /\ serving' \in 0..MaxConnections
    <3>1. Append(sent, hand[c]) \in Seq(1..MaxFrames)
      BY <2>1, AppendOne
    <3>2. CASE sent' = Append(sent, hand[c]) /\ serving' = c
      BY <3>1, <3>2
    <3>3. CASE UNCHANGED history
      BY <3>3 DEF history
    <3> QED BY <1>22, <3>2, <3>3 DEF WriteFails
  <2>3. hand' \in [Connection -> 0..MaxFrames] /\ sender' \in [Connection -> {"none", "idle", "writing", "done"}]
    BY <1>22 DEF WriteFails
  <2> QED BY <1>22, <2>2, <2>3 DEF WriteFails, loopVars, taskVars, userVars
<1>23. ASSUME NEW c \in Connection, ReceivePayload(c) PROVE TypeOK' /\ Bounded'
  BY <1>23 DEF ReceivePayload, InTransit, loopVars, taskVars, userVars, history
<1>24. ASSUME NEW c \in Connection, ReceiveAck(c) PROVE TypeOK' /\ Bounded'
  BY <1>24 DEF ReceiveAck, loopVars, taskVars, userVars, history
<1>25. ASSUME NEW c \in Connection, ReceiverEnds(c) PROVE TypeOK' /\ Bounded'
  BY <1>25 DEF ReceiverEnds, loopVars, taskVars, userVars, history
<1>26. ASSUME NEW c \in Connection, ConnectionBreaks(c) PROVE TypeOK' /\ Bounded'
  BY <1>26 DEF ConnectionBreaks, loopVars, taskVars, userVars, history
<1>27. CASE UNCHANGED vars
  BY <1>27 DEF vars, loopVars, taskVars, userVars, history, InTransit
<1> QED BY <1>1, <1>2, <1>3, <1>4, <1>5, <1>6, <1>7, <1>8, <1>9, <1>10, <1>11, <1>12, <1>13, <1>14, <1>15, <1>16, <1>17, <1>18, <1>19, <1>20, <1>21, <1>22, <1>23, <1>24, <1>25, <1>26, <1>27
   DEF Next, RunLoop, AckTask, Handler, SenderTask, ReceiveTask

\* run_loop waits for both tasks on every path.
LEMMA TasksStep ==
  ASSUME TypeOK, NoTaskOutlivesItsConnection, Tasks, Stopped, [Next]_vars
  PROVE  NoTaskOutlivesItsConnection' /\ Tasks'
<1> USE NodeAssumption DEF NodeAssumption, TypeOK, NoTaskOutlivesItsConnection, Tasks, Gone, Connection
<1>1. CASE ConnectOk
  BY <1>1 DEF ConnectOk, loopVars, taskVars, userVars, history
<1>2. CASE ConnectFails
  BY <1>2 DEF ConnectFails, loopVars, taskVars, userVars, history
<1>3. CASE RetryPauseOver
  BY <1>3 DEF RetryPauseOver, LoopTop, EndLoop, loopVars, taskVars, userVars, history
<1>4. CASE StopWhileConnecting
  BY <1>4 DEF StopWhileConnecting, EndLoop, loopVars, taskVars, userVars, history
<1>5. CASE StopSeen
  BY <1>5 DEF StopSeen, loopVars, taskVars, userVars, history
<1>6. CASE ReceiverGone
  BY <1>6 DEF ReceiverGone, loopVars, taskVars, userVars, history
<1>7. CASE SenderGone
  BY <1>7 DEF SenderGone, loopVars, taskVars, userVars, history
<1>8. CASE Joined
  BY <1>8 DEF Joined, LoopTop, EndLoop, loopVars, taskVars, userVars, history
<1>9. CASE JoinedBoth
  <2>1. loop' = "ended" /\ UNCHANGED <<conn, sender, receiver, serving>>
    BY <1>9 DEF JoinedBoth, EndLoop, taskVars, history
  <2>2. receiver[conn] = "done" /\ sender[conn] = "done"
    BY <1>9 DEF JoinedBoth
  <2> QED BY <2>1, <2>2
<1>10. CASE AckTake
  BY <1>10 DEF AckTake, loopVars, taskVars, userVars, history
<1>11. CASE AckPut
  BY <1>11 DEF AckPut, Put, HasRoom, loopVars, taskVars, userVars, history
<1>12. CASE AckTaskCancelled
  BY <1>12 DEF AckTaskCancelled, loopVars, taskVars, userVars, history
<1>13. CASE Send
  BY <1>13 DEF Send, InTransit, loopVars, taskVars, userVars, history
<1>14. CASE SendPut
  BY <1>14 DEF SendPut, Put, HasRoom, loopVars, taskVars, userVars, history
<1>15. CASE SendTimesOut
  BY <1>15 DEF SendTimesOut, loopVars, taskVars, userVars, history
<1>16. CASE Stop
  BY <1>16 DEF Stop, loopVars, taskVars, userVars, history
<1>17. CASE AckTaskJoined
  BY <1>17 DEF AckTaskJoined, loopVars, taskVars, userVars, history
<1>18. CASE StopReturns
  BY <1>18 DEF StopReturns, loopVars, taskVars, userVars, history
<1>19. ASSUME NEW c \in Connection, SenderTakes(c) PROVE NoTaskOutlivesItsConnection' /\ Tasks'
  BY <1>19 DEF SenderTakes, loopVars, taskVars, userVars, history
<1>20. ASSUME NEW c \in Connection, SenderCancelled(c) PROVE NoTaskOutlivesItsConnection' /\ Tasks'
  BY <1>20 DEF SenderCancelled, loopVars, taskVars, userVars, history
<1>21. ASSUME NEW c \in Connection, WriteDone(c) PROVE NoTaskOutlivesItsConnection' /\ Tasks'
  BY <1>21 DEF WriteDone, loopVars, taskVars, userVars, history
<1>22. ASSUME NEW c \in Connection, WriteFails(c) PROVE NoTaskOutlivesItsConnection' /\ Tasks'
  BY <1>22 DEF WriteFails, loopVars, taskVars, userVars, history
<1>23. ASSUME NEW c \in Connection, ReceivePayload(c) PROVE NoTaskOutlivesItsConnection' /\ Tasks'
  BY <1>23 DEF ReceivePayload, InTransit, loopVars, taskVars, userVars, history
<1>24. ASSUME NEW c \in Connection, ReceiveAck(c) PROVE NoTaskOutlivesItsConnection' /\ Tasks'
  BY <1>24 DEF ReceiveAck, loopVars, taskVars, userVars, history
<1>25. ASSUME NEW c \in Connection, ReceiverEnds(c) PROVE NoTaskOutlivesItsConnection' /\ Tasks'
  BY <1>25 DEF ReceiverEnds, loopVars, taskVars, userVars, history
<1>26. ASSUME NEW c \in Connection, ConnectionBreaks(c) PROVE NoTaskOutlivesItsConnection' /\ Tasks'
  BY <1>26 DEF ConnectionBreaks, loopVars, taskVars, userVars, history
<1>27. CASE UNCHANGED vars
  BY <1>27 DEF vars, loopVars, taskVars, userVars, history
<1> QED BY <1>1, <1>2, <1>3, <1>4, <1>5, <1>6, <1>7, <1>8, <1>9, <1>10, <1>11, <1>12, <1>13, <1>14, <1>15, <1>16, <1>17, <1>18, <1>19, <1>20, <1>21, <1>22, <1>23, <1>24, <1>25, <1>26, <1>27
   DEF Next, RunLoop, AckTask, Handler, SenderTask, ReceiveTask

\* The order of stop.
LEMMA StoppedStep ==
  ASSUME TypeOK, Stopped, [Next]_vars
  PROVE  Stopped'
<1> USE NodeAssumption DEF NodeAssumption, TypeOK, Stopped
<1>1. CASE ConnectOk
  BY <1>1 DEF ConnectOk, loopVars, taskVars, userVars, history
<1>2. CASE ConnectFails
  BY <1>2 DEF ConnectFails, loopVars, taskVars, userVars, history
<1>3. CASE RetryPauseOver
  BY <1>3 DEF RetryPauseOver, LoopTop, EndLoop, loopVars, taskVars, userVars, history
<1>4. CASE StopWhileConnecting
  BY <1>4 DEF StopWhileConnecting, EndLoop, loopVars, taskVars, userVars, history
<1>5. CASE StopSeen
  BY <1>5 DEF StopSeen, loopVars, taskVars, userVars, history
<1>6. CASE ReceiverGone
  BY <1>6 DEF ReceiverGone, loopVars, taskVars, userVars, history
<1>7. CASE SenderGone
  BY <1>7 DEF SenderGone, loopVars, taskVars, userVars, history
<1>8. CASE Joined
  BY <1>8 DEF Joined, LoopTop, EndLoop, loopVars, taskVars, userVars, history
<1>9. CASE JoinedBoth
  BY <1>9 DEF JoinedBoth, EndLoop, loopVars, taskVars, userVars, history
<1>10. CASE AckTake
  BY <1>10 DEF AckTake, loopVars, taskVars, userVars, history
<1>11. CASE AckPut
  BY <1>11 DEF AckPut, Put, HasRoom, loopVars, taskVars, userVars, history
<1>12. CASE AckTaskCancelled
  BY <1>12 DEF AckTaskCancelled, loopVars, taskVars, userVars, history
<1>13. CASE Send
  BY <1>13 DEF Send, InTransit, loopVars, taskVars, userVars, history
<1>14. CASE SendPut
  BY <1>14 DEF SendPut, Put, HasRoom, loopVars, taskVars, userVars, history
<1>15. CASE SendTimesOut
  BY <1>15 DEF SendTimesOut, loopVars, taskVars, userVars, history
<1>16. CASE Stop
  BY <1>16 DEF Stop, loopVars, taskVars, userVars, history
<1>17. CASE AckTaskJoined
  BY <1>17 DEF AckTaskJoined, loopVars, taskVars, userVars, history
<1>18. CASE StopReturns
  BY <1>18 DEF StopReturns, loopVars, taskVars, userVars, history
<1>19. ASSUME NEW c \in Connection, SenderTakes(c) PROVE Stopped'
  BY <1>19 DEF SenderTakes, loopVars, taskVars, userVars, history
<1>20. ASSUME NEW c \in Connection, SenderCancelled(c) PROVE Stopped'
  BY <1>20 DEF SenderCancelled, loopVars, taskVars, userVars, history
<1>21. ASSUME NEW c \in Connection, WriteDone(c) PROVE Stopped'
  BY <1>21 DEF WriteDone, loopVars, taskVars, userVars, history
<1>22. ASSUME NEW c \in Connection, WriteFails(c) PROVE Stopped'
  BY <1>22 DEF WriteFails, loopVars, taskVars, userVars, history
<1>23. ASSUME NEW c \in Connection, ReceivePayload(c) PROVE Stopped'
  BY <1>23 DEF ReceivePayload, InTransit, loopVars, taskVars, userVars, history
<1>24. ASSUME NEW c \in Connection, ReceiveAck(c) PROVE Stopped'
  BY <1>24 DEF ReceiveAck, loopVars, taskVars, userVars, history
<1>25. ASSUME NEW c \in Connection, ReceiverEnds(c) PROVE Stopped'
  BY <1>25 DEF ReceiverEnds, loopVars, taskVars, userVars, history
<1>26. ASSUME NEW c \in Connection, ConnectionBreaks(c) PROVE Stopped'
  BY <1>26 DEF ConnectionBreaks, loopVars, taskVars, userVars, history
<1>27. CASE UNCHANGED vars
  BY <1>27 DEF vars, loopVars, taskVars, userVars, history
<1> QED BY <1>1, <1>2, <1>3, <1>4, <1>5, <1>6, <1>7, <1>8, <1>9, <1>10, <1>11, <1>12, <1>13, <1>14, <1>15, <1>16, <1>17, <1>18, <1>19, <1>20, <1>21, <1>22, <1>23, <1>24, <1>25, <1>26, <1>27
   DEF Next, RunLoop, AckTask, Handler, SenderTask, ReceiveTask

\* The order of frames.
LEMMA FramesStep ==
  ASSUME TypeOK, NoTaskOutlivesItsConnection, Tasks, Frames, [Next]_vars
  PROVE  Frames'
<1> USE NodeAssumption DEF NodeAssumption, TypeOK, Frames, Connection
<1>1. CASE ConnectOk
  BY <1>1 DEF ConnectOk, loopVars, taskVars, userVars, history
<1>2. CASE ConnectFails
  BY <1>2 DEF ConnectFails, loopVars, taskVars, userVars, history
<1>3. CASE RetryPauseOver
  BY <1>3 DEF RetryPauseOver, LoopTop, EndLoop, loopVars, taskVars, userVars, history
<1>4. CASE StopWhileConnecting
  BY <1>4 DEF StopWhileConnecting, EndLoop, loopVars, taskVars, userVars, history
<1>5. CASE StopSeen
  BY <1>5 DEF StopSeen, loopVars, taskVars, userVars, history
<1>6. CASE ReceiverGone
  BY <1>6 DEF ReceiverGone, loopVars, taskVars, userVars, history
<1>7. CASE SenderGone
  BY <1>7 DEF SenderGone, loopVars, taskVars, userVars, history
<1>8. CASE Joined
  BY <1>8 DEF Joined, LoopTop, EndLoop, loopVars, taskVars, userVars, history
<1>9. CASE JoinedBoth
  BY <1>9 DEF JoinedBoth, EndLoop, loopVars, taskVars, userVars, history
<1>10. CASE AckTake
  BY <1>10 DEF AckTake, loopVars, taskVars, userVars, history
<1>11. CASE AckPut
  <2>1. /\ queue' = Append(queue, submitted + 1) /\ submitted' = submitted + 1
        /\ UNCHANGED <<sender, hand, sent>>
    BY <1>11 DEF AckPut, Put, taskVars, history
  <2>2. submitted + 1 \in Nat /\ queue \in Seq(Nat)
    OBVIOUS
  <2>3. /\ DOMAIN queue \subseteq Nat /\ Len(queue) \in Nat
        /\ \A i \in DOMAIN queue : i < Len(queue) + 1 /\ queue[i] \in Nat
        /\ \A i \in DOMAIN queue' : \/ i \in DOMAIN queue /\ queue'[i] = queue[i]
                                    \/ i = Len(queue) + 1 /\ queue'[i] = submitted + 1
    <3>2. /\ DOMAIN queue \subseteq Nat /\ Len(queue) \in Nat
          /\ \A i \in DOMAIN queue : i < Len(queue) + 1 /\ queue[i] \in Nat
      BY <2>2
    <3>3. \A i \in DOMAIN queue' : \/ i \in DOMAIN queue /\ queue'[i] = queue[i]
                                   \/ i = Len(queue) + 1 /\ queue'[i] = submitted + 1
      <4>1. IsAppend(queue, submitted + 1, queue')
        BY <2>1, <2>2, AppendIs
      <4> QED BY <4>1 DEF IsAppend
    <3> QED BY <3>2, <3>3
  <2>4. \A i, j \in DOMAIN queue' : i < j => queue'[i] < queue'[j]
    <3> SUFFICES ASSUME NEW i \in DOMAIN queue', NEW j \in DOMAIN queue', i < j
                 PROVE  queue'[i] < queue'[j]
      OBVIOUS
    <3>1. CASE i \in DOMAIN queue /\ j \in DOMAIN queue /\ queue'[i] = queue[i] /\ queue'[j] = queue[j]
      BY <3>1
    <3>2. CASE i \in DOMAIN queue /\ queue'[i] = queue[i] /\ queue'[j] = submitted + 1
      BY <2>3, <3>2
    <3>3. CASE i = Len(queue) + 1
      <4>1. j \in DOMAIN queue \/ j = Len(queue) + 1
        BY <2>3
      <4> QED BY <2>3, <3>3, <4>1
    <3> QED BY <2>3, <3>1, <3>2, <3>3
  <2>5. ASSUME NEW i \in DOMAIN queue'
        PROVE  /\ queue'[i] <= submitted + 1
               /\ \A d \in Connection : sender[d] = "writing" => hand[d] < queue'[i]
               /\ \A k \in DOMAIN sent : sent[k] < queue'[i]
    <3>1. CASE i \in DOMAIN queue /\ queue'[i] = queue[i]
      BY <2>3, <3>1
    <3>2. CASE queue'[i] = submitted + 1
      BY <3>2
    <3> QED BY <2>3, <3>1, <3>2
  <2>6. \A d \in Connection : sender[d] = "writing" => hand[d] \in 1..(submitted + 1)
    OBVIOUS
  <2>7. \A k \in DOMAIN sent : sent[k] <= submitted + 1
    OBVIOUS
  <2> QED BY <2>1, <2>4, <2>5, <2>6, <2>7
<1>12. CASE AckTaskCancelled
  BY <1>12 DEF AckTaskCancelled, loopVars, taskVars, userVars, history
<1>13. CASE Send
  BY <1>13 DEF Send, InTransit, loopVars, taskVars, userVars, history
<1>14. CASE SendPut
  <2>1. /\ queue' = Append(queue, submitted + 1) /\ submitted' = submitted + 1
        /\ UNCHANGED <<sender, hand, sent>>
    BY <1>14 DEF SendPut, Put, taskVars, history
  <2>2. submitted + 1 \in Nat /\ queue \in Seq(Nat)
    OBVIOUS
  <2>3. /\ DOMAIN queue \subseteq Nat /\ Len(queue) \in Nat
        /\ \A i \in DOMAIN queue : i < Len(queue) + 1 /\ queue[i] \in Nat
        /\ \A i \in DOMAIN queue' : \/ i \in DOMAIN queue /\ queue'[i] = queue[i]
                                    \/ i = Len(queue) + 1 /\ queue'[i] = submitted + 1
    <3>2. /\ DOMAIN queue \subseteq Nat /\ Len(queue) \in Nat
          /\ \A i \in DOMAIN queue : i < Len(queue) + 1 /\ queue[i] \in Nat
      BY <2>2
    <3>3. \A i \in DOMAIN queue' : \/ i \in DOMAIN queue /\ queue'[i] = queue[i]
                                   \/ i = Len(queue) + 1 /\ queue'[i] = submitted + 1
      <4>1. IsAppend(queue, submitted + 1, queue')
        BY <2>1, <2>2, AppendIs
      <4> QED BY <4>1 DEF IsAppend
    <3> QED BY <3>2, <3>3
  <2>4. \A i, j \in DOMAIN queue' : i < j => queue'[i] < queue'[j]
    <3> SUFFICES ASSUME NEW i \in DOMAIN queue', NEW j \in DOMAIN queue', i < j
                 PROVE  queue'[i] < queue'[j]
      OBVIOUS
    <3>1. CASE i \in DOMAIN queue /\ j \in DOMAIN queue /\ queue'[i] = queue[i] /\ queue'[j] = queue[j]
      BY <3>1
    <3>2. CASE i \in DOMAIN queue /\ queue'[i] = queue[i] /\ queue'[j] = submitted + 1
      BY <2>3, <3>2
    <3>3. CASE i = Len(queue) + 1
      <4>1. j \in DOMAIN queue \/ j = Len(queue) + 1
        BY <2>3
      <4> QED BY <2>3, <3>3, <4>1
    <3> QED BY <2>3, <3>1, <3>2, <3>3
  <2>5. ASSUME NEW i \in DOMAIN queue'
        PROVE  /\ queue'[i] <= submitted + 1
               /\ \A d \in Connection : sender[d] = "writing" => hand[d] < queue'[i]
               /\ \A k \in DOMAIN sent : sent[k] < queue'[i]
    <3>1. CASE i \in DOMAIN queue /\ queue'[i] = queue[i]
      BY <2>3, <3>1
    <3>2. CASE queue'[i] = submitted + 1
      BY <3>2
    <3> QED BY <2>3, <3>1, <3>2
  <2>6. \A d \in Connection : sender[d] = "writing" => hand[d] \in 1..(submitted + 1)
    OBVIOUS
  <2>7. \A k \in DOMAIN sent : sent[k] <= submitted + 1
    OBVIOUS
  <2> QED BY <2>1, <2>4, <2>5, <2>6, <2>7
<1>15. CASE SendTimesOut
  BY <1>15 DEF SendTimesOut, loopVars, taskVars, userVars, history
<1>16. CASE Stop
  BY <1>16 DEF Stop, loopVars, taskVars, userVars, history
<1>17. CASE AckTaskJoined
  BY <1>17 DEF AckTaskJoined, loopVars, taskVars, userVars, history
<1>18. CASE StopReturns
  BY <1>18 DEF StopReturns, loopVars, taskVars, userVars, history
<1>19. ASSUME NEW c \in Connection, SenderTakes(c) PROVE Frames'
  BY <1>19, TailOne DEF SenderTakes, loopVars, taskVars, userVars, history
<1>20. ASSUME NEW c \in Connection, SenderCancelled(c) PROVE Frames'
  BY <1>20 DEF SenderCancelled, loopVars, taskVars, userVars, history
<1>21. ASSUME NEW c \in Connection, WriteDone(c) PROVE Frames'
  <2>1. /\ sender[c] = "writing" /\ sender' = [sender EXCEPT ![c] = "idle"]
        /\ hand' = [hand EXCEPT ![c] = 0] /\ UNCHANGED <<queue, submitted>>
    BY <1>21 DEF WriteDone
  <2>2. \A d \in Connection : sender'[d] = "writing" => d # c /\ sender[d] = "writing" /\ hand'[d] = hand[d]
    BY <2>1
  <2>3. \A d \in Connection : sender[d] = "writing" => d = c
    BY <2>1 DEF NoTaskOutlivesItsConnection, Tasks, Gone
  <2>4. /\ hand[c] \in 1..submitted /\ hand[c] \in Nat /\ sent \in Seq(Nat)
        /\ \A i \in DOMAIN queue : hand[c] < queue[i]
    BY <2>1
  <2>5. \A i \in DOMAIN sent' : \/ i \in DOMAIN sent /\ sent'[i] = sent[i]
                                \/ sent'[i] = hand[c]
    <3>1. CASE sent' = sent
      BY <3>1
    <3>2. CASE sent' = Append(sent, hand[c])
      BY <3>2, <2>4, AppendOne
    <3> QED BY <1>21, <3>1, <3>2 DEF WriteDone, history
  <2>6. \A i \in DOMAIN sent' : sent'[i] <= submitted /\ \A j \in DOMAIN queue : sent'[i] < queue[j]
    <3> SUFFICES ASSUME NEW i \in DOMAIN sent'
                 PROVE  sent'[i] <= submitted /\ \A j \in DOMAIN queue : sent'[i] < queue[j]
      OBVIOUS
    <3>1. CASE i \in DOMAIN sent /\ sent'[i] = sent[i]
      BY <3>1
    <3>2. CASE sent'[i] = hand[c]
      BY <2>4, <3>2
    <3> QED BY <2>5, <3>1, <3>2
  <2> QED BY <2>1, <2>2, <2>3, <2>6
<1>22. ASSUME NEW c \in Connection, WriteFails(c) PROVE Frames'
  <2>1. /\ sender[c] = "writing" /\ sender' = [sender EXCEPT ![c] = "done"]
        /\ hand' = [hand EXCEPT ![c] = 0] /\ UNCHANGED <<queue, submitted>>
    BY <1>22 DEF WriteFails
  <2>2. \A d \in Connection : sender'[d] = "writing" => d # c /\ sender[d] = "writing" /\ hand'[d] = hand[d]
    BY <2>1
  <2>3. \A d \in Connection : sender[d] = "writing" => d = c
    BY <2>1 DEF NoTaskOutlivesItsConnection, Tasks, Gone
  <2>4. /\ hand[c] \in 1..submitted /\ hand[c] \in Nat /\ sent \in Seq(Nat)
        /\ \A i \in DOMAIN queue : hand[c] < queue[i]
    BY <2>1
  <2>5. \A i \in DOMAIN sent' : \/ i \in DOMAIN sent /\ sent'[i] = sent[i]
                                \/ sent'[i] = hand[c]
    <3>1. CASE sent' = sent
      BY <3>1
    <3>2. CASE sent' = Append(sent, hand[c])
      BY <3>2, <2>4, AppendOne
    <3> QED BY <1>22, <3>1, <3>2 DEF WriteFails, history
  <2>6. \A i \in DOMAIN sent' : sent'[i] <= submitted /\ \A j \in DOMAIN queue : sent'[i] < queue[j]
    <3> SUFFICES ASSUME NEW i \in DOMAIN sent'
                 PROVE  sent'[i] <= submitted /\ \A j \in DOMAIN queue : sent'[i] < queue[j]
      OBVIOUS
    <3>1. CASE i \in DOMAIN sent /\ sent'[i] = sent[i]
      BY <3>1
    <3>2. CASE sent'[i] = hand[c]
      BY <2>4, <3>2
    <3> QED BY <2>5, <3>1, <3>2
  <2> QED BY <2>1, <2>2, <2>3, <2>6
<1>23. ASSUME NEW c \in Connection, ReceivePayload(c) PROVE Frames'
  BY <1>23 DEF ReceivePayload, InTransit, loopVars, taskVars, userVars, history
<1>24. ASSUME NEW c \in Connection, ReceiveAck(c) PROVE Frames'
  BY <1>24 DEF ReceiveAck, loopVars, taskVars, userVars, history
<1>25. ASSUME NEW c \in Connection, ReceiverEnds(c) PROVE Frames'
  BY <1>25 DEF ReceiverEnds, loopVars, taskVars, userVars, history
<1>26. ASSUME NEW c \in Connection, ConnectionBreaks(c) PROVE Frames'
  BY <1>26 DEF ConnectionBreaks, loopVars, taskVars, userVars, history
<1>27. CASE UNCHANGED vars
  BY <1>27 DEF vars, loopVars, taskVars, userVars, history
<1> QED BY <1>1, <1>2, <1>3, <1>4, <1>5, <1>6, <1>7, <1>8, <1>9, <1>10, <1>11, <1>12, <1>13, <1>14, <1>15, <1>16, <1>17, <1>18, <1>19, <1>20, <1>21, <1>22, <1>23, <1>24, <1>25, <1>26, <1>27
   DEF Next, RunLoop, AckTask, Handler, SenderTask, ReceiveTask

(***************************************************************************)
(* Theorems                                                                *)
(***************************************************************************)
\* The invariant holds in every state the node and its users can reach.
THEOREM Inductive == Spec => []IInv
<1>1. IInv /\ [Next]_vars => IInv'
  BY TypeStep, TasksStep, StoppedStep, FramesStep DEF IInv
<1> QED BY InitHolds, <1>1, PTL DEF Spec

\* The queue never exceeds its capacity, and everything has its type.
THEOREM TypeCorrect == Spec => []TypeOK
<1>1. IInv => TypeOK
  BY DEF IInv
<1> QED BY Inductive, <1>1, PTL

\* run_loop leaves no task behind, whichever way a connection ends: the message
\* handler has one caller and the queue one reader.
THEOREM OneConnectionAtATime == Spec => []NoTaskOutlivesItsConnection
<1>1. IInv => NoTaskOutlivesItsConnection
  BY DEF IInv
<1> QED BY Inductive, <1>1, PTL

\* stop joins the users of the queue before the node: nobody finds it closed.
THEOREM QueueOutlivesItsUsers == Spec => []UsersEndFirst
<1>1. IInv => UsersEndFirst
  BY DEF IInv, Stopped, UsersEndFirst
<1> QED BY Inductive, <1>1, PTL

(***************************************************************************)
(* The node implements FrameChannel                                        *)
(***************************************************************************)
\* A write is a frame that goes out after all others, on the latest connection.
LEMMA WriteGoesOut ==
  ASSUME IInv, NEW c \in Connection, sender[c] = "writing",
         sent' = Append(sent, hand[c]), serving' = c, UNCHANGED <<loop, submitted>>
  PROVE  Promise!GoOut
<1> USE NodeAssumption DEF NodeAssumption, Connection
<1>1. c = conn /\ loop # "ended" /\ serving <= c /\ serving \in Nat
  BY DEF IInv, TypeOK, NoTaskOutlivesItsConnection, Tasks, Gone
<1>2. hand[c] \in 1..submitted /\ \A i \in DOMAIN sent : sent[i] < hand[c]
  BY DEF IInv, Frames
<1> QED BY <1>1, <1>2 DEF Promise!GoOut

\* A frame is received on the latest connection, while the loop runs.
LEMMA ReceiveComesIn ==
  ASSUME IInv, NEW c \in Connection, receiver[c] = "idle",
         serving' = c, UNCHANGED <<loop, submitted, sent>>
  PROVE  Promise!ComeIn
<1> USE NodeAssumption DEF NodeAssumption, Connection
<1>1. c = conn /\ loop # "ended" /\ serving <= c /\ serving \in Nat
  BY DEF IInv, TypeOK, NoTaskOutlivesItsConnection, Tasks, Gone
<1> QED BY <1>1 DEF Promise!ComeIn

\* A step of run_loop that does not end it is not seen, one that ends it closes
\* the channel.
LEMMA LoopStep ==
  ASSUME UNCHANGED <<submitted, sent, serving>>, loop # "ended"
  PROVE  [Promise!Next]_Promise!fvars
<1>1. CASE loop' = "ended"
  BY <1>1 DEF Promise!Next, Promise!Close
<1>2. CASE loop' # "ended"
  BY <1>2 DEF Promise!fvars
<1> QED BY <1>1, <1>2

\* Every step of the node is a step of FrameChannel or changes nothing it shows.
LEMMA NodeStepRefines ==
  ASSUME IInv, [Next]_vars
  PROVE  [Promise!Next]_Promise!fvars
<1>1. CASE RunLoop
  <2>1. UNCHANGED <<submitted, sent, serving>>
    BY <1>1 DEF RunLoop, ConnectOk, ConnectFails, RetryPauseOver, StopWhileConnecting,
       StopSeen, ReceiverGone, SenderGone, Joined, JoinedBoth, history
  <2>2. loop # "ended"
    BY <1>1 DEF RunLoop, ConnectOk, ConnectFails, RetryPauseOver, StopWhileConnecting,
       StopSeen, ReceiverGone, SenderGone, Joined, JoinedBoth
  <2> QED BY <2>1, <2>2, LoopStep
<1>2. CASE SendPut \/ AckPut
  <2>1. /\ loop # "ended" /\ submitted' = submitted + 1
        /\ UNCHANGED <<loop, sent, serving>>
    BY <1>2 DEF SendPut, AckPut, Put, HasRoom, loopVars, history
  <2> QED BY <2>1 DEF Promise!Next, Promise!Submit
<1>3. CASE AckTake \/ AckTaskCancelled \/ Send \/ SendTimesOut \/ Stop \/ AckTaskJoined \/ StopReturns
  <2>1. UNCHANGED <<loop, submitted, sent, serving>>
    BY <1>3 DEF AckTake, AckTaskCancelled, Send, SendTimesOut, Stop, AckTaskJoined,
       StopReturns, loopVars, history
  <2> QED BY <2>1 DEF Promise!fvars
<1>4. ASSUME NEW c \in Connection,
             SenderTakes(c) \/ SenderCancelled(c) \/ ReceiverEnds(c) \/ ConnectionBreaks(c)
      PROVE  [Promise!Next]_Promise!fvars
  <2>1. UNCHANGED <<loop, submitted, sent, serving>>
    BY <1>4 DEF SenderTakes, SenderCancelled, ReceiverEnds, ConnectionBreaks, loopVars, history
  <2> QED BY <2>1 DEF Promise!fvars
<1>5. ASSUME NEW c \in Connection, WriteDone(c) \/ WriteFails(c)
      PROVE  [Promise!Next]_Promise!fvars
  <2>1. UNCHANGED <<loop, submitted>> /\ sender[c] = "writing"
    BY <1>5 DEF WriteDone, WriteFails, loopVars
  <2>2. CASE sent' = Append(sent, hand[c]) /\ serving' = c
    BY <2>1, <2>2, WriteGoesOut DEF Promise!Next
  <2>3. CASE UNCHANGED history
    BY <2>1, <2>3 DEF history, Promise!fvars
  <2> QED BY <1>5, <2>2, <2>3 DEF WriteDone, WriteFails
<1>6. ASSUME NEW c \in Connection, ReceivePayload(c) \/ ReceiveAck(c)
      PROVE  [Promise!Next]_Promise!fvars
  <2>1. receiver[c] = "idle" /\ serving' = c /\ UNCHANGED <<loop, submitted, sent>>
    BY <1>6 DEF ReceivePayload, ReceiveAck, loopVars
  <2> QED BY <2>1, ReceiveComesIn DEF Promise!Next
<1>7. CASE UNCHANGED vars
  BY <1>7 DEF vars, loopVars, history, Promise!fvars
<1> QED BY <1>1, <1>2, <1>3, <1>4, <1>5, <1>6, <1>7
   DEF Next, AckTask, Handler, SenderTask, ReceiveTask

\* Across any number of reconnections frames go out in order and at most once,
\* and nothing happens after the end.
THEOREM NodeRefinesChannel == Spec => RefinesChannel
<1>1. Init => Promise!Init
  BY DEF Init, Promise!Init
<1>2. IInv /\ [Next]_vars => [Promise!Next]_Promise!fvars
  BY NodeStepRefines
<1> QED BY Inductive, <1>1, <1>2, PTL DEF Spec, RefinesChannel, Promise!Spec
=============================================================================
