------------------------------ MODULE BrowserRtc ----------------------------
(***************************************************************************)
(* The browser's RtcConnector                                              *)
(* (src/src/transport/rtc-ts/connectors/rtc_connector.ts): it initiates    *)
(* every negotiation, from a debounce timer, and checks after each await   *)
(* whether the connection has changed under it.  Code between two awaits   *)
(* runs without interruption.  RTCPeerConnection is external: descriptions *)
(* are applied when their promise is fulfilled, ICE states are reported.   *)
(***************************************************************************)
EXTENDS RtcLinks

CONSTANTS MaxNegotiations   \* bound: negotiations of one page

ASSUME NegotiationsAssumption == MaxNegotiations \in Nat

VARIABLES
  neg,        \* currentNegotiationId, 0 when undefined
  desc,       \* local: the pending local offer; agreed: the last answered one; their credentials
  ice,        \* iceConnectionState
  channel,    \* the data channel: which one, and its readyState
  step,       \* where onDebounceTimeout is
  had,        \* what it saw when it began: hasConnection, channelOpen; its locals
  timer,      \* the debouncer
  pending,    \* pendingRequests
  sending,    \* deliveryState is set
  candidate   \* credentials whose candidate has not been reported yet, 0 if none

browser == <<neg, desc, ice, channel, step, had, timer, pending, sending, candidate>>

-----------------------------------------------------------------------------
(* The debouncer.  Delays and ages count the thresholds 0.5, 1, 5, 10 s.   *)

FAILOVER == 1
FAILED_RESTART == 2
CLOSED_CHANNEL == 2
DISCONNECTED_RESTART == 3
NEGOTIATING == 4

StartDebounce(delay) == timer' = [on |-> TRUE, delay |-> delay, age |-> 0]

\* debounceTimer is never cleared, so its age counts after it has fired, too.
\* mutant: an event never replaces a timer.
StartDebounceOnce(delay) ==
  IF timer.delay = 0 THEN StartDebounce(delay) ELSE UNCHANGED timer
StartDebounceIfFaster(delay) ==
  IF timer.delay = 0 \/ timer.age >= delay THEN StartDebounce(delay) ELSE UNCHANGED timer

HandlingDebounce == step \in {"offering", "setting", "rollingback"}
AddDebounceEvent(delay) ==
  IF HandlingDebounce THEN UNCHANGED timer ELSE StartDebounceIfFaster(delay)

IsClosed == ice = "closed"
IsConnected == ice = "connected"
IsChannelOpen == channel.state = "open"
Fine == IsConnected /\ IsChannelOpen
Changed == IsConnected # had.connected \/ IsChannelOpen # had.open
NothingSeen == [connected |-> FALSE, open |-> FALSE]

\* Time passes, but hardly any while something is busy: that something
\* outlasts the timer is a fault.
TimePasses(busy) ==
  LET end == IF timer.on THEN timer.delay ELSE DISCONNECTED_RESTART IN
  /\ timer.delay # 0 /\ timer.age < end /\ ~HandlingDebounce
  /\ timer' = [timer EXCEPT !.age = IF busy THEN end ELSE @ + 1]
  /\ IF busy THEN Fault ELSE NoFault
  /\ UNCHANGED <<links, neg, desc, ice, channel, step, had, pending, sending, candidate>>

-----------------------------------------------------------------------------
(* sendSignallingMessage: one delivery at a time.                          *)

Send(queue, busy, m) ==
  /\ pending' = Append(queue, m)
  /\ sending' = TRUE
  /\ up' = IF busy THEN up ELSE Append(up, Head(Append(queue, m)))

\* resend_task is fulfilled: the message has been acknowledged.
Delivered ==
  /\ sending /\ up = << >> /\ ~IsClosed
  /\ pending' = Tail(pending)
  /\ sending' = (pending' # << >>)
  /\ up' = IF sending' THEN <<Head(pending')>> ELSE << >>
  /\ NoFault
  /\ UNCHANGED <<down, neg, desc, ice, channel, step, had, timer, candidate>>

\* What was aborted is not sent again.
Lost ==
  /\ ~sending /\ up # << >> /\ up' = << >>
  /\ NoFault /\ UNCHANGED <<down, browser>>

-----------------------------------------------------------------------------
(* onDebounceTimeout, from await to await.                                 *)

NewChannel == [id |-> channel.id + 1, state |-> "connecting"]

\* Up to createOffer: abort what is being delivered, draw a new negotiation.
BeginNegotiation ==
  /\ neg < MaxNegotiations
  /\ neg' = neg + 1
  /\ step' = "offering"
  /\ had' = [connected |-> IsConnected, open |-> IsChannelOpen]
  /\ channel' = IF IsChannelOpen THEN channel ELSE NewChannel
  /\ pending' = IF sending THEN << >> ELSE pending
  /\ sending' = FALSE

StartPeerConnection ==
  /\ step = "none"
  /\ BeginNegotiation
  /\ NoFault /\ UNCHANGED <<links, desc, ice, timer, candidate>>

OnDebounceTimeout ==
  /\ timer.on /\ timer.age = timer.delay
  /\ timer' = [timer EXCEPT !.on = FALSE]
  /\ IF IsClosed \/ Fine
     THEN UNCHANGED <<neg, step, had, channel, pending, sending>>
     ELSE BeginNegotiation
  /\ NoFault /\ UNCHANGED <<links, desc, ice, candidate>>

Return == step' = "idle" /\ had' = NothingSeen
DebounceFailed == Return /\ StartDebounce(FAILOVER)

\* createOffer or setLocalDescription is rejected.
NegotiationFails ==
  /\ step \in {"offering", "setting"}
  /\ DebounceFailed
  /\ (IF IsClosed THEN NoFault ELSE Fault)
  /\ UNCHANGED <<links, neg, desc, ice, channel, pending, sending, candidate>>

OfferCreated ==
  /\ step = "offering" /\ ~IsClosed
  /\ IF Fine THEN Return /\ UNCHANGED timer
     ELSE IF Changed THEN DebounceFailed
     ELSE step' = "setting" /\ UNCHANGED <<had, timer>>
  /\ NoFault /\ UNCHANGED <<links, neg, desc, ice, channel, pending, sending, candidate>>

\* setLocalDescription is fulfilled: roll it back, or send the offer.
\* mutant: createOffer without iceRestart.
NeverRestarts == desc.ice = 0
Restarts == ~had.connected
LocalDescriptionSet ==
  /\ step = "setting" /\ ~IsClosed
  /\ LET creds == IF Restarts THEN neg ELSE desc.ice
     IN /\ desc' = [desc EXCEPT !.local = neg, !.localIce = creds]
        /\ candidate' = IF Restarts THEN neg ELSE candidate
        /\ IF Changed
           THEN step' = "rollingback" /\ UNCHANGED <<had, timer, pending, sending, up>>
           ELSE /\ Return /\ StartDebounce(NEGOTIATING)
                /\ Send(pending, sending, Signal("offer", neg, creds))
  /\ NoFault /\ UNCHANGED <<down, neg, ice, channel>>

RolledBack ==
  /\ step = "rollingback"
  /\ desc' = [desc EXCEPT !.local = 0, !.localIce = 0]
  /\ DebounceFailed
  /\ NoFault /\ UNCHANGED <<links, neg, ice, channel, pending, sending, candidate>>

-----------------------------------------------------------------------------
(* Events.                                                                 *)

\* onicecandidate: whatever it belongs to, it gets the current negotiation id.
CandidateFound ==
  /\ candidate # 0 /\ ~IsClosed
  /\ Send(pending, sending, Signal("candidate", neg, candidate))
  /\ candidate' = 0
  /\ NoFault /\ UNCHANGED <<down, neg, desc, ice, channel, step, had, timer>>

\* handleSignalMsg: an answer to anything but the pending offer is rejected.
\* mutant: the negotiation id is not compared.
ForAnyone(m) == TRUE
ForMe(m) == m.neg = neg
Applies(m) == ForMe(m) /\ m.kind = "answer" /\ desc.local # 0
HandleSignalMsg(i) ==
  /\ i \in DOMAIN down /\ ~IsClosed
  /\ down' = After(down, i)
  /\ IF Applies(down[i])
     THEN /\ desc' = [local |-> 0, localIce |-> 0, agreed |-> desc.local, ice |-> desc.localIce]
          /\ ice' = IF desc.localIce # desc.ice /\ ~IsConnected THEN "checking" ELSE ice
     ELSE UNCHANGED <<desc, ice>>
  /\ NoFault /\ UNCHANGED <<up, neg, channel, step, had, timer, pending, sending, candidate>>

IceState(s) == ice' = s /\ UNCHANGED <<links, neg, desc, channel, step, had, pending, sending, candidate>>
IceConnected(ok) ==
  /\ ice \in {"checking", "disconnected"} /\ ok
  /\ IceState("connected") /\ NoFault /\ UNCHANGED timer
IceDisconnected(ok) ==
  /\ ice = "connected" /\ (IF ok THEN Fault ELSE NoFault)
  /\ IceState("disconnected") /\ AddDebounceEvent(DISCONNECTED_RESTART)
IceFailed(ok) ==
  /\ ice \in {"checking", "disconnected"} /\ (IF ok THEN Fault ELSE NoFault)
  /\ IceState("failed") /\ AddDebounceEvent(FAILED_RESTART)

ChannelState(s) ==
  /\ channel' = [channel EXCEPT !.state = s]
  /\ UNCHANGED <<links, neg, desc, ice, step, had, pending, sending, candidate>>
ChannelOpened(ok) ==
  /\ channel.state = "connecting" /\ IsConnected /\ ok
  /\ ChannelState("open") /\ NoFault /\ UNCHANGED timer
ChannelClosed(ok) ==
  /\ channel.state = "open" /\ (IF ok THEN Fault ELSE NoFault)
  /\ ChannelState("closed") /\ AddDebounceEvent(CLOSED_CHANNEL)

\* close(): what is being delivered is rejected, and the loop that sends it
\* tries again at once, for ever: it stays in "sending".
Close ==
  /\ step # "none" /\ ~IsClosed
  /\ ice' = "closed" /\ channel' = [channel EXCEPT !.state = "closed"]
  /\ Fault /\ UNCHANGED <<links, neg, desc, step, had, timer, pending, sending, candidate>>

BrowserInit ==
  /\ neg = 0 /\ desc = [local |-> 0, localIce |-> 0, agreed |-> 0, ice |-> 0]
  /\ ice = "new" /\ channel = [id |-> 0, state |-> "connecting"]
  /\ step = "none" /\ had = NothingSeen
  /\ timer = [on |-> FALSE, delay |-> 0, age |-> 0]
  /\ pending = << >> /\ sending = FALSE /\ candidate = 0
=============================================================================
