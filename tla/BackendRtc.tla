------------------------------ MODULE BackendRtc ----------------------------
(***************************************************************************)
(* The backend's RtcConnector (src/src-tauri/rtc/rtc_connector.rs): one    *)
(* task, run, answers the offers of the browser, on a peer connection that *)
(* it replaces when the debouncer (debouncer.rs) says that the connection  *)
(* has been lost for too long.  Signalling messages reach the task through *)
(* two bounded queues; while it waits for the acknowledgement of what it   *)
(* sends it looks at neither.  The peer connection of webrtc-rs is         *)
(* external.                                                               *)
(***************************************************************************)
EXTENDS RtcLinks

CONSTANTS QueueSize       \* of signal_rx and offer_rx (8)

ASSUME QueueAssumption == QueueSize \in Nat \ {0}

VARIABLES
  offers,       \* offer_rx
  signals,      \* signal_rx
  offer,        \* current_offer
  current,      \* current_negotiation_id, 0 for None
  task,         \* where run is: in select!, sending, stopped
  peer,         \* rtc_peer_con: credentials of its remote description, the
                \* offer it handled last, its state
  answered,     \* history: the last offer that was answered
  gathered,     \* credentials whose candidate is not in signal_rx yet, 0 if none
  dcMap,        \* the data channel under "default", 0 if none
  debouncing,   \* deb_state is Start
  restarts,     \* notifications in debounce_rx
  cancelled     \* cancellation_token

backend == <<offers, signals, offer, current, task, peer, answered, gathered, dcMap, debouncing, restarts, cancelled>>

-----------------------------------------------------------------------------
(* Queues.                                                                 *)

\* mutant: an unbounded queue.
SendUnbounded(q, m) == Append(q, m)
TrySend(q, m) == IF Len(q) < QueueSize THEN Append(q, m) ELSE q

\* The message_handler: an offer goes to both queues, and is dropped from a full one.
Receive(i) ==
  /\ i \in DOMAIN up /\ task # "stopped"
  /\ up' = After(up, i)
  /\ offers' = IF up[i].kind = "offer" THEN TrySend(offers, up[i]) ELSE offers
  /\ signals' = TrySend(signals, up[i])
  /\ NoFault
  /\ UNCHANGED <<down, offer, current, task, peer, answered, gathered, dcMap, debouncing, restarts, cancelled>>

\* on_ice_candidate: waits for room in signal_rx.
LocalCandidate ==
  /\ gathered # 0 /\ Len(signals) < QueueSize
  /\ signals' = Append(signals, Signal("local", 0, gathered))
  /\ gathered' = 0
  /\ NoFault
  /\ UNCHANGED <<links, offers, offer, current, task, peer, answered, dcMap, debouncing, restarts, cancelled>>

-----------------------------------------------------------------------------
(* run: the arms of select!, any of those that are ready.                  *)

\* mutant: the acknowledgement is not awaited.
SendAndGoOn(m) == down' = Append(down, m) /\ UNCHANGED task
SendDefault(m) == task' = "sending" /\ down' = Append(down, m)
Acknowledged ==
  /\ task = "sending" /\ down = << >>
  /\ task' = "select"
  /\ NoFault
  /\ UNCHANGED <<links, offers, signals, offer, current, peer, answered, gathered, dcMap, debouncing, restarts, cancelled>>

\* mutant: cancellation is looked at only before the first offer.
CancelledEarly ==
  /\ task = "select" /\ cancelled /\ current = 0
  /\ task' = "stopped"
  /\ NoFault
  /\ UNCHANGED <<links, offers, signals, offer, current, peer, answered, gathered, dcMap, debouncing, restarts, cancelled>>
Cancelled ==
  /\ task = "select" /\ cancelled
  /\ task' = "stopped"
  /\ NoFault
  /\ UNCHANGED <<links, offers, signals, offer, current, peer, answered, gathered, dcMap, debouncing, restarts, cancelled>>

NewPeer == [remote |-> 0, handled |-> 0, state |-> "new"]

CloseDataChannels == dcMap' = 0

\* mutant: current_negotiation_id is not reset.
RestartKeepsId ==
  /\ task = "select" /\ restarts > 0
  /\ restarts' = restarts - 1
  /\ offer' = NoSignal
  /\ peer' = NewPeer /\ gathered' = 0 /\ CloseDataChannels
  /\ NoFault
  /\ UNCHANGED <<links, offers, signals, current, task, answered, debouncing, cancelled>>

\* debounce_rx, and the top of the loop: the channels are closed, and a new
\* peer connection takes over.
Restart ==
  /\ task = "select" /\ restarts > 0
  /\ restarts' = restarts - 1
  /\ offer' = NoSignal /\ current' = 0
  /\ peer' = NewPeer /\ gathered' = 0 /\ CloseDataChannels
  /\ NoFault
  /\ UNCHANGED <<links, offers, signals, task, answered, debouncing, cancelled>>

TakeOffer ==
  /\ task = "select" /\ offers # << >>
  /\ offer' = Head(offers) /\ current' = Head(offers).neg
  /\ offers' = Tail(offers)
  /\ NoFault
  /\ UNCHANGED <<links, signals, task, peer, answered, gathered, dcMap, debouncing, restarts, cancelled>>

\* handle_offer: a peer connection that does not know the credentials of an
\* offer without ICE restart does not get to the browser.
RemoteOf(m) == IF IsRestart(m) \/ peer.remote = m.ice THEN m.ice ELSE 0
HandleOffer ==
  /\ task = "select" /\ current # 0 /\ offer # NoSignal
  /\ offer' = NoSignal
  /\ peer' = [peer EXCEPT !.remote = RemoteOf(offer), !.handled = offer.neg]
  /\ gathered' = IF RemoteOf(offer) # peer.remote THEN RemoteOf(offer) ELSE gathered
  /\ answered' = offer.neg
  /\ SendDefault(Signal("answer", offer.neg, offer.ice))
  /\ NoFault
  /\ UNCHANGED <<up, offers, signals, current, dcMap, debouncing, restarts, cancelled>>

HandleOfferFails ==
  /\ task = "select" /\ current # 0 /\ offer # NoSignal
  /\ offer' = NoSignal
  /\ peer' = [peer EXCEPT !.handled = offer.neg]
  /\ Fault
  /\ UNCHANGED <<links, offers, signals, current, task, answered, gathered, dcMap, debouncing, restarts, cancelled>>

\* A local candidate goes out under the id that is current now.  Another
\* message of this negotiation is applied (a candidate) or ignored, one of
\* another negotiation dropped: neither changes what is modelled here.
TakeSignal ==
  /\ task = "select" /\ current # 0 /\ signals # << >>
  /\ signals' = Tail(signals)
  /\ IF Head(signals).kind = "local"
     THEN SendDefault(Signal("candidate", current, Head(signals).ice))
     ELSE UNCHANGED <<task, down>>
  /\ NoFault
  /\ UNCHANGED <<up, offers, offer, current, peer, answered, gathered, dcMap, debouncing, restarts, cancelled>>

-----------------------------------------------------------------------------
(* Events of the peer connection, and the debouncer.                       *)

DebouncerStart == debouncing' = TRUE
DebouncerEnd == debouncing' = FALSE

PeerState(s) ==
  /\ peer' = [peer EXCEPT !.state = s]
  /\ UNCHANGED <<links, offers, signals, offer, current, task, answered, gathered, dcMap, restarts, cancelled>>

Connected(ok) ==
  /\ peer.state # "connected" /\ ok
  /\ PeerState("connected") /\ DebouncerEnd /\ NoFault

DisconnectedOrFailed(ok) ==
  /\ peer.state # "lost" /\ peer.remote # 0 /\ (IF ok THEN Fault ELSE NoFault)
  /\ PeerState("lost") /\ DebouncerStart

\* Sixty seconds without an event.
DebounceTimeout ==
  /\ debouncing /\ debouncing' = FALSE
  /\ restarts' = restarts + 1
  /\ Fault
  /\ UNCHANGED <<links, offers, signals, offer, current, task, peer, answered, gathered, dcMap, cancelled>>

\* on_data_channel: the channel replaces the one before it, which is closed.
OnDataChannel(id, ok) ==
  /\ ok /\ peer.state = "connected" /\ dcMap # id
  /\ dcMap' = id
  /\ NoFault
  /\ UNCHANGED <<links, offers, signals, offer, current, task, peer, answered, gathered, debouncing, restarts, cancelled>>

Cancel ==
  /\ ~cancelled /\ cancelled' = TRUE
  /\ Fault
  /\ UNCHANGED <<links, offers, signals, offer, current, task, peer, answered, gathered, dcMap, debouncing, restarts>>

DebouncerInit == debouncing = FALSE /\ restarts = 0
BackendInit ==
  /\ offers = << >> /\ signals = << >>
  /\ offer = NoSignal /\ current = 0 /\ task = "select"
  /\ peer = NewPeer /\ answered = 0 /\ gathered = 0 /\ dcMap = 0
  /\ DebouncerInit /\ cancelled = FALSE
=============================================================================
