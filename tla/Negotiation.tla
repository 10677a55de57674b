----------------------------- MODULE Negotiation ----------------------------
(***************************************************************************)
(* The two RtcConnectors and the connection they negotiate.  ICE and the   *)
(* data channel are external: they come up when both ends use the same     *)
(* credentials, and break when they no longer do, or by a fault.           *)
(***************************************************************************)
EXTENDS BrowserRtc, BackendRtc

vars == <<links, faults, browser, backend>>

Init ==
  /\ up = << >> /\ down = << >> /\ faults = MaxFaults
  /\ BrowserInit /\ BackendInit

\* Both ends have descriptions with the same ICE credentials.
Agreed == desc.ice # 0 /\ desc.ice = peer.remote /\ ~IsClosed
Working == Fine /\ peer.state = "connected"

\* Something is still under way that takes a known time to end.
Busy ==
  \/ sending
  \/ up # << >>
  \/ down # << >>
  \/ task = "sending"
  \/ offers # << >>
  \/ current # 0 /\ offer # NoSignal
  \/ restarts > 0
  \/ candidate # 0
  \/ gathered # 0
  \/ Agreed /\ ~Working /\ ice # "failed" /\ channel.state # "closed"
  \/ ~Agreed /\ IsConnected
  \/ dcMap # channel.id /\ IsChannelOpen

BrowserStep ==
  \/ StartPeerConnection \/ OnDebounceTimeout \/ OfferCreated \/ LocalDescriptionSet
  \/ RolledBack \/ CandidateFound \/ Delivered \/ TimePasses(Busy)
  \/ \E i \in DOMAIN down : HandleSignalMsg(i)

BackendStep ==
  \/ TakeOffer \/ HandleOffer \/ TakeSignal \/ Restart \/ Acknowledged \/ Cancelled \/ LocalCandidate
  \/ \E i \in DOMAIN up : Receive(i)

\* What the network does when nothing goes wrong.
Network ==
  \/ (IceConnected(Agreed) \/ ChannelOpened(dcMap = channel.id)) /\ UNCHANGED backend
  \/ ~Agreed /\ (IceDisconnected(FALSE) \/ IceFailed(FALSE)) /\ UNCHANGED backend
  \/ dcMap # channel.id /\ ChannelClosed(FALSE) /\ UNCHANGED backend
  \/ (Connected(Agreed) \/ OnDataChannel(channel.id, IsConnected /\ channel.state = "connecting")) /\ UNCHANGED browser
  \/ ~Agreed /\ DisconnectedOrFailed(FALSE) /\ UNCHANGED browser

Trouble ==
  \/ (NegotiationFails \/ Lost \/ Close) /\ UNCHANGED backend
  \/ (IceDisconnected(TRUE) \/ IceFailed(TRUE) \/ ChannelClosed(TRUE)) /\ UNCHANGED backend
  \/ (HandleOfferFails \/ DisconnectedOrFailed(TRUE) \/ DebounceTimeout \/ Cancel) /\ UNCHANGED browser

Next ==
  \/ BrowserStep /\ UNCHANGED backend
  \/ BackendStep /\ UNCHANGED browser
  \/ Network
  \/ Trouble

Spec == Init /\ [][Next]_vars

FairSpec ==
  /\ Spec
  /\ WF_vars(BrowserStep /\ UNCHANGED backend)
  /\ WF_vars(BackendStep /\ UNCHANGED browser)
  /\ WF_vars(Network)

-----------------------------------------------------------------------------
(* Properties.                                                             *)

Messages(q, kinds) == \A i \in DOMAIN q : q[i].kind \in kinds /\ q[i].neg \in 0 .. neg
TypeOK ==
  /\ neg \in 0 .. MaxNegotiations /\ faults \in 0 .. MaxFaults
  /\ {desc.local, desc.localIce, desc.agreed, desc.ice, peer.remote, peer.handled, answered, current} \subseteq 0 .. neg
  /\ step \in {"none", "idle", "offering", "setting", "rollingback"}
  /\ Len(offers) <= QueueSize /\ Len(signals) <= QueueSize /\ Len(down) <= 1
  /\ Messages(up \o offers, {"offer", "candidate"}) /\ Messages(signals, {"offer", "candidate", "local"})
  /\ task = "sending" \/ down = << >>

\* current_negotiation_id never outlives the peer connection that its offer is
\* for: candidates of that negotiation cannot reach a later peer connection.
NegotiationHasItsOffer ==
  current # 0 => offer.neg = current \/ peer.handled = current

\* The pieces of one negotiation agree with each other, although they are
\* spread over two queues, two links, three awaits and a rollback: the answer
\* that is applied is the one to the pending offer.
Negotiations ==
  INSTANCE OfferAnswer WITH drawn <- neg, offered <- desc.local, agreed <- desc.agreed
RefinesOfferAnswer == Negotiations!Spec

\* A candidate of the pending offer's own credentials that the browser would
\* accept never overtakes the answer that carries them: the answer is
\* acknowledged before run looks at signal_rx again.  A candidate of an earlier
\* offer, whose answer was given up, is not excluded: run sends it under the id
\* it holds by then (rtc_connector.rs:533-539), and the browser accepts it.
CandidatesFollowTheirAnswer ==
  \A i \in DOMAIN down :
    down[i].kind = "candidate" /\ ForMe(down[i]) /\ desc.local # 0 =>
      down[i].ice \notin {desc.localIce} \ {desc.ice}

\* Nobody is going to begin a negotiation although the connection is not fine.
Unattended == step = "idle" /\ ~timer.on /\ ~Fine /\ ~IsClosed

\* Events are ignored while a negotiation is begun, and after a timer has
\* fired: but trouble is overlooked only within the first five seconds after a
\* timer was started.
OnlyRecentTimersHideTrouble ==
  [][~Unattended /\ Unattended' => timer.age < DISCONNECTED_RESTART]_vars

\* What both ends do about trouble gets them a connection again, unless the
\* trouble is overlooked.
Over == IsClosed \/ cancelled
RecoversIfAttended == []<>(Working \/ Over \/ Unattended)

\* The memo: "Any problems with the connection must be addressed by the frontend".
Recovers == []<>(Working \/ Over)

\* cancel() ends the task, unless the browser is gone.
CancelEnds == cancelled ~> task = "stopped" \/ IsClosed
=============================================================================
