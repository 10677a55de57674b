-------------------------- MODULE NegotiationProofs -------------------------
(***************************************************************************)
(* Proofs about Negotiation, for any numbers of negotiations and failures  *)
(* and queues of any size: the backend's negotiation id goes with its      *)
(* offer, the connectors implement OfferAnswer, everything keeps within    *)
(* its bounds, and trouble that comes late starts another negotiation.     *)
(***************************************************************************)
EXTENDS Negotiation, TLAPS

(***************************************************************************)
(* The inductive invariant                                                 *)
(***************************************************************************)
AnySignal ==
  [kind : {"none", "offer", "answer", "candidate", "local"}, neg : Nat, ice : Nat]

Types ==
  /\ neg \in Nat /\ answered \in 0 .. neg /\ current \in Nat
  /\ candidate \in Nat /\ gathered \in Nat
  /\ desc \in [local : 0 .. neg, localIce : Nat, agreed : 0 .. neg, ice : Nat]
  /\ up \in Seq(AnySignal) /\ down \in Seq(AnySignal)
  /\ pending \in Seq(AnySignal) /\ sending \in BOOLEAN
  /\ offers \in Seq(AnySignal) /\ signals \in Seq(AnySignal)
  /\ offer \in AnySignal
  /\ peer \in [remote : Nat, handled : Nat, state : {"new", "connected", "lost"}]

IsOffer(m) == m.kind = "offer"

\* What the backend holds is an offer, and run knows its id.
Held ==
  /\ offer # NoSignal => offer.neg = current /\ IsOffer(offer)
  /\ \A i \in DOMAIN offers : IsOffer(offers[i])
  /\ NegotiationHasItsOffer

\* The offers ascend on their way: answered, held, queued, on the link.
Ascend(q) ==
  \A i, j \in DOMAIN q : i < j /\ IsOffer(q[i]) /\ IsOffer(q[j]) => q[i].neg < q[j].neg
AllAbove(q, n) == \A i \in DOMAIN q : IsOffer(q[i]) => n < q[i].neg
AllBelow(q, n) == \A i \in DOMAIN q : IsOffer(q[i]) => q[i].neg < n
Ordered ==
  /\ Ascend(up) /\ Ascend(offers)
  /\ \A i \in DOMAIN offers : AllAbove(up, offers[i].neg)
  /\ AllAbove(up, answered) /\ AllAbove(offers, answered)
  /\ offer # NoSignal =>
       answered < offer.neg /\ AllAbove(offers, offer.neg) /\ AllAbove(up, offer.neg)

\* They, and what the backend sends, are of negotiations that have begun; before
\* the offer of the current one is sent, of earlier ones.
Before(n) ==
  /\ answered < n /\ AllBelow(up, n) /\ AllBelow(offers, n)
  /\ offer # NoSignal => offer.neg < n
  /\ current < n /\ \A i \in DOMAIN down : down[i].neg < n
Begun == Before(neg + 1)
Fresh == Before(neg)

\* pendingRequests holds messages of the current negotiation, at most one of
\* them an offer; behind the first place it has not been sent yet.
Queued ==
  /\ sending <=> pending # << >>
  /\ \A i \in DOMAIN pending : IsOffer(pending[i]) => pending[i].neg = neg
  /\ \A i, j \in DOMAIN pending : IsOffer(pending[i]) /\ IsOffer(pending[j]) => i = j
  /\ \A i \in DOMAIN pending : IsOffer(pending[i]) /\ i # 1 => Fresh

\* The local offer is the one that was sent, unless it is still being made.
Unsent == Fresh /\ \A i \in DOMAIN pending : ~IsOffer(pending[i])
Offered ==
  /\ step \in {"offering", "setting"} => Unsent /\ desc.local < neg /\ desc.agreed < neg
  /\ desc.local \in {0, neg} \/ Unsent

\* An answer under way is to an offer that was answered.
Answers == \A i \in DOMAIN down : down[i].kind = "answer" => down[i].neg <= answered

\* The task sends one message at a time.  Credentials are told the browser only
\* once the offer that drew them is answered, and the answer to the current
\* offer stays under way until the browser has it.
Credentials ==
  /\ Len(down) <= 1 /\ (task # "sending" => down = << >>)
  /\ gathered <= answered
  /\ \A i \in DOMAIN signals : signals[i].kind = "local" => signals[i].ice <= answered
  /\ \A i \in DOMAIN down : down[i].kind = "candidate" => down[i].ice <= answered
  /\ desc.localIce \in {desc.ice, desc.local}
  /\ answered = neg /\ desc.local # 0 =>
       down # << >> /\ down[1].kind = "answer" /\ down[1].neg = neg

\* A local candidate of the backend does not come from the browser.
NoneLocal(q) == \A i \in DOMAIN q : q[i].kind # "local"
Remote == NoneLocal(up) /\ NoneLocal(pending)

Path == Ordered /\ Begun /\ Queued /\ Offered /\ Answers

IInv == Types /\ Held /\ Path /\ Credentials /\ Remote

(***************************************************************************)
(* Messages on their way                                                   *)
(***************************************************************************)
\* r is q without its first k elements.
Later(r, q, k) == \A i \in DOMAIN r : i \in Nat \ {0} /\ i + k \in DOMAIN q /\ r[i] = q[i + k]

LEMMA ShortQueues ==
  /\ << >> \in Seq(AnySignal)
  /\ \A m \in AnySignal : <<m>> \in Seq(AnySignal) /\ Append(<< >>, m) = <<m>>
  OBVIOUS

LEMMA Elements ==
  ASSUME NEW q \in Seq(AnySignal), NEW i \in DOMAIN q
  PROVE  q[i] \in AnySignal /\ q[i].neg \in Nat /\ i \in Nat \ {0}
<1>1. q[i] \in AnySignal /\ i \in Nat \ {0}
  OBVIOUS
<1>2. QED BY <1>1 DEF AnySignal

LEMMA TailIsLater ==
  ASSUME NEW q \in Seq(AnySignal), q # << >>
  PROVE  Tail(q) \in Seq(AnySignal) /\ Later(Tail(q), q, 1) /\ Len(Tail(q)) = Len(q) - 1
         /\ Head(q) \in AnySignal /\ 1 \in DOMAIN q /\ Head(q) = q[1]
  BY DEF Later

LEMMA AfterIsLater ==
  ASSUME NEW q \in Seq(AnySignal), NEW k \in DOMAIN q
  PROVE  After(q, k) \in Seq(AnySignal) /\ Later(After(q, k), q, k) /\ k \in Nat \ {0}
         /\ q[k] \in AnySignal
  BY DEF Later, After

LEMMA LaterKeeps ==
  ASSUME NEW q, NEW r, NEW k \in Nat, DOMAIN q \subseteq Nat, Later(r, q, k)
  PROVE  /\ Ascend(q) => Ascend(r)
         /\ \A n : AllAbove(q, n) => AllAbove(r, n)
         /\ \A n : AllBelow(q, n) => AllBelow(r, n)
  BY DEF Later, Ascend, AllAbove, AllBelow

LEMMA AppendOne ==
  ASSUME NEW q \in Seq(AnySignal), NEW m \in AnySignal
  PROVE  /\ Append(q, m) \in Seq(AnySignal) /\ Len(Append(q, m)) = Len(q) + 1
         /\ Append(q, m) # << >> /\ Head(Append(q, m)) \in AnySignal
         /\ q = << >> => Head(Append(q, m)) = m
         /\ \A i \in DOMAIN Append(q, m) :
               \/ i \in DOMAIN q /\ Append(q, m)[i] = q[i] /\ i \in Nat /\ i < Len(q) + 1
               \/ i = Len(q) + 1 /\ Append(q, m)[i] = m
<1>1. Append(q, m) \in Seq(AnySignal) /\ Len(Append(q, m)) = Len(q) + 1
  OBVIOUS
<1>2. \A i \in DOMAIN Append(q, m) :
        \/ i \in DOMAIN q /\ Append(q, m)[i] = q[i] /\ i \in Nat /\ i < Len(q) + 1
        \/ i = Len(q) + 1 /\ Append(q, m)[i] = m
  OBVIOUS
<1>3. Append(q, m) # << >>
  <2>1. Len(q) \in Nat /\ Len(<< >>) = 0
    OBVIOUS
  <2>2. QED BY <1>1, <2>1
<1>4. Head(Append(q, m)) = Append(q, m)[1] /\ 1 \in DOMAIN Append(q, m)
  BY <1>1, <1>3
<1>5. Head(Append(q, m)) \in AnySignal
  BY <1>1, <1>4
<1>6. q = << >> => Head(Append(q, m)) = m
  BY <1>2, <1>4
<1>7. QED BY <1>1, <1>2, <1>3, <1>5, <1>6

LEMMA AppendKeeps ==
  ASSUME NEW q \in Seq(AnySignal), NEW m \in AnySignal
  PROVE  /\ Ascend(q) /\ (IsOffer(m) => AllBelow(q, m.neg)) => Ascend(Append(q, m))
         /\ \A n : AllAbove(q, n) /\ (IsOffer(m) => n < m.neg) => AllAbove(Append(q, m), n)
         /\ \A n : AllBelow(q, n) /\ (IsOffer(m) => m.neg < n) => AllBelow(Append(q, m), n)
<1>1. Len(q) \in Nat /\ DOMAIN q = 1 .. Len(q)
  OBVIOUS
<1>2. Ascend(q) /\ (IsOffer(m) => AllBelow(q, m.neg)) => Ascend(Append(q, m))
  BY <1>1, AppendOne DEF Ascend, AllBelow
<1>3. \A n : AllAbove(q, n) /\ (IsOffer(m) => n < m.neg) => AllAbove(Append(q, m), n)
  BY AppendOne DEF AllAbove
<1>4. \A n : AllBelow(q, n) /\ (IsOffer(m) => m.neg < n) => AllBelow(Append(q, m), n)
  BY AppendOne DEF AllBelow
<1>5. QED BY <1>2, <1>3, <1>4

(***************************************************************************)
(* Steps                                                                   *)
(***************************************************************************)
\* Timers, states and flags change, messages and descriptions do not.
Quiet ==
  /\ UNCHANGED <<neg, desc, step, pending, sending, up, down, offers, offer, answered, current>>
  /\ UNCHANGED <<candidate, gathered, signals>>
  /\ \/ peer' = peer
     \/ peer' = [peer EXCEPT !.state = "connected"]
     \/ peer' = [peer EXCEPT !.state = "lost"]
  /\ task' = task \/ task # "sending" \/ down = << >>

\* The steps of the browser that are not quiet, and those of the backend.
BrowserMoves ==
  \/ StartPeerConnection \/ OnDebounceTimeout \/ OfferCreated \/ LocalDescriptionSet
  \/ RolledBack \/ CandidateFound \/ Delivered \/ NegotiationFails \/ Lost
  \/ \E i \in DOMAIN down : HandleSignalMsg(i)
BackendMoves ==
  \/ TakeOffer \/ HandleOffer \/ HandleOfferFails \/ TakeSignal \/ Restart \/ LocalCandidate
  \/ \E i \in DOMAIN up : Receive(i)

LEMMA QuietSteps ==
  ASSUME \/ UNCHANGED vars
         \/ TimePasses(Busy) /\ UNCHANGED backend
         \/ (Acknowledged \/ Cancelled) /\ UNCHANGED browser
         \/ Network
         \/ (Close \/ IceDisconnected(TRUE) \/ IceFailed(TRUE) \/ ChannelClosed(TRUE)) /\ UNCHANGED backend
         \/ (DisconnectedOrFailed(TRUE) \/ DebounceTimeout \/ Cancel) /\ UNCHANGED browser
  PROVE  Quiet
<1> USE DEF Quiet, backend, browser, links
<1>1. ASSUME NEW ok \in BOOLEAN, UNCHANGED backend,
             \/ IceConnected(ok) \/ IceDisconnected(ok) \/ IceFailed(ok)
             \/ ChannelOpened(ok) \/ ChannelClosed(ok)
      PROVE  Quiet
  BY <1>1 DEF IceConnected, IceDisconnected, IceFailed, IceState, ChannelOpened, ChannelClosed, ChannelState
<1>2. ASSUME NEW ok \in BOOLEAN, NEW id, UNCHANGED browser,
             Connected(ok) \/ DisconnectedOrFailed(ok) \/ OnDataChannel(id, ok)
      PROVE  Quiet
  BY <1>2 DEF Connected, DisconnectedOrFailed, PeerState, OnDataChannel
<1>3. CASE UNCHANGED vars
  BY <1>3 DEF vars
<1>4. CASE TimePasses(Busy) /\ UNCHANGED backend
  BY <1>4 DEF TimePasses
<1>5. CASE (Acknowledged \/ Cancelled) /\ UNCHANGED browser
  BY <1>5 DEF Acknowledged, Cancelled
<1>6. CASE Close /\ UNCHANGED backend
  BY <1>6 DEF Close
<1>7. CASE (DebounceTimeout \/ Cancel) /\ UNCHANGED browser
  BY <1>7 DEF DebounceTimeout, Cancel
<1>8. CASE Network
  <2>1. /\ (dcMap = channel.id) \in BOOLEAN /\ Agreed \in BOOLEAN
        /\ (IsConnected /\ channel.state = "connecting") \in BOOLEAN
    BY DEF Agreed
  <2>2. QED BY <1>1, <1>2, <1>8, <2>1 DEF Network
<1>9. QED BY <1>1, <1>2, <1>3, <1>4, <1>5, <1>6, <1>7, <1>8

LEMMA NextCases ==
  ASSUME [Next]_vars
  PROVE  Quiet \/ (BrowserMoves /\ UNCHANGED backend) \/ (BackendMoves /\ UNCHANGED browser)
<1>1. CASE BrowserStep /\ UNCHANGED backend
  BY <1>1, QuietSteps DEF BrowserStep, BrowserMoves
<1>2. CASE BackendStep /\ UNCHANGED browser
  BY <1>2, QuietSteps DEF BackendStep, BackendMoves
<1>3. CASE Network \/ UNCHANGED vars
  BY <1>3, QuietSteps
<1>4. CASE Trouble
  BY <1>4, QuietSteps DEF Trouble, BrowserMoves, BackendMoves
<1>5. QED BY <1>1, <1>2, <1>3, <1>4 DEF Next

(***************************************************************************)
(* The invariant holds at first, and every step keeps it                   *)
(***************************************************************************)
LEMMA InitIInv == Init => IInv
<1> SUFFICES ASSUME Init PROVE IInv
  OBVIOUS
<1> USE DEF Init, BrowserInit, BackendInit
<1>1. Types
  <2>1. NoSignal \in AnySignal
    BY DEF NoSignal, Signal, AnySignal
  <2>2. << >> \in Seq(AnySignal)
    OBVIOUS
  <2>3. NewPeer \in [remote : Nat, handled : Nat, state : {"new", "connected", "lost"}]
    BY DEF NewPeer
  <2>4. desc \in [local : 0 .. neg, localIce : Nat, agreed : 0 .. neg, ice : Nat]
    <3>1. 0 \in 0 .. neg
      OBVIOUS
    <3>2. QED BY <3>1
  <2>5. QED BY <2>1, <2>2, <2>3, <2>4 DEF Types
<1>2. Held /\ Ordered /\ Begun /\ Queued /\ Offered /\ Answers
  BY DEF Held, NegotiationHasItsOffer, Ordered, Ascend, AllAbove, Begun, Before, AllBelow, Queued, Offered, Answers
<1>3. Credentials /\ Remote
  BY DEF Credentials, Remote, NoneLocal
<1>4. QED BY <1>1, <1>2, <1>3 DEF IInv, Path

\* sendSignallingMessage queues one message, and sends it if no other is under way.
LEMMA SendTypes ==
  ASSUME Types, NEW m \in AnySignal, Send(pending, sending, m)
  PROVE  /\ pending' = Append(pending, m) /\ pending' \in Seq(AnySignal)
         /\ sending' = TRUE /\ up' \in Seq(AnySignal)
         /\ sending => up' = up
         /\ ~sending => up' = Append(up, Head(pending'))
<1>1. pending' = Append(pending, m) /\ pending' \in Seq(AnySignal) /\ Head(pending') \in AnySignal
  BY AppendOne DEF Send, Types
<1>2. up' = IF sending THEN up ELSE Append(up, Head(pending'))
  BY <1>1 DEF Send
<1>3. Append(up, Head(pending')) \in Seq(AnySignal)
  BY <1>1, AppendOne DEF Types
<1>4. QED BY <1>1, <1>2, <1>3 DEF Send, Types

LEMMA DescTypes ==
  ASSUME Types, NEW n \in 0 .. neg, NEW c \in Nat
  PROVE  /\ desc \in [local : 0 .. neg + 1, localIce : Nat, agreed : 0 .. neg + 1, ice : Nat]
         /\ [desc EXCEPT !.local = n, !.localIce = c]
              \in [local : 0 .. neg, localIce : Nat, agreed : 0 .. neg, ice : Nat]
<1>1. 0 .. neg \subseteq 0 .. neg + 1
  BY DEF Types
<1>2. desc \in [local : 0 .. neg + 1, localIce : Nat, agreed : 0 .. neg + 1, ice : Nat]
  BY <1>1 DEF Types
<1>3. [desc EXCEPT !.local = n, !.localIce = c]
        \in [local : 0 .. neg, localIce : Nat, agreed : 0 .. neg, ice : Nat]
  BY DEF Types
<1>4. QED BY <1>2, <1>3

LEMMA BrowserTypes ==
  ASSUME IInv, BrowserMoves, UNCHANGED backend
  PROVE  Types'
<1> USE DEF IInv, Types, links, backend
<1>1. CASE StartPeerConnection \/ OnDebounceTimeout
  <2>1. CASE neg' = neg + 1
    <3>1. /\ desc' = desc /\ UNCHANGED <<links, candidate, backend>>
          /\ pending' \in {pending, << >>} /\ sending' \in BOOLEAN
      BY <1>1, <2>1 DEF StartPeerConnection, OnDebounceTimeout, BeginNegotiation
    <3>2. pending' \in Seq(AnySignal)
      BY <3>1, ShortQueues
    <3>3. desc' \in [local : 0 .. neg', localIce : Nat, agreed : 0 .. neg', ice : Nat]
      BY <2>1, <3>1, DescTypes
    <3>4. neg' \in Nat /\ answered' \in 0 .. neg'
      BY <2>1, <3>1
    <3>5. QED BY <3>1, <3>2, <3>3, <3>4
  <2>2. CASE neg' # neg + 1
    BY <1>1, <2>2 DEF StartPeerConnection, OnDebounceTimeout, BeginNegotiation
  <2>3. QED BY <2>1, <2>2
<1>2. CASE OfferCreated \/ NegotiationFails
  BY <1>2 DEF OfferCreated, NegotiationFails, DebounceFailed, Return
<1>3. CASE RolledBack
  <2>1. desc' = [desc EXCEPT !.local = 0, !.localIce = 0]
    BY <1>3 DEF RolledBack
  <2>2. desc' \in [local : 0 .. neg, localIce : Nat, agreed : 0 .. neg, ice : Nat]
    <3>1. 0 \in 0 .. neg /\ 0 \in Nat
      OBVIOUS
    <3>2. QED BY <2>1, <3>1, DescTypes
  <2>3. QED BY <1>3, <2>2 DEF RolledBack, DebounceFailed, Return
<1>4. CASE Lost
  BY <1>4 DEF Lost, browser
<1>5. CASE LocalDescriptionSet
  <2>1. PICK creds \in Nat :
          /\ desc' = [desc EXCEPT !.local = neg, !.localIce = creds]
          /\ UNCHANGED <<pending, sending, up>> \/ Send(pending, sending, Signal("offer", neg, creds))
    BY <1>5 DEF LocalDescriptionSet
  <2>2. candidate' \in Nat
    BY <1>5 DEF LocalDescriptionSet
  <2>3. Signal("offer", neg, creds) \in AnySignal
    BY DEF Signal, AnySignal
  <2>4. up' \in Seq(AnySignal) /\ pending' \in Seq(AnySignal) /\ sending' \in BOOLEAN
    BY <2>1, <2>3, SendTypes
  <2>5. desc' \in [local : 0 .. neg, localIce : Nat, agreed : 0 .. neg, ice : Nat]
    <3>1. neg \in 0 .. neg
      OBVIOUS
    <3>2. QED BY <2>1, <3>1, DescTypes
  <2>6. neg' = neg /\ down' = down
    BY <1>5 DEF LocalDescriptionSet
  <2>7. QED BY <2>2, <2>4, <2>5, <2>6
<1>6. CASE CandidateFound
  <2>1. Signal("candidate", neg, candidate) \in AnySignal
    BY DEF Signal, AnySignal
  <2>2. QED BY <1>6, <2>1, SendTypes DEF CandidateFound
<1>7. CASE Delivered
  <2>1. pending # << >>
    BY <1>7 DEF Delivered, Path, Queued
  <2>2. Tail(pending) \in Seq(AnySignal)
    BY <2>1, TailIsLater
  <2>3. Tail(pending) # << >> => Head(Tail(pending)) \in AnySignal
    BY <2>2, TailIsLater
  <2>4. up' \in Seq(AnySignal)
    <3>1. up' = << >> \/ (Tail(pending) # << >> /\ up' = <<Head(Tail(pending))>>)
      BY <1>7 DEF Delivered
    <3>2. QED BY <2>3, <3>1, ShortQueues
  <2>5. QED BY <1>7, <2>2, <2>4 DEF Delivered
<1>8. ASSUME NEW i \in DOMAIN down, HandleSignalMsg(i)
      PROVE  Types'
  <2>1. down' \in Seq(AnySignal)
    BY <1>8, AfterIsLater DEF HandleSignalMsg
  <2>2. QED BY <1>8, <2>1 DEF HandleSignalMsg
<1>9. QED BY <1>1, <1>2, <1>3, <1>4, <1>5, <1>6, <1>7, <1>8 DEF BrowserMoves

LEMMA TrySendTypes ==
  ASSUME NEW q \in Seq(AnySignal), NEW m \in AnySignal
  PROVE  TrySend(q, m) \in {q, Append(q, m)} /\ TrySend(q, m) \in Seq(AnySignal)
  BY AppendOne DEF TrySend

LEMMA BackendTypes ==
  ASSUME IInv, BackendMoves, UNCHANGED browser
  PROVE  Types'
<1> USE DEF IInv, Types, links, browser
<1>1. NoSignal \in AnySignal
  BY DEF NoSignal, Signal, AnySignal
<1>2. CASE TakeOffer
  BY <1>2, TailIsLater DEF TakeOffer, AnySignal
<1>3. CASE HandleOffer
  <2>1. offer.neg \in 0 .. neg
    BY <1>3 DEF HandleOffer, Path, Begun, Before, AnySignal
  <2>2. RemoteOf(offer) \in Nat /\ offer.neg \in Nat
    BY DEF RemoteOf, AnySignal
  <2>3. Signal("answer", offer.neg, offer.ice) \in AnySignal
    BY DEF Signal, AnySignal
  <2>4. down' \in Seq(AnySignal)
    BY <1>3, <2>3, AppendOne DEF HandleOffer, SendDefault
  <2>5. peer' \in [remote : Nat, handled : Nat, state : {"new", "connected", "lost"}]
    BY <1>3, <2>2 DEF HandleOffer
  <2>6. QED BY <1>1, <1>3, <2>1, <2>2, <2>4, <2>5 DEF HandleOffer
<1>4. CASE HandleOfferFails
  BY <1>1, <1>4 DEF HandleOfferFails, AnySignal
<1>5. CASE TakeSignal
  <2>1. Tail(signals) \in Seq(AnySignal) /\ Head(signals) \in AnySignal
    BY <1>5, TailIsLater DEF TakeSignal
  <2>2. Signal("candidate", current, Head(signals).ice) \in AnySignal
    BY <2>1 DEF Signal, AnySignal
  <2>3. down' \in {down, Append(down, Signal("candidate", current, Head(signals).ice))}
    BY <1>5 DEF TakeSignal, SendDefault
  <2>4. down' \in Seq(AnySignal)
    BY <2>2, <2>3, AppendOne
  <2>5. QED BY <1>5, <2>1, <2>4 DEF TakeSignal
<1>6. CASE Restart
  BY <1>1, <1>6 DEF Restart, NewPeer
<1>7. CASE LocalCandidate
  <2>1. Signal("local", 0, gathered) \in AnySignal
    BY DEF Signal, AnySignal
  <2>2. QED BY <1>7, <2>1, AppendOne DEF LocalCandidate
<1>8. ASSUME NEW i \in DOMAIN up, Receive(i)
      PROVE  Types'
  <2>1. up[i] \in AnySignal /\ up' \in Seq(AnySignal)
    BY <1>8, AfterIsLater DEF Receive
  <2>2. offers' \in Seq(AnySignal) /\ signals' \in Seq(AnySignal)
    BY <1>8, <2>1, TrySendTypes DEF Receive
  <2>3. QED BY <1>8, <2>1, <2>2 DEF Receive
<1>9. QED BY <1>2, <1>3, <1>4, <1>5, <1>6, <1>7, <1>8 DEF BackendMoves

LEMMA TypesStep == IInv /\ [Next]_vars => Types'
<1>1. IInv /\ Quiet => Types'
  BY DEF IInv, Types, Quiet
<1>2. QED BY <1>1, NextCases, BrowserTypes, BackendTypes

\* run forgets an offer and its id together (rtc_connector.rs:476-516).
LEMMA HeldStep == IInv /\ [Next]_vars => Held'
<1> SUFFICES ASSUME IInv, [Next]_vars PROVE Held'
  OBVIOUS
<1> USE DEF IInv, Held, NegotiationHasItsOffer
<1>1. CASE Quiet \/ UNCHANGED backend
  BY <1>1 DEF Types, Quiet, backend
<1>2. CASE TakeOffer
  <2>1. Later(Tail(offers), offers, 1) /\ IsOffer(Head(offers))
    BY <1>2, TailIsLater DEF TakeOffer, Types
  <2>2. QED BY <1>2, <2>1 DEF TakeOffer, Later
<1>3. CASE HandleOffer \/ HandleOfferFails
  BY <1>3 DEF HandleOffer, HandleOfferFails, Types
<1>4. CASE TakeSignal \/ LocalCandidate
  BY <1>4 DEF TakeSignal, LocalCandidate
<1>5. CASE Restart
  BY <1>5 DEF Restart
<1>6. ASSUME NEW i \in DOMAIN up, Receive(i)
      PROVE  Held'
  <2>1. up[i] \in AnySignal
    BY AfterIsLater DEF Types
  <2>2. offers' \in {offers, Append(offers, up[i])} /\ (offers' # offers => IsOffer(up[i]))
    <3>1. offers' = IF IsOffer(up[i]) THEN TrySend(offers, up[i]) ELSE offers
      BY <1>6 DEF Receive, IsOffer
    <3>2. TrySend(offers, up[i]) \in {offers, Append(offers, up[i])}
      BY <2>1, TrySendTypes DEF Types
    <3>3. QED BY <3>1, <3>2
  <2>3. \A j \in DOMAIN offers' : IsOffer(offers'[j])
    <3>1. offers \in Seq(AnySignal)
      BY DEF Types
    <3>2. CASE offers' = Append(offers, up[i]) /\ IsOffer(up[i])
      BY ONLY <2>1, <3>1, <3>2, AppendOne, \A j \in DOMAIN offers : IsOffer(offers[j])
    <3>3. QED BY <2>2, <3>2
  <2>4. QED BY <1>6, <2>3 DEF Receive
<1>7. QED BY <1>1, <1>2, <1>3, <1>4, <1>5, <1>6, NextCases DEF BackendMoves

\* What the backend sends is of the negotiation it has an offer of.
LEMMA BackendSends ==
  ASSUME IInv, BackendMoves, UNCHANGED browser
  PROVE  \A i \in DOMAIN down' :
           (i \in DOMAIN down /\ down'[i] = down[i]) \/ (down'[i].neg = current /\ current' = current)
<1>1. down \in Seq(AnySignal)
  BY DEF IInv, Types
<1>2. ASSUME NEW m \in AnySignal, down' = Append(down, m), m.neg = current /\ current' = current
      PROVE  \A i \in DOMAIN down' :
               (i \in DOMAIN down /\ down'[i] = down[i]) \/ (down'[i].neg = current /\ current' = current)
  BY <1>1, <1>2, AppendOne
<1>3. CASE HandleOffer
  <2>1. /\ Signal("answer", offer.neg, offer.ice) \in AnySignal
        /\ Signal("answer", offer.neg, offer.ice).neg = current
    BY <1>3 DEF HandleOffer, Signal, AnySignal, IInv, Types, Held
  <2>2. current' = current /\ down' = Append(down, Signal("answer", offer.neg, offer.ice))
    BY <1>3 DEF HandleOffer, SendDefault
  <2>3. QED BY <1>2, <2>1, <2>2
<1>4. CASE TakeSignal /\ down' # down
  <2>1. Head(signals) \in AnySignal
    BY <1>4, TailIsLater DEF TakeSignal, IInv, Types
  <2>2. /\ Signal("candidate", current, Head(signals).ice) \in AnySignal
        /\ Signal("candidate", current, Head(signals).ice).neg = current
    BY <2>1 DEF Signal, AnySignal, IInv, Types
  <2>3. current' = current /\ down' = Append(down, Signal("candidate", current, Head(signals).ice))
    BY <1>4 DEF TakeSignal, SendDefault
  <2>4. QED BY <1>2, <2>2, <2>3
<1>5. CASE down' = down
  BY <1>5
<1>6. QED
  BY <1>3, <1>4, <1>5
     DEF BackendMoves, TakeOffer, HandleOfferFails, Restart, LocalCandidate, Receive, links

\* Offers only move on from the link to the queue, to run, to their answer:
\* what is before a negotiation stays before it.
LEMMA BackendKeepsOrder ==
  ASSUME IInv, BackendMoves, UNCHANGED browser
  PROVE  Ordered' /\ (Before(neg) => Before(neg)') /\ (Before(neg + 1) => Before(neg + 1)')
<1>1. /\ up \in Seq(AnySignal) /\ offers \in Seq(AnySignal)
      /\ neg \in Nat /\ answered \in Nat /\ neg' = neg
      /\ DOMAIN up \subseteq Nat /\ DOMAIN offers \subseteq Nat
  BY DEF IInv, Types, browser
<1> USE DEF Ordered, Before
<1>2. Ordered /\ Held
  BY DEF IInv, Path
<1>3. \A n : (\A i \in DOMAIN down : down[i].neg < n) /\ current < n
             => \A i \in DOMAIN down' : down'[i].neg < n
  BY BackendSends
<1>4. CASE TakeOffer
  <2>1. /\ Later(Tail(offers), offers, 1) /\ 1 \in DOMAIN offers /\ Head(offers) = offers[1]
        /\ IsOffer(offers[1]) /\ offers[1].neg \in Nat
    BY <1>1, <1>2, <1>4, TailIsLater DEF TakeOffer, Held, AnySignal
  <2>2. /\ UNCHANGED <<up, answered>> /\ offer' = offers[1] /\ offers' = Tail(offers)
    BY <1>4, <2>1 DEF TakeOffer, links
  <2>3. Ascend(offers') /\ AllAbove(offers', answered)
    BY <1>1, <1>2, <2>1, <2>2, LaterKeeps
  <2>4. \A j \in DOMAIN offers' : offers[1].neg < offers'[j].neg /\ AllAbove(up, offers'[j].neg)
    BY <1>2, <2>1, <2>2 DEF Later, Ascend, Held
  <2>5. answered < offers[1].neg /\ AllAbove(up, offers[1].neg)
    BY <1>2, <2>1 DEF AllAbove
  <2>6. \A n \in Nat : AllBelow(offers, n) => AllBelow(offers', n) /\ offers[1].neg < n
    BY <1>1, <2>1, <2>2, LaterKeeps DEF AllBelow
  <2>7. current' = offers[1].neg /\ down' = down
    BY <1>4, <2>1 DEF TakeOffer, links
  <2>8. QED BY <1>1, <1>2, <1>3, <2>2, <2>3, <2>4, <2>5, <2>6, <2>7 DEF AllAbove
<1>5. CASE HandleOffer
  <2>1. /\ offer # NoSignal /\ offer' = NoSignal /\ answered' = offer.neg
        /\ UNCHANGED <<up, offers, current>>
    BY <1>5 DEF HandleOffer
  <2>2. QED BY <1>1, <1>2, <1>3, <2>1
<1>6. CASE HandleOfferFails \/ Restart
  BY <1>1, <1>2, <1>6, <1>3 DEF HandleOfferFails, Restart, links
<1>7. CASE TakeSignal \/ LocalCandidate
  BY <1>1, <1>2, <1>7, <1>3 DEF TakeSignal, LocalCandidate, links
<1>8. ASSUME NEW i \in DOMAIN up, Receive(i)
      PROVE  Ordered' /\ (Before(neg) => Before(neg)') /\ (Before(neg + 1) => Before(neg + 1)')
  <2>1. /\ Later(up', up, i) /\ i \in Nat /\ up[i] \in AnySignal
        /\ UNCHANGED <<answered, offer, current, down>>
    BY <1>1, <1>8, AfterIsLater DEF Receive
  <2>2. \/ offers' = offers
        \/ offers' = Append(offers, up[i]) /\ IsOffer(up[i])
    BY <1>1, <1>8, <2>1, TrySendTypes DEF Receive, IsOffer
  <2>3. Ascend(up') /\ \A n : (AllAbove(up, n) => AllAbove(up', n)) /\ (AllBelow(up, n) => AllBelow(up', n))
    BY <1>1, <1>2, <2>1, LaterKeeps
  <2>4. CASE offers' = offers
    BY <1>1, <1>2, <2>1, <2>3, <2>4
  <2>5. CASE offers' = Append(offers, up[i]) /\ IsOffer(up[i])
    <3>1. up[i].neg \in Nat /\ AllBelow(offers, up[i].neg)
      BY <1>2, <2>1, <2>5 DEF AllBelow, AllAbove, AnySignal
    <3>2. Ascend(offers')
      BY <1>1, <1>2, <2>1, <2>5, <3>1, AppendKeeps
    <3>3. AllAbove(up', up[i].neg)
      BY <1>2, <2>1, <2>5 DEF Later, AllAbove, Ascend
    <3>4. \A j \in DOMAIN offers' : AllAbove(up', offers'[j].neg)
      BY <1>1, <1>2, <2>1, <2>3, <2>5, <3>3, AppendOne
    <3>5. AllAbove(offers', answered) /\ (offer # NoSignal => AllAbove(offers', offer.neg))
      BY <1>1, <1>2, <2>1, <2>5, AppendKeeps DEF AllAbove
    <3>6. \A n : AllBelow(offers, n) /\ AllBelow(up, n) => AllBelow(offers', n)
      BY <1>1, <2>1, <2>5, AppendKeeps DEF AllBelow
    <3>7. QED BY <1>1, <1>2, <2>1, <2>3, <3>2, <3>4, <3>5, <3>6
  <2>6. QED BY <2>2, <2>4, <2>5
<1>9. QED BY <1>4, <1>5, <1>6, <1>7, <1>8 DEF BackendMoves

LEMMA BackendKeepsPath ==
  ASSUME IInv, BackendMoves, UNCHANGED browser
  PROVE  Path'
<1>1. Path /\ UNCHANGED <<neg, desc, step, pending, sending>>
  BY DEF IInv, browser
<1>2. Ordered' /\ Begun' /\ (Fresh => Fresh')
  BY <1>1, BackendKeepsOrder DEF Path, Begun, Fresh
<1>3. Queued' /\ Offered'
  BY <1>1, <1>2 DEF Path, Queued, Offered, Unsent
<1>4. CASE HandleOffer
  <2>1. answered \in Nat /\ answered < offer.neg /\ answered' = offer.neg /\ offer.neg \in Nat
    BY <1>4 DEF HandleOffer, IInv, Path, Ordered, Types, AnySignal
  <2>2. down' = Append(down, Signal("answer", offer.neg, offer.ice))
    BY <1>4 DEF HandleOffer, SendDefault
  <2>3. Signal("answer", offer.neg, offer.ice) \in AnySignal
    BY <2>1 DEF Signal, AnySignal, IInv, Types
  <2>4. \A i \in DOMAIN down : down[i].neg \in Nat
    BY Elements DEF IInv, Types
  <2>5. ASSUME NEW i \in DOMAIN down', down'[i].kind = "answer"
        PROVE  down'[i].neg <= answered'
    <3>1. \/ i \in DOMAIN down /\ down'[i] = down[i]
          \/ down'[i] = Signal("answer", offer.neg, offer.ice)
      BY <2>2, <2>3, <2>5, AppendOne DEF IInv, Types
    <3>2. QED BY <1>1, <2>1, <2>4, <2>5, <3>1 DEF Path, Answers, Signal
  <2>6. QED BY <1>2, <1>3, <2>5 DEF Path, Answers
<1>5. CASE TakeSignal
  <2>1. answered' = answered /\ Signal("candidate", current, Head(signals).ice).kind = "candidate"
    BY <1>5 DEF TakeSignal, Signal
  <2>2. Signal("candidate", current, Head(signals).ice) \in AnySignal
    BY <1>5, TailIsLater DEF TakeSignal, Signal, AnySignal, IInv, Types
  <2>3. down' \in {down, Append(down, Signal("candidate", current, Head(signals).ice))}
    BY <1>5 DEF TakeSignal, SendDefault
  <2>4. ASSUME NEW i \in DOMAIN down', down'[i].kind = "answer"
        PROVE  i \in DOMAIN down /\ down'[i] = down[i]
    <3>1. down \in Seq(AnySignal)
      BY DEF IInv, Types
    <3>2. CASE down' = Append(down, Signal("candidate", current, Head(signals).ice))
      BY <2>1, <2>2, <2>4, <3>1, <3>2, AppendOne
    <3>3. QED BY <2>3, <2>4, <3>2
  <2>5. QED BY <1>1, <1>2, <1>3, <2>1, <2>4 DEF Path, Answers
<1>6. CASE UNCHANGED <<down, answered>>
  BY <1>1, <1>2, <1>3, <1>6 DEF Path, Answers
<1>7. QED
  BY <1>4, <1>5, <1>6
     DEF BackendMoves, TakeOffer, HandleOfferFails, Restart, LocalCandidate, Receive, links

\* A message joins the link: an offer only if it is the first of its negotiation.
LEMMA PutKeepsOrder ==
  ASSUME IInv, NEW m \in AnySignal, up' = Append(up, m), UNCHANGED <<neg, down, offers, offer, current, answered>>,
         IsOffer(m) => m.neg = neg /\ Fresh
  PROVE  Ordered' /\ Begun' /\ (~IsOffer(m) /\ Fresh => Fresh')
<1>1. /\ up \in Seq(AnySignal) /\ offers \in Seq(AnySignal) /\ neg \in Nat
      /\ Ordered /\ Begun /\ Held
  BY DEF IInv, Path, Types
<1>2. Ascend(up')
  BY <1>1, AppendKeeps DEF Ordered, Fresh, Before
<1>3. \A n : AllAbove(up, n) /\ (IsOffer(m) => n < m.neg) => AllAbove(up', n)
  BY <1>1, AppendKeeps
<1>4. \A n : AllBelow(up, n) /\ (IsOffer(m) => m.neg < n) => AllBelow(up', n)
  BY <1>1, AppendKeeps
<1>5. IsOffer(m) => \A i \in DOMAIN offers : offers[i].neg < m.neg
  BY <1>1 DEF Fresh, Before, AllBelow, Held
<1>6. Ordered'
  BY <1>1, <1>2, <1>3, <1>5 DEF Ordered, Fresh, Before
<1>7. Begun'
  BY <1>1, <1>4 DEF Begun, Before
<1>8. ~IsOffer(m) /\ Fresh => Fresh'
  BY <1>4 DEF Fresh, Before
<1>9. QED BY <1>6, <1>7, <1>8

\* A new negotiation drops what waits to be sent (rtc_connector.ts:149-174).
LEMMA BeginKeepsPath ==
  ASSUME IInv, BeginNegotiation, UNCHANGED <<links, desc, backend>>
  PROVE  Path'
<1>1. /\ neg' = neg + 1 /\ neg \in Nat /\ answered \in Nat
      /\ desc' = desc /\ desc.local \in 0 .. neg /\ desc.agreed \in 0 .. neg
      /\ UNCHANGED <<up, down, offers, offer, current, answered>> /\ current \in Nat
      /\ pending' = << >> /\ sending' = FALSE
  BY DEF BeginNegotiation, IInv, Path, Queued, Types, links, backend
<1>2. Fresh'
  BY <1>1 DEF IInv, Path, Begun, Fresh, Before
<1>3. Begun'
  <2>1. \A i \in DOMAIN up : up[i].neg \in Nat
    BY Elements DEF IInv, Types
  <2>2. \A i \in DOMAIN offers : offers[i].neg \in Nat
    BY Elements DEF IInv, Types
  <2>3. offer.neg \in Nat
    BY DEF IInv, Types, AnySignal
  <2>4. \A i \in DOMAIN down : down[i].neg \in Nat
    BY Elements DEF IInv, Types
  <2>5. QED BY <1>1, <1>2, <2>1, <2>2, <2>3, <2>4 DEF Fresh, Begun, Before, AllBelow
<1>4. Ordered' /\ Answers'
  BY <1>1 DEF IInv, Path, Ordered, Answers
<1>5. Queued'
  BY <1>1 DEF Queued
<1>6. Unsent' /\ desc'.local < neg' /\ desc'.agreed < neg'
  BY <1>1, <1>2 DEF Unsent
<1>7. Offered'
  BY <1>6 DEF Offered
<1>8. QED BY <1>3, <1>4, <1>5, <1>7 DEF Path

\* Nothing that was sent or queued changes; the local offer is taken back, or
\* the handler goes on.
LEMMA StepsKeepPath ==
  ASSUME IInv, UNCHANGED <<neg, up, down, pending, sending, offers, offer, current, answered>>,
         \/ desc' = desc /\ (step' = step \/ step' = "idle" \/ (step = "offering" /\ step' = "setting"))
         \/ desc' = [desc EXCEPT !.local = 0, !.localIce = 0] /\ step' = "idle"
  PROVE  Path'
<1>1. Ordered' /\ Begun' /\ Queued' /\ Answers' /\ (Unsent => Unsent')
  BY DEF IInv, Path, Ordered, Begun, Queued, Fresh, Before, Answers, Unsent
<1>2. desc' = [desc EXCEPT !.local = 0, !.localIce = 0] => desc'.local = 0
  BY DEF IInv, Types
<1>3. Offered'
  BY <1>1, <1>2 DEF IInv, Path, Offered
<1>4. QED BY <1>1, <1>3 DEF Path

\* The offer of the current negotiation is queued, and sent if nothing else is
\* under way (rtc_connector.ts:194-224).
LEMMA LocalDescriptionSetKeepsPath ==
  ASSUME IInv, LocalDescriptionSet, UNCHANGED backend
  PROVE  Path'
<1>1. PICK creds \in Nat :
        /\ desc' = [desc EXCEPT !.local = neg, !.localIce = creds]
        /\ \/ step' = "rollingback" /\ UNCHANGED <<pending, sending, up>>
           \/ step' = "idle" /\ Send(pending, sending, Signal("offer", neg, creds))
  BY DEF LocalDescriptionSet, Return, IInv, Types
<1>2. /\ UNCHANGED <<neg, down, offers, offer, current, answered>> /\ step = "setting" /\ neg \in Nat
      /\ Types /\ Path /\ desc'.local = neg /\ pending \in Seq(AnySignal)
  BY <1>1 DEF LocalDescriptionSet, backend, IInv, Types
<1>3. Unsent
  BY <1>2 DEF Path, Offered
<1>4. step' \notin {"offering", "setting"}
  BY <1>1
<1>5. Offered' /\ Answers'
  BY <1>2, <1>4 DEF Offered, Answers, Path
<1>6. CASE UNCHANGED <<pending, sending, up>>
  BY <1>2, <1>5, <1>6 DEF Path, Ordered, Begun, Queued, Fresh, Before
<1>7. CASE Send(pending, sending, Signal("offer", neg, creds))
  <2> DEFINE m == Signal("offer", neg, creds)
  <2>1. m \in AnySignal /\ IsOffer(m) /\ m.neg = neg /\ Send(pending, sending, m)
    BY <1>2, <1>7 DEF Signal, AnySignal, IsOffer
  <2> HIDE DEF m
  <2>2. /\ pending' = Append(pending, m) /\ sending' = TRUE /\ pending' # << >>
        /\ sending => up' = up
        /\ ~sending => up' = Append(up, m) /\ pending = << >>
    <3>1. /\ pending' = Append(pending, m) /\ sending' = TRUE
          /\ sending => up' = up
          /\ ~sending => up' = Append(up, Head(pending'))
      BY <1>2, <2>1, SendTypes
    <3>2. ~sending => pending = << >>
      BY <1>2 DEF Path, Queued
    <3>3. Append(pending, m) # << >> /\ (pending = << >> => Head(Append(pending, m)) = m)
      BY <1>2, <2>1, AppendOne
    <3>4. QED BY <3>1, <3>2, <3>3
  <2>3. Ordered' /\ Begun' /\ (sending => Fresh')
    <3>1. CASE sending
      BY <1>2, <2>2, <3>1, <1>3 DEF Path, Ordered, Begun, Fresh, Before, Unsent
    <3>2. CASE ~sending
      BY <1>2, <1>3, <2>1, <2>2, <3>2, PutKeepsOrder DEF Unsent
    <3>3. QED BY <3>1, <3>2
  <2>4. \A i \in DOMAIN pending' : IsOffer(pending'[i]) => i = Len(pending) + 1 /\ pending'[i] = m
    BY <1>2, <1>3, <2>1, <2>2, AppendOne DEF Unsent
  <2>5. ~sending => Len(pending) = 0
    BY <2>2
  <2>6. Queued'
    <3>1. sending' <=> pending' # << >>
      BY <2>2
    <3>2. \A i \in DOMAIN pending' : IsOffer(pending'[i]) => pending'[i].neg = neg'
      BY <1>2, <2>1, <2>4
    <3>3. \A i, j \in DOMAIN pending' : IsOffer(pending'[i]) /\ IsOffer(pending'[j]) => i = j
      BY <2>4
    <3>4. \A i \in DOMAIN pending' : IsOffer(pending'[i]) /\ i # 1 => Fresh'
      BY <2>3, <2>4, <2>5
    <3>5. QED BY <3>1, <3>2, <3>3, <3>4 DEF Queued
  <2>7. QED BY <1>5, <2>3, <2>6 DEF Path
<1>8. QED BY <1>1, <1>6, <1>7

LEMMA CandidateFoundKeepsPath ==
  ASSUME IInv, CandidateFound, UNCHANGED backend
  PROVE  Path'
<1> DEFINE m == Signal("candidate", neg, candidate)
<1>1. m \in AnySignal /\ ~IsOffer(m) /\ Send(pending, sending, m)
  BY DEF CandidateFound, Signal, AnySignal, IsOffer, IInv, Types
<1> HIDE DEF m
<1>2. /\ UNCHANGED <<neg, down, desc, step, offers, offer, current, answered>>
      /\ Types /\ Path /\ pending \in Seq(AnySignal)
  BY DEF CandidateFound, backend, IInv, Types
<1>3. /\ pending' = Append(pending, m) /\ sending' = TRUE
      /\ sending => up' = up
      /\ ~sending => up' = Append(up, Head(pending'))
  BY <1>1, <1>2, SendTypes
<1>4. ~sending => up' = Append(up, m)
  <2>1. ~sending => pending = << >>
    BY <1>2 DEF Path, Queued
  <2>2. QED BY <1>1, <1>2, <1>3, <2>1, AppendOne
<1>5. Ordered' /\ Begun' /\ (Fresh => Fresh')
  <2>1. CASE sending
    BY <1>2, <1>3, <2>1 DEF Path, Ordered, Begun, Fresh, Before
  <2>2. CASE ~sending
    BY <1>1, <1>2, <1>4, <2>2, PutKeepsOrder
  <2>3. QED BY <2>1, <2>2
<1>6. pending' # << >> /\ \A i \in DOMAIN pending' :
        IsOffer(pending'[i]) => i \in DOMAIN pending /\ pending'[i] = pending[i]
  BY <1>1, <1>2, <1>3, AppendOne
<1>7. Queued'
  BY <1>2, <1>3, <1>5, <1>6 DEF Path, Queued
<1>8. Offered' /\ Answers'
  BY <1>2, <1>5, <1>6 DEF Path, Offered, Unsent, Answers
<1>9. QED BY <1>5, <1>7, <1>8 DEF Path

\* The next message goes out when the one before it is acknowledged.
LEMMA DeliveredKeepsPath ==
  ASSUME IInv, Delivered, UNCHANGED backend
  PROVE  Path'
<1>1. /\ UNCHANGED <<neg, down, desc, step, offers, offer, current, answered>>
      /\ sending /\ up = << >> /\ pending' = Tail(pending)
      /\ sending' = (pending' # << >>)
      /\ up' = IF sending' THEN <<Head(pending')>> ELSE << >>
      /\ Types /\ Path /\ pending \in Seq(AnySignal) /\ pending # << >>
  BY DEF Delivered, backend, IInv, Types, Path, Queued
<1>2. pending' \in Seq(AnySignal) /\ Later(pending', pending, 1)
  BY <1>1, TailIsLater
<1>3. \A i \in DOMAIN pending' :
        /\ i + 1 \in DOMAIN pending /\ pending'[i] = pending[i + 1]
        /\ i + 1 # 1 /\ i \in Nat
  BY <1>2 DEF Later
<1>4. \A i \in DOMAIN pending' : IsOffer(pending'[i]) => pending'[i].neg = neg /\ Fresh
  BY <1>1, <1>3 DEF Path, Queued
<1>5. \A i, j \in DOMAIN pending' : IsOffer(pending'[i]) /\ IsOffer(pending'[j]) => i = j
  <2>1. SUFFICES ASSUME NEW i \in DOMAIN pending', NEW j \in DOMAIN pending',
                        IsOffer(pending'[i]), IsOffer(pending'[j])
                 PROVE  i = j
    OBVIOUS
  <2>2. i + 1 = j + 1
    BY <1>1, <1>3, <2>1 DEF Path, Queued
  <2>3. QED BY <1>3, <2>2
<1>6. CASE pending' = << >>
  <2>1. up' = up
    BY <1>1, <1>6
  <2>2. Ordered' /\ Begun' /\ (Fresh => Fresh')
    BY <1>1, <2>1 DEF Path, Ordered, Begun, Fresh, Before
  <2>3. DOMAIN pending' = {}
    BY <1>6
  <2>4. QED BY <1>1, <2>2, <2>3 DEF Path, Queued, Offered, Unsent, Answers
<1>7. CASE pending' # << >>
  <2> DEFINE m == Head(pending')
  <2>1. m \in AnySignal /\ m = pending'[1] /\ 1 \in DOMAIN pending'
    BY <1>2, <1>7, TailIsLater
  <2>2. up' = Append(up, m)
    BY <1>1, <1>7, <2>1, ShortQueues
  <2> HIDE DEF m
  <2>3. IsOffer(m) => m.neg = neg /\ Fresh
    BY <1>4, <2>1
  <2>4. Ordered' /\ Begun' /\ (~IsOffer(m) /\ Fresh => Fresh')
    BY <1>1, <2>1, <2>2, <2>3, PutKeepsOrder
  <2>5. \A i \in DOMAIN pending' : IsOffer(pending'[i]) /\ i # 1 => Fresh'
    BY <1>4, <1>5, <2>1, <2>4
  <2>6. Queued'
    BY <1>1, <1>4, <1>5, <2>5 DEF Queued
  <2>7. Unsent => Unsent'
    BY <1>1, <1>3, <2>1, <2>4 DEF Unsent
  <2>8. Offered' /\ Answers'
    BY <1>1, <2>7 DEF Path, Offered, Answers
  <2>9. QED BY <2>4, <2>6, <2>8 DEF Path
<1>8. QED BY <1>6, <1>7

\* The answer that applies is to the offer that was answered last.
LEMMA AppliesToTheOffer ==
  ASSUME IInv, NEW i \in DOMAIN down, Applies(down[i])
  PROVE  desc.local = answered /\ answered = neg /\ step \notin {"offering", "setting"}
<1>1. down[i].neg = neg /\ down[i].neg <= answered /\ desc.local # 0
  BY DEF Applies, ForMe, IInv, Path, Answers
<1>2. answered = neg /\ ~Fresh
  BY <1>1 DEF IInv, Types, Fresh, Before
<1>3. QED BY <1>1, <1>2 DEF IInv, Path, Offered, Unsent

LEMMA BrowserKeepsPath ==
  ASSUME IInv, BrowserMoves, UNCHANGED backend
  PROVE  Path'
<1>1. CASE StartPeerConnection
  BY <1>1, BeginKeepsPath DEF StartPeerConnection
<1>2. CASE OnDebounceTimeout
  <2>1. CASE BeginNegotiation
    BY <1>2, <2>1, BeginKeepsPath DEF OnDebounceTimeout
  <2>2. CASE UNCHANGED <<neg, step, had, channel, pending, sending>>
    BY <1>2, <2>2, StepsKeepPath DEF OnDebounceTimeout, links, backend
  <2>3. QED BY <1>2, <2>1, <2>2 DEF OnDebounceTimeout
<1>3. CASE OfferCreated \/ NegotiationFails \/ RolledBack
  BY <1>3, StepsKeepPath
     DEF OfferCreated, NegotiationFails, RolledBack, DebounceFailed, Return, links, backend
<1>4. CASE LocalDescriptionSet
  BY <1>4, LocalDescriptionSetKeepsPath
<1>5. CASE CandidateFound
  BY <1>5, CandidateFoundKeepsPath
<1>6. CASE Delivered
  BY <1>6, DeliveredKeepsPath
<1>7. CASE Lost
  <2>1. up' = << >> /\ UNCHANGED <<down, neg, desc, step, pending, sending, offers, offer, current, answered>>
    BY <1>7 DEF Lost, browser, backend
  <2>2. DOMAIN up' = {}
    BY <2>1
  <2>3. Ordered' /\ Begun' /\ (Fresh => Fresh')
    BY <2>1, <2>2 DEF IInv, Path, Ordered, Begun, Fresh, Before, Ascend, AllAbove, AllBelow
  <2>4. QED BY <2>1, <2>3 DEF IInv, Path, Queued, Offered, Unsent, Answers
<1>8. ASSUME NEW i \in DOMAIN down, HandleSignalMsg(i)
      PROVE  Path'
  <2>1. /\ UNCHANGED <<up, neg, step, pending, sending, offers, offer, current, answered>>
        /\ Later(down', down, i)
    BY <1>8, AfterIsLater DEF HandleSignalMsg, backend, IInv, Types
  <2>2. Answers'
    BY <2>1 DEF IInv, Path, Answers, Later
  <2>3. Ordered' /\ Begun' /\ Queued' /\ (Unsent => Unsent')
    BY <2>1 DEF IInv, Path, Ordered, Begun, Queued, Fresh, Before, Unsent, Later
  <2>4. CASE Applies(down[i])
    <3>1. desc'.local = 0 /\ step \notin {"offering", "setting"}
      BY <1>8, <2>4, AppliesToTheOffer DEF HandleSignalMsg
    <3>2. QED BY <2>1, <2>2, <2>3, <3>1 DEF Path, Offered
  <2>5. CASE ~Applies(down[i])
    <3>1. desc' = desc
      BY <1>8, <2>5 DEF HandleSignalMsg
    <3>2. QED BY <2>1, <2>2, <2>3, <3>1 DEF IInv, Path, Offered
  <2>6. QED BY <2>4, <2>5
<1>9. QED BY <1>1, <1>2, <1>3, <1>4, <1>5, <1>6, <1>7, <1>8 DEF BrowserMoves

LEMMA PathStep == IInv /\ [Next]_vars => Path'
<1>1. IInv /\ Quiet => Path'
  BY DEF IInv, Path, Quiet, Ordered, Begun, Queued, Offered, Answers, Unsent, Fresh, Before
<1>2. QED BY <1>1, NextCases, BrowserKeepsPath, BackendKeepsPath

LEMMA BrowserKeepsCredentials ==
  ASSUME IInv, BrowserMoves, UNCHANGED backend
  PROVE  Credentials'
<1>1. /\ Credentials /\ neg \in Nat /\ answered \in 0 .. neg
      /\ desc \in [local : 0 .. neg, localIce : Nat, agreed : 0 .. neg, ice : Nat]
      /\ UNCHANGED <<task, gathered, signals, answered>>
  BY DEF IInv, Types, backend
<1>2. CASE UNCHANGED <<neg, desc, down>>
  BY <1>1, <1>2 DEF Credentials
<1>3. CASE neg' = neg + 1 /\ UNCHANGED <<desc, down>>
  <2>1. answered' # neg'
    BY <1>1, <1>3
  <2>2. QED BY <1>1, <1>3, <2>1 DEF Credentials
<1>4. CASE StartPeerConnection \/ OnDebounceTimeout
  BY <1>2, <1>3, <1>4 DEF StartPeerConnection, OnDebounceTimeout, BeginNegotiation, links
<1>5. CASE RolledBack
  <2>1. UNCHANGED <<neg, down>> /\ desc'.local = 0 /\ desc'.localIce = 0
    BY <1>1, <1>5 DEF RolledBack, links
  <2>2. QED BY <1>1, <2>1 DEF Credentials
<1>6. CASE LocalDescriptionSet
  <2>1. answered < neg
    BY <1>6 DEF LocalDescriptionSet, IInv, Path, Offered, Unsent, Fresh, Before
  <2>2. /\ UNCHANGED <<neg, down>> /\ desc'.local = neg /\ desc'.ice = desc.ice
        /\ desc'.localIce \in {neg, desc.ice}
    BY <1>1, <1>6 DEF LocalDescriptionSet
  <2>3. QED BY <1>1, <2>1, <2>2 DEF Credentials
<1>7. ASSUME NEW i \in DOMAIN down, HandleSignalMsg(i)
      PROVE  Credentials'
  <2>1. down \in Seq(AnySignal) /\ Len(down) <= 1 /\ neg' = neg
    BY <1>1, <1>7 DEF IInv, Types, Credentials, HandleSignalMsg
  <2>2. i = 1
    BY <2>1
  <2>3. down' = << >>
    BY <1>7, <2>1, <2>2 DEF HandleSignalMsg, After
  <2>4. CASE Applies(down[i])
    <3>1. desc'.local = 0 /\ desc'.localIce = 0
      BY <1>7, <2>4 DEF HandleSignalMsg
    <3>2. QED BY <1>1, <2>1, <2>3, <3>1 DEF Credentials
  <2>5. CASE ~Applies(down[i])
    <3>1. desc' = desc
      BY <1>7, <2>5 DEF HandleSignalMsg
    <3>2. ~(answered = neg /\ desc.local # 0)
      BY <1>1, <2>2, <2>5 DEF Credentials, Applies, ForMe
    <3>3. QED BY <1>1, <2>1, <2>3, <3>1, <3>2 DEF Credentials
  <2>6. QED BY <2>4, <2>5
<1>8. CASE OfferCreated \/ NegotiationFails \/ CandidateFound \/ Delivered \/ Lost
  BY <1>2, <1>8 DEF OfferCreated, NegotiationFails, CandidateFound, Delivered, Lost, links, browser
<1>9. QED BY <1>4, <1>5, <1>6, <1>7, <1>8 DEF BrowserMoves

LEMMA BackendKeepsCredentials ==
  ASSUME IInv, BackendMoves, UNCHANGED browser
  PROVE  Credentials'
<1>1. /\ Credentials /\ answered \in Nat /\ gathered \in Nat
      /\ UNCHANGED <<neg, desc>>
      /\ down \in Seq(AnySignal) /\ signals \in Seq(AnySignal)
  BY DEF IInv, Types, browser
<1>2. CASE TakeOffer \/ HandleOfferFails \/ Restart
  BY <1>1, <1>2 DEF TakeOffer, HandleOfferFails, Restart, links, Credentials
<1>3. CASE HandleOffer
  <2> DEFINE m == Signal("answer", offer.neg, offer.ice)
  <2>1. /\ answered < offer.neg /\ answered' = offer.neg /\ offer.neg \in Nat
        /\ task = "select" /\ task' = "sending" /\ signals' = signals /\ down' = Append(down, m)
    BY <1>3 DEF HandleOffer, SendDefault, IInv, Path, Ordered, Types, AnySignal
  <2>2. m.kind = "answer" /\ m.neg = offer.neg /\ m \in AnySignal
    BY DEF Signal, AnySignal, IInv, Types
  <2> HIDE DEF m
  <2>3. down = << >>
    BY <1>1, <2>1 DEF Credentials
  <2>4. down' = <<m>>
    BY <2>1, <2>2, <2>3, ShortQueues
  <2>5. gathered' \in {gathered, offer.neg, 0}
    BY <1>3 DEF HandleOffer, RemoteOf, IsRestart
  <2>6. gathered' <= answered'
    BY <1>1, <2>1, <2>5 DEF Credentials
  <2>7. \A i \in DOMAIN signals : signals[i].kind = "local" => signals[i].ice <= answered'
    <3>1. \A i \in DOMAIN signals : signals[i].ice \in Nat
      BY <1>1, Elements DEF AnySignal
    <3>2. QED BY <1>1, <2>1, <3>1 DEF Credentials
  <2>8. QED BY <1>1, <2>1, <2>2, <2>4, <2>6, <2>7 DEF Credentials
<1>4. CASE TakeSignal
  <2> DEFINE m == Signal("candidate", current, Head(signals).ice)
  <2>1. /\ task = "select" /\ UNCHANGED <<gathered, answered>> /\ signals' = Tail(signals)
        /\ \/ Head(signals).kind = "local" /\ task' = "sending" /\ down' = Append(down, m)
           \/ UNCHANGED <<task, down>>
    BY <1>4 DEF TakeSignal, SendDefault
  <2>2. Later(signals', signals, 1) /\ 1 \in DOMAIN signals /\ Head(signals) = signals[1]
        /\ Head(signals) \in AnySignal
    BY <1>1, <1>4, <2>1, TailIsLater DEF TakeSignal
  <2>3. m.kind = "candidate" /\ m.ice = signals[1].ice /\ m \in AnySignal
    BY <2>2 DEF Signal, AnySignal, IInv, Types
  <2> HIDE DEF m
  <2>4. down = << >>
    BY <1>1, <2>1 DEF Credentials
  <2>5. \/ down' = <<m>> /\ task' = "sending" /\ signals[1].kind = "local"
        \/ UNCHANGED <<task, down>>
    BY <2>1, <2>2, <2>3, <2>4, ShortQueues
  <2>6. \A i \in DOMAIN signals' : signals'[i].kind = "local" => signals'[i].ice <= answered
    BY <1>1, <2>2 DEF Credentials, Later
  <2>7. ~(answered = neg /\ desc.local # 0)
    BY <1>1, <2>4 DEF Credentials
  <2>8. CASE UNCHANGED <<task, down>>
    BY <1>1, <2>1, <2>6, <2>8 DEF Credentials
  <2>9. CASE down' = <<m>> /\ task' = "sending" /\ signals[1].kind = "local"
    <3>1. m.ice <= answered
      BY <1>1, <2>2, <2>3, <2>9 DEF Credentials
    <3>2. Len(down') <= 1 /\ \A i \in DOMAIN down' : down'[i].kind = "candidate" => down'[i].ice <= answered
      BY <2>9, <3>1
    <3>3. QED BY <1>1, <2>1, <2>6, <2>7, <2>9, <3>2 DEF Credentials
  <2>10. QED BY <2>5, <2>8, <2>9
<1>5. CASE LocalCandidate
  <2> DEFINE m == Signal("local", 0, gathered)
  <2>1. /\ UNCHANGED <<task, down, answered>> /\ gathered' = 0 /\ signals' = Append(signals, m)
        /\ m \in AnySignal /\ m.ice = gathered
    BY <1>1, <1>5 DEF LocalCandidate, links, Signal, AnySignal
  <2> HIDE DEF m
  <2>2. \A i \in DOMAIN signals' : signals'[i].kind = "local" => signals'[i].ice <= answered
    BY <1>1, <2>1, AppendOne DEF Credentials
  <2>3. QED BY <1>1, <2>1, <2>2 DEF Credentials
<1>6. ASSUME NEW i \in DOMAIN up, Receive(i)
      PROVE  Credentials'
  <2>1. /\ UNCHANGED <<task, down, answered, gathered>> /\ signals' = TrySend(signals, up[i])
        /\ up[i] \in AnySignal /\ up[i].kind # "local"
    BY <1>6, Elements DEF Receive, IInv, Types, Remote, NoneLocal
  <2>2. \A j \in DOMAIN signals' : signals'[j].kind = "local" => signals'[j].ice <= answered
    <3>1. CASE signals' = Append(signals, up[i])
      BY <1>1, <2>1, <3>1, AppendOne DEF Credentials
    <3>2. QED BY <1>1, <2>1, <3>1, TrySendTypes DEF Credentials
  <2>3. QED BY <1>1, <2>1, <2>2 DEF Credentials
<1>7. QED BY <1>2, <1>3, <1>4, <1>5, <1>6 DEF BackendMoves

LEMMA CredentialsStep == IInv /\ [Next]_vars => Credentials'
<1>1. IInv /\ Quiet => Credentials'
  BY DEF IInv, Quiet, Credentials
<1>2. QED BY <1>1, NextCases, BrowserKeepsCredentials, BackendKeepsCredentials

LEMMA RemoteStep == IInv /\ [Next]_vars => Remote'
<1> SUFFICES ASSUME IInv, [Next]_vars PROVE Remote'
  OBVIOUS
<1>1. up \in Seq(AnySignal) /\ pending \in Seq(AnySignal) /\ Remote /\ Types
  BY DEF IInv, Types
<1>2. CASE UNCHANGED <<up, pending>>
  BY <1>1, <1>2 DEF Remote
<1>3. ASSUME NEW m \in AnySignal, m.kind # "local", Send(pending, sending, m)
      PROVE  Remote'
  <2>1. /\ pending' = Append(pending, m) /\ pending' \in Seq(AnySignal)
        /\ up' \in {up, Append(up, Head(pending'))}
    BY <1>1, <1>3, SendTypes DEF Types
  <2>2. NoneLocal(pending')
    BY <1>1, <1>3, <2>1, AppendOne DEF Remote, NoneLocal
  <2>3. Head(pending') \in AnySignal /\ Head(pending').kind # "local"
    <3>1. pending' # << >>
      BY <1>1, <1>3, <2>1, AppendOne
    <3>2. QED BY <2>1, <2>2, <3>1, TailIsLater DEF NoneLocal
  <2>4. NoneLocal(up')
    <3>1. CASE up' = Append(up, Head(pending'))
      BY <1>1, <2>3, <3>1, AppendOne DEF Remote, NoneLocal
    <3>2. QED BY <1>1, <2>1, <3>1 DEF Remote
  <2>5. QED BY <2>2, <2>4 DEF Remote
<1>4. CASE BrowserMoves
  <2>1. CASE StartPeerConnection \/ OnDebounceTimeout
    <3>1. up' = up /\ (pending' = pending \/ pending' = << >>)
      BY <2>1 DEF StartPeerConnection, OnDebounceTimeout, BeginNegotiation, links
    <3>2. NoneLocal(<< >>)
      BY DEF NoneLocal
    <3>3. QED BY <1>1, <3>1, <3>2 DEF Remote
  <2>2. CASE LocalDescriptionSet /\ ~UNCHANGED <<up, pending>>
    <3>1. PICK creds \in Nat : Send(pending, sending, Signal("offer", neg, creds))
      BY <1>1, <2>2 DEF LocalDescriptionSet, Types
    <3>2. Signal("offer", neg, creds) \in AnySignal /\ Signal("offer", neg, creds).kind # "local"
      BY <1>1 DEF Signal, AnySignal, Types
    <3>3. QED BY <1>3, <3>1, <3>2
  <2>3. CASE CandidateFound
    <3>1. /\ Signal("candidate", neg, candidate) \in AnySignal
          /\ Signal("candidate", neg, candidate).kind # "local"
      BY <1>1 DEF Signal, AnySignal, Types
    <3>2. QED BY <1>3, <2>3, <3>1 DEF CandidateFound
  <2>4. CASE Delivered
    <3>1. /\ pending # << >> /\ pending' = Tail(pending)
          /\ up' = << >> \/ (pending' # << >> /\ up' = <<Head(pending')>>)
      BY <2>4 DEF Delivered, IInv, Path, Queued
    <3>2. NoneLocal(pending') /\ pending' \in Seq(AnySignal)
      BY <1>1, <3>1, TailIsLater DEF Remote, NoneLocal, Later
    <3>3. pending' # << >> => Head(pending').kind # "local"
      BY <3>2, TailIsLater DEF NoneLocal
    <3>4. NoneLocal(up')
      BY <3>1, <3>3 DEF NoneLocal
    <3>5. QED BY <3>2, <3>4 DEF Remote
  <2>5. CASE Lost
    BY <1>1, <2>5 DEF Lost, browser, Remote, NoneLocal
  <2>6. QED
    BY <1>2, <1>4, <2>1, <2>2, <2>3, <2>4, <2>5
       DEF BrowserMoves, OfferCreated, NegotiationFails, RolledBack, HandleSignalMsg, links
<1>5. CASE BackendMoves /\ UNCHANGED browser
  <2>1. ASSUME NEW i \in DOMAIN up, Receive(i)
        PROVE  NoneLocal(up')
    BY <1>1, <2>1, AfterIsLater DEF Receive, Remote, NoneLocal, Later
  <2>2. CASE up' = up
    BY <1>1, <1>5, <2>2 DEF Remote, browser
  <2>3. QED
    BY <1>1, <1>5, <2>1, <2>2
       DEF BackendMoves, TakeOffer, HandleOffer, HandleOfferFails, TakeSignal, Restart,
           LocalCandidate, links, browser, Remote
<1>6. QED BY <1>2, <1>4, <1>5, NextCases DEF Quiet

THEOREM Inductive == Spec => []IInv
<1>1. IInv /\ [Next]_vars => IInv'
  BY TypesStep, HeldStep, PathStep, CredentialsStep, RemoteStep DEF IInv
<1>2. QED BY InitIInv, <1>1, PTL DEF Spec

\* The backend never has a negotiation id without the offer it came with, or
\* the peer connection that handled it: run resets offer, id and connection
\* together (rtc_connector.rs:476-530).
THEOREM IdsGoWithTheirOffer == Spec => []NegotiationHasItsOffer
<1>1. IInv => NegotiationHasItsOffer
  BY DEF IInv, Held
<1>2. QED BY Inductive, <1>1, PTL

\* The browser never accepts a candidate of the credentials that its pending offer
\* drew while the answer to it is outstanding: run sends the answer first and waits
\* for its acknowledgement (rtc_connector.rs:427-436, 508-567).  It says nothing of
\* candidates with older credentials, which may go out under the newer id.
THEOREM AnswersComeFirst == Spec => []CandidatesFollowTheirAnswer
<1>1. IInv => CandidatesFollowTheirAnswer
  <2> SUFFICES ASSUME IInv, NEW i \in DOMAIN down, down[i].kind = "candidate",
                      down[i].neg = neg, desc.local # 0, down[i].ice = desc.localIce,
                      desc.localIce # desc.ice
               PROVE  FALSE
    BY DEF CandidatesFollowTheirAnswer, ForMe
  <2>1. down[i].ice = desc.local /\ desc.local <= answered
    BY DEF IInv, Credentials
  <2>2. ~Fresh
    BY DEF Fresh, Before, IInv, Types
  <2>3. desc.local = neg /\ answered = neg
    BY <2>1, <2>2 DEF IInv, Path, Offered, Unsent, Types
  <2>4. i = 1 /\ down[1].kind = "answer"
    BY <2>3 DEF IInv, Credentials, Types
  <2>5. QED BY <2>4
<1>2. QED BY Inductive, <1>1, PTL

(***************************************************************************)
(* The connectors implement OfferAnswer                                    *)
(***************************************************************************)
LEMMA BrowserRefines ==
  ASSUME IInv, BrowserMoves, UNCHANGED backend
  PROVE  [Negotiations!Next]_(Negotiations!vars)
<1> USE DEF Negotiations!vars
<1>1. answered' = answered /\ neg \in Nat /\ desc \in [local : 0 .. neg, localIce : Nat, agreed : 0 .. neg, ice : Nat]
  BY DEF backend, IInv, Types
<1>2. CASE StartPeerConnection \/ OnDebounceTimeout
  <2>1. desc' = desc /\ (neg' = neg \/ neg' = neg + 1)
    BY <1>2 DEF StartPeerConnection, OnDebounceTimeout, BeginNegotiation
  <2>2. QED BY <1>1, <2>1 DEF Negotiations!Next, Negotiations!Draw
<1>3. CASE OfferCreated \/ NegotiationFails \/ CandidateFound \/ Delivered \/ Lost
  BY <1>1, <1>3 DEF OfferCreated, NegotiationFails, CandidateFound, Delivered, Lost, browser
<1>4. CASE RolledBack
  BY <1>1, <1>4 DEF RolledBack, Negotiations!Next, Negotiations!Withdraw
<1>5. CASE LocalDescriptionSet
  <2>1. desc.local < neg /\ desc.agreed < neg
    BY <1>5 DEF LocalDescriptionSet, IInv, Path, Offered
  <2>2. neg' = neg /\ desc'.local = neg /\ desc'.agreed = desc.agreed
    BY <1>1, <1>5 DEF LocalDescriptionSet
  <2>3. QED BY <1>1, <2>1, <2>2 DEF Negotiations!Next, Negotiations!Offer
<1>6. ASSUME NEW i \in DOMAIN down, HandleSignalMsg(i)
      PROVE  [Negotiations!Next]_(Negotiations!vars)
  <2>1. CASE Applies(down[i])
    <3>1. desc.local = answered /\ desc.local # 0
      BY <2>1, AppliesToTheOffer DEF Applies
    <3>2. neg' = neg /\ desc'.local = 0 /\ desc'.agreed = desc.local
      BY <1>6, <2>1 DEF HandleSignalMsg
    <3>3. QED BY <1>1, <3>1, <3>2 DEF Negotiations!Next, Negotiations!Agree
  <2>2. CASE ~Applies(down[i])
    BY <1>1, <1>6, <2>2 DEF HandleSignalMsg
  <2>3. QED BY <2>1, <2>2
<1>7. QED BY <1>2, <1>3, <1>4, <1>5, <1>6 DEF BrowserMoves

LEMMA BackendRefines ==
  ASSUME IInv, BackendMoves, UNCHANGED browser
  PROVE  [Negotiations!Next]_(Negotiations!vars)
<1>1. UNCHANGED <<neg, desc>>
  BY DEF browser
<1>2. CASE HandleOffer
  <2>1. answered' = offer.neg /\ answered < offer.neg /\ offer.neg < neg + 1
    BY <1>2 DEF HandleOffer, IInv, Path, Ordered, Begun, Before
  <2>2. offer.neg \in answered + 1 .. neg
    BY <2>1 DEF IInv, Types, AnySignal
  <2>3. QED BY <1>1, <2>1, <2>2 DEF Negotiations!Next, Negotiations!Answer
<1>3. CASE answered' = answered
  BY <1>1, <1>3 DEF Negotiations!vars
<1>4. QED
  BY <1>2, <1>3
     DEF BackendMoves, TakeOffer, HandleOfferFails, TakeSignal, Restart, LocalCandidate, Receive

\* Whatever is lost, late or repeated, the answer that the browser applies is
\* the one to its pending offer, and offers are answered in order, each once
\* (rtc_connector.ts:306-335, rtc_connector.rs:411-436).
THEOREM ConnectorsRefineOfferAnswer == Spec => RefinesOfferAnswer
<1>1. Init => Negotiations!Init
  BY DEF Init, BrowserInit, BackendInit, Negotiations!Init
<1>2. IInv /\ [Next]_vars => [Negotiations!Next]_(Negotiations!vars)
  <2>1. IInv /\ Quiet => [Negotiations!Next]_(Negotiations!vars)
    BY DEF Quiet, Negotiations!vars
  <2>2. QED BY <2>1, NextCases, BrowserRefines, BackendRefines
<1>3. QED BY Inductive, <1>1, <1>2, PTL DEF Spec, RefinesOfferAnswer, Negotiations!Spec

(***************************************************************************)
(* Timers                                                                  *)
(***************************************************************************)
Clock == timer \in [on : BOOLEAN, delay : Nat, age : Nat]

\* How an event of the ICE connection or the channel may leave the timer.
LEMMA Debounced ==
  ASSUME Clock, NEW delay \in 1 .. DISCONNECTED_RESTART, AddDebounceEvent(delay)
  PROVE  Clock' /\ (timer'.on \/ HandlingDebounce \/ timer.age < DISCONNECTED_RESTART)
<1>1. CASE HandlingDebounce
  BY <1>1 DEF Clock, AddDebounceEvent
<1>2. CASE ~HandlingDebounce /\ (timer.delay = 0 \/ timer.age >= delay)
  <2>1. timer' = [on |-> TRUE, delay |-> delay, age |-> 0]
    BY <1>2 DEF AddDebounceEvent, StartDebounceIfFaster, StartDebounce
  <2>2. QED BY <2>1 DEF Clock, DISCONNECTED_RESTART
<1>3. CASE ~HandlingDebounce /\ ~(timer.delay = 0 \/ timer.age >= delay)
  <2>1. timer' = timer
    BY <1>3 DEF AddDebounceEvent, StartDebounceIfFaster
  <2>2. QED BY <1>3, <2>1 DEF Clock, DISCONNECTED_RESTART
<1>4. QED BY <1>1, <1>2, <1>3

LEMMA FailoverClock ==
  ASSUME DebounceFailed
  PROVE  Clock' /\ timer'.on
  BY DEF DebounceFailed, StartDebounce, Clock, FAILOVER

\* Every step keeps the timer one, and nobody is left waiting by any but the
\* events that a recent timer swallows.
LEMMA Attended ==
  ASSUME Clock, [Next]_vars
  PROVE  Clock' /\ (~Unattended /\ Unattended' => timer.age < DISCONNECTED_RESTART)
<1> USE DEF Unattended, Fine, IsConnected, IsChannelOpen, IsClosed
<1>1. CASE UNCHANGED browser
  BY <1>1 DEF browser, Clock
<1>2. ASSUME NEW ok \in BOOLEAN, IceDisconnected(ok) \/ IceFailed(ok) \/ ChannelClosed(ok)
      PROVE  Clock' /\ (~Unattended /\ Unattended' => timer.age < DISCONNECTED_RESTART)
  <2>1. step' = step /\ \E delay \in 1 .. DISCONNECTED_RESTART : AddDebounceEvent(delay)
    BY <1>2 DEF IceDisconnected, IceFailed, IceState, ChannelClosed, ChannelState,
                FAILED_RESTART, CLOSED_CHANNEL, DISCONNECTED_RESTART
  <2>2. QED BY <2>1, Debounced DEF HandlingDebounce
<1>3. CASE IceConnected(Agreed) \/ ChannelOpened(dcMap = channel.id)
  BY <1>3 DEF IceConnected, IceState, ChannelOpened, ChannelState, Clock
<1>4. CASE Close \/ Delivered \/ CandidateFound \/ StartPeerConnection \/ Lost
  BY <1>4 DEF Close, Delivered, CandidateFound, StartPeerConnection, BeginNegotiation, Lost, browser, Clock
<1>5. CASE NegotiationFails \/ RolledBack
  BY <1>5, FailoverClock DEF NegotiationFails, RolledBack
<1>6. CASE OfferCreated
  <2>1. CASE Fine
    BY <1>6, <2>1 DEF OfferCreated, Return, Clock
  <2>2. CASE ~Fine /\ Changed
    BY <1>6, <2>2, FailoverClock DEF OfferCreated
  <2>3. CASE ~Fine /\ ~Changed
    BY <1>6, <2>3 DEF OfferCreated, Clock
  <2>4. QED BY <2>1, <2>2, <2>3
<1>7. CASE LocalDescriptionSet
  <2>1. CASE Changed
    BY <1>7, <2>1 DEF LocalDescriptionSet, Clock
  <2>2. CASE ~Changed
    <3>1. timer' = [on |-> TRUE, delay |-> NEGOTIATING, age |-> 0]
      BY <1>7, <2>2 DEF LocalDescriptionSet, StartDebounce
    <3>2. QED BY <3>1 DEF NEGOTIATING, Clock
  <2>3. QED BY <2>1, <2>2
<1>8. CASE OnDebounceTimeout
  <2>1. Clock'
    BY <1>8 DEF OnDebounceTimeout, Clock
  <2>2. ~Unattended'
    BY <1>8 DEF OnDebounceTimeout, BeginNegotiation
  <2>3. QED BY <2>1, <2>2
<1>9. CASE TimePasses(Busy)
  <2>1. Clock'
    BY <1>9 DEF TimePasses, Clock, DISCONNECTED_RESTART
  <2>2. timer'.on = timer.on
    BY <1>9 DEF TimePasses, Clock
  <2>3. QED BY <1>9, <2>1, <2>2 DEF TimePasses
<1>10. ASSUME NEW i \in DOMAIN down, HandleSignalMsg(i)
       PROVE  Clock' /\ (~Unattended /\ Unattended' => timer.age < DISCONNECTED_RESTART)
  BY <1>10 DEF HandleSignalMsg, Clock
<1>11. CASE BrowserStep
  BY <1>4, <1>5, <1>6, <1>7, <1>8, <1>9, <1>10, <1>11 DEF BrowserStep
<1>12. CASE Network
  BY <1>1, <1>2, <1>3, <1>12 DEF Network
<1>13. CASE Trouble
  BY <1>1, <1>2, <1>4, <1>5, <1>13 DEF Trouble
<1>14. QED BY <1>1, <1>11, <1>12, <1>13 DEF Next, vars

\* Trouble that nobody is going to look at is one that was reported within five
\* seconds after a timer was started: any later report starts another
\* (rtc_connector.ts:93-127).
THEOREM LateTroubleIsAttended == Spec => OnlyRecentTimersHideTrouble
<1>1. Init => Clock
  BY DEF Init, BrowserInit, Clock
<1>2. Clock /\ [Next]_vars =>
        Clock' /\ [~Unattended /\ Unattended' => timer.age < DISCONNECTED_RESTART]_vars
  BY Attended
<1>3. QED BY <1>1, <1>2, PTL DEF Spec, OnlyRecentTimersHideTrouble

(***************************************************************************)
(* Bounds                                                                  *)
(***************************************************************************)
FromBrowser == {"offer", "candidate"}
Known == FromBrowser \cup {"local"}
Drawn(m, kinds) == m.kind \in kinds /\ m.neg \in 0 .. neg /\ m.ice \in 0 .. neg
AllDrawn(q, kinds) == \A i \in DOMAIN q : Drawn(q[i], kinds)

\* No message and no description is of a negotiation that has not begun, and
\* no credentials are of one.
Bounds ==
  /\ neg <= MaxNegotiations
  /\ step \in {"none", "idle", "offering", "setting", "rollingback"}
  /\ {desc.localIce, desc.ice, candidate, peer.remote, peer.handled, offer.ice} \subseteq 0 .. neg
  /\ Len(offers) <= QueueSize /\ Len(signals) <= QueueSize
  /\ AllDrawn(up, FromBrowser) /\ AllDrawn(pending, FromBrowser)
  /\ AllDrawn(offers, FromBrowser) /\ AllDrawn(signals, Known)

LEMMA DrawnLater ==
  ASSUME NEW q, NEW r, NEW k \in Nat, DOMAIN q \subseteq Nat, Later(r, q, k)
  PROVE  \A kinds : AllDrawn(q, kinds) => AllDrawn(r, kinds)
  BY DEF Later, AllDrawn

LEMMA DrawnAppend ==
  ASSUME NEW q \in Seq(AnySignal), NEW m \in AnySignal
  PROVE  \A kinds : AllDrawn(q, kinds) /\ Drawn(m, kinds) => AllDrawn(Append(q, m), kinds)
  BY AppendOne DEF AllDrawn

\* As negotiations begin, what was drawn stays drawn.
LEMMA DrawnStays ==
  ASSUME neg \in Nat, neg' \in {neg, neg + 1}, NEW q, NEW r, r = q \/ r = << >>
  PROVE  \A kinds : AllDrawn(q, kinds) => AllDrawn(r, kinds)'
  BY DEF AllDrawn, Drawn

LEMMA SendDrawn ==
  ASSUME Types, Bounds, NEW m \in AnySignal, Drawn(m, FromBrowser), Send(pending, sending, m), neg' = neg
  PROVE  AllDrawn(up, FromBrowser)' /\ AllDrawn(pending, FromBrowser)'
<1>1. /\ pending' = Append(pending, m) /\ pending' \in Seq(AnySignal)
      /\ up' = up \/ up' = Append(up, Head(pending'))
  BY SendTypes DEF Types
<1>2. AllDrawn(pending', FromBrowser)
  BY <1>1, DrawnAppend DEF Types, Bounds
<1>3. Head(pending') \in AnySignal /\ Head(pending') = pending'[1] /\ 1 \in DOMAIN pending'
  BY <1>1, AppendOne, TailIsLater DEF Types
<1>4. AllDrawn(up', FromBrowser)
  <2>1. Drawn(Head(pending'), FromBrowser)
    BY <1>2, <1>3 DEF AllDrawn
  <2>2. QED BY <1>1, <1>3, <2>1, DrawnAppend DEF Types, Bounds
<1>5. QED BY <1>2, <1>4 DEF AllDrawn, Drawn

LEMMA BrowserKeepsBounds ==
  ASSUME IInv, Bounds, BrowserMoves, UNCHANGED backend
  PROVE  Bounds'
<1>1. /\ Types /\ neg \in Nat /\ MaxNegotiations \in Nat
      /\ UNCHANGED <<offers, signals, peer, offer>>
  BY NegotiationsAssumption DEF IInv, Types, backend
<1>2. ASSUME neg' = neg, step' \in {"none", "idle", "offering", "setting", "rollingback"},
             {desc'.localIce, desc'.ice, candidate'} \subseteq 0 .. neg,
             AllDrawn(up, FromBrowser)', AllDrawn(pending, FromBrowser)'
      PROVE  Bounds'
  BY <1>1, <1>2 DEF Bounds, AllDrawn, Drawn
<1>3. ASSUME neg' \in {neg, neg + 1}, neg' <= MaxNegotiations,
             step' \in {"none", "idle", "offering", "setting", "rollingback"},
             UNCHANGED <<desc, candidate, up>>, pending' \in {pending, << >>}
      PROVE  Bounds'
  <2>1. /\ AllDrawn(up, FromBrowser)' /\ AllDrawn(pending, FromBrowser)'
        /\ AllDrawn(offers, FromBrowser)' /\ AllDrawn(signals, Known)'
    BY <1>1, <1>3, DrawnStays DEF Bounds
  <2>2. QED BY <1>1, <1>3, <2>1 DEF Bounds
<1>4. CASE StartPeerConnection \/ OnDebounceTimeout
  BY <1>1, <1>3, <1>4 DEF StartPeerConnection, OnDebounceTimeout, BeginNegotiation, links, Bounds
<1>5. CASE OfferCreated \/ NegotiationFails \/ Lost
  <2>1. CASE Lost
    <3>1. AllDrawn(up, FromBrowser)'
      BY <2>1 DEF Lost, AllDrawn
    <3>2. QED BY <1>2, <2>1, <3>1 DEF Lost, browser, Bounds, AllDrawn, Drawn
  <2>2. CASE OfferCreated \/ NegotiationFails
    BY <1>1, <1>3, <2>2 DEF OfferCreated, NegotiationFails, DebounceFailed, Return, links, Bounds
  <2>3. QED BY <1>5, <2>1, <2>2
<1>6. CASE RolledBack
  <2>1. neg' = neg /\ step' = "idle" /\ desc'.localIce = 0 /\ desc'.ice = desc.ice
        /\ UNCHANGED <<candidate, up, pending>>
    BY <1>1, <1>6 DEF RolledBack, DebounceFailed, Return, links, Types
  <2>2. AllDrawn(up, FromBrowser)' /\ AllDrawn(pending, FromBrowser)'
    BY <2>1 DEF Bounds, AllDrawn, Drawn
  <2>3. QED BY <1>1, <1>2, <2>1, <2>2 DEF Bounds
<1>7. CASE LocalDescriptionSet
  <2>1. PICK creds \in {neg, desc.ice} :
          /\ desc' = [desc EXCEPT !.local = neg, !.localIce = creds]
          /\ UNCHANGED <<pending, sending, up>> \/ Send(pending, sending, Signal("offer", neg, creds))
    BY <1>7 DEF LocalDescriptionSet
  <2>2. /\ neg' = neg /\ step' \in {"rollingback", "idle"} /\ candidate' \in {neg, candidate}
    BY <1>7 DEF LocalDescriptionSet, Return
  <2>3. creds \in 0 .. neg /\ creds \in Nat
    BY <1>1, <2>1 DEF Bounds
  <2>4. desc'.localIce = creds /\ desc'.ice = desc.ice
    BY <1>1, <2>1 DEF Types
  <2>5. Signal("offer", neg, creds) \in AnySignal /\ Drawn(Signal("offer", neg, creds), FromBrowser)
    BY <1>1, <2>3 DEF Signal, AnySignal, Drawn, FromBrowser
  <2>6. AllDrawn(up, FromBrowser)' /\ AllDrawn(pending, FromBrowser)'
    <3>1. CASE UNCHANGED <<pending, sending, up>>
      BY <2>2, <3>1 DEF Bounds, AllDrawn, Drawn
    <3>2. CASE Send(pending, sending, Signal("offer", neg, creds))
      BY <1>1, <2>2, <2>5, <3>2, SendDrawn
    <3>3. QED BY <2>1, <3>1, <3>2
  <2>7. QED BY <1>1, <1>2, <2>2, <2>3, <2>4, <2>6 DEF Bounds
<1>8. CASE CandidateFound
  <2>1. neg' = neg /\ UNCHANGED <<desc, step>> /\ candidate' = 0 /\ candidate \in 0 .. neg
    BY <1>8 DEF CandidateFound, Bounds
  <2>2. /\ Signal("candidate", neg, candidate) \in AnySignal
        /\ Drawn(Signal("candidate", neg, candidate), FromBrowser)
    BY <1>1, <2>1 DEF Signal, AnySignal, Drawn, FromBrowser
  <2>3. AllDrawn(up, FromBrowser)' /\ AllDrawn(pending, FromBrowser)'
    BY <1>1, <1>8, <2>1, <2>2, SendDrawn DEF CandidateFound
  <2>4. QED BY <1>1, <1>2, <2>1, <2>3 DEF Bounds
<1>9. CASE Delivered
  <2>1. /\ pending # << >> /\ pending' = Tail(pending) /\ UNCHANGED <<neg, desc, step, candidate>>
        /\ up' = << >> \/ (pending' # << >> /\ up' = <<Head(pending')>>)
    BY <1>9 DEF Delivered, IInv, Path, Queued
  <2>2. pending' \in Seq(AnySignal) /\ AllDrawn(pending', FromBrowser)
    <3>1. pending \in Seq(AnySignal) /\ DOMAIN pending \subseteq Nat
      BY <1>1 DEF Types
    <3>2. pending' \in Seq(AnySignal) /\ Later(pending', pending, 1)
      BY <2>1, <3>1, TailIsLater
    <3>3. QED BY <3>1, <3>2, DrawnLater DEF Bounds
  <2>3. AllDrawn(up', FromBrowser)
    <3>1. pending' # << >> => Drawn(Head(pending'), FromBrowser)
      BY <2>2, TailIsLater DEF AllDrawn
    <3>2. QED BY <2>1, <3>1 DEF AllDrawn
  <2>4. AllDrawn(up, FromBrowser)' /\ AllDrawn(pending, FromBrowser)'
    BY <2>1, <2>2, <2>3 DEF AllDrawn, Drawn
  <2>5. QED BY <1>2, <2>1, <2>4 DEF Bounds
<1>10. ASSUME NEW i \in DOMAIN down, HandleSignalMsg(i)
       PROVE  Bounds'
  <2>1. /\ UNCHANGED <<neg, step, candidate, up, pending>>
        /\ desc'.ice \in {desc.ice, desc.localIce} /\ desc'.localIce \in {0, desc.localIce}
    BY <1>10 DEF HandleSignalMsg
  <2>2. AllDrawn(up, FromBrowser)' /\ AllDrawn(pending, FromBrowser)'
    BY <2>1 DEF Bounds, AllDrawn, Drawn
  <2>3. QED BY <1>1, <1>2, <2>1, <2>2 DEF Bounds
<1>11. QED BY <1>4, <1>5, <1>6, <1>7, <1>8, <1>9, <1>10 DEF BrowserMoves

LEMMA TrySendDrawn ==
  ASSUME NEW q \in Seq(AnySignal), NEW m \in AnySignal, NEW kinds,
         AllDrawn(q, kinds), Drawn(m, kinds), Len(q) <= QueueSize
  PROVE  AllDrawn(TrySend(q, m), kinds) /\ Len(TrySend(q, m)) <= QueueSize
<1>1. CASE Len(q) < QueueSize
  <2>1. Len(Append(q, m)) = Len(q) + 1 /\ Len(q) \in Nat
    BY AppendOne
  <2>2. QED BY <1>1, <2>1, DrawnAppend, QueueAssumption DEF TrySend
<1>2. CASE ~(Len(q) < QueueSize)
  BY <1>2 DEF TrySend
<1>3. QED BY <1>1, <1>2

LEMMA BackendKeepsBounds ==
  ASSUME IInv, Bounds, BackendMoves, UNCHANGED browser
  PROVE  Bounds'
<1>1. /\ Types /\ neg \in Nat /\ QueueSize \in Nat
      /\ UNCHANGED <<neg, desc, step, pending, candidate>>
      /\ offer.ice \in 0 .. neg /\ offer.neg \in Nat
      /\ peer \in [remote : Nat, handled : Nat, state : {"new", "connected", "lost"}]
      /\ peer.remote \in 0 .. neg /\ peer.handled \in 0 .. neg /\ NoSignal.ice = 0
  BY QueueAssumption DEF IInv, Types, browser, Bounds, AnySignal, NoSignal, Signal
<1>2. ASSUME {offer'.ice, peer'.remote, peer'.handled} \subseteq 0 .. neg,
             Len(offers') <= QueueSize, Len(signals') <= QueueSize,
             AllDrawn(up', FromBrowser), AllDrawn(offers', FromBrowser), AllDrawn(signals', Known)
      PROVE  Bounds'
  BY <1>1, <1>2 DEF Bounds, AllDrawn, Drawn
<1>3. ASSUME UNCHANGED <<up, offers, signals>>, {offer'.ice, peer'.remote, peer'.handled} \subseteq 0 .. neg
      PROVE  Bounds'
  BY <1>2, <1>3 DEF Bounds
<1>4. ASSUME NEW i \in DOMAIN up, Receive(i)
      PROVE  Bounds'
  <2>1. up \in Seq(AnySignal) /\ DOMAIN up \subseteq Nat
    BY <1>1 DEF Types
  <2>2. AllDrawn(up', FromBrowser)
    BY <1>4, <2>1, AfterIsLater, DrawnLater DEF Receive, Bounds
  <2>3. up[i] \in AnySignal /\ Drawn(up[i], FromBrowser) /\ Drawn(up[i], Known)
    BY <1>4, <2>1, Elements DEF Bounds, AllDrawn, Drawn, Known
  <2>4. AllDrawn(offers', FromBrowser) /\ Len(offers') <= QueueSize
    BY <1>1, <1>4, <2>3, TrySendDrawn DEF Receive, Bounds, Types
  <2>5. AllDrawn(signals', Known) /\ Len(signals') <= QueueSize
    BY <1>1, <1>4, <2>3, TrySendDrawn DEF Receive, Bounds, Types
  <2>6. QED BY <1>1, <1>2, <1>4, <2>2, <2>4, <2>5 DEF Receive
<1>5. CASE LocalCandidate
  <2>1. gathered \in 0 .. neg
    BY DEF IInv, Credentials, Types
  <2>2. Signal("local", 0, gathered) \in AnySignal /\ Drawn(Signal("local", 0, gathered), Known)
    BY <1>1, <2>1 DEF Signal, AnySignal, Drawn, Known
  <2>3. AllDrawn(signals', Known) /\ Len(signals') <= QueueSize
    BY <1>1, <1>5, <2>2, TrySendDrawn DEF LocalCandidate, TrySend, Bounds, Types
  <2>4. QED BY <1>1, <1>2, <1>5, <2>3 DEF LocalCandidate, links, Bounds
<1>6. CASE TakeOffer
  <2>1. /\ Head(offers) = offers[1] /\ 1 \in DOMAIN offers /\ Len(Tail(offers)) = Len(offers) - 1
        /\ Len(offers) \in Nat /\ AllDrawn(Tail(offers), FromBrowser)
    <3>1. offers \in Seq(AnySignal) /\ offers # << >> /\ DOMAIN offers \subseteq Nat
      BY <1>1, <1>6 DEF Types, TakeOffer
    <3>2. QED BY <3>1, TailIsLater, DrawnLater DEF Bounds
  <2>2. offer'.ice \in 0 .. neg
    BY <1>6, <2>1 DEF TakeOffer, Bounds, AllDrawn, Drawn
  <2>3. QED BY <1>1, <1>2, <1>6, <2>1, <2>2 DEF TakeOffer, links, Bounds
<1>7. CASE TakeSignal
  <2>1. Len(Tail(signals)) = Len(signals) - 1 /\ Len(signals) \in Nat /\ AllDrawn(Tail(signals), Known)
    <3>1. signals \in Seq(AnySignal) /\ signals # << >> /\ DOMAIN signals \subseteq Nat
      BY <1>1, <1>7 DEF Types, TakeSignal
    <3>2. QED BY <3>1, TailIsLater, DrawnLater DEF Bounds
  <2>2. QED BY <1>1, <1>2, <1>7, <2>1 DEF TakeSignal, Bounds
<1>8. CASE Restart
  BY <1>1, <1>3, <1>8 DEF Restart, NewPeer, links
<1>9. CASE HandleOffer \/ HandleOfferFails
  <2>1. offer.neg \in 0 .. neg
    BY <1>1, <1>9 DEF HandleOffer, HandleOfferFails, IInv, Path, Begun, Before
  <2>2. RemoteOf(offer) \in 0 .. neg
    BY <1>1 DEF RemoteOf
  <2>3. UNCHANGED <<up, offers, signals>> /\ offer' = NoSignal
    BY <1>9 DEF HandleOffer, HandleOfferFails, links
  <2>4. peer'.remote \in {RemoteOf(offer), peer.remote} /\ peer'.handled = offer.neg
    BY <1>1, <1>9 DEF HandleOffer, HandleOfferFails
  <2>5. QED BY <1>1, <1>3, <2>1, <2>2, <2>3, <2>4
<1>10. QED BY <1>4, <1>5, <1>6, <1>7, <1>8, <1>9 DEF BackendMoves

LEMMA InitBounds == Init => Bounds
<1> SUFFICES ASSUME Init PROVE Bounds
  OBVIOUS
<1>1. NoSignal.ice = 0 /\ NewPeer.remote = 0 /\ NewPeer.handled = 0 /\ desc.localIce = 0 /\ desc.ice = 0
  BY DEF Init, BrowserInit, NoSignal, Signal, NewPeer
<1>2. QED
  BY <1>1, NegotiationsAssumption, QueueAssumption
     DEF Init, BrowserInit, BackendInit, Bounds, AllDrawn

LEMMA QuietBounds == IInv /\ Bounds /\ Quiet => Bounds'
<1> SUFFICES ASSUME IInv, Bounds, Quiet PROVE Bounds'
  OBVIOUS
<1>1. peer'.remote = peer.remote /\ peer'.handled = peer.handled
  BY DEF IInv, Types, Quiet
<1>2. QED BY <1>1 DEF Quiet, Bounds, AllDrawn, Drawn

\* A failure is one of those that may still happen.
FaultsLeft == faults \in 0 .. MaxFaults

LEMMA FaultsStep == [Next]_vars => Fault \/ NoFault
<1> SUFFICES ASSUME [Next]_vars PROVE Fault \/ NoFault
  OBVIOUS
<1>1. CASE BrowserStep
  BY <1>1 DEF BrowserStep, StartPeerConnection, OnDebounceTimeout, OfferCreated, LocalDescriptionSet,
              RolledBack, CandidateFound, Delivered, TimePasses, HandleSignalMsg
<1>2. CASE BackendStep
  BY <1>2 DEF BackendStep, TakeOffer, HandleOffer, TakeSignal, Restart, Acknowledged, Cancelled,
              LocalCandidate, Receive
<1>3. CASE Network
  BY <1>3 DEF Network, IceConnected, ChannelOpened, IceDisconnected, IceFailed, ChannelClosed,
              Connected, OnDataChannel, DisconnectedOrFailed
<1>4. CASE Trouble
  BY <1>4 DEF Trouble, NegotiationFails, Lost, Close, IceDisconnected, IceFailed, ChannelClosed,
              HandleOfferFails, DisconnectedOrFailed, DebounceTimeout, Cancel
<1>5. CASE UNCHANGED vars
  BY <1>5 DEF vars, NoFault
<1>6. QED BY <1>1, <1>2, <1>3, <1>4, <1>5 DEF Next

\* Whatever is under way, queued or remembered is of a negotiation that has
\* begun, and neither queue of the backend grows over its size
\* (rtc_connector.ts:141-215, rtc_connector.rs:411-436).
THEOREM TypesAreKept == Spec => []TypeOK
<1>1. Init => Bounds /\ FaultsLeft
  BY InitBounds, LinksAssumption DEF Init, FaultsLeft
<1>2. IInv /\ IInv' /\ Bounds /\ FaultsLeft /\ [Next]_vars => Bounds' /\ FaultsLeft'
  <2>1. FaultsLeft /\ [Next]_vars => FaultsLeft'
    BY FaultsStep, LinksAssumption DEF FaultsLeft, Fault, NoFault
  <2>2. QED BY <2>1, NextCases, QuietBounds, BrowserKeepsBounds, BackendKeepsBounds
<1>3. IInv /\ Bounds /\ FaultsLeft => TypeOK
  <2> SUFFICES ASSUME IInv, Bounds, FaultsLeft PROVE TypeOK
    OBVIOUS
  <2>1. /\ neg \in 0 .. MaxNegotiations
        /\ {desc.local, desc.localIce, desc.agreed, desc.ice, peer.remote, peer.handled, answered, current} \subseteq 0 .. neg
    BY NegotiationsAssumption DEF IInv, Types, Bounds, Path, Begun, Before
  <2>2. Messages(up \o offers, {"offer", "candidate"})
    <3>1. up \in Seq(AnySignal) /\ offers \in Seq(AnySignal)
      BY DEF IInv, Types
    <3>2. \A i \in DOMAIN (up \o offers) :
            \/ i \in DOMAIN up /\ (up \o offers)[i] = up[i]
            \/ \E j \in DOMAIN offers : (up \o offers)[i] = offers[j]
      <4>1. \A i \in DOMAIN (up \o offers) :
              \/ i \in DOMAIN up /\ (up \o offers)[i] = up[i]
              \/ i - Len(up) \in DOMAIN offers /\ (up \o offers)[i] = offers[i - Len(up)]
        BY <3>1
      <4>2. QED BY <4>1
    <3>3. QED BY <3>2 DEF Messages, Bounds, AllDrawn, Drawn, FromBrowser
  <2>3. Messages(signals, {"offer", "candidate", "local"})
    BY DEF Messages, Bounds, AllDrawn, Drawn, FromBrowser, Known
  <2>4. /\ step \in {"none", "idle", "offering", "setting", "rollingback"}
        /\ Len(offers) <= QueueSize /\ Len(signals) <= QueueSize /\ Len(down) <= 1
        /\ task = "sending" \/ down = << >>
    BY DEF Bounds, IInv, Credentials
  <2>5. QED BY <2>1, <2>2, <2>3, <2>4 DEF TypeOK, FaultsLeft
<1>4. QED BY Inductive, <1>1, <1>2, <1>3, PTL DEF Spec
=============================================================================
