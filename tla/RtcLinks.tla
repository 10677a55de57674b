------------------------------- MODULE RtcLinks -----------------------------
(***************************************************************************)
(* What lies between the two RtcConnectors: the signalling channel in each *)
(* direction, and what may go wrong.                                       *)
(*                                                                         *)
(* A signalling message is delivered at most once and in order, and one    *)
(* that its sender waits for is delivered in the end (OrderedDelivery,     *)
(* which ReliableTransport implements).  A message whose delivery was      *)
(* aborted may still arrive, until a later one has.                        *)
(***************************************************************************)
EXTENDS Naturals, Sequences

CONSTANTS MaxFaults       \* bound: failures and late answers in a behaviour

ASSUME LinksAssumption == MaxFaults \in Nat

VARIABLES
  up,       \* under way from the browser to the backend
  down,     \* and back
  faults    \* failures that may still happen

links == <<up, down>>

\* neg is SignalMsg.neg_id; ice names the ICE credentials the description or
\* candidate belongs to, by the negotiation that drew them.
Signal(kind, neg, ice) == [kind |-> kind, neg |-> neg, ice |-> ice]
NoSignal == Signal("none", 0, 0)

\* An ICE restart draws new credentials.
IsRestart(m) == m.ice = m.neg

\* The i-th message under way arrives; those before it were aborted and are lost.
After(link, i) == SubSeq(link, i + 1, Len(link))

Fault == faults > 0 /\ faults' = faults - 1
NoFault == UNCHANGED faults
=============================================================================
