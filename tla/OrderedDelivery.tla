-------------------------- MODULE OrderedDelivery ---------------------------
(***************************************************************************)
(* What a pair of transport handlers promises to the two programs that use *)
(* them, without messages, acknowledgements or timers: payloads are handed *)
(* over in the order they were submitted in, each at most once, possibly   *)
(* with gaps, and a submission is reported as delivered only when its      *)
(* payload, the submitter's latest, has been handed over.                  *)
(*                                                                         *)
(* ReliableTransport.tla is shown to implement this module.                *)
(***************************************************************************)
EXTENDS Naturals, Sequences

CONSTANT Node,      \* the two ends
         Peer(_)    \* the other end

VARIABLES issued,   \* issued[n]: how many payloads n has submitted
          handed,   \* handed[n]: numbers of the peer's payloads handed to n's program
          sure      \* sure[n]: numbers of n's payloads reported as delivered

dvars == <<issued, handed, sure>>

Init == /\ issued = [n \in Node |-> 0]
        /\ handed = [n \in Node |-> <<>>]
        /\ sure = [n \in Node |-> {}]

Submit(n) == /\ issued' = [issued EXCEPT ![n] = @ + 1]
             /\ UNCHANGED <<handed, sure>>

HandOver(n) == \E k \in 1..issued[Peer(n)] :
  /\ \A i \in DOMAIN handed[n] : handed[n][i] < k
  /\ handed' = [handed EXCEPT ![n] = Append(@, k)]
  /\ UNCHANGED <<issued, sure>>

Report(n) == /\ \E i \in DOMAIN handed[Peer(n)] : handed[Peer(n)][i] = issued[n]
             /\ sure' = [sure EXCEPT ![n] = @ \cup {issued[n]}]
             /\ UNCHANGED <<issued, handed>>

Next == \E n \in Node : Submit(n) \/ HandOver(n) \/ Report(n)

Spec == Init /\ [][Next]_dvars
=============================================================================
