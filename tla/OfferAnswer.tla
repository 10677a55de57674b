----------------------------- MODULE OfferAnswer ----------------------------
(***************************************************************************)
(* What a negotiation is: the initiator makes an offer, the other end      *)
(* answers it, the initiator agrees to the answer of the offer it has made *)
(* last, or withdraws the offer.  Offers are answered in the order they    *)
(* are made in, each at most once.                                         *)
(***************************************************************************)
EXTENDS Naturals

VARIABLES
  drawn,      \* negotiations begun
  offered,    \* the offer that waits for its answer, 0 if none
  answered,   \* the last offer that was answered
  agreed      \* the last offer whose answer was agreed to

vars == <<drawn, offered, answered, agreed>>

Init == drawn = 0 /\ offered = 0 /\ answered = 0 /\ agreed = 0

Draw == drawn' = drawn + 1 /\ UNCHANGED <<offered, answered, agreed>>

Offer == offered' = drawn /\ offered < drawn /\ agreed < drawn /\ UNCHANGED <<drawn, answered, agreed>>

Withdraw == offered' = 0 /\ UNCHANGED <<drawn, answered, agreed>>

Answer ==
  /\ answered' \in answered + 1 .. drawn
  /\ UNCHANGED <<drawn, offered, agreed>>

Agree ==
  /\ offered # 0 /\ offered = answered
  /\ agreed' = offered /\ offered' = 0
  /\ UNCHANGED <<drawn, answered>>

Next == Draw \/ Offer \/ Withdraw \/ Answer \/ Agree

Spec == Init /\ [][Next]_vars
=============================================================================
