----------------------------- MODULE FrameChannel ---------------------------
(***************************************************************************)
(* What a WsNode promises to the program above it, without tasks, sockets  *)
(* or reconnection: of the frames the program submits some go out, in the  *)
(* order they were submitted in and none twice; the connections that carry *)
(* frames in either direction follow one another, nothing happens on an    *)
(* older one again; and once the channel is closed nothing happens at all. *)
(*                                                                         *)
(* WsNode.tla is shown to implement this module.                           *)
(***************************************************************************)
EXTENDS Naturals, Sequences

VARIABLES submitted,  \* how many frames were submitted; they are numbered from 1
          sent,       \* the frames that went out, in order
          serving,    \* the connection that carried a frame last
          closed

fvars == <<submitted, sent, serving, closed>>

Init == submitted = 0 /\ sent = <<>> /\ serving = 0 /\ closed = FALSE

Submit == /\ ~closed
          /\ submitted' = submitted + 1
          /\ UNCHANGED <<sent, serving, closed>>

\* A frame goes out on a connection that is not older than the last one.
GoOut == /\ ~closed
         /\ \E k \in 1..submitted : /\ \A i \in DOMAIN sent : sent[i] < k
                                    /\ sent' = Append(sent, k)
         /\ serving' \in Nat /\ serving <= serving'
         /\ UNCHANGED <<submitted, closed>>

\* A frame of the other side is handed over.
ComeIn == /\ ~closed
          /\ serving' \in Nat /\ serving <= serving'
          /\ UNCHANGED <<submitted, sent, closed>>

Close == /\ closed' = TRUE
         /\ UNCHANGED <<submitted, sent, serving>>

Next == Submit \/ GoOut \/ ComeIn \/ Close

Spec == Init /\ [][Next]_fvars
=============================================================================
