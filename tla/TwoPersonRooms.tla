--------------------------- MODULE TwoPersonRooms ---------------------------
(***************************************************************************)
(* What the signalling server promises its clients, with no task, lock or  *)
(* queue limit in sight: a routing tag is a room for two connections; a    *)
(* connection enters at most one room in its life, and a payload is        *)
(* accepted only from one of the two members of a room, for the other one. *)
(* Accepted payloads wait in order and leave from the front, to the client *)
(* or to nowhere if its connection breaks.                                 *)
(*                                                                         *)
(* SignallingServer.tla is shown to implement this module.                 *)
(***************************************************************************)
EXTENDS Sequences

CONSTANTS Conn,  \* connection identifiers, never reused
          Tag,   \* routing tags
          Serial \* what tells the payloads of one sender apart

VARIABLES room,  \* room[t]: the connections that are in the room of tag t
          held,  \* held[c]: payloads accepted for c that have not left yet
          left   \* connections that can never enter a room again

rvars == <<room, held, left>>

Init == /\ room = [t \in Tag |-> {}]
        /\ held = [c \in Conn |-> <<>>]
        /\ left = {}

Homeless(c) == \A t \in Tag : c \notin room[t]

Full(t) == \E a, b \in room[t] : a # b

Enter(c, t) == /\ c \notin left
               /\ Homeless(c)
               /\ ~Full(t)
               /\ room' = [room EXCEPT ![t] = @ \cup {c}]
               /\ UNCHANGED <<held, left>>

\* A sender not yet in the room enters it with its first payload, so entering
\* and being forwarded for are separate steps here.
Accept(c, d) == /\ c # d
                /\ \E t \in Tag : {c, d} \subseteq room[t]
                /\ \E n \in Serial : held' = [held EXCEPT ![d] = Append(@, [from |-> c, n |-> n])]
                /\ UNCHANGED <<room, left>>

Release(c) == /\ held[c] # <<>>
              /\ held' = [held EXCEPT ![c] = Tail(@)]
              /\ UNCHANGED <<room, left>>

Discard(c) == /\ held' = [held EXCEPT ![c] = <<>>]
              /\ UNCHANGED <<room, left>>

\* A connection leaves for good, and only after what it was owed is settled.
Leave(c) == /\ held[c] = <<>>
            /\ left' = left \cup {c}
            /\ room' = [t \in Tag |-> room[t] \ {c}]
            /\ UNCHANGED held

Next == \E c \in Conn : \/ \E t \in Tag : Enter(c, t)
                        \/ \E d \in Conn : Accept(c, d)
                        \/ Release(c)
                        \/ Discard(c)
                        \/ Leave(c)

Spec == Init /\ [][Next]_rvars
=============================================================================
