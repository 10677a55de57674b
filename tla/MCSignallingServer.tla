------------------------- MODULE MCSignallingServer -------------------------
(* SignallingServer for TLC: three clients that may compete for a room, and  *)
(* the symmetry that safety checking may use.                                *)
EXTENDS SignallingServer, TLC

Symmetry == Permutations(Conn) \cup Permutations(Tag)
=============================================================================
