------------------------ MODULE MCReliableTransport -------------------------
(* ReliableTransport for TLC.                                                *)
EXTENDS ReliableTransport, TLC
=============================================================================
