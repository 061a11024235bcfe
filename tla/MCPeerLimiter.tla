--------------------------- MODULE MCPeerLimiter ---------------------------
(* An instance of PeerLimiter for TLC. *)
EXTENDS PeerLimiter

CONSTANTS h1, h2, h3

MCLimits == {[rate |-> 1, max |-> 2], [rate |-> 2, max |-> 1]}
=============================================================================
