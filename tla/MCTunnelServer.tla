--------------------------- MODULE MCTunnelServer ---------------------------
(* Instances of TunnelServer for TLC. *)
EXTENDS TunnelServer, TLC

CONSTANTS A, B, ip1, ip2, db, web, r1, r2, c1, c2

Peer(a, ref, max, granted) ==
    [ip |-> a, psk |-> ref, maxConcurrent |-> max, allow |-> granted]
E1(a, ref, max) == Peer(a, ref, max, {db})

\* One peer, its replacement at the same address with another grant, two peers, the two with
\* their addresses exchanged and a new reference, nobody.
MCConfigs ==
    { [k \in {A} |-> E1(ip1, r1, 2)],
      [k \in {B} |-> Peer(ip1, r2, 1, {web})],
      [k \in {A, B} |-> IF k = A THEN E1(ip1, r1, 1) ELSE E1(ip2, r2, 1)],
      [k \in {A, B} |-> IF k = A THEN E1(ip2, r2, 2) ELSE E1(ip1, r2, 1)],
      [k \in {} |-> E1(ip1, r1, 1)] }

\* Handlers run the same code and no property tells them apart.
Handlers == Permutations(Conns)
=============================================================================
