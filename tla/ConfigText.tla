----------------------------- MODULE ConfigText -----------------------------
(***************************************************************************)
(* The texts an operator writes that more than one file or command reads:  *)
(* addresses (config.go, client.go) and secret references (secret.go).     *)
(*                                                                         *)
(* An address is a pair of what netip.ParseAddr makes of the text and the  *)
(* last byte: "in" is 10.99.0.n, "mapped" its IPv4-in-IPv6 spelling, "out" *)
(* any other host, "zero", "zero6" and "mappedZero" the unspecified        *)
(* addresses, "bad" and "empty" no address.  A reference is a pair of what *)
(* stands before the first colon and what stands after it.                 *)
(***************************************************************************)
EXTENDS Integers

Addresses == {"in", "mapped", "out", "zero", "zero6", "mappedZero"} \X (0..255)
AddrTexts == Addresses \cup {"bad", "empty"} \X (0..255)
NoAddr == <<"none", 0>>   \* the zero netip.Addr

\* netip.Addr.Unmap.
Unmap(a) ==
    CASE a[1] = "mapped"     -> <<"in", a[2]>>
      [] a[1] = "mappedZero" -> <<"zero", 0>>
      [] OTHER -> a

IsUnspecified(a) == a[1] \in {"zero", "zero6"}

\* netip.ParseAddr, or NoAddr.
ParseAddr(t) == IF t[1] \in {"bad", "empty"} THEN NoAddr ELSE t

\* parseTunnelIP, or NoAddr where it returns an error.
ParseTunnelIP(t) ==
    LET a == Unmap(ParseAddr(t)) IN IF IsUnspecified(a) THEN NoAddr ELSE a

\* tunnelSubnet.Contains: a mapped address is in no IPv4 prefix.
InSubnet(a) == a[1] = "in"
ServerTunnelIP == <<"in", 1>>
\* subnetBroadcast: all host bits of a /24.
Broadcast == <<"in", 2^(32 - 24) - 1>>

\* What validatePeer asks of a peer's parsed address.
IsPeerAddress(a) ==
    /\ a # NoAddr /\ InSubnet(a)
    /\ a \notin {ServerTunnelIP, <<"in", 0>>, Broadcast}

\* clientTunnelIP, or NoAddr where it returns an error.
ClientTunnelIP(addr) ==
    LET ip == Unmap(addr) IN
    IF /\ addr # NoAddr /\ InSubnet(ip)
       /\ ip # ServerTunnelIP
       /\ ip \notin {<<"in", 0>>, Broadcast}
    THEN ip ELSE NoAddr

\* The schemes of the model; validSchemeName accepts these and refuses the
\* empty one and any that is spelled otherwise, such as "FILE".
Schemes == {"file", "env", "aws"}

\* parseSecretRef, as validSecretRef uses it: a scheme, a colon, a payload.
\* A literal key has no colon: <<"", key>>.
ValidSecretRef(ref) == ref[1] \in Schemes /\ ref[2] # ""
=============================================================================
