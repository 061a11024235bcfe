----------------------------- MODULE Revocation -----------------------------
(***************************************************************************)
(* What the server promises about revocation, and nothing of how it keeps  *)
(* the promise (server.go: the comments of refreshPeers, closeLive and of  *)
(* the re-check in handleConn).                                            *)
(*                                                                         *)
(* An authorization is one tenure of a key at an address.  A connection is *)
(* admitted only under an authorization that is in force at that moment;   *)
(* the set in force changes as a whole; the connections a change leaves    *)
(* without authorization are all ended before the set changes again, and   *)
(* they are ended.                                                         *)
(***************************************************************************)
CONSTANTS Conns,   \* connections
          Auths,   \* authorizations
          None     \* "not served"

VARIABLES inForce, \* the authorizations in force
          served   \* the authorization each connection is served under

vars == <<inForce, served>>

Init ==
    /\ inForce \in SUBSET Auths
    /\ served = [c \in Conns |-> None]

Revoked(c) == served[c] # None /\ served[c] \notin inForce

Admit(c, a) ==
    /\ served[c] = None /\ a \in inForce
    /\ served' = [served EXCEPT ![c] = a]
    /\ UNCHANGED inForce

End(c) ==
    /\ served[c] # None
    /\ served' = [served EXCEPT ![c] = None]
    /\ UNCHANGED inForce

Change ==
    /\ \A c \in Conns : ~Revoked(c)
    /\ inForce' \in SUBSET Auths
    /\ UNCHANGED served

Next ==
    \/ \E c \in Conns, a \in Auths : Admit(c, a)
    \/ \E c \in Conns : End(c)
    \/ Change

SafeSpec == Init /\ [][Next]_vars

RevokedEnds == \A c \in Conns : Revoked(c) ~> served[c] = None

Spec == SafeSpec /\ RevokedEnds
=============================================================================
