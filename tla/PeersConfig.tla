---------------------------- MODULE PeersConfig ----------------------------
(***************************************************************************)
(* The validated peer list of gocloak (config.go, policy.go) and the pure  *)
(* operators the server applies to it: the policy lookup and the reload    *)
(* diff.                                                                   *)
(*                                                                         *)
(* LoadPeersConfig accepts a file only if no two entries share a name, a   *)
(* public key or a tunnel address.  A validated list is therefore a        *)
(* function from the public keys it lists to their entries, injective in   *)
(* the tunnel address.  The order of the entries in the file decides only  *)
(* the order in which a diff is applied; the modules that apply one take   *)
(* the entries in every order.  Peer names occur in log lines and in       *)
(* peerConfig.equal only, and are left out.                                *)
(***************************************************************************)
EXTENDS Naturals

CONSTANTS Keys,      \* public keys
          IPs,       \* tunnel addresses, unmapped
          Services,  \* service names
          Refs,      \* secret references for preshared keys
          NoKey      \* "no peer"

ASSUME NoKeyAssumption == NoKey \notin Keys

\* peerConfig: the fields the server acts on.  "allow" is the set of
\* services granted; the backend behind a service is determined by the
\* entry that grants it.
Entry == [ip : IPs, psk : Refs, maxConcurrent : Nat, allow : SUBSET Services]

\* What LoadPeersConfig guarantees of a list that it returns.
IsPeersConfig(cfg) ==
    /\ DOMAIN cfg \subseteq Keys
    /\ cfg \in [DOMAIN cfg -> Entry]
    /\ \A j, k \in DOMAIN cfg : cfg[j].ip = cfg[k].ip => j = k

\* The public key whose entry holds a tunnel address.
KeyAt(cfg, ip) ==
    IF \E k \in DOMAIN cfg : cfg[k].ip = ip
    THEN CHOOSE k \in DOMAIN cfg : cfg[k].ip = ip
    ELSE NoKey

\* policy.Resolve: the peer entry that grants service s to address ip, or
\* NoKey.  An unknown address and a service that is not granted are
\* indistinguishable.
Resolve(cfg, ip, s) ==
    LET k == KeyAt(cfg, ip)
    IN  IF k # NoKey /\ s \in cfg[k].allow THEN k ELSE NoKey

\* Defective variant of Removed: the diff is keyed by tunnel address.
RemovedByAddress(prev, next) ==
    {k \in DOMAIN prev : \A j \in DOMAIN next : next[j].ip # prev[k].ip}

\* Defective variant of Changed: entries are compared by preshared key only.
ChangedSecret(prev, next) ==
    {k \in DOMAIN prev \cap DOMAIN next : prev[k].psk # next[k].psk}

\* diffPeers, keyed by public key.
Removed(prev, next) == DOMAIN prev \ DOMAIN next
Added(prev, next)   == DOMAIN next \ DOMAIN prev
Changed(prev, next) == {k \in DOMAIN prev \cap DOMAIN next : prev[k] # next[k]}
=============================================================================
