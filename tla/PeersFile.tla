----------------------------- MODULE PeersFile -----------------------------
(***************************************************************************)
(* From peers.yaml to the validated peer list and its policy               *)
(* (LoadPeersConfig, validatePeer in config.go, newPolicy in policy.go).   *)
(*                                                                         *)
(* A file is a record: "doc" says what decodeStrict makes of the bytes     *)
(* ("one" document with known fields, or "empty", "many", "bad"), "peers"  *)
(* is the sequence of its entries, every field as written.  A name of the  *)
(* charset is a member of Names, a text that decodes to a 32-byte key a    *)
(* member of Keys; keys are compared as text, as the code compares them.   *)
(* The backend of a service is a pair of an address text and a port.       *)
(***************************************************************************)
EXTENDS ConfigText, PeersConfig, SequencesExt

CONSTANTS Names,       \* texts that ValidServiceName accepts
          PeersFiles   \* contents of peers.yaml to consider

\* The types of the fields, whatever they say.
IsRawPeer(rp) ==
    /\ rp.ip \in AddrTexts /\ rp.max \in Int /\ rp.dials \in Int
    /\ \A s \in DOMAIN rp.allow : rp.allow[s][1] \in AddrTexts

ASSUME PeersFilesAssumption ==
    \A f \in PeersFiles :
        /\ f = [doc |-> f.doc, peers |-> f.peers] /\ f.peers \in Seq(Range(f.peers))
        /\ \A i \in DOMAIN f.peers : IsRawPeer(f.peers[i])

DefaultMaxConcurrent == 32
DefaultDialsPerSecond == 10

NoEntry == [refused |-> TRUE]   \* validatePeer returned an error

ValidatePeer(rp) ==
    IF /\ rp.name \in Names /\ rp.key \in Keys /\ ValidSecretRef(rp.psk)
       /\ IsPeerAddress(ParseTunnelIP(rp.ip))
       /\ rp.max >= 0 /\ rp.dials >= 0
       /\ \A s \in DOMAIN rp.allow :
             s \in Names /\ ParseAddr(rp.allow[s][1]) # NoAddr /\ rp.allow[s][2] # 0
    THEN [name |-> rp.name, key |-> rp.key, psk |-> rp.psk, ip |-> ParseTunnelIP(rp.ip),
          maxConcurrent |-> IF rp.max = 0 THEN DefaultMaxConcurrent ELSE rp.max,
          dials |-> IF rp.dials = 0 THEN DefaultDialsPerSecond ELSE rp.dials,
          allow |-> [s \in DOMAIN rp.allow |-> <<Unmap(rp.allow[s][1]), rp.allow[s][2]>>]]
    ELSE NoEntry

\* One turn of LoadPeersConfig's loop, over the entries validated so far.
AddEntry(acc, rp) ==
    LET p == ValidatePeer(rp)
        new == /\ p # NoEntry
               /\ \A i \in DOMAIN acc.peers :
                     /\ acc.peers[i].name # p.name
                     /\ acc.peers[i].key # p.key
                     /\ acc.peers[i].ip # p.ip
    IN  IF acc.ok /\ new THEN [acc EXCEPT !.peers = Append(@, p)]
        ELSE [acc EXCEPT !.ok = FALSE]

\* newPolicy refuses what it is given, or builds the policy.
PolicyAccepts(peers) ==
    /\ \A i \in DOMAIN peers :
          /\ peers[i].ip # NoAddr /\ ~IsUnspecified(Unmap(peers[i].ip))
          /\ \A s \in DOMAIN peers[i].allow :
                LET b == peers[i].allow[s]
                IN  s \in Names /\ ~IsUnspecified(b[1]) /\ b[2] # 0
    /\ \A i, j \in DOMAIN peers : Unmap(peers[i].ip) = Unmap(peers[j].ip) => i = j

\* Defective variant of LoadPeersConfig: a list without entries is taken for
\* a truncated file.
LoadPeersConfigNonEmpty(f) ==
    LET acc == FoldLeft(AddEntry, [ok |-> TRUE, peers |-> <<>>], f.peers)
    IN  IF f.doc = "one" /\ f.peers # <<>> /\ acc.ok /\ PolicyAccepts(acc.peers) THEN acc
        ELSE [ok |-> FALSE, peers |-> <<>>]

\* LoadPeersConfig: ok, and the list if it is.
LoadPeersConfig(f) ==
    LET acc == FoldLeft(AddEntry, [ok |-> TRUE, peers |-> <<>>], f.peers)
    IN  IF f.doc = "one" /\ acc.ok /\ PolicyAccepts(acc.peers) THEN acc
        ELSE [ok |-> FALSE, peers |-> <<>>]

\* The list as a function from public keys, as PeersConfig has it.
PeerList(f) ==
    LET peers == LoadPeersConfig(f).peers
    IN  [k \in {peers[i].key : i \in DOMAIN peers} |->
            peers[CHOOSE i \in DOMAIN peers : peers[i].key = k]]

\* policy.Resolve, with the backend: <<NoAddr, 0>> when there is no grant.
ResolveBackend(list, ip, s) ==
    LET k == KeyAt(list, Unmap(ip))
    IN  IF k # NoKey /\ s \in DOMAIN list[k].allow THEN list[k].allow[s] ELSE <<NoAddr, 0>>

\* devicePeer.ipcConfig, on an entry whose preshared key is a key.
DeviceAccepts(p) == p.key \in Keys /\ p.ip # NoAddr /\ InSubnet(p.ip)

-----------------------------------------------------------------------------
\* What the loader owes to the parts that use its list without checking it
\* again.  The device takes every entry; the peer's own client takes the
\* address, in the form the entry has and as written; its grants resolve to
\* addresses that can be dialled, from either spelling of its address; its
\* limiter admits at least one connection; nobody else has its address.
AcceptedIsUsable ==
    \A f \in PeersFiles : LoadPeersConfig(f).ok =>
        LET list == PeerList(f) IN
        \A i \in DOMAIN f.peers :
            LET rp == f.peers[i]
                p  == list[rp.key]
            IN  /\ DeviceAccepts(p)
                /\ ClientTunnelIP(p.ip) = p.ip /\ ClientTunnelIP(ParseAddr(rp.ip)) = p.ip
                /\ KeyAt(list, p.ip) = rp.key
                /\ \A s \in DOMAIN rp.allow : \A ip \in {p.ip, <<"mapped", p.ip[2]>>} :
                      LET b == ResolveBackend(list, ip, s)
                      IN  b[2] # 0 /\ b[1] # NoAddr /\ ~IsUnspecified(b[1])
                /\ p.maxConcurrent >= 1 /\ p.dials >= 1
                /\ \A j \in DOMAIN f.peers :
                      Unmap(f.peers[j].ip) = Unmap(rp.ip) => i = j

\* A revocation is an edit that deletes an entry: it is never refused when
\* the file before it was accepted, and its diff removes that key and does
\* nothing else.
DeletionRevokes ==
    \A f \in PeersFiles : LoadPeersConfig(f).ok =>
        \A i \in DOMAIN f.peers :
            LET g == [f EXCEPT !.peers = RemoveAt(f.peers, i)] IN
            /\ LoadPeersConfig(g).ok
            /\ Removed(PeerList(f), PeerList(g)) = {f.peers[i].key}
            /\ Added(PeerList(f), PeerList(g)) = {}
            /\ Changed(PeerList(f), PeerList(g)) = {}

\* Which entry comes first decides nothing: a file and its reversal load
\* alike and give the same list.
OrderIrrelevant ==
    \A f \in PeersFiles :
        LET g == [f EXCEPT !.peers = Reverse(f.peers)] IN
        /\ LoadPeersConfig(f).ok <=> LoadPeersConfig(g).ok
        /\ PeerList(f) = PeerList(g)
=============================================================================
