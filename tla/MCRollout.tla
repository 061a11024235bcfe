----------------------------- MODULE MCRollout -----------------------------
(* An instance of Rollout for TLC: an operator's files, and the texts the  *)
(* loader is tried on.                                                     *)
EXTENDS Rollout

CONSTANTS A, B   \* public keys

Peer(name, key, ref, ip, allow) ==
    [name |-> name, key |-> key, psk |-> ref, ip |-> ip, max |-> 0, dials |-> 0, allow |-> allow]
Doc(peers) == [doc |-> "one", peers |-> peers]

MCIPs == {<<"in", 2>>, <<"in", 3>>}
MCNames == {"a", "b", "web"}
R1 == <<"file", "r1">>
R2 == <<"aws", "r2">>
MCKeyRef == <<"file", "key">>
MCRefs == {R1, R2}
Web == "web" :> <<<<"out", 0>>, 443>>
NoAllow == <<>>

JustA   == Doc(<<Peer("a", A, R1, <<"in", 2>>, Web)>>)
Both    == Doc(<<Peer("a", A, R1, <<"in", 2>>, Web), Peer("b", B, R2, <<"in", 3>>, NoAllow)>>)
\* The peers exchange addresses, in the other spelling, and share a reference.
Swapped == Doc(<<Peer("a", A, R1, <<"mapped", 3>>, Web), Peer("b", B, R1, <<"in", 2>>, Web)>>)
\* One address in two spellings.
Clash   == Doc(<<Peer("a", A, R1, <<"in", 2>>, Web), Peer("b", B, R2, <<"mapped", 2>>, Web)>>)

MCValid == {JustA, Both, Swapped}
MCInvalid == {Clash}

MCStores ==
    {R1 :> v[1] @@ R2 :> v[2] @@ MCKeyRef :> "k1" :
        v \in {<<"k1", "k1">>, <<"garbage", "k1">>}}
MCRotations == {<<R1, "k2">>, <<R1, "loose">>, <<R2, "k2">>}

\* Every way to write an entry, two at a time, and documents of every kind.
MCTexts ==
    [name : {"a", "-"}, key : {A}, psk : {R1, <<"", "k1">>, <<"FILE", "r1">>},
     ip : {<<"in", 0>>, <<"in", 1>>, <<"mapped", 2>>, <<"in", 254>>, <<"in", 255>>,
           <<"out", 0>>, <<"mappedZero", 0>>, <<"empty", 0>>},
     max : {0, 1}, dials : {-1, 0}, allow : {NoAllow, Web}]
MCSecond ==
    [name : {"a", "b"}, key : {A, B}, psk : {R1}, ip : {<<"in", 2>>, <<"in", 254>>},
     max : {1}, dials : {1},
     allow : {Web, "web" :> <<<<"bad", 0>>, 443>>, "web" :> <<<<"mappedZero", 0>>, 443>>,
              "web" :> <<<<"out", 0>>, 0>>, "-" :> <<<<"out", 0>>, 443>>}]
MCPeersFiles ==
    {[doc |-> "one", peers |-> <<p>>] : p \in MCTexts}
        \cup {[doc |-> "one", peers |-> <<p, q>>] : p \in {t \in MCTexts : t.name = "a" /\ t.psk = R1 /\ t.max = 0}, q \in MCSecond}
        \cup {[doc |-> d, peers |-> <<>>] : d \in {"one", "empty", "many", "bad"}}
        \cup MCValid \cup MCInvalid
=============================================================================
