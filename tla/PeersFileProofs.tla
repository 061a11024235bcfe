-------------------------- MODULE PeersFileProofs --------------------------
(***************************************************************************)
(* What LoadPeersConfig makes of a file, for files of any length: its loop *)
(* over the entries is described entry by entry (LoopIs), and from that    *)
(* follows what the parts that use a list rely on.                         *)
(***************************************************************************)
EXTENDS PeersFile, SequenceTheorems, WellFoundedInduction, TLAPS

-----------------------------------------------------------------------------
(* Induction on the naturals, over sets.                                   *)

LEMMA NatInductive ==
    ASSUME NEW S \in SUBSET Nat, 0 \in S, \A n \in S : n + 1 \in S
    PROVE  S = Nat
  <1>1. SUFFICES ASSUME Nat \ S # {} PROVE FALSE
    OBVIOUS
  <1>2. PICK x \in Nat \ S : \A y \in Nat \ S : ~(<<y, x>> \in OpToRel(<, Nat))
    BY <1>1, WFMin, NatLessThanWellFounded
  <1>3. \A y \in Nat \ S : ~(y < x)
    BY <1>2 DEF OpToRel
  <1>4. x # 0 /\ x - 1 \in Nat
    OBVIOUS
  <1>5. x - 1 \in S
    BY <1>3, <1>4
  <1>6. QED
    BY <1>5

\* A nonempty set of indices has a greatest element.
LEMMA MaxIs ==
    ASSUME NEW n \in Nat, NEW s \in SUBSET (1..n), s # {}
    PROVE  Max(s) \in s /\ \A y \in s : y <= Max(s)
  <1> DEFINE T == {u \in Nat : \A y \in s : y <= u}
  <1>1. n \in T
    OBVIOUS
  <1>2. PICK m \in T : \A u \in T : ~(<<u, m>> \in OpToRel(<, Nat))
    BY <1>1, WFMin, NatLessThanWellFounded
  <1>3. \A u \in T : ~(u < m)
    BY <1>2 DEF OpToRel
  <1>4. m \in s
    <2>1. SUFFICES ASSUME m \notin s PROVE FALSE
      OBVIOUS
    <2>2. m \in Nat /\ \A y \in s : y \in 1..n /\ y <= m /\ y # m
      BY <2>1
    <2>3. PICK z \in s : TRUE
      OBVIOUS
    <2>4. m > 0
      BY <2>2, <2>3
    <2>5. m - 1 \in T
      BY <2>2, <2>4
    <2>6. QED
      BY <1>3, <2>2, <2>4, <2>5
  <1>5. \A y \in s : m >= y
    BY <1>2
  <1>6. \E x \in s : \A y \in s : x >= y
    BY <1>4, <1>5
  <1>7. Max(s) \in s /\ \A y \in s : Max(s) >= y
    BY <1>6 DEF Max
  <1>8. QED
    BY <1>7

-----------------------------------------------------------------------------
(* The loop.  FoldLeft is a recursive function on sets of indices; a      *)
(* function that solves its equation exists, and on the first k indices it *)
(* is what the loop holds after k entries.                                 *)

LoopStart == [ok |-> TRUE, peers |-> <<>>]
LoopTurn(g, seq, s) == IF s = {} THEN LoopStart ELSE AddEntry(g[s \ {Max(s)}], seq[Max(s)])
Solves(g, seq, n) == g = [s \in SUBSET (1..n) |-> LoopTurn(g, seq, s)]

LEMMA Solvable ==
    ASSUME NEW seq, NEW n \in Nat
    PROVE  \E g : Solves(g, seq, n)
  <1> DEFINE S == {m \in Nat : \E g : Solves(g, seq, m)}
  <1>1. 0 \in S
    <2> DEFINE g == [s \in SUBSET (1..0) |-> LoopStart]
    <2>1. \A s \in SUBSET (1..0) : s = {}
      OBVIOUS
    <2>2. Solves(g, seq, 0)
      BY <2>1 DEF Solves, LoopTurn
    <2>3. QED
      BY <2>2
  <1>2. ASSUME NEW m \in S PROVE m + 1 \in S
    <2>1. PICK g : Solves(g, seq, m)
      OBVIOUS
    <2> DEFINE h == [s \in SUBSET (1..(m + 1)) |->
                       IF m + 1 \in s THEN AddEntry(g[s \ {m + 1}], seq[m + 1]) ELSE g[s]]
    <2>2. ASSUME NEW s \in SUBSET (1..(m + 1)) PROVE h[s] = LoopTurn(h, seq, s)
      <3>1. CASE m + 1 \in s
        <4>1. Max(s) \in s /\ \A y \in s : y <= Max(s)
          <5>1. m + 1 \in Nat /\ s # {}
            BY <3>1
          <5>2. QED
            BY <5>1, MaxIs
        <4>2. Max(s) = m + 1
          <5>1. Max(s) \in 1..(m + 1) /\ m + 1 <= Max(s) /\ m \in Nat
            BY <3>1, <4>1
          <5>2. QED
            BY <5>1
        <4>3. s \ {m + 1} \in SUBSET (1..m) /\ s \ {m + 1} \in SUBSET (1..(m + 1))
          OBVIOUS
        <4>4. h[s \ {m + 1}] = g[s \ {m + 1}]
          BY <4>3
        <4>5. h[s] = AddEntry(g[s \ {m + 1}], seq[m + 1])
          BY <3>1
        <4>6. QED
          BY <3>1, <4>2, <4>4, <4>5 DEF LoopTurn
      <3>2. CASE m + 1 \notin s
        <4>1. s \in SUBSET (1..m)
          BY <3>2
        <4>2. h[s] = g[s]
          BY <3>2
        <4>3. g[s] = LoopTurn(g, seq, s)
          BY <2>1, <4>1 DEF Solves
        <4>4. CASE s = {}
          BY <4>2, <4>3, <4>4 DEF LoopTurn
        <4>5. CASE s # {}
          <5>1. s \ {Max(s)} \in SUBSET (1..(m + 1)) /\ m + 1 \notin s \ {Max(s)}
            BY <3>2
          <5>2. h[s \ {Max(s)}] = g[s \ {Max(s)}]
            BY <5>1
          <5>3. QED
            BY <4>2, <4>3, <4>5, <5>2 DEF LoopTurn
        <4>6. QED
          BY <4>4, <4>5
      <3>3. QED
        BY <3>1, <3>2
    <2>3. h = [s \in SUBSET (1..(m + 1)) |-> h[s]]
      OBVIOUS
    <2>4. Solves(h, seq, m + 1)
      BY <2>2 DEF Solves
    <2> HIDE DEF h
    <2>5. m + 1 \in Nat
      OBVIOUS
    <2>6. QED
      BY <2>4, <2>5
  <1> HIDE DEF S
  <1>3. S \in SUBSET Nat
    BY DEF S
  <1>4. S = Nat
    BY <1>1, <1>2, <1>3, NatInductive
  <1>5. QED
    BY <1>4 DEF S

\* Two entries that may stand in one list.
Differ(p, q) == p.name # q.name /\ p.key # q.key /\ p.ip # q.ip

\* The first k entries get through the loop.
GetThrough(seq, k) ==
    \A i \in 1..k :
        /\ ValidatePeer(seq[i]) # NoEntry
        /\ \A j \in 1..(i - 1) : Differ(ValidatePeer(seq[j]), ValidatePeer(seq[i]))

Parsed(seq, k) == [i \in 1..k |-> ValidatePeer(seq[i])]

\* What the loop holds after k entries.
HeldAfter(acc, seq, k) ==
    IF GetThrough(seq, k) THEN acc = [ok |-> TRUE, peers |-> Parsed(seq, k)]
    ELSE acc = [ok |-> FALSE, peers |-> acc.peers]

\* One turn of the loop keeps that.
LEMMA TurnIs ==
    ASSUME NEW seq, NEW k \in Nat, NEW acc, HeldAfter(acc, seq, k)
    PROVE  HeldAfter(AddEntry(acc, seq[k + 1]), seq, k + 1)
  <1> DEFINE p == ValidatePeer(seq[k + 1])
             new == /\ p # NoEntry
                    /\ \A i \in DOMAIN acc.peers :
                          acc.peers[i].name # p.name /\ acc.peers[i].key # p.key /\ acc.peers[i].ip # p.ip
             next == AddEntry(acc, seq[k + 1])
             E == {ValidatePeer(seq[i]) : i \in 1..(k + 1)}
  <1>1. next = IF acc.ok /\ new THEN [acc EXCEPT !.peers = Append(@, p)] ELSE [acc EXCEPT !.ok = FALSE]
    BY DEF AddEntry
  <1>2. GetThrough(seq, k + 1) <=>
          /\ GetThrough(seq, k)
          /\ p # NoEntry /\ \A j \in 1..k : Differ(ValidatePeer(seq[j]), p)
    <2>1. 1..(k + 1) = (1..k) \cup {k + 1} /\ 1..((k + 1) - 1) = 1..k
      OBVIOUS
    <2>2. QED
      BY <2>1 DEF GetThrough
  <1> HIDE DEF p, next
  <1>3. CASE ~GetThrough(seq, k)
    <2>1. PICK old : acc = [ok |-> FALSE, peers |-> old]
      BY <1>3 DEF HeldAfter
    <2>2. next = [ok |-> FALSE, peers |-> old]
      BY <1>1, <2>1
    <2>3. next = [ok |-> FALSE, peers |-> next.peers]
      BY <2>2
    <2>4. QED
      BY <1>2, <1>3, <2>3 DEF HeldAfter, next
  <1>4. CASE GetThrough(seq, k)
    <2> DEFINE done == Parsed(seq, k)
    <2>1. acc = [ok |-> TRUE, peers |-> done]
      BY <1>4 DEF HeldAfter
    <2>2. DOMAIN done = 1..k /\ \A i \in 1..k : done[i] = ValidatePeer(seq[i])
      BY DEF Parsed
    <2>3. new <=> p # NoEntry /\ \A j \in 1..k : Differ(ValidatePeer(seq[j]), p)
      BY <2>1, <2>2 DEF Differ
    <2> HIDE DEF new
    <2>4. CASE ~new
      <3>1. next = [ok |-> FALSE, peers |-> done]
        BY <1>1, <2>1, <2>4
      <3>2. QED
        BY <1>2, <2>3, <2>4, <3>1 DEF HeldAfter, next
    <2>5. CASE new
      <3>1. next = [ok |-> TRUE, peers |-> Append(done, p)]
        BY <1>1, <2>1, <2>5
      <3>2. Append(done, p) = Parsed(seq, k + 1)
        <4>1. done \in Seq(E) /\ Len(done) = k
          BY <2>2 DEF Parsed
        <4>2. p \in E
          BY DEF p
        <4>3. Parsed(seq, k + 1) \in Seq(E) /\ Len(Parsed(seq, k + 1)) = k + 1
          BY DEF Parsed
        <4>4. Append(done, p) \in Seq(E) /\ Len(Append(done, p)) = k + 1
          BY <4>1, <4>2
        <4>5. ASSUME NEW i \in 1..(k + 1) PROVE Append(done, p)[i] = Parsed(seq, k + 1)[i]
          <5>1. Append(done, p)[i] = IF i = k + 1 THEN p ELSE done[i]
            BY <4>1, <4>2
          <5>2. Parsed(seq, k + 1)[i] = ValidatePeer(seq[i])
            BY DEF Parsed
          <5>3. i # k + 1 => i \in 1..k
            OBVIOUS
          <5>4. QED
            BY <2>2, <5>1, <5>2, <5>3 DEF p
        <4>6. QED
          BY <4>3, <4>4, <4>5, SeqEqual
      <3>3. QED
        BY <1>2, <1>4, <2>3, <2>5, <3>1, <3>2 DEF HeldAfter, next
    <2>6. QED
      BY <2>4, <2>5
  <1>5. QED
    BY <1>3, <1>4

\* The loop of LoadPeersConfig, entry by entry.
LEMMA LoopIs ==
    ASSUME NEW E, NEW seq \in Seq(E)
    PROVE  HeldAfter(FoldLeft(AddEntry, LoopStart, seq), seq, Len(seq))
  <1> DEFINE n == Len(seq)
             g == CHOOSE h : h = [s \in SUBSET DOMAIN seq |-> LoopTurn(h, seq, s)]
             S == {k \in Nat : k <= n => HeldAfter(g[1..k], seq, k)}
  <1>1. n \in Nat /\ DOMAIN seq = 1..n
    OBVIOUS
  <1>2. FoldLeft(AddEntry, LoopStart, seq) = g[DOMAIN seq]
    BY DEF FoldLeft, MapThenFoldSet, LoopTurn
  <1>3. Solves(g, seq, n)
    <2>1. \E h : h = [s \in SUBSET DOMAIN seq |-> LoopTurn(h, seq, s)]
      <3>1. PICK h : Solves(h, seq, n)
        BY <1>1, Solvable
      <3>2. h = [s \in SUBSET DOMAIN seq |-> LoopTurn(h, seq, s)]
        BY <1>1, <3>1 DEF Solves
      <3>3. QED
        BY <3>2
    <2>2. g = [s \in SUBSET DOMAIN seq |-> LoopTurn(g, seq, s)]
      BY <2>1
    <2> HIDE DEF g
    <2>3. QED
      BY <1>1, <2>2 DEF Solves
  <1> HIDE DEF g
  <1>4. \A s \in SUBSET (1..n) : g[s] = LoopTurn(g, seq, s)
    BY <1>3 DEF Solves
  <1>5. 0 \in S
    <2>1. 1..0 = {} /\ {} \in SUBSET (1..n)
      OBVIOUS
    <2>2. g[1..0] = LoopStart
      BY <1>4, <2>1 DEF LoopTurn
    <2>3. Parsed(seq, 0) = <<>>
      BY <2>1 DEF Parsed
    <2>4. GetThrough(seq, 0)
      BY <2>1 DEF GetThrough
    <2>5. HeldAfter(g[1..0], seq, 0)
      BY <2>2, <2>3, <2>4 DEF HeldAfter, LoopStart
    <2>6. QED
      BY <2>5
  <1>6. ASSUME NEW k \in S PROVE k + 1 \in S
    <2>1. SUFFICES ASSUME k + 1 <= n PROVE HeldAfter(g[1..(k + 1)], seq, k + 1)
      OBVIOUS
    <2>2. k \in Nat /\ k + 1 \in Nat /\ k <= n /\ HeldAfter(g[1..k], seq, k)
      BY <1>1, <2>1
    <2> DEFINE s == 1..(k + 1)
    <2>3. s \in SUBSET (1..n) /\ s # {} /\ k + 1 \in s /\ s \in SUBSET (1..(k + 1))
      BY <1>1, <2>1, <2>2
    <2>4. Max(s) \in s /\ k + 1 <= Max(s)
      BY <2>2, <2>3, MaxIs
    <2>5. Max(s) = k + 1
      BY <2>2, <2>4
    <2>6. s \ {k + 1} = 1..k
      BY <2>2
    <2>7. g[s] = AddEntry(g[1..k], seq[k + 1])
      BY <1>4, <2>3, <2>5, <2>6 DEF LoopTurn
    <2>8. QED
      BY <2>2, <2>7, TurnIs
  <1> HIDE DEF S
  <1>7. S = Nat
    <2>1. S \in SUBSET Nat
      BY DEF S
    <2>2. QED
      BY <1>5, <1>6, <2>1, NatInductive
  <1>8. HeldAfter(g[1..n], seq, n)
    BY <1>1, <1>7 DEF S
  <1>9. QED
    BY <1>1, <1>2, <1>8

-----------------------------------------------------------------------------
(* What is in a list that was loaded.                                      *)

\* LoadPeersConfig returns every entry of the file, in order, or refuses it.
LEMMA LoadIs ==
    ASSUME NEW f, NEW E, f.peers \in Seq(E)
    PROVE  LET n == Len(f.peers)
               all == Parsed(f.peers, n)
           IN  IF f.doc = "one" /\ GetThrough(f.peers, n) /\ PolicyAccepts(all)
               THEN LoadPeersConfig(f) = [ok |-> TRUE, peers |-> all]
               ELSE LoadPeersConfig(f) = [ok |-> FALSE, peers |-> <<>>]
  <1> DEFINE n == Len(f.peers)
             all == Parsed(f.peers, n)
             acc == FoldLeft(AddEntry, LoopStart, f.peers)
  <1>1. HeldAfter(acc, f.peers, n)
    BY LoopIs
  <1>2. LoadPeersConfig(f) =
          IF f.doc = "one" /\ acc.ok /\ PolicyAccepts(acc.peers) THEN acc ELSE [ok |-> FALSE, peers |-> <<>>]
    BY DEF LoadPeersConfig, LoopStart
  <1> HIDE DEF acc, all
  <1>3. CASE GetThrough(f.peers, n)
    <2>1. acc = [ok |-> TRUE, peers |-> all]
      BY <1>1, <1>3 DEF HeldAfter, all
    <2>2. QED
      BY <1>2, <1>3, <2>1 DEF all
  <1>4. CASE ~GetThrough(f.peers, n)
    <2>1. acc.ok = FALSE
      <3>1. PICK old : acc = [ok |-> FALSE, peers |-> old]
        BY <1>1, <1>4 DEF HeldAfter
      <3>2. QED
        BY <3>1
    <2>2. QED
      BY <1>2, <1>4, <2>1 DEF all
  <1>5. QED
    BY <1>3, <1>4

\* The checks and the result of validatePeer, on an entry it accepts.
LEMMA EntryIs ==
    ASSUME NEW rp, ValidatePeer(rp) # NoEntry
    PROVE  LET p == ValidatePeer(rp) IN
           /\ rp.name \in Names /\ rp.key \in Keys /\ ValidSecretRef(rp.psk)
           /\ IsPeerAddress(ParseTunnelIP(rp.ip))
           /\ rp.max >= 0 /\ rp.dials >= 0
           /\ \A s \in DOMAIN rp.allow :
                 s \in Names /\ ParseAddr(rp.allow[s][1]) # NoAddr /\ rp.allow[s][2] # 0
           /\ p.name = rp.name /\ p.key = rp.key /\ p.psk = rp.psk /\ p.ip = ParseTunnelIP(rp.ip)
           /\ p.maxConcurrent = IF rp.max = 0 THEN DefaultMaxConcurrent ELSE rp.max
           /\ p.dials = IF rp.dials = 0 THEN DefaultDialsPerSecond ELSE rp.dials
           /\ DOMAIN p.allow = DOMAIN rp.allow
           /\ \A s \in DOMAIN rp.allow : p.allow[s] = <<Unmap(rp.allow[s][1]), rp.allow[s][2]>>
  BY DEF ValidatePeer

\* A list that was loaded has each entry of the file under its key, and no
\* two that share a key or an address.
LEMMA ListIs ==
    ASSUME NEW f, NEW E, f.peers \in Seq(E), LoadPeersConfig(f).ok
    PROVE  LET list == PeerList(f)
               entry(i) == ValidatePeer(f.peers[i])
           IN  /\ f.doc = "one" /\ PolicyAccepts(Parsed(f.peers, Len(f.peers)))
               /\ GetThrough(f.peers, Len(f.peers))
               /\ DOMAIN list = {f.peers[i].key : i \in DOMAIN f.peers}
               /\ \A i \in DOMAIN f.peers :
                     /\ entry(i) # NoEntry /\ entry(i).key = f.peers[i].key
                     /\ list[f.peers[i].key] = entry(i)
               /\ \A i, j \in DOMAIN f.peers : i # j => Differ(entry(i), entry(j))
  <1> DEFINE n == Len(f.peers)
             all == Parsed(f.peers, n)
             entry(i) == ValidatePeer(f.peers[i])
             list == PeerList(f)
  <1>1. n \in Nat /\ DOMAIN f.peers = 1..n
    OBVIOUS
  <1>2. f.doc = "one" /\ GetThrough(f.peers, n) /\ PolicyAccepts(all) /\ LoadPeersConfig(f).peers = all
    <2>1. CASE f.doc = "one" /\ GetThrough(f.peers, n) /\ PolicyAccepts(all)
      BY <2>1, LoadIs
    <2>2. CASE ~(f.doc = "one" /\ GetThrough(f.peers, n) /\ PolicyAccepts(all))
      <3>1. LoadPeersConfig(f) = [ok |-> FALSE, peers |-> <<>>]
        BY <2>2, LoadIs
      <3>2. QED
        BY <3>1
    <2>3. QED
      BY <2>1, <2>2
  <1>3. DOMAIN all = 1..n /\ \A i \in 1..n : all[i] = entry(i)
    BY DEF Parsed
  <1>4. \A i \in 1..n : entry(i) # NoEntry /\ entry(i).key = f.peers[i].key
    BY <1>2, EntryIs DEF GetThrough
  <1>5. ASSUME NEW i \in 1..n, NEW j \in 1..n, i # j PROVE Differ(entry(i), entry(j))
    <2>1. CASE i < j
      <3>1. i \in 1..(j - 1)
        BY <2>1
      <3>2. QED
        BY <1>2, <3>1 DEF GetThrough
    <2>2. CASE j < i
      <3>1. j \in 1..(i - 1)
        BY <2>2
      <3>2. Differ(entry(j), entry(i))
        BY <1>2, <3>1 DEF GetThrough
      <3>3. QED
        BY <3>2 DEF Differ
    <2>3. QED
      BY <1>5, <2>1, <2>2
  <1> HIDE DEF all, entry
  <1>6. list = [k \in {all[i].key : i \in 1..n} |-> all[CHOOSE i \in 1..n : all[i].key = k]]
    BY <1>2, <1>3 DEF PeerList
  <1>7. {all[i].key : i \in 1..n} = {f.peers[i].key : i \in 1..n}
    BY <1>3, <1>4
  <1>8. ASSUME NEW i \in 1..n PROVE list[f.peers[i].key] = entry(i)
    <2> DEFINE k == f.peers[i].key
               c == CHOOSE j \in 1..n : all[j].key = k
    <2>1. all[i].key = k
      BY <1>3, <1>4
    <2>2. c \in 1..n /\ all[c].key = k
      BY <2>1
    <2>3. k \in {all[j].key : j \in 1..n}
      BY <2>1
    <2> HIDE DEF k, list
    <2>4. list[k] = all[c]
      <3> DEFINE of(x) == all[CHOOSE j \in 1..n : all[j].key = x]
      <3>1. list = [x \in {all[j].key : j \in 1..n} |-> of(x)]
        BY <1>6
      <3>2. of(k) = all[c]
        OBVIOUS
      <3> HIDE DEF of, c
      <3>3. QED
        BY <2>3, <3>1, <3>2
    <2> HIDE DEF c
    <2>5. c = i
      BY <1>3, <1>5, <2>1, <2>2 DEF Differ
    <2>6. QED
      BY <1>3, <2>4, <2>5 DEF k
  <1>9. DOMAIN list = {f.peers[i].key : i \in 1..n}
    BY <1>6, <1>7
  <1>10. QED
    BY <1>1, <1>2, <1>4, <1>5, <1>8, <1>9 DEF entry, all

LEMMA ListHas ==
    ASSUME NEW f, NEW E, f.peers \in Seq(E), LoadPeersConfig(f).ok
    PROVE  /\ DOMAIN PeerList(f) = {f.peers[i].key : i \in DOMAIN f.peers}
           /\ \A i \in DOMAIN f.peers : PeerList(f)[f.peers[i].key] = ValidatePeer(f.peers[i])
           /\ \A i, j \in DOMAIN f.peers : f.peers[i].key = f.peers[j].key => i = j
  <1>1. /\ DOMAIN PeerList(f) = {f.peers[i].key : i \in DOMAIN f.peers}
        /\ \A i \in DOMAIN f.peers : ValidatePeer(f.peers[i]).key = f.peers[i].key
        /\ \A i \in DOMAIN f.peers : PeerList(f)[f.peers[i].key] = ValidatePeer(f.peers[i])
        /\ \A i, j \in DOMAIN f.peers : i # j => Differ(ValidatePeer(f.peers[i]), ValidatePeer(f.peers[j]))
    BY ListIs
  <1>2. \A i, j \in DOMAIN f.peers : i # j => f.peers[i].key # f.peers[j].key
    BY <1>1 DEF Differ
  <1>3. QED
    BY <1>1, <1>2

LEMMA LoadsOrNot ==
    ASSUME NEW f, NEW E, f.peers \in Seq(E)
    PROVE  LoadPeersConfig(f).ok \in BOOLEAN /\ (~LoadPeersConfig(f).ok => LoadPeersConfig(f).peers = <<>>)
  <1> DEFINE all == Parsed(f.peers, Len(f.peers))
             good == f.doc = "one" /\ GetThrough(f.peers, Len(f.peers)) /\ PolicyAccepts(all)
  <1>1. CASE good
    <2>1. LoadPeersConfig(f) = [ok |-> TRUE, peers |-> all]
      BY <1>1, LoadIs
    <2>2. QED
      BY <2>1
  <1>2. CASE ~good
    <2>1. LoadPeersConfig(f) = [ok |-> FALSE, peers |-> <<>>]
      BY <1>2, LoadIs
    <2>2. QED
      BY <2>1
  <1>3. QED
    BY <1>1, <1>2

\* Who holds an address of a loaded list.
LEMMA HolderIs ==
    ASSUME NEW f, NEW E, f.peers \in Seq(E), LoadPeersConfig(f).ok, NEW i \in DOMAIN f.peers
    PROVE  KeyAt(PeerList(f), ValidatePeer(f.peers[i]).ip) = f.peers[i].key
  <1> DEFINE list == PeerList(f)
             entry(j) == ValidatePeer(f.peers[j])
             ip == entry(i).ip
             key == f.peers[i].key
  <1>1. /\ DOMAIN list = {f.peers[j].key : j \in DOMAIN f.peers}
        /\ \A j \in DOMAIN f.peers : list[f.peers[j].key] = entry(j)
        /\ \A j \in DOMAIN f.peers : j # i => entry(j).ip # ip
    BY ListIs DEF Differ
  <1> HIDE DEF list, entry
  <1>2. key \in DOMAIN list /\ list[key].ip = ip
    BY <1>1
  <1>3. \A k \in DOMAIN list : list[k].ip = ip => k = key
    BY <1>1
  <1>4. KeyAt(list, ip) = CHOOSE k \in DOMAIN list : list[k].ip = ip
    BY <1>2 DEF KeyAt
  <1> HIDE DEF ip, key
  <1>5. KeyAt(list, ip) = key
    BY <1>2, <1>3, <1>4
  <1>6. QED
    BY <1>5 DEF list, ip, key, entry

-----------------------------------------------------------------------------
(* What the users of a list rely on.                                       *)

\* The address of an accepted entry, to the device and to the peer's client.
LEMMA AddressIs ==
    ASSUME NEW t \in AddrTexts, IsPeerAddress(ParseTunnelIP(t))
    PROVE  LET a == ParseTunnelIP(t) IN
           /\ a # NoAddr /\ InSubnet(a) /\ Unmap(t) = a
           /\ Unmap(a) = a /\ Unmap(<<"mapped", a[2]>>) = a
           /\ ClientTunnelIP(a) = a /\ ClientTunnelIP(ParseAddr(t)) = a
  <1> DEFINE a == ParseTunnelIP(t)
  <1>1. a[1] = "in" /\ a # NoAddr /\ a \notin {ServerTunnelIP, <<"in", 0>>, Broadcast}
    BY DEF IsPeerAddress, InSubnet
  <1>2. ParseAddr(t) = t
    <2>1. CASE t[1] \in {"bad", "empty"}
      <3>1. a = NoAddr
        BY <2>1 DEF ParseTunnelIP, ParseAddr, Unmap, NoAddr, IsUnspecified
      <3>2. QED
        BY <1>1, <3>1
    <2>2. QED
      BY <2>1 DEF ParseAddr
  <1>3. a = Unmap(t)
    BY <1>1, <1>2 DEF ParseTunnelIP
  <1>4. t = <<t[1], t[2]>>
    BY DEF AddrTexts, Addresses
  <1>5. a = <<"in", t[2]>>
    <2>1. CASE t[1] = "mapped"
      BY <1>3, <2>1 DEF Unmap
    <2>2. CASE t[1] = "mappedZero"
      BY <1>1, <1>3, <2>2 DEF Unmap
    <2>3. CASE t[1] \notin {"mapped", "mappedZero"}
      <3>1. a = t
        BY <1>3, <2>3 DEF Unmap
      <3>2. QED
        BY <1>1, <1>4, <3>1
    <2>4. QED
      BY <2>1, <2>2, <2>3
  <1>6. Unmap(a) = a /\ Unmap(<<"mapped", a[2]>>) = a
    BY <1>5 DEF Unmap
  <1>7. t # NoAddr
    BY DEF AddrTexts, Addresses, NoAddr
  <1> HIDE DEF a
  <1>8. ClientTunnelIP(a) = a /\ ClientTunnelIP(t) = a
    BY <1>1, <1>3, <1>6, <1>7 DEF ClientTunnelIP, InSubnet
  <1>9. QED
    BY <1>1, <1>2, <1>3, <1>6, <1>8 DEF a, InSubnet

\* The address of a backend that parses is an address without its mapping.
LEMMA BackendIs ==
    ASSUME NEW t \in AddrTexts, ParseAddr(t) # NoAddr
    PROVE  Unmap(t) # NoAddr
  <1>1. t[1] # "none" /\ t = <<t[1], t[2]>>
    BY DEF AddrTexts, Addresses
  <1>2. QED
    BY <1>1 DEF Unmap, NoAddr

\* Every entry that LoadPeersConfig accepts can be applied to the device, used
\* by its peer's client, dialled to and limited, and nobody else has its
\* address, for files of any length and in any spelling.
THEOREM AcceptedEntriesAreUsable == AcceptedIsUsable
  <1> SUFFICES ASSUME NEW f \in PeersFiles, LoadPeersConfig(f).ok, NEW i \in DOMAIN f.peers
               PROVE  LET list == PeerList(f)
                          rp == f.peers[i]
                          p == list[rp.key]
                      IN  /\ DeviceAccepts(p)
                          /\ ClientTunnelIP(p.ip) = p.ip /\ ClientTunnelIP(ParseAddr(rp.ip)) = p.ip
                          /\ KeyAt(list, p.ip) = rp.key
                          /\ \A s \in DOMAIN rp.allow : \A ip \in {p.ip, <<"mapped", p.ip[2]>>} :
                                LET b == ResolveBackend(list, ip, s)
                                IN  b[2] # 0 /\ b[1] # NoAddr /\ ~IsUnspecified(b[1])
                          /\ p.maxConcurrent >= 1 /\ p.dials >= 1
                          /\ \A j \in DOMAIN f.peers :
                                Unmap(f.peers[j].ip) = Unmap(rp.ip) => i = j
    BY DEF AcceptedIsUsable
  <1> DEFINE E == Range(f.peers)
             n == Len(f.peers)
             list == PeerList(f)
             entry(j) == ValidatePeer(f.peers[j])
             rp == f.peers[i]
             p == entry(i)
  <1>1. f.peers \in Seq(E) /\ \A j \in DOMAIN f.peers : IsRawPeer(f.peers[j])
    BY PeersFilesAssumption
  <1> HIDE DEF E
  <1>2. /\ PolicyAccepts(Parsed(f.peers, n))
        /\ \A j \in DOMAIN f.peers : entry(j) # NoEntry
        /\ list[rp.key] = p
        /\ \A j \in DOMAIN f.peers : j # i => entry(j).ip # p.ip
    BY <1>1, ListIs DEF Differ
  <1>3. KeyAt(list, p.ip) = rp.key
    BY <1>1, HolderIs
  <1>4. /\ rp.key \in Keys /\ rp.max >= 0 /\ rp.dials >= 0
        /\ \A s \in DOMAIN rp.allow :
              s \in Names /\ ParseAddr(rp.allow[s][1]) # NoAddr /\ rp.allow[s][2] # 0
        /\ p.key = rp.key
        /\ p.maxConcurrent = IF rp.max = 0 THEN DefaultMaxConcurrent ELSE rp.max
        /\ p.dials = IF rp.dials = 0 THEN DefaultDialsPerSecond ELSE rp.dials
        /\ DOMAIN p.allow = DOMAIN rp.allow
        /\ \A s \in DOMAIN rp.allow : p.allow[s] = <<Unmap(rp.allow[s][1]), rp.allow[s][2]>>
    BY <1>2, EntryIs
  <1>5. \A j \in DOMAIN f.peers :
          /\ entry(j).ip = ParseTunnelIP(f.peers[j].ip) /\ IsPeerAddress(ParseTunnelIP(f.peers[j].ip))
          /\ f.peers[j].ip \in AddrTexts
    BY <1>1, <1>2, EntryIs DEF IsRawPeer
  <1>6. \A j \in DOMAIN f.peers : Unmap(f.peers[j].ip) = entry(j).ip
    BY <1>5, AddressIs
  <1>7. /\ p.ip # NoAddr /\ InSubnet(p.ip)
        /\ Unmap(p.ip) = p.ip /\ Unmap(<<"mapped", p.ip[2]>>) = p.ip
        /\ ClientTunnelIP(p.ip) = p.ip /\ ClientTunnelIP(ParseAddr(rp.ip)) = p.ip
    BY <1>5, AddressIs
  <1> HIDE DEF list, entry
  <1>8. ASSUME NEW s \in DOMAIN rp.allow, NEW ip \in {p.ip, <<"mapped", p.ip[2]>>}
        PROVE  LET b == ResolveBackend(list, ip, s)
               IN  b[2] # 0 /\ b[1] # NoAddr /\ ~IsUnspecified(b[1])
    <2>1. Unmap(ip) = p.ip
      BY <1>7
    <2>2. rp.key # NoKey
      BY <1>4, NoKeyAssumption
    <2>3. ResolveBackend(list, ip, s) = p.allow[s]
      BY <1>2, <1>3, <1>4, <2>1, <2>2 DEF ResolveBackend
    <2>4. p.allow[s] = <<Unmap(rp.allow[s][1]), rp.allow[s][2]>>
      BY <1>4
    <2>5. Unmap(rp.allow[s][1]) # NoAddr
      BY <1>1, <1>4, BackendIs DEF IsRawPeer
    <2>6. ~IsUnspecified(p.allow[s][1])
      <3>1. n \in Nat /\ DOMAIN f.peers = 1..n
        BY <1>1
      <3>2. DOMAIN Parsed(f.peers, n) = 1..n /\ Parsed(f.peers, n)[i] = p
        BY <3>1 DEF Parsed, entry
      <3>3. QED
        BY <1>2, <1>4, <3>1, <3>2 DEF PolicyAccepts
    <2>7. QED
      BY <1>4, <2>3, <2>4, <2>5, <2>6
  <1>9. p.maxConcurrent >= 1 /\ p.dials >= 1
    <2>1. rp.max \in Int /\ rp.dials \in Int
      BY <1>1 DEF IsRawPeer
    <2>2. QED
      BY <1>4, <2>1 DEF DefaultMaxConcurrent, DefaultDialsPerSecond
  <1>10. DeviceAccepts(p)
    BY <1>4, <1>7 DEF DeviceAccepts
  <1>11. \A j \in DOMAIN f.peers : Unmap(f.peers[j].ip) = Unmap(rp.ip) => i = j
    BY <1>2, <1>6
  <1>12. QED
    BY <1>2, <1>3, <1>7, <1>8, <1>9, <1>10, <1>11 DEF list

\* The entries that are left when one is deleted.
LEMMA RemovalIs ==
    ASSUME NEW E, NEW s \in Seq(E), NEW i \in DOMAIN s
    PROVE  LET q == RemoveAt(s, i)
               n == Len(s)
           IN  /\ q \in Seq(E) /\ Len(q) = n - 1
               /\ \A j \in 1..(n - 1) : q[j] = s[IF j < i THEN j ELSE j + 1]
  <1> DEFINE n == Len(s)
             q == RemoveAt(s, i)
             a == SubSeq(s, 1, i - 1)
             b == SubSeq(s, i + 1, n)
  <1>1. n \in Nat /\ i \in 1..n
    OBVIOUS
  <1>2. a \in Seq(E) /\ Len(a) = i - 1 /\ \A j \in 1..(i - 1) : a[j] = s[j]
    BY <1>1
  <1>3. b \in Seq(E) /\ Len(b) = n - i /\ \A j \in 1..(n - i) : b[j] = s[i + j]
    BY <1>1
  <1>4. q = a \o b
    BY DEF RemoveAt
  <1> HIDE DEF a, b, q, n
  <1>5. q \in Seq(E) /\ Len(q) = Len(a) + Len(b)
    BY <1>2, <1>3, <1>4, ConcatProperties
  <1>6. Len(q) = n - 1
    BY <1>1, <1>2, <1>3, <1>5
  <1>7. ASSUME NEW j \in 1..(n - 1) PROVE q[j] = s[IF j < i THEN j ELSE j + 1]
    <2>1. CASE j < i
      BY <1>1, <1>2, <1>3, <1>4, <2>1
    <2>2. CASE ~(j < i)
      <3>1. j - (i - 1) \in 1..(n - i) /\ i + (j - (i - 1)) = j + 1
        BY <1>1, <2>2
      <3>2. q[j] = b[j - (i - 1)]
        <4>1. j \in 1..(Len(a) + Len(b)) /\ ~(j <= Len(a))
          BY <1>1, <1>2, <1>3, <2>2
        <4>2. q[j] = b[j - Len(a)]
          BY <1>2, <1>3, <1>4, <4>1, ConcatProperties
        <4>3. QED
          BY <1>2, <4>2
      <3>3. QED
        BY <1>3, <2>2, <3>1, <3>2
    <2>3. QED
      BY <2>1, <2>2
  <1>8. QED
    BY <1>5, <1>6, <1>7 DEF q, n

\* Any selection from the entries of a file that loads is a file that loads,
\* with the same entries under the same keys.
Selects(m, g, f) ==
    /\ g.doc = f.doc /\ m \in [DOMAIN g.peers -> DOMAIN f.peers]
    /\ \A i, j \in DOMAIN g.peers : m[i] = m[j] => i = j
    /\ \A j \in DOMAIN g.peers : g.peers[j] = f.peers[m[j]]

LoadedAs(m, g, f) ==
    /\ LoadPeersConfig(g).ok
    /\ DOMAIN PeerList(g) = {f.peers[m[j]].key : j \in DOMAIN g.peers}
    /\ \A k \in DOMAIN PeerList(g) : k \in DOMAIN PeerList(f) /\ PeerList(g)[k] = PeerList(f)[k]

LEMMA SelectionLoads ==
    ASSUME NEW f, NEW g, NEW E, f.peers \in Seq(E), g.peers \in Seq(E),
           LoadPeersConfig(f).ok, NEW m, Selects(m, g, f)
    PROVE  LoadedAs(m, g, f)
  <1> DEFINE n == Len(f.peers)
             l == Len(g.peers)
             all == Parsed(f.peers, n)
             some == Parsed(g.peers, l)
             entry(i) == ValidatePeer(f.peers[i])
  <1>1. /\ n \in Nat /\ l \in Nat /\ DOMAIN f.peers = 1..n /\ DOMAIN g.peers = 1..l
        /\ g.doc = f.doc /\ m \in [1..l -> 1..n]
        /\ \A i, j \in 1..l : m[i] = m[j] => i = j
        /\ \A j \in 1..l : g.peers[j] = f.peers[m[j]]
    <2>1. n \in Nat /\ l \in Nat /\ DOMAIN f.peers = 1..n /\ DOMAIN g.peers = 1..l
      OBVIOUS
    <2> HIDE DEF n, l
    <2>2. QED
      BY <2>1 DEF Selects
  <1>2. /\ f.doc = "one" /\ PolicyAccepts(all)
        /\ \A i \in 1..n : entry(i) # NoEntry
        /\ \A i, j \in 1..n : i # j => Differ(entry(i), entry(j))
    BY <1>1, ListIs
  <1>3. /\ \A j \in 1..l : m[j] \in 1..n /\ ValidatePeer(g.peers[j]) = entry(m[j])
        /\ \A i, j \in 1..l : i # j => m[i] # m[j]
    BY <1>1
  <1> HIDE DEF entry
  <1>4. GetThrough(g.peers, l)
    <2>1. \A i \in 1..l : \A j \in 1..(i - 1) : j \in 1..l /\ j # i
      BY <1>1
    <2>2. QED
      BY <1>2, <1>3, <2>1 DEF GetThrough
  <1>5. /\ DOMAIN all = 1..n /\ DOMAIN some = 1..l
        /\ \A j \in 1..l : some[j] = all[m[j]]
    BY <1>3 DEF Parsed, entry
  <1> HIDE DEF all, some
  <1>6. PolicyAccepts(some)
    <2>1. \A i \in 1..l : all[m[i]].ip # NoAddr /\ ~IsUnspecified(Unmap(all[m[i]].ip))
                          /\ \A s \in DOMAIN all[m[i]].allow :
                                LET b == all[m[i]].allow[s]
                                IN  s \in Names /\ ~IsUnspecified(b[1]) /\ b[2] # 0
      BY <1>2, <1>3, <1>5 DEF PolicyAccepts
    <2>2. \A i, j \in 1..l : Unmap(all[m[i]].ip) = Unmap(all[m[j]].ip) => i = j
      BY <1>2, <1>3, <1>5 DEF PolicyAccepts
    <2>3. \A i \in 1..l : some[i].ip # NoAddr /\ ~IsUnspecified(Unmap(some[i].ip))
                          /\ \A s \in DOMAIN some[i].allow :
                                LET b == some[i].allow[s]
                                IN  s \in Names /\ ~IsUnspecified(b[1]) /\ b[2] # 0
      <3> SUFFICES ASSUME NEW i \in 1..l
                   PROVE  /\ some[i].ip # NoAddr /\ ~IsUnspecified(Unmap(some[i].ip))
                          /\ \A s \in DOMAIN some[i].allow :
                                s \in Names /\ ~IsUnspecified(some[i].allow[s][1]) /\ some[i].allow[s][2] # 0
        OBVIOUS
      <3> DEFINE e == all[m[i]]
      <3>1. some[i] = e
        BY <1>5
      <3>2. /\ e.ip # NoAddr /\ ~IsUnspecified(Unmap(e.ip))
            /\ \A s \in DOMAIN e.allow : s \in Names /\ ~IsUnspecified(e.allow[s][1]) /\ e.allow[s][2] # 0
        BY <2>1
      <3> HIDE DEF e
      <3>3. QED
        BY <3>1, <3>2
    <2>4. \A i, j \in 1..l : Unmap(some[i].ip) = Unmap(some[j].ip) => i = j
      BY <1>5, <2>2
    <2>5. QED
      BY <1>5, <2>3, <2>4 DEF PolicyAccepts
  <1>7. LoadPeersConfig(g).ok
    <2>1. LoadPeersConfig(g) = [ok |-> TRUE, peers |-> some]
      BY <1>1, <1>2, <1>4, <1>6, LoadIs DEF some
    <2>2. QED
      BY <2>1
  <1>8. /\ DOMAIN PeerList(g) = {g.peers[j].key : j \in 1..l}
        /\ \A j \in 1..l : PeerList(g)[g.peers[j].key] = ValidatePeer(g.peers[j])
    BY <1>1, <1>7, ListHas
  <1>9. /\ DOMAIN PeerList(f) = {f.peers[i].key : i \in 1..n}
        /\ \A i \in 1..n : PeerList(f)[f.peers[i].key] = entry(i)
    BY <1>1, ListHas DEF entry
  <1>10. \A j \in 1..l : g.peers[j] = f.peers[m[j]]
    BY <1>1
  <1>11. DOMAIN PeerList(g) = {f.peers[m[j]].key : j \in DOMAIN g.peers}
    <2>1. \A j \in 1..l : g.peers[j].key = f.peers[m[j]].key
      BY <1>10
    <2>2. {g.peers[j].key : j \in 1..l} = {f.peers[m[j]].key : j \in 1..l}
      BY <2>1, SMTT(60)
    <2>3. QED
      BY <1>1, <1>8, <2>2
  <1>12. ASSUME NEW k \in DOMAIN PeerList(g)
         PROVE  k \in DOMAIN PeerList(f) /\ PeerList(g)[k] = PeerList(f)[k]
    <2>1. PICK j \in 1..l : k = g.peers[j].key
      BY <1>8
    <2>2. k = f.peers[m[j]].key /\ m[j] \in 1..n
      BY <1>3, <1>10, <2>1
    <2>3. PeerList(g)[k] = entry(m[j])
      BY <1>3, <1>8, <2>1
    <2>4. QED
      BY <1>9, <2>2, <2>3
  <1>13. QED
    BY <1>7, <1>11, <1>12 DEF LoadedAs

\* Deleting an entry is never refused and revokes that key alone
\* (LoadPeersConfig, diffPeers), for files of any length.
THEOREM DeletionAlwaysRevokes == DeletionRevokes
  <1> SUFFICES ASSUME NEW f \in PeersFiles, LoadPeersConfig(f).ok, NEW i \in DOMAIN f.peers
               PROVE  LET g == [f EXCEPT !.peers = RemoveAt(f.peers, i)] IN
                      /\ LoadPeersConfig(g).ok
                      /\ Removed(PeerList(f), PeerList(g)) = {f.peers[i].key}
                      /\ Added(PeerList(f), PeerList(g)) = {}
                      /\ Changed(PeerList(f), PeerList(g)) = {}
    BY DEF DeletionRevokes
  <1> DEFINE E == Range(f.peers)
             s == f.peers
             n == Len(s)
             q == RemoveAt(s, i)
             g == [f EXCEPT !.peers = q]
             m == [j \in 1..(n - 1) |-> IF j < i THEN j ELSE j + 1]
  <1>1. s \in Seq(E) /\ f = [doc |-> f.doc, peers |-> s]
    BY PeersFilesAssumption
  <1>2. g.peers = q /\ g.doc = f.doc
    BY <1>1
  <1> HIDE DEF E, g
  <1>3. n \in Nat /\ DOMAIN s = 1..n /\ i \in 1..n
    BY <1>1
  <1>4. q \in Seq(E) /\ Len(q) = n - 1 /\ \A j \in 1..(n - 1) : q[j] = s[IF j < i THEN j ELSE j + 1]
    BY <1>1, RemovalIs
  <1>5. DOMAIN q = 1..(n - 1)
    BY <1>3, <1>4
  <1> HIDE DEF q, n, s
  <1>6. \A j \in 1..(n - 1) : m[j] \in 1..n /\ m[j] # i /\ q[j] = s[m[j]]
    BY <1>3, <1>4
  <1>7. ASSUME NEW j \in 1..(n - 1), NEW k \in 1..(n - 1), m[j] = m[k] PROVE j = k
    BY <1>3, <1>7
  <1>8. ASSUME NEW k \in 1..n, k # i PROVE \E j \in 1..(n - 1) : m[j] = k
    <2>1. CASE k < i
      <3>1. k \in 1..(n - 1) /\ m[k] = k
        BY <1>3, <2>1
      <3>2. QED
        BY <3>1
    <2>2. CASE k > i
      <3>1. k - 1 \in 1..(n - 1) /\ ~(k - 1 < i) /\ (k - 1) + 1 = k
        BY <1>3, <2>2
      <3>2. m[k - 1] = k
        BY <3>1
      <3>3. QED
        BY <3>1, <3>2
    <2>3. k < i \/ k > i
      BY <1>3, <1>8
    <2>4. QED
      BY <2>1, <2>2, <2>3
  <1>9. m \in [1..(n - 1) -> 1..n]
    BY <1>6
  <1> HIDE DEF m
  <1>10. /\ LoadPeersConfig(g).ok
         /\ DOMAIN PeerList(g) = {s[m[j]].key : j \in 1..(n - 1)}
         /\ \A k \in DOMAIN PeerList(g) : k \in DOMAIN PeerList(f) /\ PeerList(g)[k] = PeerList(f)[k]
    <2>1. f.peers \in Seq(E) /\ g.peers \in Seq(E) /\ g.doc = f.doc
      BY <1>1, <1>2, <1>4 DEF s
    <2>2. DOMAIN g.peers = 1..(n - 1) /\ DOMAIN f.peers = 1..n
      BY <1>2, <1>3, <1>5 DEF s
    <2>3. \A j \in 1..(n - 1) : g.peers[j] = f.peers[m[j]]
      BY <1>2, <1>6 DEF s
    <2>4. Selects(m, g, f)
      BY <1>2, <1>7, <1>9, <2>2, <2>3 DEF Selects
    <2>5. LoadedAs(m, g, f)
      BY <2>1, <2>4, SelectionLoads
    <2>6. QED
      BY <2>2, <2>5 DEF s, LoadedAs
  <1>11. /\ DOMAIN PeerList(f) = {s[j].key : j \in 1..n}
         /\ \A j \in 1..n : j # i => s[j].key # s[i].key
    <2>1. f.peers \in Seq(E)
      BY <1>1 DEF s
    <2>2. QED
      BY <1>3, <2>1, ListHas DEF s
  <1>12. DOMAIN PeerList(g) = {s[j].key : j \in (1..n) \ {i}}
    <2>1. \A j \in 1..(n - 1) : m[j] \in (1..n) \ {i}
      BY <1>6
    <2>2. \A k \in (1..n) \ {i} : \E j \in 1..(n - 1) : m[j] = k
      BY <1>8
    <2>3. QED
      BY <1>10, <2>1, <2>2
  <1>13. DOMAIN PeerList(f) \ DOMAIN PeerList(g) = {s[i].key} /\ DOMAIN PeerList(g) \ DOMAIN PeerList(f) = {}
    BY <1>3, <1>11, <1>12
  <1>14. QED
    BY <1>10, <1>13 DEF Removed, Added, Changed, g, q, s

\* Which entry comes first decides nothing (LoadPeersConfig), for files of
\* any length.
THEOREM OrderDecidesNothing == OrderIrrelevant
  <1> SUFFICES ASSUME NEW f \in PeersFiles
               PROVE  LET g == [f EXCEPT !.peers = Reverse(f.peers)] IN
                      /\ LoadPeersConfig(f).ok <=> LoadPeersConfig(g).ok
                      /\ PeerList(f) = PeerList(g)
    BY DEF OrderIrrelevant
  <1> DEFINE E == Range(f.peers)
             s == f.peers
             n == Len(s)
             q == Reverse(s)
             g == [f EXCEPT !.peers = q]
             m == [j \in 1..n |-> (n - j) + 1]
  <1>1. s \in Seq(E) /\ f = [doc |-> f.doc, peers |-> s]
    BY PeersFilesAssumption
  <1>2. g.peers = q /\ g.doc = f.doc
    BY <1>1
  <1> HIDE DEF E, g
  <1>3. n \in Nat /\ DOMAIN s = 1..n
    BY <1>1
  <1>4. m \in [1..n -> 1..n] /\ \A j, k \in 1..n : m[j] = m[k] => j = k
    BY <1>3, SMTT(60)
  <1>5. \A j \in 1..n : m[j] \in 1..n /\ m[m[j]] = j
    BY <1>3
  <1>6. q = [j \in 1..n |-> s[m[j]]]
    BY DEF Reverse
  <1> HIDE DEF m, q
  <1>7. q \in Seq(E) /\ Len(q) = n /\ DOMAIN q = 1..n /\ \A j \in 1..n : q[j] = s[m[j]]
    BY <1>1, <1>3, <1>5, <1>6
  <1>8. \A j \in 1..n : s[j] = q[m[j]]
    BY <1>5, <1>7
  <1>9. /\ f.peers \in Seq(E) /\ g.peers \in Seq(E)
        /\ DOMAIN f.peers = 1..n /\ DOMAIN g.peers = 1..n
        /\ \A j \in 1..n : g.peers[j] = f.peers[m[j]] /\ f.peers[j] = g.peers[m[j]]
    BY <1>1, <1>2, <1>3, <1>7, <1>8
  <1>10. Selects(m, g, f) /\ Selects(m, f, g)
    BY <1>2, <1>4, <1>9 DEF Selects
  <1>11. ASSUME LoadPeersConfig(f).ok
         PROVE  LoadPeersConfig(g).ok /\ PeerList(f) = PeerList(g)
    <2>1. LoadedAs(m, g, f)
      BY <1>9, <1>10, <1>11, SelectionLoads
    <2>2. /\ LoadPeersConfig(g).ok
          /\ DOMAIN PeerList(g) = {s[m[j]].key : j \in 1..n}
          /\ \A k \in DOMAIN PeerList(g) : k \in DOMAIN PeerList(f) /\ PeerList(g)[k] = PeerList(f)[k]
      BY <1>9, <2>1 DEF LoadedAs
    <2>3. DOMAIN PeerList(f) = {s[j].key : j \in 1..n}
      BY <1>9, <1>11, ListHas
    <2>4. DOMAIN PeerList(f) = DOMAIN PeerList(g)
      BY <1>5, <2>2, <2>3
    <2>5. /\ PeerList(f) = [k \in DOMAIN PeerList(f) |-> PeerList(f)[k]]
          /\ PeerList(g) = [k \in DOMAIN PeerList(g) |-> PeerList(g)[k]]
      BY DEF PeerList
    <2>6. QED
      BY <2>2, <2>4, <2>5
  <1>12. ASSUME LoadPeersConfig(g).ok PROVE LoadPeersConfig(f).ok
    <2>1. LoadedAs(m, f, g)
      BY <1>9, <1>10, <1>12, SelectionLoads
    <2>2. QED
      BY <2>1 DEF LoadedAs
  <1>13. ASSUME ~LoadPeersConfig(f).ok, ~LoadPeersConfig(g).ok PROVE PeerList(f) = PeerList(g)
    <2>1. LoadPeersConfig(f).peers = <<>> /\ LoadPeersConfig(g).peers = <<>>
      BY <1>9, <1>13, LoadsOrNot
    <2>2. QED
      BY <2>1 DEF PeerList
  <1>14. LoadPeersConfig(f).ok \in BOOLEAN /\ LoadPeersConfig(g).ok \in BOOLEAN
    BY <1>9, LoadsOrNot
  <1>15. QED
    BY <1>11, <1>12, <1>13, <1>14 DEF g, q
=============================================================================
