------------------------- MODULE TunnelServerProofs -------------------------
(***************************************************************************)
(* Theorems about TunnelServer, for every set of keys, addresses,          *)
(* connections and peer lists and every bound.                             *)
(***************************************************************************)
EXTENDS TunnelServer, FiniteSetTheorems, TLAPS

\* What KeyAt returns on a validated list: the one entry at the address.
LEMMA KeyAtEntry ==
    ASSUME NEW cfg, IsPeersConfig(cfg), NEW ip
    PROVE  /\ KeyAt(cfg, ip) \in Keys \cup {NoKey}
           /\ KeyAt(cfg, ip) # NoKey =>
                 KeyAt(cfg, ip) \in DOMAIN cfg /\ cfg[KeyAt(cfg, ip)].ip = ip
           /\ \A k \in DOMAIN cfg : cfg[k].ip = ip => KeyAt(cfg, ip) = k
<1>1. CASE \E k \in DOMAIN cfg : cfg[k].ip = ip
  <2>1. KeyAt(cfg, ip) \in DOMAIN cfg /\ cfg[KeyAt(cfg, ip)].ip = ip
    BY <1>1 DEF KeyAt
  <2>2. QED
    BY <2>1, NoKeyAssumption DEF IsPeersConfig
<1>2. CASE ~ \E k \in DOMAIN cfg : cfg[k].ip = ip
  BY <1>2 DEF KeyAt
<1>3. QED
  BY <1>1, <1>2

\* Resolve grants on behalf of the entry at the address, or not at all.
LEMMA ResolveEntry ==
    ASSUME NEW cfg, IsPeersConfig(cfg), NEW ip, NEW s
    PROVE  Resolve(cfg, ip, s) \in {NoKey, KeyAt(cfg, ip)}
BY DEF Resolve

\* The fields of a validated entry.
LEMMA EntryFields ==
    ASSUME NEW cfg, IsPeersConfig(cfg), NEW k \in DOMAIN cfg
    PROVE  /\ k \in Keys
           /\ cfg[k].ip \in IPs
           /\ cfg[k].psk \in Refs
           /\ cfg[k].maxConcurrent \in Nat
BY DEF IsPeersConfig, Entry

LEMMA LimiterNames ==
    /\ NoLimiter \notin Limiters
    /\ PublicKey(NoLimiter) = NoKey /\ NoLimiter[2] = 0
    /\ \A l \in Limiters : PublicKey(l) \in Keys /\ l[2] \in 1..MaxGen
    /\ \A k \in Keys, g \in 1..MaxGen :
          /\ <<k, g>> \in Limiters
          /\ PublicKey(<<k, g>>) = k /\ <<k, g>>[2] = g
BY NoKeyAssumption, BoundsAssumption DEF Limiters, NoLimiter, PublicKey

-----------------------------------------------------------------------------
(* Type correctness.  The entries of a pending diff are entries of the     *)
(* list in force, and a pending refreshPeers is within the bound: both are *)
(* needed for the values the reload steps write.                           *)

TypeInv ==
    /\ TypeOK
    /\ toAdd \subseteq DOMAIN cur /\ toChange \subseteq DOMAIN cur
    /\ stage = "refresh" => gen < MaxGen

LEMMA InitType == Init => TypeInv
<1> SUFFICES ASSUME Init PROVE TypeInv
  OBVIOUS
<1>1. cur \in Configs /\ IsPeersConfig(cur)
  BY ConfigsAssumption DEF Init
<1>2. \A ip \in IPs : KeyAt(cur, ip) \in Keys \cup {NoKey}
  BY <1>1, KeyAtEntry
<1>3. limiters \in [IPs -> Limiters \cup {NoLimiter}]
  BY <1>2, LimiterNames, BoundsAssumption DEF Init
<1>4. maxConc \in [Limiters -> Nat]
  BY <1>1, EntryFields DEF Init
<1>5. psk \in [Keys -> Refs \cup {NoRef}]
  BY <1>1, EntryFields DEF Init
<1>6. pskCache \in [Refs -> {"none", "key", "noKey"}]
  BY DEF Init
<1>7. AnyIP \in IPs
  BY IPsAssumption DEF AnyIP
<1>8. QED
  BY <1>1, <1>2, <1>3, <1>4, <1>5, <1>6, <1>7, BoundsAssumption
  DEF Init, TypeInv, TypeOK, DiffApplied, Holding

\* The limiter map refreshPeers builds has, at every address, a limiter of
\* the key that holds it, with a generation already used or the next one.
LEMMA RefreshedEntry ==
    ASSUME TypeInv, stage = "refresh", NEW ip \in IPs
    PROVE  /\ RefreshedLimiters[ip] \in Limiters \cup {NoLimiter}
           /\ PublicKey(RefreshedLimiters[ip]) = KeyAt(cur, ip)
           /\ \/ RefreshedLimiters[ip] = limiters[ip]
              \/ RefreshedLimiters[ip] = NoLimiter
              \/ RefreshedLimiters[ip] = <<KeyAt(cur, ip), gen + 1>> /\ KeyAt(cur, ip) \in Keys
<1>1. IsPeersConfig(cur)
  BY ConfigsAssumption DEF TypeInv, TypeOK
<1>2. KeyAt(cur, ip) \in Keys \cup {NoKey}
  BY <1>1, KeyAtEntry
<1>3. gen + 1 \in 1..MaxGen
  BY BoundsAssumption DEF TypeInv, TypeOK
<1>4. limiters[ip] \in Limiters \cup {NoLimiter}
  BY DEF TypeInv, TypeOK
<1>5. QED
  BY <1>2, <1>3, <1>4, LimiterNames DEF RefreshedLimiters

LEMMA ReloadStepType == ASSUME TypeInv, ReloadStep PROVE TypeInv'
<1>1. IsPeersConfig(cur)
  BY ConfigsAssumption DEF TypeInv, TypeOK
<1>2. CASE RefreshPeers
  <2>1. gen' \in 1..MaxGen /\ stage' = "apply"
    BY <1>2, BoundsAssumption DEF RefreshPeers, TypeInv, TypeOK
  <2>2. limiters' \in [IPs -> Limiters \cup {NoLimiter}]
    <3>1. limiters' = [ip \in IPs |-> RefreshedLimiters[ip]]
      BY <1>2 DEF RefreshPeers, RefreshedLimiters
    <3>2. QED
      BY <3>1, <1>2, RefreshedEntry DEF RefreshPeers
  <2>3. gone' \subseteq Limiters
    BY <1>2 DEF RefreshPeers, TypeInv, TypeOK
  <2>4. maxConc' \in [Limiters -> Nat]
    <3>1. ASSUME NEW l \in Limiters, NEW ip \in IPs, limiters'[ip] = l
          PROVE  cur[PublicKey(l)].maxConcurrent \in Nat
      <4>1. PublicKey(l) = KeyAt(cur, ip)
        BY <3>1, <1>2, RefreshedEntry DEF RefreshPeers
      <4>2. PublicKey(l) # NoKey
        BY LimiterNames, NoKeyAssumption
      <4>3. QED
        BY <4>1, <4>2, <1>1, KeyAtEntry, EntryFields
    <3>2. \A l \in Limiters : maxConc[l] \in Nat
      BY DEF TypeInv, TypeOK
    <3>3. QED
      BY <3>1, <3>2, <1>2 DEF RefreshPeers
  <2>5. QED
    BY <2>1, <2>2, <2>3, <2>4, <1>2
    DEF RefreshPeers, TypeInv, TypeOK, diffVars, connVars, deviceVars
<1>3. ASSUME NEW l \in Limiters, DrainLive(l) PROVE TypeInv'
  BY <1>3 DEF DrainLive, TypeInv, TypeOK, reloadVars, diffVars, connVars, deviceVars
<1>4. ASSUME NEW c \in Conns, CloseLive(c) PROVE TypeInv'
  BY <1>4 DEF CloseLive, TypeInv, TypeOK, reloadVars, diffVars, limiterVars, deviceVars
<1>5. ASSUME NEW k \in Keys, RevokePeer(k) PROVE TypeInv'
  BY <1>5 DEF RevokePeer, TypeInv, TypeOK, limiterVars, connVars
<1>6. ASSUME NEW k \in DOMAIN cur, NEW u \in BOOLEAN, ApplyPeer(k, u)
      PROVE  /\ psk' \in [Keys -> Refs \cup {NoRef}]
             /\ route' \in [IPs -> Keys \cup {NoKey}]
             /\ pskCache' \in [Refs -> {"none", "key", "noKey"}]
             /\ failed' \subseteq Faults
  <2>1. k \in Keys /\ cur[k].psk \in Refs
    BY <1>1, EntryFields
  <2>2. QED
    BY <1>6, <2>1 DEF ApplyPeer, Rerouted, TypeInv, TypeOK
<1>7. ASSUME NEW k \in Keys, AddPeer(k) PROVE TypeInv'
  <2>1. k \in DOMAIN cur /\ ApplyPeer(k, FALSE)
    BY <1>7 DEF AddPeer, TypeInv
  <2>2. QED
    BY <1>7, <2>1, <1>6 DEF AddPeer, TypeInv, TypeOK, limiterVars, connVars
<1>8. ASSUME NEW k \in Keys, UpdatePeer(k) PROVE TypeInv'
  <2>1. k \in DOMAIN cur /\ ApplyPeer(k, TRUE)
    BY <1>8 DEF UpdatePeer, TypeInv
  <2>2. QED
    BY <1>8, <2>1, <1>6 DEF UpdatePeer, TypeInv, TypeOK, limiterVars, connVars
<1>9. CASE FinishReload
  BY <1>9 DEF FinishReload, diffVars, TypeInv, TypeOK, limiterVars, connVars
<1>10. QED
  BY <1>2, <1>3, <1>4, <1>5, <1>7, <1>8, <1>9 DEF ReloadStep

\* A count changed at one limiter, to a natural number, is still a count.
LEMMA Slots ==
    ASSUME NEW f \in [Limiters -> Nat], NEW l
    PROVE  /\ [f EXCEPT ![l] = @ + 1] \in [Limiters -> Nat]
           /\ [f EXCEPT ![l] = IF @ > 0 THEN @ - 1 ELSE @] \in [Limiters -> Nat]
<1>1. CASE l \in Limiters
  BY <1>1
<1>2. CASE l \notin Limiters
  <2>1. /\ [f EXCEPT ![l] = @ + 1] = f
        /\ [f EXCEPT ![l] = IF @ > 0 THEN @ - 1 ELSE @] = f
    BY <1>2
  <2>2. QED
    BY <2>1
<1>3. QED
  BY <1>1, <1>2

LEMMA HandlerType ==
    ASSUME TypeInv, NEW c \in Conns, HandlerStep(c) \/ PipeEnds(c)
    PROVE  TypeInv'
<1>1. AnyIP \in IPs
  BY IPsAssumption DEF AnyIP
<1>2. IsPeersConfig(cur)
  BY ConfigsAssumption DEF TypeInv, TypeOK
<1>0. ASSUME Return(c)
      PROVE  /\ pc' \in [Conns -> {"free", "lookup", "acquire"} \cup Holding]
             /\ peerIP' \in [Conns -> IPs]
             /\ lim' \in [Conns -> Limiters \cup {NoLimiter}]
             /\ open' \in [Conns -> BOOLEAN]
             /\ origin' \in [Conns -> Keys \cup {NoKey}]
             /\ grantor' \in [Conns -> Keys \cup {NoKey}]
             /\ closing' \subseteq Conns
  BY <1>0, <1>1 DEF Return, TypeInv, TypeOK
<1> USE DEF TypeInv, TypeOK, reloadVars, diffVars, limiterVars, deviceVars
<1>3. CASE LimiterFor(c)
  <2>1. CASE Return(c)
    BY <1>3, <1>0, <2>1 DEF LimiterFor
  <2>2. CASE limiters[peerIP[c]] # NoLimiter /\ ~Return(c)
    BY <1>3, <2>2 DEF LimiterFor
  <2>3. QED
    BY <1>3, <2>1, <2>2 DEF LimiterFor
<1>4. CASE Acquire(c)
  <2>1. CASE Return(c) /\ UNCHANGED active
    BY <1>4, <1>0, <2>1 DEF Acquire
  <2>2. CASE Goto(c, "hello") /\ active' = [active EXCEPT ![lim[c]] = @ + 1]
    <3>1. active' \in [Limiters -> Nat]
      BY <2>2, Slots
    <3>2. QED
      BY <1>4, <2>2, <3>1 DEF Acquire, Goto, Holding
  <2>3. QED
    BY <1>4, <2>1, <2>2 DEF Acquire
<1> USE DEF Goto, Holding
<1>5. ASSUME NEW s \in Services, Hello(c, s) PROVE TypeInv'
  <2>1. Resolve(cur, peerIP[c], s) \in Keys \cup {NoKey}
    BY <1>2, ResolveEntry, KeyAtEntry
  <2>2. QED
    BY <1>5, <2>1 DEF Hello
<1>6. CASE HelloFails(c)
  BY <1>6 DEF HelloFails
<1>7. CASE DialBackend(c)
  BY <1>7 DEF DialBackend
<1>8. CASE Recheck(c)
  BY <1>8 DEF Recheck
<1>9. CASE Respond(c)
  BY <1>9 DEF Respond
<1>10. CASE PipeEnds(c)
  BY <1>10 DEF PipeEnds
<1>11. CASE Untrack(c)
  BY <1>11 DEF Untrack
<1>12. CASE Release(c)
  <2>1. active' \in [Limiters -> Nat]
    BY <1>12, Slots DEF Release
  <2>2. QED
    BY <1>12, <1>0, <2>1 DEF Release
<1>13. QED
  BY <1>3, <1>4, <1>5, <1>6, <1>7, <1>8, <1>9, <1>10, <1>11, <1>12 DEF HandlerStep

LEMMA NextType == TypeInv /\ [Next]_vars => TypeInv'
<1> SUFFICES ASSUME TypeInv, [Next]_vars PROVE TypeInv'
  OBVIOUS
<1>1. ASSUME NEW cfg \in Configs, Reload(cfg) PROVE TypeInv'
  <2>1. IsPeersConfig(cfg) /\ IsPeersConfig(cur)
    BY ConfigsAssumption DEF TypeInv, TypeOK
  <2>2. QED
    BY <1>1, <2>1 DEF Reload, TypeInv, TypeOK, limiterVars, connVars, deviceVars,
                      Removed, Added, Changed, IsPeersConfig
<1>2. ASSUME NEW c \in Conns, NEW ip \in IPs, Accept(c, ip) PROVE TypeInv'
  BY <1>2 DEF Accept, TypeInv, TypeOK, reloadVars, diffVars, limiterVars, deviceVars
<1>3. CASE UNCHANGED vars
  BY <1>3 DEF vars, TypeInv, TypeOK, reloadVars, diffVars, limiterVars, connVars, deviceVars
<1>4. QED
  BY <1>1, <1>2, <1>3, ReloadStepType, HandlerType DEF Next

\* Every variable of the serving path and of the reload keeps its type.
THEOREM TypeCorrect == Spec => []TypeOK
<1>1. TypeInv => TypeOK
  BY DEF TypeInv
<1>2. QED
  BY <1>1, InitType, NextType, PTL DEF Spec

-----------------------------------------------------------------------------
(* Revocation: what survives the reap is authorized.                       *)

LEMMA InitRevocation == Init => RevocationInv
<1> SUFFICES ASSUME Init PROVE RevocationInv
  OBVIOUS
<1>1. IsPeersConfig(cur) /\ TypeInv
  BY ConfigsAssumption, InitType DEF Init
<1>2. \A ip \in IPs : /\ PublicKey(limiters[ip]) = KeyAt(cur, ip)
                      /\ limiters[ip][2] <= 1
                      /\ limiters[ip] # NoLimiter => limiters[ip] = <<KeyAt(cur, ip), 1>>
  BY <1>1, KeyAtEntry, LimiterNames, BoundsAssumption DEF Init, NoLimiter
<1>3. ASSUME NEW i \in IPs, NEW j \in IPs, limiters[i] = limiters[j], limiters[i] # NoLimiter
      PROVE  i = j
  <2>1. KeyAt(cur, i) = KeyAt(cur, j) /\ KeyAt(cur, i) # NoKey
    BY <1>2, <1>3, LimiterNames, NoKeyAssumption DEF TypeInv, TypeOK, Init
  <2>2. QED
    BY <2>1, <1>1, KeyAtEntry
<1>4. LimiterMap
  BY <1>2, <1>3, LimiterNames DEF LimiterMap, Init
<1>5. QED
  BY <1>4 DEF RevocationInv, Registered, ServedOrReaped, GrantOrRetired, Init, Serving

\* refreshPeers is the step on which the argument turns.
LEMMA RefreshRevocation ==
    ASSUME TypeInv, RevocationInv, RefreshPeers
    PROVE  RevocationInv'
<1>1. /\ IsPeersConfig(cur) /\ gen \in Nat /\ gen' = gen + 1
      /\ stage = "refresh" /\ stage' = "apply" /\ gone = {} /\ closing' = {} /\ cur' = cur
      /\ UNCHANGED <<pc, peerIP, lim, open, grantor, live>>
  BY ConfigsAssumption
  DEF TypeInv, TypeOK, RefreshPeers, RevocationInv, LimiterMap, connVars
<1>2. \A ip \in IPs :
         /\ limiters'[ip] \in Limiters \cup {NoLimiter}
         /\ PublicKey(limiters'[ip]) = KeyAt(cur, ip)
         /\ \/ limiters'[ip] = limiters[ip]
            \/ limiters'[ip] = NoLimiter
            \/ limiters'[ip] = <<KeyAt(cur, ip), gen + 1>> /\ KeyAt(cur, ip) \in Keys
  BY RefreshedEntry, <1>1 DEF RefreshPeers
<1>3. \A l : l \in gone' <=> InForce(l) /\ ~InForce(l)' /\ l # NoLimiter
  BY DEF RefreshPeers, InForce
<1>4. \A ip \in IPs : limiters[ip][2] <= gen /\ limiters[ip] \in Limiters \cup {NoLimiter}
  BY DEF RevocationInv, LimiterMap, TypeInv, TypeOK
<1>5. \A ip \in IPs : limiters'[ip] # limiters[ip] /\ limiters'[ip] # NoLimiter
                        => limiters'[ip][2] = gen + 1 /\ limiters'[ip] \in Limiters
  BY <1>2, <1>4
<1>6. ASSUME NEW i \in IPs, NEW j \in IPs, limiters'[i] = limiters'[j], limiters'[i] # NoLimiter
      PROVE  i = j
  <2>1. KeyAt(cur, i) = KeyAt(cur, j)
    BY <1>2, <1>6
  <2>2. KeyAt(cur, i) # NoKey
    BY <1>2, <1>6, LimiterNames, NoKeyAssumption
  <2>3. QED
    BY <2>1, <2>2, <1>1, KeyAtEntry
<1>7. \A c \in Conns : lim[c][2] \in Nat /\ lim[c][2] <= gen
  BY LimiterNames DEF RevocationInv, LimiterMap, TypeInv, TypeOK, NoLimiter
<1>8. \A c \in Conns, ip \in IPs :
         limiters'[ip] = lim[c] /\ lim[c] # NoLimiter => limiters[ip] = lim[c]
  BY <1>5, <1>7, <1>1
<1>9. LimiterMap'
  <2>1. \A ip \in IPs : limiters'[ip][2] <= gen'
    BY <1>1, <1>2, <1>4, <1>5, LimiterNames DEF NoLimiter
  <2>2. \A c \in Conns : lim[c][2] <= gen'
    BY <1>1, <1>7
  <2>3. \A c \in Conns : pc[c] \notin {"free", "lookup"} => lim[c] \in Limiters
    BY DEF RevocationInv, LimiterMap
  <2>4. QED
    BY <1>1, <1>2, <1>3, <1>6, <2>1, <2>2, <2>3 DEF LimiterMap
<1>10. Registered'
  <2> SUFFICES ASSUME NEW c \in Conns, pc[c] \in {"recheck"} \cup Serving,
                      InForce(lim[c])' \/ lim[c] \in gone'
               PROVE  c \in live[lim[c]]
    BY <1>1 DEF Registered, InForce
  <2>1. lim[c] \in Limiters /\ lim[c] # NoLimiter
    BY LimiterNames DEF RevocationInv, LimiterMap, Serving
  <2>2. InForce(lim[c])
    BY <1>3, <1>8, <2>1, <1>1 DEF InForce
  <2>3. QED
    BY <2>2 DEF RevocationInv, Registered
<1>11. ServedOrReaped'
  <2> SUFFICES ASSUME NEW c \in Conns, pc[c] \in Serving, open[c],
                      limiters'[peerIP[c]] # lim[c]
               PROVE  lim[c] \in gone'
    BY <1>1 DEF ServedOrReaped
  <2>1. lim[c] \in Limiters /\ lim[c] # NoLimiter /\ peerIP[c] \in IPs
    BY LimiterNames DEF RevocationInv, LimiterMap, Serving, TypeInv, TypeOK
  <2>2. limiters[peerIP[c]] = lim[c]
    BY <1>1 DEF RevocationInv, ServedOrReaped, LimiterMap
  <2>3. \A ip \in IPs : limiters'[ip] # lim[c]
    BY <2>1, <2>2, <1>8 DEF RevocationInv, LimiterMap
  <2>4. QED
    BY <2>1, <2>2, <2>3, <1>1, <1>3 DEF InForce
<1>12. GrantOrRetired'
  <2> SUFFICES ASSUME NEW c \in Conns, pc[c] \in {"dial", "recheck"} \cup Serving,
                      limiters'[peerIP[c]] = lim[c]
               PROVE  grantor[c] = PublicKey(lim[c])
    BY <1>1 DEF GrantOrRetired
  <2>1. lim[c] # NoLimiter /\ peerIP[c] \in IPs
    BY LimiterNames DEF RevocationInv, LimiterMap, Serving, TypeInv, TypeOK
  <2>2. limiters[peerIP[c]] = lim[c]
    BY <2>1, <1>8
  <2>3. KeyAt(cur, peerIP[c]) = PublicKey(lim[c])
    BY <1>2, <2>1
  <2>4. QED
    BY <2>2, <2>3 DEF RevocationInv, GrantOrRetired
<1>13. QED
  BY <1>9, <1>10, <1>11, <1>12 DEF RevocationInv

\* The other steps of the reload.
LEMMA ReloadStepRevocation ==
    ASSUME TypeInv, RevocationInv, ReloadStep
    PROVE  RevocationInv'
<1> USE DEF RevocationInv, LimiterMap, Registered, ServedOrReaped, GrantOrRetired,
            InForce, reloadVars, diffVars, connVars
<1>1. CASE RefreshPeers
  BY <1>1, RefreshRevocation
<1>2. ASSUME NEW l \in Limiters, DrainLive(l) PROVE RevocationInv'
  <2>1. /\ stage = "apply" /\ l \in gone /\ gone' = gone \ {l} /\ closing = {}
        /\ closing' = live[l] /\ live' = [live EXCEPT ![l] = {}]
        /\ UNCHANGED <<cur, stage, gen, limiters, pc, peerIP, lim, open, grantor>>
    BY <1>2 DEF DrainLive
  <2>2. LimiterMap'
    BY <2>1
  <2>3. Registered'
    <3> SUFFICES ASSUME NEW c \in Conns, pc[c] \in {"recheck"} \cup Serving,
                        InForce(lim[c]) \/ lim[c] \in gone \ {l}
                 PROVE  c \in live'[lim[c]]
      BY <2>1
    <3>1. lim[c] # l /\ lim[c] \in Limiters
      BY <2>1 DEF Serving
    <3>2. QED
      BY <2>1, <3>1 DEF TypeInv, TypeOK
  <2>4. ServedOrReaped'
    BY <2>1
  <2>5. GrantOrRetired'
    BY <2>1
  <2>6. QED
    BY <2>2, <2>3, <2>4, <2>5
<1>3. ASSUME NEW c \in Conns, CloseLive(c) PROVE RevocationInv'
  BY <1>3 DEF CloseLive, limiterVars, TypeInv, TypeOK
<1>4. ASSUME NEW k \in Keys, RevokePeer(k) \/ AddPeer(k) \/ UpdatePeer(k)
      PROVE  RevocationInv'
  BY <1>4 DEF RevokePeer, AddPeer, UpdatePeer, limiterVars
<1>5. CASE FinishReload
  BY <1>5 DEF FinishReload, Applying, limiterVars
<1>6. QED
  BY <1>1, <1>2, <1>3, <1>4, <1>5 DEF ReloadStep

\* A handler's step leaves the limiter map alone and moves one connection.
LEMMA HandlerRevocation ==
    ASSUME TypeInv, RevocationInv, NEW c \in Conns, HandlerStep(c) \/ PipeEnds(c)
    PROVE  RevocationInv'
<1> USE DEF RevocationInv, LimiterMap, Registered, ServedOrReaped, GrantOrRetired,
            InForce, reloadVars, diffVars, limiterVars, TypeInv, TypeOK, Serving
<1>1. ASSUME Return(c), UNCHANGED <<reloadVars, limiters, gone, live>>
      PROVE  RevocationInv'
  BY <1>1, LimiterNames DEF Return
<1>2. CASE LimiterFor(c)
  <2>1. CASE Return(c)
    BY <1>1, <1>2, <2>1 DEF LimiterFor
  <2>2. CASE ~Return(c)
    <3>1. /\ pc[c] = "lookup" /\ pc' = [pc EXCEPT ![c] = "acquire"]
          /\ lim' = [lim EXCEPT ![c] = limiters[peerIP[c]]]
          /\ limiters[peerIP[c]] \in Limiters /\ limiters[peerIP[c]][2] <= gen
          /\ UNCHANGED <<cur, stage, gen, limiters, gone, closing, live, peerIP, open, grantor>>
      BY <1>2, <2>2 DEF LimiterFor
    <3>2. LimiterMap'
      BY <3>1
    <3>3. Registered' /\ ServedOrReaped' /\ GrantOrRetired'
      BY <3>1
    <3>4. QED
      BY <3>2, <3>3
  <2>3. QED
    BY <2>1, <2>2
<1>3. CASE Acquire(c)
  <2>1. CASE Return(c)
    BY <1>1, <1>3, <2>1 DEF Acquire
  <2>2. CASE Goto(c, "hello")
    BY <1>3, <2>2 DEF Acquire, Goto
  <2>3. QED
    BY <1>3, <2>1, <2>2 DEF Acquire
<1>4. ASSUME NEW s \in Services, Hello(c, s) PROVE RevocationInv'
  <2>1. IsPeersConfig(cur)
    BY ConfigsAssumption
  <2>2. CASE Goto(c, "release")
    BY <1>4, <2>2 DEF Hello, Goto
  <2>3. CASE ~Goto(c, "release")
    <3>1. Resolve(cur, peerIP[c], s) = KeyAt(cur, peerIP[c])
      BY <1>4, <2>3, <2>1, ResolveEntry DEF Hello
    <3>2. /\ grantor' = [grantor EXCEPT ![c] = KeyAt(cur, peerIP[c])]
          /\ pc' = [pc EXCEPT ![c] = "dial"]
          /\ UNCHANGED <<cur, stage, gen, limiters, gone, closing, live, peerIP, lim, open>>
          /\ pc[c] = "hello"
      BY <1>4, <2>3, <3>1 DEF Hello
    <3>3. GrantOrRetired'
      BY <3>2
    <3>4. LimiterMap' /\ Registered' /\ ServedOrReaped'
      BY <3>2
    <3>5. QED
      BY <3>3, <3>4
  <2>4. QED
    BY <2>2, <2>3
<1>5. CASE HelloFails(c)
  <2>1. LimiterMap' /\ Registered'
    BY <1>5 DEF HelloFails, Goto
  <2>2. ServedOrReaped'
    BY <1>5 DEF HelloFails, Goto
  <2>3. GrantOrRetired'
    BY <1>5 DEF HelloFails, Goto
  <2>4. QED
    BY <2>1, <2>2, <2>3
<1>6. CASE DialBackend(c)
  <2>1. CASE Goto(c, "release") /\ UNCHANGED live
    BY <1>6, <2>1 DEF DialBackend, Goto
  <2>2. CASE Goto(c, "recheck") /\ live' = [live EXCEPT ![lim[c]] = @ \cup {c}]
    BY <1>6, <2>2 DEF DialBackend, Goto
  <2>3. QED
    BY <1>6, <2>1, <2>2 DEF DialBackend
<1>7. CASE Recheck(c)
  <2>1. LimiterMap' /\ Registered'
    BY <1>7 DEF Recheck, Goto
  <2>2. ServedOrReaped'
    BY <1>7 DEF Recheck, Goto
  <2>3. GrantOrRetired'
    BY <1>7 DEF Recheck, Goto
  <2>4. QED
    BY <2>1, <2>2, <2>3
<1>8. CASE Respond(c)
  <2>1. /\ \E p \in {"pipe", "untrack"} : pc' = [pc EXCEPT ![c] = p]
        /\ pc[c] = "respond"
        /\ UNCHANGED <<cur, stage, gen, limiters, gone, closing, live, peerIP, lim, open, grantor>>
    BY <1>8 DEF Respond, Goto
  <2>2. LimiterMap' /\ Registered'
    <3>1. LimiterMap'
      BY <2>1
    <3>2. Registered'
      BY <2>1
    <3>3. QED
      BY <3>1, <3>2
  <2>3. ServedOrReaped'
    BY <1>8 DEF Respond, Goto
  <2>4. GrantOrRetired'
    BY <1>8 DEF Respond, Goto
  <2>5. QED
    BY <2>2, <2>3, <2>4
<1>9. CASE PipeEnds(c)
  <2>1. LimiterMap' /\ Registered'
    BY <1>9 DEF PipeEnds, Goto
  <2>2. ServedOrReaped'
    BY <1>9 DEF PipeEnds, Goto
  <2>3. GrantOrRetired'
    BY <1>9 DEF PipeEnds, Goto
  <2>4. QED
    BY <2>1, <2>2, <2>3
<1>10. CASE Untrack(c)
  BY <1>10 DEF Untrack, Goto
<1>11. CASE Release(c)
  BY <1>11, <1>1 DEF Release
<1>12. QED
  BY <1>2, <1>3, <1>4, <1>5, <1>6, <1>7, <1>8, <1>9, <1>10, <1>11 DEF HandlerStep

LEMMA NextRevocation == TypeInv /\ RevocationInv /\ [Next]_vars => RevocationInv'
<1> SUFFICES ASSUME TypeInv, RevocationInv, [Next]_vars PROVE RevocationInv'
  OBVIOUS
<1> USE DEF RevocationInv, LimiterMap, Registered, ServedOrReaped, GrantOrRetired, InForce,
            reloadVars, diffVars, limiterVars, connVars
<1>1. ASSUME NEW cfg \in Configs, Reload(cfg) PROVE RevocationInv'
  BY <1>1 DEF Reload
<1>2. ASSUME NEW c \in Conns, NEW ip \in IPs, Accept(c, ip) PROVE RevocationInv'
  BY <1>2 DEF Accept, TypeInv, TypeOK, Serving
<1>3. CASE UNCHANGED vars
  BY <1>3 DEF vars
<1>4. QED
  BY <1>1, <1>2, <1>3, ReloadStepRevocation, HandlerRevocation DEF Next

LEMMA RevocationInvariant == Spec => [](TypeInv /\ RevocationInv)
BY InitType, NextType, InitRevocation, NextRevocation, PTL DEF Spec

\* Once refreshPeers has returned, every connection that can still carry
\* bytes is served under the limiter in force at its address, whose key
\* holds that address in the peer list (handleConn, refreshPeers).
THEOREM ServedConnectionsAuthorized == Spec => []ServedIsAuthorized
<1>1. TypeInv /\ RevocationInv => ServedIsAuthorized
  BY DEF TypeInv, TypeOK, RevocationInv, LimiterMap, ServedOrReaped, ServedIsAuthorized,
         Reaped, Applying
<1>2. QED
  BY <1>1, RevocationInvariant, PTL

\* No connection admitted under one peer's limiter is left proxying on
\* another peer's grant (limiterFor, policy().Resolve, the re-check).
THEOREM GrantsMatchLimiters == Spec => []GrantMatchesLimiter
<1>1. TypeInv /\ RevocationInv => GrantMatchesLimiter
  BY DEF TypeInv, TypeOK, RevocationInv, LimiterMap, ServedOrReaped, GrantOrRetired,
         GrantMatchesLimiter, Reaped, Applying, Serving
<1>2. QED
  BY <1>1, RevocationInvariant, PTL

-----------------------------------------------------------------------------
(* The server implements the safety part of Revocation.                    *)

\* A step that leaves the limiter map alone and stops serving c, or leaves
\* it unserved, is a step of the abstract specification.
LEMMA EndsOrStutters ==
    ASSUME NEW c \in Conns, limiters' = limiters,
           ServedUnder' = [ServedUnder EXCEPT ![c] = NoLimiter]
    PROVE  [Rev!Next]_(Rev!vars)
<1>1. LimitersInForce' = LimitersInForce
  BY DEF LimitersInForce
<1>2. ServedUnder = [d \in Conns |-> ServedUnder[d]]
  BY DEF ServedUnder
<1>3. CASE ServedUnder[c] = NoLimiter
  <2>1. ServedUnder' = ServedUnder
    BY <1>2, <1>3
  <2>2. QED
    BY <1>1, <2>1 DEF Rev!vars
<1>4. CASE ServedUnder[c] # NoLimiter
  <2>1. Rev!End(c)
    BY <1>1, <1>4 DEF Rev!End
  <2>2. QED
    BY <2>1 DEF Rev!Next
<1>5. QED
  BY <1>3, <1>4

\* One connection moves, and is not served afterwards.
LEMMA Unserved ==
    ASSUME TypeInv, NEW c \in Conns,
           \A d \in Conns \ {c} : pc'[d] = pc[d] /\ open'[d] = open[d] /\ lim'[d] = lim[d],
           pc'[c] \notin Serving \/ ~open'[c]
    PROVE  ServedUnder' = [ServedUnder EXCEPT ![c] = NoLimiter]
BY DEF ServedUnder

\* Nothing changes that the abstract specification sees.
LEMMA Unseen ==
    ASSUME UNCHANGED <<limiters, pc, open, lim>>
    PROVE  [Rev!Next]_(Rev!vars)
BY DEF ServedUnder, LimitersInForce, Rev!vars

\* refreshPeers swaps the map when the last swap is reaped to the end.
LEMMA RefreshChanges ==
    ASSUME TypeInv, RevocationInv, RefreshPeers
    PROVE  [Rev!Next]_(Rev!vars)
<1>1. ServedUnder' = ServedUnder
  BY DEF RefreshPeers, connVars, ServedUnder
<1>2. LimitersInForce' \in SUBSET Limiters
  BY NextType DEF Next, ReloadStep, TypeInv, TypeOK, LimitersInForce
<1>3. \A c \in Conns : ~Rev!Revoked(c)
  <2> SUFFICES ASSUME NEW c \in Conns, pc[c] \in Serving, open[c]
               PROVE  lim[c] = NoLimiter \/ lim[c] \in LimitersInForce
    BY DEF Rev!Revoked, ServedUnder
  <2>1. gone = {} /\ closing = {}
    BY DEF RefreshPeers, RevocationInv, LimiterMap
  <2>2. limiters[peerIP[c]] = lim[c] /\ peerIP[c] \in IPs
    BY <2>1 DEF RevocationInv, ServedOrReaped, TypeInv, TypeOK
  <2>3. QED
    BY <2>2 DEF LimitersInForce
<1>4. Rev!Change
  BY <1>1, <1>2, <1>3 DEF Rev!Change
<1>5. QED
  BY <1>4 DEF Rev!Next

\* The re-check admits under the limiter in force at that moment.
LEMMA RecheckAdmits ==
    ASSUME TypeInv, RevocationInv, NEW c \in Conns, Recheck(c)
    PROVE  [Rev!Next]_(Rev!vars)
<1>1. /\ pc[c] = "recheck" /\ limiters' = limiters /\ lim' = lim /\ open' = open
      /\ pc' = [pc EXCEPT ![c] = IF limiters[peerIP[c]] = lim[c] THEN "respond" ELSE "untrack"]
  BY DEF Recheck, Goto
<1>2. lim[c] \in Limiters /\ peerIP[c] \in IPs
  BY <1>1 DEF TypeInv, TypeOK, RevocationInv, LimiterMap
<1>3. CASE limiters[peerIP[c]] = lim[c] /\ open[c]
  <2>1. ServedUnder[c] = NoLimiter
    BY <1>1 DEF ServedUnder, Serving
  <2>2. ServedUnder' = [ServedUnder EXCEPT ![c] = lim[c]]
    BY <1>1, <1>3 DEF ServedUnder, Serving, TypeInv, TypeOK
  <2>3. lim[c] \in LimitersInForce /\ LimitersInForce' = LimitersInForce
    BY <1>1, <1>2, <1>3, LimiterNames DEF LimitersInForce
  <2>4. Rev!Admit(c, lim[c])
    BY <2>1, <2>2, <2>3 DEF Rev!Admit
  <2>5. QED
    BY <1>2, <2>4 DEF Rev!Next
<1>4. CASE ~(limiters[peerIP[c]] = lim[c] /\ open[c])
  BY <1>1, <1>4, Unserved, EndsOrStutters DEF Serving, TypeInv, TypeOK
<1>5. QED
  BY <1>3, <1>4

LEMMA HandlerRefines ==
    ASSUME TypeInv, RevocationInv, NEW c \in Conns, HandlerStep(c) \/ PipeEnds(c)
    PROVE  [Rev!Next]_(Rev!vars)
<1>1. CASE Recheck(c)
  BY <1>1, RecheckAdmits
<1>2. CASE Respond(c) /\ Goto(c, "pipe")
  BY <1>2 DEF Respond, Goto, ServedUnder, Serving, LimitersInForce, Rev!vars, TypeInv, TypeOK
<1>3. CASE ~Recheck(c) /\ ~(Respond(c) /\ Goto(c, "pipe"))
  <2>1. limiters' = limiters
    BY <1>3 DEF HandlerStep, LimiterFor, Acquire, Hello, HelloFails, DialBackend, Respond,
                PipeEnds, Untrack, Release
  <2>2. \/ Return(c)
        \/ \E p \in {"hello", "release", "recheck", "untrack"} : Goto(c, p)
        \/ /\ pc' = [pc EXCEPT ![c] = "acquire"] /\ open' = open
           /\ lim' = [lim EXCEPT ![c] = limiters[peerIP[c]]]
        \/ pc' = [pc EXCEPT ![c] = "dial"] /\ open' = open /\ lim' = lim
    BY <1>3 DEF HandlerStep, LimiterFor, Acquire, Hello, HelloFails, DialBackend, Respond,
                PipeEnds, Untrack, Release
  <2>3. /\ \A d \in Conns \ {c} : pc'[d] = pc[d] /\ open'[d] = open[d] /\ lim'[d] = lim[d]
        /\ pc'[c] \notin Serving
    BY <2>2 DEF Return, Goto, Serving, TypeInv, TypeOK
  <2>4. QED
    BY <2>1, <2>3, Unserved, EndsOrStutters
<1>4. QED
  BY <1>1, <1>2, <1>3

LEMMA NextRefines ==
    TypeInv /\ RevocationInv /\ [Next]_vars => [Rev!Next]_(Rev!vars)
<1> SUFFICES ASSUME TypeInv, RevocationInv, [Next]_vars PROVE [Rev!Next]_(Rev!vars)
  OBVIOUS
<1>1. ASSUME NEW cfg \in Configs, Reload(cfg) PROVE [Rev!Next]_(Rev!vars)
  BY <1>1, Unseen DEF Reload, connVars
<1>2. ASSUME NEW c \in Conns, NEW ip \in IPs, Accept(c, ip) PROVE [Rev!Next]_(Rev!vars)
  <2>1. limiters' = limiters /\ pc'[c] \notin Serving
    BY <1>2 DEF Accept, Serving, TypeInv, TypeOK
  <2>2. \A d \in Conns \ {c} : pc'[d] = pc[d] /\ open'[d] = open[d] /\ lim'[d] = lim[d]
    BY <1>2 DEF Accept, TypeInv, TypeOK
  <2>3. QED
    BY <2>1, <2>2, Unserved, EndsOrStutters
<1>3. ASSUME NEW c \in Conns, CloseLive(c) PROVE [Rev!Next]_(Rev!vars)
  <2>1. limiters' = limiters /\ ~open'[c]
    BY <1>3 DEF CloseLive, TypeInv, TypeOK
  <2>2. \A d \in Conns \ {c} : pc'[d] = pc[d] /\ open'[d] = open[d] /\ lim'[d] = lim[d]
    BY <1>3 DEF CloseLive, TypeInv, TypeOK
  <2>3. QED
    BY <2>1, <2>2, Unserved, EndsOrStutters
<1>4. ASSUME NEW l \in Limiters, DrainLive(l) PROVE [Rev!Next]_(Rev!vars)
  BY <1>4, Unseen DEF DrainLive, connVars
<1>5. ASSUME NEW k \in Keys, RevokePeer(k) \/ AddPeer(k) \/ UpdatePeer(k)
      PROVE  [Rev!Next]_(Rev!vars)
  BY <1>5, Unseen DEF RevokePeer, AddPeer, UpdatePeer, connVars
<1>6. CASE FinishReload
  BY <1>6, Unseen DEF FinishReload, connVars
<1>7. CASE UNCHANGED vars
  BY <1>7, Unseen DEF vars, connVars
<1>8. QED
  BY <1>1, <1>2, <1>3, <1>4, <1>5, <1>6, <1>7, RefreshChanges, HandlerRefines
  DEF Next, ReloadStep

LEMMA InitRefines == Init => Rev!Init
<1> SUFFICES ASSUME Init PROVE Rev!Init
  OBVIOUS
<1>1. LimitersInForce \in SUBSET Limiters
  BY InitType DEF TypeInv, TypeOK, LimitersInForce
<1>2. ServedUnder = [c \in Conns |-> NoLimiter]
  BY DEF Init, ServedUnder, Serving
<1>3. QED
  BY <1>1, <1>2 DEF Rev!Init

\* The server implements the safety part of the abstract specification, for
\* any peers, connections, reloads and failures of device steps: admission
\* under a limiter in force, and no swap before the last one is reaped
\* (handleConn, refreshPeers, closeLive).
THEOREM RevocationImplemented == Spec => RevocationRefined
<1>1. Spec => Rev!Init
  BY InitRefines DEF Spec
<1>2. Spec => [][Rev!Next]_(Rev!vars)
  BY RevocationInvariant, NextRefines, PTL DEF Spec
<1>3. QED
  BY <1>1, <1>2 DEF RevocationRefined, Rev!SafeSpec

-----------------------------------------------------------------------------
(* The device follows the peer list.                                       *)

LEMMA InitDevice == Init => DeviceInv
<1> SUFFICES ASSUME Init PROVE DeviceInv
  OBVIOUS
<1>1. IsPeersConfig(cur) /\ Pending = {} /\ toRemove = {}
  BY ConfigsAssumption DEF Init, Pending, DiffApplied
<1>2. \A ip \in IPs : route[ip] = KeyAt(cur, ip)
  BY DEF Init
<1>3. \A ip \in IPs : route[ip] = NoKey \/ (route[ip] \in DOMAIN cur /\ cur[route[ip]].ip = ip)
  BY <1>1, <1>2, KeyAtEntry
<1>4. \A k \in DOMAIN cur : route[cur[k].ip] = k
  BY <1>1, <1>2, KeyAtEntry, EntryFields
<1>5. \A k \in Keys : psk[k] = IF k \in DOMAIN cur THEN cur[k].psk ELSE NoRef
  BY DEF Init
<1>6. QED
  BY <1>1, <1>3, <1>4, <1>5 DEF Init, DeviceInv, DiffApplied

\* A new list: what was settled under the old one is settled under the new
\* one or part of the diff.
LEMMA ReloadDevice ==
    ASSUME TypeInv, DeviceInv, NEW cfg \in Configs, Reload(cfg)
    PROVE  DeviceInv'
<1>1. /\ stage = "idle" /\ stage' = "refresh" /\ cur' = cfg
      /\ UNCHANGED <<psk, route, failed>>
      /\ toRemove' = DOMAIN cur \ DOMAIN cfg /\ toAdd' = DOMAIN cfg \ DOMAIN cur
      /\ toChange' = {k \in DOMAIN cur \cap DOMAIN cfg : cur[k] # cfg[k]}
  BY DEF Reload, Removed, Added, Changed, deviceVars
<1>2. IsPeersConfig(cur) /\ IsPeersConfig(cfg) /\ Pending = {} /\ toRemove = {}
  BY <1>1, ConfigsAssumption DEF TypeInv, TypeOK, DeviceInv, DiffApplied, Pending
<1>3. \A k \in DOMAIN cur : k \in Keys /\ cur[k].psk # NoRef
  BY <1>2, EntryFields, NoRefAssumption
<1>4. \A k : k \notin Pending' => (k \in DOMAIN cur <=> k \in DOMAIN cfg)
                                  /\ (k \in DOMAIN cfg => cfg[k] = cur[k])
  BY <1>1 DEF Pending
<1>5. ASSUME failed = {}
      PROVE  /\ \A k \in Keys \ Pending' :
                   psk[k] = IF k \in DOMAIN cfg THEN cfg[k].psk ELSE NoRef
             /\ \A k \in toChange' : psk[k] # NoRef
             /\ \A k \in DOMAIN cfg \ Pending' : route[cfg[k].ip] = k
             /\ \A ip \in IPs : \/ route[ip] \in Pending' \cup {NoKey}
                                \/ route[ip] \in DOMAIN cfg /\ cfg[route[ip]].ip = ip
  <2>1. /\ \A k \in Keys : psk[k] = IF k \in DOMAIN cur THEN cur[k].psk ELSE NoRef
        /\ \A k \in DOMAIN cur : route[cur[k].ip] = k
        /\ \A ip \in IPs : \/ route[ip] = NoKey
                           \/ route[ip] \in DOMAIN cur /\ cur[route[ip]].ip = ip
    BY <1>2, <1>5 DEF DeviceInv
  <2>2. \A k \in toChange' : psk[k] # NoRef
    BY <1>1, <1>3, <2>1
  <2>3. \A k \in Keys \ Pending' :
           psk[k] = IF k \in DOMAIN cfg THEN cfg[k].psk ELSE NoRef
    BY <1>4, <2>1
  <2>4. \A k \in DOMAIN cfg \ Pending' : route[cfg[k].ip] = k
    BY <1>4, <2>1
  <2>5. \A ip \in IPs : \/ route[ip] \in Pending' \cup {NoKey}
                        \/ route[ip] \in DOMAIN cfg /\ cfg[route[ip]].ip = ip
    BY <1>4, <2>1
  <2>6. QED
    BY <2>2, <2>3, <2>4, <2>5
<1>6. "revoke" \notin failed =>
        /\ \A k \in Keys : psk[k] # NoRef => k \in DOMAIN cfg \cup toRemove'
        /\ \A ip \in IPs : route[ip] # NoKey => route[ip] \in DOMAIN cfg \cup toRemove'
  BY <1>1, <1>2 DEF DeviceInv
<1>7. QED
  BY <1>1, <1>5, <1>6 DEF DeviceInv, Pending

\* An entry taken off the device is settled.
LEMMA RevokeDevice ==
    ASSUME TypeInv, DeviceInv, NEW k \in Keys, RevokePeer(k)
    PROVE  DeviceInv'
<1>1. /\ k \in toRemove /\ toRemove' = toRemove \ {k} /\ stage = "apply"
      /\ UNCHANGED <<cur, stage, toAdd, toChange>>
      /\ k \notin DOMAIN cur /\ toAdd \subseteq DOMAIN cur /\ toChange \subseteq DOMAIN cur
  BY DEF RevokePeer, Applying, DeviceInv, TypeInv
<1>2. Pending' = Pending \ {k}
  BY <1>1 DEF Pending
<1>3. k # NoKey
  BY NoKeyAssumption
<1>4. CASE /\ psk' = [psk EXCEPT ![k] = NoRef]
           /\ route' = [i \in IPs |-> IF route[i] = k THEN NoKey ELSE route[i]]
           /\ UNCHANGED failed
  <2>1. \A j \in DOMAIN cur : cur[j].ip \in IPs
    BY ConfigsAssumption, EntryFields DEF TypeInv, TypeOK
  <2>2. QED
    BY <1>1, <1>2, <1>3, <1>4, <2>1 DEF DeviceInv, TypeInv, TypeOK
<1>5. CASE failed' = failed \cup {"revoke"}
  BY <1>1, <1>5 DEF DeviceInv
<1>6. QED
  BY <1>4, <1>5 DEF RevokePeer

\* applyPeer settles its entry: addresses are unique in the list, so routing
\* one entry takes no address from another that is settled.
LEMMA ApplyDevice ==
    ASSUME TypeInv, DeviceInv, NEW k \in DOMAIN cur, NEW u \in BOOLEAN, ApplyPeer(k, u),
           u => k \in toChange,
           stage = "apply", toRemove = {}, UNCHANGED <<cur, stage, toRemove>>,
           toAdd' \subseteq toAdd, toChange' \subseteq toChange,
           Pending \ {k} \subseteq Pending'
    PROVE  DeviceInv'
<1>1. IsPeersConfig(cur) /\ k \in Keys /\ k # NoKey /\ cur[k].psk \in Refs
      /\ cur[k].psk # NoRef /\ cur[k].ip \in IPs
  BY ConfigsAssumption, EntryFields, NoKeyAssumption, NoRefAssumption DEF TypeInv, TypeOK
<1>2. CASE "apply" \in Faults /\ failed' = failed \cup {"apply"} /\ UNCHANGED <<psk, route>>
  BY <1>2 DEF DeviceInv
<1>3. CASE u /\ psk[k] = NoRef /\ UNCHANGED <<psk, route, failed>>
  BY <1>3 DEF DeviceInv
<1>4. CASE /\ psk' = [psk EXCEPT ![k] = cur[k].psk]
           /\ route' = Rerouted(k, cur[k].ip)
           /\ UNCHANGED failed
  <2>1. \A ip \in IPs : route'[ip] = IF ip = cur[k].ip THEN k
                                     ELSE IF route[ip] = k THEN NoKey ELSE route[ip]
    BY <1>4 DEF Rerouted
  <2>2. \A j \in DOMAIN cur : /\ cur[j].ip \in IPs
                              /\ cur[j].ip = cur[k].ip => j = k
    BY <1>1, EntryFields DEF IsPeersConfig
  <2>3. ASSUME failed = {}
        PROVE  /\ \A j \in Keys \ Pending' :
                     psk'[j] = IF j \in DOMAIN cur THEN cur[j].psk ELSE NoRef
               /\ \A j \in toChange' : psk'[j] # NoRef
    BY <1>1, <1>4, <2>3 DEF DeviceInv, TypeInv, TypeOK
  <2>4. ASSUME failed = {}, NEW j \in DOMAIN cur \ Pending'
        PROVE  route'[cur[j].ip] = j
    <3>1. CASE j = k
      BY <1>1, <2>1, <3>1
    <3>2. CASE j # k
      BY <2>1, <2>2, <2>4, <3>2 DEF DeviceInv
    <3>3. QED
      BY <3>1, <3>2
  <2>5. ASSUME failed = {}, NEW ip \in IPs
        PROVE  \/ route'[ip] \in Pending' \cup {NoKey}
               \/ route'[ip] \in DOMAIN cur /\ cur[route'[ip]].ip = ip
    BY <1>1, <2>1, <2>5 DEF DeviceInv
  <2>6. ASSUME "revoke" \notin failed
        PROVE  /\ \A j \in Keys : psk'[j] # NoRef => j \in DOMAIN cur
               /\ \A ip \in IPs : route'[ip] # NoKey => route'[ip] \in DOMAIN cur
    BY <1>1, <1>4, <2>1, <2>6 DEF DeviceInv, TypeInv, TypeOK
  <2>7. QED
    BY <1>4, <2>3, <2>4, <2>5, <2>6 DEF DeviceInv
<1>5. QED
  BY <1>2, <1>3, <1>4 DEF ApplyPeer

LEMMA NextDevice == TypeInv /\ DeviceInv /\ [Next]_vars => DeviceInv'
<1> SUFFICES ASSUME TypeInv, DeviceInv, [Next]_vars PROVE DeviceInv'
  OBVIOUS
<1>1. ASSUME NEW k \in Keys, AddPeer(k) PROVE DeviceInv'
  <2>1. k \in DOMAIN cur /\ Pending' = toRemove \cup (toAdd \ {k}) \cup toChange
    BY <1>1 DEF AddPeer, TypeInv, Pending
  <2>2. QED
    BY <1>1, <2>1, ApplyDevice DEF AddPeer, Applying, Pending
<1>2. ASSUME NEW k \in Keys, UpdatePeer(k) PROVE DeviceInv'
  <2>1. k \in DOMAIN cur /\ Pending' = toRemove \cup toAdd \cup (toChange \ {k})
    BY <1>2 DEF UpdatePeer, TypeInv, Pending
  <2>2. QED
    BY <1>2, <2>1, ApplyDevice DEF UpdatePeer, Applying, Pending
<1>3. CASE FinishReload
  BY <1>3 DEF FinishReload, DeviceInv, DiffApplied, Pending, diffVars
<1>4. CASE RefreshPeers
  BY <1>4 DEF RefreshPeers, DeviceInv, Pending, diffVars, deviceVars
<1>5. ASSUME UNCHANGED <<cur, stage, diffVars, psk, route, failed>> PROVE DeviceInv'
  BY <1>5 DEF DeviceInv, DiffApplied, Pending, diffVars
<1>6. ASSUME NEW l \in Limiters, DrainLive(l) PROVE DeviceInv'
  BY <1>5, <1>6 DEF DrainLive, reloadVars, deviceVars
<1>7. ASSUME NEW c \in Conns,
             CloseLive(c) \/ HandlerStep(c) \/ PipeEnds(c) \/ \E ip \in IPs : Accept(c, ip)
      PROVE  DeviceInv'
  BY <1>5, <1>7 DEF CloseLive, HandlerStep, LimiterFor, Acquire, Hello, HelloFails, DialBackend,
     Recheck, Respond, PipeEnds, Untrack, Release, Accept, reloadVars, deviceVars
<1>8. CASE UNCHANGED vars
  BY <1>5, <1>8 DEF vars, reloadVars, deviceVars
<1>9. QED
  BY <1>1, <1>2, <1>3, <1>4, <1>6, <1>7, <1>8, ReloadDevice, RevokeDevice DEF Next, ReloadStep

LEMMA DeviceInvariant == Spec => [](TypeInv /\ DeviceInv)
BY InitType, NextType, InitDevice, NextDevice, PTL DEF Spec

\* A device none of whose steps failed holds, when handleReload has returned,
\* exactly the keys, preshared keys and routes of the list in force: for any
\* sequence of lists and any order in which applyDiff takes the entries.
THEOREM DeviceFollowsList == Spec => []DeviceAgrees
<1>1. TypeInv /\ DeviceInv => DeviceAgrees
  <2> SUFFICES ASSUME TypeInv, DeviceInv, stage = "idle", failed = {}
               PROVE  /\ psk = [k \in Keys |-> IF k \in DOMAIN cur THEN cur[k].psk ELSE NoRef]
                      /\ route = [ip \in IPs |-> KeyAt(cur, ip)]
    BY DEF DeviceAgrees
  <2>1. IsPeersConfig(cur) /\ Pending = {}
    BY ConfigsAssumption DEF TypeInv, TypeOK, DeviceInv, DiffApplied, Pending
  <2>2. psk = [k \in Keys |-> IF k \in DOMAIN cur THEN cur[k].psk ELSE NoRef]
    BY <2>1 DEF DeviceInv, TypeInv, TypeOK
  <2>3. ASSUME NEW ip \in IPs PROVE route[ip] = KeyAt(cur, ip)
    <3>1. CASE KeyAt(cur, ip) = NoKey
      BY <2>1, <3>1, KeyAtEntry, EntryFields, NoKeyAssumption DEF DeviceInv
    <3>2. CASE KeyAt(cur, ip) # NoKey
      BY <2>1, <3>2, KeyAtEntry DEF DeviceInv
    <3>3. QED
      BY <3>1, <3>2
  <2>4. QED
    BY <2>2, <2>3 DEF TypeInv, TypeOK
<1>2. QED
  BY <1>1, DeviceInvariant, PTL

\* A removed peer is off the device when handleReload has returned, whatever
\* other entries failed to apply (applyDiff, RemovePeer).
THEOREM RevocationsTakeEffect == Spec => []RevocationEffective
<1>1. TypeInv /\ DeviceInv => RevocationEffective
  BY DEF DeviceInv, DiffApplied, RevocationEffective
<1>2. QED
  BY <1>1, DeviceInvariant, PTL

-----------------------------------------------------------------------------
(* Concurrency slots.                                                      *)

LEMMA SlotSets ==
    ASSUME NEW l
    PROVE  IsFiniteSet(SlotHolders(l)) /\ Cardinality(SlotHolders(l)) \in Nat
<1>1. SlotHolders(l) \in SUBSET Conns
  BY DEF SlotHolders
<1>2. QED
  BY <1>1, ConnsAssumption, FS_Subset, FS_CardinalityType

\* What a step may do to the slots: nothing, give one to a handler below the
\* cap, or take back the one of a handler that returns.
SlotsKept == active' = active /\ \A l \in Limiters : SlotHolders(l)' = SlotHolders(l)
SlotTaken(c) ==
    /\ active[lim[c]] < maxConc[lim[c]] /\ maxConc' = maxConc
    /\ active' = [active EXCEPT ![lim[c]] = @ + 1]
    /\ c \notin SlotHolders(lim[c])
    /\ \A l \in Limiters :
          SlotHolders(l)' = IF l = lim[c] THEN SlotHolders(l) \cup {c} ELSE SlotHolders(l)
SlotReturned(c) ==
    /\ active' = [active EXCEPT ![lim[c]] = IF @ > 0 THEN @ - 1 ELSE @]
    /\ c \in SlotHolders(lim[c])
    /\ \A l \in Limiters :
          SlotHolders(l)' = IF l = lim[c] THEN SlotHolders(l) \ {c} ELSE SlotHolders(l)

LEMMA HandlerSlots ==
    ASSUME TypeInv, RevocationInv, NEW c \in Conns, HandlerStep(c) \/ PipeEnds(c)
    PROVE  SlotsKept \/ (lim[c] \in Limiters /\ (SlotTaken(c) \/ SlotReturned(c)))
<1>1. pc[c] \notin {"free", "lookup"} => lim[c] \in Limiters
  BY DEF RevocationInv, LimiterMap
<1> USE DEF TypeInv, TypeOK
<1>2. ASSUME active' = active, Return(c), pc[c] \notin Holding
      PROVE  SlotsKept
  BY <1>2 DEF SlotsKept, SlotHolders, Return, Holding
<1>3. ASSUME active' = active, NEW p \in Holding, Goto(c, p), pc[c] \in Holding
      PROVE  SlotsKept
  BY <1>3 DEF SlotsKept, SlotHolders, Goto
<1>4. CASE LimiterFor(c)
  <2>1. CASE Return(c)
    BY <1>2, <1>4, <2>1 DEF LimiterFor, limiterVars, Holding
  <2>2. CASE ~Return(c)
    BY <1>4, <2>2 DEF LimiterFor, limiterVars, Holding, SlotsKept, SlotHolders
  <2>3. QED
    BY <2>1, <2>2
<1>5. CASE Acquire(c)
  <2>1. CASE Return(c) /\ UNCHANGED active
    BY <1>2, <1>5, <2>1 DEF Acquire, Holding
  <2>2. CASE Goto(c, "hello") /\ active[lim[c]] < maxConc[lim[c]]
             /\ active' = [active EXCEPT ![lim[c]] = @ + 1]
    BY <1>1, <1>5, <2>2 DEF Acquire, Goto, Holding, SlotTaken, SlotHolders
  <2>3. QED
    BY <1>5, <2>1, <2>2 DEF Acquire
<1>6. ASSUME NEW s \in Services, Hello(c, s) PROVE SlotsKept
  <2>1. CASE Goto(c, "release")
    BY <1>3, <1>6, <2>1 DEF Hello, limiterVars, Holding
  <2>2. CASE ~Goto(c, "release")
    BY <1>6, <2>2 DEF Hello, limiterVars, Holding, SlotsKept, SlotHolders
  <2>3. QED
    BY <2>1, <2>2
<1>7. CASE HelloFails(c) \/ DialBackend(c) \/ Recheck(c) \/ Respond(c) \/ PipeEnds(c) \/ Untrack(c)
  <2>1. /\ active' = active /\ pc[c] \in Holding
        /\ \E p \in {"release", "recheck", "respond", "untrack", "pipe"} : Goto(c, p)
    BY <1>7 DEF HelloFails, DialBackend, Recheck, Respond, PipeEnds, Untrack, limiterVars, Holding
  <2>2. QED
    BY <1>3, <2>1 DEF Holding
<1>8. CASE Release(c)
  BY <1>1, <1>8 DEF Release, Return, Holding, SlotReturned, SlotHolders
<1>9. QED
  BY <1>4, <1>5, <1>6, <1>7, <1>8 DEF HandlerStep

LEMMA NextSlots ==
    ASSUME TypeInv, RevocationInv, [Next]_vars
    PROVE  \/ SlotsKept
           \/ \E c \in Conns : lim[c] \in Limiters /\ (SlotTaken(c) \/ SlotReturned(c))
<1>1. ASSUME UNCHANGED <<active, pc, lim>> PROVE SlotsKept
  BY <1>1 DEF SlotsKept, SlotHolders
<1>2. ASSUME NEW c \in Conns, NEW ip \in IPs, Accept(c, ip) PROVE SlotsKept
  BY <1>2 DEF Accept, limiterVars, SlotsKept, SlotHolders, Holding, TypeInv, TypeOK
<1>3. CASE ReloadStep \/ \E cfg \in Configs : Reload(cfg)
  BY <1>1, <1>3 DEF ReloadStep, RefreshPeers, DrainLive, CloseLive, RevokePeer, AddPeer, UpdatePeer,
     FinishReload, Reload, limiterVars, connVars
<1>4. CASE UNCHANGED vars
  BY <1>1, <1>4 DEF vars, limiterVars, connVars
<1>5. QED
  BY <1>2, <1>3, <1>4, HandlerSlots DEF Next

LEMMA StepSlots ==
    ASSUME TypeInv, RevocationInv, SlotsAccounted, [Next]_vars
    PROVE  SlotsAccounted'
<1> SUFFICES ASSUME NEW l \in Limiters PROVE active'[l] = Cardinality(SlotHolders(l)')
  BY DEF SlotsAccounted
<1>1. active[l] = Cardinality(SlotHolders(l)) /\ active[l] \in Nat
  BY DEF SlotsAccounted, TypeInv, TypeOK
<1>2. CASE SlotsKept
  BY <1>1, <1>2 DEF SlotsKept
<1>3. ASSUME NEW c \in Conns, lim[c] \in Limiters, SlotTaken(c)
      PROVE  active'[l] = Cardinality(SlotHolders(l)')
  <2>1. CASE l = lim[c]
    <3>1. Cardinality(SlotHolders(l) \cup {c}) = Cardinality(SlotHolders(l)) + 1
      BY <1>3, <2>1, SlotSets, FS_AddElement DEF SlotTaken
    <3>2. QED
      BY <1>1, <1>3, <2>1, <3>1 DEF SlotTaken, TypeInv, TypeOK
  <2>2. CASE l # lim[c]
    BY <1>1, <1>3, <2>2 DEF SlotTaken, TypeInv, TypeOK
  <2>3. QED
    BY <2>1, <2>2
<1>4. ASSUME NEW c \in Conns, lim[c] \in Limiters, SlotReturned(c)
      PROVE  active'[l] = Cardinality(SlotHolders(l)')
  <2>1. CASE l = lim[c]
    <3>1. Cardinality(SlotHolders(l) \ {c}) = Cardinality(SlotHolders(l)) - 1
      BY <1>4, <2>1, SlotSets, FS_RemoveElement DEF SlotReturned
    <3>2. active[l] > 0
      BY <1>1, <1>4, <2>1, SlotSets, FS_EmptySet DEF SlotReturned
    <3>3. QED
      BY <1>1, <1>4, <2>1, <3>1, <3>2 DEF SlotReturned, TypeInv, TypeOK
  <2>2. CASE l # lim[c]
    BY <1>1, <1>4, <2>2 DEF SlotReturned, TypeInv, TypeOK
  <2>3. QED
    BY <2>1, <2>2
<1>5. QED
  BY <1>2, <1>3, <1>4, NextSlots

\* The count of a limiter is the number of handlers that hold one of its
\* slots, so release never finds it at zero (acquire, release, refreshPeers).
THEOREM SlotsAreAccounted == Spec => []SlotsAccounted
<1>1. Init => SlotsAccounted
  <2> SUFFICES ASSUME Init, NEW l \in Limiters PROVE active[l] = Cardinality(SlotHolders(l))
    BY DEF SlotsAccounted
  <2>1. SlotHolders(l) = {} /\ active[l] = 0
    BY DEF Init, SlotHolders, Holding
  <2>2. QED
    BY <2>1, FS_EmptySet
<1>2. QED
  BY <1>1, RevocationInvariant, StepSlots, PTL DEF Spec

\* A handler takes a slot only within the cap configured at that moment
\* (acquire, and the limits refreshPeers sets).
THEOREM CapIsHonoured == Spec => CapHonoured
<1> DEFINE Honoured == \A l \in Limiters :
              ~(SlotHolders(l)' \subseteq SlotHolders(l))
                 => Cardinality(SlotHolders(l)') <= maxConc'[l]
<1>1. ASSUME TypeInv, RevocationInv, SlotsAccounted, [Next]_vars PROVE Honoured
  <2> SUFFICES ASSUME NEW l \in Limiters, ~(SlotHolders(l)' \subseteq SlotHolders(l))
               PROVE  Cardinality(SlotHolders(l)') <= maxConc'[l]
    OBVIOUS
  <2>1. PICK c \in Conns : lim[c] \in Limiters /\ SlotTaken(c)
    BY <1>1, NextSlots DEF SlotsKept, SlotReturned
  <2>2. l = lim[c]
    BY <2>1 DEF SlotTaken
  <2>3. SlotHolders(l)' = SlotHolders(l) \cup {c} /\ c \notin SlotHolders(l)
        /\ active[l] < maxConc[l] /\ maxConc' = maxConc
    BY <2>1, <2>2 DEF SlotTaken
  <2>4. Cardinality(SlotHolders(l) \cup {c}) = Cardinality(SlotHolders(l)) + 1
    BY <2>3, SlotSets, FS_AddElement
  <2>5. active[l] = Cardinality(SlotHolders(l)) /\ active[l] \in Nat /\ maxConc[l] \in Nat
    BY <1>1 DEF SlotsAccounted, TypeInv, TypeOK
  <2>6. QED
    BY <2>3, <2>4, <2>5
<1>2. Spec => []SlotsAccounted
  BY SlotsAreAccounted
<1>3. QED
  BY <1>1, <1>2, RevocationInvariant, PTL DEF Spec, CapHonoured

-----------------------------------------------------------------------------
(* Who is behind an address.                                               *)

LEMMA ListedOwns ==
    ASSUME TypeInv, NEW k \in DOMAIN cur
    PROVE  Owns(k, cur[k].ip)
BY DEF Owns, TypeInv, TypeOK

LEMMA InitAddress == Init => AddressInv
<1> SUFFICES ASSUME Init PROVE AddressInv
  OBVIOUS
<1>1. IsPeersConfig(cur) /\ TypeInv
  BY InitType, ConfigsAssumption DEF Init
<1>2. ASSUME NEW ip \in IPs, route[ip] # NoKey PROVE Owns(route[ip], ip)
  <2>1. route[ip] = KeyAt(cur, ip)
    BY DEF Init
  <2>2. QED
    BY <1>1, <1>2, <2>1, KeyAtEntry, ListedOwns
<1>3. QED
  BY <1>2 DEF Init, AddressInv

\* The device routes an address to the key whose entry asks for it.
LEMMA ApplyAddress ==
    ASSUME TypeInv, AddressInv, NEW k \in DOMAIN cur, NEW updateOnly \in BOOLEAN,
           ApplyPeer(k, updateOnly), UNCHANGED connVars
    PROVE  AddressInv'
<1>1. route' = route \/ route' = Rerouted(k, cur[k].ip)
  BY DEF ApplyPeer
<1>2. ASSUME NEW ip \in IPs, route'[ip] # NoKey PROVE Owns(route'[ip], ip)
  BY <1>1, <1>2, ListedOwns DEF Rerouted, AddressInv
<1>3. QED
  BY <1>2 DEF AddressInv, connVars, Owns

LEMMA HandlerAddress ==
    ASSUME TypeInv, AddressInv, NEW c \in Conns, HandlerStep(c) \/ PipeEnds(c)
    PROVE  AddressInv'
<1>1. route' = route
  BY DEF HandlerStep, LimiterFor, Acquire, Hello, HelloFails, DialBackend, Recheck, Respond,
         PipeEnds, Untrack, Release, deviceVars
<1>2. pc[c] # "free"
  BY DEF HandlerStep, LimiterFor, Acquire, Hello, HelloFails, DialBackend, Recheck, Respond,
         PipeEnds, Untrack, Release
<1>3. /\ \A d \in Conns \ {c} : pc'[d] = pc[d] /\ origin'[d] = origin[d] /\ peerIP'[d] = peerIP[d]
      /\ pc'[c] # "free" => origin'[c] = origin[c] /\ peerIP'[c] = peerIP[c]
  <2>1. \/ Return(c)
        \/ \E p : pc' = [pc EXCEPT ![c] = p] /\ UNCHANGED <<peerIP, origin>>
    BY DEF HandlerStep, LimiterFor, Acquire, Hello, HelloFails, DialBackend, Recheck, Respond,
           PipeEnds, Untrack, Release, Goto
  <2>2. QED
    BY <2>1 DEF Return, TypeInv, TypeOK
<1>4. QED
  BY <1>1, <1>2, <1>3 DEF AddressInv, Owns

LEMMA NextAddress == TypeInv /\ AddressInv /\ [Next]_vars => AddressInv'
<1> SUFFICES ASSUME TypeInv, AddressInv, [Next]_vars PROVE AddressInv'
  OBVIOUS
<1>1. ASSUME UNCHANGED <<route, pc, peerIP, origin>> PROVE AddressInv'
  BY <1>1 DEF AddressInv, Owns
<1>2. ASSUME NEW c \in Conns, NEW ip \in IPs, Accept(c, ip) PROVE AddressInv'
  <2>1. /\ route' = route /\ route[ip] # NoKey /\ origin'[c] = route[ip] /\ peerIP'[c] = ip
        /\ \A d \in Conns \ {c} : pc'[d] = pc[d] /\ origin'[d] = origin[d] /\ peerIP'[d] = peerIP[d]
    BY <1>2 DEF Accept, deviceVars, TypeInv, TypeOK
  <2>2. QED
    BY <2>1 DEF AddressInv, Owns
<1>3. ASSUME NEW k \in Keys, RevokePeer(k) PROVE AddressInv'
  <2>1. UNCHANGED connVars /\ \A ip \in IPs : route'[ip] \in {route[ip], NoKey}
    BY <1>3 DEF RevokePeer
  <2>2. QED
    BY <2>1 DEF AddressInv, Owns, connVars
<1>4. ASSUME NEW k \in Keys, AddPeer(k) \/ UpdatePeer(k) PROVE AddressInv'
  <2>1. k \in DOMAIN cur /\ UNCHANGED connVars
    BY <1>4 DEF AddPeer, UpdatePeer, TypeInv
  <2>2. QED
    BY <1>4, <2>1, ApplyAddress DEF AddPeer, UpdatePeer
<1>5. CASE \E cfg \in Configs : Reload(cfg)
  BY <1>1, <1>5 DEF Reload, connVars, deviceVars
<1>6. CASE RefreshPeers \/ FinishReload \/ (\E l \in Limiters : DrainLive(l)) \/ (\E c \in Conns : CloseLive(c))
  BY <1>1, <1>6 DEF RefreshPeers, FinishReload, DrainLive, CloseLive, connVars, deviceVars
<1>7. CASE UNCHANGED vars
  BY <1>1, <1>7 DEF vars, connVars, deviceVars
<1>8. QED
  BY <1>2, <1>3, <1>4, <1>5, <1>6, <1>7, HandlerAddress DEF Next, ReloadStep

LEMMA AddressInvariant == Spec => []AddressInv
<1>1. Spec => []TypeInv
  BY RevocationInvariant, PTL
<1>2. QED
  BY <1>1, InitAddress, NextAddress, PTL DEF Spec

\* A limiter in force belongs to a key that was given its address.
LEMMA LimiterOwns ==
    ASSUME TypeInv, RevocationInv, stage # "refresh", NEW ip \in IPs, limiters[ip] # NoLimiter
    PROVE  LET k == PublicKey(limiters[ip]) IN k \in DOMAIN cur /\ k \in Keys /\ Owns(k, ip)
<1> DEFINE k == PublicKey(limiters[ip])
<1>1. IsPeersConfig(cur)
  BY ConfigsAssumption DEF TypeInv, TypeOK
<1>2. k = KeyAt(cur, ip) /\ k \in Keys
  BY LimiterNames DEF RevocationInv, LimiterMap, TypeInv, TypeOK
<1>3. k \in DOMAIN cur /\ cur[k].ip = ip
  BY <1>1, <1>2, KeyAtEntry, NoKeyAssumption
<1>4. QED
  BY <1>2, <1>3, ListedOwns

\* As long as no address is given to a second key, what the integration
\* guide says of a revocation is true: once refreshPeers has returned, only
\* keys in the list are served, whatever fails on the device.  The one way
\* around it is the address that passes from a revoked key to another.
THEOREM ListedKeysServed ==
    ASSUME NoAddressReused
    PROVE  Spec => [](ServedKeyIsListed /\ RevokedKeyNotServed)
<1>1. ASSUME TypeInv, RevocationInv, AddressInv PROVE ServedKeyIsListed
  <2> SUFFICES ASSUME Reaped, NEW c \in Conns, pc[c] \in Serving, open[c]
               PROVE  origin[c] \in DOMAIN cur
    BY DEF ServedKeyIsListed
  <2>1. stage # "refresh" /\ gone = {} /\ closing = {}
    BY <1>1 DEF Reaped, Applying, RevocationInv, LimiterMap
  <2>2. limiters[peerIP[c]] = lim[c] /\ lim[c] # NoLimiter /\ peerIP[c] \in IPs
    <3>1. lim[c] \in Limiters
      BY <1>1 DEF RevocationInv, LimiterMap, Serving
    <3>2. limiters[peerIP[c]] = lim[c] /\ peerIP[c] \in IPs
      BY <1>1, <2>1 DEF RevocationInv, ServedOrReaped, TypeInv, TypeOK
    <3>3. QED
      BY <3>1, <3>2, LimiterNames
  <2> DEFINE k == PublicKey(limiters[peerIP[c]])
  <2>3. k \in DOMAIN cur /\ k \in Keys /\ Owns(k, peerIP[c])
    BY <1>1, <2>1, <2>2, LimiterOwns
  <2>4. Owns(origin[c], peerIP[c]) /\ origin[c] \in Keys
    <3>1. Owns(origin[c], peerIP[c])
      BY <1>1 DEF AddressInv, Serving
    <3>2. QED
      BY <3>1, ConfigsAssumption DEF Owns, IsPeersConfig
  <2>5. origin[c] = k
    BY <2>2, <2>3, <2>4, NoAddressReused DEF NoAddressReused
  <2>6. QED
    BY <2>3, <2>5
<1>2. ServedKeyIsListed => RevokedKeyNotServed
  BY DEF ServedKeyIsListed, RevokedKeyNotServed, Reaped, Serving
<1>3. QED
  BY <1>1, <1>2, RevocationInvariant, AddressInvariant, PTL

\* The address a connection comes from is the identity handleConn takes it
\* for, as long as no address is given to a second key, or no entry of a
\* reload fails to be applied: it takes both for an address to stay with a
\* key that the list has moved away from it.
THEOREM AddressesIdentify ==
    ASSUME NoAddressReused \/ "apply" \notin Faults
    PROVE  Spec => []AddressIsIdentity
<1>1. ASSUME TypeInv, RevocationInv, AddressInv, DeviceAgrees PROVE AddressIsIdentity
  <2> SUFFICES ASSUME stage = "idle", "revoke" \notin failed, NEW ip \in IPs,
                      limiters[ip] # NoLimiter, route[ip] # NoKey
               PROVE  route[ip] = PublicKey(limiters[ip])
    BY DEF AddressIsIdentity
  <2>1. CASE NoAddressReused
    <3>1. PublicKey(limiters[ip]) \in Keys /\ Owns(PublicKey(limiters[ip]), ip)
      BY <1>1, LimiterOwns
    <3>2. route[ip] \in Keys /\ Owns(route[ip], ip)
      BY <1>1 DEF AddressInv, TypeInv, TypeOK
    <3>3. QED
      BY <2>1, <3>1, <3>2 DEF NoAddressReused
  <2>2. CASE "apply" \notin Faults
    <3>1. failed = {}
      BY <1>1, <2>2, FaultsAssumption DEF TypeInv, TypeOK
    <3>2. route[ip] = KeyAt(cur, ip)
      BY <1>1, <3>1 DEF DeviceAgrees
    <3>3. QED
      BY <1>1, <3>2 DEF RevocationInv, LimiterMap
  <2>3. QED
    BY <2>1, <2>2
<1>2. QED
  BY <1>1, RevocationInvariant, AddressInvariant, DeviceFollowsList, PTL
=============================================================================
