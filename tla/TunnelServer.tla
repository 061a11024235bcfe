---------------------------- MODULE TunnelServer ----------------------------
(***************************************************************************)
(* The serving path of a gocloak server and the hot reload that runs       *)
(* beside it (server.go, with the parts of config.go, device.go and        *)
(* policy.go they call).                                                   *)
(*                                                                         *)
(* Two kinds of goroutines meet here:                                      *)
(*                                                                         *)
(*  - the watcher's goroutine, which publishes a new peer list and then    *)
(*    runs handleReload: refreshPeers swaps the limiter map, closeLive     *)
(*    reaps the connections of the limiters that were dropped, applyDiff   *)
(*    walks the device through the removed, added and changed peers, and   *)
(*    pruneSecretCache ends it;                                            *)
(*  - one goroutine per accepted connection, handleConn.                   *)
(*                                                                         *)
(* A step of the model is a critical section, an atomic load or store, or  *)
(* a blocking call together with the local work around it.  Every other    *)
(* goroutine may run between any two steps.                                *)
(*                                                                         *)
(* A limiter's identity is a Go pointer.  refreshPeers makes at most one   *)
(* limiter per public key, so <<key, generation>> names it uniquely, where *)
(* the generation counts the calls of refreshPeers.                        *)
(***************************************************************************)
EXTENDS PeersConfig, FiniteSets

CONSTANTS Conns,        \* connection handlers that may run at the same time
          Configs,      \* the validated peer lists the file may hold
          Faults,       \* the device steps of a reload that may fail:
                        \* a subset of {"revoke", "apply"}
          MaxGen,       \* bound: calls of refreshPeers, the first at startup
          NoRef         \* "no preshared key": the device has no such peer

ASSUME ConnsAssumption == IsFiniteSet(Conns)
ASSUME ConfigsAssumption == \A cfg \in Configs : IsPeersConfig(cfg)
ASSUME FaultsAssumption == Faults \subseteq {"revoke", "apply"}
ASSUME BoundsAssumption == MaxGen \in Nat \ {0}
ASSUME NoRefAssumption == NoRef \notin Refs
ASSUME IPsAssumption == IPs # {}

VARIABLES
    cur,       \* peerWatcher.cur: the peer list in force, policy included
    stage,     \* where handleReload is
    toRemove,  \* the part of the diff that applyDiff has not applied yet:
    toAdd,     \*   peerDiff.Removed, .Added and .Changed
    toChange,
    gen,       \* the number of refreshPeers calls so far
    limiters,  \* Server.limiters
    gone,      \* limiters dropped by refreshPeers and not drained yet
    closing,   \* connections drained by closeLive and not closed yet
    active,    \* peerLimiter.active, per limiter
    maxConc,   \* peerLimiter.maxConcurrent, per limiter
    live,      \* peerLimiter.live, per limiter
    pc,        \* where each connection's handleConn is
    peerIP,    \* the remote tunnel address handleConn keyed on
    lim,       \* the limiter handleConn captured
    open,      \* FALSE once closeLive has closed the connection
    origin,    \* history: the key the device authenticated at accept
    grantor,   \* history: the entry whose allow map granted the service
    psk,       \* the device: the preshared key installed, per public key
    route,     \* the device: cryptokey routing, tunnel address to key
    pskCache,  \* Server.pskCache: per reference, nothing, a key, or text that is no key
    failed     \* history: the kinds of device steps that have failed

diffVars    == <<toRemove, toAdd, toChange>>
reloadVars  == <<cur, stage, gen, diffVars>>
limiterVars == <<active, maxConc, live>>
connVars    == <<pc, peerIP, lim, open, origin, grantor>>
deviceVars  == <<psk, route, pskCache, failed>>
vars == <<reloadVars, limiters, gone, closing, limiterVars, connVars, deviceVars>>

Limiters  == Keys \X (1..MaxGen)
NoLimiter == <<NoKey, 0>>
PublicKey(l) == l[1]

AnyIP == CHOOSE ip \in IPs : TRUE   \* of a handler that is not running

DiffApplied == toRemove = {} /\ toAdd = {} /\ toChange = {}

\* The program points of handleConn at which it holds a concurrency slot.
Holding == {"hello", "dial", "recheck", "respond", "pipe", "untrack", "release"}
\* ... at which its connection is registered in its limiter's live set,
\* unless closeLive has drained it.
Tracked == {"recheck", "respond", "pipe", "untrack"}
\* ... after the re-check has passed.
Serving == {"respond", "pipe"}

TypeOK ==
    /\ cur \in Configs
    /\ stage \in {"idle", "refresh", "apply"}
    /\ toRemove \subseteq Keys /\ toAdd \subseteq Keys /\ toChange \subseteq Keys
    /\ gen \in 1..MaxGen
    /\ limiters \in [IPs -> Limiters \cup {NoLimiter}]
    /\ gone \subseteq Limiters
    /\ closing \subseteq Conns
    /\ active \in [Limiters -> Nat]
    /\ maxConc \in [Limiters -> Nat]
    /\ live \in [Limiters -> SUBSET Conns]
    /\ pc \in [Conns -> {"free", "lookup", "acquire"} \cup Holding]
    /\ peerIP \in [Conns -> IPs]
    /\ lim \in [Conns -> Limiters \cup {NoLimiter}]
    /\ open \in [Conns -> BOOLEAN]
    /\ origin \in [Conns -> Keys \cup {NoKey}]
    /\ grantor \in [Conns -> Keys \cup {NoKey}]
    /\ psk \in [Keys -> Refs \cup {NoRef}]
    /\ route \in [IPs -> Keys \cup {NoKey}]
    /\ pskCache \in [Refs -> {"none", "key", "noKey"}]
    /\ failed \subseteq Faults

-----------------------------------------------------------------------------
(* Startup.  Run applies every peer of the initial list to an empty device *)
(* and then calls refreshPeers; a failure is fatal, so serving starts from *)
(* a device that agrees with the list.                                     *)

Init ==
    /\ cur \in Configs
    /\ stage = "idle" /\ DiffApplied /\ gen = 1
    /\ limiters = [ip \in IPs |-> IF KeyAt(cur, ip) = NoKey THEN NoLimiter
                                  ELSE <<KeyAt(cur, ip), 1>>]
    /\ gone = {} /\ closing = {}
    /\ active = [l \in Limiters |-> 0]
    /\ maxConc = [l \in Limiters |->
                    IF l[2] = 1 /\ PublicKey(l) \in DOMAIN cur
                    THEN cur[PublicKey(l)].maxConcurrent ELSE 0]
    /\ live = [l \in Limiters |-> {}]
    /\ pc = [c \in Conns |-> "free"]
    /\ peerIP = [c \in Conns |-> AnyIP]
    /\ lim = [c \in Conns |-> NoLimiter]
    /\ open = [c \in Conns |-> FALSE]
    /\ origin = [c \in Conns |-> NoKey]
    /\ grantor = [c \in Conns |-> NoKey]
    /\ psk = [k \in Keys |-> IF k \in DOMAIN cur THEN cur[k].psk ELSE NoRef]
    /\ route = [ip \in IPs |-> KeyAt(cur, ip)]
    /\ pskCache = [ref \in Refs |-> IF \E k \in DOMAIN cur : cur[k].psk = ref
                                    THEN "key" ELSE "none"]
    /\ failed = {}

-----------------------------------------------------------------------------
(* The watcher's goroutine: reloadLocked, then handleReload.               *)

\* reloadLocked on a valid file: the diff is taken against the list this
\* call replaces, and the list is published with its policy in one store.
\* A file that does not load changes nothing here (module PeerWatcher).
Reload(cfg) ==
    /\ stage = "idle"
    /\ gen < MaxGen
    /\ cur' = cfg
    /\ toRemove' = Removed(cur, cfg)
    /\ toAdd' = Added(cur, cfg)
    /\ toChange' = Changed(cur, cfg)
    /\ stage' = "refresh"
    /\ UNCHANGED <<gen, limiters, gone, closing, limiterVars, connVars, deviceVars>>

\* Defective variant of RefreshedLimiters: a limiter is made for an address
\* nobody holds.
LimiterForNobody ==
    [ip \in IPs |-> IF PublicKey(limiters[ip]) = KeyAt(cur, ip) THEN limiters[ip]
                    ELSE <<KeyAt(cur, ip), gen + 1>>]

\* The limiter map refreshPeers builds: a limiter survives when the same
\* key holds the same address.
RefreshedLimiters ==
    [ip \in IPs |->
        IF KeyAt(cur, ip) = NoKey THEN NoLimiter
        ELSE IF limiters[ip] # NoLimiter /\ PublicKey(limiters[ip]) = KeyAt(cur, ip)
        THEN limiters[ip]
        ELSE <<KeyAt(cur, ip), gen + 1>>]

\* refreshPeers up to the unlock of Server.mu.  Limits are (re)applied to
\* every limiter in the new map.
RefreshPeers ==
    /\ stage = "refresh"
    /\ stage' = "apply"
    /\ gen' = gen + 1
    /\ limiters' = RefreshedLimiters
    /\ gone' = {limiters[ip] : ip \in IPs}
                 \ ({limiters'[ip] : ip \in IPs} \cup {NoLimiter})
    /\ maxConc' = [l \in Limiters |->
                     IF \E ip \in IPs : limiters'[ip] = l
                     THEN cur[PublicKey(l)].maxConcurrent ELSE maxConc[l]]
    /\ UNCHANGED <<cur, diffVars, closing, active, live, connVars, deviceVars>>

\* Defective variant of DrainLive: the live set is not reaped.
NoDrain(l) ==
    /\ stage = "apply" /\ closing = {} /\ l \in gone
    /\ gone' = gone \ {l}
    /\ UNCHANGED <<reloadVars, limiters, closing, limiterVars, connVars, deviceVars>>

\* closeLive, under the limiter's lock: take the whole live set.
DrainLive(l) ==
    /\ stage = "apply" /\ closing = {} /\ l \in gone
    /\ gone' = gone \ {l}
    /\ closing' = live[l]
    /\ live' = [live EXCEPT ![l] = {}]
    /\ UNCHANGED <<reloadVars, limiters, active, maxConc, connVars, deviceVars>>

\* closeLive, outside the lock: close one drained connection, both sides.
CloseLive(c) ==
    /\ c \in closing
    /\ closing' = closing \ {c}
    /\ open' = [open EXCEPT ![c] = FALSE]
    /\ UNCHANGED <<reloadVars, limiters, gone, limiterVars, pc, peerIP, lim,
                   origin, grantor, deviceVars>>

\* refreshPeers has returned: applyDiff is running.
Applying == stage = "apply" /\ gone = {} /\ closing = {}

\* wireguard-go's allowed-ips table, with replace_allowed_ips: the address
\* moves to k from whoever held it, and k loses every other address.
Rerouted(k, ip) ==
    [i \in IPs |-> IF i = ip THEN k ELSE IF route[i] = k THEN NoKey ELSE route[i]]

\* RemovePeer: the key and its routes leave the device, or the call fails
\* and applyDiff goes on to the next entry.
RevokePeer(k) ==
    /\ Applying
    /\ k \in toRemove
    /\ toRemove' = toRemove \ {k}
    /\ \/ /\ psk' = [psk EXCEPT ![k] = NoRef]
          /\ route' = [i \in IPs |-> IF route[i] = k THEN NoKey ELSE route[i]]
          /\ UNCHANGED failed
       \/ /\ "revoke" \in Faults
          /\ failed' = failed \cup {"revoke"}
          /\ UNCHANGED <<psk, route>>
    /\ UNCHANGED <<cur, stage, gen, toAdd, toChange, limiters, gone, closing, limiterVars,
                   connVars, pskCache>>

\* applyPeer: resolve the preshared key through the cache, then AddPeer or
\* UpdatePeer.  An update of a key the device does not hold is a no-op that
\* succeeds.  The entry fails when its reference is not cached and does not
\* resolve, or when what it resolves to, now or when it was cached, is no
\* key and the device refuses it.  A reference cached as a key does not fail:
\* the store is not asked again.
ApplyPeer(k, updateOnly) ==
    LET ref == cur[k].psk IN
    \/ /\ pskCache[ref] # "noKey"
       /\ pskCache' = [pskCache EXCEPT ![ref] = "key"]
       /\ IF updateOnly /\ psk[k] = NoRef
          THEN UNCHANGED <<psk, route>>
          ELSE /\ psk' = [psk EXCEPT ![k] = ref]
               /\ route' = Rerouted(k, cur[k].ip)
       /\ UNCHANGED failed
    \/ /\ "apply" \in Faults
       /\ pskCache[ref] # "key"
       /\ failed' = failed \cup {"apply"}
       /\ \/ pskCache[ref] = "none" /\ UNCHANGED pskCache
          \/ pskCache' = [pskCache EXCEPT ![ref] = "noKey"]
       /\ UNCHANGED <<psk, route>>

AddPeer(k) ==
    /\ Applying /\ toRemove = {}
    /\ k \in toAdd
    /\ toAdd' = toAdd \ {k}
    /\ ApplyPeer(k, FALSE)
    /\ UNCHANGED <<cur, stage, gen, toRemove, toChange, limiters, gone, closing, limiterVars,
                   connVars>>

UpdatePeer(k) ==
    /\ Applying /\ toRemove = {} /\ toAdd = {}
    /\ k \in toChange
    /\ toChange' = toChange \ {k}
    /\ ApplyPeer(k, TRUE)
    /\ UNCHANGED <<cur, stage, gen, toRemove, toAdd, limiters, gone, closing, limiterVars,
                   connVars>>

\* pruneSecretCache, and handleReload returns.
FinishReload ==
    /\ Applying /\ DiffApplied
    /\ stage' = "idle"
    /\ pskCache' = [ref \in Refs |-> IF \E k \in DOMAIN cur : cur[k].psk = ref
                                     THEN pskCache[ref] ELSE "none"]
    /\ UNCHANGED <<cur, gen, diffVars, limiters, gone, closing, limiterVars, connVars,
                   psk, route, failed>>

-----------------------------------------------------------------------------
(* handleConn, one goroutine per accepted connection c.                    *)

\* A handler leaves: the connection is closed, and a close still pending in
\* closeLive has nothing left to do.
Return(c) ==
    /\ pc' = [pc EXCEPT ![c] = "free"]
    /\ peerIP' = [peerIP EXCEPT ![c] = AnyIP]
    /\ lim' = [lim EXCEPT ![c] = NoLimiter]
    /\ open' = [open EXCEPT ![c] = FALSE]
    /\ origin' = [origin EXCEPT ![c] = NoKey]
    /\ grantor' = [grantor EXCEPT ![c] = NoKey]
    /\ closing' = closing \ {c}

\* Go to a program point and change nothing else of the connection.
Goto(c, p) ==
    /\ pc' = [pc EXCEPT ![c] = p]
    /\ UNCHANGED <<peerIP, lim, open, origin, grantor, closing>>

\* The accept loop of Run: the device delivers a connection only from an
\* address it routes, and the key that owns the route is who sent it.
Accept(c, ip) ==
    /\ pc[c] = "free"
    /\ route[ip] # NoKey
    /\ pc' = [pc EXCEPT ![c] = "lookup"]
    /\ peerIP' = [peerIP EXCEPT ![c] = ip]
    /\ origin' = [origin EXCEPT ![c] = route[ip]]
    /\ open' = [open EXCEPT ![c] = TRUE]
    /\ UNCHANGED <<reloadVars, limiters, gone, closing, limiterVars, lim, grantor, deviceVars>>

\* limiterFor: an address with no entry is closed in silence.
LimiterFor(c) ==
    /\ pc[c] = "lookup"
    /\ \/ limiters[peerIP[c]] = NoLimiter /\ Return(c)
       \/ /\ limiters[peerIP[c]] # NoLimiter
          /\ lim' = [lim EXCEPT ![c] = limiters[peerIP[c]]]
          /\ pc' = [pc EXCEPT ![c] = "acquire"]
          /\ UNCHANGED <<peerIP, open, origin, grantor, closing>>
    /\ UNCHANGED <<reloadVars, limiters, gone, limiterVars, deviceVars>>

\* Defective variant of Acquire: one slot too many.
AcquireOffByOne(c) ==
    /\ pc[c] = "acquire"
    /\ \/ /\ active[lim[c]] <= maxConc[lim[c]]
          /\ active' = [active EXCEPT ![lim[c]] = @ + 1]
          /\ Goto(c, "hello")
       \/ Return(c) /\ UNCHANGED active
    /\ UNCHANGED <<reloadVars, limiters, gone, maxConc, live, deviceVars>>

\* acquire.  The token bucket may refuse at any time (module PeerLimiter);
\* the concurrency cap refuses when it is reached.  A refusal is answered
\* with statusRateLimited and takes no slot.
Acquire(c) ==
    /\ pc[c] = "acquire"
    /\ \/ /\ active[lim[c]] < maxConc[lim[c]]
          /\ active' = [active EXCEPT ![lim[c]] = @ + 1]
          /\ Goto(c, "hello")
       \/ Return(c) /\ UNCHANGED active
    /\ UNCHANGED <<reloadVars, limiters, gone, maxConc, live, deviceVars>>

\* readHelloRequest returned service s: resolve it against the list in
\* force.  A denial is answered with statusDenied.
Hello(c, s) ==
    /\ pc[c] = "hello"
    /\ LET k == Resolve(cur, peerIP[c], s) IN
       \/ k = NoKey /\ Goto(c, "release")
       \/ /\ k # NoKey
          /\ grantor' = [grantor EXCEPT ![c] = k]
          /\ pc' = [pc EXCEPT ![c] = "dial"]
          /\ UNCHANGED <<peerIP, lim, open, origin, closing>>
    /\ UNCHANGED <<reloadVars, limiters, gone, limiterVars, deviceVars>>

\* readHelloRequest failed: a malformed frame, an I/O error, the deadline.
HelloFails(c) ==
    /\ pc[c] = "hello"
    /\ Goto(c, "release")
    /\ UNCHANGED <<reloadVars, limiters, gone, limiterVars, deviceVars>>

\* The backend dial, and track on success.  A failure is answered with
\* statusBackendUnavailable.
DialBackend(c) ==
    /\ pc[c] = "dial"
    /\ \/ /\ live' = [live EXCEPT ![lim[c]] = @ \cup {c}]
          /\ Goto(c, "recheck")
       \/ Goto(c, "release") /\ UNCHANGED live
    /\ UNCHANGED <<reloadVars, limiters, gone, active, maxConc, deviceVars>>

\* Defective variant of Recheck: the authorization is not checked again.
SkipRecheck(c) ==
    /\ pc[c] = "recheck"
    /\ Goto(c, "respond")
    /\ UNCHANGED <<reloadVars, limiters, gone, limiterVars, deviceVars>>

\* Defective variant of Recheck: any limiter at the address will do.
RecheckExists(c) ==
    /\ pc[c] = "recheck"
    /\ Goto(c, IF limiters[peerIP[c]] # NoLimiter THEN "respond" ELSE "untrack")
    /\ UNCHANGED <<reloadVars, limiters, gone, limiterVars, deviceVars>>

\* The re-check of the authorization, after track.  On a mismatch the
\* connection is closed in silence.
Recheck(c) ==
    /\ pc[c] = "recheck"
    /\ Goto(c, IF limiters[peerIP[c]] = lim[c] THEN "respond" ELSE "untrack")
    /\ UNCHANGED <<reloadVars, limiters, gone, limiterVars, deviceVars>>

\* respond(statusOK) and the clearing of the deadlines.  The write fails
\* on a connection that has been closed, and may fail on any other.
Respond(c) ==
    /\ pc[c] = "respond"
    /\ \/ open[c] /\ Goto(c, "pipe")
       \/ Goto(c, "untrack")
    /\ UNCHANGED <<reloadVars, limiters, gone, limiterVars, deviceVars>>

\* pipeConns returns: a side ended on its own, or closeLive closed both.
PipeEnds(c) ==
    /\ pc[c] = "pipe"
    /\ Goto(c, "untrack")
    /\ UNCHANGED <<reloadVars, limiters, gone, limiterVars, deviceVars>>

\* untrack, deferred or explicit after a failed re-check.
Untrack(c) ==
    /\ pc[c] = "untrack"
    /\ live' = [live EXCEPT ![lim[c]] = @ \ {c}]
    /\ Goto(c, "release")
    /\ UNCHANGED <<reloadVars, limiters, gone, active, maxConc, deviceVars>>

\* Defective variant of Release: the slot goes back to the limiter in force
\* at the address instead of the one it was taken from.
ReleaseCurrent(c) ==
    /\ pc[c] = "release"
    /\ active' = [l \in Limiters |->
                    IF l = limiters[peerIP[c]] /\ active[l] > 0 THEN active[l] - 1 ELSE active[l]]
    /\ Return(c)
    /\ UNCHANGED <<reloadVars, limiters, gone, maxConc, live, deviceVars>>

\* release and the remaining defers of handleConn.
Release(c) ==
    /\ pc[c] = "release"
    /\ active' = [active EXCEPT ![lim[c]] = IF @ > 0 THEN @ - 1 ELSE @]
    /\ Return(c)
    /\ UNCHANGED <<reloadVars, limiters, gone, maxConc, live, deviceVars>>

-----------------------------------------------------------------------------
ReloadStep ==
    \/ RefreshPeers
    \/ \E l \in Limiters : DrainLive(l)
    \/ \E c \in Conns : CloseLive(c)
    \/ \E k \in Keys : RevokePeer(k) \/ AddPeer(k) \/ UpdatePeer(k)
    \/ FinishReload

\* Steps of a handler that are bounded by a deadline or do not block.
HandlerStep(c) ==
    \/ LimiterFor(c) \/ Acquire(c)
    \/ \E s \in Services : Hello(c, s)
    \/ HelloFails(c) \/ DialBackend(c) \/ Recheck(c) \/ Respond(c)
    \/ Untrack(c) \/ Release(c)

Next ==
    \/ \E cfg \in Configs : Reload(cfg)
    \/ ReloadStep
    \/ \E c \in Conns, ip \in IPs : Accept(c, ip)
    \/ \E c \in Conns : HandlerStep(c) \/ PipeEnds(c)

Spec == Init /\ [][Next]_vars

\* The watcher's goroutine never blocks on a handler.  A handler is woken
\* by the hello deadline, the dial timeout, the write deadline, or, in the
\* pipe, by the close of its connections; nothing else ends a pipe.
Fairness ==
    /\ WF_vars(ReloadStep)
    /\ \A c \in Conns : WF_vars(HandlerStep(c))
    /\ \A c \in Conns : WF_vars(~open[c] /\ PipeEnds(c))

FairSpec == Spec /\ Fairness

-----------------------------------------------------------------------------
(* Properties.                                                             *)

Reaped == stage = "idle" \/ Applying

\* Once refreshPeers has returned, no connection that can still carry bytes
\* is served for an authorization that is gone: its limiter is the one in
\* force at its address, and that limiter's key holds the address in the
\* peer list.  This is what track before re-check before reap is for.
ServedIsAuthorized ==
    Reaped => \A c \in Conns : pc[c] \in Serving /\ open[c] =>
                  /\ limiters[peerIP[c]] = lim[c]
                  /\ KeyAt(cur, peerIP[c]) = PublicKey(lim[c])

\* The limiter is captured before the hello is read and the policy is read
\* after it, so a reload between the two may resolve one peer's connection
\* in another peer's allow map.  No such connection outlives the reap: the
\* entry that granted the service is the entry it was metered under.
GrantMatchesLimiter ==
    Reaped => \A c \in Conns : pc[c] \in Serving /\ open[c] =>
                  grantor[c] = PublicKey(lim[c])

InForce(l) == \E ip \in IPs : limiters[ip] = l

\* The inductive invariant behind the two properties above, in four parts.
\* (1) The limiter map follows the list in force except between the publish
\* and refreshPeers; a limiter sits at one address, its generation is not
\* in the future, and one that was dropped is not in force.
LimiterMap ==
    /\ stage # "refresh" => \A ip \in IPs : PublicKey(limiters[ip]) = KeyAt(cur, ip)
    /\ \A i, j \in IPs : limiters[i] = limiters[j] => i = j \/ limiters[i] = NoLimiter
    /\ \A ip \in IPs : limiters[ip][2] <= gen
    /\ \A c \in Conns : lim[c][2] <= gen
    /\ \A c \in Conns : pc[c] \notin {"free", "lookup"} => lim[c] \in Limiters
    /\ \A l \in gone : ~InForce(l)
    /\ stage # "apply" => gone = {} /\ closing = {}

\* (2) From track on, a connection is in the live set of its limiter for as
\* long as that limiter is in force or waits to be drained.
Registered ==
    \A c \in Conns :
        pc[c] \in {"recheck"} \cup Serving /\ (InForce(lim[c]) \/ lim[c] \in gone)
            => c \in live[lim[c]]

\* (3) A connection that passed the re-check is authorized or on its way to
\* be closed by the reload.
ServedOrReaped ==
    \A c \in Conns : pc[c] \in Serving /\ open[c] =>
        limiters[peerIP[c]] = lim[c] \/ lim[c] \in gone \/ c \in closing

\* (4) A grant comes from the limiter's own entry, or the limiter is retired
\* already, or the refreshPeers that is pending will retire it.
GrantOrRetired ==
    \A c \in Conns : pc[c] \in {"dial", "recheck"} \cup Serving =>
        \/ grantor[c] = PublicKey(lim[c])
        \/ limiters[peerIP[c]] # lim[c]
        \/ stage = "refresh" /\ KeyAt(cur, peerIP[c]) # PublicKey(lim[c])

RevocationInv == LimiterMap /\ Registered /\ ServedOrReaped /\ GrantOrRetired

SlotHolders(l) == {c \in Conns : lim[c] = l /\ pc[c] \in Holding}

\* peerLimiter.active counts exactly the handlers that took a slot and have
\* not returned it, across reloads that retire or keep the limiter, so the
\* "if active > 0" of release never hides a lost slot.
SlotsAccounted ==
    \A l \in Limiters : active[l] = Cardinality(SlotHolders(l))

\* A handler joins a limiter only within the cap now configured for it, also
\* while a lowered cap is exceeded by connections admitted before.
CapHonoured ==
    [][\A l \in Limiters :
         ~(SlotHolders(l)' \subseteq SlotHolders(l))
            => Cardinality(SlotHolders(l)') <= maxConc'[l]]_vars

\* After a reload none of whose device steps failed, the device holds the
\* keys, preshared keys and routes of the list in force, and nothing else.
\* applyDiff sees one delta at a time, in any order of its entries,
\* including two peers that exchange their addresses.
DeviceAgrees ==
    stage = "idle" /\ failed = {} =>
        /\ psk = [k \in Keys |-> IF k \in DOMAIN cur THEN cur[k].psk ELSE NoRef]
        /\ route = [ip \in IPs |-> KeyAt(cur, ip)]

\* A removed peer is off the device at the end of the reload even when
\* other entries of it could not be applied: removals go first and do not
\* wait for a preshared key.
RevocationEffective ==
    stage = "idle" /\ "revoke" \notin failed =>
        /\ \A k \in Keys : psk[k] # NoRef => k \in DOMAIN cur
        /\ \A ip \in IPs : route[ip] # NoKey => route[ip] \in DOMAIN cur

\* The inductive invariant behind the two properties above.  An entry that
\* applyDiff has dealt with is on the device with its key and at its own
\* address, what an update finds is there to be updated, and a route that is
\* not right belongs to an entry still to come.  With failures, what is left
\* of it is that a peer on the device is listed or waits for its removal.
Pending == toRemove \cup toAdd \cup toChange
DeviceInv ==
    /\ stage = "idle" => DiffApplied
    /\ toRemove \cap DOMAIN cur = {}
    /\ failed = {} =>
        /\ \A k \in Keys \ Pending : psk[k] = IF k \in DOMAIN cur THEN cur[k].psk ELSE NoRef
        /\ \A k \in toChange : psk[k] # NoRef
        /\ \A k \in DOMAIN cur \ Pending : route[cur[k].ip] = k
        /\ \A ip \in IPs : \/ route[ip] \in Pending \cup {NoKey}
                           \/ route[ip] \in DOMAIN cur /\ cur[route[ip]].ip = ip
    /\ "revoke" \notin failed =>
        /\ \A k \in Keys : psk[k] # NoRef => k \in DOMAIN cur \cup toRemove
        /\ \A ip \in IPs : route[ip] # NoKey => route[ip] \in DOMAIN cur \cup toRemove

\* What the integration guide says of a revocation: no window in which a
\* revoked key still works.  It does not hold when the reload gives the
\* revoked key's address to another key: see the README.
RevokedKeyNotServed ==
    stage = "idle" /\ failed = {} =>
        \A c \in Conns : pc[c] = "pipe" /\ open[c] => origin[c] \in DOMAIN cur

\* What handleConn relies on: the key the device binds to a tunnel address
\* is the key the peer list binds to it.  It does not hold after a reload in
\* which entries failed to apply: see the README.
AddressIsIdentity ==
    stage = "idle" /\ "revoke" \notin failed =>
        \A ip \in IPs : limiters[ip] # NoLimiter /\ route[ip] # NoKey
                          => route[ip] = PublicKey(limiters[ip])

\* Where the two hold all the same.  Only a list that gave the address to a
\* key puts the key at the address, on the device and at a handler; so they
\* hold if no address is ever given to a second key, and then from the end
\* of refreshPeers on and whatever fails.
Owns(k, ip) == \E cfg \in Configs : k \in DOMAIN cfg /\ cfg[k].ip = ip
AddressInv ==
    /\ \A ip \in IPs : route[ip] # NoKey => Owns(route[ip], ip)
    /\ \A c \in Conns : pc[c] # "free" => Owns(origin[c], peerIP[c])
ServedKeyIsListed ==
    Reaped => \A c \in Conns : pc[c] \in Serving /\ open[c] => origin[c] \in DOMAIN cur
NoAddressReused == \A j, k \in Keys, ip \in IPs : Owns(j, ip) /\ Owns(k, ip) => j = k

\* A handler whose limiter is no longer in force always returns, and with it
\* its slot, its connections and its file descriptors.
RetiredReturns ==
    \A c \in Conns :
        (pc[c] \in Holding /\ limiters[peerIP[c]] # lim[c]) ~> pc[c] = "free"
-----------------------------------------------------------------------------
(* The abstract specification.  A limiter is an authorization: it is made  *)
(* when a key takes an address and dropped when the key leaves it.         *)

ServedUnder == [c \in Conns |-> IF pc[c] \in Serving /\ open[c] THEN lim[c] ELSE NoLimiter]
LimitersInForce == {limiters[ip] : ip \in IPs} \ {NoLimiter}

Rev == INSTANCE Revocation WITH
    Auths <- Limiters, None <- NoLimiter,
    inForce <- LimitersInForce, served <- ServedUnder

\* The server's steps are steps of the abstract specification: whatever the
\* interleaving of handlers, reap and re-check, a connection starts to be
\* served only under a limiter in force at that moment, and refreshPeers
\* swaps the map only when the last swap has been reaped to the end.
RevocationRefined == Rev!SafeSpec

\* Its liveness as well: what a reload has left without authorization ends,
\* also when device steps of the reload fail.
ImplementsRevocation == Rev!Spec
=============================================================================
