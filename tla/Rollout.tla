------------------------------ MODULE Rollout ------------------------------
(***************************************************************************)
(* The whole way of an edit: from a write to peers.yaml, through the       *)
(* watcher (PeerWatcher), the loader (PeersFile), the reload's diff        *)
(* (PeersConfig) and the resolution of preshared keys (secret.go and the   *)
(* cache in server.go), to the keys and routes of the device (device.go).  *)
(*                                                                         *)
(* TunnelServer has the same reload against connections, with references   *)
(* for secrets.  Here the secrets have values, which operators rotate      *)
(* under the server's feet, and files are what an operator may write.      *)
(* refreshPeers, which touches neither device nor cache, is left to it.    *)
(***************************************************************************)
EXTENDS PeerWatcher, PeersFile, FiniteSets

CONSTANTS KeyRef,        \* ServerConfig.PrivateKey
          Stores,        \* what the secret stores may hold at startup
          Secrets,       \* values that decode to a 32-byte key
          Rotations,     \* <<reference, content>>: what may be stored later
          MaxRotations   \* bound: changes of a stored secret

ASSUME MaxRotationsAssumption == MaxRotations \in Nat

VARIABLES
    stage,      \* "start", "idle", "apply", or "down" when startup failed
    toRemove,   \* peers still to be applied: of the initial list, or of
    toAdd,      \*   the diff that applyDiff walks
    toChange,
    store,      \* what a secret store holds under each reference
    rotations,  \* changes of a stored secret so far
    pskCache,   \* Server.pskCache: reference to value
    devPsk,     \* the device: the preshared key of each public key
    route,      \* the device: tunnel address to key
    unapplied   \* history: keys whose last apply or removal did not reach the device

diffVars == <<toRemove, toAdd, toChange>>
deviceVars == <<devPsk, route>>
storeVars == <<store, rotations>>
applyVars == <<stage, diffVars, pskCache, deviceVars, unapplied>>
allVars == <<vars, storeVars, applyVars>>

None == "none"   \* no value cached, no such peer on the device
Fail == "fail"   \* the resolver returned an error

\* "loose" is a file readable by others; "garbage" decodes to no key: text
\* of another kind, or the first half of a write in place.
Values == Secrets \cup {"empty", "garbage"}
Held == Values \cup {"absent", "loose"}

ASSUME SecretsAssumption ==
    Secrets \cap {None, Fail, "empty", "garbage", "absent", "loose"} = {}

\* The environment of a running process does not change; only a file has
\* permissions.
ASSUME RotationsAssumption ==
    \A r \in Rotations :
        /\ r[1] \in Refs \cup {KeyRef} /\ r[2] \in Held
        /\ r[1][1] # "env" /\ (r[2] = "loose" => r[1][1] = "file")

\* Run has resolved the private key and made a device with it.
ASSUME StoresAssumption ==
    \A s \in Stores : s \in [Refs \cup {KeyRef} -> Held] /\ s[KeyRef] \in Secrets

\* The validated list of each file that loads.
Lists == [f \in Valid |-> PeerList(f)]

\* Valid and Invalid, the watcher's parameters, are what LoadPeersConfig
\* accepts and refuses of the files an operator writes; IPs and Refs have the
\* addresses and the references that occur in them.
ASSUME FilesAssumption ==
    /\ Valid \cup Invalid \subseteq PeersFiles
    /\ Valid = {f \in Valid \cup Invalid : LoadPeersConfig(f).ok}
    /\ \A f \in Valid : \A i \in DOMAIN f.peers :
          f.peers[i].psk \in Refs /\ ParseTunnelIP(f.peers[i].ip) \in IPs

List == Lists[cur]
ListRefs == {List[k].psk : k \in DOMAIN List}

RolloutTypeOK ==
    /\ TypeOK
    /\ stage \in {"start", "idle", "apply", "down"}
    /\ toRemove \subseteq Keys /\ toAdd \subseteq DOMAIN List /\ toChange \subseteq DOMAIN List
    /\ store \in [Refs \cup {KeyRef} -> Held] /\ rotations \in 0..MaxRotations
    /\ pskCache \in [Refs \cup {KeyRef} -> Values \cup {None}]
    /\ devPsk \in [Keys -> Secrets \cup {None}]
    /\ route \in [IPs -> Keys \cup {NoKey}]
    /\ unapplied \subseteq Keys

\* Run has resolved the private key, which goes through the same cache, and
\* loaded the peer list; the device will be empty.
RolloutInit ==
    /\ Init
    /\ stage = "start" /\ toAdd = DOMAIN List /\ toRemove = {} /\ toChange = {}
    /\ store \in Stores /\ rotations = 0
    /\ pskCache = [r \in Refs \cup {KeyRef} |-> IF r = KeyRef THEN store[r] ELSE None]
    /\ devPsk = [k \in Keys |-> None] /\ route = [ip \in IPs |-> NoKey]
    /\ unapplied = {}

-----------------------------------------------------------------------------
(* Secrets.                                                                *)

\* secretResolver.Resolve: what it may return.  The environment of a process
\* is never loose; the resolver behind every other scheme is the caller's,
\* it may fail at any time, and its empty answer is refused.
Resolved(ref) ==
    LET v == store[ref] IN
    CASE ref[1] = "file" -> {IF v \in {"absent", "loose"} THEN Fail ELSE v}
      [] ref[1] = "env"  -> {IF v = "absent" THEN Fail ELSE v}
      [] OTHER -> {Fail, IF v \in Secrets \cup {"garbage"} THEN v ELSE Fail}

\* Server.resolveSecret returns v, from the cache or through it.  Whether a
\* value is a key is found out by the device, after it was cached.
ResolveSecret(ref, v) ==
    /\ v \in IF pskCache[ref] # None THEN {pskCache[ref]} ELSE Resolved(ref)
    /\ pskCache' = IF v = Fail THEN pskCache ELSE [pskCache EXCEPT ![ref] = v]

\* A secret is written, half written, removed or replaced in place.
Rotate(ref, x) ==
    /\ rotations < MaxRotations /\ rotations' = rotations + 1
    /\ store' = [store EXCEPT ![ref] = x]
    /\ UNCHANGED <<vars, applyVars>>

-----------------------------------------------------------------------------
(* The device.                                                             *)

\* replace_allowed_ips, then allowed_ip: the key leaves its old address and
\* takes the new one from whoever holds it.
Routed(k, ip) ==
    [a \in IPs |-> IF a = ip THEN k ELSE IF route[a] = k THEN NoKey ELSE route[a]]

\* Defective variant of ApplyPeer: an update whose key has not changed
\* leaves the device alone.
ApplyPeerIfRotated(k, updateOnly) ==
    LET p == List[k] IN
    \E v \in Values \cup {Fail} :
        /\ ResolveSecret(p.psk, v)
        /\ IF v \in Secrets /\ devPsk[k] # v /\ (updateOnly => devPsk[k] # None)
           THEN /\ devPsk' = [devPsk EXCEPT ![k] = v]
                /\ route' = Routed(k, p.ip)
                /\ unapplied' = unapplied \ {k}
           ELSE /\ UNCHANGED deviceVars
                /\ unapplied' = IF v \in Secrets THEN unapplied ELSE unapplied \cup {k}

\* Server.applyPeer with AddPeer or UpdatePeer.  keyToHex refuses a value
\* that is no key; an update-only request for a peer the device does not
\* have succeeds and does nothing.
ApplyPeer(k, updateOnly) ==
    LET p == List[k] IN
    \E v \in Values \cup {Fail} :
        /\ ResolveSecret(p.psk, v)
        /\ IF v \in Secrets /\ (updateOnly => devPsk[k] # None)
           THEN /\ devPsk' = [devPsk EXCEPT ![k] = v]
                /\ route' = Routed(k, p.ip)
                /\ unapplied' = unapplied \ {k}
           ELSE /\ UNCHANGED deviceVars
                /\ unapplied' = unapplied \cup {k}

-----------------------------------------------------------------------------
(* Run, before it serves.                                                  *)

\* A peer of the initial list; one that cannot be applied stops startup.
StartPeer(k) ==
    /\ stage = "start" /\ mode = "select" /\ k \in toAdd
    /\ toAdd' = toAdd \ {k} /\ ApplyPeer(k, FALSE)
    /\ IF k \in unapplied' THEN stage' = "down" /\ mode' = "stopped"
       ELSE UNCHANGED <<stage, mode>>
    /\ UNCHANGED <<fileVars, chanVars, id, data, seen, cur, storeVars, toRemove, toChange>>

\* The watcher's goroutine starts once every peer is applied.
Started ==
    /\ stage = "start" /\ mode = "select" /\ toAdd = {}
    /\ stage' = "idle"
    /\ UNCHANGED <<vars, storeVars, diffVars, pskCache, deviceVars, unapplied>>

-----------------------------------------------------------------------------
(* handleReload, in the watcher's goroutine.                               *)

\* reloadLocked publishes the list and hands the diff to handleReload.
PublishList ==
    /\ Publish
    /\ IF data \in Valid
       THEN /\ stage' = "apply"
            /\ toRemove' = Removed(List, Lists[data])
            /\ toAdd' = Added(List, Lists[data])
            /\ toChange' = Changed(List, Lists[data])
       ELSE UNCHANGED <<stage, diffVars>>
    /\ UNCHANGED <<storeVars, pskCache, deviceVars, unapplied>>

\* RemovePeer, or its error: the key stays, and applyDiff goes on to the
\* next entry.  Only a diff after the key was listed again removes it again.
RevokePeer(k) ==
    /\ stage = "apply" /\ k \in toRemove
    /\ toRemove' = toRemove \ {k}
    /\ \/ /\ devPsk' = [devPsk EXCEPT ![k] = None]
          /\ route' = [a \in IPs |-> IF route[a] = k THEN NoKey ELSE route[a]]
          /\ unapplied' = unapplied \ {k}
       \/ unapplied' = unapplied \cup {k} /\ UNCHANGED deviceVars
    /\ UNCHANGED <<vars, storeVars, stage, toAdd, toChange, pskCache>>

AddPeer(k) ==
    /\ stage = "apply" /\ toRemove = {} /\ k \in toAdd
    /\ toAdd' = toAdd \ {k} /\ ApplyPeer(k, FALSE)
    /\ UNCHANGED <<vars, storeVars, stage, toRemove, toChange>>

UpdatePeer(k) ==
    /\ stage = "apply" /\ toRemove = {} /\ toAdd = {} /\ k \in toChange
    /\ toChange' = toChange \ {k} /\ ApplyPeer(k, TRUE)
    /\ UNCHANGED <<vars, storeVars, stage, toRemove, toAdd>>

\* Defective variants of Pruned: everything goes; the peers of the diff only.
PrunedAll == [r \in DOMAIN pskCache |-> IF r = KeyRef THEN pskCache[r] ELSE None]
PrunedNothing == pskCache

\* pruneSecretCache.
Pruned ==
    [r \in DOMAIN pskCache |-> IF r \in ListRefs \cup {KeyRef} THEN pskCache[r] ELSE None]

\* The end of handleReload, which is the end of the watcher's callback.
FinishReload ==
    /\ stage = "apply" /\ toRemove = {} /\ toAdd = {} /\ toChange = {}
    /\ stage' = "idle" /\ pskCache' = Pruned
    /\ Report
    /\ UNCHANGED <<storeVars, diffVars, deviceVars, unapplied>>

\* handleReload of a file that did not load: it is logged.
RejectedReload == stage = "idle" /\ Report /\ UNCHANGED <<storeVars, applyVars>>

-----------------------------------------------------------------------------
\* The watcher's other steps, the environment's among them.
WatcherStep ==
    /\ \/ \E x \in Contents : Edit(x)
       \/ WatchDies \/ WatchError \/ Arm
       \/ stage # "start" /\ (OnEvent \/ OnError \/ OnDebounce \/ OnRearm)
       \/ StatFile \/ ReadFile
       \/ stage = "idle" /\ Stop
    /\ UNCHANGED <<storeVars, applyVars>>

ApplyStep ==
    \/ Started \/ PublishList \/ FinishReload \/ RejectedReload
    \/ \E k \in Keys : StartPeer(k) \/ RevokePeer(k) \/ AddPeer(k) \/ UpdatePeer(k)

RolloutNext ==
    \/ WatcherStep \/ ApplyStep
    \/ \E r \in Rotations : Rotate(r[1], r[2])

\* The steps of startup and of a reload follow one another: a call of the
\* secret store returns, by secretResolveTimeout if not before.  The ticker
\* fires for ever, and select is fair between ready channels.
RolloutFairness ==
    /\ WF_allVars(ApplyStep)
    /\ WF_allVars((Arm \/ StatFile \/ ReadFile) /\ UNCHANGED <<storeVars, applyVars>>)
    /\ SF_allVars(stage # "start" /\ OnRearm /\ UNCHANGED <<storeVars, applyVars>>)

RolloutSpec == RolloutInit /\ [][RolloutNext]_allVars /\ RolloutFairness

-----------------------------------------------------------------------------
(* Properties.                                                             *)

\* What LoadPeersConfig owes the parts that trust its list, on every file of
\* the instance: an accepted entry can be applied and granted as it stands,
\* deleting entries never turns a valid file invalid and revokes those keys
\* only, and the order of the entries does not matter.
LoaderHolds ==
    mode = "new" /\ edits = 0 /\ rotations = 0 =>
        AcceptedIsUsable /\ DeletionRevokes /\ OrderIrrelevant

\* Between reloads a key on the device is listed or is one whose removal
\* failed, every route is to a key on the device, and no peer is there
\* without a real preshared key; and a listed peer whose last apply went
\* through has the address of its entry, also against what a failed removal
\* left behind, and the value in the cache, so two peers of one reference
\* agree on it, however the stored secret was rotated since.
DeviceFollows ==
    stage = "idle" =>
        /\ \A k \in Keys : devPsk[k] # None =>
              k \in DOMAIN List \cup unapplied /\ devPsk[k] \in Secrets
        /\ \A a \in IPs : route[a] # NoKey => devPsk[route[a]] # None
        /\ \A k \in DOMAIN List \ unapplied :
              route[List[k].ip] = k /\ devPsk[k] = pskCache[List[k].psk]

\* A rotation in place is not picked up by half: while a reference stays in
\* the list, reload after reload, the value behind it stays the one first
\* resolved, so a peer that is changed gets what its neighbours have.
CachedIsStable ==
    [][\A r \in Refs : r \in ListRefs /\ r \in ListRefs' /\ pskCache[r] # None
          => pskCache'[r] = pskCache[r]]_allVars

\* A revoked peer's preshared key does not stay resident, and the device's
\* own key is never forgotten.
NoResidentSecret ==
    stage = "idle" =>
        /\ pskCache[KeyRef] # None
        /\ \A r \in Refs \ {KeyRef} : pskCache[r] # None => r \in ListRefs

\* An edit reaches the device, end to end.  Whatever is lost, torn, rotated
\* or refused on the way, once the file stays put and is valid the device
\* ends up with the keys it lists and no other; a listed key is missing only
\* if its last apply failed, and another is left over only if its removal
\* failed.  (Or the watcher has stopped, and with it the server.)
EditReachesDevice ==
    <>[](\/ mode \in {"stopped", "failed"}
         \/ file \in Valid =>
               /\ \A k \in Keys : devPsk[k] # None => k \in DOMAIN Lists[file] \cup unapplied
               /\ \A k \in DOMAIN Lists[file] : devPsk[k] = None => k \in unapplied)

-----------------------------------------------------------------------------
(* The inductive invariant behind DeviceFollows, NoResidentSecret and      *)
(* CachedIsStable.                                                         *)

\* Where the watcher is while a list is being applied, and which part of a
\* diff may be pending.
StageInv ==
    /\ stage = "start" => mode \in {"new", "select", "failed"} /\ toRemove = {} /\ toChange = {}
    /\ stage = "idle" => toRemove = {} /\ toAdd = {} /\ toChange = {}
    /\ stage = "apply" => mode = "report"
    /\ stage = "down" => mode = "stopped"
    /\ toRemove \cap DOMAIN List = {}

\* What is on the device is listed, waits for its removal or was left by one
\* that failed, and an entry that was applied and is not up for another apply is there as listed.
SettledInv ==
    /\ \A k \in Keys : devPsk[k] # None => k \in DOMAIN List \cup toRemove \cup unapplied
    /\ \A a \in IPs : route[a] # NoKey => devPsk[route[a]] # None
    /\ \A k \in DOMAIN List \ (unapplied \cup toAdd \cup toChange) :
          route[List[k].ip] = k /\ devPsk[k] = pskCache[List[k].psk]

\* Only a reload caches references that are not in the list, and it forgets
\* them before it ends.
CacheInv ==
    /\ pskCache[KeyRef] # None
    /\ stage \in {"start", "idle"} =>
          \A r \in Refs \ {KeyRef} : pskCache[r] # None => r \in ListRefs

RolloutInv == RolloutTypeOK /\ StageInv /\ SettledInv /\ CacheInv
=============================================================================
