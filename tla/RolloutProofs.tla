---------------------------- MODULE RolloutProofs ----------------------------
(***************************************************************************)
(* Proofs about the way of an edit, for every set of files, keys and       *)
(* secrets, any number of edits and of rotations: the composition's steps  *)
(* are steps of the watcher, and RolloutInv is inductive.                  *)
(***************************************************************************)
EXTENDS Rollout, PeersFileProofs

-----------------------------------------------------------------------------
(* The watcher by itself: WatchInv is inductive.                           *)

LEMMA InitWatch == Init => WatchInv
<1> SUFFICES ASSUME Init PROVE WatchInv
  OBVIOUS
<1>1. file \in Contents /\ file # Missing /\ FileID = 1
  BY ContentsAssumption DEF Init, FileID, Contents
<1>2. edits \in 0..MaxEdits /\ id \in 0..(MaxEdits + 1) /\ seen \in 0..(MaxEdits + 1)
  BY <1>1, MaxEditsAssumption DEF Init
<1>3. /\ watching \in BOOLEAN /\ event \in BOOLEAN /\ err \in BOOLEAN /\ debounce \in BOOLEAN
      /\ mode = "new" /\ data \in Contents /\ cur \in Valid
  BY <1>1 DEF Init
<1>4. TypeOK
  BY <1>1, <1>2, <1>3 DEF TypeOK
<1>5. QED
  BY <1>1, <1>2, <1>4 DEF Init, WatchInv, SeenIsLoaded, ReadIsCurrent, IdentityPast

LEMMA NextWatch == WatchInv /\ [Next]_vars => WatchInv'
<1> SUFFICES ASSUME WatchInv, [Next]_vars PROVE WatchInv'
  OBVIOUS
<1> USE ContentsAssumption, MaxEditsAssumption
    DEF WatchInv, TypeOK, SeenIsLoaded, ReadIsCurrent, IdentityPast, FileID, fileVars, chanVars
<1>1. ASSUME NEW x \in Contents, Edit(x) PROVE WatchInv'
  <2>1. /\ edits \in Nat /\ edits < MaxEdits /\ edits' = edits + 1 /\ file' = x
        /\ UNCHANGED <<watching, err, debounce, mode, id, data, seen, cur>>
    BY <1>1 DEF Edit
  <2>2. event' \in BOOLEAN
    BY <1>1 DEF Edit
  <2>3. TypeOK'
    <3>1. edits' \in 0..MaxEdits
      BY <2>1
    <3>2. QED
      BY <2>1, <2>2, <3>1
  <2>4. SeenIsLoaded'
    BY <2>1
  <2>5. ReadIsCurrent'
    BY <2>1
  <2>6. IdentityPast'
    BY <2>1
  <2>7. QED
    BY <2>3, <2>4, <2>5, <2>6
<1>2. CASE WatchDies \/ WatchError
  BY <1>2 DEF WatchDies, WatchError
<1>3. CASE Arm \/ OnEvent \/ OnError \/ OnDebounce \/ OnRearm
  BY <1>3 DEF Arm, OnEvent, OnError, OnDebounce, OnRearm, RearmWatch
<1>4. CASE StatFile
  BY <1>4 DEF StatFile
<1>5. CASE ReadFile
  BY <1>5 DEF ReadFile
<1>6. CASE Publish
  BY <1>6 DEF Publish
<1>7. CASE Report \/ Stop
  BY <1>7 DEF Report, Stop
<1>8. CASE UNCHANGED vars
  BY <1>8 DEF vars
<1>9. QED
  BY <1>1, <1>2, <1>3, <1>4, <1>5, <1>6, <1>7, <1>8 DEF Next, RunStep

\* However the operator's edits fall between the steps of a reload, the
\* identity recorded by reloadLocked never vouches for a valid file that is
\* not in force.
THEOREM SeenFileIsLoaded == Spec => []SeenIsLoaded
<1>1. WatchInv => SeenIsLoaded
  BY DEF WatchInv
<1>2. QED
  BY <1>1, InitWatch, NextWatch, PTL DEF Spec

-----------------------------------------------------------------------------
(* The lists that are loaded.                                              *)

\* The loader's loop makes every list one of known keys without a shared
\* address.
LEMMA ListsAre ==
    ASSUME NEW f \in Valid
    PROVE  /\ DOMAIN Lists[f] \subseteq Keys
           /\ \A k \in DOMAIN Lists[f] : Lists[f][k].ip \in IPs /\ Lists[f][k].psk \in Refs
           /\ \A j, k \in DOMAIN Lists[f] : Lists[f][j].ip = Lists[f][k].ip => j = k
<1> DEFINE E == Range(f.peers)
           entry(i) == ValidatePeer(f.peers[i])
           list == PeerList(f)
<1>1. f.peers \in Seq(E) /\ LoadPeersConfig(f).ok
  BY FilesAssumption, PeersFilesAssumption
<1> HIDE DEF E
<1>2. /\ DOMAIN list = {f.peers[i].key : i \in DOMAIN f.peers}
      /\ \A i \in DOMAIN f.peers : entry(i) # NoEntry /\ list[f.peers[i].key] = entry(i)
      /\ \A i, j \in DOMAIN f.peers : i # j => Differ(entry(i), entry(j))
  BY <1>1, ListIs
<1>3. \A i \in DOMAIN f.peers :
        f.peers[i].key \in Keys /\ entry(i).ip = ParseTunnelIP(f.peers[i].ip) /\ entry(i).psk = f.peers[i].psk
  BY <1>2, EntryIs
<1> HIDE DEF entry, list
<1>4. DOMAIN list \subseteq Keys
  BY <1>2, <1>3
<1>5. \A k \in DOMAIN list : list[k].ip \in IPs /\ list[k].psk \in Refs
  BY <1>2, <1>3, FilesAssumption
<1>6. \A j, k \in DOMAIN list : list[j].ip = list[k].ip => j = k
  BY <1>2 DEF Differ
<1>7. Lists[f] = list
  BY DEF Lists, list
<1>8. QED
  BY <1>4, <1>5, <1>6, <1>7

\* The loader keeps its promises to the parts that trust its lists, on files
\* of any length and whatever they say (LoadPeersConfig, validatePeer,
\* newPolicy, diffPeers).
THEOREM LoaderKeepsPromises == RolloutSpec => []LoaderHolds
<1>1. LoaderHolds
  BY AcceptedEntriesAreUsable, DeletionAlwaysRevokes, OrderDecidesNothing DEF LoaderHolds
<1>2. QED
  BY <1>1, PTL

\* What the list in force is like.
LEMMA ListFacts ==
    ASSUME TypeOK
    PROVE  /\ DOMAIN List \subseteq Keys
           /\ \A k \in DOMAIN List : List[k].ip \in IPs /\ List[k].psk \in Refs
           /\ \A j, k \in DOMAIN List : List[j].ip = List[k].ip => j = k
BY ListsAre DEF TypeOK, List

\* A step that leaves the list in force alone.
LEMMA SameList ==
    ASSUME cur' = cur
    PROVE  List' = List /\ ListRefs' = ListRefs
BY DEF List, ListRefs

-----------------------------------------------------------------------------
(* The watcher is a part of the composition.                               *)

LEMMA InitIsWatcher == RolloutInit => Init
BY DEF RolloutInit

\* A step of the composition is a step of the watcher, or none of its
\* business.  A startup that fails closes the watcher.
LEMMA StepIsWatcher ==
    ASSUME [RolloutNext]_allVars
    PROVE  [Next]_vars
<1>1. CASE WatcherStep
  BY <1>1 DEF WatcherStep, Next, RunStep
<1>2. ASSUME NEW k \in Keys, StartPeer(k) PROVE [Next]_vars
  <2>1. CASE mode' = "stopped"
    <3>1. Stop
      BY <1>2, <2>1 DEF StartPeer, Stop
    <3>2. QED
      BY <3>1 DEF Next
  <2>2. CASE mode' = mode
    BY <1>2, <2>2 DEF StartPeer, vars
  <2>3. QED
    BY <1>2, <2>1, <2>2 DEF StartPeer
<1>3. CASE PublishList \/ FinishReload \/ RejectedReload
  BY <1>3 DEF PublishList, FinishReload, RejectedReload, Next, RunStep
<1>4. CASE Started \/ \E k \in Keys : RevokePeer(k) \/ AddPeer(k) \/ UpdatePeer(k)
  BY <1>4 DEF Started, RevokePeer, AddPeer, UpdatePeer
<1>5. CASE \E r \in Rotations : Rotate(r[1], r[2])
  BY <1>5 DEF Rotate
<1>6. CASE UNCHANGED allVars
  BY <1>6 DEF allVars
<1>7. QED
  BY <1>1, <1>2, <1>3, <1>4, <1>5, <1>6 DEF RolloutNext, ApplyStep

\* The composition implements the watcher's specification (peerWatcher.Run
\* with handleReload as its callback).
THEOREM RolloutIsWatcher == RolloutSpec => Spec
BY InitIsWatcher, StepIsWatcher, PTL DEF RolloutSpec, Spec

\* So the identity the watcher records vouches for the list in force also
\* while reloads are applied to a device between its steps (reloadLocked).
THEOREM AppliedFileIsSeen == RolloutSpec => []SeenIsLoaded
BY RolloutIsWatcher, SeenFileIsLoaded, PTL

LEMMA WatcherType == RolloutSpec => []TypeOK
<1>1. WatchInv => TypeOK
  BY DEF WatchInv
<1>2. QED
  BY <1>1, RolloutIsWatcher, InitWatch, NextWatch, PTL DEF Spec

-----------------------------------------------------------------------------
(* The inductive invariant.                                                *)

LEMMA InitRollout == RolloutInit => RolloutInv
<1> SUFFICES ASSUME RolloutInit PROVE RolloutInv
  OBVIOUS
<1>1. TypeOK
  BY InitWatch DEF RolloutInit, WatchInv
<1>2. store \in [Refs \cup {KeyRef} -> Held] /\ store[KeyRef] \in Secrets
  BY StoresAssumption DEF RolloutInit
<1>3. None \notin Secrets
  BY SecretsAssumption
<1>4. RolloutTypeOK
  BY <1>1, <1>2, ListFacts, MaxRotationsAssumption DEF RolloutInit, RolloutTypeOK, Values
<1>5. StageInv /\ SettledInv
  BY DEF RolloutInit, Init, StageInv, SettledInv
<1>6. CacheInv
  BY <1>2, <1>3 DEF RolloutInit, CacheInv
<1>7. QED
  BY <1>4, <1>5, <1>6 DEF RolloutInv

\* resolveSecret returns the value in the cache, or puts its answer there; it
\* replaces none.
LEMMA ResolvesOnce ==
    ASSUME RolloutTypeOK, NEW ref \in Refs, NEW v \in Values \cup {Fail}, ResolveSecret(ref, v)
    PROVE  /\ pskCache' \in [Refs \cup {KeyRef} -> Values \cup {None}]
           /\ \A r \in Refs \cup {KeyRef} : pskCache[r] # None => pskCache'[r] = pskCache[r]
           /\ \A r \in Refs \cup {KeyRef} : r # ref => pskCache'[r] = pskCache[r]
           /\ v # Fail => pskCache'[ref] = v
<1>1. CASE v = Fail
  BY <1>1 DEF ResolveSecret, RolloutTypeOK
<1>2. CASE v # Fail
  BY <1>2 DEF ResolveSecret, RolloutTypeOK
<1>3. QED
  BY <1>1, <1>2

\* applyPeer of a listed entry settles it or marks it, disturbs no other
\* entry that is settled, and caches nothing but its own reference.
LEMMA ApplySettles ==
    ASSUME RolloutTypeOK, SettledInv, CacheInv, NEW k \in DOMAIN List, NEW u \in BOOLEAN,
           ApplyPeer(k, u), UNCHANGED <<cur, toRemove>>,
           toAdd' \subseteq toAdd, toChange' \subseteq toChange,
           (toAdd \cup toChange) \ {k} \subseteq toAdd' \cup toChange'
    PROVE  /\ SettledInv'
           /\ pskCache' \in [Refs \cup {KeyRef} -> Values \cup {None}]
           /\ devPsk' \in [Keys -> Secrets \cup {None}]
           /\ route' \in [IPs -> Keys \cup {NoKey}]
           /\ unapplied' \subseteq Keys
           /\ pskCache'[KeyRef] # None
           /\ \A r \in Refs \cup {KeyRef} : pskCache[r] # None => pskCache'[r] = pskCache[r]
           /\ \A r \in Refs : pskCache'[r] # None => pskCache[r] # None \/ r \in ListRefs
<1>1. /\ List' = List /\ k \in Keys /\ List[k].ip \in IPs /\ List[k].psk \in Refs
      /\ DOMAIN List \subseteq Keys
      /\ \A j \in DOMAIN List : List[j].ip \in IPs /\ List[j].psk \in Refs
      /\ \A j \in DOMAIN List : List[j].ip = List[k].ip => j = k
  BY SameList, ListFacts DEF RolloutTypeOK
<1>2. PICK v \in Values \cup {Fail} :
        /\ ResolveSecret(List[k].psk, v)
        /\ IF v \in Secrets /\ (u => devPsk[k] # None)
           THEN /\ devPsk' = [devPsk EXCEPT ![k] = v]
                /\ route' = Routed(k, List[k].ip)
                /\ unapplied' = unapplied \ {k}
           ELSE /\ UNCHANGED deviceVars
                /\ unapplied' = unapplied \cup {k}
  BY DEF ApplyPeer
<1>3. /\ pskCache' \in [Refs \cup {KeyRef} -> Values \cup {None}]
      /\ \A r \in Refs \cup {KeyRef} : pskCache[r] # None => pskCache'[r] = pskCache[r]
      /\ \A r \in Refs \cup {KeyRef} : r # List[k].psk => pskCache'[r] = pskCache[r]
      /\ v # Fail => pskCache'[List[k].psk] = v
  BY <1>1, <1>2, ResolvesOnce
<1>4. k # NoKey /\ None \notin Secrets /\ Fail \notin Secrets
  BY <1>1, NoKeyAssumption, SecretsAssumption
<1>5. /\ pskCache'[KeyRef] # None
      /\ \A r \in Refs : pskCache'[r] # None => pskCache[r] # None \/ r \in ListRefs
  BY <1>1, <1>3 DEF CacheInv, ListRefs
\* What is settled has a value in the cache, which stays.
<1>6. \A j \in DOMAIN List \ (unapplied \cup toAdd \cup toChange) :
        /\ route[List[j].ip] = j
        /\ devPsk[j] = pskCache[List[j].psk] /\ pskCache'[List[j].psk] = pskCache[List[j].psk]
  <2> SUFFICES ASSUME NEW j \in DOMAIN List \ (unapplied \cup toAdd \cup toChange)
               PROVE  /\ route[List[j].ip] = j
                      /\ devPsk[j] = pskCache[List[j].psk]
                      /\ pskCache'[List[j].psk] = pskCache[List[j].psk]
    OBVIOUS
  <2>1. route[List[j].ip] = j /\ devPsk[j] = pskCache[List[j].psk]
    BY DEF SettledInv
  <2>2. devPsk[j] # None
    BY <1>1, <2>1, NoKeyAssumption DEF SettledInv
  <2>3. QED
    BY <1>1, <1>3, <2>1, <2>2
<1>7. CASE v \in Secrets /\ (u => devPsk[k] # None)
  <2>1. /\ devPsk' = [devPsk EXCEPT ![k] = v] /\ unapplied' = unapplied \ {k}
        /\ pskCache'[List[k].psk] = v /\ v # None
    BY <1>2, <1>3, <1>4, <1>7
  <2>2. \A a \in IPs : route'[a] = IF a = List[k].ip THEN k
                                   ELSE IF route[a] = k THEN NoKey ELSE route[a]
    BY <1>2, <1>7 DEF Routed
  <2>3. /\ devPsk' \in [Keys -> Secrets \cup {None}] /\ unapplied' \subseteq Keys
        /\ route' \in [IPs -> Keys \cup {NoKey}]
    BY <1>1, <1>2, <1>7, <2>1 DEF RolloutTypeOK, Routed
  <2>4. \A j \in Keys : devPsk'[j] # None => j \in DOMAIN List \cup toRemove \cup unapplied'
    BY <1>1, <2>1 DEF SettledInv, RolloutTypeOK
  <2>5. \A a \in IPs : route'[a] # NoKey => devPsk'[route'[a]] # None
    BY <1>1, <2>1, <2>2 DEF SettledInv, RolloutTypeOK
  <2>6. ASSUME NEW j \in DOMAIN List \ (unapplied' \cup toAdd' \cup toChange')
        PROVE  route'[List[j].ip] = j /\ devPsk'[j] = pskCache'[List[j].psk]
    <3>1. CASE j = k
      BY <1>1, <2>1, <2>2, <3>1 DEF RolloutTypeOK
    <3>2. CASE j # k
      BY <1>1, <1>6, <2>1, <2>2, <2>6, <3>2 DEF RolloutTypeOK
    <3>3. QED
      BY <3>1, <3>2
  <2>7. SettledInv'
    BY <1>1, <2>4, <2>5, <2>6 DEF SettledInv
  <2>8. QED
    BY <1>3, <1>5, <2>3, <2>7
<1>8. CASE ~(v \in Secrets /\ (u => devPsk[k] # None))
  <2>1. UNCHANGED <<devPsk, route>> /\ unapplied' = unapplied \cup {k}
    BY <1>2, <1>8 DEF deviceVars
  <2>2. SettledInv'
    BY <1>1, <1>6, <2>1 DEF SettledInv
  <2>3. QED
    BY <1>1, <1>3, <1>5, <2>1, <2>2 DEF RolloutTypeOK
<1>9. QED
  BY <1>7, <1>8

\* A new list is published: what stays as it was is settled as it was.
LEMMA PublishRollout ==
    ASSUME RolloutInv, TypeOK', PublishList
    PROVE  RolloutInv'
<1> USE DEF RolloutInv
<1>1. /\ mode = "publish" /\ mode' = "report" /\ stage = "idle"
      /\ toRemove = {} /\ toAdd = {} /\ toChange = {}
      /\ UNCHANGED <<store, rotations, pskCache, devPsk, route, unapplied>>
  BY DEF PublishList, Publish, StageInv, RolloutTypeOK, storeVars, deviceVars
<1>2. CASE data \in Valid
  <2>1. /\ cur' = data /\ stage' = "apply"
        /\ toRemove' = DOMAIN List \ DOMAIN List'
        /\ toAdd' = DOMAIN List' \ DOMAIN List
        /\ toChange' = {k \in DOMAIN List \cap DOMAIN List' : List[k] # List'[k]}
    BY <1>2 DEF PublishList, Publish, List, Removed, Added, Changed
  <2>2. DOMAIN List \subseteq Keys /\ DOMAIN List' \subseteq Keys
    BY ListsAre DEF RolloutTypeOK, TypeOK, List
  <2>3. RolloutTypeOK'
    BY <1>1, <2>1, <2>2 DEF RolloutTypeOK
  <2>4. StageInv'
    BY <1>1, <2>1 DEF StageInv
  <2>5. \A k \in DOMAIN List' \ (toAdd' \cup toChange') : k \in DOMAIN List /\ List'[k] = List[k]
    BY <2>1
  <2>6. SettledInv'
    BY <1>1, <2>1, <2>5 DEF SettledInv
  <2>7. CacheInv'
    BY <1>1, <2>1 DEF CacheInv
  <2>8. QED
    BY <2>3, <2>4, <2>6, <2>7
<1>3. CASE data \notin Valid
  <2>1. cur' = cur /\ UNCHANGED <<stage, toRemove, toAdd, toChange>>
    BY <1>3 DEF PublishList, Publish, diffVars
  <2>2. List' = List /\ ListRefs' = ListRefs
    BY <2>1, SameList
  <2>3. QED
    BY <1>1, <2>1, <2>2 DEF RolloutTypeOK, StageInv, SettledInv, CacheInv
<1>4. QED
  BY <1>2, <1>3

\* The removals of a reload, those that fail included.
LEMMA RevokeRollout ==
    ASSUME RolloutInv, TypeOK', NEW k \in Keys, RevokePeer(k)
    PROVE  RolloutInv'
<1> USE DEF RolloutInv
<1>1. /\ stage = "apply" /\ k \in toRemove /\ k \notin DOMAIN List /\ k # NoKey
      /\ toRemove' = toRemove \ {k}
      /\ \/ /\ devPsk' = [devPsk EXCEPT ![k] = None]
            /\ route' = [a \in IPs |-> IF route[a] = k THEN NoKey ELSE route[a]]
            /\ unapplied' = unapplied \ {k}
         \/ unapplied' = unapplied \cup {k} /\ UNCHANGED <<devPsk, route>>
      /\ UNCHANGED <<cur, mode, stage, toAdd, toChange, pskCache, store, rotations>>
  BY NoKeyAssumption DEF RevokePeer, StageInv, vars, storeVars, deviceVars
<1>2. List' = List /\ ListRefs' = ListRefs
  BY <1>1, SameList
<1>3. RolloutTypeOK' /\ StageInv' /\ CacheInv'
  BY <1>1, <1>2 DEF RolloutTypeOK, StageInv, CacheInv
<1>4. \A j \in DOMAIN List : j \in Keys /\ List[j].ip \in IPs /\ j # k
  BY <1>1, ListFacts DEF RolloutTypeOK
<1>5. SettledInv'
  BY <1>1, <1>2, <1>4 DEF RolloutTypeOK, SettledInv
<1>6. QED
  BY <1>3, <1>5

\* The entries that applyDiff adds and updates.
LEMMA ApplyRollout ==
    ASSUME RolloutInv, TypeOK', NEW k \in Keys, AddPeer(k) \/ UpdatePeer(k)
    PROVE  RolloutInv'
<1> USE DEF RolloutInv
<1>1. /\ stage = "apply" /\ k \in DOMAIN List
      /\ \E u \in BOOLEAN : ApplyPeer(k, u)
      /\ toAdd' \subseteq toAdd /\ toChange' \subseteq toChange
      /\ (toAdd \cup toChange) \ {k} \subseteq toAdd' \cup toChange'
      /\ UNCHANGED <<cur, mode, stage, toRemove, store, rotations>>
  BY DEF AddPeer, UpdatePeer, RolloutTypeOK, vars, storeVars
<1>2. List' = List
  BY <1>1, SameList
<1>3. /\ SettledInv' /\ pskCache'[KeyRef] # None
      /\ pskCache' \in [Refs \cup {KeyRef} -> Values \cup {None}]
      /\ devPsk' \in [Keys -> Secrets \cup {None}]
      /\ route' \in [IPs -> Keys \cup {NoKey}]
      /\ unapplied' \subseteq Keys
  BY <1>1, ApplySettles
<1>4. QED
  BY <1>1, <1>2, <1>3 DEF RolloutTypeOK, StageInv, CacheInv

\* The peers of the initial list.
LEMMA StartRollout ==
    ASSUME RolloutInv, TypeOK', NEW k \in Keys, StartPeer(k)
    PROVE  RolloutInv'
<1> USE DEF RolloutInv
<1>1. /\ stage = "start" /\ k \in DOMAIN List /\ ApplyPeer(k, FALSE)
      /\ toAdd' = toAdd \ {k}
      /\ UNCHANGED <<cur, toRemove, toChange, store, rotations>>
      /\ (stage' = "down" /\ mode' = "stopped") \/ UNCHANGED <<stage, mode>>
  BY DEF StartPeer, RolloutTypeOK, storeVars
<1>2. List' = List /\ ListRefs' = ListRefs
  BY <1>1, SameList
<1>3. /\ SettledInv' /\ pskCache'[KeyRef] # None
      /\ pskCache' \in [Refs \cup {KeyRef} -> Values \cup {None}]
      /\ devPsk' \in [Keys -> Secrets \cup {None}]
      /\ route' \in [IPs -> Keys \cup {NoKey}]
      /\ unapplied' \subseteq Keys
      /\ \A r \in Refs : pskCache'[r] # None => pskCache[r] # None \/ r \in ListRefs
  BY <1>1, ApplySettles
<1>4. RolloutTypeOK' /\ StageInv'
  BY <1>1, <1>2, <1>3 DEF RolloutTypeOK, StageInv
<1>5. CacheInv'
  BY <1>1, <1>2, <1>3 DEF CacheInv
<1>6. QED
  BY <1>3, <1>4, <1>5

LEMMA NextRollout ==
    ASSUME RolloutInv, TypeOK', [RolloutNext]_allVars
    PROVE  RolloutInv'
<1> USE DEF RolloutInv
<1>1. ASSUME UNCHANGED <<cur, storeVars, applyVars>>, StageInv' PROVE RolloutInv'
  <2>1. List' = List /\ ListRefs' = ListRefs
    BY <1>1, SameList
  <2>2. QED
    BY <1>1, <2>1 DEF storeVars, applyVars, diffVars, deviceVars, RolloutTypeOK, SettledInv, CacheInv
<1>2. CASE WatcherStep
  <2>1. UNCHANGED <<cur, storeVars, applyVars>>
    BY <1>2 DEF WatcherStep, Edit, WatchDies, WatchError, Arm, OnEvent, OnError, OnDebounce,
       OnRearm, StatFile, ReadFile, Stop
  <2>2. List' = List
    BY <2>1, SameList
  <2>3. /\ stage = "start" => mode' \in {"new", "select", "failed"}
        /\ stage = "apply" => mode' = "report"
        /\ stage = "down" => mode' = "stopped"
    BY <1>2 DEF WatcherStep, Edit, WatchDies, WatchError, Arm, OnEvent, OnError, OnDebounce,
       OnRearm, StatFile, ReadFile, Stop, StageInv
  <2>4. StageInv'
    BY <2>1, <2>2, <2>3 DEF applyVars, diffVars, StageInv
  <2>5. QED
    BY <1>1, <2>1, <2>4
<1>3. CASE Started
  <2>1. /\ stage = "start" /\ stage' = "idle" /\ toAdd = {}
        /\ UNCHANGED <<cur, mode, toRemove, toAdd, toChange, store, rotations, pskCache, devPsk,
                       route, unapplied>>
    BY <1>3 DEF Started, vars, storeVars, diffVars, deviceVars
  <2>2. List' = List /\ ListRefs' = ListRefs
    BY <2>1, SameList
  <2>3. QED
    BY <2>1, <2>2 DEF RolloutTypeOK, StageInv, SettledInv, CacheInv
<1>4. CASE FinishReload
  <2>1. /\ stage = "apply" /\ stage' = "idle" /\ toRemove = {} /\ toAdd = {} /\ toChange = {}
        /\ pskCache' = [r \in DOMAIN pskCache |->
                          IF r \in ListRefs \cup {KeyRef} THEN pskCache[r] ELSE None]
        /\ UNCHANGED <<cur, toRemove, toAdd, toChange, store, rotations, devPsk, route, unapplied>>
    BY <1>4 DEF FinishReload, Report, Pruned, storeVars, diffVars, deviceVars
  <2>2. List' = List /\ ListRefs' = ListRefs
    BY <2>1, SameList
  <2>3. /\ pskCache' \in [Refs \cup {KeyRef} -> Values \cup {None}]
        /\ \A r \in Refs \cup {KeyRef} :
              pskCache'[r] = IF r \in ListRefs \cup {KeyRef} THEN pskCache[r] ELSE None
    BY <2>1 DEF RolloutTypeOK
  <2>4. RolloutTypeOK' /\ StageInv' /\ CacheInv'
    BY <2>1, <2>2, <2>3 DEF RolloutTypeOK, StageInv, CacheInv
  <2>5. \A k \in DOMAIN List : List[k].psk \in Refs /\ List[k].psk \in ListRefs
    BY ListFacts DEF RolloutTypeOK, ListRefs
  <2>6. SettledInv'
    BY <2>1, <2>2, <2>3, <2>5 DEF SettledInv
  <2>7. QED
    BY <2>4, <2>6
<1>5. CASE RejectedReload
  <2>1. UNCHANGED <<cur, storeVars, applyVars>> /\ stage = "idle"
    BY <1>5 DEF RejectedReload, Report
  <2>2. StageInv'
    BY <2>1, SameList DEF applyVars, diffVars, StageInv
  <2>3. QED
    BY <1>1, <2>1, <2>2
<1>6. ASSUME NEW r \in Rotations, Rotate(r[1], r[2]) PROVE RolloutInv'
  <2>1. /\ UNCHANGED <<cur, mode, stage, toRemove, toAdd, toChange, pskCache, devPsk, route,
                       unapplied>>
        /\ store' = [store EXCEPT ![r[1]] = r[2]]
        /\ rotations < MaxRotations /\ rotations' = rotations + 1
    BY <1>6 DEF Rotate, vars, applyVars, diffVars, deviceVars
  <2>2. List' = List /\ ListRefs' = ListRefs
    BY <2>1, SameList
  <2>3. RolloutTypeOK'
    BY <2>1, <2>2, RotationsAssumption, MaxRotationsAssumption DEF RolloutTypeOK
  <2>4. QED
    BY <2>1, <2>2, <2>3 DEF StageInv, SettledInv, CacheInv
<1>7. CASE UNCHANGED allVars
  BY <1>1, <1>7, SameList DEF allVars, vars, applyVars, diffVars, StageInv
<1>8. QED
  BY <1>2, <1>3, <1>4, <1>5, <1>6, <1>7, PublishRollout, RevokeRollout, ApplyRollout, StartRollout
  DEF RolloutNext, ApplyStep

LEMMA RolloutInvariant == RolloutSpec => []RolloutInv
BY InitRollout, NextRollout, WatcherType, PTL DEF RolloutSpec

\* Between reloads the device holds listed keys and those whose removal
\* failed, with real preshared keys and no other, and an entry whose apply
\* went through is there with its address and the cached value, whatever was
\* edited and rotated and whichever step of a reload failed (applyDiff,
\* RemovePeer, applyPeer, resolveSecret).
THEOREM DeviceFollowsFile == RolloutSpec => []DeviceFollows
<1>1. RolloutInv => DeviceFollows
  BY DEF RolloutInv, RolloutTypeOK, StageInv, SettledInv, DeviceFollows
<1>2. QED
  BY <1>1, RolloutInvariant, PTL

\* Between reloads no secret of a peer that is not listed is in the cache,
\* and the private key is (pruneSecretCache).
THEOREM NothingStaysResident == RolloutSpec => []NoResidentSecret
<1>1. RolloutInv => NoResidentSecret
  BY DEF RolloutInv, CacheInv, NoResidentSecret
<1>2. QED
  BY <1>1, RolloutInvariant, PTL

\* While a reference stays in the list its cached value stays
\* (resolveSecret, pruneSecretCache).
THEOREM CacheIsStable == RolloutSpec => CachedIsStable
<1> DEFINE Stable == \A r \in Refs : r \in ListRefs /\ r \in ListRefs' /\ pskCache[r] # None
                        => pskCache'[r] = pskCache[r]
<1>1. ASSUME RolloutInv, [RolloutNext]_allVars PROVE [Stable]_allVars
  <2> USE DEF RolloutInv
  <2>1. ASSUME pskCache' = pskCache PROVE Stable
    BY <2>1
  <2>2. ASSUME NEW k \in Keys, StartPeer(k) \/ AddPeer(k) \/ UpdatePeer(k) PROVE Stable
    <3>1. /\ k \in DOMAIN List /\ \E u \in BOOLEAN : ApplyPeer(k, u)
          /\ UNCHANGED <<cur, toRemove>> /\ toAdd' \subseteq toAdd /\ toChange' \subseteq toChange
          /\ (toAdd \cup toChange) \ {k} \subseteq toAdd' \cup toChange'
      BY <1>1, <2>2 DEF StartPeer, AddPeer, UpdatePeer, RolloutTypeOK, vars
    <3>2. QED
      BY <1>1, <3>1, ApplySettles
  <2>3. CASE FinishReload
    BY <1>1, <2>3 DEF FinishReload, Pruned, RolloutTypeOK
  <2>4. CASE WatcherStep \/ Started \/ PublishList \/ RejectedReload
             \/ (\E k \in Keys : RevokePeer(k)) \/ \E r \in Rotations : Rotate(r[1], r[2])
    BY <2>1, <2>4 DEF WatcherStep, Started, PublishList, RejectedReload, RevokePeer, Rotate, applyVars
  <2>5. CASE UNCHANGED allVars
    BY <2>1, <2>5 DEF allVars, applyVars
  <2>6. QED
    BY <1>1, <2>2, <2>3, <2>4, <2>5 DEF RolloutNext, ApplyStep
<1>2. QED
  BY <1>1, RolloutInvariant, PTL DEF RolloutSpec, CachedIsStable
=============================================================================
