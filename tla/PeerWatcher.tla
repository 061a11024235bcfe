---------------------------- MODULE PeerWatcher ----------------------------
(***************************************************************************)
(* The watcher of peers.yaml (config.go, peerWatcher): the goroutine that  *)
(* turns file system events into reloads, against an operator who edits    *)
(* the file at any moment, between any two of its steps.                   *)
(*                                                                         *)
(* A content stands for everything a read of the file may yield: a valid   *)
(* peer list, one that does not load, or, half way through an edit in      *)
(* place, a prefix of either kind.  Every edit gives the file a            *)
(* modification time of its own, so the fileID of a file that exists is    *)
(* the number of edits so far; that two contents may share a fileID is     *)
(* outside this module (README, hazards).                                  *)
(***************************************************************************)
EXTENDS Naturals

CONSTANTS Valid,     \* contents that LoadPeersConfig accepts
          Invalid,   \* contents that it refuses
          Missing,   \* no such file
          MaxEdits   \* bound: edits of the file

ASSUME ContentsAssumption ==
    /\ Valid # {} /\ Valid \cap Invalid = {}
    /\ Missing \notin Valid \cup Invalid
ASSUME MaxEditsAssumption == MaxEdits \in Nat

VARIABLES
    file,      \* the content at the path
    edits,     \* edits so far: the modification time of the last one
    watching,  \* the directory watch is armed
    event,     \* a file system event waits in fsw.Events
    err,       \* an error waits in fsw.Errors
    debounce,  \* the debounce timer is running
    mode,      \* what peerWatcher.Run is doing
    id,        \* reloadLocked: the fileID it read before the file
    data,      \* reloadLocked: what it read
    seen,      \* peerWatcher.seen
    cur        \* peerWatcher.cur

fileVars == <<file, edits>>
chanVars == <<watching, event, err, debounce>>
vars == <<fileVars, chanVars, mode, id, data, seen, cur>>

Contents == Valid \cup Invalid \cup {Missing}

TypeOK ==
    /\ file \in Contents /\ edits \in 0..MaxEdits
    /\ watching \in BOOLEAN /\ event \in BOOLEAN /\ err \in BOOLEAN /\ debounce \in BOOLEAN
    /\ mode \in {"new", "select", "stat", "read", "publish", "report", "stopped", "failed"}
    /\ id \in 0..(MaxEdits + 1) /\ seen \in 0..(MaxEdits + 1)
    /\ data \in Contents
    /\ cur \in Valid

\* statFileID: zero when there is no file.
FileID == IF file = Missing THEN 0 ELSE edits + 1

\* newPeerWatcher has statted and then loaded a valid file, and the watch is
\* not armed yet.  An edit between the stat and the load leaves an identity
\* that is older than the file (0 stands for every such one).
Init ==
    /\ file \in Valid /\ edits = 0
    /\ cur = file /\ seen \in {0, FileID}
    /\ watching = FALSE /\ event = FALSE /\ err = FALSE /\ debounce = FALSE
    /\ mode = "new" /\ id = 0 /\ data = file

-----------------------------------------------------------------------------
(* The environment.                                                        *)

\* The file is written, replaced, restored or deleted.  The event reaches
\* fsw.Events only if the watch is armed, and may be lost all the same.
Edit(x) ==
    /\ edits < MaxEdits
    /\ file' = x /\ edits' = edits + 1
    /\ \/ UNCHANGED event
       \/ watching /\ event' = TRUE
    /\ UNCHANGED <<watching, err, debounce, mode, id, data, seen, cur>>

\* The directory watch goes silently dead.
WatchDies ==
    /\ watching /\ watching' = FALSE
    /\ UNCHANGED <<fileVars, event, err, debounce, mode, id, data, seen, cur>>

\* fsnotify reports an error, an overflow of its queue for one.
WatchError ==
    /\ mode # "new" /\ ~err /\ err' = TRUE
    /\ UNCHANGED <<fileVars, watching, event, debounce, mode, id, data, seen, cur>>

-----------------------------------------------------------------------------
(* newPeerWatcher and Run.                                                 *)

\* rearmWatch: fsw.Add, whose failure is logged and nothing else.
RearmWatch == watching' = TRUE \/ UNCHANGED watching

\* The rest of newPeerWatcher, and Run is called.  A failed Add is fatal.
Arm ==
    /\ mode = "new"
    /\ \/ watching' = TRUE /\ mode' = "select"
       \/ watching' = watching /\ mode' = "failed"
    /\ UNCHANGED <<fileVars, event, err, debounce, id, data, seen, cur>>

\* case ev := <-w.fsw.Events.  Only a rename or a removal re-arms.
OnEvent ==
    /\ mode = "select" /\ event
    /\ event' = FALSE /\ debounce' = TRUE
    /\ \/ RearmWatch
       \/ UNCHANGED watching
    /\ UNCHANGED <<fileVars, err, mode, id, data, seen, cur>>

\* case err := <-w.fsw.Errors.
OnError ==
    /\ mode = "select" /\ err
    /\ err' = FALSE /\ debounce' = TRUE
    /\ RearmWatch
    /\ UNCHANGED <<fileVars, event, mode, id, data, seen, cur>>

\* case <-debounce.C: reload.
OnDebounce ==
    /\ mode = "select" /\ debounce
    /\ debounce' = FALSE /\ mode' = "stat"
    /\ UNCHANGED <<fileVars, watching, event, err, id, data, seen, cur>>

\* Defective variant of OnRearm: the tick re-adds the watch and trusts it.
RearmOnly ==
    /\ mode = "select"
    /\ RearmWatch
    /\ UNCHANGED <<fileVars, event, err, debounce, mode, id, data, seen, cur>>

\* case <-rearm.C: re-add the watch; reload if the file is not the one seen.
OnRearm ==
    /\ mode = "select"
    /\ RearmWatch
    /\ mode' = IF FileID # seen THEN "stat" ELSE "select"
    /\ UNCHANGED <<fileVars, event, err, debounce, id, data, seen, cur>>

\* reloadLocked: stat before reading.
StatFile ==
    /\ mode = "stat"
    /\ id' = FileID /\ mode' = "read"
    /\ UNCHANGED <<fileVars, chanVars, data, seen, cur>>

ReadFile ==
    /\ mode = "read"
    /\ data' = file /\ mode' = "publish"
    /\ UNCHANGED <<fileVars, chanVars, id, seen, cur>>

\* Defective variant of Publish: the file is identified after it was read.
PublishStatAfter ==
    /\ mode = "publish"
    /\ cur' = IF data \in Valid THEN data ELSE cur
    /\ seen' = FileID /\ mode' = "report"
    /\ UNCHANGED <<fileVars, chanVars, id, data>>

\* reloadLocked, after the read: a file that does not load leaves the list
\* in force; either way the file read is the one seen.
Publish ==
    /\ mode = "publish"
    /\ cur' = IF data \in Valid THEN data ELSE cur
    /\ seen' = id /\ mode' = "report"
    /\ UNCHANGED <<fileVars, chanVars, id, data>>

\* report: the callback, Server.handleReload, runs to its end.
Report ==
    /\ mode = "report" /\ mode' = "select"
    /\ UNCHANGED <<fileVars, chanVars, id, data, seen, cur>>

\* case <-ctx.Done(), and a channel of the watch that was closed.
Stop ==
    /\ mode = "select"
    /\ mode' \in {"stopped", "failed"}
    /\ UNCHANGED <<fileVars, chanVars, id, data, seen, cur>>

RunStep ==
    \/ Arm \/ OnEvent \/ OnError \/ OnDebounce \/ OnRearm
    \/ StatFile \/ ReadFile \/ Publish \/ Report

Next ==
    \/ \E x \in Contents : Edit(x)
    \/ WatchDies \/ WatchError
    \/ RunStep \/ Stop

Spec == Init /\ [][Next]_vars

-----------------------------------------------------------------------------
(* Properties.                                                             *)

\* What the periodic re-arm relies on: a file that carries the identity last
\* seen is the file in force, or does not load.  Stat before read is what
\* makes it true of a write that lands in the middle of a reload.
SeenIsLoaded ==
    FileID = seen /\ file \in Valid => cur = file

\* With the next two, its inductive strengthening.  A reload that is about
\* to record the identity of the present, valid file has read its content.
ReadIsCurrent ==
    mode = "publish" /\ FileID = id /\ file \in Valid => data = file

\* An identity on record is not that of a file still to be written.
IdentityPast == seen <= edits + 1 /\ id <= edits + 1

WatchInv == TypeOK /\ SeenIsLoaded /\ ReadIsCurrent /\ IdentityPast

=============================================================================
