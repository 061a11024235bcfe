------------------------------- MODULE Keygen -------------------------------
(***************************************************************************)
(* gocloak keygen (cmd/gocloak/main.go): runs of the command for one peer  *)
(* name in one directory, at the same time or one after the other, each of *)
(* which may fail at any system call, be killed, or lose power; and an     *)
(* operator who deletes what a run that did not succeed has left.          *)
(*                                                                         *)
(* A file has the run that created it and its content: "partial" from the  *)
(* moment it exists, "written" when the whole key is in it, "synced" when  *)
(* it would survive a power loss.  That syncing a new file also makes its  *)
(* directory entry durable is an assumption about the file system.         *)
(***************************************************************************)
CONSTANTS Runs,    \* runs of the command
          NoRun    \* the creator of a file that does not exist

ASSUME NoRunAssumption == NoRun \notin Runs

VARIABLES
    pc,      \* the system call each run is about to make
    target,  \* the file it is writing: "key" or "psk"
    file,    \* the directory
    dirty    \* history: runs whose os.Remove has failed

vars == <<pc, target, file, dirty>>

Paths == {"key", "psk"}
NoFile == [creator |-> NoRun, content |-> "none"]
Writing == {"write", "sync", "close"}
Cleaning == {"remove", "removeKey"}
Running == {"open", "print"} \cup Writing \cup Cleaning
Over == {"ok", "failed", "killed"}

TypeOK ==
    /\ pc \in [Runs -> {"idle"} \cup Running \cup Over]
    /\ target \in [Runs -> Paths]
    /\ file \in [Paths -> [creator : Runs, content : {"partial", "written", "synced"}] \cup {NoFile}]
    /\ dirty \subseteq Runs

Init ==
    /\ pc = [r \in Runs |-> "idle"]
    /\ target = [r \in Runs |-> "key"]
    /\ file = [p \in Paths |-> NoFile]
    /\ dirty = {}

Goto(r, label) == pc' = [pc EXCEPT ![r] = label]
Put(r, content) == file' = [file EXCEPT ![target[r]] = [creator |-> r, content |-> content]]

\* Where runKeygen goes when writeSecretFile returns an error: the private
\* key is not left behind without its PSK.
GiveUp(r) == Goto(r, IF target[r] = "psk" THEN "removeKey" ELSE "failed")

-----------------------------------------------------------------------------
\* runKeygen, up to the first file: the flags, the name, the directory and
\* the random source may each end it.
Begin(r) ==
    /\ pc[r] = "idle"
    /\ Goto(r, "open") \/ Goto(r, "failed")
    /\ UNCHANGED <<target, file, dirty>>

\* Defective variant of Open: the file is truncated if it exists.
OpenTruncates(r) ==
    /\ pc[r] = "open"
    /\ \/ Put(r, "partial") /\ Goto(r, "write")
       \/ UNCHANGED file /\ GiveUp(r)
    /\ UNCHANGED <<target, dirty>>

\* Defective variant of Open: a PSK that exists will do.
OpenKeepsPSK(r) ==
    /\ pc[r] = "open"
    /\ \/ file[target[r]] = NoFile /\ Put(r, "partial") /\ Goto(r, "write")
       \/ /\ UNCHANGED file
          /\ IF target[r] = "psk" /\ file["psk"] # NoFile THEN Goto(r, "print") ELSE GiveUp(r)
    /\ UNCHANGED <<target, dirty>>

\* O_CREATE|O_EXCL: refused if the file exists, and it may fail anyway.
Open(r) ==
    /\ pc[r] = "open"
    /\ \/ file[target[r]] = NoFile /\ Put(r, "partial") /\ Goto(r, "write")
       \/ UNCHANGED file /\ GiveUp(r)
    /\ UNCHANGED <<target, dirty>>

\* A call on the open file succeeds, or fails and the file is to be removed.
Call(r, at, content, next) ==
    /\ pc[r] = at
    /\ \/ Goto(r, next) /\ Put(r, content)
       \/ Goto(r, "remove") /\ UNCHANGED file
    /\ UNCHANGED <<target, dirty>>

WriteString(r) == Call(r, "write", "written", "sync")

Sync(r) == Call(r, "sync", "synced", "close")

\* f.Close, and what follows a success: the PSK's file, or the report.
Close(r) ==
    /\ pc[r] = "close"
    /\ \/ target[r] = "key" /\ target' = [target EXCEPT ![r] = "psk"] /\ Goto(r, "open")
       \/ target[r] = "psk" /\ Goto(r, "print") /\ UNCHANGED target
       \/ Goto(r, "remove") /\ UNCHANGED target
    /\ UNCHANGED <<file, dirty>>

\* os.Remove of a path, whoever's file is there; its error is ignored.
Unlink(r, p) ==
    \/ file' = [file EXCEPT ![p] = NoFile] /\ UNCHANGED dirty
    \/ dirty' = dirty \cup {r} /\ UNCHANGED file

\* writeSecretFile removes the partial file.
Remove(r) ==
    /\ pc[r] = "remove" /\ Unlink(r, target[r]) /\ GiveUp(r)
    /\ UNCHANGED target

\* Defective variant of RemoveKey: the key stays when the PSK fails.
KeepKey(r) ==
    /\ pc[r] = "removeKey" /\ Goto(r, "failed")
    /\ UNCHANGED <<target, file, dirty>>

\* runKeygen removes the private key after the PSK has failed.
RemoveKey(r) ==
    /\ pc[r] = "removeKey" /\ Unlink(r, "key") /\ Goto(r, "failed")
    /\ UNCHANGED target

\* The public key and the PSK are printed, and the command exits with 0.
Report(r) ==
    /\ pc[r] = "print" /\ Goto(r, "ok")
    /\ UNCHANGED <<target, file, dirty>>

-----------------------------------------------------------------------------
(* The environment.                                                        *)

Kill(r) ==
    /\ pc[r] \in Running /\ Goto(r, "killed")
    /\ UNCHANGED <<target, file, dirty>>

\* Every run is killed, and what was not synced may be gone.
PowerLoss ==
    /\ \E r \in Runs : pc[r] \in Running
    /\ pc' = [r \in Runs |-> IF pc[r] \in Running THEN "killed" ELSE pc[r]]
    /\ \E lost \in SUBSET {p \in Paths : file[p].content \in {"partial", "written"}} :
          file' = [p \in Paths |-> IF p \in lost THEN [file[p] EXCEPT !.content = "partial"] ELSE file[p]]
    /\ UNCHANGED <<target, dirty>>

\* The operator deletes a file that a run has left without success.
CleanUp(p) ==
    /\ file[p] # NoFile /\ pc[file[p].creator] \in {"failed", "killed"}
    /\ file' = [file EXCEPT ![p] = NoFile]
    /\ UNCHANGED <<pc, target, dirty>>

RunStep(r) ==
    \/ Begin(r) \/ Open(r) \/ WriteString(r) \/ Sync(r) \/ Close(r)
    \/ Remove(r) \/ RemoveKey(r) \/ Report(r)

Next ==
    \/ \E r \in Runs : RunStep(r) \/ Kill(r)
    \/ \E p \in Paths : CleanUp(p)
    \/ PowerLoss

Spec == Init /\ [][Next]_vars

-----------------------------------------------------------------------------
(* Properties.                                                             *)

\* Once a run has printed its public key, the files on disk are the pair it
\* printed, whole and durable, whatever later runs, kills and power losses
\* do: the peer's private key has no other copy.
ReportedPairSurvives ==
    \A r \in Runs : pc[r] = "ok" =>
        \A p \in Paths : file[p] = [creator |-> r, content |-> "synced"]

\* A run that reports an error has left nothing that would refuse the retry,
\* unless it was os.Remove that failed.
FailureLeavesRoom ==
    \A r \in Runs \ dirty : pc[r] = "failed" => \A p \in Paths : file[p].creator # r

\* A run never takes away or replaces a file of another: a file goes when
\* its own run cleans up, or when the operator deletes it.
OthersUntouched ==
    [][\A p \in Paths :
         LET r == file[p].creator IN
         r # NoRun /\ file'[p].creator # r =>
            \/ pc[r] \in Cleaning /\ pc'[r] # pc[r]
            \/ pc' = pc]_vars

-----------------------------------------------------------------------------
(* The inductive invariant behind them: which files a run has, by the call *)
(* it is about to make.                                                    *)

Of(r, content) == [creator |-> r, content |-> content]

\* While a run writes or gives up a PSK its private key is whole on disk;
\* while it is at the private key it has no PSK.
PairInOrder(r) ==
    pc[r] \in {"open"} \cup Writing \cup Cleaning =>
        IF target[r] = "psk" THEN file["key"] = Of(r, "synced") ELSE file["psk"].creator # r

\* A file that is being written is the run's own, and has what was written.
WritesOwn(r) ==
    /\ pc[r] = "open" => file[target[r]].creator # r
    /\ pc[r] = "write" => file[target[r]] = Of(r, "partial")
    /\ pc[r] = "sync" => file[target[r]] = Of(r, "written")
    /\ pc[r] = "close" => file[target[r]] = Of(r, "synced")
    /\ pc[r] = "remove" => file[target[r]].creator = r
    /\ pc[r] = "removeKey" => target[r] = "psk" /\ (r \notin dirty => file["psk"].creator # r)

\* A run that has not begun or has failed has no file; one that is past its
\* last close has both.
HasBothOrNone(r) ==
    /\ pc[r] = "idle" => target[r] = "key" /\ \A p \in Paths : file[p].creator # r
    /\ pc[r] = "failed" /\ r \notin dirty => \A p \in Paths : file[p].creator # r
    /\ pc[r] \in {"print", "ok"} => \A p \in Paths : file[p] = Of(r, "synced")

OwnerInv == \A r \in Runs : PairInOrder(r) /\ WritesOwn(r) /\ HasBothOrNone(r)
=============================================================================
