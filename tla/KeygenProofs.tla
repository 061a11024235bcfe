---------------------------- MODULE KeygenProofs ----------------------------
(***************************************************************************)
(* Theorems about Keygen, for any number of runs of the command.           *)
(***************************************************************************)
EXTENDS Keygen, TLAPS

LEMMA InitOwner == Init => TypeOK /\ OwnerInv
BY NoRunAssumption
DEF Init, TypeOK, OwnerInv, PairInOrder, WritesOwn, HasBothOrNone, NoFile, Paths, Running,
    Writing, Cleaning, Over

LEMMA NextType == TypeOK /\ [Next]_vars => TypeOK'
<1> SUFFICES ASSUME TypeOK, [Next]_vars PROVE TypeOK'
  OBVIOUS
<1> USE DEF TypeOK, Goto, Running, Writing, Cleaning, Over
<1>1. ASSUME NEW r \in Runs, Begin(r) \/ Report(r) \/ Kill(r) PROVE TypeOK'
  BY <1>1 DEF Begin, Report, Kill
<1>2. ASSUME NEW r \in Runs, NEW content \in {"partial", "written", "synced"}, Put(r, content)
      PROVE  file' \in [Paths -> [creator : Runs, content : {"partial", "written", "synced"}]
                                 \cup {NoFile}]
  BY <1>2 DEF Put
<1>3. ASSUME NEW r \in Runs, Open(r) PROVE TypeOK'
  BY <1>2, <1>3 DEF Open, GiveUp
<1>4. ASSUME NEW r \in Runs, WriteString(r) \/ Sync(r) PROVE TypeOK'
  BY <1>2, <1>4 DEF WriteString, Sync, Call
<1>5. ASSUME NEW r \in Runs, Close(r) PROVE TypeOK'
  BY <1>5 DEF Close, Paths
<1>6. ASSUME NEW r \in Runs, Remove(r) \/ RemoveKey(r) PROVE TypeOK'
  BY <1>6 DEF Remove, RemoveKey, Unlink, GiveUp
<1>7. ASSUME NEW p \in Paths, CleanUp(p) PROVE TypeOK'
  BY <1>7 DEF CleanUp
<1>8. CASE PowerLoss
  BY <1>8 DEF PowerLoss, NoFile
<1>9. CASE UNCHANGED vars
  BY <1>9 DEF vars
<1>10. QED
  BY <1>1, <1>3, <1>4, <1>5, <1>6, <1>7, <1>8, <1>9 DEF Next, RunStep

\* A run that makes no step keeps its part of the invariant when every file
\* it has stays as it is and it is given none.
LEMMA Bystander ==
    ASSUME TypeOK, NEW r \in Runs, PairInOrder(r), WritesOwn(r), HasBothOrNone(r),
           pc'[r] = pc[r], target'[r] = target[r], r \in dirty => r \in dirty',
           \A p \in Paths : \/ file'[p] = file[p]
                            \/ file[p].creator # r /\ file'[p].creator # r
    PROVE  (PairInOrder(r) /\ WritesOwn(r) /\ HasBothOrNone(r))'
BY DEF TypeOK, PairInOrder, WritesOwn, HasBothOrNone, Of, Paths

LEMMA NextOwner == TypeOK /\ OwnerInv /\ [Next]_vars => OwnerInv'
<1> SUFFICES ASSUME TypeOK, OwnerInv, [Next]_vars, NEW q \in Runs
             PROVE  (PairInOrder(q) /\ WritesOwn(q) /\ HasBothOrNone(q))'
  BY DEF OwnerInv
<1> DEFINE Q == (PairInOrder(q) /\ WritesOwn(q) /\ HasBothOrNone(q))'
<1>0. PairInOrder(q) /\ WritesOwn(q) /\ HasBothOrNone(q)
  BY DEF OwnerInv
<1>1. ASSUME NEW r \in Runs, RunStep(r) \/ Kill(r), r # q PROVE Q
  <2>1. pc'[q] = pc[q] /\ target'[q] = target[q] /\ (q \in dirty => q \in dirty')
    BY <1>1 DEF RunStep, Kill, Begin, Open, WriteString, Sync, Call, Close, Remove, RemoveKey,
                Report, Unlink, GiveUp, Goto, TypeOK
  <2>2. PairInOrder(r) /\ WritesOwn(r)
    BY DEF OwnerInv
  <2>3. ASSUME NEW p \in Paths
        PROVE  file'[p] = file[p] \/ (file[p].creator # q /\ file'[p].creator # q)
    BY <1>1, <2>2, NoRunAssumption
    DEF RunStep, Kill, Begin, Open, WriteString, Sync, Call, Close, Remove, RemoveKey, Report,
        Unlink, Put, Goto, TypeOK, PairInOrder, WritesOwn, Of, NoFile, Paths, Cleaning, Writing
  <2>4. QED
    BY <1>0, <2>1, <2>3, Bystander
<1>2. ASSUME RunStep(q) \/ Kill(q) PROVE Q
  BY <1>0, <1>2, NoRunAssumption
  DEF RunStep, Kill, Begin, Open, WriteString, Sync, Call, Close, Remove, RemoveKey, Report,
      Unlink, GiveUp, Put, Goto, TypeOK, PairInOrder, WritesOwn, HasBothOrNone, Of, NoFile, Paths,
      Cleaning, Writing
<1>3. ASSUME NEW p \in Paths, CleanUp(p) PROVE Q
  BY <1>0, <1>3, NoRunAssumption
  DEF CleanUp, TypeOK, PairInOrder, WritesOwn, HasBothOrNone, Of, NoFile, Paths, Cleaning, Writing
<1>4. CASE PowerLoss
  BY <1>0, <1>4 DEF PowerLoss, TypeOK, PairInOrder, WritesOwn, HasBothOrNone, Of, NoFile, Paths,
                    Running, Cleaning, Writing
<1>5. CASE UNCHANGED vars
  BY <1>0, <1>5 DEF vars, PairInOrder, WritesOwn, HasBothOrNone
<1>6. QED
  BY <1>1, <1>2, <1>3, <1>4, <1>5 DEF Next

LEMMA OwnerInvariant == Spec => [](TypeOK /\ OwnerInv)
BY InitOwner, NextType, NextOwner, PTL DEF Spec

\* A pair that was reported stays on disk, whole and durable (runKeygen).
THEOREM ReportedPairsSurvive == Spec => []ReportedPairSurvives
<1>1. OwnerInv => ReportedPairSurvives
  BY DEF OwnerInv, HasBothOrNone, ReportedPairSurvives, Of
<1>2. QED
  BY <1>1, OwnerInvariant, PTL

\* A run that fails leaves nothing in the way of the next (writeSecretFile
\* and runKeygen remove what they made).
THEOREM FailuresLeaveRoom == Spec => []FailureLeavesRoom
<1>1. OwnerInv => FailureLeavesRoom
  BY DEF OwnerInv, HasBothOrNone, FailureLeavesRoom
<1>2. QED
  BY <1>1, OwnerInvariant, PTL

\* A file goes only when its own run cleans up, or by the operator's hand
\* (O_EXCL in writeSecretFile; both calls of os.Remove).
THEOREM OthersStayUntouched == Spec => OthersUntouched
<1> DEFINE Untouched(p) ==
             LET r == file[p].creator IN
             r # NoRun /\ file'[p].creator # r =>
                \/ pc[r] \in Cleaning /\ pc'[r] # pc[r]
                \/ pc' = pc
<1>1. ASSUME TypeOK, OwnerInv, [Next]_vars, NEW p \in Paths PROVE Untouched(p)
  <2>1. ASSUME NEW r \in Runs, RunStep(r) \/ Kill(r) PROVE Untouched(p)
    <3>1. PairInOrder(r) /\ WritesOwn(r)
      BY <1>1 DEF OwnerInv
    <3>2. CASE Begin(r) \/ Close(r) \/ Report(r) \/ Kill(r)
      BY <3>2 DEF Begin, Close, Report, Kill
    <3>3. CASE Open(r)
      BY <1>1, <3>3 DEF Open, Put, TypeOK, NoFile
    <3>4. CASE WriteString(r) \/ Sync(r)
      BY <1>1, <3>1, <3>4 DEF WriteString, Sync, Call, Put, TypeOK, WritesOwn, Of
    <3>5. CASE Remove(r)
      <4>1. pc[r] = "remove" /\ pc'[r] \in {"removeKey", "failed"}
        BY <1>1, <3>5 DEF Remove, GiveUp, Goto, TypeOK
      <4>2. QED
        BY <1>1, <3>1, <3>5, <4>1 DEF Remove, Unlink, TypeOK, WritesOwn, Cleaning
    <3>6. CASE RemoveKey(r)
      <4>1. pc[r] = "removeKey" /\ pc'[r] = "failed" /\ file["key"].creator = r
        BY <1>1, <3>1, <3>6 DEF RemoveKey, Goto, TypeOK, WritesOwn, PairInOrder, Of, Cleaning
      <4>2. QED
        BY <1>1, <3>6, <4>1 DEF RemoveKey, Unlink, TypeOK, Cleaning
    <3>7. QED
      BY <2>1, <3>2, <3>3, <3>4, <3>5, <3>6 DEF RunStep
  <2>2. ASSUME NEW x \in Paths, CleanUp(x) PROVE Untouched(p)
    BY <2>2 DEF CleanUp
  <2>3. CASE PowerLoss
    BY <1>1, <2>3 DEF PowerLoss, TypeOK, NoFile
  <2>4. CASE UNCHANGED vars
    BY <2>4 DEF vars
  <2>5. QED
    BY <1>1, <2>1, <2>2, <2>3, <2>4 DEF Next
<1>2. TypeOK /\ OwnerInv /\ [Next]_vars => [\A p \in Paths : Untouched(p)]_vars
  BY <1>1
<1>3. QED
  BY <1>2, OwnerInvariant, PTL DEF Spec, OthersUntouched
=============================================================================
