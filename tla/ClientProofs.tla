----------------------------- MODULE ClientProofs -----------------------------
(***************************************************************************)
(* Proofs about the client, for any number of calls of Dial and of moves   *)
(* of the name: ClientInv is inductive, and the safety properties of       *)
(* Client follow from it.                                                  *)
(***************************************************************************)
EXTENDS Client, TLAPS

LEMMA InitClient == Init => ClientInv
  <1> SUFFICES ASSUME Init PROVE ClientInv
    OBVIOUS
  <1>1. TypeOK
    <2>1. /\ closed \in BOOLEAN /\ refreshed \in [Dials -> BOOLEAN]
          /\ past \in [Dials -> BOOLEAN] /\ done \in [Dials -> BOOLEAN]
          /\ canceled \in [Dials -> BOOLEAN]
      BY Zenon DEF Init
    <2>2. QED
      BY <2>1, MaxMovesAssumption DEF Init, TypeOK, Addrs
  <1>2. BuildInv /\ SlotInv /\ ConnInv
    BY NoDialAssumption DEF Init, BuildInv, SlotInv, ConnInv, Refreshing
  <1>3. AddressInv
    BY DEF Init, AddressInv, EndpointAgrees
  <1>4. QED
    BY <1>1, <1>2, <1>3 DEF ClientInv

\* The locals of dialControl have their types when they are gone.
LEMMA ForgetType ==
    ASSUME TypeOK, NEW c \in Dials, Forget(c)
    PROVE  /\ gen' \in [Dials -> Nat] /\ refreshed' \in [Dials -> BOOLEAN]
           /\ answer' \in [Dials -> Addrs] /\ began' \in [Dials -> Addrs]
  <1>1. refreshed' \in [Dials -> BOOLEAN]
    BY Zenon DEF TypeOK, Forget
  <1>2. /\ gen' \in [Dials -> Nat]
        /\ answer' \in [Dials -> Addrs] /\ began' \in [Dials -> Addrs]
    BY MaxMovesAssumption DEF TypeOK, Forget, Addrs
  <1>3. QED
    BY <1>1, <1>2

\* What a call leaves behind when it returns has its type.
LEMMA ReturnType ==
    ASSUME TypeOK, NEW c \in Dials,
           NEW r \in {"conn", "closed", "handshake", "canceled", "resolve", "device", "status",
                     "io", "timeout", "ctx"},
           Return(c, r), UNCHANGED <<buildVars, name, clientVars>>,
           addr' \in Addrs, devAddr' \in Addrs, generation' \in Nat,
           holder' \in Dials \cup {NoDial}
    PROVE  TypeOK'
  <1>1. /\ past' \in [Dials -> BOOLEAN] /\ done' \in [Dials -> BOOLEAN]
        /\ canceled' \in [Dials -> BOOLEAN]
    BY Zenon DEF TypeOK, Return, Finish
  <1>2. /\ pc' \in [Dials -> {"idle", "current", "attempt", "retry", "refresh", "done"}
                            \cup Refreshing \cup InHello]
        /\ conn' \in [Dials -> {"none", "open", "closed"}]
        /\ watchdog' \in [Dials -> {"off", "armed", "started", "ran"}]
    BY DEF TypeOK, Return, Finish
  <1>3. result' \in [Dials -> {"none", "conn", "closed", "handshake", "canceled",
                              "resolve", "device", "status", "io", "timeout", "ctx"}]
    BY DEF TypeOK, Return, Finish
  <1>4. /\ gen' \in [Dials -> Nat] /\ refreshed' \in [Dials -> BOOLEAN]
        /\ answer' \in [Dials -> Addrs] /\ began' \in [Dials -> Addrs]
    BY ForgetType DEF Return, Finish
  <1>5. QED
    BY <1>1, <1>2, <1>3, <1>4 DEF TypeOK, buildVars, clientVars

\* The variables keep their types.
LEMMA NextType ==
    ASSUME ClientInv, [Next]_vars
    PROVE  TypeOK'
  <1> USE DEF ClientInv, TypeOK, Addrs, Refreshing, InHello, buildVars, endpointVars,
             clientVars, budgetVars, callVars, connVars
  <1>1. CASE NameMoves
    BY <1>1, MaxMovesAssumption DEF NameMoves
  <1>2. CASE BuildEndpoint
    BY <1>2, MaxMovesAssumption DEF BuildEndpoint, buildFrame
  <1>3. CASE BuildSecrets
    BY <1>3, MaxMovesAssumption DEF BuildSecrets, buildFrame
  <1>4. CASE BuildDevice
    BY <1>4, MaxMovesAssumption DEF BuildDevice, buildFrame
  <1>5. CASE BuildPeer
    BY <1>5, MaxMovesAssumption DEF BuildPeer, buildFrame
  <1>6. CASE CloseFlag
    BY <1>6, MaxMovesAssumption DEF CloseFlag, closeFrame
  <1>7. CASE CloseDevice
    BY <1>7, MaxMovesAssumption DEF CloseDevice, closeFrame
  <1>8. ASSUME NEW c \in Dials, DeadlinePasses(c) PROVE TypeOK'
    BY <1>8, MaxMovesAssumption DEF DeadlinePasses, budgetFrame, Running
  <1>9. ASSUME NEW c \in Dials, BudgetExpires(c) PROVE TypeOK'
    BY <1>9, MaxMovesAssumption DEF BudgetExpires, budgetFrame, Running
  <1>10. ASSUME NEW c \in Dials, CallerCancels(c) PROVE TypeOK'
    BY <1>10, MaxMovesAssumption DEF CallerCancels, budgetFrame, Running
  <1>11. ASSUME NEW c \in Dials, Begin(c) PROVE TypeOK'
    <2>1. CASE Return(c, "closed")
      BY <1>11, <2>1, ReturnType DEF Begin, callFrame
    <2>2. CASE /\ Jump(c, "current") /\ began' = [began EXCEPT ![c] = name]
               /\ UNCHANGED <<gen, refreshed, answer>>
      BY <1>11, <2>2, MaxMovesAssumption DEF Begin, Jump, callFrame
    <2>3. QED
      BY <1>11, <2>1, <2>2 DEF Begin
  <1>12. ASSUME NEW c \in Dials, RecordGeneration(c) PROVE TypeOK'
    BY <1>12, MaxMovesAssumption DEF RecordGeneration, Jump, callFrame
  <1>13. ASSUME NEW c \in Dials, Attempt(c) PROVE TypeOK'
    <2>1. CASE Goto(c, "retry")
      BY <1>13, <2>1, MaxMovesAssumption DEF Attempt, Goto, Jump, callFrame
    <2>2. CASE Forget(c) /\ ~Goto(c, "retry")
      <3>1. /\ gen' \in [Dials -> Nat] /\ refreshed' \in [Dials -> BOOLEAN]
            /\ answer' \in [Dials -> Addrs] /\ began' \in [Dials -> Addrs]
        BY <2>2, ForgetType
      <3>2. QED
        BY <1>13, <2>2, <3>1, MaxMovesAssumption DEF Attempt, callFrame
    <2>3. QED
      BY <1>13, <2>1, <2>2 DEF Attempt
  <1>14. ASSUME NEW c \in Dials, Retry(c) PROVE TypeOK'
    <2>1. CASE done[c] /\ Return(c, IF canceled[c] THEN "canceled" ELSE "handshake")
      BY <1>14, <2>1, ReturnType DEF Retry, callFrame
    <2>2. CASE /\ Jump(c, IF refreshed[c] THEN "attempt" ELSE "refresh")
               /\ refreshed' = [refreshed EXCEPT ![c] = TRUE]
               /\ UNCHANGED <<gen, answer, began>>
      BY <1>14, <2>2, MaxMovesAssumption DEF Retry, Jump, callFrame
    <2>3. QED
      BY <1>14, <2>1, <2>2 DEF Retry
  <1>15. ASSUME NEW c \in Dials, AcquireRefresh(c) PROVE TypeOK'
    BY <1>15, MaxMovesAssumption DEF AcquireRefresh, Goto, Jump, callFrame
  <1>16. ASSUME NEW c \in Dials, SkipRefresh(c) PROVE TypeOK'
    BY <1>16, MaxMovesAssumption DEF SkipRefresh, Goto, Jump, callFrame
  <1>17. ASSUME NEW c \in Dials, CheckGeneration(c) PROVE TypeOK'
    BY <1>17, MaxMovesAssumption DEF CheckGeneration, Goto, Jump, callFrame
  <1>18. ASSUME NEW c \in Dials, Lookup(c) PROVE TypeOK'
    <2>1. CASE Return(c, "resolve")
      BY <1>18, <2>1, ReturnType DEF Lookup, callFrame
    <2>2. CASE Answered(c)
      BY <1>18, <2>2, MaxMovesAssumption DEF Lookup, Answered, Jump, callFrame
    <2>3. QED
      BY <1>18, <2>1, <2>2 DEF Lookup
  <1>19. ASSUME NEW c \in Dials, Move(c) PROVE TypeOK'
    <2>1. CASE Return(c, "device")
      BY <1>19, <2>1, ReturnType DEF Move, callFrame
    <2>2. CASE Goto(c, "apply")
      BY <1>19, <2>2, MaxMovesAssumption DEF Move, Goto, Jump, callFrame
    <2>3. QED
      BY <1>19, <2>1, <2>2 DEF Move
  <1>20. ASSUME NEW c \in Dials, Applied(c) PROVE TypeOK'
    BY <1>20, MaxMovesAssumption DEF Applied, Goto, Jump, callFrame
  <1>21. ASSUME NEW c \in Dials, ExchangeFails(c) PROVE TypeOK'
    <2>1. \E r \in {"io", "timeout", "ctx"} : Return(c, r)
      BY <1>21 DEF ExchangeFails, HelloError
    <2>2. QED
      BY <1>21, <2>1, ReturnType DEF ExchangeFails, helloFrame, callFrame
  <1>23. ASSUME NEW c \in Dials, ReadHello(c) PROVE TypeOK'
    <2>1. CASE Return(c, "status")
      BY <1>23, <2>1, ReturnType DEF ReadHello, helloFrame, callFrame
    <2>2. CASE Goto(c, "stop")
      BY <1>23, <2>2, MaxMovesAssumption DEF ReadHello, Goto, Jump, helloFrame, callFrame
    <2>3. QED
      BY <1>23, <2>1, <2>2 DEF ReadHello
  <1>24. ASSUME NEW c \in Dials, StopWatchdog(c) PROVE TypeOK'
    <2>1. CASE HelloError(c, "ctx")
      BY <1>24, <2>1, ReturnType DEF StopWatchdog, HelloError, helloFrame, callFrame
    <2>2. CASE watchdog[c] = "armed" /\ UNCHANGED <<conn, budgetVars, callVars, result>>
      BY <1>24, <2>2, MaxMovesAssumption DEF StopWatchdog, HelloError, Return, Finish, Forget,
         helloFrame, callFrame
    <2>3. QED
      BY <1>24, <2>1, <2>2 DEF StopWatchdog
  <1>25. ASSUME NEW c \in Dials, ClearDeadlines(c) PROVE TypeOK'
    <2>1. \E r \in {"conn", "io"} : Return(c, r)
      BY <1>25 DEF ClearDeadlines
    <2>2. QED
      BY <1>25, <2>1, ReturnType DEF ClearDeadlines, helloFrame, callFrame
  <1>26. ASSUME NEW c \in Dials, WatchdogStarts(c) PROVE TypeOK'
    BY <1>26, MaxMovesAssumption DEF WatchdogStarts, watchdogFrame, helloFrame, callFrame
  <1>27. ASSUME NEW c \in Dials, WatchdogCloses(c) PROVE TypeOK'
    BY <1>27, MaxMovesAssumption DEF WatchdogCloses, watchdogFrame, helloFrame, callFrame
  <1>28. CASE UNCHANGED vars
    BY <1>28 DEF vars
  <1>29. QED
    BY <1>1, <1>2, <1>3, <1>4, <1>5, <1>6, <1>7, <1>8, <1>9, <1>10, <1>11, <1>12, <1>13,
       <1>14, <1>15, <1>16, <1>17, <1>18, <1>19, <1>20, <1>21, <1>23, <1>24,
       <1>25, <1>26, <1>27, <1>28
    DEF Next, Build, DialStep, Refresh, Hello, Watchdog

\* Construction, and what needs it.
LEMMA NextBuild ==
    ASSUME ClientInv, [Next]_vars
    PROVE  BuildInv'
  <1> USE DEF ClientInv, TypeOK, BuildInv, buildVars, endpointVars, clientVars,
             budgetVars, callVars, connVars
  <1>1. CASE NameMoves
    BY <1>1 DEF NameMoves
  <1>2. CASE BuildEndpoint
    BY <1>2 DEF BuildEndpoint, buildFrame
  <1>3. CASE BuildSecrets
    BY <1>3 DEF BuildSecrets, buildFrame
  <1>4. CASE BuildDevice
    BY <1>4 DEF BuildDevice, buildFrame
  <1>5. CASE BuildPeer
    BY <1>5 DEF BuildPeer, buildFrame
  <1>6. CASE CloseFlag
    BY <1>6 DEF CloseFlag, closeFrame
  <1>7. CASE CloseDevice
    BY <1>7 DEF CloseDevice, closeFrame
  <1>8. ASSUME NEW c \in Dials, DeadlinePasses(c) PROVE BuildInv'
    BY <1>8 DEF DeadlinePasses, budgetFrame, Running
  <1>9. ASSUME NEW c \in Dials, BudgetExpires(c) PROVE BuildInv'
    BY <1>9 DEF BudgetExpires, budgetFrame, Running
  <1>10. ASSUME NEW c \in Dials, CallerCancels(c) PROVE BuildInv'
    BY <1>10 DEF CallerCancels, budgetFrame, Running
  <1>11. ASSUME NEW c \in Dials, Begin(c) PROVE BuildInv'
    BY <1>11 DEF Begin, Return, Finish, Forget, Jump, callFrame
  <1>12. ASSUME NEW c \in Dials, RecordGeneration(c) PROVE BuildInv'
    BY <1>12 DEF RecordGeneration, Jump, callFrame
  <1>13. ASSUME NEW c \in Dials, Attempt(c) PROVE BuildInv'
    BY <1>13 DEF Attempt, Forget, Goto, Jump, callFrame
  <1>14. ASSUME NEW c \in Dials, Retry(c) PROVE BuildInv'
    BY <1>14 DEF Retry, Return, Finish, Forget, Jump, callFrame
  <1>15. ASSUME NEW c \in Dials, AcquireRefresh(c) PROVE BuildInv'
    BY <1>15 DEF AcquireRefresh, Goto, Jump, callFrame
  <1>16. ASSUME NEW c \in Dials, SkipRefresh(c) PROVE BuildInv'
    BY <1>16 DEF SkipRefresh, Goto, Jump, callFrame
  <1>17. ASSUME NEW c \in Dials, CheckGeneration(c) PROVE BuildInv'
    BY <1>17 DEF CheckGeneration, Goto, Jump, callFrame
  <1>18. ASSUME NEW c \in Dials, Lookup(c) PROVE BuildInv'
    BY <1>18 DEF Lookup, Answered, Return, Finish, Forget, Jump, callFrame
  <1>19. ASSUME NEW c \in Dials, Move(c) PROVE BuildInv'
    BY <1>19 DEF Move, Goto, Return, Finish, Forget, Jump, callFrame
  <1>20. ASSUME NEW c \in Dials, Applied(c) PROVE BuildInv'
    BY <1>20 DEF Applied, Goto, Jump, callFrame
  <1>21. ASSUME NEW c \in Dials, ExchangeFails(c) PROVE BuildInv'
    BY <1>21 DEF ExchangeFails, HelloError, Return, Finish, Forget, helloFrame, callFrame
  <1>23. ASSUME NEW c \in Dials, ReadHello(c) PROVE BuildInv'
    BY <1>23 DEF ReadHello, Goto, Jump, Return, Finish, Forget,
       helloFrame, callFrame
  <1>24. ASSUME NEW c \in Dials, StopWatchdog(c) PROVE BuildInv'
    BY <1>24 DEF StopWatchdog, HelloError, Return, Finish, Forget, helloFrame, callFrame
  <1>25. ASSUME NEW c \in Dials, ClearDeadlines(c) PROVE BuildInv'
    BY <1>25 DEF ClearDeadlines, Return, Finish, Forget, helloFrame, callFrame
  <1>26. ASSUME NEW c \in Dials, WatchdogStarts(c) PROVE BuildInv'
    BY <1>26 DEF WatchdogStarts, watchdogFrame, helloFrame, callFrame
  <1>27. ASSUME NEW c \in Dials, WatchdogCloses(c) PROVE BuildInv'
    BY <1>27 DEF WatchdogCloses, watchdogFrame, helloFrame, callFrame
  <1>28. CASE UNCHANGED vars
    BY <1>28 DEF vars
  <1>29. QED
    BY <1>1, <1>2, <1>3, <1>4, <1>5, <1>6, <1>7, <1>8, <1>9, <1>10, <1>11, <1>12, <1>13,
       <1>14, <1>15, <1>16, <1>17, <1>18, <1>19, <1>20, <1>21, <1>23, <1>24,
       <1>25, <1>26, <1>27, <1>28
    DEF Next, Build, DialStep, Refresh, Hello, Watchdog

\* The slot of refreshEndpoint excludes.
LEMMA NextSlot ==
    ASSUME ClientInv, [Next]_vars
    PROVE  SlotInv'
  <1> USE DEF ClientInv, TypeOK, SlotInv, Refreshing, buildVars, endpointVars, clientVars,
             budgetVars, callVars, connVars
  <1>1. CASE NameMoves
    BY <1>1, NoDialAssumption DEF NameMoves
  <1>2. CASE BuildEndpoint
    BY <1>2, NoDialAssumption DEF BuildEndpoint, buildFrame
  <1>3. CASE BuildSecrets
    BY <1>3, NoDialAssumption DEF BuildSecrets, buildFrame
  <1>4. CASE BuildDevice
    BY <1>4, NoDialAssumption DEF BuildDevice, buildFrame
  <1>5. CASE BuildPeer
    BY <1>5, NoDialAssumption DEF BuildPeer, buildFrame
  <1>6. CASE CloseFlag
    BY <1>6, NoDialAssumption DEF CloseFlag, closeFrame
  <1>7. CASE CloseDevice
    BY <1>7, NoDialAssumption DEF CloseDevice, closeFrame
  <1>8. ASSUME NEW c \in Dials, DeadlinePasses(c) PROVE SlotInv'
    BY <1>8, NoDialAssumption DEF DeadlinePasses, budgetFrame, Running
  <1>9. ASSUME NEW c \in Dials, BudgetExpires(c) PROVE SlotInv'
    BY <1>9, NoDialAssumption DEF BudgetExpires, budgetFrame, Running
  <1>10. ASSUME NEW c \in Dials, CallerCancels(c) PROVE SlotInv'
    BY <1>10, NoDialAssumption DEF CallerCancels, budgetFrame, Running
  <1>11. ASSUME NEW c \in Dials, Begin(c) PROVE SlotInv'
    BY <1>11, NoDialAssumption DEF Begin, Return, Finish, Forget, Jump,
       callFrame
  <1>12. ASSUME NEW c \in Dials, RecordGeneration(c) PROVE SlotInv'
    BY <1>12, NoDialAssumption DEF RecordGeneration, Jump, callFrame
  <1>13. ASSUME NEW c \in Dials, Attempt(c) PROVE SlotInv'
    BY <1>13, NoDialAssumption DEF Attempt, Forget, Goto, Jump, callFrame
  <1>14. ASSUME NEW c \in Dials, Retry(c) PROVE SlotInv'
    BY <1>14, NoDialAssumption DEF Retry, Return, Finish, Forget, Jump,
       callFrame
  <1>15. ASSUME NEW c \in Dials, AcquireRefresh(c) PROVE SlotInv'
    BY <1>15, NoDialAssumption DEF AcquireRefresh, Goto, Jump, callFrame
  <1>16. ASSUME NEW c \in Dials, SkipRefresh(c) PROVE SlotInv'
    BY <1>16, NoDialAssumption DEF SkipRefresh, Goto, Jump, callFrame
  <1>17. ASSUME NEW c \in Dials, CheckGeneration(c) PROVE SlotInv'
    BY <1>17, NoDialAssumption DEF CheckGeneration, Goto, Jump, callFrame
  <1>18. ASSUME NEW c \in Dials, Lookup(c) PROVE SlotInv'
    BY <1>18, NoDialAssumption DEF Lookup, Answered, Return, Finish, Forget, Jump, callFrame
  <1>19. ASSUME NEW c \in Dials, Move(c) PROVE SlotInv'
    BY <1>19, NoDialAssumption DEF Move, Goto, Return, Finish, Forget, Jump, callFrame
  <1>20. ASSUME NEW c \in Dials, Applied(c) PROVE SlotInv'
    BY <1>20, NoDialAssumption DEF Applied, Goto, Jump, callFrame
  <1>21. ASSUME NEW c \in Dials, ExchangeFails(c) PROVE SlotInv'
    BY <1>21, NoDialAssumption DEF ExchangeFails, HelloError, Return, Finish, Forget, helloFrame,
       callFrame
  <1>23. ASSUME NEW c \in Dials, ReadHello(c) PROVE SlotInv'
    BY <1>23, NoDialAssumption DEF ReadHello, Goto, Jump, Return, Finish, Forget,
       helloFrame, callFrame
  <1>24. ASSUME NEW c \in Dials, StopWatchdog(c) PROVE SlotInv'
    BY <1>24, NoDialAssumption DEF StopWatchdog, HelloError, Return, Finish, Forget, helloFrame,
       callFrame
  <1>25. ASSUME NEW c \in Dials, ClearDeadlines(c) PROVE SlotInv'
    BY <1>25, NoDialAssumption DEF ClearDeadlines, Return, Finish, Forget, helloFrame, callFrame
  <1>26. ASSUME NEW c \in Dials, WatchdogStarts(c) PROVE SlotInv'
    BY <1>26, NoDialAssumption DEF WatchdogStarts, watchdogFrame, helloFrame, callFrame
  <1>27. ASSUME NEW c \in Dials, WatchdogCloses(c) PROVE SlotInv'
    BY <1>27, NoDialAssumption DEF WatchdogCloses, watchdogFrame, helloFrame, callFrame
  <1>28. CASE UNCHANGED vars
    BY <1>28 DEF vars
  <1>29. QED
    BY <1>1, <1>2, <1>3, <1>4, <1>5, <1>6, <1>7, <1>8, <1>9, <1>10, <1>11, <1>12, <1>13,
       <1>14, <1>15, <1>16, <1>17, <1>18, <1>19, <1>20, <1>21, <1>23, <1>24,
       <1>25, <1>26, <1>27, <1>28
    DEF Next, Build, DialStep, Refresh, Hello, Watchdog

\* The connection and its watchdog.
LEMMA NextConn ==
    ASSUME ClientInv, [Next]_vars
    PROVE  ConnInv'
  <1> USE DEF ClientInv, TypeOK, BuildInv, ConnInv, buildVars, endpointVars, clientVars,
             budgetVars, callVars, connVars
  <1>1. CASE NameMoves
    BY <1>1 DEF NameMoves
  <1>2. CASE BuildEndpoint
    BY <1>2 DEF BuildEndpoint, buildFrame
  <1>3. CASE BuildSecrets
    BY <1>3 DEF BuildSecrets, buildFrame
  <1>4. CASE BuildDevice
    BY <1>4 DEF BuildDevice, buildFrame
  <1>5. CASE BuildPeer
    BY <1>5 DEF BuildPeer, buildFrame
  <1>6. CASE CloseFlag
    BY <1>6 DEF CloseFlag, closeFrame
  <1>7. CASE CloseDevice
    BY <1>7 DEF CloseDevice, closeFrame
  <1>8. ASSUME NEW c \in Dials, DeadlinePasses(c) PROVE ConnInv'
    BY <1>8 DEF DeadlinePasses, budgetFrame, Running
  <1>9. ASSUME NEW c \in Dials, BudgetExpires(c) PROVE ConnInv'
    BY <1>9 DEF BudgetExpires, budgetFrame, Running
  <1>10. ASSUME NEW c \in Dials, CallerCancels(c) PROVE ConnInv'
    BY <1>10 DEF CallerCancels, budgetFrame, Running
  <1>11. ASSUME NEW c \in Dials, Begin(c) PROVE ConnInv'
    BY <1>11 DEF Begin, Return, Finish, Forget, Jump, callFrame
  <1>12. ASSUME NEW c \in Dials, RecordGeneration(c) PROVE ConnInv'
    BY <1>12 DEF RecordGeneration, Jump, callFrame
  <1>13. ASSUME NEW c \in Dials, Attempt(c) PROVE ConnInv'
    BY <1>13 DEF Attempt, Forget, Goto, Jump, callFrame
  <1>14. ASSUME NEW c \in Dials, Retry(c) PROVE ConnInv'
    BY <1>14 DEF Retry, Return, Finish, Forget, Jump, callFrame
  <1>15. ASSUME NEW c \in Dials, AcquireRefresh(c) PROVE ConnInv'
    BY <1>15 DEF AcquireRefresh, Goto, Jump, callFrame
  <1>16. ASSUME NEW c \in Dials, SkipRefresh(c) PROVE ConnInv'
    BY <1>16 DEF SkipRefresh, Goto, Jump, callFrame
  <1>17. ASSUME NEW c \in Dials, CheckGeneration(c) PROVE ConnInv'
    BY <1>17 DEF CheckGeneration, Goto, Jump, callFrame
  <1>18. ASSUME NEW c \in Dials, Lookup(c) PROVE ConnInv'
    BY <1>18 DEF Lookup, Answered, Return, Finish, Forget, Jump, callFrame
  <1>19. ASSUME NEW c \in Dials, Move(c) PROVE ConnInv'
    BY <1>19 DEF Move, Goto, Return, Finish, Forget, Jump, callFrame
  <1>20. ASSUME NEW c \in Dials, Applied(c) PROVE ConnInv'
    BY <1>20 DEF Applied, Goto, Jump, callFrame
  <1>21. ASSUME NEW c \in Dials, ExchangeFails(c) PROVE ConnInv'
    BY <1>21 DEF ExchangeFails, HelloError, Return, Finish, Forget, helloFrame, callFrame
  <1>23. ASSUME NEW c \in Dials, ReadHello(c) PROVE ConnInv'
    BY <1>23 DEF ReadHello, Goto, Jump, Return, Finish, Forget,
       helloFrame, callFrame
  <1>24. ASSUME NEW c \in Dials, StopWatchdog(c) PROVE ConnInv'
    BY <1>24 DEF StopWatchdog, HelloError, Return, Finish, Forget, helloFrame, callFrame
  <1>25. ASSUME NEW c \in Dials, ClearDeadlines(c) PROVE ConnInv'
    BY <1>25 DEF ClearDeadlines, Return, Finish, Forget, helloFrame, callFrame
  <1>26. ASSUME NEW c \in Dials, WatchdogStarts(c) PROVE ConnInv'
    BY <1>26 DEF WatchdogStarts, watchdogFrame, helloFrame, callFrame
  <1>27. ASSUME NEW c \in Dials, WatchdogCloses(c) PROVE ConnInv'
    BY <1>27 DEF WatchdogCloses, watchdogFrame, helloFrame, callFrame
  <1>28. CASE UNCHANGED vars
    BY <1>28 DEF vars
  <1>29. QED
    BY <1>1, <1>2, <1>3, <1>4, <1>5, <1>6, <1>7, <1>8, <1>9, <1>10, <1>11, <1>12, <1>13,
       <1>14, <1>15, <1>16, <1>17, <1>18, <1>19, <1>20, <1>21, <1>23, <1>24,
       <1>25, <1>26, <1>27, <1>28
    DEF Next, Build, DialStep, Refresh, Hello, Watchdog

\* Addresses only move forward.
LEMMA NextAddress ==
    ASSUME ClientInv, [Next]_vars
    PROVE  AddressInv'
  <1> USE DEF ClientInv, TypeOK, Addrs, BuildInv, SlotInv, AddressInv, EndpointAgrees,
             Refreshing, buildVars, endpointVars, clientVars, budgetVars, callVars,
             connVars
  <1>1. CASE NameMoves
    BY <1>1, MaxMovesAssumption, NoDialAssumption DEF NameMoves
  <1>2. CASE BuildEndpoint
    BY <1>2, MaxMovesAssumption, NoDialAssumption DEF BuildEndpoint, buildFrame
  <1>3. CASE BuildSecrets
    BY <1>3, MaxMovesAssumption, NoDialAssumption DEF BuildSecrets, buildFrame
  <1>4. CASE BuildDevice
    BY <1>4, MaxMovesAssumption, NoDialAssumption DEF BuildDevice, buildFrame
  <1>5. CASE BuildPeer
    BY <1>5, MaxMovesAssumption, NoDialAssumption DEF BuildPeer, buildFrame
  <1>6. CASE CloseFlag
    BY <1>6, MaxMovesAssumption, NoDialAssumption DEF CloseFlag, closeFrame
  <1>7. CASE CloseDevice
    BY <1>7, MaxMovesAssumption, NoDialAssumption DEF CloseDevice, closeFrame
  <1>8. ASSUME NEW c \in Dials, DeadlinePasses(c) PROVE AddressInv'
    BY <1>8, MaxMovesAssumption, NoDialAssumption DEF DeadlinePasses, budgetFrame, Running
  <1>9. ASSUME NEW c \in Dials, BudgetExpires(c) PROVE AddressInv'
    BY <1>9, MaxMovesAssumption, NoDialAssumption DEF BudgetExpires, budgetFrame, Running
  <1>10. ASSUME NEW c \in Dials, CallerCancels(c) PROVE AddressInv'
    BY <1>10, MaxMovesAssumption, NoDialAssumption DEF CallerCancels, budgetFrame, Running
  <1>11. ASSUME NEW c \in Dials, Begin(c) PROVE AddressInv'
    BY <1>11, MaxMovesAssumption, NoDialAssumption DEF Begin, Return, Finish, Forget, Jump,
       callFrame
  <1>12. ASSUME NEW c \in Dials, RecordGeneration(c) PROVE AddressInv'
    BY <1>12, MaxMovesAssumption, NoDialAssumption DEF RecordGeneration, Jump, callFrame
  <1>13. ASSUME NEW c \in Dials, Attempt(c) PROVE AddressInv'
    BY <1>13, MaxMovesAssumption, NoDialAssumption DEF Attempt, Forget, Goto, Jump, callFrame
  <1>14. ASSUME NEW c \in Dials, Retry(c) PROVE AddressInv'
    BY <1>14, MaxMovesAssumption, NoDialAssumption DEF Retry, Return, Finish, Forget, Jump,
       callFrame
  <1>15. ASSUME NEW c \in Dials, AcquireRefresh(c) PROVE AddressInv'
    BY <1>15, MaxMovesAssumption, NoDialAssumption DEF AcquireRefresh, Goto, Jump, callFrame
  <1>16. ASSUME NEW c \in Dials, SkipRefresh(c) PROVE AddressInv'
    BY <1>16, MaxMovesAssumption, NoDialAssumption DEF SkipRefresh, Goto, Jump, callFrame
  <1>17. ASSUME NEW c \in Dials, CheckGeneration(c) PROVE AddressInv'
    BY <1>17, MaxMovesAssumption, NoDialAssumption DEF CheckGeneration, Goto, Jump, callFrame
  <1>18. ASSUME NEW c \in Dials, Lookup(c) PROVE AddressInv'
    BY <1>18, MaxMovesAssumption, NoDialAssumption DEF Lookup, Answered, Return, Finish, Forget,
       Jump, callFrame
  <1>19. ASSUME NEW c \in Dials, Move(c) PROVE AddressInv'
    BY <1>19, MaxMovesAssumption, NoDialAssumption DEF Move, Goto, Return, Finish, Forget, Jump,
       callFrame
  <1>20. ASSUME NEW c \in Dials, Applied(c) PROVE AddressInv'
    BY <1>20, MaxMovesAssumption, NoDialAssumption DEF Applied, Goto, Jump, callFrame
  <1>21. ASSUME NEW c \in Dials, ExchangeFails(c) PROVE AddressInv'
    BY <1>21, MaxMovesAssumption, NoDialAssumption DEF ExchangeFails, HelloError, Return,
       Finish, Forget, helloFrame, callFrame
  <1>23. ASSUME NEW c \in Dials, ReadHello(c) PROVE AddressInv'
    BY <1>23, MaxMovesAssumption, NoDialAssumption DEF ReadHello, Goto, Jump, Return,
       Finish, Forget, helloFrame, callFrame
  <1>24. ASSUME NEW c \in Dials, StopWatchdog(c) PROVE AddressInv'
    BY <1>24, MaxMovesAssumption, NoDialAssumption DEF StopWatchdog, HelloError, Return,
       Finish, Forget, helloFrame, callFrame
  <1>25. ASSUME NEW c \in Dials, ClearDeadlines(c) PROVE AddressInv'
    BY <1>25, MaxMovesAssumption, NoDialAssumption DEF ClearDeadlines, Return, Finish, Forget,
       helloFrame, callFrame
  <1>26. ASSUME NEW c \in Dials, WatchdogStarts(c) PROVE AddressInv'
    BY <1>26, MaxMovesAssumption, NoDialAssumption DEF WatchdogStarts, watchdogFrame,
       helloFrame, callFrame
  <1>27. ASSUME NEW c \in Dials, WatchdogCloses(c) PROVE AddressInv'
    BY <1>27, MaxMovesAssumption, NoDialAssumption DEF WatchdogCloses, watchdogFrame,
       helloFrame, callFrame
  <1>28. CASE UNCHANGED vars
    BY <1>28 DEF vars
  <1>29. QED
    BY <1>1, <1>2, <1>3, <1>4, <1>5, <1>6, <1>7, <1>8, <1>9, <1>10, <1>11, <1>12, <1>13,
       <1>14, <1>15, <1>16, <1>17, <1>18, <1>19, <1>20, <1>21, <1>23, <1>24,
       <1>25, <1>26, <1>27, <1>28
    DEF Next, Build, DialStep, Refresh, Hello, Watchdog

\* Every step of the client keeps the inductive invariant.
LEMMA ClientInvariant == Spec => []ClientInv
  <1>1. Init => ClientInv
    BY InitClient
  <1>2. ClientInv /\ [Next]_vars => ClientInv'
    BY NextType, NextBuild, NextSlot, NextConn, NextAddress DEF ClientInv
  <1>3. QED
    BY <1>1, <1>2, PTL DEF Spec

\* A connection that Dial has handed out stays open until Close, whatever its
\* watchdog and the deferred cancel do (finishHello).
THEOREM HandedOutConnections == Spec => []HandedOutStaysOpen
  <1>1. ClientInv => HandedOutStaysOpen
    BY DEF ClientInv, ConnInv, HandedOutStaysOpen
  <1>2. QED
    BY <1>1, ClientInvariant, PTL

\* A call that fails leaves no connection open and a construction that fails
\* no device (Dial, newClient).
THEOREM FailuresLeaveNothing == Spec => []FailureLeavesNothing
  <1>1. ClientInv => FailureLeavesNothing
    BY DEF ClientInv, BuildInv, ConnInv, FailureLeavesNothing
  <1>2. QED
    BY <1>1, ClientInvariant, PTL

\* Calls that fail together make one lookup: refreshEndpoint's slot and
\* generation, for any number of calls.
THEOREM LookupsAreNotRepeated == Spec => []NoRedundantLookup
  <1>1. ClientInv => NoRedundantLookup
    BY DEF ClientInv, SlotInv, NoRedundantLookup
  <1>2. QED
    BY <1>1, ClientInvariant, PTL

\* The address on record is the device's but between SetPeerEndpoint and
\* applied.
THEOREM EndpointsAgree == Spec => []EndpointAgrees
  <1>1. ClientInv => EndpointAgrees
    BY DEF ClientInv, AddressInv
  <1>2. QED
    BY <1>1, ClientInvariant, PTL

\* Neither the address on record nor the device's ever moves back.
THEOREM EndpointsMoveForward == Spec => EndpointForward
  <1> DEFINE Forward == build = "ready" => addr' >= addr /\ devAddr' >= devAddr
  <1>1. ASSUME ClientInv, [Next]_vars PROVE [Forward]_vars
    <2> SUFFICES ASSUME build = "ready" PROVE addr' >= addr /\ devAddr' >= devAddr
      OBVIOUS
    <2> USE DEF ClientInv, TypeOK, Addrs, AddressInv
    <2>1. ASSUME NEW c \in Dials, Move(c) PROVE addr' >= addr /\ devAddr' >= devAddr
      BY <1>1, <2>1, MaxMovesAssumption DEF Move
    <2>2. ASSUME NEW c \in Dials, Applied(c) PROVE addr' >= addr /\ devAddr' >= devAddr
      BY <1>1, <2>2, MaxMovesAssumption DEF Applied
    <2>3. CASE UNCHANGED <<addr, devAddr>>
      BY <1>1, <2>3, MaxMovesAssumption
    <2>4. (\E c \in Dials : Move(c) \/ Applied(c)) \/ UNCHANGED <<addr, devAddr>>
      <3> USE DEF endpointVars, callFrame, helloFrame
      <3>1. CASE NameMoves \/ CloseFlag \/ CloseDevice \/ Build
        BY <3>1 DEF NameMoves, CloseFlag, CloseDevice, closeFrame, Build, BuildEndpoint,
           BuildSecrets, BuildDevice, BuildPeer
      <3>2. ASSUME NEW c \in Dials,
                   DeadlinePasses(c) \/ BudgetExpires(c) \/ CallerCancels(c)
            PROVE  UNCHANGED <<addr, devAddr>>
        BY <3>2 DEF DeadlinePasses, BudgetExpires, CallerCancels, budgetFrame
      <3>3. ASSUME NEW c \in Dials,
                   Begin(c) \/ RecordGeneration(c) \/ Attempt(c) \/ Retry(c)
            PROVE  UNCHANGED <<addr, devAddr>>
        BY <3>3 DEF Begin, RecordGeneration, Attempt, Retry
      <3>4. ASSUME NEW c \in Dials,
                   AcquireRefresh(c) \/ SkipRefresh(c) \/ CheckGeneration(c) \/ Lookup(c)
            PROVE  UNCHANGED <<addr, devAddr>>
        BY <3>4 DEF AcquireRefresh, SkipRefresh, CheckGeneration, Lookup
      <3>5. ASSUME NEW c \in Dials, Hello(c) \/ Watchdog(c)
            PROVE  UNCHANGED <<addr, devAddr>>
        BY <3>5 DEF Hello, ExchangeFails, ReadHello, StopWatchdog, ClearDeadlines,
           Watchdog, WatchdogStarts, WatchdogCloses, watchdogFrame
      <3>6. CASE UNCHANGED vars
        BY <3>6 DEF vars
      <3>7. QED
        BY <1>1, <3>1, <3>2, <3>3, <3>4, <3>5, <3>6 DEF Next, DialStep, Refresh
    <2>5. QED
      BY <2>1, <2>2, <2>3, <2>4
  <1>2. QED
    BY <1>1, ClientInvariant, PTL DEF Spec, EndpointForward

\* A call of refreshEndpoint that makes the lookup itself ends with an address
\* at least as new as the call; only one that skips it can be left with an
\* older one.
THEOREM OwnLookupsAreFresh == Spec => OwnLookupIsFresh
  <1> DEFINE Fresh ==
        \A c \in Dials :
            pc[c] = "apply" /\ pc'[c] = "attempt"
                => addr' >= began[c] /\ (device = "open" => devAddr' >= began[c])
  <1>1. ASSUME ClientInv, [Next]_vars PROVE [Fresh]_vars
    <2> SUFFICES ASSUME NEW c \in Dials, pc[c] = "apply", pc'[c] = "attempt"
                 PROVE  addr' >= began[c] /\ (device = "open" => devAddr' >= began[c])
      OBVIOUS
    <2>1. ASSUME NEW d \in Dials, Applied(d)
          PROVE  addr' >= began[c] /\ (device = "open" => devAddr' >= began[c])
      BY <1>1, <2>1, MaxMovesAssumption
      DEF Applied, Goto, Jump, ClientInv, TypeOK, Addrs, AddressInv
    <2>2. \E d \in Dials : Applied(d)
      <3> USE DEF ClientInv, TypeOK, endpointVars, clientVars
      <3>1. CASE NameMoves \/ CloseFlag \/ CloseDevice \/ Build
        BY <1>1, <3>1 DEF NameMoves, CloseFlag, CloseDevice, closeFrame, Build,
           BuildEndpoint, BuildSecrets, BuildDevice, BuildPeer, buildFrame
      <3>2. ASSUME NEW d \in Dials,
                   DeadlinePasses(d) \/ BudgetExpires(d) \/ CallerCancels(d)
            PROVE  FALSE
        BY <1>1, <3>2 DEF DeadlinePasses, BudgetExpires, CallerCancels, budgetFrame
      <3>3. ASSUME NEW d \in Dials,
                   Begin(d) \/ RecordGeneration(d) \/ Attempt(d) \/ Retry(d)
            PROVE  FALSE
        BY <1>1, <3>3 DEF Begin, RecordGeneration, Attempt, Retry, Return, Finish, Forget,
           Goto, Jump
      <3>4. ASSUME NEW d \in Dials,
                   AcquireRefresh(d) \/ SkipRefresh(d) \/ CheckGeneration(d) \/ Lookup(d)
                      \/ Move(d)
            PROVE  FALSE
        BY <1>1, <3>4 DEF AcquireRefresh, SkipRefresh, CheckGeneration, Lookup, Answered,
           Move, Return, Finish, Forget, Goto, Jump
      <3>5. ASSUME NEW d \in Dials, Hello(d) \/ Watchdog(d)
            PROVE  FALSE
        BY <1>1, <3>5 DEF Hello, ExchangeFails, ReadHello, StopWatchdog,
           ClearDeadlines, HelloError, Return, Finish, Forget, Goto, Jump, Watchdog,
           WatchdogStarts, WatchdogCloses, watchdogFrame
      <3>6. CASE UNCHANGED vars
        BY <1>1, <3>6 DEF vars
      <3>7. QED
        BY <1>1, <3>1, <3>2, <3>3, <3>4, <3>5, <3>6 DEF Next, DialStep, Refresh
    <2>3. QED
      BY <2>1, <2>2
  <1>2. QED
    BY <1>1, ClientInvariant, PTL DEF Spec, OwnLookupIsFresh
===============================================================================
