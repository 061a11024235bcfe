--------------------------- MODULE ServerRunProofs ---------------------------
(***************************************************************************)
(* Proofs about the life of a server process, for every number of          *)
(* connections and all values of the deadlines: LifeInv is inductive, and  *)
(* the safety properties of ServerRun follow from it.  The last theorem is *)
(* about the settings alone: for every server.yaml.                        *)
(***************************************************************************)
EXTENDS ServerRun, TLAPS

LEMMA InitLife == Init => LifeInv
  <1> SUFFICES ASSUME Init PROVE LifeInv
    OBVIOUS
  <1>1. /\ ctxDone \in BOOLEAN /\ cancelled \in BOOLEAN /\ watcher \in BOOLEAN
        /\ ln \in BOOLEAN /\ watchErr \in BOOLEAN /\ expired \in BOOLEAN
    BY Zenon DEF Init
  <1>2. /\ pc \in [Conns -> Running \cup {"none"}] /\ closed \in [Conns -> BOOLEAN]
        /\ age \in [Conns -> 0..(HelloDeadline + DialTimeout)]
    BY TimesAssumption DEF Init
  <1>3. TypeOK
    BY <1>1, <1>2, TimesAssumption DEF Init, TypeOK, Startup
  <1>4. StartupInv /\ ServingInv /\ ClosingInv /\ ResultInv
    BY Zenon DEF Init, StartupInv, ServingInv, ClosingInv, ResultInv, Startup, Serving, Drains,
       Closing, AllReturned
  <1>5. ClockInv
    BY TimesAssumption DEF Init, ClockInv
  <1>6. QED
    BY <1>3, <1>4, <1>5 DEF LifeInv

\* A step of a handler keeps the types of its variables.
LEMMA GotoType ==
    ASSUME NEW c \in Conns, NEW p \in Running \cup {"none"}, TypeOK, Goto(c, p)
    PROVE  /\ pc' \in [Conns -> Running \cup {"none"}] /\ closed' \in [Conns -> BOOLEAN]
           /\ age' \in [Conns -> 0..(HelloDeadline + DialTimeout)]
  <1>1. closed' \in [Conns -> BOOLEAN]
    BY Zenon DEF TypeOK, Goto
  <1>2. pc' \in [Conns -> Running \cup {"none"}]
    BY DEF TypeOK, Goto
  <1>3. age' \in [Conns -> 0..(HelloDeadline + DialTimeout)]
    <2>1. 0 \in 0..(HelloDeadline + DialTimeout)
      BY TimesAssumption
    <2>2. QED
      BY <2>1 DEF TypeOK, Goto
  <1>4. QED
    BY <1>1, <1>2, <1>3


\* Deadlines bound the clocks, so the type is preserved.
LEMMA NextType ==
    ASSUME LifeInv, [Next]_vars
    PROVE  TypeOK'
  <1> USE DEF LifeInv, TypeOK
  <1>1. CASE Cancel
    BY <1>1, TimesAssumption DEF Cancel, procVars, handlerVars
  <1>2. CASE LoadConfig
    BY <1>2, TimesAssumption DEF LoadConfig, startVars, procVars, handlerVars, Fail, Startup
  <1>3. CASE MakeServer
    BY <1>3, TimesAssumption DEF MakeServer, startVars, procVars, handlerVars, Fail, Startup
  <1>4. CASE ResolveKey
    BY <1>4, TimesAssumption DEF ResolveKey, startVars, procVars, handlerVars, Fail, Startup
  <1>5. CASE NewPeerWatcher
    <2>1. watcher' \in BOOLEAN
      BY <1>5, Zenon DEF NewPeerWatcher
    <2>2. QED
      BY <1>5, TimesAssumption, <2>1 DEF NewPeerWatcher, startVars, procVars,
         handlerVars, Fail, Startup
  <1>6. CASE NewTunnelDevice
    BY <1>6, TimesAssumption DEF NewTunnelDevice, startVars, procVars, handlerVars, Fail,
       Startup
  <1>7. CASE ApplyInitial
    BY <1>7, TimesAssumption DEF ApplyInitial, startVars, procVars, handlerVars, Fail, Startup
  <1>8. CASE Listen
    <2>1. ln' \in BOOLEAN
      BY <1>8, Zenon DEF Listen
    <2>2. QED
      BY <1>8, TimesAssumption, <2>1 DEF Listen, startVars, procVars, handlerVars, Fail
  <1>9. CASE AcceptFails
    BY <1>9, TimesAssumption DEF AcceptFails, otherVars, procVars, handlerVars
  <1>10. CASE CloseListener
    <2>1. ln' \in BOOLEAN
      BY <1>10, Zenon DEF CloseListener
    <2>2. QED
      BY <1>10, TimesAssumption, <2>1 DEF CloseListener, otherVars, procVars, handlerVars
  <1>11. ASSUME NEW c \in Conns, Accept(c) PROVE TypeOK'
    <2>1. /\ pc' \in [Conns -> Running \cup {"none"}] /\ closed' \in [Conns -> BOOLEAN]
          /\ age' \in [Conns -> 0..(HelloDeadline + DialTimeout)]
      BY <1>11, GotoType DEF Accept, Running
    <2>2. QED
      BY <1>11, TimesAssumption, <2>1 DEF Accept, otherVars, procVars
  <1>12. ASSUME NEW c \in Conns, HelloDone(c) PROVE TypeOK'
    <2>1. /\ pc' \in [Conns -> Running \cup {"none"}] /\ closed' \in [Conns -> BOOLEAN]
          /\ age' \in [Conns -> 0..(HelloDeadline + DialTimeout)]
      BY <1>12, GotoType DEF HelloDone, LifeInv, Running
    <2>2. QED
      BY <1>12, TimesAssumption, <2>1 DEF HelloDone, otherVars, procVars
  <1>13. ASSUME NEW c \in Conns, DialDone(c) PROVE TypeOK'
    <2>1. /\ pc' \in [Conns -> Running \cup {"none"}] /\ closed' \in [Conns -> BOOLEAN]
          /\ age' \in [Conns -> 0..(HelloDeadline + DialTimeout)]
      BY <1>13, GotoType DEF DialDone, LifeInv, Running
    <2>2. QED
      BY <1>13, TimesAssumption, <2>1 DEF DialDone, otherVars, procVars
  <1>14. ASSUME NEW c \in Conns, Refused(c) PROVE TypeOK'
    BY <1>14, TimesAssumption DEF Refused, Goto, otherVars, procVars
  <1>15. ASSUME NEW c \in Conns, RespondDone(c) PROVE TypeOK'
    <2>1. /\ pc' \in [Conns -> Running \cup {"none"}] /\ closed' \in [Conns -> BOOLEAN]
          /\ age' \in [Conns -> 0..(HelloDeadline + DialTimeout)]
      BY <1>15, GotoType DEF RespondDone, LifeInv, Running
    <2>2. QED
      BY <1>15, TimesAssumption, <2>1 DEF RespondDone, otherVars, procVars
  <1>16. ASSUME NEW c \in Conns, PipeEnds(c) PROVE TypeOK'
    BY <1>16, TimesAssumption DEF PipeEnds, Goto, otherVars, procVars
  <1>17. CASE WatchReload
    BY <1>17, TimesAssumption DEF WatchReload, watchFrame, procVars, handlerVars
  <1>18. CASE WatchReloaded
    BY <1>18, TimesAssumption DEF WatchReloaded, watchFrame, procVars, handlerVars
  <1>19. CASE WatchStops
    BY <1>19, TimesAssumption DEF WatchStops, watchFrame, procVars, handlerVars
  <1>20. CASE WatchFails
    BY <1>20, TimesAssumption DEF WatchFails, watchFrame, procVars, handlerVars
  <1>21. CASE WatchCancels
    BY <1>21, TimesAssumption DEF WatchCancels, watchFrame, procVars, handlerVars
  <1>22. CASE CancelRun
    BY <1>22, TimesAssumption DEF CancelRun, deferVars, procVars, handlerVars
  <1>23. CASE AwaitWatcher
    BY <1>23, TimesAssumption DEF AwaitWatcher, deferVars, procVars, handlerVars
  <1>24. CASE Drain
    <2>1. ln' \in BOOLEAN
      BY <1>24, Zenon DEF Drain
    <2>2. QED
      BY <1>24, TimesAssumption, <2>1 DEF Drain, deferVars, procVars, handlerVars
  <1>25. CASE Drained
    BY <1>25, TimesAssumption DEF Drained, deferVars, procVars, handlerVars
  <1>26. CASE DrainExpires
    BY <1>26, TimesAssumption DEF DrainExpires, deferVars, procVars, handlerVars
  <1>27. CASE CloseDevice
    BY <1>27, TimesAssumption DEF CloseDevice, deferVars, procVars, handlerVars
  <1>28. CASE CloseWatcher
    <2>1. watcher' \in BOOLEAN
      BY <1>28, Zenon DEF CloseWatcher
    <2>2. QED
      BY <1>28, TimesAssumption, <2>1 DEF CloseWatcher, deferVars, procVars, handlerVars
  <1>29. CASE Exit
    BY <1>29, TimesAssumption DEF Exit, deferVars, procVars, handlerVars
  <1>30. CASE Tick
    <2>1. age' \in [Conns -> 0..(HelloDeadline + DialTimeout)]
      <3>1. SUFFICES ASSUME NEW c \in Conns
                     PROVE (IF pc[c] \in Running \ {"pipe"} THEN age[c] + 1 ELSE 0)
                           \in 0..(HelloDeadline + DialTimeout)
        BY <1>30 DEF Tick
      <3>2. MayWait(c) /\ age[c] \in Nat /\ pc[c] \in Running \cup {"none"}
        BY <1>30, TimesAssumption DEF Tick
      <3>3. QED
        BY <3>2, TimesAssumption DEF MayWait, Running
    <2>2. QED
      BY <1>30, TimesAssumption, <2>1 DEF Tick, procVars
  <1>31. CASE UNCHANGED vars
    BY <1>31 DEF vars, procVars, handlerVars
  <1>32. QED
    BY <1>1, <1>2, <1>3, <1>4, <1>5, <1>6, <1>7, <1>8, <1>9, <1>10, <1>11, <1>12, <1>13,
       <1>14, <1>15, <1>16, <1>17, <1>18, <1>19, <1>20, <1>21, <1>22, <1>23, <1>24,
       <1>25, <1>26, <1>27, <1>28, <1>29, <1>30, <1>31
    DEF Next, StartupStep, DeferStep, WatchStep, HandlerStep

\* The steps of startup, one after the other.
LEMMA NextStartup ==
    ASSUME LifeInv, [Next]_vars
    PROVE  StartupInv'
  <1> USE DEF LifeInv, TypeOK, StartupInv, Startup, Running, AllReturned
  <1>1. CASE Cancel
    BY <1>1 DEF Cancel, procVars, handlerVars
  <1>2. CASE LoadConfig
    BY <1>2 DEF LoadConfig, startVars, procVars, handlerVars, Fail
  <1>3. CASE MakeServer
    BY <1>3 DEF MakeServer, startVars, procVars, handlerVars, Fail
  <1>4. CASE ResolveKey
    BY <1>4 DEF ResolveKey, startVars, procVars, handlerVars, Fail
  <1>5. CASE NewPeerWatcher
    BY <1>5 DEF NewPeerWatcher, startVars, procVars, handlerVars, Fail
  <1>6. CASE NewTunnelDevice
    BY <1>6 DEF NewTunnelDevice, startVars, procVars, handlerVars, Fail
  <1>7. CASE ApplyInitial
    BY <1>7 DEF ApplyInitial, startVars, procVars, handlerVars, Fail
  <1>8. CASE Listen
    BY <1>8 DEF Listen, startVars, procVars, handlerVars, Fail
  <1>9. CASE AcceptFails
    BY <1>9 DEF AcceptFails, otherVars, procVars, handlerVars
  <1>10. CASE CloseListener
    BY <1>10 DEF CloseListener, otherVars, procVars, handlerVars
  <1>11. ASSUME NEW c \in Conns, Accept(c) PROVE StartupInv'
    BY <1>11 DEF Accept, Goto, otherVars, procVars
  <1>12. ASSUME NEW c \in Conns, HelloDone(c) PROVE StartupInv'
    BY <1>12 DEF HelloDone, Goto, otherVars, procVars
  <1>13. ASSUME NEW c \in Conns, DialDone(c) PROVE StartupInv'
    BY <1>13 DEF DialDone, Goto, otherVars, procVars
  <1>14. ASSUME NEW c \in Conns, Refused(c) PROVE StartupInv'
    BY <1>14 DEF Refused, Goto, otherVars, procVars
  <1>15. ASSUME NEW c \in Conns, RespondDone(c) PROVE StartupInv'
    BY <1>15 DEF RespondDone, Goto, otherVars, procVars
  <1>16. ASSUME NEW c \in Conns, PipeEnds(c) PROVE StartupInv'
    BY <1>16 DEF PipeEnds, Goto, otherVars, procVars
  <1>17. CASE WatchReload
    BY <1>17 DEF WatchReload, watchFrame, procVars, handlerVars
  <1>18. CASE WatchReloaded
    BY <1>18 DEF WatchReloaded, watchFrame, procVars, handlerVars
  <1>19. CASE WatchStops
    BY <1>19 DEF WatchStops, watchFrame, procVars, handlerVars
  <1>20. CASE WatchFails
    BY <1>20 DEF WatchFails, watchFrame, procVars, handlerVars
  <1>21. CASE WatchCancels
    BY <1>21 DEF WatchCancels, watchFrame, procVars, handlerVars
  <1>22. CASE CancelRun
    BY <1>22 DEF CancelRun, deferVars, procVars, handlerVars
  <1>23. CASE AwaitWatcher
    BY <1>23 DEF AwaitWatcher, deferVars, procVars, handlerVars
  <1>24. CASE Drain
    BY <1>24 DEF Drain, deferVars, procVars, handlerVars
  <1>25. CASE Drained
    BY <1>25 DEF Drained, deferVars, procVars, handlerVars
  <1>26. CASE DrainExpires
    BY <1>26 DEF DrainExpires, deferVars, procVars, handlerVars
  <1>27. CASE CloseDevice
    BY <1>27 DEF CloseDevice, deferVars, procVars, handlerVars
  <1>28. CASE CloseWatcher
    BY <1>28 DEF CloseWatcher, deferVars, procVars, handlerVars
  <1>29. CASE Exit
    BY <1>29 DEF Exit, deferVars, procVars, handlerVars
  <1>30. CASE Tick
    BY <1>30 DEF Tick, procVars
  <1>31. CASE UNCHANGED vars
    BY <1>31 DEF vars, procVars, handlerVars
  <1>32. QED
    BY <1>1, <1>2, <1>3, <1>4, <1>5, <1>6, <1>7, <1>8, <1>9, <1>10, <1>11, <1>12, <1>13,
       <1>14, <1>15, <1>16, <1>17, <1>18, <1>19, <1>20, <1>21, <1>22, <1>23, <1>24,
       <1>25, <1>26, <1>27, <1>28, <1>29, <1>30, <1>31
    DEF Next, StartupStep, DeferStep, WatchStep, HandlerStep

\* From the accept loop to the drain.
LEMMA NextServing ==
    ASSUME LifeInv, [Next]_vars
    PROVE  ServingInv'
  <1> USE DEF LifeInv, TypeOK, StartupInv, ServingInv, Startup, Serving, Drains
  <1>1. CASE Cancel
    BY <1>1 DEF Cancel, procVars, handlerVars
  <1>2. CASE LoadConfig
    BY <1>2 DEF LoadConfig, startVars, procVars, handlerVars, Fail
  <1>3. CASE MakeServer
    BY <1>3 DEF MakeServer, startVars, procVars, handlerVars, Fail
  <1>4. CASE ResolveKey
    BY <1>4 DEF ResolveKey, startVars, procVars, handlerVars, Fail
  <1>5. CASE NewPeerWatcher
    BY <1>5 DEF NewPeerWatcher, startVars, procVars, handlerVars, Fail
  <1>6. CASE NewTunnelDevice
    BY <1>6 DEF NewTunnelDevice, startVars, procVars, handlerVars, Fail
  <1>7. CASE ApplyInitial
    BY <1>7 DEF ApplyInitial, startVars, procVars, handlerVars, Fail
  <1>8. CASE Listen
    BY <1>8 DEF Listen, startVars, procVars, handlerVars, Fail
  <1>9. CASE AcceptFails
    BY <1>9 DEF AcceptFails, otherVars, procVars, handlerVars
  <1>10. CASE CloseListener
    BY <1>10 DEF CloseListener, otherVars, procVars, handlerVars
  <1>11. ASSUME NEW c \in Conns, Accept(c) PROVE ServingInv'
    BY <1>11 DEF Accept, Goto, otherVars, procVars
  <1>12. ASSUME NEW c \in Conns, HelloDone(c) PROVE ServingInv'
    BY <1>12 DEF HelloDone, Goto, otherVars, procVars
  <1>13. ASSUME NEW c \in Conns, DialDone(c) PROVE ServingInv'
    BY <1>13 DEF DialDone, Goto, otherVars, procVars
  <1>14. ASSUME NEW c \in Conns, Refused(c) PROVE ServingInv'
    BY <1>14 DEF Refused, Goto, otherVars, procVars
  <1>15. ASSUME NEW c \in Conns, RespondDone(c) PROVE ServingInv'
    BY <1>15 DEF RespondDone, Goto, otherVars, procVars
  <1>16. ASSUME NEW c \in Conns, PipeEnds(c) PROVE ServingInv'
    BY <1>16 DEF PipeEnds, Goto, otherVars, procVars
  <1>17. CASE WatchReload
    BY <1>17 DEF WatchReload, watchFrame, procVars, handlerVars
  <1>18. CASE WatchReloaded
    BY <1>18 DEF WatchReloaded, watchFrame, procVars, handlerVars
  <1>19. CASE WatchStops
    BY <1>19 DEF WatchStops, watchFrame, procVars, handlerVars
  <1>20. CASE WatchFails
    BY <1>20 DEF WatchFails, watchFrame, procVars, handlerVars
  <1>21. CASE WatchCancels
    BY <1>21 DEF WatchCancels, watchFrame, procVars, handlerVars
  <1>22. CASE CancelRun
    BY <1>22 DEF CancelRun, deferVars, procVars, handlerVars
  <1>23. CASE AwaitWatcher
    BY <1>23 DEF AwaitWatcher, deferVars, procVars, handlerVars
  <1>24. CASE Drain
    BY <1>24 DEF Drain, deferVars, procVars, handlerVars
  <1>25. CASE Drained
    BY <1>25 DEF Drained, deferVars, procVars, handlerVars
  <1>26. CASE DrainExpires
    BY <1>26 DEF DrainExpires, deferVars, procVars, handlerVars
  <1>27. CASE CloseDevice
    BY <1>27 DEF CloseDevice, deferVars, procVars, handlerVars
  <1>28. CASE CloseWatcher
    BY <1>28 DEF CloseWatcher, deferVars, procVars, handlerVars
  <1>29. CASE Exit
    BY <1>29 DEF Exit, deferVars, procVars, handlerVars
  <1>30. CASE Tick
    BY <1>30 DEF Tick, procVars
  <1>31. CASE UNCHANGED vars
    BY <1>31 DEF vars, procVars, handlerVars
  <1>32. QED
    BY <1>1, <1>2, <1>3, <1>4, <1>5, <1>6, <1>7, <1>8, <1>9, <1>10, <1>11, <1>12, <1>13,
       <1>14, <1>15, <1>16, <1>17, <1>18, <1>19, <1>20, <1>21, <1>22, <1>23, <1>24,
       <1>25, <1>26, <1>27, <1>28, <1>29, <1>30, <1>31
    DEF Next, StartupStep, DeferStep, WatchStep, HandlerStep

\* The closing defers: no handler starts once the accept loop has ended.
LEMMA NextClosing ==
    ASSUME LifeInv, [Next]_vars
    PROVE  ClosingInv'
  <1> USE DEF LifeInv, TypeOK, StartupInv, ServingInv, ClosingInv, Startup, Serving,
             Drains, Closing, AllReturned
  <1>1. CASE Cancel
    BY <1>1 DEF Cancel, procVars, handlerVars
  <1>2. CASE LoadConfig
    BY <1>2 DEF LoadConfig, startVars, procVars, handlerVars, Fail
  <1>3. CASE MakeServer
    BY <1>3 DEF MakeServer, startVars, procVars, handlerVars, Fail
  <1>4. CASE ResolveKey
    BY <1>4 DEF ResolveKey, startVars, procVars, handlerVars, Fail
  <1>5. CASE NewPeerWatcher
    BY <1>5 DEF NewPeerWatcher, startVars, procVars, handlerVars, Fail
  <1>6. CASE NewTunnelDevice
    BY <1>6 DEF NewTunnelDevice, startVars, procVars, handlerVars, Fail
  <1>7. CASE ApplyInitial
    BY <1>7 DEF ApplyInitial, startVars, procVars, handlerVars, Fail
  <1>8. CASE Listen
    BY <1>8 DEF Listen, startVars, procVars, handlerVars, Fail
  <1>9. CASE AcceptFails
    BY <1>9 DEF AcceptFails, otherVars, procVars, handlerVars
  <1>10. CASE CloseListener
    BY <1>10 DEF CloseListener, otherVars, procVars, handlerVars
  <1>11. ASSUME NEW c \in Conns, Accept(c) PROVE ClosingInv'
    BY <1>11 DEF Accept, Goto, otherVars, procVars
  <1>12. ASSUME NEW c \in Conns, HelloDone(c) PROVE ClosingInv'
    BY <1>12 DEF HelloDone, Goto, otherVars, procVars
  <1>13. ASSUME NEW c \in Conns, DialDone(c) PROVE ClosingInv'
    BY <1>13 DEF DialDone, Goto, otherVars, procVars
  <1>14. ASSUME NEW c \in Conns, Refused(c) PROVE ClosingInv'
    BY <1>14 DEF Refused, Goto, otherVars, procVars
  <1>15. ASSUME NEW c \in Conns, RespondDone(c) PROVE ClosingInv'
    BY <1>15 DEF RespondDone, Goto, otherVars, procVars
  <1>16. ASSUME NEW c \in Conns, PipeEnds(c) PROVE ClosingInv'
    BY <1>16 DEF PipeEnds, Goto, otherVars, procVars
  <1>17. CASE WatchReload
    BY <1>17 DEF WatchReload, watchFrame, procVars, handlerVars
  <1>18. CASE WatchReloaded
    BY <1>18 DEF WatchReloaded, watchFrame, procVars, handlerVars
  <1>19. CASE WatchStops
    BY <1>19 DEF WatchStops, watchFrame, procVars, handlerVars
  <1>20. CASE WatchFails
    BY <1>20 DEF WatchFails, watchFrame, procVars, handlerVars
  <1>21. CASE WatchCancels
    BY <1>21 DEF WatchCancels, watchFrame, procVars, handlerVars
  <1>22. CASE CancelRun
    BY <1>22 DEF CancelRun, deferVars, procVars, handlerVars
  <1>23. CASE AwaitWatcher
    BY <1>23 DEF AwaitWatcher, deferVars, procVars, handlerVars
  <1>24. CASE Drain
    BY <1>24 DEF Drain, deferVars, procVars, handlerVars
  <1>25. CASE Drained
    BY <1>25 DEF Drained, deferVars, procVars, handlerVars
  <1>26. CASE DrainExpires
    BY <1>26 DEF DrainExpires, deferVars, procVars, handlerVars
  <1>27. CASE CloseDevice
    BY <1>27 DEF CloseDevice, deferVars, procVars, handlerVars
  <1>28. CASE CloseWatcher
    BY <1>28 DEF CloseWatcher, deferVars, procVars, handlerVars
  <1>29. CASE Exit
    BY <1>29 DEF Exit, deferVars, procVars, handlerVars
  <1>30. CASE Tick
    BY <1>30 DEF Tick, procVars
  <1>31. CASE UNCHANGED vars
    BY <1>31 DEF vars, procVars, handlerVars
  <1>32. QED
    BY <1>1, <1>2, <1>3, <1>4, <1>5, <1>6, <1>7, <1>8, <1>9, <1>10, <1>11, <1>12, <1>13,
       <1>14, <1>15, <1>16, <1>17, <1>18, <1>19, <1>20, <1>21, <1>22, <1>23, <1>24,
       <1>25, <1>26, <1>27, <1>28, <1>29, <1>30, <1>31
    DEF Next, StartupStep, DeferStep, WatchStep, HandlerStep

\* What becomes of the cause of the end.
LEMMA NextResult ==
    ASSUME LifeInv, [Next]_vars
    PROVE  ResultInv'
  <1> USE DEF LifeInv, TypeOK, StartupInv, ServingInv, ClosingInv, ResultInv, Startup,
             Serving, Drains, Closing
  <1>1. CASE Cancel
    BY <1>1 DEF Cancel, procVars, handlerVars
  <1>2. CASE LoadConfig
    BY <1>2 DEF LoadConfig, startVars, procVars, handlerVars, Fail
  <1>3. CASE MakeServer
    BY <1>3 DEF MakeServer, startVars, procVars, handlerVars, Fail
  <1>4. CASE ResolveKey
    BY <1>4 DEF ResolveKey, startVars, procVars, handlerVars, Fail
  <1>5. CASE NewPeerWatcher
    BY <1>5 DEF NewPeerWatcher, startVars, procVars, handlerVars, Fail
  <1>6. CASE NewTunnelDevice
    BY <1>6 DEF NewTunnelDevice, startVars, procVars, handlerVars, Fail
  <1>7. CASE ApplyInitial
    BY <1>7 DEF ApplyInitial, startVars, procVars, handlerVars, Fail
  <1>8. CASE Listen
    BY <1>8 DEF Listen, startVars, procVars, handlerVars, Fail
  <1>9. CASE AcceptFails
    BY <1>9 DEF AcceptFails, otherVars, procVars, handlerVars
  <1>10. CASE CloseListener
    BY <1>10 DEF CloseListener, otherVars, procVars, handlerVars
  <1>11. ASSUME NEW c \in Conns, Accept(c) PROVE ResultInv'
    BY <1>11 DEF Accept, Goto, otherVars, procVars
  <1>12. ASSUME NEW c \in Conns, HelloDone(c) PROVE ResultInv'
    BY <1>12 DEF HelloDone, Goto, otherVars, procVars
  <1>13. ASSUME NEW c \in Conns, DialDone(c) PROVE ResultInv'
    BY <1>13 DEF DialDone, Goto, otherVars, procVars
  <1>14. ASSUME NEW c \in Conns, Refused(c) PROVE ResultInv'
    BY <1>14 DEF Refused, Goto, otherVars, procVars
  <1>15. ASSUME NEW c \in Conns, RespondDone(c) PROVE ResultInv'
    BY <1>15 DEF RespondDone, Goto, otherVars, procVars
  <1>16. ASSUME NEW c \in Conns, PipeEnds(c) PROVE ResultInv'
    BY <1>16 DEF PipeEnds, Goto, otherVars, procVars
  <1>17. CASE WatchReload
    BY <1>17 DEF WatchReload, watchFrame, procVars, handlerVars
  <1>18. CASE WatchReloaded
    BY <1>18 DEF WatchReloaded, watchFrame, procVars, handlerVars
  <1>19. CASE WatchStops
    BY <1>19 DEF WatchStops, watchFrame, procVars, handlerVars
  <1>20. CASE WatchFails
    BY <1>20 DEF WatchFails, watchFrame, procVars, handlerVars
  <1>21. CASE WatchCancels
    <2>1. cancelled'
      BY <1>21, Zenon DEF WatchCancels
    <2>2. QED
      BY <1>21, <2>1 DEF WatchCancels, watchFrame, procVars, handlerVars
  <1>22. CASE CancelRun
    BY <1>22 DEF CancelRun, deferVars, procVars, handlerVars
  <1>23. CASE AwaitWatcher
    BY <1>23 DEF AwaitWatcher, deferVars, procVars, handlerVars
  <1>24. CASE Drain
    BY <1>24 DEF Drain, deferVars, procVars, handlerVars
  <1>25. CASE Drained
    BY <1>25 DEF Drained, deferVars, procVars, handlerVars
  <1>26. CASE DrainExpires
    BY <1>26 DEF DrainExpires, deferVars, procVars, handlerVars
  <1>27. CASE CloseDevice
    BY <1>27 DEF CloseDevice, deferVars, procVars, handlerVars
  <1>28. CASE CloseWatcher
    BY <1>28 DEF CloseWatcher, deferVars, procVars, handlerVars
  <1>29. CASE Exit
    BY <1>29 DEF Exit, deferVars, procVars, handlerVars
  <1>30. CASE Tick
    BY <1>30 DEF Tick, procVars
  <1>31. CASE UNCHANGED vars
    BY <1>31 DEF vars, procVars, handlerVars
  <1>32. QED
    BY <1>1, <1>2, <1>3, <1>4, <1>5, <1>6, <1>7, <1>8, <1>9, <1>10, <1>11, <1>12, <1>13,
       <1>14, <1>15, <1>16, <1>17, <1>18, <1>19, <1>20, <1>21, <1>22, <1>23, <1>24,
       <1>25, <1>26, <1>27, <1>28, <1>29, <1>30, <1>31
    DEF Next, StartupStep, DeferStep, WatchStep, HandlerStep

\* The time a drain takes.
LEMMA NextClock ==
    ASSUME LifeInv, [Next]_vars
    PROVE  ClockInv'
  <1> USE DEF LifeInv, TypeOK, StartupInv, ServingInv, ClockInv, Startup, Serving, Drains,
             Running, AllReturned
  <1>1. CASE Cancel
    BY <1>1, TimesAssumption DEF Cancel, procVars, handlerVars
  <1>2. CASE LoadConfig
    BY <1>2, TimesAssumption DEF LoadConfig, startVars, procVars, handlerVars, Fail
  <1>3. CASE MakeServer
    BY <1>3, TimesAssumption DEF MakeServer, startVars, procVars, handlerVars, Fail
  <1>4. CASE ResolveKey
    BY <1>4, TimesAssumption DEF ResolveKey, startVars, procVars, handlerVars, Fail
  <1>5. CASE NewPeerWatcher
    BY <1>5, TimesAssumption DEF NewPeerWatcher, startVars, procVars, handlerVars, Fail
  <1>6. CASE NewTunnelDevice
    BY <1>6, TimesAssumption DEF NewTunnelDevice, startVars, procVars, handlerVars, Fail
  <1>7. CASE ApplyInitial
    BY <1>7, TimesAssumption DEF ApplyInitial, startVars, procVars, handlerVars, Fail
  <1>8. CASE Listen
    BY <1>8, TimesAssumption DEF Listen, startVars, procVars, handlerVars, Fail
  <1>9. CASE AcceptFails
    BY <1>9, TimesAssumption DEF AcceptFails, otherVars, procVars, handlerVars
  <1>10. CASE CloseListener
    BY <1>10, TimesAssumption DEF CloseListener, otherVars, procVars, handlerVars
  <1>11. ASSUME NEW c \in Conns, Accept(c) PROVE ClockInv'
    BY <1>11, TimesAssumption DEF Accept, Goto, otherVars, procVars
  <1>12. ASSUME NEW c \in Conns, HelloDone(c) PROVE ClockInv'
    BY <1>12, TimesAssumption DEF HelloDone, Goto, otherVars, procVars
  <1>13. ASSUME NEW c \in Conns, DialDone(c) PROVE ClockInv'
    BY <1>13, TimesAssumption DEF DialDone, Goto, otherVars, procVars
  <1>14. ASSUME NEW c \in Conns, Refused(c) PROVE ClockInv'
    BY <1>14, TimesAssumption DEF Refused, Goto, otherVars, procVars
  <1>15. ASSUME NEW c \in Conns, RespondDone(c) PROVE ClockInv'
    BY <1>15, TimesAssumption DEF RespondDone, Goto, otherVars, procVars
  <1>16. ASSUME NEW c \in Conns, PipeEnds(c) PROVE ClockInv'
    BY <1>16, TimesAssumption DEF PipeEnds, Goto, otherVars, procVars
  <1>17. CASE WatchReload
    BY <1>17, TimesAssumption DEF WatchReload, watchFrame, procVars, handlerVars
  <1>18. CASE WatchReloaded
    BY <1>18, TimesAssumption DEF WatchReloaded, watchFrame, procVars, handlerVars
  <1>19. CASE WatchStops
    BY <1>19, TimesAssumption DEF WatchStops, watchFrame, procVars, handlerVars
  <1>20. CASE WatchFails
    BY <1>20, TimesAssumption DEF WatchFails, watchFrame, procVars, handlerVars
  <1>21. CASE WatchCancels
    BY <1>21, TimesAssumption DEF WatchCancels, watchFrame, procVars, handlerVars
  <1>22. CASE CancelRun
    BY <1>22, TimesAssumption DEF CancelRun, deferVars, procVars, handlerVars
  <1>23. CASE AwaitWatcher
    BY <1>23, TimesAssumption DEF AwaitWatcher, deferVars, procVars, handlerVars
  <1>24. CASE Drain
    BY <1>24, TimesAssumption DEF Drain, deferVars, procVars, handlerVars
  <1>25. CASE Drained
    BY <1>25, TimesAssumption DEF Drained, deferVars, procVars, handlerVars
  <1>26. CASE DrainExpires
    BY <1>26, TimesAssumption DEF DrainExpires, deferVars, procVars, handlerVars
  <1>27. CASE CloseDevice
    BY <1>27, TimesAssumption DEF CloseDevice, deferVars, procVars, handlerVars
  <1>28. CASE CloseWatcher
    BY <1>28, TimesAssumption DEF CloseWatcher, deferVars, procVars, handlerVars
  <1>29. CASE Exit
    BY <1>29, TimesAssumption DEF Exit, deferVars, procVars, handlerVars
  <1>30. CASE Tick
    BY <1>30, TimesAssumption DEF Tick, procVars, MayWait
  <1>31. CASE UNCHANGED vars
    BY <1>31 DEF vars, procVars, handlerVars
  <1>32. QED
    BY <1>1, <1>2, <1>3, <1>4, <1>5, <1>6, <1>7, <1>8, <1>9, <1>10, <1>11, <1>12, <1>13,
       <1>14, <1>15, <1>16, <1>17, <1>18, <1>19, <1>20, <1>21, <1>22, <1>23, <1>24,
       <1>25, <1>26, <1>27, <1>28, <1>29, <1>30, <1>31
    DEF Next, StartupStep, DeferStep, WatchStep, HandlerStep

\* Every step of the process keeps the inductive invariant.
LEMMA LifeInvariant == Spec => []LifeInv
  <1>1. Init => LifeInv
    BY InitLife
  <1>2. LifeInv /\ [Next]_vars => LifeInv'
    BY NextType, NextStartup, NextServing, NextClosing, NextResult, NextClock DEF LifeInv
  <1>3. QED
    BY <1>1, <1>2, PTL DEF Spec

\* The variables keep their types: no deadline of a handler, of a reload or
\* of the drain is overrun (Server.Run, handleConn).
THEOREM TypeCorrect == Spec => []TypeOK
  <1>1. LifeInv => TypeOK
    BY DEF LifeInv
  <1>2. QED
    BY <1>1, LifeInvariant, PTL

\* The device is closed only when no handler and no reload can use it, unless
\* the drain gave up: the order of Run's defers, for any number of
\* connections.
THEOREM DeviceIsSafe == Spec => []DeviceOutlivesUsers
  <1>1. LifeInv => DeviceOutlivesUsers
    BY DEF LifeInv, TypeOK, StartupInv, ServingInv, ClosingInv, DeviceOutlivesUsers, Startup,
       Serving, Drains, Closing
  <1>2. QED
    BY <1>1, LifeInvariant, PTL

\* Whatever the deadlines are, a drain that is allowed more than two hello
\* deadlines never expires: its timer is dead code in drainConnections.
THEOREM DrainIsBounded == Spec => []DrainNeverExpires
  <1>1. LifeInv => DrainNeverExpires
    BY DEF LifeInv, ClockInv, DrainNeverExpires
  <1>2. QED
    BY <1>1, LifeInvariant, PTL

\* However Run ends, it has closed what it opened and waited for its
\* goroutines.
THEOREM RunLeaksNothing == Spec => []NothingLeaks
  <1>1. LifeInv => NothingLeaks
    BY DEF LifeInv, ClosingInv, NothingLeaks, Closing
  <1>2. QED
    BY <1>1, LifeInvariant, PTL

\* Exit code 0 means a signal and a watch that did not die.
THEOREM ExitIsHonest == Spec => []ResultIsHonest
  <1>1. LifeInv => ResultIsHonest
    BY DEF LifeInv, ResultInv, ResultIsHonest, Closing
  <1>2. QED
    BY <1>1, LifeInvariant, PTL

-----------------------------------------------------------------------------
(* The settings.                                                           *)

\* An address whose unmapped form is the server's own parses to it, whether
\* or not the unspecified addresses are refused first, and is an address.
LEMMA ServerAddress ==
    ASSUME NEW t
    PROVE  /\ ParseTunnelIP(t) = ServerTunnelIP <=> Unmap(ParseAddr(t)) = ServerTunnelIP
           /\ Unmap(ParseAddr(t)) = ServerTunnelIP => ParseAddr(t) # NoAddr
           /\ Unmap(ServerTunnelIP) = ServerTunnelIP
           /\ ServerTunnelIP # NoAddr /\ InSubnet(ServerTunnelIP)
  <1>1. \A a : Unmap(a) = ServerTunnelIP => ~IsUnspecified(Unmap(a))
    BY DEF ServerTunnelIP, IsUnspecified
  <1>2. NoAddr # ServerTunnelIP /\ Unmap(NoAddr) = NoAddr
    BY DEF NoAddr, ServerTunnelIP, Unmap
  <1>3. QED
    BY <1>1, <1>2 DEF ParseTunnelIP, ServerTunnelIP, Unmap, InSubnet

\* A configuration is told from a refusal.
LEMMA ConfigIsNoRefusal ==
    ASSUME NEW f, "port" \in DOMAIN f
    PROVE  f # NoConfig
  BY DEF NoConfig

\* NewServer on settings that are in order: it fills in the address and the
\* MTU and keeps the rest.
LEMMA NewServerKeeps ==
    ASSUME NEW cfg,
           cfg = [port |-> cfg.port, key |-> cfg.key, ip |-> cfg.ip, mtu |-> cfg.mtu,
                  peers |-> cfg.peers],
           PortOK(cfg.port), ValidSecretRef(cfg.key),
           cfg.ip # NoAddr, Unmap(cfg.ip) = ServerTunnelIP,
           MTUOK(WithDefault(cfg.mtu)), cfg.peers # ""
    PROVE  NewServer(cfg) = [port |-> cfg.port, key |-> cfg.key, ip |-> ServerTunnelIP,
                             mtu |-> WithDefault(cfg.mtu), peers |-> cfg.peers]
  BY DEF NewServer

\* newTunnelDevice on the same settings.
LEMMA DeviceTakes ==
    ASSUME NEW port \in Int, NEW key, NEW mtu, NEW peers,
           PortOK(port), MTUOK(WithDefault(mtu))
    PROVE  DeviceAccepts([port |-> port, key |-> key, ip |-> ServerTunnelIP, mtu |-> mtu,
                          peers |-> peers])
  BY ServerAddress DEF DeviceAccepts, PortOK

\* For every server.yaml: what LoadServerConfig accepts, the log handler,
\* NewServer and newTunnelDevice accept unchanged, and what it refuses for
\* more than its log format NewServer refuses too.
LEMMA SettingsAgree == SettingsCheckedOnce
  <1> SUFFICES ASSUME NEW y \in ServerFiles
               PROVE  LET fc == LoadServerConfig(y)
                          direct == [port |-> y.port, key |-> y.key, ip |-> ParseAddr(y.ip),
                                     mtu |-> y.mtu, peers |-> y.peers]
                      IN  IF fc # NoConfig
                          THEN /\ LogHandlerAccepts(fc.log)
                               /\ NewServer(ServerConfigFrom(fc)) = ServerConfigFrom(fc)
                               /\ DeviceAccepts(ServerConfigFrom(fc))
                               /\ NewServer(direct) = ServerConfigFrom(fc)
                          ELSE NewServer(direct) # NoConfig => y.log \notin {"", "json", "text"}
    BY DEF SettingsCheckedOnce
  <1> DEFINE fc == LoadServerConfig(y)
             cfg == ServerConfigFrom(fc)
             direct == [port |-> y.port, key |-> y.key, ip |-> ParseAddr(y.ip),
                        mtu |-> y.mtu, peers |-> y.peers]
             Accepted == /\ PortOK(y.port) /\ ValidSecretRef(y.key)
                         /\ ParseTunnelIP(y.ip) = ServerTunnelIP
                         /\ MTUOK(WithDefault(y.mtu))
                         /\ y.peers # "" /\ y.log \in {"", "json", "text"}
  <1>1. y.port \in Int /\ y.mtu \in Int
    BY ServerFilesAssumption
  <1> HIDE DEF cfg
  <1>2. CASE Accepted
    <2>1. fc = [port |-> y.port, key |-> y.key, ip |-> ServerTunnelIP,
                mtu |-> WithDefault(y.mtu), peers |-> y.peers,
                log |-> IF y.log = "" THEN "json" ELSE y.log]
      BY <1>2 DEF LoadServerConfig
    <2> HIDE DEF fc
    <2>2. cfg = [port |-> y.port, key |-> y.key, ip |-> ServerTunnelIP,
                 mtu |-> WithDefault(y.mtu), peers |-> y.peers]
      BY <2>1 DEF cfg, ServerConfigFrom
    <2>3. WithDefault(WithDefault(y.mtu)) = WithDefault(y.mtu)
      BY DEF WithDefault, DefaultMTU
    <2>4. LogHandlerAccepts(fc.log)
      <3>1. fc.log = IF y.log = "" THEN "json" ELSE y.log
        BY <2>1
      <3>2. QED
        BY <1>2, <3>1 DEF LogHandlerAccepts
    <2>5. NewServer(cfg) = cfg
      <3>1. /\ PortOK(y.port) /\ ValidSecretRef(y.key) /\ y.peers # ""
            /\ ServerTunnelIP # NoAddr /\ Unmap(ServerTunnelIP) = ServerTunnelIP
            /\ MTUOK(WithDefault(WithDefault(y.mtu)))
        BY <1>2, <2>3, ServerAddress
      <3>2. /\ cfg.port = y.port /\ cfg.key = y.key /\ cfg.ip = ServerTunnelIP
            /\ cfg.mtu = WithDefault(y.mtu) /\ cfg.peers = y.peers
        BY <2>2
      <3>3. NewServer(cfg) = [port |-> cfg.port, key |-> cfg.key, ip |-> ServerTunnelIP,
                              mtu |-> WithDefault(cfg.mtu), peers |-> cfg.peers]
        BY <2>2, <3>1, <3>2, NewServerKeeps
      <3>4. QED
        BY <2>2, <2>3, <3>2, <3>3
    <2>6. DeviceAccepts(cfg)
      BY <1>1, <1>2, <2>2, <2>3, DeviceTakes
    <2>7. NewServer(direct) = cfg
      <3>1. /\ PortOK(y.port) /\ ValidSecretRef(y.key) /\ y.peers # ""
            /\ ParseAddr(y.ip) # NoAddr /\ Unmap(ParseAddr(y.ip)) = ServerTunnelIP
            /\ MTUOK(WithDefault(y.mtu))
        BY <1>2, ServerAddress
      <3>2. /\ direct.port = y.port /\ direct.key = y.key /\ direct.ip = ParseAddr(y.ip)
            /\ direct.mtu = y.mtu /\ direct.peers = y.peers
        OBVIOUS
      <3>3. direct = [port |-> direct.port, key |-> direct.key, ip |-> direct.ip,
                      mtu |-> direct.mtu, peers |-> direct.peers]
        OBVIOUS
      <3> HIDE DEF direct
      <3>4. NewServer(direct) = [port |-> direct.port, key |-> direct.key, ip |-> ServerTunnelIP,
                                 mtu |-> WithDefault(direct.mtu), peers |-> direct.peers]
        BY <3>1, <3>2, <3>3, NewServerKeeps
      <3>5. QED
        BY <2>2, <3>2, <3>4
    <2>8. fc # NoConfig
      BY <2>1, ConfigIsNoRefusal
    <2>9. QED
      BY <2>4, <2>5, <2>6, <2>7, <2>8 DEF fc, cfg
  <1>3. CASE ~Accepted
    <2>1. fc = NoConfig
      BY <1>3 DEF LoadServerConfig
    <2>2. NewServer(direct) # NoConfig => y.log \notin {"", "json", "text"}
      BY <1>3, ServerAddress DEF NewServer
    <2>3. QED
      BY <2>1, <2>2
  <1>4. QED
    BY <1>2, <1>3

\* A startup that has loaded server.yaml is not stopped by its settings later,
\* whatever the file says.
THEOREM SettingsAlwaysHold == Spec => []SettingsHold
  <1>1. SettingsHold
    BY SettingsAgree DEF SettingsHold
  <1>2. QED
    BY <1>1, PTL
==============================================================================
