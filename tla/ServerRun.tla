----------------------------- MODULE ServerRun -----------------------------
(***************************************************************************)
(* The life of a server process: the serve command (cmd/gocloak/main.go)   *)
(* loads server.yaml and makes the server, and Server.Run (server.go) does *)
(* the rest: startup, in which every failure is fatal, serving, and the    *)
(* shutdown that its defers perform in reverse order of their              *)
(* registration: cancel, wait for the watcher's goroutine,                 *)
(* drainConnections, close the device, close the watcher.                  *)
(*                                                                         *)
(* Four kinds of goroutines take part: Run itself, the watcher's goroutine *)
(* (which applies reloads to the device), the one that closes the listener *)
(* on cancellation, and the connection handlers.  Time passes in units of  *)
(* five seconds, and never past a deadline: a step that a deadline, a      *)
(* cancelled context or a close ends does end before time goes on.         *)
(***************************************************************************)
EXTENDS ServerFile

CONSTANTS Conns,           \* connection handlers that may run at once
          HelloDeadline,   \* helloReadDeadline, for reads and for responses
          DialTimeout,     \* backendDialTimeout
          ReloadTimeout,   \* secretResolveTimeout
          DrainTimeouts    \* values of shutdownDrainTimeout to consider

ASSUME TimesAssumption ==
    {HelloDeadline, DialTimeout, ReloadTimeout} \cup DrainTimeouts \subseteq Nat \ {0}

VARIABLES
    drainTimeout, \* shutdownDrainTimeout, a constant of the program
    run,        \* where the process is: runServe, then Run
    err,        \* its result so far: "nil", or where the failure came from
    exit,       \* the exit code, "none" while the process runs
    ctxDone,    \* a signal has cancelled the context Run was called with
    cancelled,  \* runCtx is cancelled
    watcher,    \* the peerWatcher is open
    device,     \* the tunnelDevice: "none", "open" or "closed"
    ln,         \* the listener is open
    watch,      \* the watcher's goroutine
    watchErr,   \* watchDone: peerWatcher.Run returned an error
    pc,         \* each handler
    closed,     \* each handler: closeLiveConns has closed its connections
    age,        \* each handler: time spent in its current step
    reloadAge,  \* time spent in the reload under way
    drainAge,   \* time drainConnections has waited
    expired     \* drainConnections gave up waiting

handlerVars == <<pc, closed, age>>
procVars == <<drainTimeout, exit>>
vars == <<procVars, run, err, ctxDone, cancelled, watcher, device, ln, watch, watchErr,
          handlerVars, reloadAge, drainAge, expired>>

Running == {"hello", "dial", "refuse", "respond", "pipe"}
\* Handlers past limiter.track, which closeLiveConns finds.
Tracked == {"respond", "pipe"}
Startup == {"load", "new", "key", "watcher", "device", "apply", "listen"}

TypeOK ==
    /\ drainTimeout \in DrainTimeouts /\ exit \in {"none", "0", "1"}
    /\ run \in Startup \cup {"serve", "cancel", "await", "drain", "wait",
                             "closeDevice", "closeWatcher", "returned", "exited"}
    /\ err \in {"nil", "startup", "accept", "watch"}
    /\ ctxDone \in BOOLEAN /\ cancelled \in BOOLEAN
    /\ watcher \in BOOLEAN /\ ln \in BOOLEAN
    /\ device \in {"none", "open", "closed"}
    /\ watch \in {"off", "select", "reload", "failing", "done"}
    /\ watchErr \in BOOLEAN /\ expired \in BOOLEAN
    /\ pc \in [Conns -> Running \cup {"none"}]
    /\ closed \in [Conns -> BOOLEAN]
    /\ age \in [Conns -> 0..(HelloDeadline + DialTimeout)]
    /\ reloadAge \in 0..ReloadTimeout /\ drainAge \in 0..drainTimeout

Init ==
    /\ drainTimeout \in DrainTimeouts /\ exit = "none"
    /\ run = "load" /\ err = "nil"
    /\ ctxDone = FALSE /\ cancelled = FALSE
    /\ watcher = FALSE /\ device = "none" /\ ln = FALSE
    /\ watch = "off" /\ watchErr = FALSE
    /\ pc = [c \in Conns |-> "none"]
    /\ closed = [c \in Conns |-> FALSE]
    /\ age = [c \in Conns |-> 0]
    /\ reloadAge = 0 /\ drainAge = 0 /\ expired = FALSE

\* SIGINT or SIGTERM, caught from signal.NotifyContext on, cancels the
\* context; runCtx, once made, is cancelled with it.
Cancel ==
    /\ run \notin {"load", "new", "exited"}
    /\ ~ctxDone /\ ctxDone' = TRUE
    /\ cancelled' = (cancelled \/ run \notin Startup)
    /\ UNCHANGED <<procVars, run, err, watcher, device, ln, watch, watchErr, handlerVars,
                   reloadAge, drainAge, expired>>

-----------------------------------------------------------------------------
(* runServe, and Run until it serves.  A failure goes to the first defer   *)
(* registered.                                                             *)

startVars == <<procVars, ctxDone, watchErr, handlerVars, reloadAge, drainAge, expired>>

Fail(defer) == run' = defer /\ err' = "startup"

\* LoadServerConfig, and the log handler that its log_format selects.
LoadConfig ==
    /\ run = "load"
    /\ \/ run' = "new" /\ UNCHANGED err
       \/ Fail("returned")
    /\ UNCHANGED <<startVars, cancelled, watcher, device, ln, watch>>

\* NewServer, which loads the peers file a first time; then NotifyContext.
MakeServer ==
    /\ run = "new"
    /\ \/ run' = "key" /\ UNCHANGED err
       \/ Fail("returned")
    /\ UNCHANGED <<startVars, cancelled, watcher, device, ln, watch>>

ResolveKey ==
    /\ run = "key"
    /\ \/ run' = "watcher" /\ UNCHANGED err
       \/ Fail("returned")
    /\ UNCHANGED <<startVars, cancelled, watcher, device, ln, watch>>

NewPeerWatcher ==
    /\ run = "watcher"
    /\ \/ run' = "device" /\ watcher' = TRUE /\ UNCHANGED err
       \/ Fail("returned") /\ UNCHANGED watcher
    /\ UNCHANGED <<startVars, cancelled, device, ln, watch>>

\* Defective variant of NewTunnelDevice: a failure returns past the defer.
NewTunnelDeviceLeaks ==
    /\ run = "device"
    /\ \/ run' = "apply" /\ device' = "open" /\ UNCHANGED err
       \/ Fail("returned") /\ UNCHANGED device
    /\ UNCHANGED <<startVars, cancelled, watcher, ln, watch>>

NewTunnelDevice ==
    /\ run = "device"
    /\ \/ run' = "apply" /\ device' = "open" /\ UNCHANGED err
       \/ Fail("closeWatcher") /\ UNCHANGED device
    /\ UNCHANGED <<startVars, cancelled, watcher, ln, watch>>

\* The initial peers, one applyPeer each, and refreshPeers.
ApplyInitial ==
    /\ run = "apply"
    /\ \/ run' = "listen" /\ UNCHANGED err
       \/ Fail("closeDevice")
    /\ UNCHANGED <<startVars, cancelled, watcher, device, ln, watch>>

\* Listen, derive runCtx, start the watcher's goroutine and the closer.
Listen ==
    /\ run = "listen"
    /\ \/ /\ run' = "serve" /\ ln' = TRUE /\ watch' = "select"
          /\ cancelled' = ctxDone /\ UNCHANGED err
       \/ Fail("closeDevice") /\ UNCHANGED <<ln, watch, cancelled>>
    /\ UNCHANGED <<startVars, watcher, device>>

-----------------------------------------------------------------------------
(* Serving.                                                                *)

otherVars == <<procVars, ctxDone, watcher, device, reloadAge, drainAge, expired>>

\* Go to a step of handleConn; its time starts afresh.
Goto(c, p) ==
    /\ pc' = [pc EXCEPT ![c] = p]
    /\ age' = [age EXCEPT ![c] = 0]
    /\ closed' = [closed EXCEPT ![c] = IF p = "none" THEN FALSE ELSE @]

Accept(c) ==
    /\ run = "serve" /\ ln /\ pc[c] = "none"
    /\ Goto(c, "hello")
    /\ UNCHANGED <<otherVars, run, err, cancelled, ln, watch, watchErr>>

\* Defective variant of AcceptFails: the wait for the watcher comes before
\* the cancel.
AwaitFirst ==
    /\ run = "serve" /\ run' = "await"
    /\ err' = IF cancelled THEN "nil" ELSE "accept"
    /\ UNCHANGED <<otherVars, cancelled, ln, watch, watchErr, handlerVars>>

\* Accept fails, because the listener was closed or for good: the loop
\* ends.  With runCtx cancelled the result is nil.
AcceptFails ==
    /\ run = "serve" /\ run' = "cancel"
    /\ err' = IF cancelled THEN "nil" ELSE "accept"
    /\ UNCHANGED <<otherVars, cancelled, ln, watch, watchErr, handlerVars>>

\* The goroutine that unblocks Accept.
CloseListener ==
    /\ cancelled /\ ln /\ ln' = FALSE
    /\ UNCHANGED <<otherVars, run, err, cancelled, watch, watchErr, handlerVars>>

\* handleConn.  A handler is refused with an answer or returns in silence
\* at every step before the pipe.
HelloDone(c) ==
    /\ pc[c] = "hello"
    /\ \E p \in {"dial", "refuse", "none"} : Goto(c, p)
    /\ UNCHANGED <<otherVars, run, err, cancelled, ln, watch, watchErr>>

DialDone(c) ==
    /\ pc[c] = "dial"
    /\ \E p \in {"respond", "refuse", "none"} : Goto(c, p)
    /\ UNCHANGED <<otherVars, run, err, cancelled, ln, watch, watchErr>>

Refused(c) ==
    /\ pc[c] = "refuse" /\ Goto(c, "none")
    /\ UNCHANGED <<otherVars, run, err, cancelled, ln, watch, watchErr>>

RespondDone(c) ==
    /\ pc[c] = "respond"
    /\ \/ ~closed[c] /\ Goto(c, "pipe")
       \/ Goto(c, "none")
    /\ UNCHANGED <<otherVars, run, err, cancelled, ln, watch, watchErr>>

PipeEnds(c) ==
    /\ pc[c] = "pipe" /\ Goto(c, "none")
    /\ UNCHANGED <<otherVars, run, err, cancelled, ln, watch, watchErr>>

HandlerStep(c) == HelloDone(c) \/ DialDone(c) \/ Refused(c) \/ RespondDone(c)

\* The watcher's goroutine.  Its select may take a reload although the
\* context is done.
watchFrame == <<procVars, ctxDone, run, err, watcher, device, ln, handlerVars, drainAge, expired>>

WatchReload ==
    /\ watch = "select" /\ watch' = "reload" /\ reloadAge' = 0
    /\ UNCHANGED <<watchFrame, cancelled, watchErr>>

WatchReloaded ==
    /\ watch = "reload" /\ watch' = "select" /\ reloadAge' = 0
    /\ UNCHANGED <<watchFrame, cancelled, watchErr>>

WatchStops ==
    /\ watch = "select" /\ cancelled /\ watch' = "done"
    /\ UNCHANGED <<watchFrame, cancelled, watchErr, reloadAge>>

\* The watch dies: the error is sent on watchDone, then runCtx is cancelled.
WatchFails ==
    /\ watch = "select" /\ watch' = "failing" /\ watchErr' = TRUE
    /\ UNCHANGED <<watchFrame, cancelled, reloadAge>>

WatchCancels ==
    /\ watch = "failing" /\ watch' = "done" /\ cancelled' = TRUE
    /\ UNCHANGED <<watchFrame, watchErr, reloadAge>>

-----------------------------------------------------------------------------
(* The defers of Run.                                                      *)

deferVars == <<procVars, ctxDone, watch, watchErr, reloadAge>>

CancelRun ==
    /\ run = "cancel" /\ run' = "await" /\ cancelled' = TRUE
    /\ UNCHANGED <<deferVars, err, watcher, device, ln, handlerVars, drainAge, expired>>

\* Defective variants of AwaitWatcher: it does not wait; it drops the error.
AwaitNothing ==
    /\ run = "await" /\ run' = "drain"
    /\ err' = IF err = "nil" /\ watchErr THEN "watch" ELSE err
    /\ UNCHANGED <<deferVars, cancelled, watcher, device, ln, handlerVars, drainAge, expired>>

AwaitDropsError ==
    /\ run = "await" /\ watch \in {"failing", "done"} /\ run' = "drain"
    /\ UNCHANGED <<deferVars, err, cancelled, watcher, device, ln, handlerVars, drainAge, expired>>

AwaitWatcher ==
    /\ run = "await" /\ watch \in {"failing", "done"} /\ run' = "drain"
    /\ err' = IF err = "nil" /\ watchErr THEN "watch" ELSE err
    /\ UNCHANGED <<deferVars, cancelled, watcher, device, ln, handlerVars, drainAge, expired>>

\* drainConnections: close the listener and every tracked connection.
Drain ==
    /\ run = "drain" /\ run' = "wait"
    /\ ln' = FALSE
    /\ closed' = [c \in Conns |-> closed[c] \/ pc[c] \in Tracked]
    /\ drainAge' = 0
    /\ UNCHANGED <<deferVars, err, cancelled, watcher, device, pc, age, expired>>

AllReturned == \A c \in Conns : pc[c] = "none"

\* ... and wait for the handlers, or for the timer.
Drained ==
    /\ run = "wait" /\ AllReturned /\ run' = "closeDevice"
    /\ UNCHANGED <<deferVars, err, cancelled, watcher, device, ln, handlerVars, drainAge, expired>>

DrainExpires ==
    /\ run = "wait" /\ drainAge = drainTimeout
    /\ run' = "closeDevice" /\ expired' = TRUE
    /\ UNCHANGED <<deferVars, err, cancelled, watcher, device, ln, handlerVars, drainAge>>

CloseDevice ==
    /\ run = "closeDevice" /\ run' = "closeWatcher" /\ device' = "closed"
    /\ UNCHANGED <<deferVars, err, cancelled, watcher, ln, handlerVars, drainAge, expired>>

CloseWatcher ==
    /\ run = "closeWatcher" /\ run' = "returned" /\ watcher' = FALSE
    /\ UNCHANGED <<deferVars, err, cancelled, device, ln, handlerVars, drainAge, expired>>

\* runServe returns: the process exits with the code of Run's result.
Exit ==
    /\ run = "returned" /\ run' = "exited"
    /\ exit' = IF err = "nil" THEN "0" ELSE "1"
    /\ UNCHANGED <<drainTimeout, ctxDone, watch, watchErr, reloadAge, err, cancelled, watcher,
                   device, ln, handlerVars, drainAge, expired>>

-----------------------------------------------------------------------------
(* Time.                                                                   *)

\* Defective variant of MayWait: pipeConns does not watch the context.
MayWaitUnwatched(c) ==
    CASE pc[c] \in {"hello", "refuse"} -> age[c] < HelloDeadline
      [] pc[c] = "dial"    -> ~cancelled /\ age[c] < DialTimeout
      [] pc[c] = "respond" -> ~closed[c] /\ age[c] < HelloDeadline
      [] pc[c] = "pipe"    -> ~closed[c]
      [] OTHER -> TRUE

\* A handler may stay where it is for another unit of time.  A read and a
\* response end at their deadline, a dial also with runCtx, and a pipe only
\* when its connections are closed, by closeLive or on cancellation.
MayWait(c) ==
    CASE pc[c] \in {"hello", "refuse"} -> age[c] < HelloDeadline
      [] pc[c] = "dial"    -> ~cancelled /\ age[c] < DialTimeout
      [] pc[c] = "respond" -> ~closed[c] /\ age[c] < HelloDeadline
      [] pc[c] = "pipe"    -> ~closed[c] /\ ~cancelled
      [] OTHER -> TRUE

Tick ==
    /\ \A c \in Conns : MayWait(c)
    /\ watch = "reload" => ~ctxDone /\ reloadAge < ReloadTimeout
    /\ run = "wait" => ~AllReturned /\ drainAge < drainTimeout
    /\ age' = [c \in Conns |-> IF pc[c] \in Running \ {"pipe"} THEN age[c] + 1 ELSE 0]
    /\ reloadAge' = IF watch = "reload" THEN reloadAge + 1 ELSE 0
    /\ drainAge' = IF run = "wait" THEN drainAge + 1 ELSE drainAge
    /\ UNCHANGED <<procVars, run, err, ctxDone, cancelled, watcher, device, ln, watch, watchErr,
                   pc, closed, expired>>

StartupStep ==
    \/ LoadConfig \/ MakeServer \/ ResolveKey \/ NewPeerWatcher \/ NewTunnelDevice
    \/ ApplyInitial \/ Listen
DeferStep ==
    \/ CancelRun \/ AwaitWatcher \/ Drain \/ Drained \/ DrainExpires
    \/ CloseDevice \/ CloseWatcher \/ Exit
WatchStep == WatchReload \/ WatchReloaded \/ WatchStops \/ WatchFails \/ WatchCancels

Next ==
    \/ Cancel \/ StartupStep \/ DeferStep \/ WatchStep
    \/ AcceptFails \/ CloseListener
    \/ \E c \in Conns : Accept(c) \/ HandlerStep(c) \/ PipeEnds(c)
    \/ Tick

Spec == Init /\ [][Next]_vars

\* Run never blocks but where it waits; a closed listener fails Accept; the
\* goroutines run; a handler's step is bounded by a deadline, a pipe ends
\* once its connections are closed.  A select that finds the context done
\* again and again takes that case in the end: Go's choice is random.
Fairness ==
    /\ WF_vars(StartupStep) /\ WF_vars(DeferStep)
    /\ WF_vars(~ln /\ AcceptFails) /\ WF_vars(CloseListener)
    /\ WF_vars(WatchReloaded) /\ WF_vars(WatchCancels) /\ SF_vars(WatchStops)
    /\ \A c \in Conns : WF_vars(HandlerStep(c))
    /\ \A c \in Conns : WF_vars((closed[c] \/ cancelled) /\ PipeEnds(c))

FairSpec == Spec /\ Fairness

-----------------------------------------------------------------------------
(* Properties.                                                             *)

\* The device is closed only when no handler is left to emit packets through
\* it, or the drain gave up on one, and no reload can apply a peer to it:
\* what the order of the defers and the wait for both kinds of goroutines
\* are for.
DeviceOutlivesUsers ==
    device = "closed" => (AllReturned \/ expired) /\ watch # "reload"

\* The drain gives up only if its bound is no longer than the two deadlines a
\* handler may still have before it when its context is cancelled, the hello
\* and the response.  With the code's thirty seconds it is dead code, also
\* for handlers that register after closeLiveConns.
DrainNeverExpires == drainTimeout > 2 * HelloDeadline => ~expired

\* However the process ends, at any step of startup or by any failure later,
\* it has closed what it opened and its goroutines are gone.
NothingLeaks ==
    run \in {"returned", "exited"} =>
        /\ ~watcher /\ ~ln /\ device # "open"
        /\ AllReturned \/ expired
        /\ watch \in {"off", "failing", "done"}

\* The exit code is 0 only after a signal, and never hides a dead watch.
ResultIsHonest == exit = "0" => ctxDone /\ ~watchErr

\* Startup that gets past the load of server.yaml is not stopped by its
\* settings later, in the log handler, NewServer or the device.
SettingsHold == run = "new" => SettingsCheckedOnce

\* A server that is signalled, one whose accept loop has ended and one whose
\* watch of the peer file has died shut down and exit, whatever the drain's
\* bound: none goes on serving a list that can no longer change.
Terminates ==
    ctxDone \/ watchErr \/ run \notin Startup \cup {"serve"} ~> run = "exited"

-----------------------------------------------------------------------------
(* The inductive invariant behind the safety properties.                   *)

Serving == {"serve", "cancel", "await"}
Drains == {"drain", "wait"}
Closing == {"closeDevice", "closeWatcher", "returned", "exited"}

\* Before Run serves nothing of it runs concurrently, and what is open
\* depends only on how far startup has come.
StartupInv ==
    run \in Startup =>
        /\ err = "nil" /\ ~cancelled /\ ~ln /\ watch = "off" /\ ~watchErr
        /\ AllReturned /\ ~expired
        /\ watcher <=> run \in {"device", "apply", "listen"}
        /\ device = IF run \in {"apply", "listen"} THEN "open" ELSE "none"

\* From the accept loop to the drain everything startup opened is open.  The
\* watcher's goroutine has stopped before the drain starts.
ServingInv ==
    run \in Serving \cup Drains =>
        /\ watcher /\ device = "open" /\ watch # "off" /\ ~expired
        /\ run = "wait" => ~ln
        /\ run \in {"await"} \cup Drains => cancelled
        /\ run \in Drains => watch \in {"failing", "done"}

\* The defers that close are reached after the drain, or from a startup that
\* failed, in which case there was nothing to drain.
ClosingInv ==
    run \in Closing =>
        /\ ~ln /\ (AllReturned \/ expired)
        /\ watch \in {"off", "failing", "done"}
        /\ watch = "off" => err = "startup"
        /\ watcher => run \in {"closeDevice", "closeWatcher"}
        /\ device = "open" => run = "closeDevice"

\* A result of nil has a cause, a signal or a dead watch, and once the
\* watcher's goroutine is awaited the latter is the result.
ResultInv ==
    /\ watch = "failing" => watchErr
    /\ watchErr => watch \in {"failing", "done"}
    /\ run \in {"serve", "cancel"} /\ cancelled => ctxDone \/ watchErr
    /\ run = "serve" => err = "nil"
    /\ run = "cancel" /\ err = "nil" => cancelled
    /\ run \in {"await"} \cup Drains \cup Closing /\ err = "nil" => ctxDone \/ watchErr
    /\ run \in Drains \cup Closing /\ err = "nil" => ~watchErr
    /\ exit = "0" => run = "exited" /\ err = "nil"

\* How long each step has lasted.  While Run waits for the drain, a handler
\* has spent the time waited so far in the hello it was reading, or at most
\* one deadline in the hello and the rest in its answer.
ClockInv ==
    /\ \A c \in Conns :
        /\ pc[c] \in {"hello", "refuse", "respond"} => age[c] <= HelloDeadline
        /\ pc[c] = "dial" => age[c] <= DialTimeout
        /\ pc[c] \in {"none", "pipe"} => age[c] = 0
    /\ run = "wait" =>
        /\ drainAge <= 2 * HelloDeadline
        /\ \A c \in Conns :
            /\ pc[c] = "hello" => drainAge <= age[c]
            /\ pc[c] = "dial" => drainAge <= HelloDeadline
            /\ pc[c] \in {"refuse", "respond"} => drainAge <= HelloDeadline + age[c]
    /\ drainTimeout > 2 * HelloDeadline => ~expired

LifeInv == TypeOK /\ StartupInv /\ ServingInv /\ ClosingInv /\ ResultInv /\ ClockInv
=============================================================================
