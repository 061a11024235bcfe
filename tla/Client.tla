------------------------------- MODULE Client -------------------------------
(***************************************************************************)
(* The client (client.go): NewClient, concurrent calls of Dial, the        *)
(* re-resolution of the endpoint they share, and Close.                    *)
(*                                                                         *)
(* Each member of Dials is one call of Dial.  With it go its budget (a     *)
(* context with a deadline), the connection it opens, and the watchdog     *)
(* that context.AfterFunc registers on the budget, a goroutine of its own  *)
(* once it has started.                                                    *)
(*                                                                         *)
(* The name of the endpoint moves to a new address from time to time;      *)
(* addresses are numbered in the order in which the name had them.         *)
(***************************************************************************)
EXTENDS Naturals

CONSTANTS Dials,     \* calls of Dial
          NoDial,    \* nobody
          MaxMoves   \* bound: moves of the name

ASSUME NoDialAssumption == NoDial \notin Dials
ASSUME MaxMovesAssumption == MaxMoves \in Nat

VARIABLES
    build,       \* where newClient is
    literal,     \* clientEndpoint.literal
    name,        \* DNS: the address the name has now
    addr,        \* clientEndpoint.addr
    generation,  \* clientEndpoint.generation
    holder,      \* clientEndpoint.refreshing: who holds the slot
    device,      \* the tunnelDevice: "none", "open" or "closed"
    devAddr,     \* the device: the endpoint of its peer
    closed,      \* Client.closed
    pc,          \* each call: where it is
    gen,         \* dialControl: the generation recorded before the attempts
    refreshed,   \* dialControl: refreshEndpoint has been called
    answer,      \* refreshEndpoint: what the lookup returned
    past,        \* the budget's deadline has passed
    done,        \* the budget is done: its Err is not nil
    canceled,    \* dialControl: the caller has cancelled its context
    conn,        \* the connection: "none", "open" or "closed"
    watchdog,    \* "off", "armed", "started" or "ran"
    result,      \* what Dial returned
    began        \* history: the name's address when the call began

buildVars    == <<build, literal>>
endpointVars == <<addr, generation, holder, devAddr>>
clientVars   == <<device, closed>>
budgetVars   == <<past, done, canceled>>
callVars     == <<gen, refreshed, answer, began>>
connVars     == <<conn, watchdog>>
vars == <<buildVars, name, endpointVars, clientVars, pc, callVars, budgetVars,
          connVars, result>>

Addrs == 0..MaxMoves

\* The points of refreshEndpoint at which the slot is held.
Refreshing == {"check", "lookup", "move", "apply"}
InHello == {"exchange", "stop", "clear"}

TypeOK ==
    /\ build \in {"endpoint", "secrets", "device", "peer", "ready", "failed"}
    /\ literal \in BOOLEAN
    /\ name \in Addrs /\ addr \in Addrs /\ devAddr \in Addrs
    /\ generation \in Nat
    /\ holder \in Dials \cup {NoDial}
    /\ device \in {"none", "open", "closed"}
    /\ closed \in BOOLEAN
    /\ pc \in [Dials -> {"idle", "current", "attempt", "retry", "refresh", "done"}
                          \cup Refreshing \cup InHello]
    /\ gen \in [Dials -> Nat]
    /\ refreshed \in [Dials -> BOOLEAN]
    /\ answer \in [Dials -> Addrs] /\ began \in [Dials -> Addrs]
    /\ past \in [Dials -> BOOLEAN] /\ done \in [Dials -> BOOLEAN]
    /\ canceled \in [Dials -> BOOLEAN]
    /\ conn \in [Dials -> {"none", "open", "closed"}]
    /\ watchdog \in [Dials -> {"off", "armed", "started", "ran"}]
    /\ result \in [Dials -> {"none", "conn", "closed", "handshake", "canceled",
                             "resolve", "device", "status", "io", "timeout", "ctx"}]

Init ==
    /\ build = "endpoint" /\ literal \in BOOLEAN
    /\ name = 0 /\ addr = 0 /\ devAddr = 0
    /\ generation = 0 /\ holder = NoDial
    /\ device = "none" /\ closed = FALSE
    /\ pc = [c \in Dials |-> "idle"]
    /\ gen = [c \in Dials |-> 0]
    /\ refreshed = [c \in Dials |-> FALSE]
    /\ answer = [c \in Dials |-> 0] /\ began = [c \in Dials |-> 0]
    /\ past = [c \in Dials |-> FALSE] /\ done = [c \in Dials |-> FALSE]
    /\ canceled = [c \in Dials |-> FALSE]
    /\ conn = [c \in Dials |-> "none"]
    /\ watchdog = [c \in Dials |-> "off"]
    /\ result = [c \in Dials |-> "none"]

-----------------------------------------------------------------------------
(* The environment.                                                        *)

\* DNS: the name moves to another address.  A literal does not.
NameMoves ==
    /\ ~literal /\ name < MaxMoves /\ name' = name + 1
    /\ UNCHANGED <<buildVars, endpointVars, clientVars, pc, callVars, budgetVars,
                   connVars, result>>

budgetFrame == <<buildVars, name, endpointVars, clientVars, pc, callVars, connVars, result>>

Running(c) == pc[c] \notin {"idle", "done"}

\* The deadline passes; the budget's timer goes off some time after.
DeadlinePasses(c) ==
    /\ Running(c) /\ ~past[c] /\ past' = [past EXCEPT ![c] = TRUE]
    /\ UNCHANGED <<budgetFrame, done, canceled>>

BudgetExpires(c) ==
    /\ Running(c) /\ past[c] /\ ~done[c] /\ done' = [done EXCEPT ![c] = TRUE]
    /\ UNCHANGED <<budgetFrame, past, canceled>>

\* The caller cancels, and the budget is done with its parent.  Why it is
\* done is asked in dialControl only.
CallerCancels(c) ==
    /\ Running(c)
    /\ \/ pc[c] \notin InHello /\ ~canceled[c] /\ canceled' = [canceled EXCEPT ![c] = TRUE]
       \/ pc[c] \in InHello /\ ~done[c] /\ UNCHANGED canceled
    /\ done' = [done EXCEPT ![c] = TRUE]
    /\ UNCHANGED <<budgetFrame, past>>

-----------------------------------------------------------------------------
(* newClient.  What is invalid in the configuration fails before any of    *)
(* this and leaves nothing behind.                                         *)

buildFrame == <<literal, name, generation, holder, closed, pc, callVars, budgetVars,
                connVars, result>>

BuildEndpoint ==
    /\ build = "endpoint"
    /\ \/ build' = "secrets" /\ addr' = name
       \/ build' = "failed" /\ UNCHANGED addr
    /\ UNCHANGED <<buildFrame, device, devAddr>>

BuildSecrets ==
    /\ build = "secrets" /\ build' \in {"device", "failed"}
    /\ UNCHANGED <<buildFrame, device, addr, devAddr>>

BuildDevice ==
    /\ build = "device"
    /\ \/ build' = "peer" /\ device' = "open"
       \/ build' = "failed" /\ UNCHANGED device
    /\ UNCHANGED <<buildFrame, addr, devAddr>>

\* A peer that is refused closes the device.
BuildPeer ==
    /\ build = "peer"
    /\ \/ build' = "ready" /\ devAddr' = addr /\ UNCHANGED device
       \/ build' = "failed" /\ device' = "closed" /\ UNCHANGED devAddr
    /\ UNCHANGED <<buildFrame, addr>>

Build == BuildEndpoint \/ BuildSecrets \/ BuildDevice \/ BuildPeer

-----------------------------------------------------------------------------
(* Dial.                                                                   *)

callFrame == <<buildVars, name, clientVars>>

\* The locals of dialControl are gone.
Forget(c) ==
    /\ gen' = [gen EXCEPT ![c] = 0]
    /\ refreshed' = [refreshed EXCEPT ![c] = FALSE]
    /\ answer' = [answer EXCEPT ![c] = 0]
    /\ began' = [began EXCEPT ![c] = 0]

\* A call ends: its locals are gone, a watchdog that has not started is
\* unregistered and only one that has started is left, and the budget is
\* cancelled.
Finish(c, r) ==
    /\ pc' = [pc EXCEPT ![c] = "done"]
    /\ result' = [result EXCEPT ![c] = r]
    /\ watchdog' = [watchdog EXCEPT ![c] = IF @ = "started" THEN @ ELSE "off"]
    /\ done' = [done EXCEPT ![c] = TRUE]
    /\ past' = [past EXCEPT ![c] = FALSE]
    /\ canceled' = [canceled EXCEPT ![c] = FALSE]
    /\ Forget(c)

\* Dial returns; with an error it closes the connection if there is one.
Return(c, r) ==
    /\ Finish(c, r)
    /\ conn' = [conn EXCEPT ![c] = IF r # "conn" /\ @ = "open" THEN "closed" ELSE @]

\* Go on to p, with the locals as they are (Goto) or as the action says.
Jump(c, p) ==
    /\ pc' = [pc EXCEPT ![c] = p]
    /\ UNCHANGED <<result, connVars, budgetVars>>

Goto(c, p) == Jump(c, p) /\ UNCHANGED callVars

\* Dial is called.  An invalid service name fails likewise.
Begin(c) ==
    /\ build = "ready" /\ pc[c] = "idle"
    /\ \/ closed /\ Return(c, "closed")
       \/ /\ ~closed /\ Jump(c, "current")
          /\ began' = [began EXCEPT ![c] = name]
          /\ UNCHANGED <<gen, refreshed, answer>>
    /\ UNCHANGED <<callFrame, endpointVars>>

\* dialControl: record the generation.
RecordGeneration(c) ==
    /\ pc[c] = "current"
    /\ gen' = [gen EXCEPT ![c] = generation]
    /\ Jump(c, "attempt")
    /\ UNCHANGED <<callFrame, endpointVars, refreshed, answer, began>>

\* One attempt at the control connection.  With the connection dialControl
\* returns, and hello registers the watchdog.
Attempt(c) ==
    /\ pc[c] = "attempt"
    /\ \/ /\ device = "open" /\ ~done[c]
          /\ pc' = [pc EXCEPT ![c] = "exchange"]
          /\ conn' = [conn EXCEPT ![c] = "open"]
          /\ watchdog' = [watchdog EXCEPT ![c] = "armed"]
          /\ Forget(c)
          /\ UNCHANGED <<result, budgetVars>>
       \/ Goto(c, "retry")
    /\ UNCHANGED <<callFrame, endpointVars>>

\* Defective variant of Retry: a budget that is done does not end the loop.
RetryForever(c) ==
    /\ pc[c] = "retry"
    /\ Jump(c, IF refreshed[c] THEN "attempt" ELSE "refresh")
    /\ refreshed' = [refreshed EXCEPT ![c] = TRUE]
    /\ UNCHANGED <<callFrame, endpointVars, gen, answer, began>>

\* After a failed attempt: the budget, or the retry interval.  The endpoint
\* is refreshed once.
Retry(c) ==
    /\ pc[c] = "retry"
    /\ \/ /\ done[c]
          /\ Return(c, IF canceled[c] THEN "canceled" ELSE "handshake")
       \/ /\ Jump(c, IF refreshed[c] THEN "attempt" ELSE "refresh")
          /\ refreshed' = [refreshed EXCEPT ![c] = TRUE]
          /\ UNCHANGED <<gen, answer, began>>
    /\ UNCHANGED <<callFrame, endpointVars>>

-----------------------------------------------------------------------------
(* refreshEndpoint.                                                        *)

\* Defective variant of AcquireRefresh: nobody waits.
AcquireFreely(c) ==
    /\ pc[c] = "refresh" /\ ~literal
    /\ holder' = c
    /\ Goto(c, "check")
    /\ UNCHANGED <<callFrame, addr, generation, devAddr>>

AcquireRefresh(c) ==
    /\ pc[c] = "refresh" /\ ~literal
    /\ holder = NoDial /\ holder' = c
    /\ Goto(c, "check")
    /\ UNCHANGED <<callFrame, addr, generation, devAddr>>

\* A literal is not looked up; a budget that is done ends the wait.
SkipRefresh(c) ==
    /\ pc[c] = "refresh" /\ (literal \/ done[c])
    /\ Goto(c, "attempt")
    /\ UNCHANGED <<callFrame, endpointVars>>

\* Defective variant of CheckGeneration: everybody looks the name up.
CheckNothing(c) ==
    /\ pc[c] = "check"
    /\ Goto(c, "lookup") /\ UNCHANGED holder
    /\ UNCHANGED <<callFrame, addr, generation, devAddr>>

\* Another call has completed a lookup since this one began.
CheckGeneration(c) ==
    /\ pc[c] = "check"
    /\ \/ generation # gen[c] /\ holder' = NoDial /\ Goto(c, "attempt")
       \/ generation = gen[c] /\ Goto(c, "lookup") /\ UNCHANGED holder
    /\ UNCHANGED <<callFrame, addr, generation, devAddr>>

\* The name server answers with the address the name has.
Answered(c) ==
    /\ answer' = [answer EXCEPT ![c] = name]
    /\ Jump(c, "move")
    /\ UNCHANGED <<gen, refreshed, began>>

\* resolveEndpoint: the name server answers, or the lookup fails, with the
\* budget for one, and the call with it.
Lookup(c) ==
    /\ pc[c] = "lookup"
    /\ \/ Answered(c) /\ UNCHANGED holder
       \/ holder' = NoDial /\ Return(c, "resolve")
    /\ UNCHANGED <<callFrame, addr, generation, devAddr>>

\* Defective variant of Move: the error of SetPeerEndpoint is dropped.
MoveRegardless(c) ==
    /\ pc[c] = "move" /\ Goto(c, "apply")
    /\ \/ devAddr' = IF device = "open" THEN answer[c] ELSE devAddr
       \/ UNCHANGED devAddr
    /\ UNCHANGED <<callFrame, addr, generation, holder>>

\* SetPeerEndpoint, when the address is another one.  On a device that is
\* closed it finds no peer, which is no error.
Move(c) ==
    /\ pc[c] = "move"
    /\ \/ /\ Goto(c, "apply")
          /\ devAddr' = IF answer[c] # addr /\ device = "open" THEN answer[c] ELSE devAddr
          /\ UNCHANGED holder
       \/ /\ answer[c] # addr
          /\ holder' = NoDial /\ Return(c, "device")
          /\ UNCHANGED devAddr
    /\ UNCHANGED <<callFrame, addr, generation>>

\* clientEndpoint.applied, and the slot is given back.
Applied(c) ==
    /\ pc[c] = "apply"
    /\ addr' = answer[c] /\ generation' = generation + 1
    /\ holder' = NoDial
    /\ answer' = [answer EXCEPT ![c] = 0]
    /\ Jump(c, "attempt")
    /\ UNCHANGED <<callFrame, devAddr, gen, refreshed, began>>

Refresh(c) ==
    AcquireRefresh(c) \/ SkipRefresh(c) \/ CheckGeneration(c) \/ Lookup(c)
        \/ Move(c) \/ Applied(c)

-----------------------------------------------------------------------------
(* hello and finishHello.                                                  *)

helloFrame == <<callFrame, endpointVars>>

\* helloError: a budget that is done is reported as such, whatever failed.
HelloError(c, cause) == Return(c, IF done[c] THEN "ctx" ELSE cause)

\* The write of the request and the read of the response may fail at any
\* time, and do fail when their deadline passes, which is the budget's if
\* that is sooner.  An error of SetWriteDeadline or SetReadDeadline does not
\* pass through helloError.
ExchangeFails(c) ==
    /\ pc[c] = "exchange"
    /\ \/ Return(c, "io")
       \/ HelloError(c, "io")
       \/ past[c] /\ HelloError(c, "timeout")
    /\ UNCHANGED helloFrame

\* Defective variant of ReadHello: a refusal leaves the connection open.
ReadHelloLeaks(c) ==
    /\ pc[c] = "exchange" /\ conn[c] = "open"
    /\ \/ Goto(c, "stop")
       \/ Finish(c, "status") /\ UNCHANGED conn
    /\ UNCHANGED helloFrame

\* The request is out and the response in: statusOK, or a status that is an
\* error.
ReadHello(c) ==
    /\ pc[c] = "exchange" /\ conn[c] = "open"
    /\ \/ Goto(c, "stop")
       \/ Return(c, "status")
    /\ UNCHANGED helloFrame

\* Defective variant of StopWatchdog: the result of stop is not looked at.
StopIgnored(c) ==
    /\ pc[c] = "stop"
    /\ watchdog' = [watchdog EXCEPT ![c] = IF @ = "armed" THEN "off" ELSE @]
    /\ pc' = [pc EXCEPT ![c] = "clear"]
    /\ UNCHANGED <<helloFrame, conn, budgetVars, callVars, result>>

\* finishHello: a watchdog that has started is about to close the
\* connection, or has closed it.
StopWatchdog(c) ==
    /\ pc[c] = "stop"
    /\ \/ /\ watchdog[c] = "armed"
          /\ watchdog' = [watchdog EXCEPT ![c] = "off"]
          /\ pc' = [pc EXCEPT ![c] = "clear"]
          /\ UNCHANGED <<conn, budgetVars, callVars, result>>
       \/ watchdog[c] # "armed" /\ HelloError(c, "ctx")
    /\ UNCHANGED helloFrame

\* The deadlines are cleared and the connection is the caller's.
ClearDeadlines(c) ==
    /\ pc[c] = "clear"
    /\ \/ Return(c, "conn")
       \/ conn[c] = "closed" /\ Return(c, "io")
    /\ UNCHANGED helloFrame

Hello(c) == ExchangeFails(c) \/ ReadHello(c) \/ StopWatchdog(c)
                \/ ClearDeadlines(c)

\* The watchdog's goroutine: started by the budget, it closes the connection.
watchdogFrame == <<helloFrame, pc, budgetVars, callVars, result>>

WatchdogStarts(c) ==
    /\ watchdog[c] = "armed" /\ done[c]
    /\ watchdog' = [watchdog EXCEPT ![c] = "started"]
    /\ UNCHANGED <<watchdogFrame, conn>>

WatchdogCloses(c) ==
    /\ watchdog[c] = "started"
    /\ watchdog' = [watchdog EXCEPT ![c] = IF pc[c] = "done" THEN "off" ELSE "ran"]
    /\ conn' = [conn EXCEPT ![c] = "closed"]
    /\ UNCHANGED watchdogFrame

-----------------------------------------------------------------------------
(* Close: the flag, then the device and every connection on it.            *)

closeFrame == <<buildVars, name, endpointVars, pc, callVars, budgetVars, watchdog, result>>

CloseFlag ==
    /\ build = "ready" /\ ~closed /\ closed' = TRUE
    /\ UNCHANGED <<closeFrame, device, conn>>

CloseDevice ==
    /\ closed /\ device = "open" /\ device' = "closed"
    /\ conn' = [c \in Dials |-> IF conn[c] = "open" THEN "closed" ELSE conn[c]]
    /\ UNCHANGED <<closeFrame, closed>>

DialStep(c) == RecordGeneration(c) \/ Attempt(c) \/ Retry(c) \/ Refresh(c) \/ Hello(c)

Watchdog(c) == WatchdogStarts(c) \/ WatchdogCloses(c)

Next ==
    \/ NameMoves \/ Build \/ CloseFlag \/ CloseDevice
    \/ \E c \in Dials :
         \/ DeadlinePasses(c) \/ BudgetExpires(c) \/ CallerCancels(c)
         \/ Begin(c) \/ DialStep(c) \/ Watchdog(c)

Spec == Init /\ [][Next]_vars

\* The budget has a deadline and its timer goes off.  Every step of a call
\* is bounded by the budget or by a deadline of its own.  A select of Retry
\* that begins with the budget done finds no other case ready.
Fairness ==
    \A c \in Dials :
        /\ WF_vars(DeadlinePasses(c) \/ BudgetExpires(c))
        /\ WF_vars(DialStep(c)) /\ SF_vars(done[c] /\ Retry(c) /\ pc'[c] = "done")

FairSpec == Spec /\ Fairness

-----------------------------------------------------------------------------
(* Properties.                                                             *)

\* A connection that Dial has handed out is never closed under the caller,
\* neither by a watchdog that started before it was stopped nor by the
\* cancel that Dial defers; only Close does that.
HandedOutStaysOpen ==
    \A c \in Dials : result[c] = "conn" /\ device = "open" => conn[c] = "open"

\* A call that fails, however late, leaves no connection open, and a
\* construction that fails no device.
FailureLeavesNothing ==
    /\ \A c \in Dials : pc[c] = "done" /\ result[c] # "conn" => conn[c] # "open"
    /\ build = "failed" => device # "open"

\* A name is looked up only by a call that no completed lookup has
\* overtaken: calls that fail together make one lookup, not one each.
NoRedundantLookup ==
    \A c \in Dials : pc[c] \in {"lookup", "move", "apply"} => generation = gen[c]

\* The address on record is the one on the device, but for the moment
\* between SetPeerEndpoint and applied, whatever failed on the way.
EndpointAgrees ==
    build = "ready" /\ device = "open" /\ (\A c \in Dials : pc[c] # "apply")
        => addr = devAddr

\* Concurrent refreshes never move the device back to an address that the
\* name had before the one in force.
EndpointForward ==
    [][build = "ready" => addr' >= addr /\ devAddr' >= devAddr]_vars

\* Every call of Dial returns: also one that waits for another's lookup, one
\* that the server answers with silence, and one overtaken by Close.
DialReturns == \A c \in Dials : Running(c) ~> pc[c] = "done"

\* refreshEndpoint on skipping a lookup: another dial resolved the name after
\* this one started, so a call goes on with an address the name had since
\* then.  It does not hold: see the README.
RefreshIsFresh ==
    \A c \in Dials :
        pc[c] = "attempt" /\ refreshed[c] /\ ~literal /\ ~done[c] /\ device = "open"
            => devAddr >= began[c]

\* What does hold of it: a call that makes the lookup itself puts an answer in
\* force that is not older than the call, on the client and on the device.
OwnLookupIsFresh ==
    [][\A c \in Dials :
        pc[c] = "apply" /\ pc'[c] = "attempt"
            => addr' >= began[c] /\ (device = "open" => devAddr' >= began[c])]_vars

-----------------------------------------------------------------------------
(* The inductive invariant behind the safety properties.                   *)

\* A call needs a finished client, and a connection an open device.
BuildInv ==
    /\ build \in {"endpoint", "secrets", "device"} => device = "none"
    /\ build = "peer" => device = "open"
    /\ build = "failed" => device # "open"
    /\ closed => build = "ready"
    /\ \A c \in Dials :
        /\ pc[c] # "idle" => build = "ready"
        /\ conn[c] = "open" => device = "open" /\ pc[c] # "idle"

\* The slot is held by the call that is between acquiring it and giving it
\* back, and by no other; so generations move one call at a time.
SlotInv ==
    \A c \in Dials :
        /\ holder = c <=> pc[c] \in Refreshing
        /\ pc[c] \in {"lookup", "move", "apply"} => generation = gen[c]

\* The watchdog is armed only during the exchange.  A connection whose
\* watchdog has not started is open as long as the device is, and one is
\* handed out only with its watchdog stopped.
ConnInv ==
    \A c \in Dials :
        /\ watchdog[c] = "armed" => pc[c] \in {"exchange", "stop"}
        /\ watchdog[c] = "armed" /\ device = "open" => conn[c] = "open"
        /\ pc[c] = "clear" \/ result[c] = "conn" =>
            watchdog[c] = "off" /\ (device = "open" => conn[c] = "open")
        /\ result[c] # "none" => pc[c] = "done"
        /\ pc[c] = "done" /\ result[c] # "conn" => conn[c] # "open"

\* Nothing is ahead of the name, and the answer that the holder of the slot
\* is about to put in force is not behind what is, nor behind its own call.
AddressInv ==
    /\ addr <= name /\ devAddr <= name
    /\ build = "endpoint" => addr = 0
    /\ build \in {"endpoint", "secrets", "device", "peer"} => devAddr = 0
    /\ EndpointAgrees
    /\ \A c \in Dials :
        /\ began[c] <= name
        /\ pc[c] \in {"move", "apply"} =>
            addr <= answer[c] /\ began[c] <= answer[c] /\ answer[c] <= name
        /\ pc[c] = "move" => devAddr <= answer[c]
        /\ pc[c] = "apply" /\ device = "open" => devAddr = answer[c]

ClientInv == TypeOK /\ BuildInv /\ SlotInv /\ ConnInv /\ AddressInv
=============================================================================
