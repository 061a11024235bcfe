---------------------------- MODULE PeerLimiter ----------------------------
(***************************************************************************)
(* One peer's caps (server.go, peerLimiter): the token bucket on dials and *)
(* the cap on concurrent connections, shared by the handlers of that peer  *)
(* and by the reload that changes the limits under them.                   *)
(*                                                                         *)
(* A handler reads the clock before it takes the limiter's lock, so the    *)
(* times that acquire is called with reach it out of order.                *)
(*                                                                         *)
(* Time is counted in units of 1/Res of a second and tokens in units of    *)
(* 1/Res of a token, so that elapsed.Seconds() * rate is an integer; the   *)
(* rounding of float64 is left out.                                        *)
(***************************************************************************)
EXTENDS Integers

CONSTANTS Handlers,  \* goroutines that may dial for this peer
          Limits,    \* [rate, max]: the limits a peer list may set
          MaxRate,   \* no rate is larger
          Res,       \* units of time per second
          MaxClock   \* bound: units of time that pass

ASSUME ResAssumption == Res \in Nat \ {0} /\ MaxClock \in Nat
ASSUME LimitsAssumption ==
    /\ MaxRate \in Nat
    /\ Limits \subseteq [rate : 1..MaxRate, max : Nat \ {0}]

VARIABLES
    clock,    \* time.Now()
    limits,   \* peerLimiter.rate (and burst), .maxConcurrent
    tokens,   \* peerLimiter.tokens
    last,     \* peerLimiter.last
    active,   \* peerLimiter.active
    pc,       \* each handler: out, about to lock, or holding a slot
    now,      \* each handler: the time it will pass to acquire
    wStart,   \* history: the start of an observed window of time,
    wCount    \* and the tokens taken by dials begun in it

vars == <<clock, limits, tokens, last, active, pc, now, wStart, wCount>>

Burst == limits.rate * Res

TypeOK ==
    /\ clock \in 0..MaxClock
    /\ limits \in Limits
    /\ tokens \in Nat
    /\ last \in 0..MaxClock
    /\ active \in Nat
    /\ pc \in [Handlers -> {"out", "acquire", "in"}]
    /\ now \in [Handlers -> 0..MaxClock]
    /\ wStart \in 0..MaxClock
    /\ wCount \in Nat

\* newPeerLimiter: a full bucket.
Init ==
    /\ clock = 0 /\ last = 0
    /\ limits \in Limits
    /\ tokens = Burst
    /\ active = 0
    /\ pc = [h \in Handlers |-> "out"]
    /\ now = [h \in Handlers |-> 0]
    /\ wStart = 0 /\ wCount = 0

Tick ==
    /\ clock < MaxClock
    /\ clock' = clock + 1
    /\ UNCHANGED <<limits, tokens, last, active, pc, now, wStart, wCount>>

\* The observer starts a window at any time.
Observe ==
    /\ wStart' = clock /\ wCount' = 0
    /\ UNCHANGED <<clock, limits, tokens, last, active, pc, now>>

\* Defective variant of SetLimits: the bucket is not clamped.
SetLimitsOnly(l) ==
    /\ limits' = l
    /\ UNCHANGED <<clock, tokens, last, active, pc, now, wStart, wCount>>

\* setLimits, on a reload that keeps the limiter.
SetLimits(l) ==
    /\ limits' = l
    /\ tokens' = IF tokens > l.rate * Res THEN l.rate * Res ELSE tokens
    /\ UNCHANGED <<clock, last, active, pc, now, wStart, wCount>>

\* handleConn: time.Now() is evaluated, the lock is not held yet.
ReadClock(h) ==
    /\ pc[h] = "out"
    /\ now' = [now EXCEPT ![h] = clock]
    /\ pc' = [pc EXCEPT ![h] = "acquire"]
    /\ UNCHANGED <<clock, limits, tokens, last, active, wStart, wCount>>

\* Defective variant of Refilled: no clamp.
RefilledUnclamped(t) ==
    IF t > last THEN tokens + (t - last) * limits.rate ELSE tokens

\* acquire, the refill: time that has passed since the last one, clamped.
Refilled(t) ==
    IF t > last
    THEN IF tokens + (t - last) * limits.rate > Burst
         THEN Burst ELSE tokens + (t - last) * limits.rate
    ELSE tokens

\* acquire, peerLimiter.last.
Advanced(t) == IF t > last THEN t ELSE last

\* acquire: refill, take a token, then a slot.  A dial refused for
\* concurrency has spent its token.
Acquire(h) ==
    LET got == Refilled(now[h]) IN
    /\ pc[h] = "acquire"
    /\ last' = Advanced(now[h])
    /\ IF got < Res
       THEN /\ tokens' = got
            /\ pc' = [pc EXCEPT ![h] = "out"]
            /\ UNCHANGED <<active, wCount>>
       ELSE /\ tokens' = got - Res
            /\ wCount' = IF now[h] >= wStart THEN wCount + 1 ELSE wCount
            /\ IF active < limits.max
               THEN active' = active + 1 /\ pc' = [pc EXCEPT ![h] = "in"]
               ELSE UNCHANGED active /\ pc' = [pc EXCEPT ![h] = "out"]
    /\ UNCHANGED <<clock, limits, now, wStart>>

\* release.
Release(h) ==
    /\ pc[h] = "in"
    /\ active' = IF active > 0 THEN active - 1 ELSE active
    /\ pc' = [pc EXCEPT ![h] = "out"]
    /\ UNCHANGED <<clock, limits, tokens, last, now, wStart, wCount>>

Next ==
    \/ Tick \/ Observe
    \/ \E l \in Limits : SetLimits(l)
    \/ \E h \in Handlers : ReadClock(h) \/ Acquire(h) \/ Release(h)

Spec == Init /\ [][Next]_vars

-----------------------------------------------------------------------------
(* Properties.                                                             *)

\* However late a handler gets the lock and however the limits move, the
\* tokens taken by dials begun in a window of time, whenever it starts, are
\* at most one burst plus what the rate allows for its length.
DialRateBound ==
    wCount * Res <= MaxRate * Res + MaxRate * (clock - wStart)

\* The bucket never holds more than the burst now in force: lowering a
\* limit takes effect at once, and an idle peer saves nothing up.
WithinBurst == tokens <= Burst

\* The inductive strengthening of DialRateBound: what was taken and what is
\* left came out of one burst and the time credited since the start.
RateInv ==
    /\ last <= clock /\ wStart <= clock
    /\ \A h \in Handlers : now[h] <= clock
    /\ WithinBurst
    /\ wCount > 0 =>
         /\ wStart <= last
         /\ wCount * Res + tokens <= MaxRate * Res + MaxRate * (last - wStart)
=============================================================================
