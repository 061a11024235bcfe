------------------------- MODULE PeerLimiterProofs -------------------------
(***************************************************************************)
(* The rate bound of PeerLimiter, for every set of limits and handlers,    *)
(* every resolution of the clock and every length of time.                 *)
(***************************************************************************)
EXTENDS PeerLimiter, TLAPS

\* Multiplication on the naturals, as the bound uses it.
LEMMA MulMonotone ==
    ASSUME NEW a \in Nat, NEW b \in Nat, NEW e \in Nat, a <= b
    PROVE  a * e <= b * e /\ a * e \in Nat /\ b * e \in Nat
OBVIOUS

LEMMA MulDistributes ==
    ASSUME NEW a \in Int, NEW x \in Int, NEW y \in Int
    PROVE  a * (x + y) = a * x + a * y
OBVIOUS

LEMMA InitRate == Init => TypeOK /\ RateInv
<1> SUFFICES ASSUME Init PROVE TypeOK /\ RateInv
  OBVIOUS
<1>1. Burst \in Nat
  BY LimitsAssumption, ResAssumption DEF Init, Burst
<1>2. QED
  BY <1>1, ResAssumption DEF Init, TypeOK, RateInv, WithinBurst

\* What the refill leaves in the bucket: no more than the burst, and no more
\* than the time it credits at the largest rate.
LEMMA RefillBound ==
    ASSUME TypeOK, WithinBurst, NEW t \in 0..MaxClock
    PROVE  /\ Refilled(t) \in Nat /\ Refilled(t) <= Burst
           /\ Refilled(t) <= tokens + MaxRate * (Advanced(t) - last)
           /\ Advanced(t) \in 0..MaxClock /\ Advanced(t) >= last /\ Advanced(t) >= t
<1>1. Burst \in Nat /\ limits.rate \in Nat /\ limits.rate <= MaxRate /\ MaxRate \in Nat
  BY LimitsAssumption, ResAssumption DEF TypeOK, Burst
<1>2. CASE t > last
  <2>1. t - last \in Nat /\ Advanced(t) = t
    BY <1>2, ResAssumption DEF TypeOK, Advanced
  <2>2. limits.rate * (t - last) <= MaxRate * (t - last) /\ limits.rate * (t - last) \in Nat
    BY <1>1, <2>1, MulMonotone
  <2>3. (t - last) * limits.rate = limits.rate * (t - last)
    BY <1>1, <2>1
  <2>4. QED
    BY <1>1, <1>2, <2>1, <2>2, <2>3, ResAssumption DEF TypeOK, Refilled, WithinBurst
<1>3. CASE ~(t > last)
  BY <1>1, <1>3, ResAssumption DEF TypeOK, Refilled, Advanced, WithinBurst
<1>4. QED
  BY <1>2, <1>3

LEMMA NextRate == TypeOK /\ RateInv /\ [Next]_vars => (TypeOK /\ RateInv)'
<1> SUFFICES ASSUME TypeOK, RateInv, [Next]_vars PROVE (TypeOK /\ RateInv)'
  OBVIOUS
<1>1. Burst \in Nat /\ Res \in Nat /\ MaxRate \in Nat /\ MaxClock \in Nat
  BY LimitsAssumption, ResAssumption DEF TypeOK, Burst
<1>2. CASE Tick
  BY <1>1, <1>2 DEF Tick, TypeOK, RateInv, WithinBurst, Burst
<1>3. CASE Observe
  BY <1>1, <1>3 DEF Observe, TypeOK, RateInv, WithinBurst, Burst
<1>4. ASSUME NEW l \in Limits, SetLimits(l) PROVE (TypeOK /\ RateInv)'
  <2>1. l.rate * Res \in Nat /\ Burst' = l.rate * Res
    BY <1>1, <1>4, LimitsAssumption DEF SetLimits, Burst
  <2>2. tokens' \in Nat /\ tokens' <= tokens /\ tokens' <= Burst'
    BY <1>4, <2>1 DEF SetLimits, TypeOK
  <2>3. TypeOK'
    BY <1>4, <2>2 DEF SetLimits, TypeOK
  <2>4. wCount * Res \in Nat /\ MaxRate * Res \in Nat /\ MaxRate * (last - wStart) \in Int
    BY <1>1 DEF TypeOK
  <2>5. RateInv'
    BY <1>4, <2>2, <2>4 DEF SetLimits, TypeOK, RateInv, WithinBurst
  <2>6. QED
    BY <2>3, <2>5
<1>5. ASSUME NEW h \in Handlers, ReadClock(h) PROVE (TypeOK /\ RateInv)'
  BY <1>1, <1>5 DEF ReadClock, TypeOK, RateInv, WithinBurst, Burst
<1>6. ASSUME NEW h \in Handlers, Acquire(h) PROVE (TypeOK /\ RateInv)'
  <2> DEFINE got == Refilled(now[h])
             new == Advanced(now[h])
  <2>1. /\ got \in Nat /\ got <= Burst /\ got <= tokens + MaxRate * (new - last)
        /\ new \in 0..MaxClock /\ new >= last /\ new >= now[h] /\ new <= clock
    <3>1. now[h] \in 0..MaxClock /\ now[h] <= clock /\ last <= clock
      BY DEF TypeOK, RateInv
    <3>2. new <= clock
      BY <3>1 DEF Advanced
    <3>3. QED
      BY <3>1, <3>2, RefillBound DEF RateInv
  <2>2. /\ last' = new /\ UNCHANGED <<clock, limits, now, wStart>>
        /\ \/ got < Res /\ tokens' = got /\ wCount' = wCount
           \/ got >= Res /\ tokens' = got - Res /\ wCount' = wCount /\ ~(now[h] >= wStart)
           \/ got >= Res /\ tokens' = got - Res /\ wCount' = wCount + 1 /\ now[h] >= wStart
    BY <1>1, <1>6, <2>1 DEF Acquire
  <2>3. /\ active' \in Nat
        /\ pc' \in [Handlers -> {"out", "acquire", "in"}]
    BY <1>6 DEF Acquire, TypeOK
  <2>4. TypeOK'
    BY <1>1, <2>1, <2>2, <2>3 DEF TypeOK
  <2>5. /\ MaxRate * (new - wStart) = MaxRate * (new - last) + MaxRate * (last - wStart)
        /\ MaxRate * (new - last) \in Int /\ MaxRate * (last - wStart) \in Int
        /\ MaxRate * (new - wStart) \in Int /\ MaxRate * Res \in Nat /\ wCount * Res \in Nat
    <3>1. new - last \in Int /\ last - wStart \in Int
          /\ new - wStart = (new - last) + (last - wStart)
      BY <2>1 DEF TypeOK
    <3>2. QED
      BY <1>1, <3>1, MulDistributes DEF TypeOK
  <2>6. wStart <= new => MaxRate * (new - wStart) >= 0
    BY <1>1, <2>1, MulMonotone DEF TypeOK
  <2>7. Burst <= MaxRate * Res
    <3>1. limits.rate \in Nat /\ limits.rate <= MaxRate
      BY LimitsAssumption DEF TypeOK
    <3>2. QED
      BY <1>1, <3>1, MulMonotone DEF Burst
  <2>8. (wCount + 1) * Res = wCount * Res + Res
    BY <1>1 DEF TypeOK
  <2>9. wCount' > 0 =>
          /\ wStart <= new
          /\ wCount' * Res + tokens' <= MaxRate * Res + MaxRate * (new - wStart)
    <3>1. CASE wCount' = wCount
      BY <1>1, <2>1, <2>2, <2>5, <3>1 DEF TypeOK, RateInv
    <3>2. CASE wCount' = wCount + 1 /\ wCount > 0
      BY <1>1, <2>1, <2>2, <2>5, <2>8, <3>2 DEF TypeOK, RateInv
    <3>3. CASE wCount' = wCount + 1 /\ wCount = 0 /\ now[h] >= wStart
      <4>1. wStart <= new
        BY <2>1, <3>3 DEF TypeOK
      <4>2. wCount' * Res = Res /\ tokens' = got - Res
        BY <1>1, <2>2, <3>3 DEF TypeOK
      <4>3. QED
        BY <1>1, <2>1, <2>5, <2>6, <2>7, <4>1, <4>2
    <3>4. QED
      BY <2>2, <3>1, <3>2, <3>3 DEF TypeOK
  <2>10. RateInv'
    <3>1. Burst' = Burst /\ tokens' <= Burst
      BY <1>1, <2>1, <2>2 DEF Burst
    <3>2. QED
      BY <2>1, <2>2, <2>9, <3>1 DEF RateInv, WithinBurst
  <2>11. QED
    BY <2>4, <2>10
<1>7. ASSUME NEW h \in Handlers, Release(h) PROVE (TypeOK /\ RateInv)'
  BY <1>1, <1>7 DEF Release, TypeOK, RateInv, WithinBurst, Burst
<1>8. CASE UNCHANGED vars
  BY <1>1, <1>8 DEF vars, TypeOK, RateInv, WithinBurst, Burst
<1>9. QED
  BY <1>2, <1>3, <1>4, <1>5, <1>6, <1>7, <1>8 DEF Next

LEMMA RateInvariant == Spec => [](TypeOK /\ RateInv)
BY InitRate, NextRate, PTL DEF Spec

\* Whenever a window of time starts, the dials begun in it take at most one
\* burst and what the rate allows (acquire, setLimits), with handlers that
\* reach the lock late and limits that change on the way.
THEOREM DialRateBounded == Spec => []DialRateBound
<1>1. TypeOK /\ RateInv => DialRateBound
  <2> SUFFICES ASSUME TypeOK, RateInv PROVE DialRateBound
    OBVIOUS
  <2>1. /\ MaxRate \in Nat /\ Res \in Nat /\ clock \in Nat /\ wStart \in Nat /\ last \in Nat
        /\ tokens \in Nat /\ wCount \in Nat
        /\ last <= clock /\ wStart <= clock /\ clock - wStart \in Nat
    BY LimitsAssumption, ResAssumption DEF TypeOK, RateInv
  <2>2. MaxRate * (clock - wStart) \in Nat /\ MaxRate * Res \in Nat /\ wCount * Res \in Nat
    BY <2>1
  <2>3. CASE wCount = 0
    BY <2>1, <2>2, <2>3 DEF DialRateBound
  <2>4. CASE wCount > 0
    <3>1. /\ last - wStart \in Nat /\ last - wStart <= clock - wStart
          /\ wCount * Res + tokens <= MaxRate * Res + MaxRate * (last - wStart)
      BY <2>1, <2>4 DEF RateInv
    <3>2. MaxRate * (last - wStart) <= MaxRate * (clock - wStart)
      <4>1. (last - wStart) * MaxRate <= (clock - wStart) * MaxRate
        BY <2>1, <3>1, MulMonotone
      <4>2. QED
        BY <2>1, <3>1, <4>1
    <3>3. MaxRate * (last - wStart) \in Nat
      BY <2>1, <3>1
    <3>4. QED
      BY <2>1, <2>2, <3>1, <3>2, <3>3 DEF DialRateBound
  <2>5. QED
    BY <2>1, <2>3, <2>4
<1>2. QED
  BY <1>1, RateInvariant, PTL

\* The bucket is never above the burst now in force: a lowered limit takes
\* effect at once and an idle peer saves nothing up (setLimits, acquire).
THEOREM BurstIsKept == Spec => []WithinBurst
<1>1. TypeOK /\ RateInv => WithinBurst
  BY DEF RateInv
<1>2. QED
  BY <1>1, RateInvariant, PTL
=============================================================================
