--------------------------- MODULE SessionProofs ---------------------------
(***************************************************************************)
(* What the exit codes, the acks and the verdicts of a session mean, for   *)
(* messages, names and jobs of any length and every way a stream is cut.   *)
(***************************************************************************)
EXTENDS Session, SequenceTheorems, WellFoundedInduction, TLAPS

-----------------------------------------------------------------------------
(* Prefixes.                                                               *)

LEMMA PrefixIs ==
    ASSUME NEW s \in Seq(Nat), NEW t \in Seq(Nat)
    PROVE  IsPrefix(s, t) <=> Len(s) <= Len(t) /\ \A i \in 1..Len(s) : s[i] = t[i]
  <1>1. ASSUME IsPrefix(s, t) PROVE Len(s) <= Len(t) /\ \A i \in 1..Len(s) : s[i] = t[i]
    <2>1. Len(s) <= Len(t) /\ SubSeq(s, 1, Len(s)) = SubSeq(t, 1, Len(s))
      BY <1>1 DEF IsPrefix
    <2>2. \A i \in 1..Len(s) : s[i] = SubSeq(s, 1, Len(s))[i] /\ t[i] = SubSeq(t, 1, Len(s))[i]
      BY <2>1
    <2>3. QED
      BY <2>1, <2>2
  <1>2. ASSUME Len(s) <= Len(t), \A i \in 1..Len(s) : s[i] = t[i] PROVE IsPrefix(s, t)
    <2>1. SubSeq(s, 1, Len(s)) = s /\ SubSeq(t, 1, Len(s)) \in Seq(Nat) /\ Len(SubSeq(t, 1, Len(s))) = Len(s)
      BY <1>2, SubSeqFull
    <2>2. \A i \in 1..Len(s) : SubSeq(t, 1, Len(s))[i] = t[i]
      BY <1>2
    <2>3. SubSeq(t, 1, Len(s)) = s
      BY <1>2, <2>1, <2>2, SeqEqual
    <2>4. QED
      BY <1>2, <2>1, <2>3 DEF IsPrefix
  <1>3. QED
    BY <1>1, <1>2

LEMMA PrefixSelf == ASSUME NEW s \in Seq(Nat) PROVE IsPrefix(s, s) /\ IsPrefix(<<>>, s)
  <1>1. Len(<<>>) = 0 /\ Len(s) \in Nat
    OBVIOUS
  <1>2. SubSeq(<<>>, 1, 0) = <<>> /\ SubSeq(s, 1, 0) = <<>>
    BY SubSeqEmpty
  <1>3. QED
    BY <1>1, <1>2 DEF IsPrefix

LEMMA PrefixOfLonger ==
    ASSUME NEW s \in Seq(Nat), NEW t \in Seq(Nat), NEW u \in Seq(Nat), IsPrefix(s, t)
    PROVE  IsPrefix(s, t \o u)
  <1>1. t \o u \in Seq(Nat) /\ Len(t) <= Len(t \o u) /\ \A i \in 1..Len(t) : (t \o u)[i] = t[i]
    BY ConcatProperties
  <1>2. Len(s) <= Len(t) /\ \A i \in 1..Len(s) : s[i] = t[i]
    BY PrefixIs
  <1> DEFINE v == t \o u
  <1>3. v \in Seq(Nat) /\ Len(s) <= Len(v) /\ \A i \in 1..Len(s) : s[i] = v[i]
    BY <1>1, <1>2
  <1> HIDE DEF v
  <1>4. IsPrefix(s, v)
    BY <1>3, PrefixIs
  <1>5. QED
    BY <1>4 DEF v

LEMMA PrefixTransitive ==
    ASSUME NEW s \in Seq(Nat), NEW t \in Seq(Nat), NEW u \in Seq(Nat), IsPrefix(s, t), IsPrefix(t, u)
    PROVE  IsPrefix(s, u)
  BY PrefixIs

\* What is left of a stream that was cut.
LEMMA CutIsPrefix ==
    ASSUME NEW s \in Seq(Nat), NEW n \in 0..Len(s)
    PROVE  /\ SubSeq(s, 1, n) \in Seq(Nat) /\ Len(SubSeq(s, 1, n)) = n
           /\ \A i \in 1..n : SubSeq(s, 1, n)[i] = s[i]
           /\ IsPrefix(SubSeq(s, 1, n), s)
  <1>1. SubSeq(s, 1, n) \in Seq(Nat) /\ Len(SubSeq(s, 1, n)) = n /\ \A i \in 1..n : SubSeq(s, 1, n)[i] = s[i]
    OBVIOUS
  <1> DEFINE v == SubSeq(s, 1, n)
  <1>2. v \in Seq(Nat) /\ Len(v) <= Len(s) /\ \A i \in 1..Len(v) : v[i] = s[i]
    BY <1>1
  <1> HIDE DEF v
  <1>3. IsPrefix(v, s)
    BY <1>2, PrefixIs
  <1>4. QED
    BY <1>1, <1>3 DEF v

LEMMA CutKeepsEmpty ==
    ASSUME NEW s \in Seq(Nat), NEW n \in 0..Len(s)
    PROVE  /\ IsPrefix(SubSeq(s, 1, n), s) /\ Len(SubSeq(s, 1, n)) = n
           /\ \A i \in 1..n : SubSeq(s, 1, n)[i] = s[i]
           /\ s = <<>> => SubSeq(s, 1, n) = <<>>
  <1>1. s = <<>> => n = 0
    OBVIOUS
  <1>2. n = 0 => SubSeq(s, 1, n) = <<>>
    BY SubSeqEmpty
  <1>3. QED
    BY <1>1, <1>2, CutIsPrefix

LEMMA ConcatCut ==
    ASSUME NEW a \in Seq(Nat), NEW b \in Seq(Nat), NEW t \in Seq(Nat), NEW n \in 0..Len(b),
           IsPrefix(a \o b, t)
    PROVE  IsPrefix(a \o SubSeq(b, 1, n), t)
  <1> DEFINE c == SubSeq(b, 1, n)
  <1>1. c \in Seq(Nat) /\ Len(c) = n /\ \A i \in 1..n : c[i] = b[i]
    BY CutIsPrefix
  <1> HIDE DEF c
  <1>2. a \o c \in Seq(Nat) /\ a \o b \in Seq(Nat) /\ Len(a \o c) <= Len(a \o b)
    BY <1>1
  <1>3. \A i \in 1..Len(a \o c) : (a \o c)[i] = (a \o b)[i]
    BY <1>1
  <1>4. IsPrefix(a \o c, a \o b)
    BY <1>2, <1>3, PrefixIs
  <1>5. IsPrefix(a \o c, t)
    BY <1>2, <1>4, PrefixTransitive
  <1>6. QED
    BY <1>5 DEF c

LEMMA ConcatHead ==
    ASSUME NEW a \in Seq(Nat), NEW b \in Seq(Nat), NEW t \in Seq(Nat), IsPrefix(a \o b, t)
    PROVE  IsPrefix(a, t)
  <1>1. a \o b \in Seq(Nat)
    OBVIOUS
  <1>2. IsPrefix(a, a \o b)
    BY PrefixSelf, PrefixOfLonger
  <1>3. QED
    BY <1>1, <1>2, PrefixTransitive

\* io.Copy moves one byte over: together the two streams carry the same.
LEMMA MoveOne ==
    ASSUME NEW a \in Seq(Nat), NEW b \in Seq(Nat), b # <<>>
    PROVE  /\ a \o <<Head(b)>> \in Seq(Nat) /\ Tail(b) \in Seq(Nat)
           /\ (a \o <<Head(b)>>) \o Tail(b) = a \o b
  <1>1. Head(b) \in Nat /\ Tail(b) \in Seq(Nat) /\ Len(Tail(b)) = Len(b) - 1 /\ Len(b) > 0
    BY HeadTailProperties, EmptySeq
  <1>2. <<Head(b)>> \in Seq(Nat) /\ a \o <<Head(b)>> \in Seq(Nat)
    BY <1>1
  <1>3. <<Head(b)>> \o Tail(b) = b
    <2> DEFINE c == <<Head(b)>> \o Tail(b)
    <2>1. c \in Seq(Nat) /\ Len(c) = Len(b)
      BY <1>1, <1>2
    <2>2. \A i \in 1..Len(c) : c[i] = b[i]
      BY <1>1, <1>2, HeadTailProperties
    <2> HIDE DEF c
    <2>3. c = b
      BY <2>1, <2>2, SeqEqual
    <2>4. QED
      BY <2>3 DEF c
  <1>4. QED
    BY <1>1, <1>2, <1>3, ConcatAssociative, SMTT(60)

LEMMA Longer ==
    ASSUME NEW a \in Seq(Nat), NEW b \in Seq(Nat)
    PROVE  /\ Len(a \o b) = Len(a) + Len(b) /\ Len(a) \in Nat /\ (Len(a) = 0 => a = <<>>)
           /\ \A i \in 1..Len(a) : (a \o b)[i] = a[i]
  <1>1. Len(a \o b) = Len(a) + Len(b) /\ \A i \in 1..Len(a) : (a \o b)[i] = a[i]
    OBVIOUS
  <1>2. Len(a) \in Nat /\ (Len(a) = 0 => a = <<>>)
    BY EmptySeq
  <1>3. QED
    BY <1>1, <1>2

LEMMA Between ==
    ASSUME NEW n \in Int, NEW p \in Nat, NEW q \in Nat, n <= p, n <= q
    PROVE  \A i \in 3..n : i \in 1..p /\ i \in 1..q
  OBVIOUS

-----------------------------------------------------------------------------
(* Lines.                                                                  *)

\* Where the first line of a stream ends.
LEMMA FirstBreak ==
    ASSUME NEW s \in Seq(Nat), HasLine(s)
    PROVE  \E m \in 1..Len(s) :
              s[m] = Newline /\ (\A j \in 1..(m - 1) : s[j] # Newline) /\ FirstLine(s) = SubSeq(s, 1, m - 1)
  <1> DEFINE At(i) == i \in DOMAIN s /\ s[i] = Newline /\ \A j \in 1..(i - 1) : s[j] # Newline
             Break == CHOOSE i \in DOMAIN s : s[i] = Newline /\ \A j \in 1..(i - 1) : s[j] # Newline
             T == {i \in DOMAIN s : s[i] = Newline}
  <1>1. DOMAIN s = 1..Len(s) /\ Len(s) \in Nat
    OBVIOUS
  <1>2. PICK m \in T : \A y \in T : ~(y < m)
    <2>1. T \subseteq Nat /\ T # {}
      BY <1>1 DEF HasLine
    <2>2. PICK x \in T : \A y \in T : ~(<<y, x>> \in OpToRel(<, Nat))
      BY <2>1, WFMin, NatLessThanWellFounded
    <2>3. \A y \in T : ~(y < x)
      BY <2>1, <2>2 DEF OpToRel
    <2>4. QED
      BY <2>3
  <1>3. At(m)
    <2>1. m \in 1..Len(s) /\ s[m] = Newline
      BY <1>1
    <2>2. \A j \in 1..(m - 1) : j \in 1..Len(s) /\ j < m
      BY <1>1, <2>1
    <2>3. QED
      BY <1>1, <1>2, <2>1, <2>2
  <1>4. At(Break)
    BY <1>3
  <1>5. FirstLine(s) = SubSeq(s, 1, Break - 1)
    BY DEF FirstLine
  <1> HIDE DEF Break
  <1>6. QED
    BY <1>1, <1>4, <1>5

\* The line that readMessage cuts off the part of the stream that has
\* arrived is the first line of the whole.
LEMMA FirstLineOfPrefix ==
    ASSUME NEW s \in Seq(Nat), NEW t \in Seq(Nat), IsPrefix(s, t), HasLine(s)
    PROVE  FirstLine(s) = FirstLine(t) /\ FirstLine(s) \in Seq(Nat)
  <1>1. /\ DOMAIN t = 1..Len(t) /\ Len(s) \in Nat /\ Len(t) \in Nat
        /\ Len(s) <= Len(t) /\ \A i \in 1..Len(s) : s[i] = t[i]
    <2>1. Len(s) <= Len(t) /\ \A i \in 1..Len(s) : s[i] = t[i]
      BY PrefixIs
    <2>2. DOMAIN t = 1..Len(t) /\ Len(t) \in Nat
      BY LenProperties
    <2>3. Len(s) \in Nat
      BY LenProperties
    <2>4. QED
      BY <2>1, <2>2, <2>3
  <1>2. PICK m \in 1..Len(s) :
          s[m] = Newline /\ (\A j \in 1..(m - 1) : s[j] # Newline) /\ FirstLine(s) = SubSeq(s, 1, m - 1)
    BY FirstBreak
  <1>3. m \in 1..Len(t) /\ t[m] = Newline
    BY <1>1, <1>2
  <1>4. HasLine(t)
    BY <1>1, <1>3 DEF HasLine
  <1>5. PICK k \in 1..Len(t) :
          t[k] = Newline /\ (\A j \in 1..(k - 1) : t[j] # Newline) /\ FirstLine(t) = SubSeq(t, 1, k - 1)
    BY <1>4, FirstBreak
  <1>6. k = m
    <2>1. ~(m < k)
      BY <1>1, <1>3, <1>5
    <2>2. k < m => k \in 1..(m - 1) /\ k \in 1..Len(s)
      BY <1>1
    <2>3. ~(k < m)
      BY <1>1, <1>2, <1>5, <2>2
    <2>4. QED
      BY <1>1, <2>1, <2>3
  <1>7. m - 1 \in 0..Len(s) /\ m - 1 \in 0..Len(t)
    BY <1>1
  <1>8. SubSeq(s, 1, m - 1) = SubSeq(t, 1, m - 1)
    BY <1>1, <1>7, CutIsPrefix, SeqEqual
  <1>9. QED
    BY <1>2, <1>5, <1>6, <1>7, <1>8, CutIsPrefix

\* What is behind the first k bytes of the part of a stream that has arrived
\* is the beginning of what is behind them in the whole.
LEMMA DropOfPrefix ==
    ASSUME NEW s \in Seq(Nat), NEW t \in Seq(Nat), IsPrefix(s, t), NEW k \in Nat
    PROVE  /\ SubSeq(s, k + 1, Len(s)) \in Seq(Nat) /\ SubSeq(t, k + 1, Len(t)) \in Seq(Nat)
           /\ IsPrefix(SubSeq(s, k + 1, Len(s)), SubSeq(t, k + 1, Len(t)))
  <1> DEFINE d(u) == SubSeq(u, k + 1, Len(u))
  <1>1. Len(s) \in Nat /\ Len(t) \in Nat /\ Len(s) <= Len(t) /\ \A i \in 1..Len(s) : s[i] = t[i]
    BY PrefixIs
  <1>2. ASSUME NEW u \in Seq(Nat), NEW n \in Nat, Len(u) = n
        PROVE  /\ d(u) \in Seq(Nat) /\ Len(d(u)) = IF k + 1 <= n THEN n - k ELSE 0
               /\ \A i \in 1..(n - k) : d(u)[i] = u[k + i]
    <2>1. \A i \in (k + 1)..n : i \in 1..n
      OBVIOUS
    <2>2. \A i \in (k + 1)..n : u[i] \in Nat
      BY <1>2, <2>1, ElementOfSeq
    <2>3. /\ d(u) \in Seq(Nat) /\ Len(d(u)) = IF k + 1 <= n THEN n - (k + 1) + 1 ELSE 0
          /\ \A i \in 1..(n - (k + 1) + 1) : d(u)[i] = u[(k + 1) + i - 1]
      <3>1. k + 1 \in Int /\ n \in Int
        OBVIOUS
      <3>2. QED
        BY <1>2, <2>2, <3>1, SubSeqProperties
    <2>4. n - (k + 1) + 1 = n - k /\ \A i \in 1..(n - k) : (k + 1) + i - 1 = k + i
      OBVIOUS
    <2>5. QED
      BY <2>3, <2>4
  <1> HIDE DEF d
  <1>3. /\ d(s) \in Seq(Nat) /\ Len(d(s)) = IF k + 1 <= Len(s) THEN Len(s) - k ELSE 0
        /\ \A i \in 1..(Len(s) - k) : d(s)[i] = s[k + i]
    BY <1>1, <1>2
  <1>4. /\ d(t) \in Seq(Nat) /\ Len(d(t)) = IF k + 1 <= Len(t) THEN Len(t) - k ELSE 0
        /\ \A i \in 1..(Len(t) - k) : d(t)[i] = t[k + i]
    BY <1>1, <1>2
  <1>5. Len(d(s)) <= Len(d(t))
    BY <1>1, <1>3, <1>4
  <1>6. ASSUME NEW i \in 1..Len(d(s)) PROVE d(s)[i] = d(t)[i]
    <2>1. i \in 1..(Len(s) - k) /\ i \in 1..(Len(t) - k) /\ k + i \in 1..Len(s)
      BY <1>1, <1>3
    <2>2. QED
      BY <1>1, <1>3, <1>4, <2>1
  <1>7. IsPrefix(d(s), d(t))
    BY <1>3, <1>4, <1>5, <1>6, PrefixIs
  <1>8. QED
    BY <1>3, <1>4, <1>7 DEF d

\* A stream is its first line, the newline, and what readMessage leaves.
LEMMA LineAndRest ==
    ASSUME NEW s \in Seq(Nat), HasLine(s)
    PROVE  LET m == FirstLine(s)
               rest == SubSeq(s, Len(m) + 2, Len(s))
           IN  m \in Seq(Nat) /\ rest \in Seq(Nat) /\ Append(m, Newline) \o rest = s
  <1> DEFINE m == FirstLine(s)
             rest == SubSeq(s, Len(m) + 2, Len(s))
             line == Append(m, Newline)
  <1>1. PICK b \in 1..Len(s) : s[b] = Newline /\ m = SubSeq(s, 1, b - 1)
    BY FirstBreak
  <1>2. Len(s) \in Nat /\ b \in Nat /\ b - 1 \in 0..Len(s)
    OBVIOUS
  <1>3. m \in Seq(Nat) /\ Len(m) = b - 1 /\ \A i \in 1..(b - 1) : m[i] = s[i]
    BY <1>1, <1>2, CutIsPrefix
  <1> HIDE DEF m
  <1>4. /\ rest \in Seq(Nat) /\ Len(rest) = Len(s) - b
        /\ \A i \in 1..(Len(s) - b) : rest[i] = s[b + i]
    <2>1. Len(m) + 2 = b + 1
      BY <1>2, <1>3
    <2>2. \A i \in (b + 1)..Len(s) : i \in 1..Len(s)
      BY <1>2
    <2>3. \A i \in (b + 1)..Len(s) : s[i] \in Nat
      BY <2>2, ElementOfSeq
    <2>4. /\ SubSeq(s, b + 1, Len(s)) \in Seq(Nat)
          /\ Len(SubSeq(s, b + 1, Len(s))) = IF b + 1 <= Len(s) THEN Len(s) - (b + 1) + 1 ELSE 0
          /\ \A i \in 1..(Len(s) - (b + 1) + 1) : SubSeq(s, b + 1, Len(s))[i] = s[(b + 1) + i - 1]
      <3>1. b + 1 \in Int /\ Len(s) \in Int
        BY <1>2
      <3>2. QED
        BY <2>3, <3>1, SubSeqProperties
    <2>5. Len(s) - (b + 1) + 1 = Len(s) - b /\ \A i \in 1..(Len(s) - b) : (b + 1) + i - 1 = b + i
      BY <1>2
    <2>6. b <= Len(s) /\ (~(b + 1 <= Len(s)) => Len(s) - b = 0)
      BY <1>2
    <2>7. QED
      BY <2>1, <2>4, <2>5, <2>6
  <1>5. /\ line \in Seq(Nat) /\ Len(line) = b
        /\ \A i \in 1..b : line[i] = s[i]
    <2>1. Newline \in Nat
      BY DEF Newline
    <2>2. /\ line \in Seq(Nat) /\ Len(line) = Len(m) + 1 /\ line[Len(m) + 1] = Newline
          /\ \A i \in 1..Len(m) : line[i] = m[i]
      BY <1>3, <2>1, AppendProperties
    <2>3. Len(m) + 1 = b /\ \A i \in 1..b : i = b \/ i \in 1..(b - 1)
      BY <1>2, <1>3
    <2>4. QED
      BY <1>1, <1>3, <2>2, <2>3
  <1> HIDE DEF rest, line
  <1>6. /\ line \o rest \in Seq(Nat) /\ Len(line \o rest) = Len(s)
        /\ \A i \in 1..Len(s) : (line \o rest)[i] = IF i <= b THEN line[i] ELSE rest[i - b]
    <2>1. /\ line \o rest \in Seq(Nat) /\ Len(line \o rest) = Len(line) + Len(rest)
          /\ \A i \in 1..Len(line) + Len(rest) :
                (line \o rest)[i] = IF i <= Len(line) THEN line[i] ELSE rest[i - Len(line)]
      BY <1>4, <1>5, ConcatProperties
    <2>2. Len(line) + Len(rest) = Len(s)
      BY <1>2, <1>4, <1>5
    <2>3. QED
      BY <1>5, <2>1, <2>2
  <1>7. ASSUME NEW i \in 1..Len(s) PROVE (line \o rest)[i] = s[i]
    <2>1. (line \o rest)[i] = IF i <= b THEN line[i] ELSE rest[i - b]
      BY <1>6
    <2>2. CASE i <= b
      BY <1>2, <1>5, <2>1, <2>2
    <2>3. CASE ~(i <= b)
      <3>1. i - b \in 1..(Len(s) - b) /\ b + (i - b) = i
        BY <1>2, <2>3
      <3>2. rest[i - b] = s[b + (i - b)]
        BY <1>4, <3>1
      <3>3. QED
        BY <1>5, <2>1, <2>3, <3>1, <3>2
    <2>4. QED
      BY <2>2, <2>3
  <1>8. line \o rest = s
    BY <1>6, <1>7, SeqEqual
  <1>9. QED
    BY <1>3, <1>4, <1>8 DEF m, rest, line

-----------------------------------------------------------------------------
(* The bytes of a sequence of lines.  FlattenSeq is a recursive function;  *)
(* one that solves its equation exists, and any two agree.                 *)

LEMMA NatInductive ==
    ASSUME NEW S \in SUBSET Nat, 0 \in S, \A n \in S : n + 1 \in S
    PROVE  S = Nat
  <1>1. SUFFICES ASSUME Nat \ S # {} PROVE FALSE
    OBVIOUS
  <1>2. PICK x \in Nat \ S : \A y \in Nat \ S : ~(<<y, x>> \in OpToRel(<, Nat))
    BY <1>1, WFMin, NatLessThanWellFounded
  <1>3. \A y \in Nat \ S : ~(y < x)
    BY <1>2 DEF OpToRel
  <1>4. x # 0 /\ x - 1 \in Nat
    OBVIOUS
  <1>5. x - 1 \in S
    BY <1>3, <1>4
  <1>6. QED
    BY <1>5

Flattens(f, seqs, n) == f = [i \in 1..n |-> IF i = 1 THEN seqs[i] ELSE f[i - 1] \o seqs[i]]

LEMMA FlattenExists ==
    ASSUME NEW seqs, NEW n \in Nat
    PROVE  \E f : Flattens(f, seqs, n)
  <1> DEFINE S == {m \in Nat : \E f : Flattens(f, seqs, m)}
  <1>1. 0 \in S
    <2>1. 1..0 = {}
      OBVIOUS
    <2>2. Flattens([i \in {} |-> 0], seqs, 0)
      BY <2>1 DEF Flattens
    <2>3. QED
      BY <2>2
  <1>2. ASSUME NEW m \in S PROVE m + 1 \in S
    <2>1. PICK f : Flattens(f, seqs, m)
      OBVIOUS
    <2>2. m \in Nat /\ m + 1 \in Nat
      OBVIOUS
    <2> DEFINE g == [i \in 1..(m + 1) |->
                       IF i = m + 1 THEN IF i = 1 THEN seqs[i] ELSE f[i - 1] \o seqs[i] ELSE f[i]]
    <2>3. ASSUME NEW i \in 1..(m + 1)
          PROVE  g[i] = IF i = 1 THEN seqs[i] ELSE g[i - 1] \o seqs[i]
      <3>1. i # 1 => i - 1 \in 1..m /\ i - 1 \in 1..(m + 1) /\ i - 1 # m + 1
        BY <2>2
      <3>2. i # 1 => g[i - 1] = f[i - 1]
        BY <3>1
      <3>3. CASE i = m + 1
        BY <3>2, <3>3
      <3>4. CASE i # m + 1
        <4>1. i \in 1..m
          BY <2>2, <3>4
        <4>2. f[i] = IF i = 1 THEN seqs[i] ELSE f[i - 1] \o seqs[i]
          BY <2>1, <4>1 DEF Flattens
        <4>3. g[i] = f[i]
          BY <3>4
        <4>4. QED
          BY <3>2, <4>2, <4>3
      <3>5. QED
        BY <3>3, <3>4
    <2>4. g = [i \in 1..(m + 1) |-> g[i]]
      OBVIOUS
    <2>5. Flattens(g, seqs, m + 1)
      BY <2>3 DEF Flattens
    <2> HIDE DEF g
    <2>6. QED
      BY <2>2, <2>5
  <1> HIDE DEF S
  <1>3. S \in SUBSET Nat
    BY DEF S
  <1>4. S = Nat
    BY <1>1, <1>2, <1>3, NatInductive
  <1>5. QED
    BY <1>4 DEF S

\* The function that FlattenSeq picks.
LEMMA FlattenPicks ==
    ASSUME NEW seqs \in Seq(Seq(Nat)), Len(seqs) # 0
    PROVE  \E f : Flattens(f, seqs, Len(seqs)) /\ FlattenSeq(seqs) = f[Len(seqs)]
  <1> DEFINE f == CHOOSE g : g = [i \in 1..Len(seqs) |-> IF i = 1 THEN seqs[i] ELSE g[i - 1] \o seqs[i]]
  <1>1. FlattenSeq(seqs) = f[Len(seqs)]
    BY DEF FlattenSeq
  <1>2. \E g : g = [i \in 1..Len(seqs) |-> IF i = 1 THEN seqs[i] ELSE g[i - 1] \o seqs[i]]
    <2>1. PICK g : Flattens(g, seqs, Len(seqs))
      <3>1. Len(seqs) \in Nat
        OBVIOUS
      <3>2. QED
        BY <3>1, FlattenExists
    <2>2. QED
      BY <2>1 DEF Flattens
  <1>3. f = [i \in 1..Len(seqs) |-> IF i = 1 THEN seqs[i] ELSE f[i - 1] \o seqs[i]]
    BY <1>2
  <1> HIDE DEF f
  <1>4. Flattens(f, seqs, Len(seqs))
    BY <1>3 DEF Flattens
  <1>5. QED
    BY <1>1, <1>4

\* Sequences that begin alike are flattened alike, to sequences of bytes.
LEMMA FlattensAlike ==
    ASSUME NEW seqs \in Seq(Seq(Nat)), NEW more \in Seq(Seq(Nat)), NEW n \in Nat, NEW m \in Nat,
           n <= m, n <= Len(seqs), \A i \in 1..n : more[i] = seqs[i],
           NEW f, NEW g, Flattens(f, seqs, n), Flattens(g, more, m)
    PROVE  \A i \in 1..n : f[i] = g[i] /\ f[i] \in Seq(Nat)
  <1> DEFINE S == {k \in Nat : k \in 1..n => f[k] = g[k] /\ f[k] \in Seq(Nat)}
  <1>1. /\ \A i \in 1..n : f[i] = IF i = 1 THEN seqs[i] ELSE f[i - 1] \o seqs[i]
        /\ \A i \in 1..m : g[i] = IF i = 1 THEN more[i] ELSE g[i - 1] \o more[i]
    BY DEF Flattens
  <1>2. \A i \in 1..n : seqs[i] \in Seq(Nat) /\ i \in 1..m
    OBVIOUS
  <1>3. 0 \in S
    OBVIOUS
  <1>4. ASSUME NEW k \in S PROVE k + 1 \in S
    <2>1. SUFFICES ASSUME k + 1 \in 1..n PROVE f[k + 1] = g[k + 1] /\ f[k + 1] \in Seq(Nat)
      OBVIOUS
    <2>2. seqs[k + 1] \in Seq(Nat) /\ more[k + 1] = seqs[k + 1] /\ k + 1 \in 1..m /\ k \in Nat
      BY <1>2, <2>1
    <2>3. CASE k = 0
      <3>1. k + 1 = 1
        BY <2>3
      <3>2. f[k + 1] = seqs[k + 1] /\ g[k + 1] = more[k + 1]
        BY <1>1, <2>1, <2>2, <3>1
      <3>3. QED
        BY <2>2, <3>2
    <2>4. CASE k # 0
      <3>1. k \in 1..n /\ k + 1 # 1 /\ (k + 1) - 1 = k
        BY <2>1, <2>2, <2>4
      <3>2. f[k] = g[k] /\ f[k] \in Seq(Nat)
        BY <3>1
      <3>3. f[k + 1] = f[k] \o seqs[k + 1] /\ g[k + 1] = g[k] \o more[k + 1]
        BY <1>1, <2>1, <2>2, <3>1
      <3>4. f[k] \o seqs[k + 1] \in Seq(Nat)
        BY <2>2, <3>2
      <3>5. QED
        BY <2>2, <3>2, <3>3, <3>4
    <2>5. QED
      BY <2>3, <2>4
  <1> HIDE DEF S
  <1>5. S \in SUBSET Nat
    BY DEF S
  <1>6. S = Nat
    BY <1>3, <1>4, <1>5, NatInductive
  <1>7. \A i \in 1..n : i \in S
    BY <1>6
  <1>8. QED
    BY <1>7 DEF S

\* What FlattenSeq makes of one line more.
LEMMA FlattenAppend ==
    ASSUME NEW seqs \in Seq(Seq(Nat)), NEW line \in Seq(Nat)
    PROVE  /\ FlattenSeq(seqs) \in Seq(Nat)
           /\ FlattenSeq(Append(seqs, line)) = FlattenSeq(seqs) \o line
  <1> DEFINE n == Len(seqs)
             more == Append(seqs, line)
  <1>1. /\ n \in Nat /\ n + 1 \in Nat /\ more \in Seq(Seq(Nat)) /\ Len(more) = n + 1 /\ more[n + 1] = line
        /\ \A i \in 1..n : more[i] = seqs[i]
    BY AppendProperties
  <1> HIDE DEF more
  <1>2. PICK g : Flattens(g, more, n + 1) /\ FlattenSeq(more) = g[n + 1]
    <2>1. Len(more) # 0
      BY <1>1
    <2>2. \E g : Flattens(g, more, Len(more)) /\ FlattenSeq(more) = g[Len(more)]
      BY <1>1, <2>1, FlattenPicks
    <2>3. QED
      BY <1>1, <2>2
  <1>3. g[n + 1] = IF n + 1 = 1 THEN more[n + 1] ELSE g[(n + 1) - 1] \o more[n + 1]
    <2>1. n + 1 \in 1..(n + 1)
      BY <1>1
    <2>2. g = [i \in 1..(n + 1) |-> IF i = 1 THEN more[i] ELSE g[i - 1] \o more[i]]
      BY <1>2 DEF Flattens
    <2>3. QED
      BY <2>1, <2>2
  <1>4. CASE n = 0
    <2>1. seqs = <<>> /\ FlattenSeq(seqs) = seqs
      BY <1>4, EmptySeq DEF FlattenSeq
    <2>2. FlattenSeq(more) = line
      BY <1>1, <1>2, <1>3, <1>4
    <2>3. <<>> \in Seq(Nat) /\ <<>> \o line = line
      BY ConcatEmptySeq
    <2>4. QED
      BY <2>1, <2>2, <2>3 DEF more
  <1>5. CASE n # 0
    <2>1. PICK f : Flattens(f, seqs, n) /\ FlattenSeq(seqs) = f[n]
      BY <1>5, FlattenPicks
    <2>2. n \in 1..n /\ n <= n + 1 /\ n + 1 # 1 /\ (n + 1) - 1 = n
      BY <1>1, <1>5
    <2>3. f[n] = g[n] /\ f[n] \in Seq(Nat)
      <3>1. n <= Len(seqs) /\ n <= n + 1 /\ n \in Nat /\ n + 1 \in Nat
        BY <1>1
      <3>2. \A i \in 1..n : more[i] = seqs[i]
        BY <1>1
      <3> HIDE DEF n
      <3>3. \A i \in 1..n : f[i] = g[i] /\ f[i] \in Seq(Nat)
        BY <1>1, <1>2, <2>1, <3>1, <3>2, FlattensAlike
      <3>4. QED
        BY <2>2, <3>3
    <2>4. FlattenSeq(more) = FlattenSeq(seqs) \o line
      BY <1>1, <1>2, <1>3, <2>1, <2>2, <2>3
    <2>5. QED
      BY <2>1, <2>3, <2>4 DEF more
  <1>6. QED
    BY <1>4, <1>5

-----------------------------------------------------------------------------
(* Frames.                                                                 *)

LEMMA RequestBytes ==
    ASSUME NEW name \in Seq(Nat)
    PROVE  LET f == HelloRequest(name) IN
           /\ f \in Seq(Nat) /\ Len(f) = 2 + Len(name) /\ f[1] = Version /\ f[2] = Len(name)
           /\ \A i \in 1..Len(name) : f[2 + i] = name[i]
  <1> DEFINE h == <<Version, Len(name)>>
  <1>1. h \in Seq(Nat) /\ Len(h) = 2 /\ h[1] = Version /\ h[2] = Len(name)
    BY DEF Version
  <1>2. HelloRequest(name) = h \o name
    BY DEF HelloRequest
  <1> HIDE DEF h
  <1>3. /\ h \o name \in Seq(Nat) /\ Len(h \o name) = 2 + Len(name)
        /\ (h \o name)[1] = h[1] /\ (h \o name)[2] = h[2]
        /\ \A i \in 1..Len(name) : (h \o name)[2 + i] = name[i]
    <2>1. /\ h \o name \in Seq(Nat) /\ Len(h \o name) = 2 + Len(name) /\ Len(name) \in Nat
          /\ \A i \in 1..(2 + Len(name)) : (h \o name)[i] = IF i <= 2 THEN h[i] ELSE name[i - 2]
      <3>1. /\ h \o name \in Seq(Nat) /\ Len(h \o name) = Len(h) + Len(name)
            /\ \A i \in 1..Len(h) + Len(name) : (h \o name)[i] = IF i <= Len(h) THEN h[i] ELSE name[i - Len(h)]
        BY <1>1, ConcatProperties
      <3>2. QED
        BY <1>1, <3>1
    <2>2. \A i \in 1..Len(name) : 2 + i \in 1..(2 + Len(name)) /\ ~(2 + i <= 2) /\ (2 + i) - 2 = i
      BY <2>1
    <2>3. \A i \in 1..Len(name) : (h \o name)[2 + i] = name[i]
      BY <2>1, <2>2
    <2>4. QED
      BY <2>1, <2>3
  <1>4. QED
    BY <1>1, <1>2, <1>3

\* The five outcomes of readHelloRequest.
LEMMA ReadCases ==
    ASSUME NEW s \in Seq(Nat), NEW ended \in BOOLEAN
    PROVE  LET r == ReadHelloRequest(s, ended)
               bad == s[1] # Version \/ s[2] \notin 1..MaxNameLen
               name == SubSeq(s, 3, 2 + s[2])
           IN  /\ Len(s) < 2 => r.kind \in {"io", "blocks"}
               /\ Len(s) >= 2 /\ bad => r = Malformed
               /\ Len(s) >= 2 /\ ~bad /\ Len(s) < 2 + s[2] => r = IF ended THEN Malformed ELSE Blocks
               /\ Len(s) >= 2 /\ ~bad /\ Len(s) >= 2 + s[2] =>
                     r = IF ValidServiceName(name) THEN Result("ok", name, 2 + s[2]) ELSE Malformed
  <1>1. CASE Len(s) < 2
    BY <1>1 DEF ReadHelloRequest, IOError, Blocks, Result
  <1>2. CASE ~(Len(s) < 2)
    <2>1. Len(s) \in Nat /\ Len(s) >= 2 /\ s[2] \in Nat
      BY <1>2
    <2>2. CASE s[1] # Version \/ s[2] \notin 1..MaxNameLen
      BY <2>1, <2>2 DEF ReadHelloRequest
    <2>3. CASE ~(s[1] # Version \/ s[2] \notin 1..MaxNameLen)
      <3>1. CASE Len(s) < 2 + s[2]
        BY <2>1, <2>3, <3>1 DEF ReadHelloRequest
      <3>2. CASE ~(Len(s) < 2 + s[2])
        BY <2>1, <2>3, <3>2 DEF ReadHelloRequest
      <3>3. QED
        BY <3>1, <3>2
    <2>4. QED
      BY <2>2, <2>3
  <1>3. QED
    BY <1>1, <1>2

\* readHelloRequest comes to one of four ends.
LEMMA ReadKinds ==
    ASSUME NEW s \in Seq(Nat), NEW ended \in BOOLEAN
    PROVE  ReadHelloRequest(s, ended).kind \in {"io", "blocks", "malformed", "ok"}
  <1> DEFINE r == ReadHelloRequest(s, ended)
             bad == s[1] # Version \/ s[2] \notin 1..MaxNameLen
             name == SubSeq(s, 3, 2 + s[2])
             good == Result("ok", name, 2 + s[2])
  <1>1. /\ Malformed.kind = "malformed" /\ Blocks.kind = "blocks" /\ good.kind = "ok"
    BY DEF Malformed, Blocks, Result
  <1>2. /\ Len(s) < 2 => r.kind \in {"io", "blocks"}
        /\ Len(s) >= 2 /\ bad => r = Malformed
        /\ Len(s) >= 2 /\ ~bad /\ Len(s) < 2 + s[2] => r = IF ended THEN Malformed ELSE Blocks
        /\ Len(s) >= 2 /\ ~bad /\ Len(s) >= 2 + s[2] => r = IF ValidServiceName(name) THEN good ELSE Malformed
    BY ReadCases
  <1>3. Len(s) \in Nat /\ (Len(s) >= 2 => s[2] \in Nat)
    OBVIOUS
  <1> HIDE DEF r, name, good
  <1>4. \/ Len(s) < 2
        \/ Len(s) >= 2 /\ bad
        \/ Len(s) >= 2 /\ ~bad /\ Len(s) < 2 + s[2]
        \/ Len(s) >= 2 /\ ~bad /\ Len(s) >= 2 + s[2]
    BY <1>3
  <1>5. r.kind \in {"io", "blocks", "malformed", "ok"}
    BY <1>1, <1>2, <1>4
  <1>6. QED
    BY <1>5 DEF r

\* A frame that is taken is whole, names a service, and is what the stream
\* begins with.
LEMMA ReadGood ==
    ASSUME NEW s \in Seq(Nat), NEW ended \in BOOLEAN, ReadHelloRequest(s, ended).kind = "ok"
    PROVE  LET r == ReadHelloRequest(s, ended) IN
           /\ r.value \in Seq(Nat) /\ ValidServiceName(r.value)
           /\ r.used = 2 + Len(r.value) /\ r.used <= Len(s)
           /\ IsPrefix(HelloRequest(r.value), s)
  <1> DEFINE name == SubSeq(s, 3, 2 + s[2])
             r == ReadHelloRequest(s, ended)
  <1>1. Malformed.kind = "malformed" /\ Blocks.kind = "blocks"
    BY DEF Malformed, Blocks, Result
  <1>2. /\ Len(s) >= 2 /\ s[1] = Version /\ s[2] \in 1..MaxNameLen /\ Len(s) >= 2 + s[2]
        /\ ValidServiceName(name) /\ r = Result("ok", name, 2 + s[2])
    BY <1>1, ReadCases
  <1>3. /\ name \in Seq(Nat) /\ Len(name) = s[2] /\ \A i \in 1..s[2] : name[i] = s[2 + i]
        /\ s[2] \in Nat
    <2>1. s[2] \in Nat /\ Len(s) \in Nat /\ 2 + s[2] \in Int /\ (2 + s[2]) - 3 + 1 = s[2]
      BY <1>2
    <2>2. \A i \in 3..(2 + s[2]) : s[i] \in Nat
      <3>1. \A i \in 3..(2 + s[2]) : i \in 1..Len(s)
        BY <1>2, <2>1
      <3>2. QED
        BY <3>1, ElementOfSeq
    <2>3. /\ name \in Seq(Nat) /\ Len(name) = IF 3 <= 2 + s[2] THEN (2 + s[2]) - 3 + 1 ELSE 0
          /\ \A i \in 1..((2 + s[2]) - 3 + 1) : name[i] = s[3 + i - 1]
      BY <2>1, <2>2, SubSeqProperties, SMTT(60)
    <2>4. \A i \in 1..s[2] : 3 + i - 1 = 2 + i
      BY <2>1
    <2>5. QED
      BY <2>1, <2>3, <2>4, SMTT(60)
  <1>4. r.value = name /\ r.used = 2 + s[2]
    BY <1>2, SMTT(60) DEF Result
  <1> HIDE DEF name, r
  <1> DEFINE f == HelloRequest(name)
  <1>5. /\ f \in Seq(Nat) /\ Len(f) = 2 + s[2] /\ f[1] = Version /\ f[2] = s[2]
        /\ \A i \in 1..s[2] : f[2 + i] = s[2 + i]
    <2>1. /\ f \in Seq(Nat) /\ Len(f) = 2 + Len(name) /\ f[1] = Version /\ f[2] = Len(name)
          /\ \A i \in 1..Len(name) : f[2 + i] = name[i]
      BY <1>3, RequestBytes
    <2>2. QED
      BY <1>3, <2>1
  <1> HIDE DEF f
  <1>6. ASSUME NEW i \in 1..Len(f) PROVE f[i] = s[i]
    <2>1. i = 1 \/ i = 2 \/ (i - 2 \in 1..s[2] /\ i = 2 + (i - 2))
      BY <1>3, <1>5
    <2>2. QED
      BY <1>2, <1>5, <2>1
  <1>7. IsPrefix(f, s)
    BY <1>2, <1>3, <1>5, <1>6, PrefixIs
  <1>8. QED
    BY <1>2, <1>3, <1>4, <1>7 DEF f, r

\* A frame that is called malformed is, however it goes on, or it stopped
\* within the name.
LEMMA ReadBad ==
    ASSUME NEW s \in Seq(Nat), NEW t \in Seq(Nat), IsPrefix(s, t), NEW ended \in BOOLEAN,
           ReadHelloRequest(s, ended).kind = "malformed"
    PROVE  /\ Len(s) >= 2 /\ Len(t) >= 2
           /\ \/ ReadHelloRequest(t, TRUE) = Malformed
              \/ ended /\ s[2] \in 1..MaxNameLen /\ s[1] = Version /\ Len(s) < 2 + s[2]
  <1> DEFINE name(u) == SubSeq(u, 3, 2 + u[2])
             bad(u) == u[1] # Version \/ u[2] \notin 1..MaxNameLen
  <1>1. Malformed.kind = "malformed" /\ Blocks.kind = "blocks"
    BY DEF Malformed, Blocks, Result
  <1>2. /\ Len(s) \in Nat /\ Len(t) \in Nat /\ Len(s) <= Len(t)
        /\ \A i \in 1..Len(s) : s[i] = t[i]
    BY PrefixIs
  <1>3. Len(s) >= 2
    BY <1>2, ReadCases
  <1>4. Len(t) >= 2 /\ s[1] = t[1] /\ s[2] = t[2] /\ s[2] \in Nat
    BY <1>2, <1>3
  <1>5. CASE bad(s)
    <2>1. bad(t)
      BY <1>4, <1>5
    <2>2. ReadHelloRequest(t, TRUE) = Malformed
      BY <1>4, <2>1, ReadCases
    <2>3. QED
      BY <1>3, <1>4, <2>2
  <1>6. CASE ~bad(s) /\ Len(s) < 2 + s[2]
    BY <1>1, <1>3, <1>4, <1>6, ReadCases
  <1>7. CASE ~bad(s) /\ Len(s) >= 2 + s[2]
    <2>1. ~ValidServiceName(name(s))
      <3>1. Result("ok", name(s), 2 + s[2]).kind = "ok"
        BY DEF Result
      <3>2. QED
        BY <1>3, <1>7, <3>1, ReadCases
    <2>2. /\ name(s) \in Seq(Nat) /\ name(t) \in Seq(Nat) /\ Len(name(s)) = Len(name(t))
          /\ \A i \in 1..Len(name(s)) : name(s)[i] = name(t)[i]
      <3>1. /\ 2 + s[2] \in Int /\ \A i \in 3..(2 + s[2]) : s[i] \in Nat /\ t[i] \in Nat /\ s[i] = t[i]
        <4>1. 2 + s[2] \in Int /\ \A i \in 3..(2 + s[2]) : i \in 1..Len(s) /\ i \in 1..Len(t)
          <5>1. Len(s) >= 2 + s[2]
            BY <1>7
          <5>2. 2 + s[2] \in Int /\ 2 + s[2] <= Len(s) /\ 2 + s[2] <= Len(t) /\ Len(s) \in Nat /\ Len(t) \in Nat
            BY <1>2, <1>4, <5>1, SMTT(60)
          <5>3. QED
            BY <5>2, Between
        <4>2. \A i \in 3..(2 + s[2]) : s[i] = t[i]
          BY <1>2, <4>1
        <4>3. QED
          BY <4>1, <4>2, ElementOfSeq
      <3>2. name(t) = SubSeq(t, 3, 2 + s[2])
        BY <1>4
      <3>3. /\ name(s) \in Seq(Nat) /\ Len(name(s)) = IF 3 <= 2 + s[2] THEN (2 + s[2]) - 3 + 1 ELSE 0
            /\ \A i \in 1..((2 + s[2]) - 3 + 1) : name(s)[i] = s[3 + i - 1]
        BY <3>1, SubSeqProperties
      <3>4. /\ name(t) \in Seq(Nat) /\ Len(name(t)) = IF 3 <= 2 + s[2] THEN (2 + s[2]) - 3 + 1 ELSE 0
            /\ \A i \in 1..((2 + s[2]) - 3 + 1) : name(t)[i] = t[3 + i - 1]
        <4>1. /\ SubSeq(t, 3, 2 + s[2]) \in Seq(Nat)
              /\ Len(SubSeq(t, 3, 2 + s[2])) = IF 3 <= 2 + s[2] THEN (2 + s[2]) - 3 + 1 ELSE 0
              /\ \A i \in 1..((2 + s[2]) - 3 + 1) : SubSeq(t, 3, 2 + s[2])[i] = t[3 + i - 1]
          BY <3>1, SubSeqProperties
        <4> HIDE DEF name
        <4>2. QED
          BY <3>2, <4>1
      <3>5. \A i \in 1..((2 + s[2]) - 3 + 1) : 3 + i - 1 \in 3..(2 + s[2])
        BY <1>4, SMTT(60)
      <3>6. \A i \in 1..((2 + s[2]) - 3 + 1) : name(s)[i] = name(t)[i]
        BY <3>1, <3>3, <3>4, <3>5
      <3> HIDE DEF name
      <3>7. Len(name(s)) = 0 \/ Len(name(s)) = (2 + s[2]) - 3 + 1
        BY <3>3
      <3>8. QED
        BY <1>4, <3>3, <3>4, <3>6, <3>7
    <2>3. name(s) = name(t)
      BY <2>2, SeqEqual
    <2>4. Len(t) >= 2 + t[2] /\ ~bad(t)
      BY <1>2, <1>4, <1>7
    <2>5. ReadHelloRequest(t, TRUE) = Malformed
      BY <1>4, <2>1, <2>3, <2>4, ReadCases
    <2>6. QED
      BY <1>3, <1>4, <2>5
  <1>8. bad(s) \/ (~bad(s) /\ Len(s) < 2 + s[2]) \/ (~bad(s) /\ Len(s) >= 2 + s[2])
    BY <1>2, <1>4
  <1>9. QED
    BY <1>5, <1>6, <1>7, <1>8

-----------------------------------------------------------------------------
(* The network.                                                            *)

LEMMA Wiring ==
    /\ Out["client"] = "up" /\ Out["server"] = "down" /\ Out["proxy"] = "bup" /\ Out["sink"] = "bdown"
    /\ In["client"] = "down" /\ In["server"] = "up" /\ In["proxy"] = "bdown" /\ In["sink"] = "bup"
    /\ Other["client"] = "server" /\ Other["server"] = "client"
    /\ Other["proxy"] = "sink" /\ Other["sink"] = "proxy"
    /\ Link["client"] = "client" /\ Link["server"] = "client"
    /\ Link["proxy"] = "proxy" /\ Link["sink"] = "proxy"
    /\ Streams = {"up", "down", "bup", "bdown"} /\ Links = {"client", "proxy"}
  BY DEF Out, In, Other, Link, Links, Streams, Ends

Flowing == stream \in [Streams -> Seq(Nat)]

\* A close tells the other end, or on a lost connection nobody.
LEMMA FinIs ==
    /\ Fin({"client"}) \subseteq {"up"} /\ Fin({"server"}) \subseteq {"down"}
    /\ Fin({"sink"}) \subseteq {"bdown"}
    /\ \A E \in SUBSET {"server", "proxy"} : Fin(E) \subseteq {"down", "bup"}
  BY Wiring DEF Fin

LEMMA ClientCloses ==
    ASSUME Flowing, CloseEnds({"client"})
    PROVE  /\ Flowing' /\ open' = open \ {"client"} /\ cut' = cut
           /\ eof \subseteq eof' /\ eof' \subseteq eof \cup {"up"}
           /\ stream'["up"] = stream["up"] /\ stream'["down"] = <<>>
           /\ stream'["bup"] = stream["bup"] /\ stream'["bdown"] = stream["bdown"]
  <1>1. /\ eof' = eof \cup Fin({"client"}) /\ open' = open \ {"client"} /\ cut' = cut
        /\ stream' = [s \in Streams |-> IF In["client"] = s THEN <<>> ELSE stream[s]]
    BY DEF CloseEnds
  <1>2. QED
    BY <1>1, FinIs, Wiring, EmptySeq DEF Flowing

LEMMA SinkCloses ==
    ASSUME Flowing, CloseEnds({"sink"})
    PROVE  /\ Flowing' /\ open' = open \ {"sink"} /\ cut' = cut
           /\ eof \subseteq eof' /\ eof' \subseteq eof \cup {"bdown"}
           /\ stream'["up"] = stream["up"] /\ stream'["down"] = stream["down"]
           /\ stream'["bup"] = <<>> /\ stream'["bdown"] = stream["bdown"]
  <1>1. /\ eof' = eof \cup Fin({"sink"}) /\ open' = open \ {"sink"} /\ cut' = cut
        /\ stream' = [s \in Streams |-> IF In["sink"] = s THEN <<>> ELSE stream[s]]
    BY DEF CloseEnds
  <1>2. QED
    BY <1>1, FinIs, Wiring, EmptySeq DEF Flowing

LEMMA HandlerReturns ==
    ASSUME Flowing, Returns
    PROVE  /\ srv' = "done" /\ Flowing' /\ open' = open \ {"server", "proxy"} /\ cut' = cut
           /\ eof \subseteq eof' /\ eof' \subseteq eof \cup {"down", "bup"}
           /\ stream'["down"] = stream["down"] /\ stream'["bup"] = stream["bup"]
           /\ stream'["bdown"] \in {stream["bdown"], <<>>}
  <1> DEFINE E == {"server", "proxy"} \cap open
  <1>1. /\ srv' = "done" /\ open' = open \ E /\ eof' = eof \cup Fin(E) /\ cut' = cut
        /\ stream' = [s \in Streams |-> IF \E e \in E : In[e] = s THEN <<>> ELSE stream[s]]
    BY DEF Returns, CloseEnds
  <1>2. Fin(E) \subseteq {"down", "bup"} /\ \A e \in E : In[e] \in {"up", "bdown"}
    BY FinIs, Wiring
  <1>3. open \ E = open \ {"server", "proxy"}
    OBVIOUS
  <1> HIDE DEF E
  <1>4. Flowing'
    BY <1>1, EmptySeq DEF Flowing
  <1>5. QED
    BY <1>1, <1>2, <1>3, <1>4, Wiring

LEMMA Delivers ==
    ASSUME Flowing, NEW e \in Ends, NEW bytes \in Seq(Nat)
    PROVE  /\ Delivered(e, bytes) \in [Streams -> Seq(Nat)]
           /\ \A s \in Streams \ {Out[e]} : Delivered(e, bytes)[s] = stream[s]
           /\ Delivered(e, bytes)[Out[e]] =
                 IF Reachable(e) THEN stream[Out[e]] \o bytes ELSE stream[Out[e]]
  <1>1. Out[e] \in Streams
    BY DEF Streams
  <1>2. stream[Out[e]] \in Seq(Nat) /\ stream[Out[e]] \o bytes \in Seq(Nat)
    BY <1>1 DEF Flowing
  <1>3. QED
    BY <1>1, <1>2 DEF Delivered, Flowing

LEMMA ResponseBytes ==
    ASSUME NEW status \in Nat
    PROVE  /\ HelloResponse(status) \in Seq(Nat) /\ Len(HelloResponse(status)) = 2
           /\ HelloResponse(status)[2] = status
  BY DEF HelloResponse, Version

LEMMA HandlerRefuses ==
    ASSUME Flowing, NEW status \in Nat, Refuse(status)
    PROVE  /\ srv' = "done" /\ sent' = status /\ Flowing'
           /\ open' = open \ {"server", "proxy"} /\ cut' = cut
           /\ eof \subseteq eof' /\ eof' \subseteq eof \cup {"down"}
           /\ stream'["up"] = <<>> /\ stream'["bup"] = stream["bup"] /\ stream'["bdown"] = stream["bdown"]
           /\ stream'["down"] = IF Reachable("server") THEN stream["down"] \o HelloResponse(status)
                                ELSE stream["down"]
  <1> DEFINE d == Delivered("server", HelloResponse(status))
  <1>1. /\ srv' = "done" /\ sent' = status /\ open' = open \ {"server", "proxy"} /\ cut' = cut
        /\ eof' = eof \cup Fin({"server"}) /\ stream' = [d EXCEPT !["up"] = <<>>]
    BY DEF Refuse
  <1>2. /\ d \in [Streams -> Seq(Nat)]
        /\ \A s \in Streams \ {"down"} : d[s] = stream[s]
        /\ d["down"] = IF Reachable("server") THEN stream["down"] \o HelloResponse(status)
                       ELSE stream["down"]
    <2>1. "server" \in Ends /\ Out["server"] = "down" /\ HelloResponse(status) \in Seq(Nat)
      BY ResponseBytes, Wiring DEF Ends
    <2>2. QED
      BY <2>1, Delivers
  <1> HIDE DEF d
  <1>3. QED
    BY <1>1, <1>2, FinIs, Wiring, EmptySeq DEF Flowing

LEMMA CutLeaves ==
    ASSUME Flowing, NEW e \in {"client", "proxy"}, Cut(e)
    PROVE  /\ Flowing' /\ cut' = cut \cup {e} /\ open' = open /\ eof' = eof
           /\ \A s \in Streams \ {Out[e], In[e]} : stream'[s] = stream[s]
           /\ \A s \in {Out[e], In[e]} : \E n \in 0..Len(stream[s]) : stream'[s] = SubSeq(stream[s], 1, n)
  <1>1. PICK n \in 0..Len(stream[Out[e]]), m \in 0..Len(stream[In[e]]) :
           stream' = [stream EXCEPT ![Out[e]] = SubSeq(@, 1, n), ![In[e]] = SubSeq(@, 1, m)]
    BY DEF Cut
  <1>2. Out[e] \in Streams /\ In[e] \in Streams /\ Out[e] # In[e]
    BY Wiring
  <1>3. stream[Out[e]] \in Seq(Nat) /\ stream[In[e]] \in Seq(Nat)
    BY <1>2 DEF Flowing
  <1>4. SubSeq(stream[Out[e]], 1, n) \in Seq(Nat) /\ SubSeq(stream[In[e]], 1, m) \in Seq(Nat)
    BY <1>3, CutIsPrefix
  <1>5. /\ stream'[Out[e]] = SubSeq(stream[Out[e]], 1, n) /\ stream'[In[e]] = SubSeq(stream[In[e]], 1, m)
        /\ Flowing' /\ \A s \in Streams \ {Out[e], In[e]} : stream'[s] = stream[s]
    BY <1>1, <1>2, <1>4 DEF Flowing
  <1>6. cut' = cut \cup {e} /\ open' = open /\ eof' = eof
    BY Wiring DEF Cut
  <1>7. QED
    BY <1>1, <1>5, <1>6

-----------------------------------------------------------------------------
(* What the peer's program has to say.                                     *)

LEMMA JobBytes ==
    ASSUME job \in Jobs
    PROVE  /\ job.kind \in {"send", "raw"} /\ job.service \in Seq(Nat) /\ job.bytes \in Seq(Nat)
           /\ Frame \in Seq(Nat) /\ Payload \in Seq(Nat) /\ AtOnce \in Seq(Nat)
           /\ Frame \o Payload \in Seq(Nat) /\ IsPrefix(AtOnce, Frame \o Payload)
           /\ job.kind = "raw" => AtOnce = Frame \o Payload /\ AtOnce = Payload
           /\ job.kind = "send" => AtOnce = Frame /\ Frame = HelloRequest(job.service)
  <1>1. job.kind \in {"send", "raw"} /\ job.service \in Seq(Nat) /\ job.bytes \in Seq(Nat)
    BY JobsAssumption
  <1>2. <<>> \in Seq(Nat) /\ HelloRequest(job.service) \in Seq(Nat) /\ Append(job.bytes, Newline) \in Seq(Nat)
    BY <1>1, RequestBytes, EmptySeq, AppendProperties DEF Newline
  <1>3. Frame \in Seq(Nat) /\ Payload \in Seq(Nat) /\ AtOnce \in Seq(Nat)
    BY <1>1, <1>2 DEF Frame, Payload, AtOnce
  <1>4. job.kind = "raw" => AtOnce = Frame \o Payload /\ AtOnce = Payload
    BY <1>3, ConcatEmptySeq DEF AtOnce, Frame
  <1>5. job.kind = "send" => AtOnce = Frame /\ Frame = HelloRequest(job.service)
    BY DEF AtOnce, Frame
  <1>6. Frame \o Payload \in Seq(Nat)
    BY <1>3
  <1>7. IsPrefix(AtOnce, Frame \o Payload)
    BY <1>1, <1>3, <1>4, <1>5, <1>6, PrefixSelf, PrefixOfLonger
  <1>8. QED
    BY <1>1, <1>3, <1>4, <1>5, <1>6, <1>7

LEMMA JobStays ==
    ASSUME job' = job
    PROVE  Frame' = Frame /\ Payload' = Payload /\ AtOnce' = AtOnce
  BY DEF Frame, Payload, AtOnce

\* A service that the handler has read off a sender's frame is the one the
\* sender asked for.
LEMMA NameIsAsked ==
    ASSUME job \in Jobs, job.kind = "send", NEW name \in Seq(Nat),
           IsPrefix(HelloRequest(name), Frame \o Payload)
    PROVE  name = job.service
  <1> DEFINE f == HelloRequest(name)
             g == HelloRequest(job.service)
             all == Frame \o Payload
  <1>1. /\ job.service \in Seq(Nat) /\ all \in Seq(Nat) /\ g \in Seq(Nat) /\ IsPrefix(g, all)
    BY JobBytes
  <1>2. /\ f \in Seq(Nat) /\ Len(f) = 2 + Len(name) /\ f[2] = Len(name)
        /\ \A i \in 1..Len(name) : f[2 + i] = name[i]
    BY RequestBytes
  <1>3. /\ Len(g) = 2 + Len(job.service) /\ g[2] = Len(job.service)
        /\ \A i \in 1..Len(job.service) : g[2 + i] = job.service[i]
    BY <1>1, RequestBytes
  <1> HIDE DEF f, g, all
  <1>4. /\ Len(f) <= Len(all) /\ \A i \in 1..Len(f) : f[i] = all[i]
        /\ Len(g) <= Len(all) /\ \A i \in 1..Len(g) : g[i] = all[i]
    <2>1. IsPrefix(f, all)
      BY DEF f, all
    <2>2. QED
      BY <1>1, <1>2, <2>1, PrefixIs
  <1>5. 2 \in 1..Len(f) /\ 2 \in 1..Len(g)
    BY <1>1, <1>2, <1>3
  <1>6. Len(name) = Len(job.service)
    BY <1>2, <1>3, <1>4, <1>5
  <1>7. ASSUME NEW i \in 1..Len(name) PROVE name[i] = job.service[i]
    <2>1. 2 + i \in 1..Len(f) /\ 2 + i \in 1..Len(g)
      BY <1>2, <1>3, <1>6
    <2>2. QED
      BY <1>2, <1>3, <1>4, <1>6, <2>1
  <1>8. QED
    BY <1>1, <1>6, <1>7, SeqEqual

-----------------------------------------------------------------------------
(* Every step preserves the invariant.                                     *)

LEMMA Known ==
    ASSUME SessionInv
    PROVE  /\ Flowing /\ job \in Jobs /\ service \in Seq(Nat) /\ handled \in Seq(Seq(Nat))
           /\ sent \in Statuses \cup {Running}
           /\ \A s \in {"up", "down", "bup", "bdown"} : stream[s] \in Seq(Nat) /\ Len(stream[s]) \in Nat
           /\ Frame \in Seq(Nat) /\ Payload \in Seq(Nat) /\ AtOnce \in Seq(Nat)
           /\ job.kind \in {"send", "raw"} /\ Len(<<>>) = 0
  <1>1. /\ Flowing /\ job \in Jobs /\ service \in Seq(Nat) /\ handled \in Seq(Seq(Nat))
        /\ sent \in Statuses \cup {Running}
    BY DEF SessionInv, TypeOK, Flowing
  <1>2. \A s \in {"up", "down", "bup", "bdown"} : stream[s] \in Seq(Nat) /\ Len(stream[s]) \in Nat
    BY <1>1, Wiring DEF Flowing
  <1>3. QED
    BY <1>1, <1>2, JobBytes

LEMMA SinkStays == SinkTypeOK /\ UNCHANGED sinkVars => SinkTypeOK'
  BY DEF SinkTypeOK, sinkVars

LEMMA SinkMoves ==
    ASSUME SinkTypeOK,
           \/ SinkStep \/ SinkSignal
           \/ \E c \in {Proxied, Direct} : SinkDialled(c) \/ SinkConnEnds(c)
    PROVE  SinkTypeOK'
  <1>1. CASE SinkStep
    BY <1>1 DEF SinkTypeOK, SinkStep, WatchCloses, WatchTold, SinkAcceptFails, SinkReturns, SinkExit, SinkAccept
  <1>2. CASE SinkSignal
    BY <1>2 DEF SinkTypeOK, SinkSignal
  <1>3. CASE \E c \in {Proxied, Direct} : SinkDialled(c) \/ SinkConnEnds(c)
    BY <1>3, SinkConnsAssumption DEF SinkTypeOK, SinkDialled, SinkConnEnds
  <1>4. QED
    BY <1>1, <1>2, <1>3

\* What a program's exit comes to, a handler's return, its refusal, and the
\* end of the sink's connection.
ProgramEnds ==
    /\ client \in {"response", "ack", "linger"} /\ client' = "done"
    /\ CloseEnds({"client"}) /\ exit' \in {0, 1, 10, 11, 12}
    /\ job.kind = "send" =>
        /\ exit' = 0 => sent = StatusOK /\ handled # <<>>
        /\ exit' = 10 => sent = StatusDenied
        /\ exit' = 11 => sent = StatusBackendUnavailable
        /\ exit' = 12 => sent = StatusRateLimited
    /\ UNCHANGED <<sinkVars, job, srvVars, msgVars>>

HandlerEnds ==
    /\ srv \notin {"none", "done"} /\ Returns
    /\ expired' \in BOOLEAN /\ (expired' = expired \/ srv = "hello")
    /\ UNCHANGED <<sinkVars, peerVars, service, sent, msgVars>>

JudgedMalformed ==
    /\ Len(Frame \o Payload) >= 2
    /\ ~expired' => "client" \in cut \/ ReadHelloRequest(Frame \o Payload, TRUE) = Malformed

HandlerAnswers(status) ==
    /\ srv \in {"admit", "hello", "policy", "dial"} /\ Refuse(status) /\ status \in 1..4
    /\ status = StatusDenied => srv = "policy" /\ service \notin Granted
    /\ status = StatusBackendUnavailable => srv = "dial"
    /\ status = StatusMalformed => srv = "hello" /\ JudgedMalformed
    /\ expired' \in BOOLEAN /\ (expired' = expired \/ srv = "hello")
    /\ UNCHANGED <<sinkVars, peerVars, service, msgVars>>

SinkEnds ==
    /\ CloseEnds({"sink"}) /\ sinkPC' \in {sinkPC, "read"} /\ SinkTypeOK'
    /\ UNCHANGED <<peerVars, srvVars, handled>>

AckWritten ==
    /\ sinkPC = "ack" /\ sinkPC' = "read" /\ stream' = Delivered("sink", <<Letter, Newline>>)
    /\ UNCHANGED <<sinkVars, peerVars, srvVars, handled, open, eof, cut>>

SinkElsewhere ==
    SinkTypeOK' /\ UNCHANGED <<peerVars, srvVars, msgVars, netVars>>

\* What a half that is closed, and a loss that is noticed, come to.
Noticed ==
    /\ eof \subseteq eof' /\ eof' \subseteq Streams
    /\ UNCHANGED <<sinkVars, peerVars, srvVars, msgVars, open, stream, cut>>

\* The steps of the handler that go on.
Admitted ==
    srv = "admit" /\ srv' = "hello" /\ UNCHANGED <<sinkVars, peerVars, service, sent, expired, msgVars, netVars>>
FrameTaken ==
    /\ srv = "hello" /\ srv' = "policy" /\ expired' \in BOOLEAN
    /\ service' \in Seq(Nat) /\ ValidServiceName(service')
    /\ IsPrefix(HelloRequest(service'), Frame \o Payload)
    /\ Flowing' /\ (job.kind = "send" => stream'["up"] = <<>>) /\ IsPrefix(stream'["up"], BehindHello')
    /\ stream'["down"] = stream["down"] /\ stream'["bup"] = stream["bup"] /\ stream'["bdown"] = stream["bdown"]
    /\ UNCHANGED <<sinkVars, peerVars, sent, msgVars, open, eof, cut>>
GrantedOn ==
    /\ srv = "policy" /\ srv' = "dial" /\ service \in Granted
    /\ UNCHANGED <<sinkVars, peerVars, service, sent, expired, msgVars, netVars>>
Dialled ==
    /\ srv = "dial" /\ srv' = "recheck" /\ SinkDialled(Proxied) /\ open' = open \cup {"proxy", "sink"}
    /\ UNCHANGED <<peerVars, service, sent, expired, msgVars, stream, eof, cut>>
Responded ==
    /\ srv = "recheck" /\ srv' = "pipe" /\ sent' = StatusOK
    /\ stream' = Delivered("server", HelloResponse(StatusOK))
    /\ UNCHANGED <<sinkVars, peerVars, service, expired, msgVars, open, eof, cut>>

\* The sender goes on.
SenderGoesOn ==
    /\ client = "response" /\ client' = "ack" /\ sent = StatusOK
    /\ Flowing' /\ (stream'["down"] # <<>> => handled # <<>>)
    /\ stream'["up"] \in {stream["up"], stream["up"] \o Payload}
    /\ stream'["bup"] = stream["bup"] /\ stream'["bdown"] = stream["bdown"]
    /\ UNCHANGED <<sinkVars, job, exit, srvVars, msgVars, open, eof, cut>>

\* NewClient or Dial fails, before anything is sent.
LEMMA DialFailsStep ==
    ASSUME SessionInv, DialFails
    PROVE  SessionInv'
  <1>1. job' = job /\ Frame' = Frame /\ Payload' = Payload /\ AtOnce' = AtOnce
    BY JobStays DEF DialFails, peerVars
  <1>2. /\ client = "dial" /\ client' = "done" /\ srv' = srv /\ exit' \in {1, 13, 14}
        /\ exit' = 14 => ~ValidServiceName(job.service)
        /\ service' = service /\ sent' = sent /\ expired' = expired
        /\ sinkPC' = sinkPC /\ handled' = handled
        /\ SinkTypeOK'
        /\ stream' = stream /\ eof' = eof /\ open' = open /\ cut' = cut
    BY SinkStays DEF SessionInv, TypeOK, DialFails, srvVars, msgVars, netVars
  <1>3. TypeOK'
    BY <1>1, <1>2, Wiring DEF SessionInv, TypeOK, Flowing, Ends, Statuses, Running
  <1>4. PeerInv'
    BY <1>1, <1>2, Known DEF SessionInv, PeerInv
  <1>5. FrameInv'
    BY <1>1, <1>2, Known DEF SessionInv, FrameInv, FrameJudged
  <1>6. AnswerInv'
    BY <1>1, <1>2, Known DEF SessionInv, AnswerInv
  <1>7. DownInv'
    BY <1>1, <1>2, Known DEF SessionInv, DownInv
  <1>8. PayloadInv'
    BY <1>1, <1>2, Known, Wiring DEF SessionInv, PayloadInv, Reachable
  <1>9. ExitInv'
    BY <1>1, <1>2, Known DEF SessionInv, ExitInv, PeerInv
  <1>10. QED
    BY <1>3, <1>4, <1>5, <1>6, <1>7, <1>8, <1>9 DEF SessionInv

\* The peer has connected, and has written its hello or all it has to say.
LEMMA DialStep ==
    ASSUME SessionInv, Dial
    PROVE  SessionInv'
  <1>1. job' = job /\ Frame' = Frame /\ Payload' = Payload /\ AtOnce' = AtOnce
    BY JobStays DEF Dial, peerVars
  <1>2. /\ client = "dial" /\ client' \in {"response", "linger"} /\ srv' = "admit" /\ exit' = exit
        /\ job.kind = "send" => ValidServiceName(job.service) /\ client' = "response"
        /\ job.kind = "raw" => client' = "linger"
        /\ open' = open \cup {"client", "server"} /\ eof' = eof /\ cut' = cut
        /\ Flowing' /\ stream'["up"] = AtOnce
        /\ stream'["down"] = stream["down"] /\ stream'["bup"] = stream["bup"] /\ stream'["bdown"] = stream["bdown"]
        /\ service' = service /\ sent' = sent /\ expired' = expired
        /\ sinkPC' = sinkPC /\ handled' = handled
        /\ SinkTypeOK'
    <2>1. stream' = [stream EXCEPT !["up"] = AtOnce]
      BY Known DEF Dial, AtOnce
    <2>2. /\ Flowing' /\ stream'["up"] = AtOnce /\ stream'["down"] = stream["down"]
          /\ stream'["bup"] = stream["bup"] /\ stream'["bdown"] = stream["bdown"]
      BY <2>1, Known, Wiring DEF Flowing
    <2>3. QED
      BY <2>2, Known, SinkStays DEF SessionInv, TypeOK, Dial, srvVars, msgVars
  <1>3. TypeOK'
    BY <1>1, <1>2, Wiring DEF SessionInv, TypeOK, Flowing, Ends, Statuses, Running
  <1>4. PeerInv'
    BY <1>1, <1>2, Known DEF SessionInv, PeerInv
  <1>5. FrameInv'
    BY <1>1, <1>2, Known, PrefixSelf DEF SessionInv, FrameInv, FrameJudged
  <1>6. AnswerInv'
    BY <1>1, <1>2, Known DEF SessionInv, AnswerInv, PeerInv
  <1>7. DownInv'
    <2>1. sent = Running /\ stream["down"] = <<>> /\ stream["bdown"] = <<>> /\ sinkPC = "read"
      BY <1>2 DEF SessionInv, AnswerInv, PeerInv
    <2>2. Len(stream'["down"]) = 0
      BY <1>2, <2>1
    <2>3. QED
      BY <1>2, <2>1, <2>2 DEF DownInv
  <1>8. PayloadInv'
    BY <1>1, <1>2, Known, Wiring DEF SessionInv, PayloadInv, Reachable, PeerInv
  <1>9. ExitInv'
    BY <1>1, <1>2, Known DEF SessionInv, ExitInv, PeerInv
  <1>10. QED
    BY <1>3, <1>4, <1>5, <1>6, <1>7, <1>8, <1>9 DEF SessionInv

\* The program exits, and with it goes its end of the connection.
LEMMA ProgramEndsStep ==
    ASSUME SessionInv, ProgramEnds
    PROVE  SessionInv'
  <1>1. job' = job /\ Frame' = Frame /\ Payload' = Payload /\ AtOnce' = AtOnce
    BY JobStays DEF ProgramEnds, peerVars
  <1>2. /\ client \in {"response", "ack", "linger"} /\ client' = "done" /\ srv' = srv /\ exit' \in {0, 1, 10, 11, 12}
        /\ open' = open \ {"client"} /\ cut' = cut
        /\ eof \subseteq eof' /\ eof' \subseteq eof \cup {"up"}
        /\ Flowing' /\ stream'["down"] = <<>>
        /\ stream'["up"] = stream["up"] /\ stream'["bup"] = stream["bup"] /\ stream'["bdown"] = stream["bdown"]
        /\ service' = service /\ sent' = sent /\ expired' = expired
        /\ sinkPC' = sinkPC /\ handled' = handled
        /\ SinkTypeOK'
    BY Known, ClientCloses, SinkStays DEF SessionInv, TypeOK, ProgramEnds, srvVars, msgVars
  <1>3. TypeOK'
    BY <1>1, <1>2, Wiring DEF SessionInv, TypeOK, Flowing, Ends, Statuses, Running
  <1>4. PeerInv'
    BY <1>1, <1>2, Known DEF SessionInv, PeerInv
  <1>5. FrameInv'
    BY <1>1, <1>2, Known DEF SessionInv, FrameInv, FrameJudged
  <1>6. AnswerInv'
    BY <1>1, <1>2, Known DEF SessionInv, AnswerInv
  <1>7. DownInv'
    BY <1>1, <1>2, Known DEF SessionInv, DownInv
  <1>8. PayloadInv'
    BY <1>1, <1>2, Known, Wiring DEF SessionInv, PayloadInv, Reachable
  <1>9. ExitInv'
    BY <1>1, <1>2, Known DEF SessionInv, ExitInv, PeerInv, ProgramEnds
  <1>10. QED
    BY <1>3, <1>4, <1>5, <1>6, <1>7, <1>8, <1>9 DEF SessionInv

\* The handler returns without an answer, or from the pipe.
LEMMA HandlerEndsStep ==
    ASSUME SessionInv, HandlerEnds
    PROVE  SessionInv'
  <1>1. job' = job /\ Frame' = Frame /\ Payload' = Payload /\ AtOnce' = AtOnce
    BY JobStays DEF HandlerEnds, peerVars
  <1>2. /\ srv \notin {"none", "done"} /\ srv' = "done" /\ open' = open \ {"server", "proxy"} /\ cut' = cut
        /\ eof \subseteq eof' /\ eof' \subseteq eof \cup {"down", "bup"}
        /\ Flowing' /\ stream'["down"] = stream["down"] /\ stream'["bup"] = stream["bup"]
        /\ stream'["bdown"] \in {stream["bdown"], <<>>} /\ service' = service /\ sent' = sent
        /\ expired' \in BOOLEAN /\ (expired' = expired \/ srv = "hello")
        /\ client' = client /\ exit' = exit
        /\ sinkPC' = sinkPC /\ handled' = handled
        /\ SinkTypeOK'
    BY Known, HandlerReturns, SinkStays DEF SessionInv, TypeOK, HandlerEnds, peerVars, msgVars
  <1>3. TypeOK'
    BY <1>1, <1>2, Wiring DEF SessionInv, TypeOK, Flowing, Ends, Statuses, Running
  <1>4. PeerInv'
    BY <1>1, <1>2, Known DEF SessionInv, PeerInv
  <1>5. FrameInv'
    <2>1. CASE expired' = expired
      BY <2>1, <1>1, <1>2 DEF SessionInv, FrameInv, FrameJudged
    <2>2. CASE srv = "hello"
      BY <2>2, <1>1, <1>2 DEF SessionInv, FrameInv, FrameJudged, AnswerInv, StatusMalformed, Running
    <2>3. QED
      BY <2>1, <2>2, <1>2
  <1>6. AnswerInv'
    BY <1>1, <1>2, Known DEF SessionInv, AnswerInv
  <1>7. DownInv'
    BY <1>1, <1>2, Known DEF SessionInv, DownInv
  <1>8. PayloadInv'
    BY <1>1, <1>2, Known, Wiring DEF SessionInv, PayloadInv, Reachable
  <1>9. ExitInv'
    BY <1>1, <1>2, Known DEF SessionInv, ExitInv
  <1>10. QED
    BY <1>3, <1>4, <1>5, <1>6, <1>7, <1>8, <1>9 DEF SessionInv

\* The handler answers with a status other than OK, and returns.
LEMMA HandlerAnswersStep ==
    ASSUME SessionInv, NEW status, HandlerAnswers(status)
    PROVE  SessionInv'
  <1>1. job' = job /\ Frame' = Frame /\ Payload' = Payload /\ AtOnce' = AtOnce
    BY JobStays DEF HandlerAnswers, peerVars
  <1>2. /\ srv \in {"admit", "hello", "policy", "dial"} /\ srv' = "done" /\ sent = Running /\ sent' = status
        /\ open' = open \ {"server", "proxy"} /\ cut' = cut
        /\ eof \subseteq eof' /\ eof' \subseteq eof \cup {"down"}
        /\ Flowing' /\ stream'["up"] = <<>> /\ stream'["bup"] = <<>> /\ stream'["bdown"] = <<>>
        /\ stream'["down"] = <<>> \/ (Len(stream'["down"]) = 2 /\ stream'["down"][2] = status)
        /\ service' = service /\ expired' \in BOOLEAN /\ handled = <<>> /\ sinkPC = "read"
        /\ client' = client /\ exit' = exit
        /\ sinkPC' = sinkPC /\ handled' = handled
        /\ SinkTypeOK'
    <2>1. sent = Running /\ handled = <<>> /\ sinkPC = "read" /\ \A s \in {"down", "bup", "bdown"} : stream[s] = <<>>
      BY DEF SessionInv, AnswerInv, HandlerAnswers
    <2>2. status \in Nat
      BY DEF HandlerAnswers
    <2>3. /\ HelloResponse(status) \in Seq(Nat) /\ Len(HelloResponse(status)) = 2
          /\ HelloResponse(status)[2] = status
      BY <2>2, ResponseBytes
    <2>4. stream["down"] \o HelloResponse(status) = HelloResponse(status)
      BY <2>1, <2>3, ConcatEmptySeq
    <2>5. QED
      BY <2>1, <2>2, <2>3, <2>4, Known, HandlerRefuses, SinkStays
      DEF SessionInv, TypeOK, HandlerAnswers, peerVars, msgVars
  <1>3. TypeOK'
    BY <1>1, <1>2, Wiring DEF SessionInv, TypeOK, Flowing, Ends, Statuses, Running, HandlerAnswers
  <1>4. PeerInv'
    BY <1>1, <1>2, Known DEF SessionInv, PeerInv
  <1>5. FrameInv'
    <2>1. sent' \in {StatusOK, StatusDenied, StatusBackendUnavailable} =>
             ValidServiceName(service) /\ IsPrefix(HelloRequest(service), Frame \o Payload)
      BY <1>2 DEF SessionInv, FrameInv, HandlerAnswers, StatusOK, StatusDenied, StatusBackendUnavailable
    <2>2. sent' = StatusMalformed => JudgedMalformed
      BY <1>2 DEF HandlerAnswers
    <2>3. QED
      BY <1>1, <1>2, <2>1, <2>2 DEF FrameInv, FrameJudged, JudgedMalformed
  <1>6. AnswerInv'
    BY <1>1, <1>2, Known DEF SessionInv, AnswerInv, HandlerAnswers, StatusDenied, StatusBackendUnavailable, Running
  <1>7. DownInv'
    <2>1. client # "ack"
      BY <1>2 DEF SessionInv, DownInv, Running, StatusOK
    <2>2. Len(stream'["down"]) = 0 \/ (Len(stream'["down"]) = 2 /\ stream'["down"][2] = status)
      BY <1>2
    <2>3. CASE Len(stream'["down"]) = 0
      BY <1>2, <2>1, <2>3 DEF DownInv
    <2>4. CASE Len(stream'["down"]) = 2 /\ stream'["down"][2] = status
      BY <1>2, <2>1, <2>4 DEF DownInv
    <2>5. QED
      BY <2>2, <2>3, <2>4
  <1>8. PayloadInv'
    BY <1>1, <1>2, Known, Wiring, PrefixSelf DEF SessionInv, PayloadInv, Reachable
  <1>9. ExitInv'
    <2>1. exit = 0 \/ exit = 10 \/ exit = 11 \/ exit = 12 \/ exit = 14 => job.kind # "send"
      BY <1>2 DEF SessionInv, ExitInv, Running, StatusOK, StatusDenied, StatusBackendUnavailable, StatusRateLimited, HandlerAnswers
    <2>2. QED
      BY <1>1, <1>2, <2>1 DEF ExitInv
  <1>10. QED
    BY <1>3, <1>4, <1>5, <1>6, <1>7, <1>8, <1>9 DEF SessionInv

\* The connection to the sink ends, from the side of the sink.
LEMMA SinkEndsStep ==
    ASSUME SessionInv, SinkEnds
    PROVE  SessionInv'
  <1>1. job' = job /\ Frame' = Frame /\ Payload' = Payload /\ AtOnce' = AtOnce
    BY JobStays DEF SinkEnds, peerVars
  <1>2. /\ client' = client /\ exit' = exit /\ srv' = srv /\ handled' = handled /\ sinkPC' \in {sinkPC, "read"}
        /\ open' = open \ {"sink"} /\ cut' = cut
        /\ eof \subseteq eof' /\ eof' \subseteq eof \cup {"bdown"}
        /\ Flowing' /\ stream'["bup"] = <<>>
        /\ stream'["up"] = stream["up"] /\ stream'["down"] = stream["down"] /\ stream'["bdown"] = stream["bdown"]
        /\ service' = service /\ sent' = sent /\ expired' = expired
        /\ SinkTypeOK'
    BY Known, SinkCloses DEF SinkEnds, peerVars, srvVars
  <1>3. TypeOK'
    BY <1>1, <1>2, Wiring DEF SessionInv, TypeOK, Flowing, Ends, Statuses, Running
  <1>4. PeerInv'
    BY <1>1, <1>2, Known DEF SessionInv, PeerInv
  <1>5. FrameInv'
    BY <1>1, <1>2, Known DEF SessionInv, FrameInv, FrameJudged
  <1>6. AnswerInv'
    BY <1>1, <1>2, Known DEF SessionInv, AnswerInv
  <1>7. DownInv'
    BY <1>1, <1>2, Known DEF SessionInv, DownInv
  <1>8. PayloadInv'
    BY <1>1, <1>2, Known, Wiring, PrefixSelf DEF SessionInv, PayloadInv, Reachable
  <1>9. ExitInv'
    BY <1>1, <1>2, Known DEF SessionInv, ExitInv
  <1>10. QED
    BY <1>3, <1>4, <1>5, <1>6, <1>7, <1>8, <1>9 DEF SessionInv

\* A reader learns that no more bytes will come.
LEMMA NoticedStep ==
    ASSUME SessionInv, Noticed
    PROVE  SessionInv'
  <1>1. job' = job /\ Frame' = Frame /\ Payload' = Payload /\ AtOnce' = AtOnce
    BY JobStays DEF Noticed, peerVars
  <1>2. /\ client' = client /\ exit' = exit /\ srv' = srv
        /\ stream' = stream /\ eof \subseteq eof' /\ eof' \subseteq Streams /\ open' = open /\ cut' = cut
        /\ service' = service /\ sent' = sent /\ expired' = expired
        /\ sinkPC' = sinkPC /\ handled' = handled
        /\ SinkTypeOK'
    BY SinkStays DEF SessionInv, TypeOK, Noticed, peerVars, srvVars, msgVars
  <1>3. TypeOK'
    BY <1>1, <1>2, Wiring DEF SessionInv, TypeOK, Flowing, Ends, Statuses, Running
  <1>4. PeerInv'
    BY <1>1, <1>2, Known DEF SessionInv, PeerInv
  <1>5. FrameInv'
    BY <1>1, <1>2, Known DEF SessionInv, FrameInv, FrameJudged
  <1>6. AnswerInv'
    BY <1>1, <1>2, Known DEF SessionInv, AnswerInv
  <1>7. DownInv'
    BY <1>1, <1>2, Known DEF SessionInv, DownInv
  <1>8. PayloadInv'
    BY <1>1, <1>2, Known, Wiring DEF SessionInv, PayloadInv, Reachable
  <1>9. ExitInv'
    BY <1>1, <1>2, Known DEF SessionInv, ExitInv
  <1>10. QED
    BY <1>3, <1>4, <1>5, <1>6, <1>7, <1>8, <1>9 DEF SessionInv

\* A step of the sink that leaves this connection alone.
LEMMA SinkElsewhereStep ==
    ASSUME SessionInv, SinkElsewhere
    PROVE  SessionInv'
  <1>1. job' = job /\ Frame' = Frame /\ Payload' = Payload /\ AtOnce' = AtOnce
    BY JobStays DEF SinkElsewhere, peerVars
  <1>2. /\ client' = client /\ exit' = exit /\ srv' = srv
        /\ stream' = stream /\ eof' = eof /\ open' = open /\ cut' = cut
        /\ service' = service /\ sent' = sent /\ expired' = expired
        /\ sinkPC' = sinkPC /\ handled' = handled
        /\ SinkTypeOK'
    BY DEF SinkElsewhere, peerVars, srvVars, msgVars, netVars
  <1>3. TypeOK'
    BY <1>1, <1>2, Wiring DEF SessionInv, TypeOK, Flowing, Ends, Statuses, Running
  <1>4. PeerInv'
    BY <1>1, <1>2, Known DEF SessionInv, PeerInv
  <1>5. FrameInv'
    BY <1>1, <1>2, Known DEF SessionInv, FrameInv, FrameJudged
  <1>6. AnswerInv'
    BY <1>1, <1>2, Known DEF SessionInv, AnswerInv
  <1>7. DownInv'
    BY <1>1, <1>2, Known DEF SessionInv, DownInv
  <1>8. PayloadInv'
    BY <1>1, <1>2, Known, Wiring DEF SessionInv, PayloadInv, Reachable
  <1>9. ExitInv'
    BY <1>1, <1>2, Known DEF SessionInv, ExitInv
  <1>10. QED
    BY <1>3, <1>4, <1>5, <1>6, <1>7, <1>8, <1>9 DEF SessionInv

\* The handler goes on to the hello.
LEMMA AdmittedStep ==
    ASSUME SessionInv, Admitted
    PROVE  SessionInv'
  <1>1. job' = job /\ Frame' = Frame /\ Payload' = Payload /\ AtOnce' = AtOnce
    BY JobStays DEF Admitted, peerVars
  <1>2. /\ client' = client /\ exit' = exit /\ srv = "admit" /\ srv' = "hello"
        /\ stream' = stream /\ eof' = eof /\ open' = open /\ cut' = cut
        /\ service' = service /\ sent' = sent /\ expired' = expired
        /\ sinkPC' = sinkPC /\ handled' = handled
        /\ SinkTypeOK'
    BY SinkStays DEF SessionInv, TypeOK, Admitted, peerVars, msgVars, sinkVars, netVars
  <1>3. TypeOK'
    BY <1>1, <1>2, Wiring DEF SessionInv, TypeOK, Flowing, Ends, Statuses, Running
  <1>4. PeerInv'
    BY <1>1, <1>2, Known DEF SessionInv, PeerInv
  <1>5. FrameInv'
    BY <1>1, <1>2, Known DEF SessionInv, FrameInv, FrameJudged
  <1>6. AnswerInv'
    BY <1>1, <1>2, Known DEF SessionInv, AnswerInv
  <1>7. DownInv'
    BY <1>1, <1>2, Known DEF SessionInv, DownInv
  <1>8. PayloadInv'
    BY <1>1, <1>2, Known, Wiring DEF SessionInv, PayloadInv, Reachable
  <1>9. ExitInv'
    BY <1>1, <1>2, Known DEF SessionInv, ExitInv
  <1>10. QED
    BY <1>3, <1>4, <1>5, <1>6, <1>7, <1>8, <1>9 DEF SessionInv

\* The policy grants the service.
LEMMA GrantedStep ==
    ASSUME SessionInv, GrantedOn
    PROVE  SessionInv'
  <1>1. job' = job /\ Frame' = Frame /\ Payload' = Payload /\ AtOnce' = AtOnce
    BY JobStays DEF GrantedOn, peerVars
  <1>2. /\ client' = client /\ exit' = exit /\ srv = "policy" /\ srv' = "dial" /\ service \in Granted
        /\ stream' = stream /\ eof' = eof /\ open' = open /\ cut' = cut
        /\ service' = service /\ sent' = sent /\ expired' = expired
        /\ sinkPC' = sinkPC /\ handled' = handled
        /\ SinkTypeOK'
    BY SinkStays DEF SessionInv, TypeOK, GrantedOn, peerVars, msgVars, sinkVars, netVars
  <1>3. TypeOK'
    BY <1>1, <1>2, Wiring DEF SessionInv, TypeOK, Flowing, Ends, Statuses, Running
  <1>4. PeerInv'
    BY <1>1, <1>2, Known DEF SessionInv, PeerInv
  <1>5. FrameInv'
    BY <1>1, <1>2, Known DEF SessionInv, FrameInv, FrameJudged
  <1>6. AnswerInv'
    BY <1>1, <1>2, Known DEF SessionInv, AnswerInv
  <1>7. DownInv'
    BY <1>1, <1>2, Known DEF SessionInv, DownInv
  <1>8. PayloadInv'
    BY <1>1, <1>2, Known, Wiring DEF SessionInv, PayloadInv, Reachable
  <1>9. ExitInv'
    BY <1>1, <1>2, Known DEF SessionInv, ExitInv
  <1>10. QED
    BY <1>3, <1>4, <1>5, <1>6, <1>7, <1>8, <1>9 DEF SessionInv

\* The backend is dialled.
LEMMA DialledStep ==
    ASSUME SessionInv, Dialled
    PROVE  SessionInv'
  <1>1. job' = job /\ Frame' = Frame /\ Payload' = Payload /\ AtOnce' = AtOnce
    BY JobStays DEF Dialled, peerVars
  <1>2. /\ client' = client /\ exit' = exit /\ srv = "dial" /\ srv' = "recheck"
        /\ stream' = stream /\ eof' = eof /\ cut' = cut /\ open' = open \cup {"proxy", "sink"}
        /\ service' = service /\ sent' = sent /\ expired' = expired
        /\ sinkPC' = sinkPC /\ handled' = handled
        /\ SinkTypeOK'
    BY SinkMoves DEF SessionInv, TypeOK, Dialled, peerVars, msgVars
  <1>3. TypeOK'
    BY <1>1, <1>2, Wiring DEF SessionInv, TypeOK, Flowing, Ends, Statuses, Running
  <1>4. PeerInv'
    BY <1>1, <1>2, Known DEF SessionInv, PeerInv
  <1>5. FrameInv'
    BY <1>1, <1>2, Known DEF SessionInv, FrameInv, FrameJudged
  <1>6. AnswerInv'
    BY <1>1, <1>2, Known DEF SessionInv, AnswerInv
  <1>7. DownInv'
    BY <1>1, <1>2, Known DEF SessionInv, DownInv
  <1>8. PayloadInv'
    BY <1>1, <1>2, Known, Wiring DEF SessionInv, PayloadInv, Reachable
  <1>9. ExitInv'
    BY <1>1, <1>2, Known DEF SessionInv, ExitInv
  <1>10. QED
    BY <1>3, <1>4, <1>5, <1>6, <1>7, <1>8, <1>9 DEF SessionInv

\* The frame is whole, and names a service.
LEMMA FrameTakenStep ==
    ASSUME SessionInv, FrameTaken
    PROVE  SessionInv'
  <1>1. job' = job /\ Frame' = Frame /\ Payload' = Payload /\ AtOnce' = AtOnce
    BY JobStays DEF FrameTaken, peerVars
  <1>2. /\ client' = client /\ exit' = exit /\ srv = "hello" /\ srv' = "policy" /\ sent' = sent
        /\ open' = open /\ eof' = eof /\ cut' = cut
        /\ expired' \in BOOLEAN /\ service' \in Seq(Nat) /\ ValidServiceName(service')
        /\ IsPrefix(HelloRequest(service'), Frame \o Payload)
        /\ Flowing' /\ (job.kind = "send" => stream'["up"] = <<>>)
        /\ stream'["down"] = stream["down"] /\ stream'["bup"] = stream["bup"] /\ stream'["bdown"] = stream["bdown"]
        /\ sinkPC' = sinkPC /\ handled' = handled
        /\ SinkTypeOK'
    BY SinkStays DEF SessionInv, TypeOK, FrameTaken, peerVars, msgVars
  <1>3. TypeOK'
    BY <1>1, <1>2, Wiring DEF SessionInv, TypeOK, Flowing, Ends, Statuses, Running
  <1>4. PeerInv'
    BY <1>1, <1>2, Known DEF SessionInv, PeerInv
  <1>5. FrameInv'
    BY <1>1, <1>2, Known DEF SessionInv, FrameInv, FrameJudged, AnswerInv, Running, StatusOK, StatusDenied, StatusBackendUnavailable, StatusMalformed
  <1>6. AnswerInv'
    BY <1>1, <1>2, Known DEF SessionInv, AnswerInv, Running, StatusDenied, StatusBackendUnavailable
  <1>7. DownInv'
    BY <1>1, <1>2, Known DEF SessionInv, DownInv
  <1>8. PayloadInv'
    BY <1>1, <1>2, Known, Wiring DEF SessionInv, PayloadInv, Reachable, AnswerInv
  <1>9. ExitInv'
    BY <1>1, <1>2, Known DEF SessionInv, ExitInv
  <1>10. QED
    BY <1>3, <1>4, <1>5, <1>6, <1>7, <1>8, <1>9 DEF SessionInv

\* The handler answers with OK and the pipe begins.
LEMMA RespondedStep ==
    ASSUME SessionInv, Responded
    PROVE  SessionInv'
  <1>1. job' = job /\ Frame' = Frame /\ Payload' = Payload /\ AtOnce' = AtOnce
    BY JobStays DEF Responded, peerVars
  <1>2. /\ client' = client /\ exit' = exit /\ srv = "recheck" /\ srv' = "pipe" /\ sent = Running /\ sent' = StatusOK
        /\ service' = service /\ expired' = expired /\ open' = open /\ eof' = eof /\ cut' = cut
        /\ Flowing' /\ stream["bup"] = <<>> /\ stream["bdown"] = <<>> /\ handled = <<>> /\ sinkPC = "read"
        /\ \/ Len(stream'["down"]) = 2 /\ stream'["down"][2] = StatusOK
           \/ Len(stream'["down"]) = 0 /\ ("client" \in cut \/ "down" \in eof \/ "client" \notin open)
        /\ stream'["up"] = stream["up"] /\ stream'["bup"] = stream["bup"] /\ stream'["bdown"] = stream["bdown"]
        /\ sinkPC' = sinkPC /\ handled' = handled
        /\ SinkTypeOK'
    <2>1. sent = Running /\ handled = <<>> /\ sinkPC = "read" /\ \A s \in {"down", "bup", "bdown"} : stream[s] = <<>>
      BY DEF SessionInv, AnswerInv, Responded
    <2> DEFINE ok == HelloResponse(StatusOK)
    <2>2. ok \in Seq(Nat) /\ Len(ok) = 2 /\ ok[2] = StatusOK
      BY ResponseBytes DEF StatusOK
    <2>3. stream' = Delivered("server", ok) /\ Out["server"] = "down" /\ "server" \in Ends
      BY Wiring DEF Responded, Ends
    <2> HIDE DEF ok
    <2>4. /\ Flowing' /\ \A s \in Streams \ {"down"} : stream'[s] = stream[s]
          /\ stream'["down"] = IF Reachable("server") THEN stream["down"] \o ok ELSE stream["down"]
      <3>1. Flowing
        BY Known
      <3>2. QED
        BY <2>2, <2>3, <3>1, Delivers DEF Flowing
    <2>5. stream["down"] \o ok = ok /\ Len(stream["down"]) = 0
      <3>1. <<>> \o ok = ok /\ Len(<<>>) = 0
        BY <2>2, ConcatEmptySeq
      <3>2. QED
        BY <2>1, <3>1
    <2>6. \/ Len(stream'["down"]) = 2 /\ stream'["down"][2] = StatusOK
          \/ Len(stream'["down"]) = 0 /\ ("client" \in cut \/ "down" \in eof \/ "client" \notin open)
      BY <2>2, <2>4, <2>5, Wiring DEF Reachable
    <2>7. QED
      BY <2>1, <2>4, <2>6, Wiring, SinkStays DEF SessionInv, TypeOK, Responded, peerVars, msgVars
  <1>3. TypeOK'
    BY <1>1, <1>2, Wiring DEF SessionInv, TypeOK, Flowing, Ends, Statuses, StatusOK
  <1>4. PeerInv'
    BY <1>1, <1>2, Known DEF SessionInv, PeerInv
  <1>5. FrameInv'
    BY <1>1, <1>2, Known DEF SessionInv, FrameInv, FrameJudged, StatusOK, StatusMalformed
  <1>6. AnswerInv'
    BY <1>1, <1>2, Known DEF SessionInv, AnswerInv, Running, StatusOK, StatusDenied, StatusBackendUnavailable
  <1>7. DownInv'
    <2>1. client # "ack" /\ (client = "response" => "client" \in open)
      BY <1>2 DEF SessionInv, DownInv, PeerInv, Running, StatusOK
    <2>2. CASE Len(stream'["down"]) = 2 /\ stream'["down"][2] = StatusOK
      <3>1. stream'["down"] # <<>>
        BY <2>2
      <3>2. QED
        BY <1>2, <2>1, <2>2, <3>1 DEF DownInv
    <2>3. CASE Len(stream'["down"]) = 0 /\ ("client" \in cut \/ "down" \in eof \/ "client" \notin open)
      BY <1>2, <2>1, <2>3 DEF DownInv
    <2>4. QED
      BY <1>2, <2>2, <2>3
  <1>8. PayloadInv'
    <2>1. job.kind = "send" => stream["up"] = <<>>
      BY <1>2 DEF SessionInv, PayloadInv
    <2>2. <<>> \o <<>> = <<>> /\ IsPrefix(<<>>, Payload)
      BY Known, PrefixSelf
    <2>3. QED
      BY <1>1, <1>2, <2>1, <2>2 DEF PayloadInv
  <1>9. ExitInv'
    BY <1>1, <1>2, Known DEF SessionInv, ExitInv, Running, StatusOK, StatusDenied, StatusBackendUnavailable, StatusRateLimited
  <1>10. QED
    BY <1>3, <1>4, <1>5, <1>6, <1>7, <1>8, <1>9 DEF SessionInv

\* The sender has read an OK and writes its message.
LEMMA SenderGoesOnStep ==
    ASSUME SessionInv, SenderGoesOn
    PROVE  SessionInv'
  <1>1. job' = job /\ Frame' = Frame /\ Payload' = Payload /\ AtOnce' = AtOnce
    BY JobStays DEF SenderGoesOn, peerVars
  <1>2. /\ client = "response" /\ client' = "ack" /\ exit' = exit /\ srv' = srv /\ sent = StatusOK
        /\ open' = open /\ eof' = eof /\ cut' = cut
        /\ Flowing' /\ (stream'["down"] # <<>> => handled # <<>>)
        /\ stream'["up"] \in {stream["up"], stream["up"] \o Payload}
        /\ stream'["bup"] = stream["bup"] /\ stream'["bdown"] = stream["bdown"]
        /\ service' = service /\ sent' = sent /\ expired' = expired
        /\ sinkPC' = sinkPC /\ handled' = handled
        /\ SinkTypeOK'
    BY SinkStays DEF SessionInv, TypeOK, SenderGoesOn, srvVars, msgVars
  <1>3. TypeOK'
    BY <1>1, <1>2, Wiring DEF SessionInv, TypeOK, Flowing, Ends, Statuses, Running
  <1>4. PeerInv'
    BY <1>1, <1>2, Known DEF SessionInv, PeerInv
  <1>5. FrameInv'
    <2>1. srv \notin {"admit", "hello"}
      BY <1>2 DEF SessionInv, AnswerInv, Running, StatusOK
    <2>2. QED
      BY <1>1, <1>2, <2>1 DEF SessionInv, FrameInv, FrameJudged
  <1>6. AnswerInv'
    BY <1>1, <1>2, Known DEF SessionInv, AnswerInv, Running, StatusOK
  <1>7. DownInv'
    BY <1>1, <1>2, Known DEF SessionInv, DownInv
  <1>8. PayloadInv'
    <2>1. srv \notin {"policy", "dial", "recheck"}
      BY <1>2 DEF SessionInv, AnswerInv, Running, StatusOK
    <2>2. ASSUME job.kind = "send", srv = "pipe" PROVE IsPrefix(stream'["bup"] \o stream'["up"], Payload)
      <3>1. stream["up"] = <<>> /\ stream["bup"] = <<>>
        BY <1>2, <2>2 DEF SessionInv, PayloadInv
      <3>2. <<>> \o <<>> = <<>> /\ <<>> \o Payload = Payload
        BY Known, ConcatEmptySeq
      <3>3. stream'["bup"] = <<>> /\ stream'["up"] \in {<<>>, Payload}
        BY <1>2, <3>1, <3>2
      <3>4. stream'["bup"] \o stream'["up"] \in {<<>>, Payload}
        BY <3>2, <3>3
      <3>5. QED
        BY <3>4, Known, PrefixSelf
    <2>3. QED
      BY <1>1, <1>2, <2>1, <2>2 DEF SessionInv, PayloadInv
  <1>9. ExitInv'
    BY <1>1, <1>2, Known DEF SessionInv, ExitInv
  <1>10. QED
    BY <1>3, <1>4, <1>5, <1>6, <1>7, <1>8, <1>9 DEF SessionInv

LEMMA CopyUpIs ==
    ASSUME SessionInv, Copy("server", "proxy")
    PROVE  /\ client' = client /\ exit' = exit /\ srv = "pipe" /\ srv' = srv /\ sent = StatusOK
           /\ open' = open /\ eof' = eof /\ cut' = cut /\ stream["up"] # <<>>
           /\ Flowing' /\ stream'["up"] = Tail(stream["up"])
           /\ stream'["bup"] = IF Reachable("proxy") THEN stream["bup"] \o <<Head(stream["up"])>> ELSE stream["bup"]
           /\ stream'["down"] = stream["down"] /\ stream'["bdown"] = stream["bdown"]
           /\ service' = service /\ sent' = sent /\ expired' = expired
           /\ sinkPC' = sinkPC /\ handled' = handled
           /\ SinkTypeOK'
  <1>1. stream["up"] # <<>> /\ stream' = [Delivered("proxy", <<Head(stream["up"])>>) EXCEPT !["up"] = Tail(@)]
    BY Wiring DEF Copy
  <1> DEFINE b == <<Head(stream["up"])>>
             d == Delivered("proxy", b)
  <1>2. b \in Seq(Nat) /\ Tail(stream["up"]) \in Seq(Nat)
    <2>1. stream["up"] \in Seq(Nat)
      BY Known
    <2>2. Head(stream["up"]) \in Nat /\ Tail(stream["up"]) \in Seq(Nat)
      BY <1>1, <2>1, HeadTailProperties
    <2>3. QED
      BY <2>2
  <1>3. "proxy" \in Ends /\ Out["proxy"] = "bup"
    BY Wiring DEF Ends
  <1> HIDE DEF b
  <1>4. /\ d \in [Streams -> Seq(Nat)] /\ \A s \in Streams \ {"bup"} : d[s] = stream[s]
        /\ d["bup"] = IF Reachable("proxy") THEN stream["bup"] \o b ELSE stream["bup"]
    <2>1. Flowing
      BY Known
    <2>2. QED
      BY <1>2, <1>3, <2>1, Delivers
  <1>5. stream' = [d EXCEPT !["up"] = Tail(@)]
    BY <1>1 DEF b
  <1> HIDE DEF d
  <1>6. /\ Flowing' /\ stream'["up"] = Tail(stream["up"]) /\ stream'["down"] = stream["down"]
        /\ stream'["bup"] = d["bup"] /\ stream'["bdown"] = stream["bdown"]
    BY <1>2, <1>4, <1>5, Wiring DEF Flowing
  <1>7. sent = StatusOK
    BY DEF SessionInv, AnswerInv, Copy
  <1>8. QED
    BY <1>1, <1>4, <1>6, <1>7, SinkStays DEF SessionInv, TypeOK, Copy, peerVars, srvVars, msgVars, b

\* One byte goes from the peer to the sink.
LEMMA CopyUpStep ==
    ASSUME SessionInv, Copy("server", "proxy")
    PROVE  SessionInv'
  <1>1. job' = job /\ Frame' = Frame /\ Payload' = Payload /\ AtOnce' = AtOnce
    BY JobStays DEF Copy, peerVars
  <1>2. /\ client' = client /\ exit' = exit /\ srv = "pipe" /\ srv' = srv /\ sent = StatusOK
        /\ open' = open /\ eof' = eof /\ cut' = cut /\ stream["up"] # <<>>
        /\ Flowing' /\ stream'["up"] = Tail(stream["up"])
        /\ stream'["bup"] = IF Reachable("proxy") THEN stream["bup"] \o <<Head(stream["up"])>> ELSE stream["bup"]
        /\ stream'["down"] = stream["down"] /\ stream'["bdown"] = stream["bdown"]
        /\ service' = service /\ sent' = sent /\ expired' = expired
        /\ sinkPC' = sinkPC /\ handled' = handled
        /\ SinkTypeOK'
    BY CopyUpIs
  <1>3. TypeOK'
    BY <1>1, <1>2, Wiring DEF SessionInv, TypeOK, Flowing, Ends, Statuses, Running
  <1>4. PeerInv'
    BY <1>1, <1>2, Known DEF SessionInv, PeerInv
  <1>5. FrameInv'
    BY <1>1, <1>2, Known DEF SessionInv, FrameInv, FrameJudged
  <1>6. AnswerInv'
    BY <1>1, <1>2, Known DEF SessionInv, AnswerInv, Running, StatusOK
  <1>7. DownInv'
    BY <1>1, <1>2, Known DEF SessionInv, DownInv
  <1>8. PayloadInv'
    <2>1. ASSUME job.kind = "send", handled = <<>>, Reachable("proxy")
          PROVE  IsPrefix(stream'["bup"], Payload) /\ IsPrefix(stream'["bup"] \o stream'["up"], Payload)
      <3>1. IsPrefix(stream["bup"] \o stream["up"], Payload)
        BY <1>2, <2>1 DEF SessionInv, PayloadInv
      <3>2. /\ stream'["bup"] \in Seq(Nat) /\ stream'["up"] \in Seq(Nat)
            /\ stream'["bup"] \o stream'["up"] = stream["bup"] \o stream["up"]
        <4>1. stream["up"] \in Seq(Nat) /\ stream["bup"] \in Seq(Nat) /\ stream["up"] # <<>>
          BY <1>2, Known
        <4>2. stream'["bup"] = stream["bup"] \o <<Head(stream["up"])>> /\ stream'["up"] = Tail(stream["up"])
          BY <1>2, <2>1
        <4>3. /\ stream["bup"] \o <<Head(stream["up"])>> \in Seq(Nat) /\ Tail(stream["up"]) \in Seq(Nat)
              /\ (stream["bup"] \o <<Head(stream["up"])>>) \o Tail(stream["up"]) = stream["bup"] \o stream["up"]
          BY <4>1, MoveOne
        <4>4. QED
          BY <4>2, <4>3
      <3>3. IsPrefix(stream'["bup"] \o stream'["up"], Payload)
        BY <3>1, <3>2
      <3>4. QED
        BY <3>2, <3>3, Known, ConcatHead
    <2>2. job.kind = "send" => client # "response"
      BY <1>2 DEF SessionInv, PayloadInv
    <2>3. Reachable("proxy")' = Reachable("proxy")
      BY <1>2 DEF Reachable
    <2>4. CASE Reachable("proxy")
      BY <1>1, <1>2, <2>1, <2>2, <2>3, <2>4 DEF SessionInv, PayloadInv
    <2>5. CASE ~Reachable("proxy")
      BY <1>1, <1>2, <2>2, <2>3, <2>5 DEF SessionInv, PayloadInv
    <2>6. QED
      BY <2>4, <2>5
  <1>9. ExitInv'
    BY <1>1, <1>2, Known DEF SessionInv, ExitInv
  <1>10. QED
    BY <1>3, <1>4, <1>5, <1>6, <1>7, <1>8, <1>9 DEF SessionInv

\* One byte goes from the sink to the peer.
LEMMA CopyDownStep ==
    ASSUME SessionInv, Copy("proxy", "server")
    PROVE  SessionInv'
  <1>1. job' = job /\ Frame' = Frame /\ Payload' = Payload /\ AtOnce' = AtOnce
    BY JobStays DEF Copy, peerVars
  <1>2. /\ client' = client /\ exit' = exit /\ srv = "pipe" /\ srv' = srv /\ sent = StatusOK /\ handled # <<>>
        /\ open' = open /\ eof' = eof /\ cut' = cut /\ Flowing'
        /\ \/ stream'["down"] = stream["down"]
           \/ /\ "client" \notin cut /\ "down" \notin eof /\ Len(stream'["down"]) = Len(stream["down"]) + 1
              /\ \A i \in 1..Len(stream["down"]) : stream'["down"][i] = stream["down"][i]
        /\ stream'["up"] = stream["up"] /\ stream'["bup"] = stream["bup"]
        /\ service' = service /\ sent' = sent /\ expired' = expired
        /\ sinkPC' = sinkPC /\ handled' = handled
        /\ SinkTypeOK'
    <2>1. stream["bdown"] # <<>> /\ stream' = [Delivered("server", <<Head(stream["bdown"])>>) EXCEPT !["bdown"] = Tail(@)]
      BY Wiring DEF Copy
    <2> DEFINE b == <<Head(stream["bdown"])>>
               d == Delivered("server", b)
    <2>2. b \in Seq(Nat) /\ Len(b) = 1 /\ Tail(stream["bdown"]) \in Seq(Nat)
      <3>1. stream["bdown"] \in Seq(Nat)
        BY Known
      <3>2. Head(stream["bdown"]) \in Nat /\ Tail(stream["bdown"]) \in Seq(Nat)
        BY <2>1, <3>1, HeadTailProperties
      <3>3. QED
        BY <3>2
    <2>3. "server" \in Ends /\ Out["server"] = "down"
      BY Wiring DEF Ends
    <2> HIDE DEF b
    <2>4. /\ d \in [Streams -> Seq(Nat)] /\ \A s \in Streams \ {"down"} : d[s] = stream[s]
          /\ d["down"] = IF Reachable("server") THEN stream["down"] \o b ELSE stream["down"]
      <3>1. Flowing
        BY Known
      <3>2. QED
        BY <2>2, <2>3, <3>1, Delivers
    <2>5. stream' = [d EXCEPT !["bdown"] = Tail(@)]
      BY <2>1 DEF b
    <2> HIDE DEF d
    <2>6. /\ Flowing' /\ stream'["bup"] = stream["bup"] /\ stream'["up"] = stream["up"]
          /\ stream'["down"] = d["down"]
      BY <2>2, <2>4, <2>5, Wiring DEF Flowing
    <2>7. Reachable("server") => "client" \notin cut /\ "down" \notin eof
      BY Wiring DEF Reachable
    <2>8. /\ Len(stream["down"] \o b) = Len(stream["down"]) + 1
          /\ \A i \in 1..Len(stream["down"]) : (stream["down"] \o b)[i] = stream["down"][i]
      <3>1. stream["down"] \in Seq(Nat)
        BY Known
      <3>2. /\ Len(stream["down"] \o b) = Len(stream["down"]) + Len(b)
            /\ \A i \in 1..Len(stream["down"]) : (stream["down"] \o b)[i] = stream["down"][i]
        BY <2>2, <3>1, Longer
      <3>3. QED
        BY <2>2, <3>2
    <2>9. sent = StatusOK /\ handled # <<>>
      BY <2>1 DEF SessionInv, AnswerInv, DownInv, Copy
    <2>10. \/ stream'["down"] = stream["down"]
           \/ /\ "client" \notin cut /\ "down" \notin eof /\ Len(stream'["down"]) = Len(stream["down"]) + 1
              /\ \A i \in 1..Len(stream["down"]) : stream'["down"][i] = stream["down"][i]
      BY <2>4, <2>6, <2>7, <2>8
    <2>11. QED
      BY <2>6, <2>9, <2>10, SinkStays DEF SessionInv, TypeOK, Copy, peerVars, srvVars, msgVars
  <1>3. TypeOK'
    BY <1>1, <1>2, Wiring DEF SessionInv, TypeOK, Flowing, Ends, Statuses, Running
  <1>4. PeerInv'
    BY <1>1, <1>2, Known DEF SessionInv, PeerInv
  <1>5. FrameInv'
    BY <1>1, <1>2, Known DEF SessionInv, FrameInv, FrameJudged
  <1>6. AnswerInv'
    BY <1>1, <1>2, Known DEF SessionInv, AnswerInv, Running, StatusOK
  <1>7. DownInv'
    <2>1. CASE stream'["down"] = stream["down"]
      BY <1>2, <2>1 DEF SessionInv, DownInv
    <2>2. CASE /\ "client" \notin cut /\ "down" \notin eof /\ Len(stream'["down"]) = Len(stream["down"]) + 1
               /\ \A i \in 1..Len(stream["down"]) : stream'["down"][i] = stream["down"][i]
      <3>1. client = "response" => Len(stream["down"]) >= 2
        <4>1. stream["down"] \in Seq(Nat) /\ Len(stream["down"]) \in Nat
          BY Known
        <4>2. Len(stream["down"]) = 0 => stream["down"] = <<>>
          BY <4>1, Longer
        <4>3. client = "response" => Len(stream["down"]) # 1 /\ Len(stream["down"]) # 0
          BY <1>2, <2>2, <4>2 DEF SessionInv, DownInv
        <4> DEFINE n == Len(stream["down"])
        <4>4. n \in Nat /\ (client = "response" => n # 1 /\ n # 0)
          BY <4>1, <4>3
        <4> HIDE DEF n
        <4>5. client = "response" => n >= 2
          BY <4>4
        <4>6. QED
          BY <4>5 DEF n
      <3>2. client = "response" => stream'["down"][2] = sent /\ Len(stream'["down"]) > 2
        <4>1. Len(stream["down"]) \in Nat /\ (client = "response" /\ Len(stream["down"]) >= 2 => stream["down"][2] = sent)
          BY Known DEF SessionInv, DownInv
        <4>2. QED
          BY <2>2, <3>1, <4>1
      <3>3. client = "response" => stream'["down"] # <<>> /\ Len(stream'["down"]) # 1
        BY <2>2, <3>1, Known, SMTT(60)
      <3>4. QED
        BY <1>2, <3>2, <3>3 DEF SessionInv, DownInv
    <2>3. QED
      BY <1>2, <2>1, <2>2
  <1>8. PayloadInv'
    BY <1>1, <1>2, Known, Wiring DEF SessionInv, PayloadInv, Reachable
  <1>9. ExitInv'
    BY <1>1, <1>2, Known DEF SessionInv, ExitInv
  <1>10. QED
    BY <1>3, <1>4, <1>5, <1>6, <1>7, <1>8, <1>9 DEF SessionInv

LEMMA HandleIs ==
    ASSUME SessionInv, Handle
    PROVE  /\ client' = client /\ exit' = exit /\ srv' = srv /\ open' = open /\ eof' = eof /\ cut' = cut
           /\ stream["bup"] # <<>> /\ HasLine(stream["bup"]) /\ Flowing'
           /\ handled' \in Seq(Seq(Nat)) /\ handled' # <<>> /\ sinkPC' = "ack"
           /\ handled' = Append(handled, FirstLine(stream["bup"]))
           /\ stream'["bup"] = SubSeq(stream["bup"], Len(FirstLine(stream["bup"])) + 2, Len(stream["bup"]))
           /\ handled # <<>> => handled'[1] = handled[1]
           /\ handled = <<>> => handled'[1] = FirstLine(stream["bup"])
           /\ stream'["up"] = stream["up"] /\ stream'["down"] = stream["down"] /\ stream'["bdown"] = stream["bdown"]
           /\ service' = service /\ sent' = sent /\ expired' = expired
           /\ SinkTypeOK'
  <1> DEFINE m == FirstLine(stream["bup"])
  <1>1. HasLine(stream["bup"]) /\ Message.text = m
    BY DEF Handle, Message, ReadMessage
  <1>2. stream["bup"] \in Seq(Nat) /\ handled \in Seq(Seq(Nat))
    BY Known
  <1>3. m \in Seq(Nat)
    BY <1>1, <1>2, FirstLineOfPrefix, PrefixSelf
  <1>4. handled' = Append(handled, m) /\ stream' = [stream EXCEPT !["bup"] = SubSeq(@, Len(m) + 2, Len(@))]
    BY <1>1 DEF Handle
  <1>5. stream["bup"] # <<>>
    BY <1>1, <1>2 DEF HasLine
  <1> HIDE DEF m
  <1>6. /\ handled' \in Seq(Seq(Nat)) /\ handled' # <<>>
        /\ handled # <<>> => handled'[1] = handled[1]
        /\ handled = <<>> => handled'[1] = m
    <2>1. /\ handled' \in Seq(Seq(Nat)) /\ handled' # <<>> /\ handled'[Len(handled) + 1] = m
          /\ \A i \in 1..Len(handled) : handled'[i] = handled[i]
      <3>1. /\ Append(handled, m) \in Seq(Seq(Nat)) /\ Append(handled, m) # <<>>
            /\ \A i \in 1..Len(handled) : Append(handled, m)[i] = handled[i]
            /\ Append(handled, m)[Len(handled) + 1] = m
        BY <1>2, <1>3, AppendProperties
      <3>2. QED
        BY <1>4, <3>1
    <2>2. (handled # <<>> => 1 \in 1..Len(handled)) /\ (handled = <<>> => Len(handled) + 1 = 1)
      BY <1>2, EmptySeq
    <2>3. QED
      BY <2>1, <2>2
  <1>7. SubSeq(stream["bup"], Len(m) + 2, Len(stream["bup"])) \in Seq(Nat)
    <2>1. Len(m) + 2 \in Int /\ Len(stream["bup"]) \in Int /\ Len(m) + 2 >= 1
      BY <1>2, <1>3
    <2>2. \A i \in (Len(m) + 2)..Len(stream["bup"]) : i \in 1..Len(stream["bup"])
      BY <2>1
    <2>3. \A i \in (Len(m) + 2)..Len(stream["bup"]) : stream["bup"][i] \in Nat
      BY <1>2, <2>2, ElementOfSeq
    <2>4. QED
      BY <2>1, <2>3, SubSeqProperties
  <1>8. /\ Flowing' /\ stream'["up"] = stream["up"] /\ stream'["down"] = stream["down"]
        /\ stream'["bdown"] = stream["bdown"]
        /\ stream'["bup"] = SubSeq(stream["bup"], Len(m) + 2, Len(stream["bup"]))
    BY <1>4, <1>7, Known, Wiring DEF Flowing
  <1>9. QED
    BY <1>1, <1>4, <1>5, <1>6, <1>8, SinkStays DEF SessionInv, TypeOK, Handle, peerVars, srvVars, m

\* The sink handles a message.
LEMMA HandleStep ==
    ASSUME SessionInv, Handle
    PROVE  SessionInv'
  <1>1. job' = job /\ Frame' = Frame /\ Payload' = Payload /\ AtOnce' = AtOnce
    BY JobStays DEF Handle, peerVars
  <1>2. /\ client' = client /\ exit' = exit /\ srv' = srv /\ open' = open /\ eof' = eof /\ cut' = cut
        /\ stream["bup"] # <<>> /\ HasLine(stream["bup"]) /\ Flowing'
        /\ handled' \in Seq(Seq(Nat)) /\ handled' # <<>> /\ sinkPC' = "ack"
        /\ handled' = Append(handled, FirstLine(stream["bup"]))
        /\ stream'["bup"] = SubSeq(stream["bup"], Len(FirstLine(stream["bup"])) + 2, Len(stream["bup"]))
        /\ handled # <<>> => handled'[1] = handled[1]
        /\ handled = <<>> => handled'[1] = FirstLine(stream["bup"])
        /\ stream'["up"] = stream["up"] /\ stream'["down"] = stream["down"] /\ stream'["bdown"] = stream["bdown"]
        /\ service' = service /\ sent' = sent /\ expired' = expired
        /\ SinkTypeOK'
    BY HandleIs
  <1>3. TypeOK'
    BY <1>1, <1>2, Wiring, SMTT(60) DEF SessionInv, TypeOK, Flowing, Ends, Statuses, Running
  <1>4. PeerInv'
    BY <1>1, <1>2, Known DEF SessionInv, PeerInv
  <1>5. FrameInv'
    BY <1>1, <1>2, Known DEF SessionInv, FrameInv, FrameJudged
  <1>6. AnswerInv'
    BY <1>1, <1>2, Known DEF SessionInv, AnswerInv
  <1>7. DownInv'
    BY <1>1, <1>2, Known DEF SessionInv, DownInv
  <1>8. PayloadInv'
    <2>1. srv \notin {"policy", "dial", "recheck"}
      BY <1>2 DEF SessionInv, AnswerInv
    <2>2. job.kind = "send" => ~(srv = "pipe" /\ client = "response")
      BY <1>2 DEF SessionInv, PayloadInv
    <2>3. ASSUME job.kind = "send", handled = <<>> PROVE FirstLine(stream["bup"]) = FirstLine(Payload)
      <3>1. IsPrefix(stream["bup"], Payload)
        BY <2>3 DEF SessionInv, PayloadInv
      <3>2. QED
        BY <1>2, <3>1, Known, FirstLineOfPrefix
    <2>4. QED
      BY <1>1, <1>2, <2>1, <2>2, <2>3 DEF SessionInv, PayloadInv
  <1>9. ExitInv'
    BY <1>1, <1>2, Known DEF SessionInv, ExitInv
  <1>10. QED
    BY <1>3, <1>4, <1>5, <1>6, <1>7, <1>8, <1>9 DEF SessionInv

\* The sink writes its ack.
LEMMA AckWrittenStep ==
    ASSUME SessionInv, AckWritten
    PROVE  SessionInv'
  <1>1. job' = job /\ Frame' = Frame /\ Payload' = Payload /\ AtOnce' = AtOnce
    BY JobStays DEF AckWritten, peerVars
  <1>2. /\ client' = client /\ exit' = exit /\ srv' = srv /\ handled' = handled /\ handled # <<>> /\ sinkPC' = "read"
        /\ sinkPC = "ack" /\ open' = open /\ eof' = eof /\ cut' = cut /\ Flowing'
        /\ stream'["up"] = stream["up"] /\ stream'["down"] = stream["down"] /\ stream'["bup"] = stream["bup"]
        /\ service' = service /\ sent' = sent /\ expired' = expired
        /\ SinkTypeOK'
    <2>1. handled # <<>>
      BY DEF SessionInv, DownInv, AckWritten
    <2> DEFINE b == <<Letter, Newline>>
    <2>2. b \in Seq(Nat)
      BY DEF Letter, Newline
    <2>3. stream' = Delivered("sink", b) /\ "sink" \in Ends /\ Out["sink"] = "bdown" /\ Flowing
      BY Known, Wiring DEF AckWritten, Ends
    <2> HIDE DEF b
    <2>4. Flowing' /\ \A s \in Streams \ {"bdown"} : stream'[s] = stream[s]
      BY <2>2, <2>3, Delivers DEF Flowing
    <2>5. QED
      BY <2>1, <2>4, Wiring, SinkStays DEF SessionInv, TypeOK, AckWritten, peerVars, srvVars
  <1>3. TypeOK'
    BY <1>1, <1>2, Wiring DEF SessionInv, TypeOK, Flowing, Ends, Statuses, Running
  <1>4. PeerInv'
    BY <1>1, <1>2, Known DEF SessionInv, PeerInv
  <1>5. FrameInv'
    BY <1>1, <1>2, Known DEF SessionInv, FrameInv, FrameJudged
  <1>6. AnswerInv'
    BY <1>1, <1>2, Known DEF SessionInv, AnswerInv
  <1>7. DownInv'
    BY <1>1, <1>2, Known DEF SessionInv, DownInv
  <1>8. PayloadInv'
    BY <1>1, <1>2, Known, Wiring DEF SessionInv, PayloadInv, Reachable
  <1>9. ExitInv'
    BY <1>1, <1>2, Known DEF SessionInv, ExitInv
  <1>10. QED
    BY <1>3, <1>4, <1>5, <1>6, <1>7, <1>8, <1>9 DEF SessionInv

\* The peer's connection is cut.
LEMMA CutClientStep ==
    ASSUME SessionInv, Cut("client")
    PROVE  SessionInv'
  <1>1. job' = job /\ Frame' = Frame /\ Payload' = Payload /\ AtOnce' = AtOnce
    BY JobStays DEF Cut, peerVars
  <1>2. /\ client' = client /\ exit' = exit /\ srv' = srv /\ open' = open /\ cut' = cut \cup {"client"}
        /\ eof' = eof /\ Flowing'
        /\ \E n \in 0..Len(stream["up"]) : stream'["up"] = SubSeq(stream["up"], 1, n)
        /\ \E n \in 0..Len(stream["down"]) : stream'["down"] = SubSeq(stream["down"], 1, n)
        /\ stream'["bup"] = stream["bup"] /\ stream'["bdown"] = stream["bdown"]
        /\ service' = service /\ sent' = sent /\ expired' = expired
        /\ sinkPC' = sinkPC /\ handled' = handled
        /\ SinkTypeOK'
    <2>1. Flowing /\ Out["client"] = "up" /\ In["client"] = "down" /\ Streams = {"up", "down", "bup", "bdown"}
      BY Known, Wiring
    <2>2. /\ Flowing' /\ cut' = cut \cup {"client"} /\ open' = open /\ eof' = eof
          /\ \A s \in Streams \ {"up", "down"} : stream'[s] = stream[s]
          /\ \A s \in {"up", "down"} : \E n \in 0..Len(stream[s]) : stream'[s] = SubSeq(stream[s], 1, n)
      BY <2>1, CutLeaves
    <2>3. QED
      BY <2>1, <2>2, SinkStays DEF SessionInv, TypeOK, Cut, peerVars, srvVars, msgVars
  <1>3. PICK n \in 0..Len(stream["up"]) : stream'["up"] = SubSeq(stream["up"], 1, n)
    BY <1>2
  <1>4. PICK m \in 0..Len(stream["down"]) : stream'["down"] = SubSeq(stream["down"], 1, m)
    BY <1>2
  <1>5. IsPrefix(stream'["up"], stream["up"]) /\ (stream["up"] = <<>> => stream'["up"] = <<>>)
    BY <1>3, Known, CutKeepsEmpty
  <1>6. /\ Len(stream'["down"]) = m /\ \A i \in 1..m : stream'["down"][i] = stream["down"][i]
        /\ stream["down"] = <<>> => stream'["down"] = <<>>
    BY <1>4, Known, CutKeepsEmpty
  <1>7. TypeOK'
    BY <1>1, <1>2, Wiring DEF SessionInv, TypeOK, Flowing, Ends, Statuses, Running
  <1>8. PeerInv'
    BY <1>1, <1>2, Known DEF SessionInv, PeerInv
  <1>9. FrameInv'
    <2>1. srv \in {"admit", "hello"} => IsPrefix(stream'["up"], AtOnce)
      <3>1. stream'["up"] \in Seq(Nat) /\ stream["up"] \in Seq(Nat) /\ AtOnce \in Seq(Nat)
        BY <1>2, Known, Wiring DEF Flowing
      <3>2. QED
        BY <1>5, <3>1, PrefixTransitive DEF SessionInv, FrameInv
    <2>2. QED
      BY <1>1, <1>2, <2>1 DEF SessionInv, FrameInv, FrameJudged
  <1>10. AnswerInv'
    BY <1>2, <1>6 DEF SessionInv, AnswerInv
  <1>11. DownInv'
    <2>1. m \in Nat /\ m <= Len(stream["down"]) /\ Len(stream["down"]) \in Nat
      BY Known
    <2>2. client = "response" /\ m >= 2 => stream'["down"][2] = sent
      BY <1>6, <2>1 DEF SessionInv, DownInv
    <2>3. client = "response" /\ m > 2 => handled # <<>>
      BY <2>1 DEF SessionInv, DownInv
    <2>4. QED
      BY <1>2, <1>6, <2>2, <2>3 DEF SessionInv, DownInv
  <1>12. PayloadInv'
    <2>1. ASSUME job.kind = "send", handled = <<>>, srv = "pipe", Reachable("proxy")
          PROVE  IsPrefix(stream["bup"] \o stream'["up"], Payload)
      <3>1. IsPrefix(stream["bup"] \o stream["up"], Payload)
        BY <2>1 DEF SessionInv, PayloadInv
      <3>2. stream["bup"] \in Seq(Nat) /\ stream["up"] \in Seq(Nat) /\ Payload \in Seq(Nat)
        BY Known
      <3>3. IsPrefix(stream["bup"] \o SubSeq(stream["up"], 1, n), Payload)
        BY <3>1, <3>2, ConcatCut
      <3>4. QED
        BY <1>3, <3>3
    <2>2. Reachable("proxy")' => Reachable("proxy")
      BY <1>2 DEF Reachable
    <2>3. QED
      BY <1>1, <1>2, <1>5, <2>1, <2>2 DEF SessionInv, PayloadInv
  <1>13. ExitInv'
    BY <1>1, <1>2, Known DEF SessionInv, ExitInv
  <1>14. QED
    BY <1>7, <1>8, <1>9, <1>10, <1>11, <1>12, <1>13 DEF SessionInv

\* The connection to the sink is cut.
LEMMA CutProxyStep ==
    ASSUME SessionInv, Cut("proxy")
    PROVE  SessionInv'
  <1>1. job' = job /\ Frame' = Frame /\ Payload' = Payload /\ AtOnce' = AtOnce
    BY JobStays DEF Cut, peerVars
  <1>2. /\ client' = client /\ exit' = exit /\ srv' = srv /\ open' = open /\ cut' = cut \cup {"proxy"}
        /\ eof' = eof /\ Flowing'
        /\ \E n \in 0..Len(stream["bup"]) : stream'["bup"] = SubSeq(stream["bup"], 1, n)
        /\ \E n \in 0..Len(stream["bdown"]) : stream'["bdown"] = SubSeq(stream["bdown"], 1, n)
        /\ stream'["up"] = stream["up"] /\ stream'["down"] = stream["down"]
        /\ service' = service /\ sent' = sent /\ expired' = expired
        /\ sinkPC' = sinkPC /\ handled' = handled
        /\ SinkTypeOK'
    <2>1. Flowing /\ Out["proxy"] = "bup" /\ In["proxy"] = "bdown" /\ Streams = {"up", "down", "bup", "bdown"}
      BY Known, Wiring
    <2>2. /\ Flowing' /\ cut' = cut \cup {"proxy"} /\ open' = open /\ eof' = eof
          /\ \A s \in Streams \ {"bup", "bdown"} : stream'[s] = stream[s]
          /\ \A s \in {"bup", "bdown"} : \E n \in 0..Len(stream[s]) : stream'[s] = SubSeq(stream[s], 1, n)
      BY <2>1, CutLeaves
    <2>3. QED
      BY <2>1, <2>2, SinkStays DEF SessionInv, TypeOK, Cut, peerVars, srvVars, msgVars
  <1>3. /\ IsPrefix(stream'["bup"], stream["bup"])
        /\ (stream["bup"] = <<>> => stream'["bup"] = <<>>) /\ (stream["bdown"] = <<>> => stream'["bdown"] = <<>>)
    BY <1>2, Known, CutKeepsEmpty
  <1>4. TypeOK'
    BY <1>1, <1>2, Wiring DEF SessionInv, TypeOK, Flowing, Ends, Statuses, Running
  <1>5. PeerInv'
    BY <1>1, <1>2, Known DEF SessionInv, PeerInv
  <1>6. FrameInv'
    BY <1>1, <1>2 DEF SessionInv, FrameInv, FrameJudged
  <1>7. AnswerInv'
    BY <1>2, <1>3 DEF SessionInv, AnswerInv
  <1>8. DownInv'
    BY <1>2, <1>3 DEF SessionInv, DownInv
  <1>9. PayloadInv'
    <2>1. job.kind = "send" /\ handled = <<>> => IsPrefix(stream'["bup"], Payload)
      <3>1. stream'["bup"] \in Seq(Nat) /\ stream["bup"] \in Seq(Nat) /\ Payload \in Seq(Nat)
        BY <1>2, Known, Wiring DEF Flowing
      <3>2. QED
        BY <1>3, <3>1, PrefixTransitive DEF SessionInv, PayloadInv
    <2>2. ~Reachable("proxy")'
      BY <1>2, Wiring DEF Reachable
    <2>3. QED
      BY <1>1, <1>2, <1>3, <2>1, <2>2 DEF SessionInv, PayloadInv
  <1>10. ExitInv'
    BY <1>1, <1>2, Known DEF SessionInv, ExitInv
  <1>11. QED
    BY <1>4, <1>5, <1>6, <1>7, <1>8, <1>9, <1>10 DEF SessionInv

-----------------------------------------------------------------------------
(* What the actions come to.                                               *)

LEMMA ReadResponse ==
    ASSUME NEW s \in Seq(Nat), NEW ended \in BOOLEAN, ReadHelloResponse(s, ended).kind = "ok"
    PROVE  Len(s) >= 2 /\ ReadHelloResponse(s, ended).value = s[2]
  <1>1. /\ Malformed.kind = "malformed" /\ Blocks.kind = "blocks" /\ IOError.kind = "io"
        /\ Result("ok", s[2], 2).value = s[2]
    BY DEF Malformed, Blocks, IOError, Result
  <1>2. Len(s) \in Nat
    OBVIOUS
  <1>3. CASE Len(s) < 2
    <2>1. ReadHelloResponse(s, ended) \in {IOError, Blocks}
      BY <1>2, <1>3 DEF ReadHelloResponse
    <2>2. QED
      BY <1>1, <2>1
  <1>4. CASE Len(s) >= 2
    <2>1. ReadHelloResponse(s, ended) \in {Result("ok", s[2], 2), Malformed}
      BY <1>2, <1>4 DEF ReadHelloResponse
    <2>2. QED
      BY <1>1, <1>4, <2>1
  <1>5. QED
    BY <1>2, <1>3, <1>4

LEMMA ResponseIs ==
    ASSUME SessionInv, Response
    PROVE  ProgramEnds \/ SenderGoesOn
  <1>1. PICK ended \in BOOLEAN :
          LET r == ReadHelloResponse(stream["down"], ended \/ Ended("down")) IN
          /\ r.kind # "blocks"
          /\ IF r.kind = "ok" /\ r.value = StatusOK /\ Len(job.bytes) <= MaxMessageLen
             THEN \E ok \in BOOLEAN :
                  /\ WriteOK("client", ok)
                  /\ IF ok THEN /\ client' = "ack"
                                /\ stream' = [Delivered("client", Payload) EXCEPT !["down"] = SubSeq(@, 3, Len(@))]
                                /\ UNCHANGED <<exit, open, eof, cut>>
                     ELSE Exits(1)
             ELSE Exits(IF r.kind = "ok" THEN ExitCode(r.value) ELSE 1)
    BY DEF Response
  <1> DEFINE e == ended \/ Ended("down")
             d == stream["down"]
             r == ReadHelloResponse(d, e)
  <1>2. e \in BOOLEAN /\ d \in Seq(Nat) /\ Len(d) \in Nat
    BY Known
  <1>3. /\ client = "response" /\ job.kind = "send"
        /\ UNCHANGED <<sinkVars, job, srvVars, msgVars>>
        /\ Len(d) >= 2 => d[2] = sent
        /\ Len(d) > 2 => handled # <<>>
    BY DEF Response, SessionInv, PeerInv, DownInv
  <1>4. r.kind = "ok" => Len(d) >= 2 /\ r.value = sent
    <2> HIDE DEF e, d
    <2>1. r.kind = "ok" => Len(d) >= 2 /\ r.value = d[2]
      BY <1>2, ReadResponse
    <2>2. QED
      BY <1>3, <2>1
  <1>5. \/ Exits(1)
        \/ r.kind = "ok" /\ Exits(ExitCode(r.value))
        \/ /\ r.kind = "ok" /\ r.value = StatusOK /\ client' = "ack"
           /\ stream' = [Delivered("client", Payload) EXCEPT !["down"] = SubSeq(@, 3, Len(@))]
           /\ UNCHANGED <<exit, open, eof, cut>>
    <2> DEFINE guard == r.kind = "ok" /\ r.value = StatusOK /\ Len(job.bytes) <= MaxMessageLen
    <2>1. CASE guard
      <3>1. PICK ok \in BOOLEAN :
              IF ok THEN /\ client' = "ack"
                         /\ stream' = [Delivered("client", Payload) EXCEPT !["down"] = SubSeq(@, 3, Len(@))]
                         /\ UNCHANGED <<exit, open, eof, cut>>
              ELSE Exits(1)
        BY <1>1, <2>1
      <3>2. QED
        BY <2>1, <3>1
    <2>2. CASE ~guard
      <3>1. Exits(IF r.kind = "ok" THEN ExitCode(r.value) ELSE 1)
        BY <1>1, <2>2
      <3>2. QED
        BY <3>1
    <2>3. QED
      BY <2>1, <2>2
  <1> HIDE DEF r
  <1>6. CASE Exits(1)
    BY <1>3, <1>6 DEF ProgramEnds, Exits
  <1>7. CASE r.kind = "ok" /\ Exits(ExitCode(r.value))
    <2>1. /\ client' = "done" /\ exit' = ExitCode(sent) /\ CloseEnds({"client"})
      BY <1>4, <1>7 DEF Exits
    <2>2. /\ ExitCode(sent) \in {1, 10, 11, 12}
          /\ ExitCode(sent) = 10 => sent = StatusDenied
          /\ ExitCode(sent) = 11 => sent = StatusBackendUnavailable
          /\ ExitCode(sent) = 12 => sent = StatusRateLimited
      BY DEF ExitCode, StatusDenied, StatusBackendUnavailable, StatusRateLimited
    <2>3. QED
      BY <1>3, <2>1, <2>2 DEF ProgramEnds
  <1>8. CASE /\ r.kind = "ok" /\ r.value = StatusOK /\ client' = "ack"
             /\ stream' = [Delivered("client", Payload) EXCEPT !["down"] = SubSeq(@, 3, Len(@))]
             /\ UNCHANGED <<exit, open, eof, cut>>
    <2> DEFINE x == Delivered("client", Payload)
    <2>1. Flowing /\ Payload \in Seq(Nat) /\ "client" \in Ends /\ Out["client"] = "up"
      BY Known, Wiring DEF Ends
    <2>2. /\ x \in [Streams -> Seq(Nat)] /\ \A s \in Streams \ {"up"} : x[s] = stream[s]
          /\ x["up"] = IF Reachable("client") THEN stream["up"] \o Payload ELSE stream["up"]
      BY <2>1, Delivers
    <2>3. stream' = [x EXCEPT !["down"] = SubSeq(@, 3, Len(@))]
      BY <1>8
    <2> HIDE DEF x
    <2>4. x["down"] = d
      BY <2>2, Wiring
    <2> HIDE DEF d
    <2>5. SubSeq(d, 3, Len(d)) \in Seq(Nat) /\ (Len(d) <= 2 => SubSeq(d, 3, Len(d)) = <<>>)
      <3>1. \A i \in 3..Len(d) : d[i] \in Nat
        BY <1>2
      <3>2. SubSeq(d, 3, Len(d)) \in Seq(Nat)
        BY <1>2, <3>1, SubSeqProperties
      <3>3. Len(d) <= 2 => SubSeq(d, 3, Len(d)) = <<>>
        BY <1>2, SubSeqEmpty
      <3>4. QED
        BY <3>2, <3>3
    <2>6. /\ Flowing' /\ stream'["up"] = x["up"] /\ stream'["down"] = SubSeq(d, 3, Len(d))
          /\ stream'["bup"] = stream["bup"] /\ stream'["bdown"] = stream["bdown"]
      BY <2>2, <2>3, <2>4, <2>5, Wiring DEF Flowing
    <2>7. stream'["down"] # <<>> => handled # <<>>
      BY <1>2, <1>3, <2>5, <2>6
    <2>8. QED
      BY <1>3, <1>4, <1>8, <2>2, <2>6, <2>7 DEF SenderGoesOn
  <1>9. QED
    BY <1>5, <1>6, <1>7, <1>8

LEMMA AckEndsIs ==
    ASSUME SessionInv, AckEnds
    PROVE  ProgramEnds
  <1>1. PICK ended \in BOOLEAN :
          LET r == ReadMessage(stream["down"], ended \/ Ended("down")) IN
          r.kind # "blocks" /\ Exits(IF r.kind = "message" THEN 0 ELSE 1)
    BY DEF AckEnds
  <1> DEFINE r == ReadMessage(stream["down"], ended \/ Ended("down"))
  <1>2. r.kind = "message" => HasLine(stream["down"])
    BY DEF ReadMessage
  <1>3. HasLine(stream["down"]) => stream["down"] # <<>>
    BY Known DEF HasLine
  <1>4. Exits(IF r.kind = "message" THEN 0 ELSE 1)
    BY <1>1
  <1> HIDE DEF r
  <1>5. exit' \in {0, 1} /\ client' = "done" /\ CloseEnds({"client"}) /\ (exit' = 0 => r.kind = "message")
    BY <1>4 DEF Exits
  <1>6. sent = StatusOK /\ (stream["down"] # <<>> => handled # <<>>)
    BY DEF SessionInv, DownInv, AckEnds
  <1>7. QED
    BY <1>2, <1>3, <1>5, <1>6 DEF ProgramEnds, AckEnds

LEMMA LeaveIs ==
    ASSUME SessionInv, Leave
    PROVE  ProgramEnds
  BY DEF SessionInv, PeerInv, Leave, Exits, ProgramEnds

LEMMA AdmitIs ==
    ASSUME SessionInv, Admit
    PROVE  HandlerEnds \/ HandlerAnswers(StatusRateLimited) \/ Admitted
  <1>1. /\ srv = "admit" /\ expired' = expired /\ expired \in BOOLEAN
        /\ UNCHANGED <<sinkVars, peerVars, service, expired, msgVars>>
    BY DEF Admit, SessionInv, TypeOK
  <1>2. CASE Returns /\ UNCHANGED sent
    BY <1>1, <1>2 DEF HandlerEnds
  <1>3. CASE Refuse(StatusRateLimited)
    BY <1>1, <1>3 DEF HandlerAnswers, StatusDenied, StatusBackendUnavailable, StatusRateLimited, StatusMalformed
  <1>4. CASE srv' = "hello" /\ UNCHANGED <<sent, netVars>>
    BY <1>1, <1>4 DEF Admitted
  <1>5. QED
    BY <1>2, <1>3, <1>4 DEF Admit

LEMMA PolicyIs ==
    ASSUME SessionInv, Policy
    PROVE  HandlerAnswers(StatusDenied) \/ GrantedOn
  <1>1. /\ srv = "policy" /\ expired' = expired /\ expired \in BOOLEAN
        /\ UNCHANGED <<sinkVars, peerVars, service, expired, msgVars>>
    BY DEF Policy, SessionInv, TypeOK
  <1>2. CASE service \in Granted
    BY <1>1, <1>2 DEF Policy, GrantedOn
  <1>3. CASE service \notin Granted
    BY <1>1, <1>3 DEF Policy, HandlerAnswers, StatusDenied, StatusBackendUnavailable, StatusMalformed
  <1>4. QED
    BY <1>2, <1>3

LEMMA DialBackendIs ==
    ASSUME SessionInv, DialBackend
    PROVE  HandlerAnswers(StatusBackendUnavailable) \/ Dialled
  <1>1. /\ srv = "dial" /\ expired' = expired /\ expired \in BOOLEAN
        /\ UNCHANGED <<peerVars, service, expired, msgVars>>
    BY DEF DialBackend, SessionInv, TypeOK
  <1>2. CASE /\ SinkDialled(Proxied)
             /\ srv' = "recheck" /\ open' = open \cup {"proxy", "sink"}
             /\ UNCHANGED <<sent, stream, eof, cut>>
    BY <1>1, <1>2 DEF Dialled
  <1>3. CASE Refuse(StatusBackendUnavailable) /\ UNCHANGED sinkVars
    BY <1>1, <1>3 DEF HandlerAnswers, StatusDenied, StatusBackendUnavailable, StatusMalformed
  <1>4. QED
    BY <1>2, <1>3 DEF DialBackend

LEMMA RespondIs ==
    ASSUME SessionInv, Respond
    PROVE  HandlerEnds \/ Responded
  <1>1. srv = "recheck" /\ expired \in BOOLEAN /\ UNCHANGED <<sinkVars, peerVars, service, expired, msgVars>>
    BY DEF Respond, SessionInv, TypeOK
  <1>2. QED
    BY <1>1 DEF Respond, HandlerEnds, Responded

LEMMA PipeIs ==
    ASSUME SessionInv, PipeEnds \/ Reaped
    PROVE  HandlerEnds
  BY DEF SessionInv, TypeOK, PipeEnds, Reaped, HandlerEnds

LEMMA NoticedIs ==
    ASSUME SessionInv, CloseWrite \/ Notice("client") \/ Notice("proxy")
    PROVE  Noticed
  <1>1. CASE CloseWrite
    BY <1>1, FinIs, Wiring DEF SessionInv, TypeOK, CloseWrite, Noticed
  <1>2. CASE Notice("client") \/ Notice("proxy")
    <2>1. PICK e \in open : eof' = eof \cup {In[e]}
      BY <1>2 DEF Notice
    <2>2. In[e] \in Streams
      BY Wiring DEF SessionInv, TypeOK, Ends
    <2>3. QED
      BY <1>2, <2>1, <2>2 DEF SessionInv, TypeOK, Notice, Noticed
  <1>3. QED
    BY <1>1, <1>2

LEMMA AckIs ==
    ASSUME SessionInv, Ack
    PROVE  AckWritten \/ SinkEnds
  <1>1. sinkPC = "ack" /\ sinkPC' = "read" /\ SinkTypeOK /\ UNCHANGED <<peerVars, srvVars, handled>>
    BY DEF Ack, SessionInv, TypeOK
  <1>2. CASE stream' = Delivered("sink", <<Letter, Newline>>) /\ UNCHANGED <<sinkVars, open, eof, cut>>
    BY <1>1, <1>2 DEF AckWritten
  <1>3. CASE CloseEnds({"sink"}) /\ SinkConnEnds(Proxied)
    BY <1>1, <1>3, SinkMoves DEF SinkEnds
  <1>4. QED
    BY <1>2, <1>3 DEF Ack

LEMMA ServeConnEndsIs ==
    ASSUME SessionInv, ServeConnEnds
    PROVE  SinkEnds
  BY SinkMoves DEF SessionInv, TypeOK, ServeConnEnds, SinkEnds, msgVars

LEMMA SinkIs ==
    ASSUME SessionInv, Serves(SinkStep) \/ SinkEnvironment
    PROVE  SinkEnds \/ SinkElsewhere
  <1>1. SinkTypeOK
    BY DEF SessionInv, TypeOK
  <1>2. CASE Serves(SinkStep)
    <2>1. SinkTypeOK' /\ UNCHANGED <<peerVars, srvVars, msgVars>> /\ (CloseEnds({"sink"}) \/ UNCHANGED netVars)
      BY <1>1, <1>2, SinkMoves DEF Serves
    <2>2. QED
      BY <2>1 DEF SinkEnds, SinkElsewhere, msgVars
  <1>3. CASE SinkEnvironment
    BY <1>1, <1>3, SinkMoves DEF SinkEnvironment, SinkElsewhere
  <1>4. QED
    BY <1>2, <1>3

LEMMA HelloIs ==
    ASSUME SessionInv, Hello
    PROVE  HandlerEnds \/ HandlerAnswers(StatusMalformed) \/ FrameTaken
  <1> DEFINE up == stream["up"]
             all == Frame \o Payload
  <1>1. PICK n \in 0..Len(up), fires \in BOOLEAN :
          LET atEnd == Ended("up") /\ n = Len(up)
              r == ReadHelloRequest(SubSeq(up, 1, n), fires \/ atEnd)
          IN  /\ r.kind # "blocks"
              /\ expired' = (fires /\ ReadHelloRequest(SubSeq(up, 1, n), atEnd).kind = "blocks")
              /\ CASE r.kind = "io" -> Returns /\ UNCHANGED <<service, sent>>
                   [] r.kind = "malformed" -> Refuse(StatusMalformed) /\ UNCHANGED service
                   [] OTHER ->
                         /\ service' = r.value /\ srv' = "policy"
                         /\ stream' = [stream EXCEPT !["up"] = Take(r.used, n)]
                         /\ UNCHANGED <<sent, open, eof, cut>>
    BY DEF Hello
  <1> DEFINE atEnd == Ended("up") /\ n = Len(up)
             e == fires \/ atEnd
             s == SubSeq(up, 1, n)
             r == ReadHelloRequest(s, e)
  <1>2. /\ srv = "hello" /\ UNCHANGED <<sinkVars, peerVars, msgVars>>
        /\ IsPrefix(up, AtOnce) /\ ("client" \notin cut => up = AtOnce)
    BY DEF Hello, SessionInv, FrameInv
  <1>3. /\ r.kind # "blocks" /\ expired' = (fires /\ ReadHelloRequest(s, atEnd).kind = "blocks")
        /\ r.kind = "io" => Returns /\ UNCHANGED <<service, sent>>
        /\ r.kind = "malformed" => Refuse(StatusMalformed) /\ UNCHANGED service
        /\ r.kind \notin {"io", "malformed"} =>
              /\ service' = r.value /\ srv' = "policy"
              /\ stream' = [stream EXCEPT !["up"] = Take(r.used, n)]
              /\ UNCHANGED <<sent, open, eof, cut>>
    BY <1>1
  <1>4. /\ up \in Seq(Nat) /\ AtOnce \in Seq(Nat) /\ all \in Seq(Nat) /\ IsPrefix(AtOnce, all)
        /\ Len(up) \in Nat /\ e \in BOOLEAN /\ expired' \in BOOLEAN
    BY <1>3, Known, JobBytes
  <1>5. s \in Seq(Nat) /\ IsPrefix(s, up) /\ Len(s) = n
    BY <1>4, CutIsPrefix
  <1> HIDE DEF up, all, e, s, r
  <1>6. IsPrefix(up, all) /\ IsPrefix(s, all)
    BY <1>2, <1>4, <1>5, PrefixTransitive
  <1>7. CASE r.kind = "io"
    BY <1>2, <1>3, <1>4, <1>7 DEF HandlerEnds
  <1>8. CASE r.kind = "malformed"
    <2>1. /\ Len(s) >= 2 /\ Len(all) >= 2
          /\ \/ ReadHelloRequest(all, TRUE) = Malformed
             \/ e /\ s[2] \in 1..MaxNameLen /\ s[1] = Version /\ Len(s) < 2 + s[2]
      BY <1>4, <1>5, <1>6, <1>8, ReadBad DEF r
    <2>2. ASSUME e, s[2] \in 1..MaxNameLen, s[1] = Version, Len(s) < 2 + s[2], ~expired', "client" \notin cut
          PROVE  ReadHelloRequest(all, TRUE) = Malformed
      <3>1. atEnd
        <4>1. ReadHelloRequest(s, FALSE).kind = "blocks"
          <5>1. Len(s) >= 2 /\ s \in Seq(Nat) /\ FALSE \in BOOLEAN
            BY <1>5, <2>1
          <5>2. ReadHelloRequest(s, FALSE) = Blocks
            BY <2>2, <5>1, ReadCases
          <5>3. Blocks.kind = "blocks"
            BY DEF Blocks, Result
          <5>4. QED
            BY <5>2, <5>3
        <4>2. ASSUME ~atEnd PROVE FALSE
          <5>1. fires /\ atEnd = FALSE
            BY <2>2, <4>2 DEF e
          <5>2. QED
            BY <1>3, <2>2, <4>1, <5>1
        <4>3. QED
          BY <4>2
      <3>2. n = Len(up) /\ up = AtOnce
        BY <1>2, <2>2, <3>1
      <3>3. s = AtOnce
        BY <1>4, <3>2, SubSeqFull DEF s
      <3>4. job.kind \in {"send", "raw"}
        BY Known
      <3>5. CASE job.kind = "raw"
        <4>1. s = all
          BY <3>3, <3>5, Known, JobBytes DEF all
        <4>2. Len(all) >= 2 /\ all[2] \in 1..MaxNameLen /\ all[1] = Version /\ Len(all) < 2 + all[2]
          BY <2>1, <2>2, <4>1
        <4>3. QED
          BY <1>4, <4>2, ReadCases
      <3>6. CASE job.kind = "send"
        <4>1. s = HelloRequest(job.service) /\ job.service \in Seq(Nat)
          BY <3>3, <3>6, Known, JobBytes
        <4>2. Len(HelloRequest(job.service)) = 2 + Len(job.service) /\ HelloRequest(job.service)[2] = Len(job.service)
          BY <4>1, RequestBytes
        <4>3. Len(s) = 2 + s[2] /\ Len(s) \in Nat
          BY <1>5, <4>1, <4>2
        <4>4. QED
          BY <2>2, <4>3
      <3>7. QED
        BY <3>4, <3>5, <3>6
    <2>3. JudgedMalformed
      BY <2>1, <2>2 DEF JudgedMalformed, all
    <2>4. QED
      BY <1>2, <1>3, <1>4, <1>8, <2>3
      DEF HandlerAnswers, StatusDenied, StatusBackendUnavailable, StatusMalformed
  <1>9. CASE r.kind \notin {"io", "malformed"}
    <2>1. r.kind = "ok"
      BY <1>3, <1>4, <1>5, <1>9, ReadKinds DEF r
    <2>2. /\ r.value \in Seq(Nat) /\ ValidServiceName(r.value) /\ r.used = 2 + Len(r.value)
          /\ r.used <= Len(s) /\ IsPrefix(HelloRequest(r.value), s)
      BY <1>4, <1>5, <2>1, ReadGood DEF r
    <2>3. IsPrefix(HelloRequest(r.value), all)
      <3>1. HelloRequest(r.value) \in Seq(Nat)
        BY <2>2, RequestBytes
      <3>2. QED
        BY <1>4, <1>5, <1>6, <2>2, <3>1, PrefixTransitive
    <2>4. job.kind = "send" => Len(up) <= r.used
      <3>1. ASSUME job.kind = "send" PROVE Len(up) <= r.used
        <4>1. r.value = job.service
          BY <2>2, <2>3, <3>1, Known, NameIsAsked DEF all
        <4>2. AtOnce = HelloRequest(job.service) /\ job.service \in Seq(Nat)
          BY <3>1, Known, JobBytes
        <4>3. Len(AtOnce) = 2 + Len(job.service)
          BY <4>2, RequestBytes
        <4>4. Len(up) <= Len(AtOnce)
          BY <1>2, <1>4, PrefixIs
        <4>5. QED
          BY <2>2, <4>1, <4>3, <4>4
      <3>2. QED
        BY <3>1
    <2>5. Take(r.used, n) = SubSeq(up, r.used + 1, Len(up))
      BY DEF Take, up
    <2> DEFINE rest == SubSeq(up, r.used + 1, Len(up))
               k == r.used
    <2>6. rest \in Seq(Nat) /\ (Len(up) <= r.used => rest = <<>>)
      <3>1. k \in Nat
        BY <2>2
      <3> HIDE DEF k
      <3>2. \A i \in (k + 1)..Len(up) : i \in 1..Len(up)
        BY <1>4, <3>1
      <3>3. \A i \in (k + 1)..Len(up) : up[i] \in Nat
        BY <1>4, <3>2, ElementOfSeq
      <3>4. SubSeq(up, k + 1, Len(up)) \in Seq(Nat)
        BY <1>4, <3>1, <3>3, SubSeqProperties
      <3>5. Len(up) <= k => SubSeq(up, k + 1, Len(up)) = <<>>
        BY <1>4, <3>1, SubSeqEmpty
      <3>6. QED
        BY <3>4, <3>5 DEF k
    <2> HIDE DEF rest
    <2>7. stream' = [stream EXCEPT !["up"] = rest]
      BY <1>3, <1>9, <2>5 DEF rest
    <2>8. /\ Flowing' /\ stream'["up"] = rest /\ stream'["down"] = stream["down"]
          /\ stream'["bup"] = stream["bup"] /\ stream'["bdown"] = stream["bdown"]
      BY <2>6, <2>7, Known, Wiring DEF Flowing
    <2>9. IsPrefix(rest, BehindHello')
      <3>1. job' = job /\ service' = r.value /\ Payload' = Payload /\ Payload \in Seq(Nat)
        BY <1>2, <1>3, <1>9, JobStays, Known DEF peerVars
      <3>2. job.kind \in {"send", "raw"}
        BY Known
      <3>3. CASE job.kind = "send"
        <4>1. rest = <<>> /\ BehindHello' = Payload
          BY <2>4, <2>6, <3>1, <3>3 DEF BehindHello
        <4>2. QED
          BY <3>1, <4>1, PrefixSelf
      <3>4. CASE job.kind = "raw"
        <4>1. AtOnce = Payload /\ IsPrefix(up, Payload)
          BY <1>2, <3>4, Known, JobBytes
        <4>2. k \in Nat /\ 3 + Len(r.value) = k + 1
          BY <2>2
        <4> HIDE DEF k
        <4>3. BehindHello' = SubSeq(Payload, k + 1, Len(Payload))
          BY <3>1, <3>4, <4>2 DEF BehindHello
        <4>4. IsPrefix(SubSeq(up, k + 1, Len(up)), SubSeq(Payload, k + 1, Len(Payload)))
          BY <1>4, <3>1, <4>1, <4>2, DropOfPrefix
        <4>5. QED
          BY <4>3, <4>4 DEF rest, k
      <3>5. QED
        BY <3>2, <3>3, <3>4
    <2>10. QED
      BY <1>2, <1>3, <1>4, <1>9, <2>2, <2>3, <2>4, <2>6, <2>8, <2>9 DEF FrameTaken, all
  <1>10. QED
    BY <1>7, <1>8, <1>9

-----------------------------------------------------------------------------
(* What the sink is given.                                                 *)

Lines(h) == [i \in DOMAIN h |-> Append(h[i], Newline)]

LEMMA LinesAre ==
    ASSUME NEW h \in Seq(Seq(Nat))
    PROVE  /\ Lines(h) \in Seq(Seq(Nat)) /\ Len(Lines(h)) = Len(h)
           /\ \A i \in 1..Len(h) : Lines(h)[i] = Append(h[i], Newline)
  <1>1. DOMAIN h = 1..Len(h) /\ Len(h) \in Nat /\ \A i \in 1..Len(h) : h[i] \in Seq(Nat)
    OBVIOUS
  <1>2. \A i \in 1..Len(h) : Append(h[i], Newline) \in Seq(Nat)
    BY <1>1, AppendProperties DEF Newline
  <1>3. QED
    BY <1>1, <1>2 DEF Lines

\* One message more is one line more.
LEMMA OneMoreLine ==
    ASSUME NEW h \in Seq(Seq(Nat)), NEW m \in Seq(Nat)
    PROVE  Lines(Append(h, m)) = Append(Lines(h), Append(m, Newline))
  <1> DEFINE g == Append(h, m)
             l == Append(Lines(h), Append(m, Newline))
             n == Len(h)
  <1>1. n \in Nat /\ g \in Seq(Seq(Nat)) /\ Len(g) = n + 1 /\ g[n + 1] = m /\ \A i \in 1..n : g[i] = h[i]
    BY AppendProperties
  <1>2. /\ Lines(h) \in Seq(Seq(Nat)) /\ Len(Lines(h)) = n
        /\ \A i \in 1..n : Lines(h)[i] = Append(h[i], Newline)
    BY LinesAre
  <1>3. Append(m, Newline) \in Seq(Nat)
    BY AppendProperties DEF Newline
  <1>4. /\ l \in Seq(Seq(Nat)) /\ Len(l) = n + 1 /\ l[n + 1] = Append(m, Newline)
        /\ \A i \in 1..n : l[i] = Append(h[i], Newline)
    <2>1. /\ l \in Seq(Seq(Nat)) /\ Len(l) = Len(Lines(h)) + 1 /\ l[Len(Lines(h)) + 1] = Append(m, Newline)
          /\ \A i \in 1..Len(Lines(h)) : l[i] = Lines(h)[i]
      BY <1>2, <1>3, AppendProperties
    <2>2. QED
      BY <1>2, <2>1
  <1> HIDE DEF g, l
  <1>5. /\ Lines(g) \in Seq(Seq(Nat)) /\ Len(Lines(g)) = n + 1
        /\ \A i \in 1..(n + 1) : Lines(g)[i] = Append(g[i], Newline)
    BY <1>1, LinesAre
  <1>6. ASSUME NEW i \in 1..(n + 1) PROVE Lines(g)[i] = l[i]
    <2>1. i = n + 1 \/ i \in 1..n
      BY <1>1
    <2>2. QED
      BY <1>1, <1>4, <1>5, <2>1
  <1>7. Lines(g) = l
    BY <1>1, <1>4, <1>5, <1>6, SeqEqual
  <1>8. QED
    BY <1>7 DEF g, l

LEMMA ConcatBytes ==
    ASSUME NEW s \in Seq(Nat), NEW t \in Seq(Nat), NEW u \in Seq(Nat)
    PROVE  (s \o t) \o u = s \o (t \o u)
  BY ConcatAssociative, SMTT(60)

LEMMA BytesBehind ==
    ASSUME NEW p \in Seq(Nat), NEW name \in Seq(Nat)
    PROVE  SubSeq(p, 3 + Len(name), Len(p)) \in Seq(Nat)
  <1> DEFINE k == 2 + Len(name)
  <1>1. k \in Nat /\ 3 + Len(name) = k + 1
    OBVIOUS
  <1> HIDE DEF k
  <1>2. SubSeq(p, k + 1, Len(p)) \in Seq(Nat)
    BY <1>1, PrefixSelf, DropOfPrefix
  <1>3. QED
    BY <1>1, <1>2

LEMMA KnownBytes ==
    ASSUME SessionInv
    PROVE  /\ Carried \in Seq(Nat) /\ BehindHello \in Seq(Nat)
           /\ handled = <<>> => Carried = <<>>
           /\ sent = Running => Carried \o stream["bup"] = <<>>
  <1>1. handled \in Seq(Seq(Nat)) /\ Carried = FlattenSeq(Lines(handled))
    BY Known DEF Carried, Lines
  <1>2. Lines(handled) \in Seq(Seq(Nat)) /\ Len(Lines(handled)) = Len(handled)
    BY <1>1, LinesAre
  <1>3. Carried \in Seq(Nat)
    <2>1. <<>> \in Seq(Nat)
      OBVIOUS
    <2>2. QED
      BY <1>1, <1>2, <2>1, FlattenAppend
  <1>4. handled = <<>> => Carried = <<>>
    <2>1. ASSUME handled = <<>> PROVE Carried = <<>>
      <3>1. Len(Lines(handled)) = 0
        BY <1>2, <2>1
      <3>2. Lines(handled) = <<>>
        BY <1>2, <3>1, EmptySeq
      <3>3. QED
        BY <1>1, <3>1, <3>2 DEF FlattenSeq
    <2>2. QED
      BY <2>1
  <1>5. BehindHello \in Seq(Nat)
    BY Known, BytesBehind DEF BehindHello
  <1>6. sent = Running => Carried \o stream["bup"] = <<>>
    <2>1. sent = Running => handled = <<>> /\ stream["bup"] = <<>>
      BY DEF SessionInv, AnswerInv
    <2>2. <<>> \o <<>> = <<>>
      OBVIOUS
    <2>3. QED
      BY <1>4, <2>1, <2>2
  <1>7. QED
    BY <1>3, <1>4, <1>5, <1>6

LEMMA BytesStay ==
    /\ UNCHANGED handled => Carried' = Carried
    /\ UNCHANGED <<job, service>> => BehindHello' = BehindHello
  BY DEF Carried, BehindHello, Payload

\* A step that leaves alone the bytes on their way to the sink.
Elsewhere ==
    /\ UNCHANGED <<job, service, handled>> /\ stream'["bup"] = stream["bup"]
    /\ srv' \in {"policy", "dial", "recheck"} =>
          srv \in {"policy", "dial", "recheck"} /\ stream'["up"] = stream["up"]
    /\ srv' = "pipe" =>
        /\ srv = "pipe" /\ stream'["up"] = stream["up"] /\ (Reachable("proxy")' => Reachable("proxy"))
        /\ client' = "response" => client = "response"

LEMMA ElsewhereKeeps ==
    ASSUME PipeInv, Elsewhere
    PROVE  PipeInv'
  <1>1. Carried' = Carried /\ BehindHello' = BehindHello
    BY BytesStay DEF Elsewhere
  <1>2. QED
    BY <1>1 DEF Elsewhere, PipeInv

LEMMA PeerElsewhere ==
    ASSUME SessionInv, DialFails \/ Dial \/ ProgramEnds \/ Noticed
    PROVE  Elsewhere
  <1>1. CASE DialFails
    BY <1>1 DEF DialFails, Elsewhere, srvVars, msgVars, netVars, Reachable
  <1>2. CASE Dial
    <2>1. stream' = [stream EXCEPT !["up"] = IF job.kind = "send" THEN Frame ELSE Payload]
      BY <1>2 DEF Dial
    <2>2. stream'["bup"] = stream["bup"]
      BY <2>1, Known, Wiring DEF Flowing
    <2>3. QED
      BY <1>2, <2>2 DEF Dial, Elsewhere, msgVars
  <1>3. CASE ProgramEnds
    <2>1. /\ open' = open \ {"client"} /\ eof \subseteq eof' /\ cut' = cut
          /\ stream'["up"] = stream["up"] /\ stream'["bup"] = stream["bup"]
      BY <1>3, Known, ClientCloses DEF ProgramEnds
    <2>2. Reachable("proxy")' => Reachable("proxy")
      BY <2>1, Wiring DEF Reachable
    <2>3. QED
      BY <1>3, <2>1, <2>2 DEF ProgramEnds, Elsewhere, srvVars, msgVars
  <1>4. CASE Noticed
    <2>1. Reachable("proxy")' => Reachable("proxy")
      BY <1>4 DEF Reachable, Noticed
    <2>2. QED
      BY <1>4, <2>1 DEF Noticed, Elsewhere, peerVars, srvVars, msgVars
  <1>5. QED
    BY <1>1, <1>2, <1>3, <1>4

LEMMA HandlerElsewhere ==
    ASSUME SessionInv, HandlerEnds \/ Admitted \/ GrantedOn \/ Dialled
    PROVE  Elsewhere
  <1>1. CASE HandlerEnds
    <2>1. srv' = "done" /\ stream'["bup"] = stream["bup"]
      BY <1>1, Known, HandlerReturns DEF HandlerEnds
    <2>2. QED
      BY <1>1, <2>1 DEF HandlerEnds, Elsewhere, peerVars, msgVars
  <1>2. CASE Admitted
    BY <1>2 DEF Admitted, Elsewhere, peerVars, msgVars, netVars
  <1>3. CASE GrantedOn
    BY <1>3 DEF GrantedOn, Elsewhere, peerVars, msgVars, netVars
  <1>4. CASE Dialled
    BY <1>4 DEF Dialled, Elsewhere, peerVars, msgVars
  <1>5. QED
    BY <1>1, <1>2, <1>3, <1>4

LEMMA AnswerElsewhere ==
    ASSUME SessionInv, NEW status, HandlerAnswers(status)
    PROVE  Elsewhere
  <1>1. Refuse(status) /\ status \in Nat
    BY DEF HandlerAnswers
  <1>2. srv' = "done" /\ stream'["bup"] = stream["bup"]
    BY <1>1, Known, HandlerRefuses
  <1>3. QED
    BY <1>2 DEF HandlerAnswers, Elsewhere, peerVars, msgVars

LEMMA SinkSideElsewhere ==
    ASSUME SessionInv, Copy("proxy", "server") \/ AckWritten \/ SinkElsewhere
    PROVE  Elsewhere
  <1>1. CASE Copy("proxy", "server")
    <2> DEFINE b == <<Head(stream["bdown"])>>
    <2>1. stream["bdown"] # <<>> /\ stream' = [Delivered("server", b) EXCEPT !["bdown"] = Tail(@)]
      BY <1>1, Wiring DEF Copy
    <2>2. b \in Seq(Nat)
      <3>1. stream["bdown"] \in Seq(Nat)
        BY Known
      <3>2. Head(stream["bdown"]) \in Nat
        BY <2>1, <3>1, HeadTailProperties
      <3>3. QED
        BY <3>2
    <2>3. Flowing /\ "server" \in Ends /\ Out["server"] = "down"
      BY Known, Wiring DEF Ends
    <2> HIDE DEF b
    <2>4. /\ Delivered("server", b) \in [Streams -> Seq(Nat)]
          /\ \A s \in Streams \ {"down"} : Delivered("server", b)[s] = stream[s]
      BY <2>2, <2>3, Delivers
    <2>5. stream'["up"] = stream["up"] /\ stream'["bup"] = stream["bup"]
      BY <2>1, <2>4, Wiring
    <2>6. Reachable("proxy")' => Reachable("proxy")
      BY <1>1 DEF Reachable, Copy
    <2>7. QED
      BY <1>1, <2>5, <2>6 DEF Copy, Elsewhere, peerVars, srvVars, msgVars
  <1>2. CASE AckWritten
    <2>1. Flowing /\ "sink" \in Ends /\ Out["sink"] = "bdown" /\ <<Letter, Newline>> \in Seq(Nat)
      BY Known, Wiring DEF Ends, Letter, Newline
    <2>2. \A s \in Streams \ {"bdown"} : stream'[s] = stream[s]
      BY <1>2, <2>1, Delivers DEF AckWritten
    <2>3. stream'["up"] = stream["up"] /\ stream'["bup"] = stream["bup"]
      BY <2>2, Wiring
    <2>4. Reachable("proxy")' => Reachable("proxy")
      BY <1>2 DEF Reachable, AckWritten
    <2>5. QED
      BY <1>2, <2>3, <2>4 DEF AckWritten, Elsewhere, peerVars, srvVars
  <1>3. CASE SinkElsewhere
    <2>1. Reachable("proxy")' => Reachable("proxy")
      BY <1>3 DEF Reachable, SinkElsewhere, netVars
    <2>2. QED
      BY <1>3, <2>1 DEF SinkElsewhere, Elsewhere, peerVars, srvVars, msgVars, netVars
  <1>4. QED
    BY <1>1, <1>2, <1>3

\* readHelloRequest leaves what is behind the frame.
LEMMA FrameTakenIntact ==
    ASSUME SessionInv, PipeInv, FrameTaken
    PROVE  PipeInv'
  <1>1. /\ srv = "hello" /\ srv' = "policy" /\ IsPrefix(stream'["up"], BehindHello')
        /\ job' = job /\ service' \in Seq(Nat) /\ handled' = handled /\ stream'["bup"] = stream["bup"]
    BY DEF FrameTaken, peerVars, msgVars
  <1>2. sent = Running
    BY <1>1 DEF SessionInv, AnswerInv
  <1>3. Carried' \o stream'["bup"] = <<>>
    BY <1>1, <1>2, KnownBytes, BytesStay
  <1>4. BehindHello' \in Seq(Nat)
    <2>1. Payload \in Seq(Nat) /\ Payload' = Payload
      BY <1>1, Known, JobStays
    <2>2. QED
      BY <1>1, <2>1, BytesBehind DEF BehindHello
  <1>5. IsPrefix(<<>>, BehindHello')
    BY <1>4, PrefixSelf
  <1>6. QED
    BY <1>1, <1>3, <1>5 DEF PipeInv

LEMMA RespondedIntact ==
    ASSUME SessionInv, PipeInv, Responded
    PROVE  PipeInv'
  <1>1. Carried' = Carried /\ BehindHello' = BehindHello
    BY BytesStay DEF Responded, peerVars, msgVars
  <1>2. srv = "recheck" /\ srv' = "pipe" /\ handled' = handled
    BY DEF Responded, msgVars
  <1>3. handled = <<>> /\ Carried \o stream["bup"] = <<>>
    BY <1>2, KnownBytes DEF SessionInv, AnswerInv
  <1>4. stream'["up"] = stream["up"] /\ stream'["bup"] = stream["bup"]
    <2>1. Flowing /\ "server" \in Ends /\ Out["server"] = "down" /\ HelloResponse(StatusOK) \in Seq(Nat)
      BY Known, Wiring, ResponseBytes DEF Ends, StatusOK
    <2>2. \A s \in Streams \ {"down"} : stream'[s] = stream[s]
      BY <2>1, Delivers DEF Responded
    <2>3. QED
      BY <2>2, Wiring
  <1>5. <<>> \o stream["up"] = stream["up"]
    BY Known, ConcatEmptySeq
  <1>6. (Carried \o stream["bup"]) \o stream["up"] = stream["up"]
    BY <1>3, <1>5
  <1>7. IsPrefix(stream["up"], BehindHello) /\ IsPrefix(Carried \o stream["bup"], BehindHello)
    BY <1>2 DEF PipeInv
  <1>8. QED
    BY <1>1, <1>2, <1>3, <1>4, <1>6, <1>7 DEF PipeInv

LEMMA SenderGoesOnIntact ==
    ASSUME SessionInv, PipeInv, SenderGoesOn
    PROVE  PipeInv'
  <1>1. Carried' = Carried /\ BehindHello' = BehindHello
    BY BytesStay DEF SenderGoesOn, srvVars, msgVars
  <1>2. /\ client = "response" /\ client' = "ack" /\ srv' = srv /\ sent = StatusOK
        /\ stream'["up"] \in {stream["up"], stream["up"] \o Payload} /\ stream'["bup"] = stream["bup"]
    BY DEF SenderGoesOn, srvVars
  <1>3. srv \notin {"policy", "dial", "recheck"} /\ job.kind = "send"
    BY <1>2 DEF SessionInv, AnswerInv, PeerInv, Running, StatusOK
  <1>4. ASSUME srv = "pipe" PROVE IsPrefix((Carried \o stream'["bup"]) \o stream'["up"], BehindHello)
    <2>1. Carried = <<>> /\ stream["up"] = <<>> /\ stream["bup"] = <<>> /\ BehindHello = Payload
      BY <1>2, <1>3, <1>4, KnownBytes DEF SessionInv, PayloadInv, PipeInv, BehindHello
    <2>2. <<>> \o <<>> = <<>> /\ <<>> \o Payload = Payload
      BY Known, ConcatEmptySeq
    <2>3. stream'["up"] \in {<<>>, Payload} /\ Carried \o stream'["bup"] = <<>>
      BY <1>2, <2>1, <2>2
    <2>4. (Carried \o stream'["bup"]) \o stream'["up"] \in {<<>>, Payload}
      BY <2>2, <2>3
    <2>5. QED
      BY <2>1, <2>4, Known, PrefixSelf
  <1>5. QED
    BY <1>1, <1>2, <1>3, <1>4 DEF PipeInv

LEMMA CopyUpIntact ==
    ASSUME SessionInv, PipeInv, Copy("server", "proxy")
    PROVE  PipeInv'
  <1>1. Carried' = Carried /\ BehindHello' = BehindHello
    BY BytesStay DEF Copy, peerVars, srvVars, msgVars
  <1> DEFINE c == Carried
             up == stream["up"]
             bup == stream["bup"]
             b == <<Head(up)>>
  <1>2. /\ srv = "pipe" /\ srv' = srv /\ client' = client /\ handled' = handled /\ up # <<>>
        /\ stream'["up"] = Tail(up) /\ stream'["bup"] = IF Reachable("proxy") THEN bup \o b ELSE bup
        /\ open' = open /\ eof' = eof /\ cut' = cut
    BY CopyUpIs
  <1>3. /\ c \in Seq(Nat) /\ up \in Seq(Nat) /\ bup \in Seq(Nat) /\ BehindHello \in Seq(Nat)
        /\ c \o bup \in Seq(Nat)
    BY Known, KnownBytes
  <1>4. Reachable("proxy")' = Reachable("proxy")
    BY <1>2 DEF Reachable
  <1>5. CASE ~Reachable("proxy")
    BY <1>1, <1>2, <1>4, <1>5 DEF PipeInv
  <1>6. CASE Reachable("proxy")
    <2>1. IsPrefix((c \o bup) \o up, BehindHello)
      BY <1>2, <1>6 DEF PipeInv
    <2>2. b \in Seq(Nat) /\ Tail(up) \in Seq(Nat)
      BY <1>2, <1>3, HeadTailProperties
    <2>3. ((c \o bup) \o b) \o Tail(up) = (c \o bup) \o up
      BY <1>2, <1>3, MoveOne
    <2> HIDE DEF c, up, bup, b
    <2>4. c \o (bup \o b) = (c \o bup) \o b /\ c \o (bup \o b) \in Seq(Nat)
      <3>1. bup \o b \in Seq(Nat)
        BY <1>3, <2>2
      <3>2. c \o (bup \o b) \in Seq(Nat)
        BY <1>3, <3>1
      <3>3. (c \o bup) \o b = c \o (bup \o b)
        <4>1. c \in Seq(Nat) /\ bup \in Seq(Nat) /\ b \in Seq(Nat)
          BY <1>3, <2>2
        <4>2. QED
          BY ONLY <4>1, ConcatBytes
      <3>4. QED
        BY <3>2, <3>3
    <2>5. IsPrefix((c \o (bup \o b)) \o Tail(up), BehindHello)
      BY <2>1, <2>3, <2>4
    <2>6. IsPrefix(c \o (bup \o b), BehindHello)
      BY <1>3, <2>2, <2>4, <2>5, ConcatHead
    <2>7. stream'["up"] = Tail(up) /\ stream'["bup"] = bup \o b
      BY <1>2, <1>6
    <2>8. QED
      BY <1>1, <1>2, <1>4, <2>5, <2>6, <2>7 DEF PipeInv, c
  <1>7. QED
    BY <1>5, <1>6

\* readMessage takes the first line and its newline, and hands it on whole.
LEMMA HandleIntact ==
    ASSUME SessionInv, PipeInv, Handle
    PROVE  PipeInv'
  <1> DEFINE bup == stream["bup"]
             m == FirstLine(bup)
             line == Append(m, Newline)
             rest == SubSeq(bup, Len(m) + 2, Len(bup))
  <1>1. /\ srv' = srv /\ client' = client /\ open' = open /\ eof' = eof /\ cut' = cut /\ HasLine(bup) /\ bup # <<>>
        /\ handled' = Append(handled, m) /\ stream'["bup"] = rest /\ stream'["up"] = stream["up"]
        /\ job' = job /\ service' = service
    BY HandleIs DEF Handle, peerVars
  <1>2. /\ bup \in Seq(Nat) /\ handled \in Seq(Seq(Nat)) /\ Carried \in Seq(Nat) /\ stream["up"] \in Seq(Nat)
    BY Known, KnownBytes
  <1>3. m \in Seq(Nat) /\ rest \in Seq(Nat) /\ line \o rest = bup /\ line \in Seq(Nat)
    <2>1. m \in Seq(Nat) /\ rest \in Seq(Nat) /\ line \o rest = bup
      BY <1>1, <1>2, LineAndRest
    <2>2. QED
      BY <2>1, AppendProperties, ZenonT(60) DEF Newline
  <1>4. Carried' = Carried \o line
    <2>1. Carried = FlattenSeq(Lines(handled)) /\ Carried' = FlattenSeq(Lines(handled'))
      BY DEF Carried, Lines
    <2> HIDE DEF m
    <2>2. Lines(handled') = Append(Lines(handled), line) /\ Lines(handled) \in Seq(Seq(Nat))
      BY <1>1, <1>2, <1>3, OneMoreLine, LinesAre
    <2>3. QED
      BY <1>3, <2>1, <2>2, FlattenAppend
  <1> HIDE DEF bup, m, line, rest
  <1>5. Carried' \o stream'["bup"] = Carried \o bup
    <2>1. (Carried \o line) \o rest = Carried \o (line \o rest)
      BY <1>2, <1>3, ConcatBytes, ZenonT(60)
    <2>2. QED
      BY <1>1, <1>3, <1>4, <2>1
  <1>6. BehindHello' = BehindHello /\ Reachable("proxy")' = Reachable("proxy")
    BY <1>1, BytesStay DEF Reachable
  <1>7. srv \notin {"policy", "dial", "recheck"} /\ ~(srv = "pipe" /\ client = "response")
    BY <1>1 DEF SessionInv, AnswerInv, PayloadInv, PeerInv, bup
  <1>8. QED
    BY <1>1, <1>5, <1>6, <1>7 DEF PipeInv, bup

LEMMA SinkEndsIntact ==
    ASSUME SessionInv, PipeInv, SinkEnds
    PROVE  PipeInv'
  <1>1. Carried' = Carried /\ BehindHello' = BehindHello
    BY BytesStay DEF SinkEnds, peerVars, srvVars
  <1>2. /\ srv' = srv /\ client' = client /\ handled' = handled /\ open' = open \ {"sink"}
        /\ stream'["up"] = stream["up"] /\ stream'["bup"] = <<>>
    BY Known, SinkCloses DEF SinkEnds, peerVars, srvVars
  <1>3. ~Reachable("proxy")'
    BY <1>2, Wiring DEF Reachable
  <1>4. IsPrefix(Carried, BehindHello)
    BY Known, KnownBytes, ConcatHead DEF PipeInv
  <1>5. Carried \o <<>> = Carried
    BY KnownBytes, ConcatEmptySeq
  <1>6. QED
    BY <1>1, <1>2, <1>3, <1>4, <1>5 DEF PipeInv

LEMMA CutClientIntact ==
    ASSUME SessionInv, PipeInv, Cut("client")
    PROVE  PipeInv'
  <1>1. Carried' = Carried /\ BehindHello' = BehindHello
    BY BytesStay DEF Cut, peerVars, srvVars, msgVars
  <1>2. /\ srv' = srv /\ client' = client /\ handled' = handled /\ open' = open
        /\ eof' = eof /\ cut \subseteq cut' /\ stream'["bup"] = stream["bup"]
    BY Known, CutLeaves, Wiring DEF Cut, peerVars, srvVars, msgVars
  <1>3. PICK n \in 0..Len(stream["up"]) : stream'["up"] = SubSeq(stream["up"], 1, n)
    BY Known, CutLeaves, Wiring, ZenonT(60)
  <1>4. Reachable("proxy")' => Reachable("proxy")
    BY <1>2 DEF Reachable
  <1>5. /\ stream["up"] \in Seq(Nat) /\ Carried \o stream["bup"] \in Seq(Nat) /\ BehindHello \in Seq(Nat)
    BY Known, KnownBytes
  <1>6. IsPrefix(stream["up"], BehindHello) => IsPrefix(stream'["up"], BehindHello)
    <2>1. stream'["up"] \in Seq(Nat) /\ IsPrefix(stream'["up"], stream["up"])
      BY <1>3, <1>5, CutIsPrefix
    <2>2. QED
      BY <1>5, <2>1, PrefixTransitive
  <1>7. IsPrefix((Carried \o stream["bup"]) \o stream["up"], BehindHello) =>
          IsPrefix((Carried \o stream["bup"]) \o stream'["up"], BehindHello)
    BY <1>3, <1>5, ConcatCut
  <1>8. QED
    BY <1>1, <1>2, <1>4, <1>6, <1>7 DEF PipeInv

LEMMA CutProxyIntact ==
    ASSUME SessionInv, PipeInv, Cut("proxy")
    PROVE  PipeInv'
  <1>1. Carried' = Carried /\ BehindHello' = BehindHello
    BY BytesStay DEF Cut, peerVars, srvVars, msgVars
  <1>2. /\ srv' = srv /\ client' = client /\ handled' = handled
        /\ "proxy" \in cut' /\ stream'["up"] = stream["up"]
    BY Known, CutLeaves, Wiring DEF Cut, peerVars, srvVars, msgVars
  <1>3. PICK n \in 0..Len(stream["bup"]) : stream'["bup"] = SubSeq(stream["bup"], 1, n)
    BY Known, CutLeaves, Wiring, ZenonT(60)
  <1>4. ~Reachable("proxy")'
    BY <1>2, Wiring DEF Reachable
  <1>5. IsPrefix(Carried \o stream'["bup"], BehindHello)
    BY <1>3, Known, KnownBytes, ConcatCut DEF PipeInv
  <1>6. QED
    BY <1>1, <1>2, <1>4, <1>5 DEF PipeInv

-----------------------------------------------------------------------------
(* The theorems.                                                           *)

LEMMA InitHolds == Init => SessionInv
  <1> SUFFICES ASSUME Init PROVE SessionInv
    OBVIOUS
  <1>1. /\ \A s \in Streams : stream[s] = <<>>
        /\ stream \in [Streams -> Seq(Nat)] /\ SinkTypeOK
    BY EmptySeq DEF Init, SinkInit, SinkTypeOK
  <1>2. TypeOK
    BY <1>1, EmptySeq DEF Init, TypeOK, Running, Ends
  <1>3. PeerInv /\ FrameInv /\ AnswerInv
    BY <1>1, Wiring
    DEF Init, PeerInv, FrameInv, FrameJudged, AnswerInv, Running, StatusOK, StatusDenied,
        StatusBackendUnavailable, StatusMalformed
  <1>4. DownInv /\ ExitInv
    BY <1>1, Wiring DEF Init, DownInv, ExitInv, Running
  <1>5. PayloadInv
    <2>1. Payload \in Seq(Nat)
      BY JobBytes DEF Init
    <2>2. IsPrefix(<<>>, Payload)
      BY <2>1, PrefixSelf
    <2>3. QED
      BY <1>1, <2>2, Wiring DEF Init, PayloadInv
  <1>6. QED
    BY <1>2, <1>3, <1>4, <1>5 DEF SessionInv

LEMMA StutterHolds == SessionInv /\ UNCHANGED vars => SessionInv'
  <1> SUFFICES ASSUME SessionInv, UNCHANGED vars PROVE SessionInv'
    OBVIOUS
  <1>1. SinkElsewhere
    BY SinkStays DEF SessionInv, TypeOK, SinkElsewhere, vars
  <1>2. QED
    BY <1>1, SinkElsewhereStep

LEMMA NextHolds ==
    ASSUME SessionInv, [Next]_vars
    PROVE  SessionInv'
  <1>1. CASE UNCHANGED vars
    BY <1>1, StutterHolds
  <1>2. CASE ClientStep
    BY <1>2, DialFailsStep, DialStep, ResponseIs, AckEndsIs, ProgramEndsStep, SenderGoesOnStep DEF ClientStep
  <1>3. CASE CloseWrite \/ Leave
    BY <1>3, NoticedIs, NoticedStep, LeaveIs, ProgramEndsStep
  <1>4. CASE HandlerStep
    <2>1. CASE Admit \/ Hello
      BY <2>1, AdmitIs, HelloIs, HandlerEndsStep, HandlerAnswersStep, AdmittedStep, FrameTakenStep
    <2>2. CASE Policy \/ DialBackend
      BY <2>2, PolicyIs, DialBackendIs, HandlerAnswersStep, GrantedStep, DialledStep
    <2>3. CASE Respond \/ PipeEnds
      BY <2>3, RespondIs, PipeIs, HandlerEndsStep, RespondedStep
    <2>4. CASE Copy("server", "proxy") \/ Copy("proxy", "server")
      BY <2>4, CopyUpStep, CopyDownStep
    <2>5. QED
      BY <1>4, <2>1, <2>2, <2>3, <2>4 DEF HandlerStep
  <1>5. CASE Reaped
    BY <1>5, PipeIs, HandlerEndsStep
  <1>6. CASE ServeConnStep
    BY <1>6, HandleStep, AckIs, AckWrittenStep, ServeConnEndsIs, SinkEndsStep DEF ServeConnStep
  <1>7. CASE Serves(SinkStep) \/ SinkEnvironment
    BY <1>7, SinkIs, SinkEndsStep, SinkElsewhereStep
  <1>8. CASE Cut("client") \/ Cut("proxy")
    BY <1>8, CutClientStep, CutProxyStep
  <1>9. CASE Notice("client") \/ Notice("proxy")
    BY <1>9, NoticedIs, NoticedStep
  <1>10. QED
    BY <1>1, <1>2, <1>3, <1>4, <1>5, <1>6, <1>7, <1>8, <1>9 DEF Next

LEMMA NextIntact ==
    ASSUME SessionInv, PipeInv, [Next]_vars
    PROVE  PipeInv'
  <1>1. CASE UNCHANGED vars
    <2>1. SinkElsewhere
      BY <1>1, SinkStays DEF SessionInv, TypeOK, SinkElsewhere, vars
    <2>2. QED
      BY <2>1, SinkSideElsewhere, ElsewhereKeeps
  <1>2. CASE ClientStep
    BY <1>2, ResponseIs, AckEndsIs, PeerElsewhere, ElsewhereKeeps, SenderGoesOnIntact DEF ClientStep
  <1>3. CASE CloseWrite \/ Leave
    BY <1>3, NoticedIs, LeaveIs, PeerElsewhere, ElsewhereKeeps
  <1>4. CASE HandlerStep
    <2>1. CASE Admit \/ Hello
      BY <2>1, AdmitIs, HelloIs, HandlerElsewhere, AnswerElsewhere, ElsewhereKeeps, FrameTakenIntact
    <2>2. CASE Policy \/ DialBackend
      BY <2>2, PolicyIs, DialBackendIs, HandlerElsewhere, AnswerElsewhere, ElsewhereKeeps
    <2>3. CASE Respond \/ PipeEnds
      BY <2>3, RespondIs, PipeIs, HandlerElsewhere, ElsewhereKeeps, RespondedIntact
    <2>4. CASE Copy("server", "proxy") \/ Copy("proxy", "server")
      BY <2>4, CopyUpIntact, SinkSideElsewhere, ElsewhereKeeps
    <2>5. QED
      BY <1>4, <2>1, <2>2, <2>3, <2>4 DEF HandlerStep
  <1>5. CASE Reaped
    BY <1>5, PipeIs, HandlerElsewhere, ElsewhereKeeps
  <1>6. CASE ServeConnStep
    BY <1>6, HandleIntact, AckIs, SinkSideElsewhere, ElsewhereKeeps, ServeConnEndsIs, SinkEndsIntact
    DEF ServeConnStep
  <1>7. CASE Serves(SinkStep) \/ SinkEnvironment
    BY <1>7, SinkIs, SinkEndsIntact, SinkSideElsewhere, ElsewhereKeeps
  <1>8. CASE Cut("client") \/ Cut("proxy")
    BY <1>8, CutClientIntact, CutProxyIntact
  <1>9. CASE Notice("client") \/ Notice("proxy")
    BY <1>9, NoticedIs, PeerElsewhere, ElsewhereKeeps
  <1>10. QED
    BY <1>1, <1>2, <1>3, <1>4, <1>5, <1>6, <1>7, <1>8, <1>9 DEF Next

LEMMA InvHolds == Spec => []SessionInv
  <1>1. SessionInv /\ [Next]_vars => SessionInv'
    BY NextHolds
  <1>2. QED
    BY <1>1, InitHolds, PTL DEF Spec

\* The exit codes of gocloak-send are the server's verdicts: for a service
\* name, a message and a policy of any size, and wherever a stream is cut,
\* 10, 11 and 12 report what handleConn answered to the name that was asked
\* for, and 14 a name that never left the sender.
THEOREM ExitsAreHonest == Spec => []ExitHonest
  <1>1. SessionInv => ExitHonest
    <2> SUFFICES ASSUME SessionInv, job.kind = "send" PROVE
          /\ exit = 10 => sent = StatusDenied /\ job.service \notin Granted
          /\ exit = 11 => sent = StatusBackendUnavailable /\ job.service \in Granted
          /\ exit = 12 => sent = StatusRateLimited
          /\ exit = 14 => srv = "none" /\ ~ValidServiceName(job.service)
      BY DEF ExitHonest
    <2>1. /\ exit = 10 => sent = StatusDenied
          /\ exit = 11 => sent = StatusBackendUnavailable
          /\ exit = 12 => sent = StatusRateLimited
          /\ exit = 14 => srv = "none" /\ ~ValidServiceName(job.service)
      BY DEF SessionInv, ExitInv
    <2>2. sent \in {StatusDenied, StatusBackendUnavailable} => service = job.service
      <3>1. sent \in {StatusDenied, StatusBackendUnavailable} => IsPrefix(HelloRequest(service), Frame \o Payload)
        BY DEF SessionInv, FrameInv, FrameJudged
      <3>2. QED
        BY <3>1, Known, NameIsAsked
    <2>3. QED
      BY <2>1, <2>2 DEF SessionInv, AnswerInv
  <1>2. QED
    BY <1>1, InvHolds, PTL

\* Exit code 0 of gocloak-send is a delivery: the sink's handler was called
\* with the message, or with its first line, however the bytes were split
\* and whatever was cut after the ack.
THEOREM AckedMessagesAreHandled == Spec => []AckedIsHandled
  <1>1. SessionInv => AckedIsHandled
    BY DEF SessionInv, ExitInv, PayloadInv, AckedIsHandled
  <1>2. QED
    BY <1>1, InvHolds, PTL

\* handleConn judges a frame by what was sent and not by how it arrived, for
\* frames of any length and every split, cut and deadline.
THEOREM FramesAreJudged == Spec => []FrameJudged
  <1>1. SessionInv => FrameJudged
    BY DEF SessionInv, FrameInv
  <1>2. QED
    BY <1>1, InvHolds, PTL

\* The pipe of handleConn and the sink's readMessage are transparent: the
\* messages handled are the lines of what the peer sent behind its hello, in
\* order, from the first one on and none twice, for streams of any length,
\* however they are split, cut or closed, and also when the bytes behind the
\* hello arrive with it.
THEOREM PayloadStaysIntact == Spec => []PayloadIntact
  <1>1. Init => PipeInv
    <2> SUFFICES ASSUME Init PROVE PipeInv
      OBVIOUS
    <2>1. SessionInv
      BY InitHolds
    <2>2. Carried \o stream["bup"] = <<>> /\ BehindHello \in Seq(Nat)
      BY <2>1, KnownBytes DEF Init
    <2>3. IsPrefix(<<>>, BehindHello)
      BY <2>2, PrefixSelf
    <2>4. QED
      BY <2>2, <2>3 DEF Init, PipeInv
  <1>2. SessionInv /\ PipeInv /\ [Next]_vars => PipeInv'
    BY NextIntact
  <1>3. SessionInv /\ PipeInv => PayloadIntact
    <2> SUFFICES ASSUME SessionInv, PipeInv PROVE IsPrefix(Carried, BehindHello)
      BY DEF PayloadIntact
    <2>1. stream["bup"] \in Seq(Nat) /\ IsPrefix(Carried \o stream["bup"], BehindHello)
      BY Known DEF PipeInv
    <2>2. QED
      BY <2>1, KnownBytes, ConcatHead
  <1>4. QED
    BY <1>1, <1>2, <1>3, InvHolds, PTL DEF Spec
=============================================================================
