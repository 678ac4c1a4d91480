---------------------------- MODULE ElementLemmas ----------------------------
(* Facts about the elements of a sequence, used by the proof modules. *)
EXTENDS Integers, Sequences, FiniteSets, Functions, SequenceTheorems, FiniteSetTheorems, TLAPS

-----------------------------------------------------------------------------
(* What Append and Tail do to the elements of a sequence.                  *)

\* Append adds one element; it keeps the elements distinct if that one is new.
LEMMA AppendElements ==
  ASSUME NEW S, NEW s \in Seq(S), NEW e \in S
  PROVE  /\ Append(s, e) \in Seq(S)
         /\ Len(Append(s, e)) = Len(s) + 1
         /\ Range(Append(s, e)) = Range(s) \cup {e}
         /\ IsInjective(s) /\ e \notin Range(s) => IsInjective(Append(s, e))
<1> DEFINE t == Append(s, e)
<1>1. /\ t \in Seq(S) /\ Len(t) = Len(s) + 1
      /\ \A i \in 1 .. Len(s) : t[i] = s[i]
      /\ t[Len(s) + 1] = e
  OBVIOUS
<1>2. DOMAIN s = 1 .. Len(s) /\ DOMAIN t = 1 .. Len(s) + 1 /\ Len(s) \in Nat
  BY <1>1
<1> HIDE DEF t
<1>3. Range(t) = Range(s) \cup {e}
  <2>1. Range(t) \subseteq Range(s) \cup {e}
    BY <1>1, <1>2 DEF Range
  <2>2. Range(s) \cup {e} \subseteq Range(t)
    BY <1>1, <1>2 DEF Range
  <2> QED  BY <2>1, <2>2
<1>4. IsInjective(s) /\ e \notin Range(s) => IsInjective(t)
  BY <1>1, <1>2 DEF IsInjective, Range
<1> QED  BY <1>1, <1>3, <1>4 DEF t

\* Head and Tail split the elements; of distinct ones the head is not in the tail.
LEMMA TailElements ==
  ASSUME NEW S, NEW s \in Seq(S), s # <<>>
  PROVE  /\ Head(s) \in S /\ Tail(s) \in Seq(S)
         /\ Len(Tail(s)) = Len(s) - 1
         /\ Range(s) = {Head(s)} \cup Range(Tail(s))
         /\ IsInjective(s) => IsInjective(Tail(s)) /\ Head(s) \notin Range(Tail(s))
<1> DEFINE t == Tail(s)  h == Head(s)
<1>1. /\ t \in Seq(S) /\ h \in S /\ Len(s) \in Nat \ {0} /\ Len(t) = Len(s) - 1
      /\ \A i \in 1 .. Len(s) - 1 : t[i] = s[i + 1]
      /\ h = s[1]
  BY HeadTailProperties, EmptySeq
<1>2. DOMAIN s = 1 .. Len(s) /\ DOMAIN t = 1 .. Len(s) - 1
  BY <1>1
<1> HIDE DEF t, h
<1>3. Range(s) = {h} \cup Range(t)
  <2>1. ASSUME NEW i \in 1 .. Len(s) PROVE s[i] \in {h} \cup Range(t)
    <3>1. CASE i = 1  BY <3>1, <1>1
    <3>2. CASE i # 1
      <4>1. i - 1 \in 1 .. Len(s) - 1 /\ t[i - 1] = s[i]  BY <3>2, <1>1
      <4> QED  BY <4>1, <1>2 DEF Range
    <3> QED  BY <3>1, <3>2
  <2>2. h \in Range(s)
    <3>1. 1 \in 1 .. Len(s)  BY <1>1
    <3> QED  BY <3>1, <1>1, <1>2 DEF Range
  <2>3. ASSUME NEW i \in 1 .. Len(s) - 1 PROVE t[i] \in Range(s)
    <3>1. i + 1 \in 1 .. Len(s) /\ t[i] = s[i + 1]  BY <1>1
    <3> QED  BY <3>1, <1>2 DEF Range
  <2> QED  BY <2>1, <2>2, <2>3, <1>2 DEF Range
<1>4. ASSUME IsInjective(s) PROVE IsInjective(t) /\ h \notin Range(t)
  <2>1. \A i, j \in 1 .. Len(s) : s[i] = s[j] => i = j
    BY <1>2, <1>4 DEF IsInjective
  <2>2. ASSUME NEW i \in 1 .. Len(s) - 1, NEW j \in 1 .. Len(s) - 1, t[i] = t[j] PROVE i = j
    <3>1. i + 1 \in 1 .. Len(s) /\ j + 1 \in 1 .. Len(s) /\ s[i + 1] = s[j + 1]
      BY <1>1, <2>2
    <3>2. i + 1 = j + 1  BY <3>1, <2>1
    <3> QED  BY <3>2
  <2>3. ASSUME NEW i \in 1 .. Len(s) - 1 PROVE t[i] # h
    <3>1. 1 \in 1 .. Len(s) /\ i + 1 \in 1 .. Len(s) /\ i + 1 # 1
      BY <1>1
    <3>2. s[i + 1] # s[1]  BY <3>1, <2>1
    <3> QED  BY <3>2, <1>1
  <2> QED  BY <1>2, <2>2, <2>3 DEF IsInjective, Range
<1> QED  BY <1>1, <1>3, <1>4 DEF t, h

\* A sequence has at most as many elements as it is long.
LEMMA ElementsBound ==
  ASSUME NEW S, NEW s \in Seq(S)
  PROVE  IsFiniteSet(Range(s)) /\ Cardinality(Range(s)) <= Len(s)
<1>1. Len(s) \in Nat /\ DOMAIN s = 1 .. Len(s) /\ s \in [1 .. Len(s) -> Range(s)]
  BY DEF Range
<1>2. s \in Surjection(1 .. Len(s), Range(s))
  BY <1>1 DEF Surjection, Range
<1>3. IsFiniteSet(1 .. Len(s)) /\ Cardinality(1 .. Len(s)) = Len(s)
  BY <1>1, FS_Interval
<1> QED  BY <1>2, <1>3, FS_Surjection

\* Append adds an element of any kind to a sequence.
LEMMA AppendAny ==
  ASSUME NEW s, s \in Seq(Range(s)), NEW e
  PROVE  /\ Len(s) \in Nat /\ DOMAIN s = 1 .. Len(s)
         /\ Append(s, e) \in Seq(Range(Append(s, e)))
         /\ Range(Append(s, e)) = Range(s) \cup {e}
         /\ DOMAIN Append(s, e) = 1 .. Len(s) + 1
         /\ \A n \in 1 .. Len(s) : Append(s, e)[n] = s[n]
         /\ Append(s, e)[Len(s) + 1] = e
<1> DEFINE S == Range(s) \cup {e}
<1>1. s \in Seq(S)
  BY SeqMonotonic
<1>2. Range(Append(s, e)) = S /\ Append(s, e) \in Seq(S)
  BY <1>1, AppendElements
<1>3. /\ Len(s) \in Nat /\ DOMAIN s = 1 .. Len(s)
      /\ DOMAIN Append(s, e) = 1 .. Len(s) + 1
      /\ \A n \in 1 .. Len(s) : Append(s, e)[n] = s[n]
      /\ Append(s, e)[Len(s) + 1] = e
  BY <1>1, <1>2, LenProperties, AppendProperties
<1> QED  BY <1>2, <1>3

-----------------------------------------------------------------------------
(* Sets of numbers.                                                        *)

\* A nonempty finite set of numbers has a least one.
LEMMA LeastExists ==
  ASSUME NEW n \in Nat, NEW S \in SUBSET (0 .. n), S # {}
  PROVE  \E m \in S : \A k \in S : m <= k
<1> DEFINE T == {0 .. k : k \in S}
<1>1. IsFiniteSet(0 .. n)
  BY FS_Interval
<1>2. IsWellFoundedOn(StrictSubsetOrdering(0 .. n), SUBSET (0 .. n))
  BY <1>1, FS_FiniteSubsetsOfFinite, FS_StrictSubsetOrderingWellFounded
<1>3. T \subseteq SUBSET (0 .. n) /\ T # {}
  <2>1. \A k \in S : (0 .. k) \subseteq (0 .. n)
    OBVIOUS
  <2> QED  BY <2>1
<1>4. \E X \in T : \A Y \in T : ~ (<<Y, X>> \in StrictSubsetOrdering(0 .. n))
  <2> HIDE DEF T
  <2> QED  BY <1>2, <1>3, WFMin
<1>5. PICK m \in S : \A k \in S : ~ (<<0 .. k, 0 .. m>> \in StrictSubsetOrdering(0 .. n))
  BY <1>4
<1>6. \A k \in S : m <= k
  <2> SUFFICES ASSUME NEW k \in S, k < m PROVE FALSE
    OBVIOUS
  <2>1. 0 .. k \subseteq 0 .. m /\ m \in 0 .. m /\ m \notin 0 .. k
    OBVIOUS
  <2>2. <<0 .. k, 0 .. m>> \in StrictSubsetOrdering(0 .. n)
    BY <1>3, <2>1 DEF StrictSubsetOrdering
  <2> QED  BY <1>5, <2>2
<1> QED  BY <1>6

\* A nonempty finite set of numbers has a greatest one.
LEMMA GreatestExists ==
  ASSUME NEW n \in Nat, NEW S \in SUBSET (0 .. n), S # {}
  PROVE  \E g \in S : \A k \in S : k <= g
<1> DEFINE T == {n - k : k \in S}
<1>1. T \in SUBSET (0 .. n) /\ T # {}
  <2>1. \A k \in S : n - k \in 0 .. n
    OBVIOUS
  <2> QED  BY <2>1
<1>2. PICK m \in T : \A k \in T : m <= k
  <2> HIDE DEF T
  <2> QED  BY <1>1, LeastExists
<1>3. PICK g \in S : m = n - g
  BY <1>2
<1>4. \A k \in S : n - g <= n - k
  BY <1>2, <1>3
<1>5. \A k \in S : k <= g
  BY <1>4
<1> QED  BY <1>5

-----------------------------------------------------------------------------
(* Induction and recursion over the natural numbers, for sets and functions. *)

\* A set with 0 and with the successors of its elements holds every number.
LEMMA SetInduction ==
  ASSUME NEW P, 0 \in P, \A n \in Nat : n \in P => n + 1 \in P
  PROVE  \A n \in Nat : n \in P
<1> SUFFICES ASSUME NEW n \in Nat, n \notin P PROVE FALSE
  OBVIOUS
<1> DEFINE S == {k \in 0 .. n : k \notin P}
<1>1. S \in SUBSET (0 .. n) /\ S # {}
  OBVIOUS
<1>2. PICK m \in S : \A k \in S : m <= k
  <2> HIDE DEF S
  <2> QED  BY <1>1, LeastExists
<1>3. m # 0 /\ m \in 0 .. n /\ m \notin P
  BY <1>2
<1>4. m - 1 \in 0 .. n /\ ~ (m <= m - 1) /\ (m - 1) + 1 = m
  BY <1>3
<1>5. m - 1 \in P
  BY <1>2, <1>4
<1> QED  BY <1>3, <1>4, <1>5

\* f begins with base and goes from one value to the next by step.
Follows(f, base, step) == f[0] = base /\ \A n \in Nat : f[n + 1] = step[n][f[n]]

\* A value for 0 and one for each number from that of the number before it define a
\* function.
LEMMA RecursionExists ==
  ASSUME NEW S, NEW base \in S, NEW step \in [Nat -> [S -> S]]
  PROVE  \E f \in [Nat -> S] : Follows(f, base, step)
<1> DEFINE Good(n) == {g \in [0 .. n -> S] :
                         g[0] = base /\ \A k \in 0 .. n - 1 : g[k + 1] = step[k][g[k]]}
<1>1. \A n \in Nat : Good(n) # {}
  <2> DEFINE P == {n \in Nat : Good(n) # {}}
  <2>1. 0 \in P
    <3>1. [k \in 0 .. 0 |-> base] \in Good(0)
      OBVIOUS
    <3> QED  BY <3>1
  <2>2. ASSUME NEW n \in Nat, n \in P PROVE n + 1 \in P
    <3>1. PICK g \in Good(n) : TRUE
      BY <2>2
    <3>2. g[n] \in S /\ step[n][g[n]] \in S
      BY <3>1
    <3> DEFINE h == [k \in 0 .. n + 1 |-> IF k = n + 1 THEN step[n][g[n]] ELSE g[k]]
    <3>3. h \in [0 .. n + 1 -> S]
      BY <3>1, <3>2
    <3>4. h[0] = base
      BY <3>1
    <3>5. ASSUME NEW k \in 0 .. (n + 1) - 1 PROVE h[k + 1] = step[k][h[k]]
      <4>1. CASE k = n
        <5>1. h[n + 1] = step[n][g[n]] /\ h[n] = g[n]
          OBVIOUS
        <5> HIDE DEF h
        <5> QED  BY <4>1, <5>1
      <4>2. CASE k # n
        <5>1. k \in 0 .. n - 1 /\ k + 1 \in 0 .. n + 1 /\ k + 1 # n + 1 /\ k # n + 1
              /\ k \in 0 .. n + 1
          BY <4>2
        <5>2. h[k + 1] = g[k + 1] /\ h[k] = g[k]
          BY <5>1
        <5>3. g[k + 1] = step[k][g[k]]
          BY <3>1, <5>1
        <5> HIDE DEF h
        <5> QED  BY <5>2, <5>3
      <4> QED  BY <4>1, <4>2
    <3>6. h \in Good(n + 1)
      <4> HIDE DEF h
      <4> QED  BY <3>3, <3>4, <3>5
    <3> HIDE DEF Good, h
    <3> QED  BY <3>6
  <2> HIDE DEF P
  <2>3. \A n \in Nat : n \in P
    BY <2>1, <2>2, SetInduction
  <2> QED  BY <2>3 DEF P
<1>2. ASSUME NEW n \in Nat, NEW m \in Nat, n <= m, NEW g \in Good(n), NEW h \in Good(m),
             NEW k \in 0 .. n
      PROVE  g[k] = h[k]
  <2> DEFINE P == {i \in Nat : i <= n => g[i] = h[i]}
  <2>1. 0 \in P
    BY <1>2
  <2>2. ASSUME NEW i \in Nat, i \in P PROVE i + 1 \in P
    <3> SUFFICES ASSUME i + 1 <= n PROVE g[i + 1] = h[i + 1]
      OBVIOUS
    <3>1. i \in 0 .. n - 1 /\ i \in 0 .. m - 1
      BY <1>2
    <3>2. g[i] = h[i]
      BY <2>2
    <3>3. g[i + 1] = step[i][g[i]] /\ h[i + 1] = step[i][h[i]]
      BY <1>2, <3>1
    <3> QED  BY <3>2, <3>3
  <2> HIDE DEF P
  <2>3. \A i \in Nat : i \in P
    BY <2>1, <2>2, SetInduction
  <2> QED  BY <2>3 DEF P
<1> DEFINE c(n) == CHOOSE g \in Good(n) : TRUE
           f == [n \in Nat |-> c(n)[n]]
<1>3. ASSUME NEW n \in Nat PROVE c(n) \in Good(n)
  <2> HIDE DEF Good
  <2> QED  BY <1>1
<1>4. ASSUME NEW n \in Nat PROVE f[n] = c(n)[n] /\ c(n)[n] \in S
  <2>1. c(n) \in [0 .. n -> S]  BY <1>3
  <2> HIDE DEF c
  <2> QED  BY <2>1
<1>5. f[0] = base
  <2>1. c(0)[0] = base  BY <1>3
  <2> QED  BY <2>1
<1>6. ASSUME NEW n \in Nat PROVE f[n + 1] = step[n][f[n]]
  <2>1. c(n + 1)[n + 1] = step[n][c(n + 1)[n]]
    <3> HIDE DEF c
    <3>1. n + 1 \in Nat /\ n \in 0 .. (n + 1) - 1
      OBVIOUS
    <3>2. c(n + 1) \in Good(n + 1)
      <4> HIDE DEF Good
      <4> QED  BY <1>3, <3>1
    <3> QED  BY <3>1, <3>2
  <2>2. c(n + 1)[n] = c(n)[n]
    <3> HIDE DEF c, Good
    <3>1. n + 1 \in Nat /\ n <= n + 1 /\ n \in 0 .. n
      OBVIOUS
    <3>2. c(n + 1) \in Good(n + 1) /\ c(n) \in Good(n)
      BY <1>3, <3>1
    <3> QED  BY <3>1, <3>2, <1>2
  <2>3. f[n] = c(n)[n] /\ f[n + 1] = c(n + 1)[n + 1]
    <3> HIDE DEF c
    <3> QED  OBVIOUS
  <2> HIDE DEF c, f
  <2> QED  BY <2>1, <2>2, <2>3
<1>7. f \in [Nat -> S]
  <2> HIDE DEF c
  <2> QED  BY <1>4
<1> HIDE DEF f
<1> QED  BY <1>5, <1>6, <1>7 DEF Follows

=============================================================================
