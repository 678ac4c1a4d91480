------------------------- MODULE ParseWorkItemProofs -------------------------
(* Machine-checked proofs about ParseWorkItem, for every profile and every     *)
(* command line.                                                               *)
EXTENDS ParseWorkItem, ElementLemmas

-----------------------------------------------------------------------------
(* Flattened sequences.                                                    *)

\* Concatenation, of which the next lemma only uses that it is associative.
Cat(x, y) == x \o y
Associative(M) ==
  /\ \A x, y, z \in M : Cat(Cat(x, y), z) = Cat(x, Cat(y, z))
  /\ \A x \in M : Cat(x, <<>>) = x /\ Cat(<<>>, x) = x

\* Concatenation is associative on sequences, and nothing adds nothing.
LEMMA CatProperties ==
  ASSUME NEW T
  PROVE  Associative(Seq(T))
<1>1. \A x, y, z \in Seq(T) : (x \o y) \o z = x \o (y \o z)
  BY ConcatAssociative
<1>2. \A x \in Seq(T) : x \o <<>> = x /\ <<>> \o x = x
  BY ConcatEmptySeq
<1> QED  BY <1>1, <1>2 DEF Associative, Cat

\* f joins n parts from M, one after the other.
Joins(f, parts, n, M) ==
  f \in [Nat -> M] /\ f[0] = <<>> /\ \A i \in 1 .. n : f[i] = Cat(f[i - 1], parts[i])

\* FlattenSeq goes from part to part.
LEMMA FlattenSteps ==
  ASSUME NEW T, NEW s \in Seq(Seq(T))
  PROVE  \E f : Joins(f, s, Len(s), Seq(T)) /\ FlattenSeq(s) = f[Len(s)]
<1> DEFINE Body(g) == [i \in 1 .. Len(s) |-> IF i = 1 THEN s[i] ELSE g[i - 1] \o s[i]]
           flatten == CHOOSE g : g = Body(g)
           Grow == [n \in Nat |-> [w \in Seq(T) |->
                      IF n + 1 \in 1 .. Len(s) THEN w \o s[n + 1] ELSE w]]
<1>1. Len(s) \in Nat /\ DOMAIN s = 1 .. Len(s) /\ \A n \in 1 .. Len(s) : s[n] \in Seq(T)
  BY LenProperties
<1>2. Grow \in [Nat -> [Seq(T) -> Seq(T)]]
  BY <1>1, ConcatProperties
<1>3. <<>> \in Seq(T)
  BY EmptySeq
<1>4. PICK f \in [Nat -> Seq(T)] : Follows(f, <<>>, Grow)
  <2> HIDE DEF Grow
  <2> QED  BY <1>2, <1>3, RecursionExists
<1>5. ASSUME NEW n \in 1 .. Len(s) PROVE f[n] = f[n - 1] \o s[n]
  <2>1. n - 1 \in Nat /\ (n - 1) + 1 = n /\ f[n - 1] \in Seq(T)
    BY <1>1
  <2>2. f[n] = Grow[n - 1][f[n - 1]]
    <3> HIDE DEF Grow
    <3> QED  BY <1>4, <2>1 DEF Follows
  <2>3. Grow[n - 1][f[n - 1]] = f[n - 1] \o s[n]
    BY <2>1
  <2> QED  BY <2>2, <2>3
<1>6. f[0] = <<>> /\ (1 \in 1 .. Len(s) => f[1] = <<>> \o s[1] /\ s[1] \in Seq(T))
  <2>1. f[0] = <<>> /\ 1 - 1 = 0
    BY <1>4 DEF Follows
  <2>2. 1 \in 1 .. Len(s) => f[1] = f[1 - 1] \o s[1]
    BY <1>5
  <2> QED  BY <1>1, <2>1, <2>2
<1>7. ASSUME Len(s) = 0 PROVE FlattenSeq(s) = f[Len(s)]
  <2>1. s = <<>>
    BY <1>7, EmptySeq
  <2> QED  BY <1>6, <1>7, <2>1 DEF FlattenSeq
<1>8. ASSUME Len(s) # 0 PROVE FlattenSeq(s) = f[Len(s)]
  <2>1. [n \in 1 .. Len(s) |-> f[n]] = Body([n \in 1 .. Len(s) |-> f[n]])
    <3> DEFINE g == [n \in 1 .. Len(s) |-> f[n]]
    <3>1. ASSUME NEW n \in 1 .. Len(s) PROVE g[n] = Body(g)[n]
      <4>1. CASE n = 1
        <5>1. f[1] = <<>> \o s[1] /\ s[1] \in Seq(T)  BY <1>1, <1>6, <4>1
        <5>2. <<>> \o s[1] = s[1]  BY <5>1, ConcatEmptySeq
        <5> QED  BY <4>1, <5>1, <5>2
      <4>2. CASE n # 1
        <5>1. n - 1 \in 1 .. Len(s)  BY <1>1, <4>2
        <5>2. g[n] = f[n] /\ g[n - 1] = f[n - 1]  BY <5>1
        <5> HIDE DEF g
        <5> QED  BY <1>5, <4>2, <5>2
      <4> QED  BY <4>1, <4>2
    <3>2. g = [n \in 1 .. Len(s) |-> g[n]]
      OBVIOUS
    <3> HIDE DEF g
    <3> QED  BY <3>1, <3>2 DEF g
  <2>2. flatten = Body(flatten)
    <3> HIDE DEF Body
    <3> QED  BY <2>1
  <2>3. FlattenSeq(s) = flatten[Len(s)]
    BY <1>8 DEF FlattenSeq
  <2> HIDE DEF flatten
  <2>4. ASSUME NEW n \in 1 .. Len(s)
        PROVE  flatten[n] = IF n = 1 THEN s[1] ELSE flatten[n - 1] \o s[n]
    <3>1. flatten[n] = Body(flatten)[n]
      <4> HIDE DEF Body
      <4> QED  BY <2>2
    <3> QED  BY <3>1
  <2> DEFINE P == {n \in Nat : n \in 1 .. Len(s) => flatten[n] = f[n]}
  <2>5. 0 \in P
    OBVIOUS
  <2>6. ASSUME NEW n \in Nat, n \in P PROVE n + 1 \in P
    <3> SUFFICES ASSUME n + 1 \in 1 .. Len(s) PROVE flatten[n + 1] = f[n + 1]
      OBVIOUS
    <3>1. CASE n = 0
      <4>1. 1 \in 1 .. Len(s) /\ n + 1 = 1  BY <3>1
      <4>2. f[1] = <<>> \o s[1] /\ s[1] \in Seq(T)  BY <1>6, <4>1
      <4>3. <<>> \o s[1] = s[1]  BY <4>2, ConcatEmptySeq
      <4> QED  BY <2>4, <4>1, <4>2, <4>3
    <3>2. CASE n # 0
      <4>1. n \in 1 .. Len(s) /\ (n + 1) - 1 = n /\ n + 1 # 1  BY <1>1, <3>2
      <4>2. flatten[n + 1] = flatten[(n + 1) - 1] \o s[n + 1]  BY <2>4, <4>1
      <4>3. f[n + 1] = f[(n + 1) - 1] \o s[n + 1]  BY <1>5
      <4> QED  BY <2>6, <4>1, <4>2, <4>3
    <3> QED  BY <3>1, <3>2
  <2> HIDE DEF P
  <2>7. \A n \in Nat : n \in P
    BY <2>5, <2>6, SetInduction
  <2>8. flatten[Len(s)] = f[Len(s)]
    BY <1>1, <1>8, <2>7 DEF P
  <2> QED  BY <2>3, <2>8
<1>9. FlattenSeq(s) = f[Len(s)]
  BY <1>7, <1>8
<1>10. Joins(f, s, Len(s), Seq(T))
  BY <1>5, <1>6 DEF Joins, Cat
<1> QED  BY <1>9, <1>10

\* The first a parts of u are those of s, the next b parts those of t.
Follow(s, a, t, b, u, M) ==
  /\ \A i \in 1 .. a : u[i] = s[i]
  /\ \A i \in 1 .. b : u[a + i] = t[i] /\ t[i] \in M

\* To join the parts of s, then those of t, is to join all of them.
LEMMA PartsJoin ==
  ASSUME NEW M, Associative(M), NEW a \in Nat, NEW b \in Nat, NEW c, c = a + b,
         NEW s, NEW t, NEW u, Follow(s, a, t, b, u, M),
         NEW f, Joins(f, s, a, M), NEW g, Joins(g, t, b, M), NEW h, Joins(h, u, c, M)
  PROVE  h[c] = Cat(f[a], g[b])
<1> DEFINE P == {n \in Nat : n <= a => h[n] = f[n]}
<1>1. 0 \in P
  BY DEF Joins
<1>2. ASSUME NEW n \in Nat, n \in P PROVE n + 1 \in P
  <2> SUFFICES ASSUME n + 1 <= a PROVE h[n + 1] = f[n + 1]
    OBVIOUS
  <2>1. n + 1 \in 1 .. a /\ n + 1 \in 1 .. a + b /\ (n + 1) - 1 = n /\ n <= a
    OBVIOUS
  <2>2. /\ h[n + 1] = Cat(h[(n + 1) - 1], u[n + 1])
        /\ f[n + 1] = Cat(f[(n + 1) - 1], s[n + 1])
    BY <2>1 DEF Joins
  <2>3. h[n] = f[n] /\ u[n + 1] = s[n + 1]
    BY <1>2, <2>1 DEF Follow
  <2> QED  BY <2>1, <2>2, <2>3
<1>3. \A n \in Nat : n \in P
  <2> HIDE DEF P
  <2> QED  BY <1>1, <1>2, SetInduction
<1> DEFINE Q == {n \in Nat : n <= b => h[a + n] = Cat(f[a], g[n])}
<1>4. 0 \in Q
  <2>1. h[a] = f[a] /\ a + 0 = a /\ g[0] = <<>> /\ f[a] \in M
    BY <1>3 DEF Joins
  <2>2. Cat(f[a], <<>>) = f[a]
    BY <2>1 DEF Associative
  <2> QED  BY <2>1, <2>2
<1>5. ASSUME NEW n \in Nat, n \in Q PROVE n + 1 \in Q
  <2> SUFFICES ASSUME n + 1 <= b PROVE h[a + (n + 1)] = Cat(f[a], g[n + 1])
    OBVIOUS
  <2>1. /\ n + 1 \in 1 .. b /\ (n + 1) - 1 = n /\ n <= b
        /\ a + (n + 1) \in 1 .. a + b /\ (a + (n + 1)) - 1 = a + n
    OBVIOUS
  <2>2. h[a + (n + 1)] = Cat(h[(a + (n + 1)) - 1], u[a + (n + 1)])
    BY <2>1 DEF Joins
  <2>3. g[n + 1] = Cat(g[(n + 1) - 1], t[n + 1])
    BY <2>1 DEF Joins
  <2>4. h[a + n] = Cat(f[a], g[n])
    BY <1>5, <2>1
  <2>5. f[a] \in M /\ g[n] \in M /\ t[n + 1] \in M /\ u[a + (n + 1)] = t[n + 1]
    BY <2>1 DEF Joins, Follow
  <2>6. Cat(Cat(f[a], g[n]), t[n + 1]) = Cat(f[a], Cat(g[n], t[n + 1]))
    BY <2>5 DEF Associative
  <2> QED  BY <2>1, <2>2, <2>3, <2>4, <2>5, <2>6
<1>6. \A n \in Nat : n \in Q
  <2> HIDE DEF Q
  <2> QED  BY <1>4, <1>5, SetInduction
<1> QED  BY <1>6

Parts(T) == Seq(Seq(T))

\* The parts of a sequence flattened one after the other are those of the whole.
LEMMA FlattenConcat ==
  ASSUME NEW T, NEW s \in Parts(T), NEW t \in Parts(T)
  PROVE  /\ FlattenSeq(s) \in Seq(T)
         /\ FlattenSeq(s \o t) = FlattenSeq(s) \o FlattenSeq(t)
<1> DEFINE u == s \o t  M == Seq(T)
<1>1. /\ u \in Parts(T) /\ Len(u) = Len(s) + Len(t)
      /\ Len(s) \in Nat /\ Len(t) \in Nat
  BY ConcatProperties, LenProperties DEF Parts
<1>2. Follow(s, Len(s), t, Len(t), u, M)
  BY ConcatProperties, ElementOfSeq DEF Parts, Follow
<1>3. PICK f : Joins(f, s, Len(s), M) /\ FlattenSeq(s) = f[Len(s)]
  BY FlattenSteps DEF Parts
<1>4. PICK g : Joins(g, t, Len(t), M) /\ FlattenSeq(t) = g[Len(t)]
  BY FlattenSteps DEF Parts
<1>5. PICK h : Joins(h, u, Len(u), M) /\ FlattenSeq(u) = h[Len(u)]
  <2> HIDE DEF u
  <2> QED  BY <1>1, FlattenSteps DEF Parts
<1>6. Associative(M)
  BY CatProperties
<1> HIDE DEF u, M
<1>7. h[Len(u)] = Cat(f[Len(s)], g[Len(t)])
  BY <1>1, <1>2, <1>3, <1>4, <1>5, <1>6, PartsJoin
<1>8. f[Len(s)] \in M
  BY <1>1, <1>3 DEF Joins
<1> QED  BY <1>3, <1>4, <1>5, <1>7, <1>8 DEF u, M, Cat

\* One part alone, and none.
LEMMA FlattenOne ==
  ASSUME NEW T, NEW p \in Seq(T)
  PROVE  FlattenSeq(<<p>>) = p /\ FlattenSeq(<<>>) = <<>>
<1>1. <<p>> \in Seq(Seq(T)) /\ Len(<<p>>) = 1 /\ <<p>>[1] = p
  OBVIOUS
<1>2. PICK f : Joins(f, <<p>>, Len(<<p>>), Seq(T)) /\ FlattenSeq(<<p>>) = f[Len(<<p>>)]
  BY <1>1, FlattenSteps
<1>3. f[1] = Cat(<<>>, p)
  <2>1. 1 \in 1 .. Len(<<p>>) /\ 1 - 1 = 0
    BY <1>1
  <2>2. f[1] = Cat(f[1 - 1], <<p>>[1]) /\ f[0] = <<>>
    BY <1>2, <2>1 DEF Joins
  <2> QED  BY <1>1, <2>1, <2>2
<1>4. FlattenSeq(<<>>) = <<>>
  BY DEF FlattenSeq
<1> QED  BY <1>1, <1>2, <1>3, <1>4, CatProperties DEF Associative

-----------------------------------------------------------------------------
(* The words of elements.                                                  *)

\* The words of elements of a set.
WordSet(T) == UNION {Range(Written(e)) : e \in T}

\* An element is written in one word, or in two.
LEMMA WrittenWords ==
  ASSUME NEW e
  PROVE  /\ Written(e) \in Seq(Range(Written(e)))
         /\ Len(Written(e)) = IF e.form = "space" THEN 2 ELSE 1
         /\ Written(e)[1].head = e.alias
         /\ e.form = "space" =>
              /\ Written(e)[1].rest = "none"
              /\ Written(e)[2].head = NoValue /\ Written(e)[2].rest = "none"
              /\ Written(e)[2].value = e.value /\ Written(e)[2].content = e.content
         /\ e.form # "space" =>
              /\ Written(e)[1].rest = e.form
              /\ Written(e)[1].value = e.value /\ Written(e)[1].content = e.content
<1>1. CASE e.form = "space"
  <2> DEFINE v == Word(e.alias, "none", NoValue)
             w == [Plain(e.value) EXCEPT !.content = e.content]
  <2>1. Written(e) = <<v, w>>
    BY <1>1 DEF Written
  <2>2. v.head = e.alias /\ v.rest = "none"
    BY DEF Word
  <2>3. w.head = NoValue /\ w.rest = "none" /\ w.value = e.value /\ w.content = e.content
    BY DEF Plain, Word
  <2> HIDE DEF v, w
  <2>4. Range(<<v, w>>) = {v, w}
    BY DEF Range
  <2> QED  BY <1>1, <2>1, <2>2, <2>3, <2>4
<1>2. CASE e.form # "space"
  <2> DEFINE w == [Word(e.alias, e.form, e.value) EXCEPT !.content = e.content]
  <2>1. Written(e) = <<w>>
    BY <1>2 DEF Written
  <2>2. w.head = e.alias /\ w.rest = e.form /\ w.value = e.value /\ w.content = e.content
    BY DEF Word
  <2> HIDE DEF w
  <2>3. Range(<<w>>) = {w}
    BY DEF Range
  <2> QED  BY <1>2, <2>1, <2>2, <2>3
<1> QED  BY <1>1, <1>2

\* The words of two lines one after the other are those of both.
LEMMA WordsConcat ==
  ASSUME NEW T, NEW s \in Seq(T), NEW t \in Seq(T)
  PROVE  /\ WordsOf(s) \in Seq(WordSet(T))
         /\ WordsOf(s \o t) = WordsOf(s) \o WordsOf(t)
<1> DEFINE W(q) == [n \in DOMAIN q |-> Written(q[n])]
<1>1. \A e \in T : Written(e) \in Seq(WordSet(T))
  <2> TAKE e \in T
  <2>1. Range(Written(e)) \subseteq WordSet(T)
    BY DEF WordSet
  <2> QED  BY <2>1, WrittenWords, SeqMonotonic
<1>2. ASSUME NEW q \in Seq(T)
      PROVE  W(q) \in Seq(Seq(WordSet(T))) /\ Len(W(q)) = Len(q)
             /\ \A n \in 1 .. Len(q) : W(q)[n] = Written(q[n])
  <2>1. Len(q) \in Nat /\ DOMAIN q = 1 .. Len(q) /\ \A n \in 1 .. Len(q) : q[n] \in T
    BY LenProperties, ElementOfSeq
  <2>2. W(q) \in [1 .. Len(q) -> Seq(WordSet(T))]
    BY <1>1, <2>1
  <2> QED  BY <2>1, <2>2
<1>3. /\ s \o t \in Seq(T) /\ Len(s \o t) = Len(s) + Len(t)
      /\ \A i \in 1 .. Len(s) + Len(t) : (s \o t)[i] = IF i <= Len(s) THEN s[i] ELSE t[i - Len(s)]
      /\ Len(s) \in Nat /\ Len(t) \in Nat
  BY ConcatProperties, LenProperties
<1>4. /\ W(s) \o W(t) \in Seq(Seq(WordSet(T))) /\ Len(W(s) \o W(t)) = Len(s) + Len(t)
      /\ \A i \in 1 .. Len(s) + Len(t) :
           (W(s) \o W(t))[i] = IF i <= Len(s) THEN W(s)[i] ELSE W(t)[i - Len(s)]
  <2> DEFINE Z == Seq(WordSet(T))  x == W(s)  y == W(t)
  <2>1. x \in Seq(Z) /\ y \in Seq(Z) /\ Len(x) = Len(s) /\ Len(y) = Len(t)
    BY <1>2
  <2> HIDE DEF x, y, Z
  <2>2. /\ x \o y \in Seq(Z) /\ Len(x \o y) = Len(x) + Len(y)
        /\ \A i \in 1 .. Len(x) + Len(y) :
             (x \o y)[i] = IF i <= Len(x) THEN x[i] ELSE y[i - Len(x)]
    BY <2>1, ConcatProperties
  <2> QED  BY <2>1, <2>2 DEF x, y, Z
<1>5. W(s \o t) = W(s) \o W(t)
  <2> DEFINE u == s \o t
  <2>1. W(u) \in Seq(Seq(WordSet(T))) /\ Len(W(u)) = Len(u)
        /\ \A n \in 1 .. Len(u) : W(u)[n] = Written(u[n])
    <3> HIDE DEF W, u
    <3> QED  BY <1>2, <1>3 DEF u
  <2>2. ASSUME NEW i \in 1 .. Len(u) PROVE W(u)[i] = (W(s) \o W(t))[i]
    <3> HIDE DEF W, u
    <3>1. CASE i <= Len(s)
      <4>1. i \in 1 .. Len(s)  BY <1>3, <3>1
      <4> QED  BY <1>2, <1>3, <1>4, <2>1, <3>1, <4>1 DEF u
    <3>2. CASE ~(i <= Len(s))
      <4>1. i - Len(s) \in 1 .. Len(t)  BY <1>3, <3>2 DEF u
      <4> QED  BY <1>2, <1>3, <1>4, <2>1, <3>2, <4>1 DEF u
    <3> QED  BY <3>1, <3>2
  <2> HIDE DEF W
  <2> QED  BY <1>3, <1>4, <2>1, <2>2, SeqEqual
<1> HIDE DEF W
<1>6. W(s) \in Parts(WordSet(T)) /\ W(t) \in Parts(WordSet(T))
  BY <1>2 DEF Parts
<1>7. FlattenSeq(W(s)) \in Seq(WordSet(T)) /\ FlattenSeq(W(s) \o W(t)) = FlattenSeq(W(s)) \o FlattenSeq(W(t))
  BY <1>6, FlattenConcat
<1>8. \A q : WordsOf(q) = FlattenSeq(W(q))
  BY DEF WordsOf, W
<1> QED  BY <1>5, <1>7, <1>8

\* The words of one element, and of none.
LEMMA WordsOne ==
  ASSUME NEW e
  PROVE  WordsOf(<<e>>) = Written(e) /\ WordsOf(<<>>) = <<>>
<1>1. [n \in DOMAIN <<e>> |-> Written(<<e>>[n])] = <<Written(e)>>
  OBVIOUS
<1>2. [n \in DOMAIN <<>> |-> Written(<<>>[n])] = <<>>
  OBVIOUS
<1>3. FlattenSeq(<<Written(e)>>) = Written(e) /\ FlattenSeq(<<>>) = <<>>
  BY WrittenWords, FlattenOne
<1> QED  BY <1>1, <1>2, <1>3 DEF WordsOf

\* The number of the words of the first elements.
Before(e, j) == Len(WordsOf(SubSeq(e, 1, j)))

\* The words of a line are those before an element, its own, and those behind it.
LEMMA WordsAround ==
  ASSUME NEW T, NEW e \in Seq(T), NEW j \in 1 .. Len(e)
  PROVE  /\ WordsOf(e) = (WordsOf(SubSeq(e, 1, j - 1)) \o Written(e[j]))
                           \o WordsOf(SubSeq(e, j + 1, Len(e)))
         /\ WordsOf(SubSeq(e, 1, j)) = WordsOf(SubSeq(e, 1, j - 1)) \o Written(e[j])
         /\ WordsOf(SubSeq(e, 1, j - 1)) \in Seq(WordSet(T))
         /\ Written(e[j]) \in Seq(WordSet(T))
         /\ WordsOf(SubSeq(e, j + 1, Len(e))) \in Seq(WordSet(T))
<1>1. Len(e) \in Nat /\ \A i \in 1 .. Len(e) : e[i] \in T
  BY LenProperties, ElementOfSeq
<1> DEFINE x == SubSeq(e, 1, j - 1)  y == <<e[j]>>  z == SubSeq(e, j + 1, Len(e))
           xy == SubSeq(e, 1, j)
<1>2. x \in Seq(T) /\ z \in Seq(T) /\ xy \in Seq(T)
  <2>1. \A i \in 1 .. j - 1 : e[i] \in T
    BY <1>1
  <2>2. \A i \in j + 1 .. Len(e) : e[i] \in T
    BY <1>1
  <2>3. \A i \in 1 .. j : e[i] \in T
    BY <1>1
  <2> QED  BY <1>1, <2>1, <2>2, <2>3, SubSeqProperties
<1>3. y \in Seq(T)
  BY <1>1
<1>4. xy = x \o y
  BY <1>1, SubSeqRecursiveSecond
<1>5. xy \o z = e
  BY <1>1, ConcatAdjacentSubSeq, SubSeqFull
<1>6. WordsOf(y) = Written(e[j])
  BY WordsOne
<1> HIDE DEF x, y, z, xy
<1>7. WordsOf(xy) = WordsOf(x) \o WordsOf(y) /\ WordsOf(xy \o z) = WordsOf(xy) \o WordsOf(z)
  BY <1>2, <1>3, <1>4, WordsConcat
<1>8. WordsOf(x) \in Seq(WordSet(T)) /\ WordsOf(y) \in Seq(WordSet(T)) /\ WordsOf(z) \in Seq(WordSet(T))
  BY <1>2, <1>3, WordsConcat
<1> QED  BY <1>5, <1>6, <1>7, <1>8 DEF x, z, xy

\* Where the middle one of three sequences stands in all of them.
LEMMA ConcatThree ==
  ASSUME NEW S, NEW x \in Seq(S), NEW y \in Seq(S), NEW z \in Seq(S)
  PROVE  /\ Len((x \o y) \o z) = (Len(x) + Len(y)) + Len(z)
         /\ Len(x \o y) = Len(x) + Len(y)
         /\ Len(x) \in Nat /\ Len(y) \in Nat /\ Len(z) \in Nat
         /\ \A k \in 1 .. Len(y) : ((x \o y) \o z)[Len(x) + k] = y[k]
<1>1. /\ x \o y \in Seq(S) /\ Len(x \o y) = Len(x) + Len(y)
      /\ \A i \in 1 .. Len(x) + Len(y) :
           (x \o y)[i] = IF i <= Len(x) THEN x[i] ELSE y[i - Len(x)]
  BY ConcatProperties
<1>2. Len(x) \in Nat /\ Len(y) \in Nat /\ Len(z) \in Nat
  BY LenProperties
<1> DEFINE w == x \o y
<1> HIDE DEF w
<1>3. /\ Len(w \o z) = Len(w) + Len(z)
      /\ \A i \in 1 .. Len(w) + Len(z) :
           (w \o z)[i] = IF i <= Len(w) THEN w[i] ELSE z[i - Len(w)]
  BY <1>1, ConcatProperties DEF w
<1>4. Len(w) = Len(x) + Len(y)
  BY <1>1 DEF w
<1>5. ASSUME NEW k \in 1 .. Len(y) PROVE (w \o z)[Len(x) + k] = y[k]
  <2>1. /\ Len(x) + k \in 1 .. Len(w) + Len(z) /\ Len(x) + k <= Len(w)
        /\ Len(x) + k \in 1 .. Len(x) + Len(y)
        /\ ~(Len(x) + k <= Len(x)) /\ (Len(x) + k) - Len(x) = k
    BY <1>2, <1>4
  <2>2. (w \o z)[Len(x) + k] = w[Len(x) + k]
    BY <1>3, <2>1
  <2>3. w[Len(x) + k] = y[(Len(x) + k) - Len(x)]
    BY <1>1, <2>1 DEF w
  <2> QED  BY <2>1, <2>2, <2>3
<1> QED  BY <1>2, <1>3, <1>4, <1>5 DEF w

\* The places of the words of an element.
LEMMA WordPlaces ==
  ASSUME NEW T, NEW e \in Seq(T), NEW j \in 1 .. Len(e)
  PROVE  /\ Before(e, j - 1) \in Nat
         /\ Before(e, j) = Before(e, j - 1) + Len(Written(e[j]))
         /\ Before(e, j) <= Len(WordsOf(e)) /\ Len(WordsOf(e)) \in Nat
         /\ \A k \in 1 .. Len(Written(e[j])) :
              WordsOf(e)[Before(e, j - 1) + k] = Written(e[j])[k]
<1> DEFINE x == WordsOf(SubSeq(e, 1, j - 1))  y == Written(e[j])
           z == WordsOf(SubSeq(e, j + 1, Len(e)))
<1>1. /\ WordsOf(e) = (x \o y) \o z /\ WordsOf(SubSeq(e, 1, j)) = x \o y
  BY WordsAround
<1> DEFINE S == WordSet(T)
<1>0. x \in Seq(S) /\ y \in Seq(S) /\ z \in Seq(S)
  BY WordsAround
<1>2. Before(e, j) = Len(x \o y) /\ Before(e, j - 1) = Len(x)
  BY <1>1 DEF Before
<1> HIDE DEF x, y, z, S
<1>3. /\ Len((x \o y) \o z) = (Len(x) + Len(y)) + Len(z)
      /\ Len(x \o y) = Len(x) + Len(y)
      /\ Len(x) \in Nat /\ Len(y) \in Nat /\ Len(z) \in Nat
      /\ \A k \in 1 .. Len(y) : ((x \o y) \o z)[Len(x) + k] = y[k]
  BY <1>0, ConcatThree
<1>4. Before(e, j) = Before(e, j - 1) + Len(y)
  BY <1>2, <1>3
<1>5. Before(e, j) <= Len(WordsOf(e)) /\ Len(WordsOf(e)) \in Nat /\ Before(e, j - 1) \in Nat
  BY <1>1, <1>2, <1>3
<1>6. \A k \in 1 .. Len(y) : WordsOf(e)[Before(e, j - 1) + k] = y[k]
  BY <1>1, <1>2, <1>3
<1> QED  BY <1>4, <1>5, <1>6 DEF y

\* No words stand before the first element, all of them before the end.
LEMMA BeforeEnds ==
  ASSUME NEW T, NEW e \in Seq(T)
  PROVE  Before(e, 0) = 0 /\ Before(e, Len(e)) = Len(WordsOf(e))
<1>1. SubSeq(e, 1, 0) = <<>> /\ SubSeq(e, 1, Len(e)) = e
  BY SubSeqEmpty, SubSeqFull
<1>2. WordsOf(<<>>) = <<>>
  BY WordsOne
<1>3. Before(e, 0) = Len(WordsOf(<<>>))
  BY <1>1, Zenon DEF Before
<1>4. Before(e, Len(e)) = Len(WordsOf(e))
  BY <1>1, Zenon DEF Before
<1> QED  BY <1>2, <1>3, <1>4

\* Every word is one of the words of an element.
LEMMA PlaceOfWord ==
  ASSUME NEW T, NEW e \in Seq(T), NEW p \in 1 .. Len(WordsOf(e))
  PROVE  \E j \in 1 .. Len(e) : \E k \in 1 .. Len(Written(e[j])) : p = Before(e, j - 1) + k
<1> DEFINE Found == \E j \in 1 .. Len(e) : \E k \in 1 .. Len(Written(e[j])) : p = Before(e, j - 1) + k
           P == {n \in Nat : n <= Len(e) /\ p <= Before(e, n) => Found}
<1>1. Len(e) \in Nat
  BY LenProperties
<1>2. 0 \in P
  BY BeforeEnds
<1>3. ASSUME NEW n \in Nat, n \in P PROVE n + 1 \in P
  <2> SUFFICES ASSUME n + 1 <= Len(e), p <= Before(e, n + 1) PROVE Found
    OBVIOUS
  <2>1. n + 1 \in 1 .. Len(e) /\ (n + 1) - 1 = n
    BY <1>1
  <2>2. Before(e, n) \in Nat /\ Before(e, n + 1) = Before(e, n) + Len(Written(e[n + 1]))
    BY <2>1, WordPlaces
  <2>3. CASE p <= Before(e, n)
    <3> HIDE DEF Found
    <3> QED  BY <1>1, <1>3, <2>1, <2>3
  <2>4. CASE ~(p <= Before(e, n))
    <3>1. Len(Written(e[n + 1])) \in Nat
      BY WrittenWords
    <3>2. p - Before(e, n) \in 1 .. Len(Written(e[n + 1])) /\ p = Before(e, n) + (p - Before(e, n))
      BY <2>2, <2>4, <3>1
    <3> QED  BY <2>1, <3>2
  <2> QED  BY <2>3, <2>4
<1>4. Len(e) \in P
  <2> HIDE DEF P
  <2> QED  BY <1>1, <1>2, <1>3, SetInduction
<1>5. p <= Before(e, Len(e)) /\ Len(e) <= Len(e)
  BY <1>1, BeforeEnds
<1> HIDE DEF Found
<1> QED  BY <1>4, <1>5 DEF Found

-----------------------------------------------------------------------------
(* Places in their order.                                                  *)

\* InOrder goes from place to place, the same way up to any last one.
LEMMA InOrderSteps ==
  ASSUME NEW S
  PROVE  \E f \in [Nat -> Seq(Nat)] :
           /\ f[0] = <<>>
           /\ \A n \in Nat : f[n + 1] = IF n + 1 \in S THEN Append(f[n], n + 1) ELSE f[n]
           /\ \A last \in Nat : InOrder(S, last) = f[last]
<1> DEFINE Grow == [n \in Nat |-> [w \in Seq(Nat) |->
                      IF n + 1 \in S THEN Append(w, n + 1) ELSE w]]
<1>1. Grow \in [Nat -> [Seq(Nat) -> Seq(Nat)]]
  BY AppendProperties
<1>2. <<>> \in Seq(Nat)
  BY EmptySeq
<1>3. PICK f \in [Nat -> Seq(Nat)] : Follows(f, <<>>, Grow)
  <2> HIDE DEF Grow
  <2> QED  BY <1>1, <1>2, RecursionExists
<1>4. f[0] = <<>>
  BY <1>3 DEF Follows
<1>5. ASSUME NEW n \in Nat
      PROVE  f[n + 1] = IF n + 1 \in S THEN Append(f[n], n + 1) ELSE f[n]
  <2>1. f[n + 1] = Grow[n][f[n]]
    BY <1>3 DEF Follows
  <2>2. f[n] \in Seq(Nat)
    OBVIOUS
  <2> QED  BY <2>1, <2>2
<1>6. ASSUME NEW last \in Nat PROVE InOrder(S, last) = f[last]
  <2> DEFINE Body(g) == [n \in 0 .. last |->
                IF n = 0 THEN <<>> ELSE IF n \in S THEN Append(g[n - 1], n) ELSE g[n - 1]]
             upTo == CHOOSE g : g = Body(g)
  <2>1. InOrder(S, last) = upTo[last]
    BY DEF InOrder
  <2>2. [n \in 0 .. last |-> f[n]] = Body([n \in 0 .. last |-> f[n]])
    <3> DEFINE g == [n \in 0 .. last |-> f[n]]
    <3>1. ASSUME NEW n \in 0 .. last PROVE g[n] = Body(g)[n]
      <4>1. CASE n = 0
        <5>1. g[0] = <<>>  BY <1>4, <4>1
        <5> HIDE DEF g
        <5> QED  BY <4>1, <5>1
      <4>2. CASE n # 0
        <5>1. n - 1 \in 0 .. last /\ n - 1 \in Nat /\ (n - 1) + 1 = n  BY <4>2
        <5>2. g[n] = f[n] /\ g[n - 1] = f[n - 1]  BY <5>1
        <5>3. f[n] = IF n \in S THEN Append(f[n - 1], n) ELSE f[n - 1]
          <6>1. f[(n - 1) + 1] = IF (n - 1) + 1 \in S THEN Append(f[n - 1], (n - 1) + 1) ELSE f[n - 1]
            BY <1>5, <5>1
          <6> QED  BY <5>1, <6>1
        <5> HIDE DEF g
        <5> QED  BY <4>2, <5>2, <5>3
      <4> QED  BY <4>1, <4>2
    <3>2. g = [n \in 0 .. last |-> g[n]]
      OBVIOUS
    <3> HIDE DEF g
    <3> QED  BY <3>1, <3>2 DEF g
  <2>3. upTo = Body(upTo)
    <3> HIDE DEF Body
    <3> QED  BY <2>2
  <2> HIDE DEF upTo
  <2>4. ASSUME NEW n \in 0 .. last
        PROVE  upTo[n] = IF n = 0 THEN <<>>
                         ELSE IF n \in S THEN Append(upTo[n - 1], n) ELSE upTo[n - 1]
    <3>1. upTo[n] = Body(upTo)[n]
      <4> HIDE DEF Body
      <4> QED  BY <2>3
    <3> QED  BY <3>1
  <2> HIDE DEF Body
  <2> DEFINE P == {n \in Nat : n <= last => upTo[n] = f[n]}
  <2>5. 0 \in P
    BY <1>4, <2>4
  <2>6. ASSUME NEW n \in Nat, n \in P PROVE n + 1 \in P
    <3> SUFFICES ASSUME n + 1 <= last PROVE upTo[n + 1] = f[n + 1]
      OBVIOUS
    <3>1. n + 1 \in 0 .. last /\ n + 1 # 0 /\ (n + 1) - 1 = n /\ n <= last
      OBVIOUS
    <3>2. upTo[n + 1] = IF n + 1 \in S THEN Append(upTo[n], n + 1) ELSE upTo[n]
      BY <2>4, <3>1
    <3>3. upTo[n] = f[n]
      BY <2>6, <3>1
    <3>4. f[n + 1] = IF n + 1 \in S THEN Append(f[n], n + 1) ELSE f[n]
      BY <1>5
    <3>5. CASE n + 1 \in S
      <4>1. upTo[n + 1] = Append(upTo[n], n + 1) /\ f[n + 1] = Append(f[n], n + 1)
        BY <3>2, <3>4, <3>5, Zenon
      <4> QED  BY <3>3, <4>1, Zenon
    <3>6. CASE n + 1 \notin S
      BY <3>2, <3>3, <3>4, <3>6, Zenon
    <3> QED  BY <3>5, <3>6
  <2>7. \A n \in Nat : n \in P
    <3> HIDE DEF P
    <3> QED  BY <2>5, <2>6, SetInduction
  <2>8. upTo[last] = f[last]
    BY <2>7
  <2> QED  BY <2>1, <2>8
<1> QED  BY <1>4, <1>5, <1>6

\* Up to one place more there is that place more, if it is in the set.
LEMMA InOrderNext ==
  ASSUME NEW S, NEW n \in Nat
  PROVE  /\ InOrder(S, 0) = <<>>
         /\ InOrder(S, n + 1) = IF n + 1 \in S THEN Append(InOrder(S, n), n + 1) ELSE InOrder(S, n)
<1>1. PICK f \in [Nat -> Seq(Nat)] :
        /\ f[0] = <<>>
        /\ \A m \in Nat : f[m + 1] = IF m + 1 \in S THEN Append(f[m], m + 1) ELSE f[m]
        /\ \A last \in Nat : InOrder(S, last) = f[last]
  BY InOrderSteps
<1>2. InOrder(S, 0) = f[0] /\ InOrder(S, n) = f[n] /\ InOrder(S, n + 1) = f[n + 1]
  <2>1. 0 \in Nat /\ n + 1 \in Nat
    OBVIOUS
  <2> QED  BY <1>1, <2>1, Zenon
<1>3. f[n + 1] = IF n + 1 \in S THEN Append(f[n], n + 1) ELSE f[n]
  BY <1>1
<1> QED  BY <1>1, <1>2, <1>3

\* The places are those of the set.
LEMMA InOrderPlaces ==
  ASSUME NEW S, NEW last \in Nat
  PROVE  InOrder(S, last) \in Seq(S \cap (1 .. last))
<1> DEFINE P == {n \in Nat : InOrder(S, n) \in Seq(S \cap (1 .. n))}
<1>1. 0 \in P
  <2>1. <<>> \in Seq(S \cap (1 .. 0))
    BY EmptySeq
  <2> QED  BY <2>1, InOrderNext
<1>2. ASSUME NEW n \in Nat, n \in P PROVE n + 1 \in P
  <2> DEFINE T == S \cap (1 .. n)  U == S \cap (1 .. n + 1)  w == InOrder(S, n)
  <2>1. w \in Seq(T) /\ T \subseteq U
    BY <1>2
  <2>2. w \in Seq(U)
    <3> HIDE DEF T, U, w
    <3> QED  BY <2>1, SeqMonotonic
  <2>3. n + 1 \in S => n + 1 \in U
    OBVIOUS
  <2>4. InOrder(S, n + 1) = IF n + 1 \in S THEN Append(w, n + 1) ELSE w
    BY InOrderNext
  <2>5. InOrder(S, n + 1) \in Seq(U)
    <3> HIDE DEF U, w
    <3>1. n + 1 \in S => Append(w, n + 1) \in Seq(U)
      BY <2>2, <2>3, AppendProperties
    <3> QED  BY <2>2, <2>4, <3>1
  <2> QED  BY <2>5
<1>3. last \in P
  <2> HIDE DEF P
  <2> QED  BY <1>1, <1>2, SetInduction
<1> QED  BY <1>3

-----------------------------------------------------------------------------
(* Least and greatest places.                                              *)

\* A set of places that is not empty has a least one, and only one.
LEMMA MinIs ==
  ASSUME NEW n \in Nat, NEW S, S \subseteq 1 .. n, S # {}
  PROVE  /\ Min(S) \in S /\ \A k \in S : Min(S) <= k
         /\ \A m \in S : (\A k \in S : m <= k) => Min(S) = m
<1>1. S \in SUBSET (0 .. n)
  OBVIOUS
<1>2. \E m \in S : \A k \in S : m <= k
  BY <1>1, LeastExists
<1>3. Min(S) \in S /\ \A k \in S : Min(S) <= k
  BY <1>2 DEF Min
<1>4. ASSUME NEW m \in S, \A k \in S : m <= k PROVE Min(S) = m
  <2> DEFINE x == Min(S)
  <2>1. x \in S /\ x <= m
    BY <1>3
  <2> HIDE DEF x
  <2>2. m <= x
    BY <1>4, <2>1
  <2>3. m \in Nat /\ x \in Nat
    BY <2>1
  <2>4. x = m
    BY <2>1, <2>2, <2>3
  <2> QED  BY <2>4 DEF x
<1> QED  BY <1>3, <1>4

\* It has a greatest one, and only one.
LEMMA MaxIs ==
  ASSUME NEW n \in Nat, NEW S, S \subseteq 1 .. n, S # {}
  PROVE  /\ Max(S) \in S /\ \A k \in S : Max(S) >= k
         /\ \A m \in S : (\A k \in S : m >= k) => Max(S) = m
<1>1. S \in SUBSET (0 .. n)
  OBVIOUS
<1>2. \E m \in S : \A k \in S : k <= m
  BY <1>1, GreatestExists
<1>3. \E m \in S : \A k \in S : m >= k
  <2>1. PICK m \in S : \A k \in S : k <= m
    BY <1>2
  <2>2. \A k \in S : m >= k
    BY <2>1
  <2> QED  BY <2>2
<1>4. Max(S) \in S /\ \A k \in S : Max(S) >= k
  BY <1>3 DEF Max
<1>5. ASSUME NEW m \in S, \A k \in S : m >= k PROVE Max(S) = m
  <2> DEFINE x == Max(S)
  <2>1. x \in S /\ x >= m
    BY <1>4
  <2> HIDE DEF x
  <2>2. m >= x
    BY <1>5, <2>1
  <2>3. m \in Nat /\ x \in Nat
    BY <2>1
  <2>4. x = m
    BY <2>1, <2>2, <2>3
  <2> QED  BY <2>4 DEF x
<1> QED  BY <1>4, <1>5

-----------------------------------------------------------------------------
(* Which option matches.                                                   *)

\* What the assumption says of the option at a place of the profile.
LEMMA OptionFacts ==
  /\ Len(Options) \in Nat /\ DOMAIN Options = 1 .. Len(Options)
  /\ \A n \in DOMAIN Options :
       /\ Options[n] \in Range(Options) /\ NoValue \notin Range(Options[n].aliases)
       /\ Options[n].type \in OptionTypes /\ Options[n].formats \subseteq Forms \ {"none"}
<1>1. Options \in Seq(Range(Options))
  BY ParseAssumption
<1>2. Len(Options) \in Nat /\ DOMAIN Options = 1 .. Len(Options)
  BY <1>1, LenProperties
<1>3. \A n \in DOMAIN Options : Options[n] \in Range(Options)
  BY DEF Range
<1> QED  BY <1>2, <1>3, ParseAssumption

\* The words of an element stand at a place.
At(words, p, e) ==
  /\ Len(words) \in Nat /\ p \in 1 .. Len(words)
  /\ p + Len(Written(e)) <= Len(words) + 1
  /\ \A k \in 1 .. Len(Written(e)) : words[p + k - 1] = Written(e)[k]

\* The words of an element at its place, one by one.
LEMMA AtPlaces ==
  ASSUME NEW words, NEW p, NEW e, At(words, p, e)
  PROVE  /\ words[p].head = e.alias
         /\ e.form # "space" => words[p].rest = e.form /\ words[p].value = e.value
                                /\ words[p].content = e.content
         /\ e.form = "space" =>
              /\ words[p].rest = "none" /\ p # Len(words) /\ p + 1 \in 1 .. Len(words)
              /\ words[p + 1].head = NoValue /\ words[p + 1].value = e.value
              /\ words[p + 1].content = e.content
<1>1. /\ Len(words) \in Nat /\ p \in 1 .. Len(words) /\ p + 1 - 1 = p /\ p + 2 - 1 = p + 1
      /\ Len(Written(e)) = IF e.form = "space" THEN 2 ELSE 1
      /\ p + Len(Written(e)) <= Len(words) + 1
  BY WrittenWords DEF At
<1>2. words[p] = Written(e)[1]
  <2>1. 1 \in 1 .. Len(Written(e))
    BY <1>1
  <2>2. words[p + 1 - 1] = Written(e)[1]
    BY <2>1 DEF At
  <2> QED  BY <1>1, <2>2
<1>3. e.form = "space" => words[p + 1] = Written(e)[2]
  <2> SUFFICES ASSUME e.form = "space" PROVE words[p + 1] = Written(e)[2]
    OBVIOUS
  <2>1. 2 \in 1 .. Len(Written(e))
    BY <1>1
  <2>2. words[p + 2 - 1] = Written(e)[2]
    BY <2>1 DEF At
  <2> QED  BY <1>1, <2>2
<1>4. e.form = "space" => p # Len(words) /\ p + 1 \in 1 .. Len(words)
  BY <1>1
<1> QED  BY <1>2, <1>3, <1>4, WrittenWords

\* An option that has another name does not match.
LEMMA OtherOption ==
  ASSUME NEW words, NEW p, NEW e, At(words, p, e), NEW o, ~Has(o, e)
  PROVE  MatchAndGetArg(o, words, p) = {}
<1>1. words[p].head = e.alias
  BY AtPlaces
<1> QED  BY <1>1 DEF MatchAndGetArg, Has

\* An option matches what is written as it lists it, and takes all of it.
LEMMA FittingOption ==
  ASSUME NEW words, NEW p, NEW e, At(words, p, e), IsElement(e),
         e.form = "space" => e.value \notin Dashed,
         NEW n \in DOMAIN Options, Fits(Options[n], e)
  PROVE  MatchAndGetArg(Options[n], words, p)
           = {[arg |-> e.value, next |-> p + Len(Written(e))]}
<1> DEFINE o == Options[n]
<1>1. /\ e.alias \in Range(o.aliases) /\ e.alias # NoValue
      /\ e.form \in o.formats \/ (e.form = "none" /\ o.formats = {})
      /\ o.formats \subseteq Forms \ {"none"} /\ e.form \in Forms
      /\ e.form = "none" => e.value = NoValue
  BY OptionFacts DEF Fits, Has, IsElement
<1>2. Len(Written(e)) = IF e.form = "space" THEN 2 ELSE 1
  BY WrittenWords
<1>3. words[p].head \in Range(o.aliases)
  BY <1>1, AtPlaces
<1> HIDE DEF o
<1>4. CASE e.form = "none"
  <2>1. words[p].rest = "none" /\ o.formats = {}
    BY <1>1, <1>4, AtPlaces
  <2> QED  BY <1>1, <1>2, <1>3, <1>4, <2>1 DEF MatchAndGetArg, o
<1>5. CASE e.form = "space"
  <2>1. /\ words[p].rest = "none" /\ p # Len(words)
        /\ words[p + 1].head = NoValue /\ words[p + 1].value = e.value
    BY <1>5, AtPlaces
  <2>2. ~StartsWithPrefix(words[p + 1])
    BY <1>5, <2>1 DEF StartsWithPrefix
  <2>3. Separate(words, p) = {[arg |-> e.value, next |-> p + 2]}
    BY <2>1, <2>2 DEF Separate
  <2>4. "space" \in o.formats /\ o.formats # {}
    BY <1>1, <1>5
  <2>5. MatchAndGetArg(o, words, p) = Separate(words, p)
    BY <1>3, <2>1, <2>4 DEF MatchAndGetArg
  <2> QED  BY <1>2, <1>5, <2>3, <2>5 DEF o
<1>6. CASE e.form \in {"equal", "attached"}
  <2>1. words[p].rest = e.form /\ words[p].value = e.value
    BY <1>6, AtPlaces
  <2>2. e.form \in o.formats /\ o.formats # {} /\ words[p].rest # "none"
    BY <1>1, <1>6, <2>1
  <2>3. MatchAndGetArg(o, words, p) = {[arg |-> words[p].value, next |-> p + 1]}
    BY <1>3, <1>6, <2>1, <2>2 DEF MatchAndGetArg
  <2> QED  BY <1>2, <1>6, <2>1, <2>3 DEF o
<1> QED  BY <1>1, <1>4, <1>5, <1>6 DEF Forms

\* An option without an argument matches its name alone.
LEMMA FormlessOption ==
  ASSUME NEW words, NEW p, NEW e, At(words, p, e), IsElement(e), NEW o, o.formats = {},
         MatchAndGetArg(o, words, p) # {}
  PROVE  Fits(o, e) \/ e.form = "space"
<1>1. words[p].head = e.alias /\ (e.form # "space" => words[p].rest = e.form)
  BY AtPlaces
<1>2. words[p].head \in Range(o.aliases) /\ words[p].rest = "none"
  BY DEF MatchAndGetArg
<1> QED  BY <1>1, <1>2 DEF Fits, Has

\* Which options match an element, and the first that does.
Matchers(words, p) == {n \in DOMAIN Options : MatchAndGetArg(Options[n], words, p) # {}}

\* The first option that matches an element is the one the element means, if any.
LEMMA FirstMatcher ==
  ASSUME Orderly, NEW words, NEW p, NEW e, At(words, p, e), IsElement(e), Listed(e)
  PROVE  /\ Type(e) \in {"word", "unknown"} => Matchers(words, p) = {}
         /\ Type(e) \notin {"word", "unknown"} =>
              /\ Fitting(e) # {} /\ Matchers(words, p) # {}
              /\ Min(Matchers(words, p)) = Min(Fitting(e)) /\ Min(Fitting(e)) \in Fitting(e)
<1>1. CASE Type(e) \in {"word", "unknown"}
  <2>1. ASSUME NEW n \in DOMAIN Options PROVE ~Has(Options[n], e)
    <3>1. CASE ~IsOption(e)
      BY <3>1, OptionFacts DEF Has, IsOption
    <3>2. CASE IsOption(e)
      <4>1. ASSUME Fitting(e) # {} PROVE FALSE
        <5>1. Fitting(e) \subseteq 1 .. Len(Options)
          BY OptionFacts DEF Fitting
        <5>2. Min(Fitting(e)) \in DOMAIN Options
          BY <4>1, <5>1, OptionFacts, MinIs
        <5>3. Type(e) \in OptionTypes
          BY <3>2, <4>1, <5>2, OptionFacts DEF Type, OptionOf
        <5> QED  BY <1>1, <5>3 DEF OptionTypes
      <4>2. Type(e) = "unknown"
        BY <3>2, <4>1 DEF Type
      <4> QED  BY <4>2, OptionFacts DEF Listed
    <3> QED  BY <3>1, <3>2
  <2>2. Matchers(words, p) = {}
    BY <2>1, OtherOption DEF Matchers
  <2>3. ~(Type(e) \notin {"word", "unknown"})
    BY <1>1
  <2> QED  BY <2>2, <2>3
<1>2. CASE Type(e) \notin {"word", "unknown"}
  <2> DEFINE n == Min(Fitting(e))
  <2>1. Fitting(e) # {}
    BY <1>2 DEF Type
  <2>2. Fitting(e) \subseteq 1 .. Len(Options)
    BY OptionFacts DEF Fitting
  <2>3. n \in Fitting(e) /\ \A k \in Fitting(e) : n <= k
    BY <2>1, <2>2, OptionFacts, MinIs
  <2>4. e.form = "space" => e.value \notin Dashed
    BY DEF Listed
  <2>5. n \in Matchers(words, p)
    <3>1. n \in DOMAIN Options /\ Fits(Options[n], e)
      BY <2>3 DEF Fitting
    <3>2. MatchAndGetArg(Options[n], words, p) # {}
      <4> HIDE DEF n
      <4>1. MatchAndGetArg(Options[n], words, p) = {[arg |-> e.value, next |-> p + Len(Written(e))]}
        BY <2>4, <3>1, FittingOption
      <4> QED  BY <4>1
    <3> QED  BY <3>1, <3>2 DEF Matchers
  <2> HIDE DEF n
  <2>6. ASSUME NEW m \in Matchers(words, p) PROVE n <= m
    <3> SUFFICES ASSUME m < n PROVE FALSE
      BY <2>2, <2>3, OptionFacts DEF Matchers
    <3>1. /\ m \in DOMAIN Options /\ n \in DOMAIN Options
          /\ MatchAndGetArg(Options[m], words, p) # {} /\ Fits(Options[n], e)
      BY <2>3 DEF Matchers, Fitting
    <3>2. ~Fits(Options[m], e)
      <4>1. m \notin Fitting(e)
        BY <2>2, <2>3, <3>1, OptionFacts
      <4> QED  BY <3>1, <4>1 DEF Fitting
    <3>3. Has(Options[m], e) /\ Has(Options[n], e)
      BY <3>1, OtherOption DEF Fits
    <3>4. Share(Options[m], Options[n])
      BY <3>3 DEF Share, Has
    <3>5. CASE Options[m].formats = Options[n].formats
      BY <3>1, <3>2, <3>3, <3>5 DEF Fits
    <3>6. CASE Options[m].formats = {} /\ "space" \notin Options[n].formats
      <4>1. e.form = "space"
        BY <3>1, <3>2, <3>6, FormlessOption
      <4> QED  BY <3>1, <3>6, <4>1 DEF Fits
    <3> QED  BY <3>1, <3>4, <3>5, <3>6 DEF Orderly
  <2>7. Matchers(words, p) \subseteq 1 .. Len(Options)
    BY OptionFacts DEF Matchers
  <2>8. Min(Matchers(words, p)) = n
    BY <2>5, <2>6, <2>7, OptionFacts, MinIs
  <2> QED  BY <1>2, <2>1, <2>3, <2>5, <2>8 DEF n
<1> QED  BY <1>1, <1>2

-----------------------------------------------------------------------------
(* What holds of any command: types, and what has become of the words.         *)

\* The words of the elements of command lines, and the empty one.
AnyWord == WordSet(Elements) \cup {Plain(NoValue)}

Fields == {"kind", "binary", "file_format", "target", "sources", "pp_options", "scan_options"}

TypeOK ==
  /\ line \in Seq(Elements)
  /\ args \in Seq(AnyWord)
  /\ it \in Nat \ {0}
  /\ DOMAIN parsed = Fields
  /\ parsed.sources \in Seq(Range(parsed.sources)) /\ parsed.pp_options \in Seq(Nat)
  /\ pc \in {"unfold", "parse", "done", "undefined"}

\* The iterator stands behind what has been parsed, at the end of it all unless
\* the command is ignored.
Progress ==
  /\ pc = "unfold" => args = <<>> /\ it = 1
  /\ pc = "parse" => it <= Len(args) + 1
  /\ pc = "done" /\ parsed.kind # "ignore" => it = Len(args) + 1

LooksLikeSource(w) ==
  /\ w.head = NoValue /\ ~StartsWithPrefix(w)
  /\ Ext(w) \in DOMAIN SourceExtensions \ TargetExtensions

Accounted(n) ==
  \/ \E k \in DOMAIN parsed.sources : parsed.sources[k].at = n
  \/ n > 1 /\ TakesNext(args[n - 1])

\* Of the words behind the iterator, every source has become one or an argument.
SourcesAccounted ==
  \A n \in DOMAIN args : n < it /\ LooksLikeSource(args[n]) => Accounted(n)

WordInv == TypeOK /\ Progress /\ SourcesAccounted /\ UndefinedAtEnd

\* What a match takes: the word, and the next one if the option may have it.
LEMMA MatchTakes ==
  ASSUME NEW o, NEW words, Len(words) \in Nat, NEW n \in 1 .. Len(words),
         NEW m \in MatchAndGetArg(o, words, n)
  PROVE  /\ words[n].head \in Range(o.aliases)
         /\ \/ m.next = n + 1
            \/ m.next = n + 2 /\ words[n].rest = "none" /\ "space" \in o.formats
<1>1. words[n].head \in Range(o.aliases)
  BY DEF MatchAndGetArg
<1> DEFINE w == words[n]
           Next1 == \E a : m = [arg |-> a, next |-> n + 1]
<1>2. CASE w.rest = "none" /\ "space" \in o.formats
  <2>1. o.formats # {}
    BY <1>2
  <2>2. m \in Separate(words, n)
    BY <1>1, <1>2, <2>1 DEF MatchAndGetArg
  <2>3. m.next \in {n + 1, n + 2}
    BY <2>2 DEF Separate
  <2> QED  BY <1>1, <1>2, <2>3
<1>3. CASE ~(w.rest = "none" /\ "space" \in o.formats)
  <2>1. Next1
    BY <1>1, <1>3 DEF MatchAndGetArg
  <2>2. m.next = n + 1
    BY <2>1
  <2> QED  BY <1>1, <2>2
<1> QED  BY <1>2, <1>3

\* The content of a word is that of its element, or nothing.
LEMMA WordContent ==
  ASSUME NEW w \in AnyWord
  PROVE  w.content \in Seq(Elements)
<1>1. CASE w = Plain(NoValue)
  <2>1. w.content = <<>>
    BY <1>1 DEF Plain, Word
  <2> QED  BY <2>1, EmptySeq
<1>2. CASE w \in WordSet(Elements)
  <2>1. PICK e \in Elements : w \in Range(Written(e))
    BY <1>2 DEF WordSet
  <2>2. e.content \in Seq(Elements) /\ <<>> \in Seq(Elements)
    BY ParseAssumption, EmptySeq
  <2>3. CASE e.form = "space"
    <3> DEFINE v == Word(e.alias, "none", NoValue)
               u == [Plain(e.value) EXCEPT !.content = e.content]
    <3>1. Written(e) = <<v, u>>
      BY <2>3 DEF Written
    <3>2. v.content = <<>> /\ u.content = e.content
      BY DEF Plain, Word
    <3> HIDE DEF v, u
    <3>3. w \in {v, u}
      BY <2>1, <3>1 DEF Range
    <3> QED  BY <2>2, <3>2, <3>3
  <2>4. CASE e.form # "space"
    <3> DEFINE v == [Word(e.alias, e.form, e.value) EXCEPT !.content = e.content]
    <3>1. Written(e) = <<v>>
      BY <2>4 DEF Written
    <3>2. v.content = e.content
      BY DEF Word
    <3> HIDE DEF v
    <3>3. w = v
      BY <2>1, <3>1 DEF Range
    <3> QED  BY <2>2, <3>2, <3>3
  <2> QED  BY <2>3, <2>4
<1> QED  BY <1>1, <1>2 DEF AnyWord

\* The words of elements are words of the model.
LEMMA WordsAreAny ==
  ASSUME NEW s \in Seq(Elements)
  PROVE  WordsOf(s) \in Seq(AnyWord)
<1>1. WordsOf(s) \in Seq(WordSet(Elements))
  BY WordsConcat
<1>2. WordSet(Elements) \subseteq AnyWord
  BY DEF AnyWord
<1> QED  BY <1>1, <1>2, SeqMonotonic

\* Unfolding gives words of the model.
LEMMA UnfoldedWords ==
  ASSUME NEW words \in Seq(AnyWord), NEW n \in 1 .. Len(words), NEW match,
         match.next \in Nat, match.next >= 2, match.next <= Len(words) + 1
  PROVE  Unfolded(words, n, match) \in Seq(AnyWord)
<1> DEFINE next == match.next
<1>0. next \in Nat /\ next >= 2 /\ next <= Len(words) + 1
  OBVIOUS
<1> HIDE DEF next
<1>1. Len(words) \in Nat /\ \A i \in 1 .. Len(words) : words[i] \in AnyWord
  BY LenProperties, ElementOfSeq
<1>2. SubSeq(words, 1, n - 1) \in Seq(AnyWord)
  <2>1. \A i \in 1 .. n - 1 : words[i] \in AnyWord
    BY <1>1
  <2> QED  BY <2>1, <1>1, SubSeqProperties
<1>3. SubSeq(words, next, Len(words)) \in Seq(AnyWord)
  <2>1. \A i \in next .. Len(words) : words[i] \in AnyWord
    BY <1>0, <1>1
  <2> QED  BY <2>1, <1>0, <1>1, SubSeqProperties
<1>4. ResponseWords(words, match) \in Seq(AnyWord)
  <2> DEFINE named == words[next - 1]
             content == IF respfile /\ match.arg = named.value THEN WordsOf(named.content) ELSE <<>>
  <2>1. named \in AnyWord
    <3>1. next - 1 \in 1 .. Len(words)
      BY <1>0, <1>1
    <3> QED  BY <1>1, <3>1
  <2> HIDE DEF named
  <2>2. content \in Seq(AnyWord)
    BY <2>1, WordContent, WordsAreAny, EmptySeq
  <2>3. << Plain(NoValue) >> \in Seq(AnyWord)
    BY DEF AnyWord
  <2>4. ResponseWords(words, match) = IF content = <<>> THEN << Plain(NoValue) >> ELSE content
    BY DEF ResponseWords, named, next
  <2> HIDE DEF content
  <2> QED  BY <2>2, <2>3, <2>4
<1> DEFINE x == SubSeq(words, 1, n - 1)  y == ResponseWords(words, match)
           z == SubSeq(words, next, Len(words))
<1> HIDE DEF x, y, z
<1>5. x \o y \in Seq(AnyWord)
  BY <1>2, <1>4, ConcatProperties DEF x, y
<1>6. (x \o y) \o z \in Seq(AnyWord)
  BY <1>3, <1>5, ConcatProperties DEF z
<1> QED  BY <1>6 DEF Unfolded, x, y, z, next

\* What a match makes of the parsed item.
Outcome(o, arg, kept) == [Processed(o, arg) EXCEPT !.pp_options = @ \o kept]

\* Each field of it: only the type of the option says which one changes.
LEMMA ProcessedFields ==
  ASSUME DOMAIN parsed = Fields, NEW o, NEW arg, NEW kept
  PROVE  LET p == Outcome(o, arg, kept) IN
         /\ DOMAIN p = Fields /\ p.binary = parsed.binary
         /\ p.sources = parsed.sources /\ p.pp_options = parsed.pp_options \o kept
         /\ p.scan_options = IF o.type = "scan" THEN Append(parsed.scan_options, ScanOption(o, arg))
                             ELSE parsed.scan_options
         /\ p.kind = IF o.type = "cmd" THEN o.values[NoValue] ELSE parsed.kind
         /\ p.file_format = IF o.type = "language" THEN Language(o, arg, parsed.file_format)
                            ELSE parsed.file_format
         /\ p.target = IF o.type = "output" THEN FullPath(arg) ELSE parsed.target
<1> DEFINE q == Processed(o, arg)
<1>1. /\ DOMAIN q = Fields /\ q.binary = parsed.binary
      /\ q.sources = parsed.sources /\ q.pp_options = parsed.pp_options
      /\ q.scan_options = IF o.type = "scan" THEN Append(parsed.scan_options, ScanOption(o, arg))
                          ELSE parsed.scan_options
      /\ q.kind = IF o.type = "cmd" THEN o.values[NoValue] ELSE parsed.kind
      /\ q.file_format = IF o.type = "language" THEN Language(o, arg, parsed.file_format)
                         ELSE parsed.file_format
      /\ q.target = IF o.type = "output" THEN FullPath(arg) ELSE parsed.target
  <2>1. CASE o.type = "cmd"
    <3>1. q = [parsed EXCEPT !.kind = o.values[NoValue]]
      BY <2>1 DEF Processed
    <3> HIDE DEF q
    <3> QED  BY <2>1, <3>1 DEF Fields
  <2>2. CASE o.type = "language"
    <3>1. q = [parsed EXCEPT !.file_format = Language(o, arg, @)]
      BY <2>2 DEF Processed
    <3> HIDE DEF q
    <3> QED  BY <2>2, <3>1 DEF Fields
  <2>3. CASE o.type = "output"
    <3>1. q = [parsed EXCEPT !.target = FullPath(arg)]
      BY <2>3 DEF Processed
    <3> HIDE DEF q
    <3> QED  BY <2>3, <3>1 DEF Fields
  <2>4. CASE o.type = "scan"
    <3>1. q = [parsed EXCEPT !.scan_options = Append(@, ScanOption(o, arg))]
      BY <2>4 DEF Processed
    <3> HIDE DEF q
    <3> QED  BY <2>4, <3>1 DEF Fields
  <2>5. CASE o.type \notin {"cmd", "language", "output", "scan"}
    <3>1. q = parsed
      BY <2>5 DEF Processed
    <3> HIDE DEF q
    <3> QED  BY <2>5, <3>1 DEF Fields
  <2> QED  BY <2>1, <2>2, <2>3, <2>4, <2>5
<1> HIDE DEF q
<1>2. DOMAIN [q EXCEPT !.pp_options = q.pp_options \o kept] = Fields
  BY <1>1
<1> QED  BY <1>1, <1>2 DEF q, Fields, Outcome

\* The invariant holds at the start.
LEMMA WordInvInit == Init => WordInv
<1> SUFFICES ASSUME Init PROVE WordInv
  OBVIOUS
<1>1. line \in Seq(Elements)
  <2>1. PICK n \in 0 .. MaxElements : line \in [1 .. n -> Elements]
    BY DEF Init, BoundedSeq, SeqOf
  <2>2. n \in Nat
    BY ParseAssumption
  <2> QED  BY <2>1, <2>2
<1>2. args = <<>> /\ it = 1 /\ pc = "unfold"
  BY DEF Init
<1>3. PICK binary \in DOMAIN Binaries :
        parsed = [kind |-> DefaultKind, binary |-> binary,
                  file_format |-> IF DefaultKind = "compile" THEN Binaries[binary] ELSE "ext",
                  target |-> NoValue, sources |-> <<>>, pp_options |-> <<>>, scan_options |-> <<>>]
  BY DEF Init
<1>4. DOMAIN parsed = Fields /\ parsed.sources = <<>> /\ parsed.pp_options = <<>>
  BY <1>3 DEF Fields
<1>5. <<>> \in Seq(Range(<<>>)) /\ <<>> \in Seq(Nat) /\ <<>> \in Seq(AnyWord) /\ DOMAIN <<>> = {}
  BY EmptySeq
<1>6. TypeOK
  BY <1>1, <1>2, <1>4, <1>5 DEF TypeOK
<1>7. Progress /\ SourcesAccounted /\ UndefinedAtEnd
  BY <1>2, <1>5 DEF Progress, SourcesAccounted, UndefinedAtEnd
<1> QED  BY <1>6, <1>7 DEF WordInv

\* Unfolding keeps it: no word has been passed yet.
LEMMA WordInvUnfold == WordInv /\ Unfold => WordInv'
<1> SUFFICES ASSUME WordInv, Unfold PROVE WordInv'
  OBVIOUS
<1> DEFINE words == WordsOf(line)  n == Min(ResponsePlaces(words))
<1>1. /\ TypeOK /\ Progress /\ pc = "unfold" /\ it = 1
      /\ UNCHANGED <<line, respfile, it, parsed>>
  BY DEF WordInv, Progress, Unfold
<1>2. words \in Seq(AnyWord) /\ Len(words) \in Nat /\ DOMAIN words = 1 .. Len(words)
  <2>1. line \in Seq(Elements)
    BY <1>1 DEF TypeOK
  <2>2. WordsOf(line) \in Seq(AnyWord)
    BY <2>1, WordsAreAny
  <2> QED  BY <2>2, LenProperties
<1>3. /\ args' \in Seq(AnyWord)
      /\ \/ pc' = "parse"
         \/ pc' = "undefined" /\ args' # <<>> /\ TakesNext(Last(args'))
  <2>1. CASE ResponsePlaces(words) = {}
    BY <1>2, <2>1 DEF Unfold
  <2>2. CASE ResponsePlaces(words) # {}
    <3>1. PICK m \in MatchAndGetArg(ResponseOption, words, n) :
            IF m.next > Len(words) + 1 THEN args' = words /\ pc' = "undefined"
            ELSE args' = Unfolded(words, n, m) /\ pc' = "parse"
      BY <2>2 DEF Unfold
    <3>2. n \in 1 .. Len(words) /\ ResponseOptions # {}
      <4>1. ResponsePlaces(words) \subseteq 1 .. Len(words) /\ ResponseOptions # {}
        BY <1>2, <2>2 DEF ResponsePlaces
      <4> HIDE DEF words
      <4>2. n \in ResponsePlaces(words)
        BY <1>2, <2>2, <4>1, MinIs
      <4> QED  BY <4>1, <4>2
    <3> HIDE DEF n
    <3>3. \/ m.next = n + 1
          \/ m.next = n + 2 /\ words[n].rest = "none" /\ "space" \in ResponseOption.formats
      <4> HIDE DEF words
      <4> QED  BY <1>2, <3>1, <3>2, MatchTakes
    <3>4. words[n].head \in Range(ResponseOption.aliases)
      <4> HIDE DEF words
      <4> QED  BY <1>2, <3>1, <3>2, MatchTakes
    <3>5. ResponseOption \in Range(Options)
      <4>1. ResponseOptions \subseteq 1 .. Len(Options) /\ Len(Options) \in Nat
        BY OptionFacts DEF ResponseOptions
      <4>2. Max(ResponseOptions) \in ResponseOptions
        BY <3>2, <4>1, MaxIs
      <4>3. Max(ResponseOptions) \in DOMAIN Options
        BY <4>2 DEF ResponseOptions
      <4> QED  BY <4>3, OptionFacts DEF ResponseOption
    <3>6. CASE m.next > Len(words) + 1
      <4>0. n = Len(words) /\ m.next = n + 2
        <5> HIDE DEF words
        <5> QED  BY <1>2, <3>2, <3>3, <3>6
      <4>1. n = Len(words) /\ TakesNext(words[n])
        <5>1. words[n].rest = "none" /\ "space" \in ResponseOption.formats
          <6> HIDE DEF words
          <6> QED  BY <1>2, <3>2, <3>3, <4>0
        <5> HIDE DEF words
        <5> QED  BY <3>4, <3>5, <4>0, <5>1 DEF TakesNext
      <4>2. args' = words /\ pc' = "undefined" /\ args' # <<>>
        BY <1>2, <3>1, <3>2, <3>6
      <4>3. Last(args') = words[n]
        BY <4>1, <4>2 DEF Last
      <4> QED  BY <1>2, <4>1, <4>2, <4>3
    <3>7. CASE ~(m.next > Len(words) + 1)
      <4>1. args' = Unfolded(words, n, m) /\ pc' = "parse"
        BY <3>1, <3>7
      <4>2. m.next \in Nat /\ m.next >= 2 /\ m.next <= Len(words) + 1
        BY <1>2, <3>2, <3>3, <3>7
      <4>3. Unfolded(words, n, m) \in Seq(AnyWord)
        <5> HIDE DEF words
        <5> QED  BY <1>2, <3>2, <4>2, UnfoldedWords
      <4> QED  BY <4>1, <4>3
    <3> QED  BY <3>6, <3>7
  <2> QED  BY <2>1, <2>2
<1>4. TypeOK'
  BY <1>1, <1>3 DEF TypeOK
<1>5. Progress'
  <2>1. Len(args') \in Nat
    BY <1>3, LenProperties
  <2> QED  BY <1>1, <1>3, <2>1 DEF Progress
<1>6. SourcesAccounted'
  <2>1. \A k \in DOMAIN args' : ~(k < it')
    BY <1>1, <1>3, LenProperties
  <2> QED  BY <2>1 DEF SourcesAccounted
<1>7. UndefinedAtEnd'
  BY <1>3 DEF UndefinedAtEnd, TakesNext
<1> QED  BY <1>4, <1>5, <1>6, <1>7 DEF WordInv

\* A step of the loop keeps what is accounted for.
LEMMA AccountedStays ==
  ASSUME WordInv, args' = args,
         \A k \in DOMAIN parsed.sources : k \in DOMAIN parsed'.sources /\ parsed'.sources[k] = parsed.sources[k],
         NEW n \in DOMAIN args, n < it, LooksLikeSource(args[n])
  PROVE  Accounted(n)'
<1>1. Accounted(n)
  BY DEF WordInv, SourcesAccounted
<1> QED  BY <1>1 DEF Accounted, TakesNext

\* A match keeps it: it passes no source but as the argument of an option that may have one.
LEMMA WordInvMatch == WordInv /\ MatchOption => WordInv'
<1> SUFFICES ASSUME WordInv, MatchOption PROVE WordInv'
  OBVIOUS
<1>1. /\ TypeOK /\ Progress /\ pc = "parse" /\ it <= Len(args) /\ Matching # {}
      /\ UNCHANGED <<line, respfile, args>>
  BY DEF WordInv, MatchOption, MoreWords
<1>2. Len(args) \in Nat /\ DOMAIN args = 1 .. Len(args) /\ it \in 1 .. Len(args)
  BY <1>1, LenProperties DEF TypeOK
<1>3. PICK m \in MatchAndGetArg(FirstMatch, args, it) :
        LET kept == IF FirstMatch.type \in KeptTypes THEN Taken(it, m.next) ELSE <<>> IN
        /\ parsed' = [Processed(FirstMatch, m.arg) EXCEPT !.pp_options = @ \o kept]
        /\ it' = m.next
        /\ pc' = IF m.next > Len(args) + 1 THEN "undefined"
                 ELSE IF parsed'.kind = "ignore" THEN "done" ELSE "parse"
  BY DEF MatchOption
<1> DEFINE kept == IF FirstMatch.type \in KeptTypes THEN Taken(it, m.next) ELSE <<>>
<1>4. /\ args[it].head \in Range(FirstMatch.aliases)
      /\ \/ m.next = it + 1
         \/ m.next = it + 2 /\ args[it].rest = "none" /\ "space" \in FirstMatch.formats
  BY <1>2, MatchTakes
<1>5. FirstMatch \in Range(Options) /\ NoValue \notin Range(FirstMatch.aliases)
  <2>1. Matching \subseteq 1 .. Len(Options) /\ Len(Options) \in Nat
    BY OptionFacts DEF Matching
  <2>2. Min(Matching) \in Matching
    BY <1>1, <2>1, MinIs
  <2>3. Min(Matching) \in DOMAIN Options
    BY <2>2 DEF Matching
  <2> QED  BY <2>3, OptionFacts DEF FirstMatch
<1>6. kept \in Seq(Nat)
  <2>1. \A k \in 1 .. m.next - it : it + k - 1 \in Nat
    BY <1>2, <1>4
  <2>2. m.next - it \in Nat
    BY <1>2, <1>4
  <2>3. Taken(it, m.next) \in Seq(Nat)
    BY <2>1, <2>2 DEF Taken
  <2> QED  BY <2>3, EmptySeq
<1> HIDE DEF kept
<1>7. /\ DOMAIN parsed' = Fields /\ parsed'.sources = parsed.sources
      /\ parsed'.pp_options = parsed.pp_options \o kept
  <2>1. parsed' = Outcome(FirstMatch, m.arg, kept)
    BY <1>3 DEF kept, Outcome
  <2>2. DOMAIN parsed = Fields
    BY <1>1 DEF TypeOK
  <2> QED  BY <2>1, <2>2, ProcessedFields
<1>8. it' = m.next /\ it' \in Nat \ {0} /\ pc' \in {"undefined", "done", "parse"}
  BY <1>2, <1>3, <1>4
<1>9. TypeOK'
  <2>1. parsed'.pp_options \in Seq(Nat)
    BY <1>1, <1>6, <1>7, ConcatProperties DEF TypeOK
  <2> QED  BY <1>1, <1>7, <1>8, <2>1 DEF TypeOK
<1>10. Progress'
  BY <1>1, <1>2, <1>3, <1>4 DEF Progress
<1>11. SourcesAccounted'
  <2> SUFFICES ASSUME NEW n \in DOMAIN args, n < it', LooksLikeSource(args[n])
               PROVE  Accounted(n)'
    BY <1>1 DEF SourcesAccounted, LooksLikeSource, StartsWithPrefix, Ext
  <2>1. CASE n < it
    BY <1>1, <1>7, <2>1, AccountedStays
  <2>2. CASE n = it
    BY <1>4, <1>5, <2>2 DEF LooksLikeSource
  <2>3. CASE n = it + 1 /\ m.next = it + 2
    <3>1. TakesNext(args[n - 1]) /\ n > 1
      BY <1>2, <1>4, <1>5, <2>3 DEF TakesNext
    <3> QED  BY <1>1, <3>1 DEF Accounted, TakesNext
  <2> QED  BY <1>2, <1>4, <1>8, <2>1, <2>2, <2>3
<1>12. UndefinedAtEnd'
  <2> SUFFICES ASSUME pc' = "undefined" PROVE args # <<>> /\ TakesNext(Last(args))
    BY <1>1 DEF UndefinedAtEnd, TakesNext
  <2>1. m.next > Len(args) + 1
    BY <1>3
  <2>2. it = Len(args) /\ m.next = it + 2
    <3>1. Len(args) \in Nat /\ it \in 1 .. Len(args)
      BY <1>2
    <3>2. m.next = it + 1 \/ m.next = it + 2
      BY <1>4
    <3> QED  BY <2>1, <3>1, <3>2
  <2>3. TakesNext(args[it])
    <3>1. args[it].rest = "none" /\ "space" \in FirstMatch.formats
      BY <1>2, <1>4, <2>2
    <3> QED  BY <1>4, <1>5, <3>1 DEF TakesNext
  <2> QED  BY <1>2, <2>2, <2>3 DEF Last
<1> QED  BY <1>9, <1>10, <1>11, <1>12 DEF WordInv

\* A step for a word that no option matches, of any of the four kinds.
WordStep == MoreWords /\ (UnhandledOption \/ TargetFile \/ SourceFile \/ UnknownWord)

\* The record of a source file at the iterator.
SourceHere ==
  [file |-> FullPath(args[it].value), format |-> SourceFormat(Ext(args[it])), at |-> it]

\* What such a step changes.
LEMMA WordStepFields ==
  ASSUME DOMAIN parsed = Fields, WordStep
  PROVE  /\ pc = "parse" /\ it <= Len(args) /\ it' = it + 1
         /\ UNCHANGED <<line, respfile, args, pc>>
         /\ DOMAIN parsed' = Fields /\ Matching = {}
         /\ parsed'.kind = parsed.kind /\ parsed'.binary = parsed.binary
         /\ parsed'.file_format = parsed.file_format /\ parsed'.scan_options = parsed.scan_options
         /\ parsed'.target = IF ~StartsWithPrefix(args[it]) /\ IsTarget
                             THEN FullPath(args[it].value) ELSE parsed.target
         /\ parsed'.sources = IF ~StartsWithPrefix(args[it]) /\ ~IsTarget /\ IsSource
                              THEN Append(parsed.sources, SourceHere) ELSE parsed.sources
         /\ parsed'.pp_options = IF \/ StartsWithPrefix(args[it])
                                    \/ ~IsTarget /\ ~IsSource /\ ~IsEmpty(args[it])
                                 THEN Append(parsed.pp_options, it) ELSE parsed.pp_options
<1>1. CASE UnhandledOption
  <2>1. parsed' = WithOption /\ StartsWithPrefix(args[it])
    BY <1>1 DEF UnhandledOption, Unmatched
  <2> QED  BY <1>1, <2>1 DEF WordStep, MoreWords, UnhandledOption, Unmatched, WithOption, Fields
<1>2. CASE TargetFile
  <2>1. /\ parsed' = [parsed EXCEPT !.target = FullPath(args[it].value)]
        /\ ~StartsWithPrefix(args[it]) /\ IsTarget
    BY <1>2 DEF TargetFile, Unmatched
  <2> QED  BY <1>2, <2>1 DEF WordStep, MoreWords, TargetFile, Unmatched, Fields
<1>3. CASE SourceFile
  <2>1. /\ parsed' = [parsed EXCEPT !.sources = Append(@, SourceHere)]
        /\ ~StartsWithPrefix(args[it]) /\ ~IsTarget /\ IsSource
    BY <1>3 DEF SourceFile, Unmatched, SourceHere
  <2> QED  BY <1>3, <2>1 DEF WordStep, MoreWords, SourceFile, Unmatched, Fields
<1>4. CASE UnknownWord
  <2>1. /\ parsed' = IF IsEmpty(args[it]) THEN parsed ELSE WithOption
        /\ ~StartsWithPrefix(args[it]) /\ ~IsTarget /\ ~IsSource
    BY <1>4 DEF UnknownWord, Unmatched
  <2>2. /\ MoreWords /\ Matching = {} /\ it' = it + 1 /\ UNCHANGED <<line, respfile, args, pc>>
    BY <1>4 DEF UnknownWord, Unmatched
  <2>3. CASE IsEmpty(args[it])
    BY <2>1, <2>2, <2>3 DEF MoreWords
  <2>4. CASE ~IsEmpty(args[it])
    BY <2>1, <2>2, <2>4 DEF MoreWords, WithOption, Fields
  <2> QED  BY <2>3, <2>4
<1> QED  BY <1>1, <1>2, <1>3, <1>4 DEF WordStep

\* A word that no option matches keeps it: a source is taken as one.
LEMMA WordInvWord == WordInv /\ WordStep => WordInv'
<1> SUFFICES ASSUME WordInv, WordStep PROVE WordInv'
  OBVIOUS
<1>1. TypeOK /\ Progress /\ DOMAIN parsed = Fields
  BY DEF WordInv, TypeOK
<1>2. /\ pc = "parse" /\ it <= Len(args) /\ it' = it + 1
      /\ UNCHANGED <<line, respfile, args, pc>>
      /\ DOMAIN parsed' = Fields /\ parsed'.kind = parsed.kind
  BY <1>1, WordStepFields
<1>3. Len(args) \in Nat /\ DOMAIN args = 1 .. Len(args) /\ it \in 1 .. Len(args)
  BY <1>1, <1>2, LenProperties DEF TypeOK
<1>4. parsed'.sources = IF ~StartsWithPrefix(args[it]) /\ ~IsTarget /\ IsSource
                        THEN Append(parsed.sources, SourceHere) ELSE parsed.sources
  BY <1>1, WordStepFields
<1>5. /\ parsed'.sources \in Seq(Range(parsed'.sources))
      /\ \A k \in DOMAIN parsed.sources :
           k \in DOMAIN parsed'.sources /\ parsed'.sources[k] = parsed.sources[k]
      /\ ~StartsWithPrefix(args[it]) /\ ~IsTarget /\ IsSource =>
           \E k \in DOMAIN parsed'.sources : parsed'.sources[k] = SourceHere
  <2> DEFINE s == parsed.sources
  <2>1. s \in Seq(Range(s))
    BY <1>1 DEF TypeOK
  <2> DEFINE t == Append(s, SourceHere)
  <2>2. /\ Len(s) \in Nat /\ DOMAIN s = 1 .. Len(s) /\ t \in Seq(Range(t))
        /\ DOMAIN t = 1 .. Len(s) + 1 /\ \A n \in 1 .. Len(s) : t[n] = s[n]
        /\ t[Len(s) + 1] = SourceHere
    <3> HIDE DEF s
    <3> QED  BY <2>1, AppendAny
  <2> HIDE DEF s, t
  <2>3. Len(s) + 1 \in DOMAIN t /\ \A k \in DOMAIN s : k \in DOMAIN t /\ t[k] = s[k]
    BY <2>2
  <2>4. parsed'.sources = IF ~StartsWithPrefix(args[it]) /\ ~IsTarget /\ IsSource THEN t ELSE s
    BY <1>4 DEF s, t
  <2> QED  BY <2>1, <2>2, <2>3, <2>4 DEF s
<1>6. parsed'.pp_options \in Seq(Nat)
  <2>1. parsed.pp_options \in Seq(Nat) /\ it \in Nat
    BY <1>1 DEF TypeOK
  <2>2. Append(parsed.pp_options, it) \in Seq(Nat)
    BY <2>1, AppendProperties
  <2>3. parsed'.pp_options \in {Append(parsed.pp_options, it), parsed.pp_options}
    BY <1>1, WordStepFields
  <2> QED  BY <2>1, <2>2, <2>3
<1>7. TypeOK'
  BY <1>1, <1>2, <1>5, <1>6 DEF TypeOK
<1>8. Progress'
  BY <1>2, <1>3 DEF Progress
<1>9. SourcesAccounted'
  <2> SUFFICES ASSUME NEW n \in DOMAIN args, n < it', LooksLikeSource(args[n])
               PROVE  Accounted(n)'
    BY <1>2 DEF SourcesAccounted, LooksLikeSource, StartsWithPrefix, Ext
  <2>1. CASE n < it
    BY <1>2, <1>5, <2>1, AccountedStays
  <2>2. CASE n = it
    <3>1. ~StartsWithPrefix(args[it]) /\ IsSource /\ ~IsTarget
      BY <2>2 DEF LooksLikeSource, IsSource, IsTarget
    <3>2. SourceHere.at = it
      BY DEF SourceHere
    <3> QED  BY <1>5, <2>2, <3>1, <3>2 DEF Accounted
  <2> QED  BY <1>2, <1>3, <2>1, <2>2
<1>10. UndefinedAtEnd'
  BY <1>2 DEF UndefinedAtEnd, TakesNext
<1> QED  BY <1>7, <1>8, <1>9, <1>10 DEF WordInv

\* The invariant of the words holds throughout.
THEOREM WordsInvariant == Spec => []WordInv
<1>1. Init => WordInv
  BY WordInvInit
<1>2. WordInv /\ [Next]_vars => WordInv'
  <2> SUFFICES ASSUME WordInv, [Next]_vars PROVE WordInv'
    OBVIOUS
  <2>1. CASE Unfold
    BY <2>1, WordInvUnfold
  <2>2. CASE MatchOption
    BY <2>2, WordInvMatch
  <2>3. CASE Finish
    <3>1. pc = "parse" /\ it = Len(args) + 1 /\ pc' = "done" /\ UNCHANGED <<line, respfile, args, it, parsed>>
      BY <2>3 DEF Finish
    <3> QED  BY <3>1 DEF WordInv, TypeOK, Progress, SourcesAccounted, Accounted, LooksLikeSource,
                        StartsWithPrefix, Ext, TakesNext, UndefinedAtEnd
  <2>4. CASE WordStep
    BY <2>4, WordInvWord
  <2>5. CASE Returned \/ UNCHANGED vars
    <3>1. UNCHANGED vars
      BY <2>5 DEF Returned
    <3> QED  BY <3>1 DEF vars, WordInv, TypeOK, Progress, SourcesAccounted, Accounted, LooksLikeSource,
                        StartsWithPrefix, Ext, TakesNext, UndefinedAtEnd
  <2> QED  BY <2>1, <2>2, <2>3, <2>4, <2>5 DEF Next, WordStep
<1> QED  BY <1>1, <1>2, PTL DEF Spec

\* LostAsArgument holds of every profile and of every command, written as it may be:
\* a source file is lost only as what the profile takes for an argument.
THEOREM NoSourceLost == Spec => []LostAsArgument
<1>1. WordInv => LostAsArgument
  <2> SUFFICES ASSUME WordInv PROVE SourceLostAsArgument
    BY DEF WordInv, LostAsArgument
  <2> SUFFICES ASSUME pc = "done", parsed.kind # "ignore",
                      NEW n \in DOMAIN args, LooksLikeSource(args[n])
               PROVE  Accounted(n)
    BY DEF SourceLostAsArgument, LooksLikeSource, Accounted
  <2>1. it = Len(args) + 1 /\ Len(args) \in Nat /\ DOMAIN args = 1 .. Len(args)
    BY LenProperties DEF WordInv, TypeOK, Progress
  <2> QED  BY <2>1 DEF WordInv, SourcesAccounted
<1> QED  BY <1>1, WordsInvariant, PTL

-----------------------------------------------------------------------------
(* The meaning of one more element.                                            *)

\* The values of a function at the places of a sequence.
Pick(f, places) == [k \in DOMAIN places |-> f[places[k]]]

\* The values at one place more.
LEMMA PickAppend ==
  ASSUME NEW T, NEW s \in Seq(T), NEW n \in T, NEW f
  PROVE  Pick(f, Append(s, n)) = Append(Pick(f, s), f[n])
<1>1. /\ Len(s) \in Nat /\ DOMAIN s = 1 .. Len(s)
      /\ Append(s, n) \in Seq(T) /\ Len(Append(s, n)) = Len(s) + 1
      /\ \A i \in 1 .. Len(s) : Append(s, n)[i] = s[i]
      /\ Append(s, n)[Len(s) + 1] = n
  BY AppendProperties, LenProperties
<1> DEFINE t == Append(s, n)  x == Pick(f, s)  R == Range(x) \cup {f[n]}
<1>2. DOMAIN t = 1 .. Len(s) + 1 /\ DOMAIN x = 1 .. Len(s) /\ x \in Seq(R) /\ Len(x) = Len(s)
  BY <1>1 DEF Pick, Range
<1>3. \A i \in 1 .. Len(s) : x[i] = f[s[i]]
  BY <1>1 DEF Pick
<1> HIDE DEF x, R
<1>4. /\ Append(x, f[n]) \in Seq(R) /\ Len(Append(x, f[n])) = Len(s) + 1
      /\ \A i \in 1 .. Len(s) : Append(x, f[n])[i] = x[i]
      /\ Append(x, f[n])[Len(s) + 1] = f[n]
  BY <1>2, AppendProperties DEF R
<1> DEFINE y == Append(x, f[n])  z == Pick(f, t)
<1>5. DOMAIN y = 1 .. Len(s) + 1 /\ y = [k \in 1 .. Len(s) + 1 |-> y[k]]
  BY <1>1, <1>4
<1>6. z = [k \in 1 .. Len(s) + 1 |-> f[t[k]]]
  BY <1>2 DEF Pick
<1>7. ASSUME NEW k \in 1 .. Len(s) + 1 PROVE y[k] = f[t[k]]
  <2>1. CASE k \in 1 .. Len(s)
    <3>1. y[k] = x[k] /\ t[k] = s[k]
      BY <1>1, <1>4, <2>1
    <3> HIDE DEF y, t
    <3> QED  BY <1>3, <2>1, <3>1
  <2>2. CASE k = Len(s) + 1
    <3>1. y[Len(s) + 1] = f[n] /\ t[Len(s) + 1] = n
      BY <1>1, <1>4
    <3> HIDE DEF y, t
    <3> QED  BY <2>2, <3>1
  <2>3. k \in 1 .. Len(s) \/ k = Len(s) + 1
    BY <1>1
  <2> QED  BY <2>1, <2>2, <2>3
<1> HIDE DEF y, z, t
<1>8. y = z
  BY <1>5, <1>6, <1>7
<1> QED  BY <1>8 DEF y, z, t, x

\* The values at the places of two sequences.
LEMMA PickConcat ==
  ASSUME NEW T, NEW s \in Seq(T), NEW q \in Seq(T), NEW f
  PROVE  Pick(f, s \o q) = Pick(f, s) \o Pick(f, q)
<1> DEFINE t == s \o q  x == Pick(f, s)  y == Pick(f, q)  R == Range(x) \cup Range(y)
<1>1. /\ Len(s) \in Nat /\ DOMAIN s = 1 .. Len(s) /\ Len(q) \in Nat /\ DOMAIN q = 1 .. Len(q)
      /\ t \in Seq(T) /\ Len(t) = Len(s) + Len(q)
      /\ \A i \in 1 .. Len(s) + Len(q) : t[i] = IF i <= Len(s) THEN s[i] ELSE q[i - Len(s)]
  BY ConcatProperties, LenProperties
<1>2. DOMAIN t = 1 .. Len(s) + Len(q)
  BY <1>1
<1>3. /\ x \in Seq(R) /\ Len(x) = Len(s) /\ y \in Seq(R) /\ Len(y) = Len(q)
      /\ \A i \in 1 .. Len(s) : x[i] = f[s[i]]
      /\ \A i \in 1 .. Len(q) : y[i] = f[q[i]]
  BY <1>1 DEF Pick, Range
<1> HIDE DEF t, x, y, R
<1>4. /\ x \o y \in Seq(R) /\ Len(x \o y) = Len(s) + Len(q)
      /\ \A i \in 1 .. Len(s) + Len(q) : (x \o y)[i] = IF i <= Len(s) THEN x[i] ELSE y[i - Len(s)]
  <2>1. /\ x \o y \in Seq(R) /\ Len(x \o y) = Len(x) + Len(y)
        /\ \A i \in 1 .. Len(x) + Len(y) : (x \o y)[i] = IF i <= Len(x) THEN x[i] ELSE y[i - Len(x)]
    BY <1>3, ConcatProperties
  <2> QED  BY <1>3, <2>1
<1> DEFINE z == Pick(f, t)  w == x \o y
<1>5. z = [k \in 1 .. Len(s) + Len(q) |-> f[t[k]]]
  BY <1>2 DEF Pick
<1>6. w = [k \in 1 .. Len(s) + Len(q) |-> w[k]]
  <2>1. Len(s) + Len(q) \in Nat
    BY <1>1
  <2>2. DOMAIN w = 1 .. Len(s) + Len(q)
    BY <1>4, LenProperties
  <2>3. w \in [1 .. Len(w) -> R]
    BY <1>4, LenProperties
  <2> HIDE DEF w
  <2> QED  BY <2>2, <2>3
<1> HIDE DEF z, w
<1>7. ASSUME NEW k \in 1 .. Len(s) + Len(q) PROVE w[k] = f[t[k]]
  <2>1. CASE k <= Len(s)
    <3>1. k \in 1 .. Len(s)
      BY <1>1, <2>1
    <3>2. w[k] = x[k] /\ t[k] = s[k]
      BY <1>1, <1>4, <2>1 DEF w
    <3> QED  BY <1>3, <3>1, <3>2
  <2>2. CASE ~(k <= Len(s))
    <3>1. k - Len(s) \in 1 .. Len(q)
      BY <1>1, <2>2
    <3>2. w[k] = y[k - Len(s)] /\ t[k] = q[k - Len(s)]
      BY <1>1, <1>4, <2>2 DEF w
    <3> QED  BY <1>3, <3>1, <3>2
  <2> QED  BY <2>1, <2>2
<1>8. w = z
  BY <1>5, <1>6, <1>7
<1> QED  BY <1>8 DEF w, z, t, x, y

\* The language after an element.
LEMMA LanguageNext ==
  ASSUME NEW e, NEW n \in Nat \ {0}, NEW default
  PROVE  /\ LanguageAt(e, n + 1, default) =
              IF Says(e[n]) THEN OptionOf(e[n]).values[e[n].value] ELSE LanguageAt(e, n, default)
         /\ LanguageAt(e, 1, default) = default
<1> DEFINE S(k) == {m \in 1 .. k - 1 : Says(e[m])}
           Then(T) == IF T = {} THEN default ELSE OptionOf(e[Max(T)]).values[e[Max(T)].value]
<1>1. \A k : LanguageAt(e, k, default) = Then(S(k))
  BY DEF LanguageAt
<1>2. S(1) = {}
  OBVIOUS
<1>3. ~Says(e[n]) => S(n + 1) = S(n)
  OBVIOUS
<1>4. Says(e[n]) => n \in S(n + 1) /\ S(n + 1) \subseteq 1 .. n /\ \A k \in S(n + 1) : n >= k
  OBVIOUS
<1> DEFINE U == S(n + 1)
<1>5. Says(e[n]) => U # {} /\ Max(U) = n
  <2> HIDE DEF U
  <2>1. ASSUME Says(e[n]) PROVE U # {} /\ Max(U) = n
    <3>1. n \in U /\ U \subseteq 1 .. n /\ \A k \in U : n >= k
      BY <1>4, <2>1 DEF U
    <3> QED  BY <3>1, MaxIs
  <2> QED  BY <2>1
<1>6. CASE Says(e[n])
  <2>1. Then(U) = OptionOf(e[n]).values[e[n].value]
    BY <1>5, <1>6
  <2> HIDE DEF Then, S
  <2> QED  BY <1>1, <1>2, <1>6, <2>1 DEF Then
<1>7. CASE ~Says(e[n])
  <2>1. Then(S(1)) = default
    BY <1>2
  <2> HIDE DEF Then, S
  <2> QED  BY <1>1, <1>3, <1>7, <2>1
<1> QED  BY <1>6, <1>7

\* The values at the places of one more element.
LEMMA PlacesNext ==
  ASSUME NEW S, NEW f, NEW n \in Nat \ {0}
  PROVE  /\ Pick(f, InOrder(S, 0)) = <<>>
         /\ Pick(f, InOrder(S, n)) = IF n \in S THEN Append(Pick(f, InOrder(S, n - 1)), f[n])
                                     ELSE Pick(f, InOrder(S, n - 1))
         /\ \A last \in {0, n - 1, n} : \A k \in DOMAIN InOrder(S, last) : InOrder(S, last)[k] \in Nat
<1>1. n - 1 \in Nat /\ (n - 1) + 1 = n /\ n \in Nat /\ 0 \in Nat
  OBVIOUS
<1>2. ASSUME NEW last \in Nat PROVE InOrder(S, last) \in Seq(Nat)
  <2>1. InOrder(S, last) \in Seq(S \cap (1 .. last))
    BY InOrderPlaces
  <2>2. S \cap (1 .. last) \subseteq Nat
    OBVIOUS
  <2> QED  BY <2>1, <2>2, SeqMonotonic
<1>3. ASSUME NEW last \in Nat, NEW k \in DOMAIN InOrder(S, last) PROVE InOrder(S, last)[k] \in Nat
  BY <1>2, ElementOfSeq, LenProperties
<1>4. Pick(f, InOrder(S, 0)) = <<>>
  <2>1. InOrder(S, 0) = <<>>
    BY <1>1, InOrderNext
  <2>2. Pick(f, <<>>) = <<>>
    BY DEF Pick
  <2> QED  BY <2>1, <2>2
<1>5. InOrder(S, n) = IF n \in S THEN Append(InOrder(S, n - 1), n) ELSE InOrder(S, n - 1)
  <2>1. InOrder(S, (n - 1) + 1) = IF (n - 1) + 1 \in S THEN Append(InOrder(S, n - 1), (n - 1) + 1)
                                  ELSE InOrder(S, n - 1)
    BY <1>1, InOrderNext
  <2> QED  BY <1>1, <2>1
<1>6. Pick(f, Append(InOrder(S, n - 1), n)) = Append(Pick(f, InOrder(S, n - 1)), f[n])
  BY <1>1, <1>2, PickAppend
<1> QED  BY <1>1, <1>3, <1>4, <1>5, <1>6

\* The source files of one more element.
LEMMA SourcesNext ==
  ASSUME NEW e, NEW n \in Nat \ {0}, n \in DOMAIN e
  PROVE  /\ SourcesOf(e, 0) = <<>>
         /\ SourcesOf(e, n) = IF NamesSource(e, n) THEN Append(SourcesOf(e, n - 1), SourceOf(e, n))
                              ELSE SourcesOf(e, n - 1)
<1> DEFINE S == {m \in DOMAIN e : NamesSource(e, m)}
           f == [m \in Nat |-> SourceOf(e, m)]
<1>1. ASSUME NEW last \in {0, n - 1, n} PROVE SourcesOf(e, last) = Pick(f, InOrder(S, last))
  <2> DEFINE places == InOrder(S, last)
  <2>1. \A k \in DOMAIN places : places[k] \in Nat
    <3> HIDE DEF S
    <3> QED  BY PlacesNext
  <2>2. SourcesOf(e, last) = [k \in DOMAIN places |-> SourceOf(e, places[k])]
    BY DEF SourcesOf
  <2> HIDE DEF places
  <2>3. \A k \in DOMAIN places : f[places[k]] = SourceOf(e, places[k])
    BY <2>1
  <2> HIDE DEF f
  <2> QED  BY <2>2, <2>3 DEF places, Pick
<1>2. (n \in S <=> NamesSource(e, n)) /\ f[n] = SourceOf(e, n)
  OBVIOUS
<1> HIDE DEF S, f
<1> QED  BY <1>1, <1>2, PlacesNext

\* The scan options of one more element.
LEMMA ScansNext ==
  ASSUME NEW e, NEW n \in Nat \ {0}, n \in DOMAIN e
  PROVE  /\ ScanOptionsOf(e, 0) = <<>>
         /\ ScanOptionsOf(e, n) =
              IF Type(e[n]) = "scan"
              THEN Append(ScanOptionsOf(e, n - 1), ScanOption(OptionOf(e[n]), e[n].value))
              ELSE ScanOptionsOf(e, n - 1)
<1> DEFINE S == {m \in DOMAIN e : Type(e[m]) = "scan"}
           f == [m \in Nat |-> ScanOption(OptionOf(e[m]), e[m].value)]
<1>1. ASSUME NEW last \in {0, n - 1, n} PROVE ScanOptionsOf(e, last) = Pick(f, InOrder(S, last))
  <2> DEFINE places == InOrder(S, last)
  <2>1. \A k \in DOMAIN places : places[k] \in Nat
    <3> HIDE DEF S
    <3> QED  BY PlacesNext
  <2>2. ScanOptionsOf(e, last)
          = [k \in DOMAIN places |-> ScanOption(OptionOf(e[places[k]]), e[places[k]].value)]
    BY DEF ScanOptionsOf
  <2> HIDE DEF places
  <2>3. \A k \in DOMAIN places : f[places[k]] = ScanOption(OptionOf(e[places[k]]), e[places[k]].value)
    BY <2>1
  <2> HIDE DEF f
  <2> QED  BY <2>2, <2>3 DEF places, Pick
<1>2. (n \in S <=> Type(e[n]) = "scan") /\ f[n] = ScanOption(OptionOf(e[n]), e[n].value)
  OBVIOUS
<1> HIDE DEF S, f
<1> QED  BY <1>1, <1>2, PlacesNext

\* The kept words of one more element.
LEMMA OptionsNext ==
  ASSUME NEW T, NEW e \in Seq(T), NEW n \in 1 .. Len(e)
  PROVE  /\ OptionsOf(e, 0) = <<>>
         /\ OptionsOf(e, n) = IF Keeps(e, n) THEN OptionsOf(e, n - 1) \o Written(e[n])
                              ELSE OptionsOf(e, n - 1)
<1> DEFINE S == {m \in DOMAIN e : Keeps(e, m)}
<1>1. \A last : OptionsOf(e, last) = WordsOf(Pick(e, InOrder(S, last)))
  BY DEF OptionsOf, Pick
<1>2. /\ Len(e) \in Nat /\ DOMAIN e = 1 .. Len(e) /\ \A m \in 1 .. Len(e) : e[m] \in T
      /\ e \in [1 .. Len(e) -> T]
  BY LenProperties, ElementOfSeq
<1>3. n - 1 \in Nat /\ (n - 1) + 1 = n /\ n \in Nat
  BY <1>2
<1>4. n \in S <=> Keeps(e, n)
  BY <1>2
<1>5. S \subseteq 1 .. Len(e)
  BY <1>2
<1> HIDE DEF S
<1> DEFINE places == InOrder(S, n - 1)
<1>6. places \in Seq(1 .. Len(e))
  <2>1. places \in Seq(S \cap (1 .. n - 1))
    BY <1>3, InOrderPlaces
  <2>2. S \cap (1 .. n - 1) \subseteq 1 .. Len(e)
    BY <1>5
  <2> HIDE DEF places
  <2> QED  BY <2>1, <2>2, SeqMonotonic
<1>7. InOrder(S, n) = IF n \in S THEN Append(places, n) ELSE places
  <2>1. InOrder(S, (n - 1) + 1) = IF (n - 1) + 1 \in S THEN Append(InOrder(S, n - 1), (n - 1) + 1)
                                  ELSE InOrder(S, n - 1)
    BY <1>3, InOrderNext
  <2> QED  BY <1>3, <2>1
<1> DEFINE x == Pick(e, places)
<1>8. x \in Seq(T)
  <2>1. Len(places) \in Nat /\ DOMAIN places = 1 .. Len(places)
        /\ \A k \in 1 .. Len(places) : places[k] \in 1 .. Len(e)
    <3> HIDE DEF places
    <3> QED  BY <1>6, LenProperties, ElementOfSeq
  <2>2. \A k \in 1 .. Len(places) : e[places[k]] \in T
    <3> HIDE DEF places
    <3> QED  BY <1>2, <2>1
  <2>3. x = [k \in 1 .. Len(places) |-> e[places[k]]]
    BY <2>1 DEF Pick
  <2> HIDE DEF places, x
  <2> QED  BY <2>1, <2>2, <2>3
<1>9. Pick(e, Append(places, n)) = Append(x, e[n])
  <2> HIDE DEF places
  <2> QED  BY <1>6, PickAppend
<1>10. e[n] \in T
  BY <1>2
<1> HIDE DEF places, x
<1>11. Append(x, e[n]) = x \o <<e[n]>>
  BY <1>8, <1>10, AppendIsConcat
<1>12. WordsOf(x \o <<e[n]>>) = WordsOf(x) \o WordsOf(<<e[n]>>)
  <2> DEFINE y == <<e[n]>>
  <2>1. y \in Seq(T)
    BY <1>10
  <2> HIDE DEF y
  <2>2. WordsOf(x \o y) = WordsOf(x) \o WordsOf(y)
    BY <1>8, <2>1, WordsConcat
  <2> QED  BY <2>2 DEF y
<1>13. WordsOf(<<e[n]>>) = Written(e[n])
  BY WordsOne
<1>14. OptionsOf(e, 0) = <<>>
  <2>1. Pick(e, <<>>) = <<>>
    BY DEF Pick
  <2>2. InOrder(S, 0) = <<>>
    BY <1>3, InOrderNext
  <2>3. WordsOf(<<>>) = <<>>
    BY WordsOne
  <2>4. OptionsOf(e, 0) = WordsOf(Pick(e, InOrder(S, 0)))
    BY <1>1
  <2> QED  BY <2>1, <2>2, <2>3, <2>4
<1>15. OptionsOf(e, n - 1) = WordsOf(x)
  BY <1>1 DEF x, places
<1>16. OptionsOf(e, n) = WordsOf(Pick(e, InOrder(S, n)))
  BY <1>1
<1>17. CASE Keeps(e, n)
  BY <1>4, <1>7, <1>9, <1>11, <1>12, <1>13, <1>14, <1>15, <1>16, <1>17
<1>18. CASE ~Keeps(e, n)
  BY <1>4, <1>7, <1>14, <1>15, <1>16, <1>18 DEF x
<1> QED  BY <1>17, <1>18

\* The target of one more element.
LEMMA TargetNext ==
  ASSUME NEW e, NEW n \in Nat \ {0}
  PROVE  /\ TargetOf(e, 0) = NoValue
         /\ TargetOf(e, n) = IF Type(e[n]) = "output" THEN FullPath(e[n].value)
                             ELSE IF NamesTarget(e, n) THEN e[n].value ELSE TargetOf(e, n - 1)
<1> DEFINE outputs(k) == {m \in 1 .. k : Type(e[m]) = "output"}
           files(k) == {m \in 1 .. k : NamesTarget(e, m)}
           Then(O, F) == IF O # {} THEN FullPath(e[Max(O)].value)
                         ELSE IF F # {} THEN e[Min(F)].value ELSE NoValue
<1>1. \A k : TargetOf(e, k) = Then(outputs(k), files(k))
  BY DEF TargetOf
<1>2. outputs(0) = {} /\ files(0) = {}
  OBVIOUS
<1>3. TargetOf(e, 0) = NoValue
  <2> HIDE DEF outputs, files
  <2> QED  BY <1>1, <1>2
<1>4. /\ Type(e[n]) # "output" => outputs(n) = outputs(n - 1)
      /\ ~NamesTarget(e, n) => files(n) = files(n - 1)
  OBVIOUS
<1>5. CASE Type(e[n]) = "output"
  <2> DEFINE O == outputs(n)
  <2>1. n \in O /\ O \subseteq 1 .. n /\ \A k \in O : n >= k
    BY <1>5
  <2> HIDE DEF O
  <2>2. O # {} /\ Max(O) = n
    BY <2>1, MaxIs
  <2>3. TargetOf(e, n) = Then(O, files(n))
    BY <1>1 DEF O
  <2> HIDE DEF files
  <2> QED  BY <1>3, <1>5, <2>2, <2>3
<1>6. CASE Type(e[n]) # "output" /\ NamesTarget(e, n)
  <2>1. \A m \in 1 .. n - 1 : ~OpensTarget(e[m])
    BY <1>6 DEF NamesTarget
  <2>2. outputs(n) = {}
    BY <1>6, <2>1 DEF OpensTarget
  <2> DEFINE F == files(n)
  <2>3. n \in F /\ F \subseteq 1 .. n /\ \A k \in F : n <= k
    <3>1. \A m \in 1 .. n - 1 : ~NamesTarget(e, m)
      BY <2>1 DEF OpensTarget, NamesTarget
    <3> QED  BY <1>6, <3>1
  <2> HIDE DEF F
  <2>4. F # {} /\ Min(F) = n
    BY <2>3, MinIs
  <2>5. TargetOf(e, n) = Then(outputs(n), F)
    BY <1>1 DEF F
  <2> HIDE DEF outputs
  <2> QED  BY <1>3, <1>6, <2>2, <2>4, <2>5
<1>7. CASE Type(e[n]) # "output" /\ ~NamesTarget(e, n)
  <2> HIDE DEF outputs, files, Then
  <2> QED  BY <1>1, <1>3, <1>4, <1>7
<1> QED  BY <1>5, <1>6, <1>7

\* There is no target as long as nothing opens one.
LEMMA TargetOpens ==
  ASSUME Extension[NoValue] \notin TargetExtensions, NEW e, NEW n \in Nat
  PROVE  TargetOf(e, n) = NoValue <=> \A m \in 1 .. n : ~OpensTarget(e[m])
<1> DEFINE P == {k \in Nat : TargetOf(e, k) = NoValue <=> \A m \in 1 .. k : ~OpensTarget(e[m])}
<1>1. 0 \in P
  BY TargetNext
<1>2. ASSUME NEW k \in Nat, k \in P PROVE k + 1 \in P
  <2> DEFINE n1 == k + 1
  <2>1. n1 \in Nat \ {0} /\ n1 - 1 = k
    OBVIOUS
  <2>2. (\A m \in 1 .. n1 : ~OpensTarget(e[m])) <=> (\A m \in 1 .. k : ~OpensTarget(e[m])) /\ ~OpensTarget(e[n1])
    OBVIOUS
  <2>3. TargetOf(e, n1) = IF Type(e[n1]) = "output" THEN FullPath(e[n1].value)
                          ELSE IF NamesTarget(e, n1) THEN e[n1].value ELSE TargetOf(e, n1 - 1)
    <3> HIDE DEF n1
    <3> QED  BY <2>1, TargetNext
  <2>4. TargetOf(e, k) = NoValue <=> \A m \in 1 .. k : ~OpensTarget(e[m])
    BY <1>2
  <2>5. n1 \in P <=> (TargetOf(e, n1) = NoValue <=> \A m \in 1 .. n1 : ~OpensTarget(e[m]))
    OBVIOUS
  <2> HIDE DEF P, n1
  <2>6. NamesTarget(e, n1) <=> IsFile(e[n1], TargetExtensions) /\ \A m \in 1 .. k : ~OpensTarget(e[m])
    BY <2>1 DEF NamesTarget
  <2>7. CASE Type(e[n1]) = "output"
    <3>1. TargetOf(e, n1) # NoValue
      BY <2>3, <2>7 DEF FullPath, NoValue
    <3> QED  BY <2>2, <2>5, <2>7, <3>1 DEF OpensTarget, n1
  <2>8. CASE Type(e[n1]) # "output" /\ IsFile(e[n1], TargetExtensions)
    <3>1. e[n1].value # NoValue
      BY <2>8 DEF IsFile
    <3>2. OpensTarget(e[n1])
      BY <2>8 DEF OpensTarget
    <3>3. TargetOf(e, n1) # NoValue
      BY <2>1, <2>3, <2>4, <2>6, <2>8, <3>1
    <3> QED  BY <2>2, <2>5, <3>2, <3>3 DEF n1
  <2>9. CASE Type(e[n1]) # "output" /\ ~IsFile(e[n1], TargetExtensions)
    <3>1. ~OpensTarget(e[n1])
      BY <2>9 DEF OpensTarget
    <3>2. TargetOf(e, n1) = TargetOf(e, k)
      BY <2>1, <2>3, <2>6, <2>9
    <3> QED  BY <2>2, <2>4, <2>5, <3>1, <3>2 DEF n1
  <2> QED  BY <2>7, <2>8, <2>9 DEF n1
<1>3. n \in P
  <2> HIDE DEF P
  <2> QED  BY <1>1, <1>2, SetInduction
<1> QED  BY <1>3

-----------------------------------------------------------------------------
(* The parser goes from element to element.                                    *)

\* The words up to an element have been parsed as what they mean, and none of them
\* has the command ignored.
Simulates(e, j) ==
  /\ it = Before(e, j) + 1
  /\ ParsedUpTo(e, j)
  /\ \A n \in 1 .. j : ~Ignores(e[n])
  /\ parsed.file_format = LanguageAt(e, j + 1, DefaultFormat)
  /\ parsed.kind # "ignore"

\* Elements as they stand in a line that is written as the profile lists them.
GoodLine(e) ==
  /\ e \in Seq(Elements \cup {EmptyWord})
  /\ \A n \in DOMAIN e : IsElement(e[n]) /\ Listed(e[n])

\* What the step for an element does.
StepFor(e, n) ==
  /\ it' = it + Len(Written(e[n]))
  /\ UNCHANGED <<line, respfile, args>> /\ parsed'.binary = parsed.binary
  /\ FoundSources' = IF NamesSource(e, n) THEN Append(FoundSources, SourceOf(e, n)) ELSE FoundSources
  /\ KeptWords' = IF Keeps(e, n) THEN KeptWords \o Written(e[n]) ELSE KeptWords
  /\ parsed'.scan_options = IF Type(e[n]) = "scan"
                            THEN Append(parsed.scan_options, ScanOption(OptionOf(e[n]), e[n].value))
                            ELSE parsed.scan_options
  /\ parsed'.target = IF Type(e[n]) = "output" THEN FullPath(e[n].value)
                      ELSE IF NamesTarget(e, n) THEN e[n].value ELSE parsed.target
  /\ parsed'.file_format = IF Says(e[n]) THEN OptionOf(e[n]).values[e[n].value]
                           ELSE parsed.file_format
  /\ IF Ignores(e[n]) THEN pc' = "done" /\ parsed'.kind = "ignore"
     ELSE pc' = "parse" /\ parsed'.kind # "ignore"

\* The iterator at an element.
LEMMA ElementAt ==
  ASSUME NEW e, GoodLine(e), NEW n \in 1 .. Len(e), args = WordsOf(e), it = Before(e, n - 1) + 1
  PROVE  /\ At(args, it, e[n]) /\ IsElement(e[n]) /\ Listed(e[n])
         /\ it + Len(Written(e[n])) = Before(e, n) + 1
         /\ Before(e, n) <= Len(args) /\ Before(e, n) \in Nat
<1> DEFINE y == Written(e[n])
<1>1. /\ Before(e, n - 1) \in Nat /\ Before(e, n) = Before(e, n - 1) + Len(y)
      /\ Before(e, n) <= Len(args) /\ Len(args) \in Nat
      /\ \A k \in 1 .. Len(y) : args[Before(e, n - 1) + k] = y[k]
  BY WordPlaces DEF GoodLine
<1>2. Len(y) \in {1, 2}
  BY WrittenWords
<1> HIDE DEF y
<1>3. \A k \in 1 .. Len(y) : args[it + k - 1] = y[k]
  <2> TAKE k \in 1 .. Len(y)
  <2>1. it + k - 1 = Before(e, n - 1) + k
    BY <1>1, <1>2
  <2> QED  BY <1>1, <2>1
<1>4. /\ it \in 1 .. Len(args) /\ it + Len(y) <= Len(args) + 1
      /\ it + Len(y) = Before(e, n) + 1 /\ Before(e, n) \in Nat
  <2> DEFINE b == Before(e, n - 1)  c == Before(e, n)  a == Len(args)  d == Len(y)
  <2>1. b \in Nat /\ c = b + d /\ c <= a /\ a \in Nat /\ d \in {1, 2} /\ it = b + 1
    BY <1>1, <1>2
  <2> HIDE DEF a, b, c, d
  <2>2. it \in 1 .. a /\ it + d <= a + 1 /\ it + d = c + 1 /\ c \in Nat
    BY <2>1
  <2> QED  BY <2>2 DEF a, c, d
<1>5. DOMAIN e = 1 .. Len(e)
  BY LenProperties DEF GoodLine
<1> QED  BY <1>1, <1>3, <1>4, <1>5 DEF At, GoodLine, y

\* A step that follows an element leads on to the next one.
LEMMA StepSimulates ==
  ASSUME NEW e, GoodLine(e), NEW n \in 1 .. Len(e), args = WordsOf(e),
         Simulates(e, n - 1), StepFor(e, n), ~Ignores(e[n])
  PROVE  Simulates(e, n)'
<1>1. n \in Nat \ {0} /\ (n - 1) + 1 = n /\ n \in DOMAIN e /\ e \in Seq(Elements \cup {EmptyWord})
  BY LenProperties DEF GoodLine
<1>2. it' = Before(e, n) + 1
  BY ElementAt DEF Simulates, StepFor
<1>3. DefaultFormat' = DefaultFormat
  BY DEF DefaultFormat, StepFor
<1>4. FoundSources' = SourcesOf(e, n)'
  <2>1. SourcesOf(e, n)' = SourcesOf(e, n)
    BY <1>3 DEF SourcesOf, SourceOf
  <2>2. FoundSources = SourcesOf(e, n - 1)
    BY DEF Simulates, ParsedUpTo
  <2>3. FoundSources' = IF NamesSource(e, n) THEN Append(FoundSources, SourceOf(e, n)) ELSE FoundSources
    BY DEF StepFor
  <2>4. SourcesOf(e, n) = IF NamesSource(e, n) THEN Append(SourcesOf(e, n - 1), SourceOf(e, n))
                          ELSE SourcesOf(e, n - 1)
    BY <1>1, SourcesNext
  <2> QED  BY <2>1, <2>2, <2>3, <2>4
<1>5. KeptWords' = OptionsOf(e, n)
  <2>1. KeptWords = OptionsOf(e, n - 1)
    BY DEF Simulates, ParsedUpTo
  <2>2. KeptWords' = IF Keeps(e, n) THEN KeptWords \o Written(e[n]) ELSE KeptWords
    BY DEF StepFor
  <2>3. OptionsOf(e, n) = IF Keeps(e, n) THEN OptionsOf(e, n - 1) \o Written(e[n])
                          ELSE OptionsOf(e, n - 1)
    BY <1>1, OptionsNext
  <2> QED  BY <2>1, <2>2, <2>3
<1>6. parsed'.target = TargetOf(e, n)
  BY <1>1, TargetNext DEF Simulates, ParsedUpTo, StepFor
<1>7. parsed'.file_format = LanguageAt(e, n + 1, DefaultFormat)
  <2>1. parsed.file_format = LanguageAt(e, n, DefaultFormat)
    BY <1>1 DEF Simulates
  <2> DEFINE d == DefaultFormat
  <2>2. LanguageAt(e, n + 1, d) =
          IF Says(e[n]) THEN OptionOf(e[n]).values[e[n].value] ELSE LanguageAt(e, n, d)
    <3> HIDE DEF d
    <3> QED  BY <1>1, LanguageNext
  <2> QED  BY <2>1, <2>2 DEF StepFor
<1>8. LanguageAt(e, n + 1, DefaultFormat)' = LanguageAt(e, n + 1, DefaultFormat)
  BY <1>3 DEF LanguageAt
<1>9. \A m \in 1 .. n : ~Ignores(e[m])
  BY <1>1 DEF Simulates
<1>10. parsed'.kind # "ignore"
  BY DEF StepFor
<1>11. parsed'.scan_options = ScanOptionsOf(e, n)
  <2>1. parsed.scan_options = ScanOptionsOf(e, n - 1)
    BY DEF Simulates, ParsedUpTo
  <2>2. parsed'.scan_options = IF Type(e[n]) = "scan"
                              THEN Append(parsed.scan_options, ScanOption(OptionOf(e[n]), e[n].value))
                              ELSE parsed.scan_options
    BY DEF StepFor
  <2> QED  BY <1>1, <2>1, <2>2, ScansNext
<1>12. ParsedUpTo(e, n)'
  BY <1>4, <1>5, <1>6, <1>11 DEF ParsedUpTo
<1> QED  BY <1>2, <1>7, <1>8, <1>9, <1>10, <1>12 DEF Simulates

\* The words an option has taken are those of its element.
LEMMA PickTaken ==
  ASSUME NEW words, NEW p, NEW e, At(words, p, e)
  PROVE  /\ Pick(words, Taken(p, p + Len(Written(e)))) = Written(e)
         /\ Taken(p, p + Len(Written(e))) \in Seq(Nat)
<1> DEFINE y == Written(e)  t == Taken(p, p + Len(y))
<1>1. y \in Seq(Range(y)) /\ Len(y) \in {1, 2}
  BY WrittenWords
<1>2. p \in Nat /\ \A k \in 1 .. Len(y) : words[p + k - 1] = y[k]
  BY DEF At
<1>3. (p + Len(y)) - p = Len(y)
  <2> HIDE DEF y
  <2> QED  BY <1>1, <1>2
<1>4. t = [k \in 1 .. Len(y) |-> p + k - 1]
  BY <1>3 DEF Taken
<1> HIDE DEF y, t
<1>5. DOMAIN t = 1 .. Len(y)
  BY <1>4
<1>6. Pick(words, t) = [k \in 1 .. Len(y) |-> words[t[k]]]
  BY <1>5 DEF Pick
<1>7. \A k \in 1 .. Len(y) : words[t[k]] = y[k]
  BY <1>2, <1>4
<1>8. y = [k \in 1 .. Len(y) |-> y[k]]
  BY <1>1, LenProperties
<1>9. Pick(words, t) = y
  BY <1>6, <1>7, <1>8
<1>10. t \in Seq(Nat)
  BY <1>1, <1>2, <1>4
<1> QED  BY <1>9, <1>10 DEF y, t

\* What is left alone by a word and by an option that is not listed.
LEMMA ElementKinds ==
  ASSUME NEW e, NEW n
  PROVE  /\ IsOption(e[n]) => ~NamesSource(e, n) /\ ~NamesTarget(e, n) /\ Type(e[n]) # "word"
         /\ ~IsOption(e[n]) => Type(e[n]) = "word"
         /\ Type(e[n]) \in {"word", "unknown"} => ~Says(e[n]) /\ ~Ignores(e[n])
<1>1. IsOption(e[n]) => ~NamesSource(e, n) /\ ~NamesTarget(e, n)
  BY DEF NamesSource, NamesTarget, IsFile
<1>2. IsOption(e[n]) => Type(e[n]) # "word"
  <2> SUFFICES ASSUME IsOption(e[n]), Fitting(e[n]) # {} PROVE Type(e[n]) # "word"
    BY DEF Type
  <2>1. Fitting(e[n]) \subseteq 1 .. Len(Options)
    BY OptionFacts DEF Fitting
  <2>2. Min(Fitting(e[n])) \in DOMAIN Options
    BY <2>1, OptionFacts, MinIs
  <2>3. Type(e[n]) \in OptionTypes
    BY <2>2, OptionFacts DEF Type, OptionOf
  <2> QED  BY <2>3 DEF OptionTypes
<1> QED  BY <1>1, <1>2 DEF Type, Says, Ignores

\* An option of the profile is parsed as what it means.
LEMMA OptionStep ==
  ASSUME Orderly, WordInv, NEW e, GoodLine(e), NEW n \in 1 .. Len(e),
         args = WordsOf(e), it = Before(e, n - 1) + 1, parsed.kind # "ignore",
         Type(e[n]) \notin {"word", "unknown"}, MatchOption
  PROVE  StepFor(e, n)
<1> DEFINE w == e[n]
<1>1. /\ At(args, it, w) /\ IsElement(w) /\ Listed(w)
      /\ it + Len(Written(w)) = Before(e, n) + 1
      /\ Before(e, n) <= Len(args) /\ Before(e, n) \in Nat
  BY ElementAt
<1>2. /\ Fitting(w) # {} /\ Min(Matching) = Min(Fitting(w)) /\ Min(Fitting(w)) \in Fitting(w)
  <2>1. Matching = Matchers(args, it)
    BY DEF Matching, Matchers
  <2> HIDE DEF w
  <2> QED  BY <1>1, <2>1, FirstMatcher DEF w
<1>3. FirstMatch = OptionOf(w) /\ Min(Fitting(w)) \in DOMAIN Options /\ Fits(FirstMatch, w)
  BY <1>2 DEF FirstMatch, OptionOf, Fitting
<1>4. MatchAndGetArg(FirstMatch, args, it) = {[arg |-> w.value, next |-> it + Len(Written(w))]}
  <2>1. w.form = "space" => w.value \notin Dashed
    BY <1>1 DEF Listed
  <2> HIDE DEF w
  <2>2. Fits(Options[Min(Fitting(w))], w)
    BY <1>2 DEF Fitting
  <2>3. MatchAndGetArg(Options[Min(Fitting(w))], args, it)
          = {[arg |-> w.value, next |-> it + Len(Written(w))]}
    BY <1>1, <1>3, <2>1, <2>2, FittingOption
  <2> QED  BY <1>3, <2>3 DEF OptionOf
<1>5. Type(w) = FirstMatch.type /\ IsOption(w) /\ Type(w) \in OptionTypes
  <2>1. IsOption(w) /\ Type(w) = FirstMatch.type
    BY <1>2, <1>3 DEF Type
  <2> QED  BY <1>3, <2>1, OptionFacts DEF OptionOf
<1> DEFINE o == FirstMatch  next == it + Len(Written(w))
           kept == IF o.type \in KeptTypes THEN Taken(it, next) ELSE <<>>
<1>6. /\ parsed' = Outcome(o, w.value, kept) /\ it' = next
      /\ pc' = IF next > Len(args) + 1 THEN "undefined"
               ELSE IF parsed'.kind = "ignore" THEN "done" ELSE "parse"
      /\ UNCHANGED <<line, respfile, args>>
  <2>1. PICK m \in MatchAndGetArg(FirstMatch, args, it) :
          LET took == IF FirstMatch.type \in KeptTypes THEN Taken(it, m.next) ELSE <<>> IN
          /\ parsed' = [Processed(FirstMatch, m.arg) EXCEPT !.pp_options = @ \o took]
          /\ it' = m.next
          /\ pc' = IF m.next > Len(args) + 1 THEN "undefined"
                   ELSE IF parsed'.kind = "ignore" THEN "done" ELSE "parse"
    BY DEF MatchOption
  <2>2. m.arg = w.value /\ m.next = next
    <3>1. m = [arg |-> w.value, next |-> next]
      BY <1>4, <2>1
    <3> HIDE DEF next, w
    <3> QED  BY <3>1
  <2>3. UNCHANGED <<line, respfile, args>>
    BY DEF MatchOption
  <2> HIDE DEF next, w
  <2> QED  BY <2>1, <2>2, <2>3 DEF Outcome, kept
<1>7. ~(next > Len(args) + 1)
  <2>1. Len(args) \in Nat
    BY LenProperties DEF WordInv, TypeOK
  <2> DEFINE a == Len(args)  c == Before(e, n)
  <2>2. next = c + 1 /\ c <= a /\ c \in Nat /\ a \in Nat
    BY <1>1, <2>1
  <2> HIDE DEF a, c, next
  <2>3. ~(next > a + 1)
    BY <2>2
  <2> QED  BY <2>3 DEF a
<1>8. LET p == Outcome(o, w.value, kept) IN
      /\ DOMAIN p = Fields /\ p.binary = parsed.binary
      /\ p.sources = parsed.sources /\ p.pp_options = parsed.pp_options \o kept
      /\ p.scan_options = IF o.type = "scan" THEN Append(parsed.scan_options, ScanOption(o, w.value))
                          ELSE parsed.scan_options
      /\ p.kind = IF o.type = "cmd" THEN o.values[NoValue] ELSE parsed.kind
      /\ p.file_format = IF o.type = "language" THEN Language(o, w.value, parsed.file_format)
                         ELSE parsed.file_format
      /\ p.target = IF o.type = "output" THEN FullPath(w.value) ELSE parsed.target
  <2>1. DOMAIN parsed = Fields
    BY DEF WordInv, TypeOK
  <2> HIDE DEF o, kept, w
  <2> QED  BY <2>1, ProcessedFields
<1>9. ~NamesSource(e, n) /\ ~NamesTarget(e, n)
  BY <1>5, ElementKinds
<1>10. FoundSources' = FoundSources
  <2>1. parsed'.sources = parsed.sources
    BY <1>6, <1>8
  <2> QED  BY <2>1 DEF FoundSources
<1>11. parsed'.target = IF Type(w) = "output" THEN FullPath(w.value) ELSE parsed.target
  BY <1>5, <1>6, <1>8
<1>12. parsed'.file_format = IF Says(w) THEN OptionOf(w).values[w.value] ELSE parsed.file_format
  BY <1>3, <1>5, <1>6, <1>8 DEF Says, Language
<1>13. IF Ignores(w) THEN pc' = "done" /\ parsed'.kind = "ignore"
       ELSE pc' = "parse" /\ parsed'.kind # "ignore"
  <2>1. parsed'.kind = "ignore" <=> Ignores(w)
    BY <1>3, <1>5, <1>6, <1>8 DEF Ignores
  <2> QED  BY <1>6, <1>7, <2>1
<1>14. Keeps(e, n) <=> o.type \in KeptTypes
  BY <1>5 DEF Keeps, KeptTypes, OptionTypes
<1>15. KeptWords' = IF Keeps(e, n) THEN KeptWords \o Written(w) ELSE KeptWords
  <2> DEFINE pp == parsed.pp_options  t == Taken(it, next)
  <2>1. pp \in Seq(Nat)
    BY DEF WordInv, TypeOK
  <2>2. Pick(args, t) = Written(w) /\ t \in Seq(Nat)
    <3> HIDE DEF w
    <3> QED  BY <1>1, PickTaken
  <2>3. parsed'.pp_options = pp \o kept /\ args' = args
    BY <1>6, <1>8
  <2>4. KeptWords = Pick(args, pp) /\ KeptWords' = Pick(args, parsed'.pp_options)
    BY <2>3 DEF KeptWords, Pick
  <2> HIDE DEF pp, t, w
  <2>5. Pick(args, pp \o t) = Pick(args, pp) \o Pick(args, t)
    BY <2>1, <2>2, PickConcat
  <2>6. pp \o <<>> = pp
    BY <2>1, ConcatEmptySeq
  <2>7. CASE Keeps(e, n)
    <3>1. kept = t
      BY <1>14, <2>7 DEF t
    <3> HIDE DEF kept
    <3> QED  BY <2>2, <2>3, <2>4, <2>5, <2>7, <3>1
  <2>8. CASE ~Keeps(e, n)
    <3>1. kept = <<>>
      BY <1>14, <2>8
    <3> HIDE DEF kept
    <3> QED  BY <2>3, <2>4, <2>6, <2>8, <3>1
  <2> QED  BY <2>7, <2>8
<1>16. parsed'.scan_options = IF Type(w) = "scan"
                              THEN Append(parsed.scan_options, ScanOption(OptionOf(w), w.value))
                              ELSE parsed.scan_options
  <2> HIDE DEF w, kept
  <2> QED  BY <1>3, <1>5, <1>6, <1>8
<1> QED  BY <1>6, <1>8, <1>9, <1>10, <1>11, <1>12, <1>13, <1>15, <1>16 DEF StepFor

\* One more word that is kept.
LEMMA KeptAppend ==
  ASSUME NEW v
  PROVE  Append(KeptWords, v) = KeptWords \o <<v>>
PROOF BY DEF KeptWords

\* One more source that is found.
LEMMA FoundAppend ==
  ASSUME parsed.sources \in Seq(Range(parsed.sources)), NEW r,
         parsed'.sources = Append(parsed.sources, r)
  PROVE  FoundSources' = Append(FoundSources, <<r.file, r.format>>)
<1> DEFINE R == Range(parsed.sources) \cup {r}  f == [s \in R |-> <<s.file, s.format>>]
<1>1. parsed.sources \in Seq(R)
  <2>1. Range(parsed.sources) \subseteq R
    OBVIOUS
  <2> HIDE DEF R
  <2> QED  BY <2>1, SeqMonotonic
<1>2. r \in R
  OBVIOUS
<1>3. ASSUME NEW s \in Seq(R)
      PROVE  [k \in DOMAIN s |-> <<s[k].file, s[k].format>>] = Pick(f, s)
  <2>1. \A k \in DOMAIN s : s[k] \in R
    <3> HIDE DEF R
    <3> QED  BY ElementOfSeq, LenProperties
  <2> HIDE DEF R
  <2> QED  BY <2>1 DEF Pick
<1> DEFINE t == Append(parsed.sources, r)
<1>4. t \in Seq(R)
  <2> HIDE DEF R
  <2> QED  BY <1>1, <1>2, AppendProperties
<1>5. Pick(f, t) = Append(Pick(f, parsed.sources), f[r])
  <2> HIDE DEF R, f
  <2> QED  BY <1>1, <1>2, PickAppend
<1>6. f[r] = <<r.file, r.format>>
  OBVIOUS
<1>7. FoundSources = Pick(f, parsed.sources)
  <2> HIDE DEF R, f
  <2> QED  BY <1>1, <1>3 DEF FoundSources
<1>8. FoundSources' = Pick(f, t)
  <2>1. FoundSources' = [k \in DOMAIN t |-> <<t[k].file, t[k].format>>]
    BY DEF FoundSources
  <2> HIDE DEF R, f, t
  <2> QED  BY <1>3, <1>4, <2>1
<1> HIDE DEF f, t, R
<1> QED  BY <1>5, <1>6, <1>7, <1>8

\* A word, and an option that is not listed, are parsed as what they mean.
LEMMA WordStepMeans ==
  ASSUME Extension[NoValue] \notin TargetExtensions \cup DOMAIN SourceExtensions,
         WordInv, NEW e, GoodLine(e), NEW n \in 1 .. Len(e),
         args = WordsOf(e), Simulates(e, n - 1),
         Type(e[n]) \in {"word", "unknown"}, pc = "parse", WordStep
  PROVE  StepFor(e, n)
<1> DEFINE w == e[n]  v == args[it]
<1>0. it = Before(e, n - 1) + 1 /\ parsed.kind # "ignore"
  BY DEF Simulates
<1>1. At(args, it, w) /\ IsElement(w) /\ Listed(w)
  BY <1>0, ElementAt
<1>2. w.form # "space"
  <2>1. CASE Type(w) = "unknown"
    BY <1>1, <2>1 DEF Listed
  <2>2. CASE Type(w) = "word"
    BY <1>1, <2>2, ElementKinds DEF IsElement, IsOption
  <2> QED  BY <2>1, <2>2
<1>3. v.head = w.alias /\ v.value = w.value /\ Written(w) = <<v>> /\ Len(Written(w)) = 1
  <2> HIDE DEF w
  <2>1. v.head = w.alias /\ v.value = w.value
    BY <1>1, <1>2, AtPlaces
  <2>2. Len(Written(w)) = 1 /\ Written(w) \in Seq(Range(Written(w)))
    BY <1>2, WrittenWords
  <2>3. it \in Nat /\ args[it + 1 - 1] = Written(w)[1]
    BY <1>1, <2>2 DEF At
  <2>4. v = Written(w)[1]
    BY <2>3
  <2> DEFINE y == Written(w)
  <2> HIDE DEF y
  <2>5. y = <<y[1]>>
    BY <2>2 DEF y
  <2> QED  BY <2>1, <2>2, <2>4, <2>5 DEF y
<1>4. StartsWithPrefix(v) <=> Type(w) = "unknown"
  <2>1. CASE Type(w) = "unknown"
    <3>1. w.alias \in Dashed /\ w.alias # NoValue
      BY <1>1, <2>1, ElementKinds DEF Listed, IsOption
    <3> QED  BY <1>3, <2>1, <3>1 DEF StartsWithPrefix
  <2>2. CASE Type(w) = "word"
    <3>1. w.alias = NoValue /\ w.value \notin Dashed
      BY <1>1, <2>2, ElementKinds DEF IsElement, IsOption
    <3> QED  BY <1>3, <2>2, <3>1 DEF StartsWithPrefix
  <2> QED  BY <2>1, <2>2
<1>5. parsed.target = NoValue <=> \A m \in 1 .. n - 1 : ~OpensTarget(e[m])
  <2>1. n - 1 \in Nat
    OBVIOUS
  <2>2. parsed.target = TargetOf(e, n - 1)
    BY DEF Simulates, ParsedUpTo
  <2> QED  BY <2>1, <2>2, TargetOpens
<1>6. CASE Type(w) = "unknown"
  <2>1. StartsWithPrefix(v) /\ IsOption(w)
    BY <1>4, <1>6, ElementKinds DEF Type
  <2>2. ~NamesSource(e, n) /\ ~NamesTarget(e, n) /\ Keeps(e, n)
    BY <1>6, <2>1, ElementKinds DEF Keeps
  <2> QED
    <3>1. DOMAIN parsed = Fields
      BY DEF WordInv, TypeOK
    <3>2. /\ it' = it + 1 /\ UNCHANGED <<line, respfile, args, pc>>
          /\ parsed'.kind = parsed.kind /\ parsed'.binary = parsed.binary
          /\ parsed'.file_format = parsed.file_format
          /\ parsed'.target = parsed.target /\ parsed'.sources = parsed.sources
          /\ parsed'.scan_options = parsed.scan_options
          /\ parsed'.pp_options = Append(parsed.pp_options, it)
      BY <2>1, <3>1, WordStepFields
    <3>3. FoundSources' = FoundSources
      BY <3>2 DEF FoundSources
    <3>4. KeptWords' = Append(KeptWords, v)
      <4>1. parsed.pp_options \in Seq(Nat) /\ it \in Nat
        BY DEF WordInv, TypeOK
      <4>2. Pick(args, Append(parsed.pp_options, it)) = Append(Pick(args, parsed.pp_options), args[it])
        BY <4>1, PickAppend
      <4>3. KeptWords = Pick(args, parsed.pp_options) /\ KeptWords' = Pick(args, parsed'.pp_options)
        BY <3>2 DEF KeptWords, Pick
      <4> QED  BY <3>2, <4>2, <4>3
    <3>5. Append(KeptWords, v) = KeptWords \o Written(w)
      BY <1>3, KeptAppend
    <3> QED  BY <1>0, <1>3, <1>6, <2>2, <3>2, <3>3, <3>4, <3>5, ElementKinds DEF StepFor
<1>7. CASE Type(w) = "word"
  <2>1. ~StartsWithPrefix(v) /\ ~IsOption(w) /\ v.head = NoValue /\ Ext(v) = Extension[w.value]
    <3>1. ~IsOption(w)
      BY <1>7, ElementKinds
    <3> QED  BY <1>3, <1>4, <1>7, <3>1 DEF Ext, IsOption
  <2>2. IsTarget <=> NamesTarget(e, n)
    <3>1. NamesTarget(e, n) <=> IsFile(w, TargetExtensions) /\ parsed.target = NoValue
      BY <1>5 DEF NamesTarget
    <3> QED  BY <2>1, <3>1 DEF IsTarget, IsFile
  <2>3. ~IsTarget /\ IsSource <=> NamesSource(e, n)
    BY <2>1, <2>2 DEF IsSource, NamesSource, IsFile
  <2>4. NamesTarget(e, n) \/ NamesSource(e, n) => w.value # NoValue /\ FullPath(w.value) = w.value
    BY DEF NamesTarget, NamesSource, IsFile, FullPath
  <2>5. IsEmpty(v) <=> w.value = NoValue
    BY <1>3, <2>1 DEF IsEmpty
  <2>6. Keeps(e, n) <=> ~IsTarget /\ ~IsSource /\ ~IsEmpty(v)
    BY <1>7, <2>2, <2>3, <2>4, <2>5 DEF Keeps
  <2>7. DOMAIN parsed = Fields
    BY DEF WordInv, TypeOK
  <2>8. /\ it' = it + 1 /\ UNCHANGED <<line, respfile, args, pc>>
        /\ parsed'.kind = parsed.kind /\ parsed'.binary = parsed.binary
        /\ parsed'.file_format = parsed.file_format /\ parsed'.scan_options = parsed.scan_options
        /\ parsed'.target = IF IsTarget THEN FullPath(v.value) ELSE parsed.target
        /\ parsed'.sources = IF ~IsTarget /\ IsSource THEN Append(parsed.sources, SourceHere)
                             ELSE parsed.sources
        /\ parsed'.pp_options = IF ~IsTarget /\ ~IsSource /\ ~IsEmpty(v)
                                THEN Append(parsed.pp_options, it) ELSE parsed.pp_options
    BY <2>1, <2>7, WordStepFields
  <2>9. FoundSources' = IF NamesSource(e, n) THEN Append(FoundSources, SourceOf(e, n)) ELSE FoundSources
    <3>1. CASE NamesSource(e, n)
      <4>1. parsed.sources \in Seq(Range(parsed.sources))
        BY DEF WordInv, TypeOK
      <4>2. parsed'.sources = Append(parsed.sources, SourceHere)
        BY <2>3, <2>8, <3>1
      <4>3. SourceOf(e, n) = <<SourceHere.file, SourceHere.format>>
        <5>1. SourceHere.file = w.value
          BY <1>3, <2>4, <3>1 DEF SourceHere
        <5>2. SourceHere.format = IF parsed.file_format = "ext" THEN SourceExtensions[Extension[w.value]]
                                  ELSE parsed.file_format
          BY <2>1 DEF SourceHere, SourceFormat
        <5>3. parsed.file_format = LanguageAt(e, n, DefaultFormat)
          BY DEF Simulates
        <5> QED  BY <5>1, <5>2, <5>3 DEF SourceOf
      <4> QED  BY <3>1, <4>1, <4>2, <4>3, FoundAppend
    <3>2. CASE ~NamesSource(e, n)
      BY <2>3, <2>8, <3>2 DEF FoundSources
    <3> QED  BY <3>1, <3>2
  <2>10. KeptWords' = IF Keeps(e, n) THEN KeptWords \o Written(w) ELSE KeptWords
    <3>1. KeptWords = Pick(args, parsed.pp_options) /\ KeptWords' = Pick(args, parsed'.pp_options)
      BY <2>8 DEF KeptWords, Pick
    <3>2. parsed.pp_options \in Seq(Nat) /\ it \in Nat
      BY DEF WordInv, TypeOK
    <3>3. Pick(args, Append(parsed.pp_options, it)) = Append(Pick(args, parsed.pp_options), args[it])
      BY <3>2, PickAppend
    <3>4. Append(KeptWords, v) = KeptWords \o Written(w)
      BY <1>3, KeptAppend
    <3> QED  BY <2>6, <2>8, <3>1, <3>3, <3>4
  <2>11. parsed'.target = IF NamesTarget(e, n) THEN w.value ELSE parsed.target
    BY <1>3, <2>2, <2>4, <2>8
  <2>12. ~Says(w) /\ ~Ignores(w)
    BY <1>7, ElementKinds
  <2> QED  BY <1>0, <1>3, <1>7, <2>8, <2>9, <2>10, <2>11, <2>12 DEF StepFor
<1> QED  BY <1>6, <1>7

-----------------------------------------------------------------------------
(* Unfolding the response file.                                                *)

\* The elements are written one behind the other.
LEMMA BeforeGrows ==
  ASSUME NEW T, NEW e \in Seq(T), NEW i \in Nat, NEW j \in Nat, i <= j, j <= Len(e)
  PROVE  Before(e, i) <= Before(e, j) /\ Before(e, i) \in Nat /\ Before(e, j) \in Nat
<1>1. Len(e) \in Nat
  BY LenProperties
<1>2. ASSUME NEW n \in Nat, n <= Len(e) PROVE Before(e, n) \in Nat
  <2>1. CASE n = 0
    BY <2>1, BeforeEnds
  <2>2. CASE n # 0
    <3>1. n \in 1 .. Len(e)
      BY <1>1, <1>2, <2>2
    <3>2. Before(e, n - 1) \in Nat /\ Before(e, n) = Before(e, n - 1) + Len(Written(e[n]))
      BY <3>1, WordPlaces
    <3>3. Len(Written(e[n])) \in {1, 2}
      BY WrittenWords
    <3> QED  BY <3>2, <3>3
  <2> QED  BY <2>1, <2>2
<1> DEFINE P == {n \in Nat : i <= n /\ n <= Len(e) => Before(e, i) <= Before(e, n)}
<1>3. 0 \in P
  <2>1. i <= 0 => i = 0
    OBVIOUS
  <2>2. Before(e, 0) \in Nat
    BY <1>1, <1>2
  <2> QED  BY <2>1, <2>2
<1>4. ASSUME NEW n \in Nat, n \in P PROVE n + 1 \in P
  <2> SUFFICES ASSUME i <= n + 1, n + 1 <= Len(e) PROVE Before(e, i) <= Before(e, n + 1)
    OBVIOUS
  <2>1. CASE i = n + 1
    BY <1>2, <2>1
  <2>2. CASE i # n + 1
    <3>1. Before(e, i) <= Before(e, n) /\ n <= Len(e) /\ n + 1 \in 1 .. Len(e) /\ (n + 1) - 1 = n
      BY <1>1, <1>4, <2>2
    <3>2. Before(e, n + 1) = Before(e, n) + Len(Written(e[n + 1]))
      BY <3>1, WordPlaces
    <3>3. Len(Written(e[n + 1])) \in {1, 2}
      BY WrittenWords
    <3>4. Before(e, i) \in Nat /\ Before(e, n) \in Nat
      BY <1>1, <1>2, <3>1
    <3> DEFINE a == Before(e, i)  b == Before(e, n)  c == Before(e, n + 1)  d == Len(Written(e[n + 1]))
    <3>5. a \in Nat /\ b \in Nat /\ d \in {1, 2} /\ c = b + d /\ a <= b
      BY <3>1, <3>2, <3>3, <3>4
    <3> HIDE DEF a, b, c, d
    <3>6. a <= c
      BY <3>5
    <3> QED  BY <3>6 DEF a, c
  <2> QED  BY <2>1, <2>2
<1>5. \A n \in Nat : n \in P
  <2> HIDE DEF P
  <2> QED  BY <1>3, <1>4, SetInduction
<1>6. Before(e, i) <= Before(e, j)
  BY <1>5
<1> QED  BY <1>1, <1>2, <1>6

\* The first and the last of three parts.
LEMMA ThreeParts ==
  ASSUME NEW S, NEW x \in Seq(S), NEW y \in Seq(S), NEW z \in Seq(S)
  PROVE  LET u == (x \o y) \o z IN
         /\ SubSeq(u, 1, Len(x)) = x
         /\ SubSeq(u, Len(x) + Len(y) + 1, Len(u)) = z
<1> DEFINE w == x \o y  u == w \o z  a == Len(x)  b == Len(y)  c == Len(z)
<1>1. a \in Nat /\ b \in Nat /\ c \in Nat
  BY LenProperties
<1>2. /\ w \in Seq(S) /\ Len(w) = a + b
      /\ \A i \in 1 .. a + b : w[i] = IF i <= a THEN x[i] ELSE y[i - a]
  BY ConcatProperties
<1>3. /\ u \in Seq(S) /\ Len(u) = Len(w) + c
      /\ \A i \in 1 .. Len(w) + c : u[i] = IF i <= Len(w) THEN w[i] ELSE z[i - Len(w)]
  <2>1. w \in Seq(S)
    BY <1>2
  <2> HIDE DEF w
  <2> QED  BY <2>1, ConcatProperties
<1> HIDE DEF w
<1>4. /\ u \in Seq(S) /\ Len(u) = a + b + c
      /\ \A i \in 1 .. a + b + c : u[i] = IF i <= a + b THEN w[i] ELSE z[i - (a + b)]
  BY <1>2, <1>3
<1>5. \A i \in 1 .. a + b + c : u[i] \in S
  <2> HIDE DEF u, a, b, c
  <2> QED  BY <1>4, ElementOfSeq
<1> DEFINE f == SubSeq(u, 1, a)  g == SubSeq(u, a + b + 1, a + b + c)
<1>6. f = x
  <2>1. \A i \in 1 .. a : u[i] \in S
    <3> HIDE DEF u, a, b, c
    <3> QED  BY <1>1, <1>5
  <2>2. /\ f \in Seq(S) /\ Len(f) = IF 1 <= a THEN a - 1 + 1 ELSE 0
        /\ \A i \in 1 .. a - 1 + 1 : f[i] = u[1 + i - 1]
    <3> HIDE DEF u, a
    <3> QED  BY <1>1, <2>1, SubSeqProperties
  <2> HIDE DEF f, u, b, c, a
  <2>3. Len(f) = a
    BY <1>1, <2>2
  <2>4. \A i \in 1 .. a : f[i] = x[i]
    <3> TAKE i \in 1 .. a
    <3>1. i \in 1 .. a + b + c /\ i \in 1 .. a + b /\ i <= a /\ i <= a + b /\ 1 + i - 1 = i /\ i \in 1 .. a - 1 + 1
      BY <1>1
    <3>2. f[i] = u[i]
      BY <2>2, <3>1
    <3>3. u[i] = w[i]
      BY <1>4, <3>1
    <3> QED  BY <1>2, <3>1, <3>2, <3>3
  <2> QED  BY <2>2, <2>3, <2>4, SeqEqual DEF a
<1>7. g = z
  <2>1. \A i \in a + b + 1 .. a + b + c : u[i] \in S
    <3> HIDE DEF u, a, b, c
    <3> QED  BY <1>1, <1>5
  <2>2. /\ g \in Seq(S) /\ Len(g) = IF a + b + 1 <= a + b + c THEN (a + b + c) - (a + b + 1) + 1 ELSE 0
        /\ \A i \in 1 .. (a + b + c) - (a + b + 1) + 1 : g[i] = u[(a + b + 1) + i - 1]
    <3> DEFINE lo == a + b + 1  hi == a + b + c
    <3>0. lo \in Int /\ hi \in Int
      <4> HIDE DEF u, a, b, c
      <4> QED  BY <1>1
    <3>1. lo \in Int /\ hi \in Int /\ \A i \in lo .. hi : u[i] \in S
      <4> HIDE DEF u, a, b, c
      <4> QED  BY <2>1, <3>0
    <3> HIDE DEF u, a, b, c, lo, hi
    <3>2. /\ SubSeq(u, lo, hi) \in Seq(S) /\ Len(SubSeq(u, lo, hi)) = IF lo <= hi THEN hi - lo + 1 ELSE 0
          /\ \A i \in 1 .. hi - lo + 1 : SubSeq(u, lo, hi)[i] = u[lo + i - 1]
      BY <3>1, SubSeqProperties
    <3> QED  BY <3>2 DEF lo, hi
  <2> HIDE DEF f, u, b, c, a, g
  <2>3. Len(g) = c /\ (a + b + c) - (a + b + 1) + 1 = c
    BY <1>1, <2>2
  <2>4. \A i \in 1 .. c : g[i] = z[i]
    <3> TAKE i \in 1 .. c
    <3>1. /\ a + b + i \in 1 .. a + b + c /\ ~(a + b + i <= a + b) /\ (a + b + 1) + i - 1 = a + b + i
          /\ (a + b + i) - (a + b) = i
      BY <1>1
    <3>2. g[i] = u[a + b + i]
      BY <2>2, <2>3, <3>1
    <3>3. u[a + b + i] = z[(a + b + i) - (a + b)]
      BY <1>4, <3>1
    <3> QED  BY <3>1, <3>2, <3>3
  <2> QED  BY <2>2, <2>3, <2>4, SeqEqual DEF c
<1>8. SubSeq(u, a + b + 1, Len(u)) = z
  <2>1. Len(u) = a + b + c
    BY <1>4
  <2> HIDE DEF u
  <2> QED  BY <1>7, <2>1
<1> QED  BY <1>6, <1>8 DEF w

\* Elements that are written as the profile lists them.
Proper == {x \in Elements \cup {EmptyWord} : IsElement(x) /\ Listed(x)}

\* A regular line and the content of its response files are of such elements.
LEMMA ProperElements ==
  ASSUME TypeOK, Regular
  PROVE  /\ line \in Seq(Proper) /\ <<EmptyWord>> \in Seq(Proper)
         /\ \A n \in 1 .. Len(line) : line[n].content \in Seq(Proper)
<1>1. /\ line \in Seq(Elements) /\ Len(line) \in Nat /\ DOMAIN line = 1 .. Len(line)
      /\ \A n \in 1 .. Len(line) : line[n] \in Elements /\ line[n] \in Range(line)
  BY LenProperties, ElementOfSeq DEF TypeOK, Range
<1>2. EmptyWord \in Proper
  <2>1. EmptyWord.alias = NoValue /\ EmptyWord.form = "none" /\ EmptyWord.value = NoValue
        /\ EmptyWord.content = <<>>
    BY DEF EmptyWord
  <2>2. NoValue \notin Dashed
    BY ParseAssumption
  <2>3. IsElement(EmptyWord)
    BY <2>1, <2>2 DEF IsElement, Forms
  <2>4. Type(EmptyWord) = "word"
    BY <2>1 DEF Type, IsOption
  <2>5. Listed(EmptyWord)
    BY <2>1, <2>4 DEF Listed
  <2> QED  BY <2>3, <2>5 DEF Proper
<1>3. \A n \in 1 .. Len(line) : line[n] \in Proper
  BY <1>1, ParseAssumption DEF Regular, Proper
<1>4. ASSUME NEW n \in 1 .. Len(line) PROVE line[n].content \in Seq(Proper)
  <2> DEFINE c == line[n].content
  <2>1. c \in Seq(Elements)
    BY <1>1, ParseAssumption
  <2>2. \A x \in Range(c) : Listed(x)
    BY <1>1 DEF Regular
  <2> HIDE DEF c
  <2>3. /\ Len(c) \in Nat /\ DOMAIN c = 1 .. Len(c) /\ \A i \in 1 .. Len(c) : c[i] \in Elements
    BY <2>1, LenProperties, ElementOfSeq
  <2>4. \A i \in 1 .. Len(c) : c[i] \in Proper
    BY <2>2, <2>3, ParseAssumption DEF Range, Proper
  <2>5. c \in [1 .. Len(c) -> Proper]
    BY <2>1, <2>4, LenProperties
  <2> QED  BY <2>3, <2>5 DEF c
<1>5. line \in Seq(Proper)
  <2>1. line \in [1 .. Len(line) -> Proper]
    BY <1>1, <1>3
  <2> QED  BY <1>1, <2>1
<1> QED  BY <1>2, <1>4, <1>5

\* An element of the line is a response option if and only if it bears its name.
LEMMA ResponseNamed ==
  ASSUME OneResponseOption, NEW e, IsElement(e), Listed(e), ResponseOptions # {}
  PROVE  /\ Type(e) = "response" <=> Has(ResponseOption, e)
         /\ Type(e) = "response" =>
              /\ Fits(ResponseOption, e) /\ e.form # "none"
              /\ ResponseOption.type = "response"
         /\ Max(ResponseOptions) \in DOMAIN Options
<1> DEFINE R == Max(ResponseOptions)
<1>1. R \in ResponseOptions /\ R \in DOMAIN Options
  <2>1. ResponseOptions \subseteq 1 .. Len(Options) /\ Len(Options) \in Nat
    BY OptionFacts DEF ResponseOptions
  <2>2. R \in ResponseOptions
    BY <2>1, MaxIs
  <2> QED  BY <2>2 DEF ResponseOptions
<1>2. ResponseOption = Options[R] /\ Options[R].type = "response" /\ Options[R].formats # {}
  BY <1>1 DEF ResponseOption, ResponseOptions, OneResponseOption
<1> HIDE DEF R
<1>3. \A n \in DOMAIN Options : n # R => n \notin ResponseOptions /\ ~Share(Options[R], Options[n])
  BY <1>1 DEF OneResponseOption
<1>4. Fitting(e) # {} => Min(Fitting(e)) \in Fitting(e)
  <2>1. Fitting(e) \subseteq 1 .. Len(Options) /\ Len(Options) \in Nat
    BY OptionFacts DEF Fitting
  <2> QED  BY <2>1, MinIs
<1>5. ASSUME Type(e) = "response" PROVE Fits(Options[R], e)
  <2>1. IsOption(e) /\ Fitting(e) # {} /\ OptionOf(e).type = "response"
    BY <1>5 DEF Type
  <2>2. Min(Fitting(e)) \in ResponseOptions
    BY <1>4, <2>1 DEF OptionOf, ResponseOptions, Fitting
  <2>3. Min(Fitting(e)) = R
    BY <1>3, <1>4, <2>1, <2>2 DEF Fitting
  <2> QED  BY <1>4, <2>1, <2>3 DEF Fitting
<1>6. ASSUME Has(Options[R], e) PROVE Type(e) = "response"
  <2>1. IsOption(e)
    BY <1>1, <1>6, OptionFacts DEF Has, IsOption
  <2>2. Fitting(e) # {}
    <3> SUFFICES ASSUME Fitting(e) = {} PROVE FALSE
      OBVIOUS
    <3>1. Type(e) = "unknown"
      BY <2>1 DEF Type
    <3>2. Options[R] \in Range(Options)
      BY <1>1, OptionFacts
    <3> QED  BY <1>6, <3>1, <3>2 DEF Listed
  <2>3. Min(Fitting(e)) \in DOMAIN Options /\ Has(Options[Min(Fitting(e))], e)
    BY <1>4, <2>2 DEF Fitting, Fits
  <2> DEFINE n == Min(Fitting(e))
  <2>4. Share(Options[R], Options[n])
    BY <1>6, <2>3 DEF Share, Has
  <2>5. n = R
    <3> HIDE DEF n
    <3> QED  BY <1>3, <2>3, <2>4 DEF n
  <2> QED  BY <1>2, <2>1, <2>2, <2>5 DEF Type, OptionOf
<1>7. ASSUME Type(e) = "response" PROVE e.form # "none"
  <2>1. Options[R].formats \subseteq Forms \ {"none"}
    BY <1>1, OptionFacts
  <2> QED  BY <1>2, <1>5, <1>7, <2>1 DEF Fits
<1>8. Fits(Options[R], e) => Has(Options[R], e)
  BY DEF Fits
<1> QED  BY <1>1, <1>2, <1>5, <1>6, <1>7, <1>8 DEF R

\* Where the response options of a line stand among its words.
LEMMA ResponsePlacesOfLine ==
  ASSUME OneResponseOption, NEW e \in Seq(Proper)
  PROVE  ResponsePlaces(WordsOf(e)) = {Before(e, j - 1) + 1 : j \in Of(e, "response")}
<1> DEFINE words == WordsOf(e)
<1>1. /\ Len(e) \in Nat /\ DOMAIN e = 1 .. Len(e)
      /\ \A j \in 1 .. Len(e) : IsElement(e[j]) /\ Listed(e[j])
  BY LenProperties, ElementOfSeq DEF Proper
<1>2. words \in Seq(WordSet(Proper)) /\ Len(words) \in Nat /\ DOMAIN words = 1 .. Len(words)
  <2>1. words \in Seq(WordSet(Proper))
    BY WordsConcat
  <2> HIDE DEF words
  <2> QED  BY <2>1, LenProperties
<1>3. ASSUME NEW j \in 1 .. Len(e)
      PROVE  At(words, Before(e, j - 1) + 1, e[j]) /\ Before(e, j - 1) + 1 \in DOMAIN words
  <2> DEFINE y == Written(e[j])  b == Before(e, j - 1)  c == Before(e, j)
  <2>1. /\ b \in Nat /\ c = b + Len(y) /\ c <= Len(words)
        /\ \A k \in 1 .. Len(y) : words[b + k] = y[k]
    BY WordPlaces
  <2>2. Len(y) \in {1, 2}
    BY WrittenWords
  <2> HIDE DEF y, b, c, words
  <2>3. /\ b + 1 \in 1 .. Len(words) /\ (b + 1) + Len(y) <= Len(words) + 1
        /\ \A k \in 1 .. Len(y) : (b + 1) + k - 1 = b + k
    <3> DEFINE a == Len(words)  d == Len(y)
    <3>1. b \in Nat /\ c = b + d /\ c <= a /\ a \in Nat /\ d \in {1, 2}
      BY <1>2, <2>1, <2>2
    <3> HIDE DEF a, d
    <3>2. b + 1 \in 1 .. a /\ (b + 1) + d <= a + 1
      BY <3>1
    <3>3. \A k \in 1 .. d : (b + 1) + k - 1 = b + k
      BY <3>1
    <3> QED  BY <3>2, <3>3 DEF a, d
  <2>4. \A k \in 1 .. Len(y) : words[(b + 1) + k - 1] = y[k]
    BY <2>1, <2>3
  <2> QED  BY <1>2, <2>3, <2>4 DEF At, y, b
<1> HIDE DEF words
<1>4. ASSUME ResponseOptions = {}
      PROVE  ResponsePlaces(words) = {} /\ Of(e, "response") = {}
  <2>1. ASSUME NEW x, Type(x) = "response" PROVE FALSE
    <3>1. Fitting(x) # {} /\ OptionOf(x).type = "response"
      BY <2>1 DEF Type
    <3>2. Fitting(x) \subseteq 1 .. Len(Options) /\ Len(Options) \in Nat
      BY OptionFacts DEF Fitting
    <3>3. Min(Fitting(x)) \in DOMAIN Options
      BY <3>1, <3>2, OptionFacts, MinIs
    <3> QED  BY <1>4, <3>1, <3>3 DEF OptionOf, ResponseOptions
  <2> QED  BY <1>4, <2>1 DEF ResponsePlaces, Of
<1>5. ASSUME ResponseOptions # {}, NEW p \in ResponsePlaces(words)
      PROVE  \E j \in Of(e, "response") : p = Before(e, j - 1) + 1
  <2>1. p \in 1 .. Len(words) /\ MatchAndGetArg(ResponseOption, words, p) # {}
    BY <1>2 DEF ResponsePlaces
  <2>2. PICK j \in 1 .. Len(e) : \E k \in 1 .. Len(Written(e[j])) : p = Before(e, j - 1) + k
    BY <2>1, PlaceOfWord DEF words
  <2>3. PICK k \in 1 .. Len(Written(e[j])) : p = Before(e, j - 1) + k
    BY <2>2
  <2>4. At(words, Before(e, j - 1) + 1, e[j])
    BY <1>3
  <2>5. k = 1
    <3> SUFFICES ASSUME k # 1 PROVE FALSE
      OBVIOUS
    <3>1. Len(Written(e[j])) = IF e[j].form = "space" THEN 2 ELSE 1
      BY WrittenWords
    <3>2. k = 2 /\ e[j].form = "space"
      BY <3>1
    <3>3. words[Before(e, j - 1) + 1 + 1].head = NoValue
      BY <2>4, <3>2, AtPlaces
    <3>4. Before(e, j - 1) + 1 + 1 = p
      BY <2>3, <3>2, WordPlaces
    <3>5. words[p].head \in Range(ResponseOption.aliases)
      BY <2>1 DEF MatchAndGetArg
    <3>6. Max(ResponseOptions) \in DOMAIN Options
      BY <1>1, <1>5, ResponseNamed
    <3> QED  BY <3>3, <3>4, <3>5, <3>6, OptionFacts DEF ResponseOption
  <2>6. Has(ResponseOption, e[j])
    <3>1. At(words, p, e[j])
      BY <2>3, <2>4, <2>5
    <3> QED  BY <2>1, <3>1, OtherOption
  <2>7. j \in Of(e, "response")
    BY <1>1, <1>5, <2>6, ResponseNamed DEF Of
  <2> QED  BY <2>3, <2>5, <2>7
<1>6. ASSUME NEW j \in Of(e, "response") PROVE Before(e, j - 1) + 1 \in ResponsePlaces(words)
  <2>1. j \in 1 .. Len(e) /\ Type(e[j]) = "response"
    BY <1>1 DEF Of
  <2>2. ResponseOptions # {}
    BY <1>4
  <2> DEFINE p == Before(e, j - 1) + 1
  <2>3. At(words, p, e[j]) /\ p \in DOMAIN words
    BY <1>3, <2>1
  <2> HIDE DEF p
  <2>4. Fits(ResponseOption, e[j]) /\ Max(ResponseOptions) \in DOMAIN Options
    BY <1>1, <2>1, <2>2, ResponseNamed
  <2>5. e[j].form = "space" => e[j].value \notin Dashed
    BY <1>1, <2>1 DEF Listed
  <2> DEFINE R == Max(ResponseOptions)  M == MatchAndGetArg(Options[R], words, p)
  <2>6. M = {[arg |-> e[j].value, next |-> p + Len(Written(e[j]))]}
    <3>1. Fits(Options[R], e[j]) /\ R \in DOMAIN Options /\ IsElement(e[j])
      BY <1>1, <2>1, <2>4 DEF ResponseOption
    <3> HIDE DEF R
    <3> QED  BY <2>3, <2>5, <3>1, FittingOption
  <2>7. M # {}
    <3> HIDE DEF M
    <3> QED  BY <2>6
  <2> QED  BY <2>2, <2>3, <2>7 DEF ResponsePlaces, ResponseOption, p
<1> DEFINE Q == {Before(e, j - 1) + 1 : j \in Of(e, "response")}
<1>7. ASSUME NEW p \in ResponsePlaces(words) PROVE p \in Q
  <2>1. CASE ResponseOptions = {}
    BY <1>4, <1>7, <2>1
  <2>2. CASE ResponseOptions # {}
    BY <1>5, <2>2
  <2> QED  BY <2>1, <2>2
<1>8. ASSUME NEW p \in Q PROVE p \in ResponsePlaces(words)
  BY <1>6
<1> HIDE DEF Q
<1>9. ResponsePlaces(words) = Q
  BY <1>7, <1>8
<1> QED  BY <1>9 DEF words, Q

\* Only nothing is written in no words.
LEMMA WordsOfSome ==
  ASSUME NEW T, NEW s \in Seq(T)
  PROVE  WordsOf(s) = <<>> <=> s = <<>>
<1>1. WordsOf(<<>>) = <<>>
  BY WordsOne
<1>2. ASSUME s # <<>> PROVE WordsOf(s) # <<>>
  <2>1. Len(s) \in Nat /\ Len(s) # 0
    BY <1>2, EmptySeq, LenProperties
  <2>2. 1 \in 1 .. Len(s)
    BY <2>1
  <2>3. Before(s, 1 - 1) \in Nat /\ Before(s, 1) = Before(s, 1 - 1) + Len(Written(s[1]))
        /\ Before(s, 1) <= Len(WordsOf(s)) /\ Len(WordsOf(s)) \in Nat
    BY <2>2, WordPlaces
  <2>4. Len(Written(s[1])) \in {1, 2}
    BY WrittenWords
  <2> DEFINE a == Before(s, 1 - 1)  b == Before(s, 1)  c == Len(Written(s[1]))  d == Len(WordsOf(s))
  <2>5. a \in Nat /\ b = a + c /\ b <= d /\ d \in Nat /\ c \in {1, 2}
    BY <2>3, <2>4
  <2> HIDE DEF a, b, c, d
  <2>6. d # 0
    BY <2>5
  <2>7. Len(<<>>) = 0
    OBVIOUS
  <2> QED  BY <2>6, <2>7 DEF d
<1> QED  BY <1>1, <1>2

\* The words of the response file an element names.
LEMMA ResponseWordsOf ==
  ASSUME NEW words, NEW p, NEW e, At(words, p, e), e.form # "none", e.content \in Seq(Proper)
  PROVE  ResponseWords(words, [arg |-> e.value, next |-> p + Len(Written(e))])
           = WordsOf(IF respfile /\ e.content # <<>> THEN e.content ELSE <<EmptyWord>>)
<1> DEFINE match == [arg |-> e.value, next |-> p + Len(Written(e))]
           named == words[match.next - 1]
           content == IF respfile /\ match.arg = named.value THEN WordsOf(named.content) ELSE <<>>
<1>1. named.content = e.content /\ named.value = e.value
  <2>0. p \in Nat
    BY DEF At
  <2>1. CASE e.form = "space"
    <3>1. Len(Written(e)) = 2
      BY <2>1, WrittenWords
    <3>2. match.next - 1 = p + 1
      BY <2>0, <3>1
    <3>3. words[p + 1].content = e.content /\ words[p + 1].value = e.value
      BY <2>1, AtPlaces
    <3> HIDE DEF match
    <3> QED  BY <3>2, <3>3
  <2>2. CASE e.form # "space"
    <3>1. Len(Written(e)) = 1
      BY <2>2, WrittenWords
    <3>2. match.next - 1 = p
      BY <2>0, <3>1
    <3>3. words[p].content = e.content /\ words[p].value = e.value
      BY <2>2, AtPlaces
    <3> HIDE DEF match
    <3> QED  BY <3>2, <3>3
  <2> QED  BY <2>1, <2>2
<1>2. WordsOf(<<EmptyWord>>) = << Plain(NoValue) >>
  <2>1. WordsOf(<<EmptyWord>>) = Written(EmptyWord)
    BY WordsOne
  <2>2. Written(EmptyWord) = << Plain(NoValue) >>
    BY DEF Written, EmptyWord, Plain, Word
  <2> QED  BY <2>1, <2>2
<1>3. WordsOf(e.content) = <<>> <=> e.content = <<>>
  BY WordsOfSome
<1>4. ResponseWords(words, match) = IF content = <<>> THEN << Plain(NoValue) >> ELSE content
  BY DEF ResponseWords
<1>5. content = IF respfile THEN WordsOf(e.content) ELSE <<>>
  <2>1. match.arg = e.value
    OBVIOUS
  <2> HIDE DEF match
  <2> QED  BY <1>1, <2>1
<1> HIDE DEF content
<1> QED  BY <1>2, <1>3, <1>4, <1>5

\* After unfolding the words are those of the effective line.
LEMMA UnfoldMeans ==
  ASSUME OneResponseOption, WordInv, Regular, Unfold
  PROVE  /\ args' = WordsOf(Effective) /\ pc' = "parse"
         /\ UNCHANGED <<line, respfile, it, parsed>>
<1> DEFINE words == WordsOf(line)  places == ResponsePlaces(words)  files == Of(line, "response")
<1>1. /\ line \in Seq(Proper) /\ <<EmptyWord>> \in Seq(Proper)
      /\ \A n \in 1 .. Len(line) : line[n].content \in Seq(Proper)
  BY ProperElements DEF WordInv
<1>2. places = {Before(line, j - 1) + 1 : j \in files}
  BY <1>1, ResponsePlacesOfLine
<1>3. UNCHANGED <<line, respfile, it, parsed>>
  BY DEF Unfold
<1>4. Len(line) \in Nat /\ DOMAIN line = 1 .. Len(line) /\ files \subseteq 1 .. Len(line)
      /\ \A j \in 1 .. Len(line) : line[j] \in Proper
  BY <1>1, LenProperties, ElementOfSeq DEF Of
<1>5. CASE files = {}
  <2>1. places = {}
    <3> HIDE DEF places, files
    <3> QED  BY <1>2, <1>5
  <2>2. Effective = line
    BY <1>5 DEF Effective
  <2>3. args' = words /\ pc' = "parse"
    BY <2>1 DEF Unfold
  <2> QED  BY <1>3, <2>2, <2>3
<1>6. CASE files # {}
  <2> DEFINE n == Min(files)  p == Before(line, n - 1) + 1  e == line[n]
  <2>1. n \in files /\ \A k \in files : n <= k
    <3> HIDE DEF files
    <3> QED  BY <1>4, <1>6, MinIs
  <2>2. n \in 1 .. Len(line) /\ Type(e) = "response" /\ IsElement(e) /\ Listed(e)
    BY <1>4, <2>1 DEF Of, Proper
  <2>3. At(words, p, e) /\ p \in 1 .. Len(words) /\ Len(words) \in Nat
        /\ p + Len(Written(e)) = Before(line, n) + 1 /\ Before(line, n) <= Len(words)
        /\ p - 1 = Before(line, n - 1)
    <3> DEFINE y == Written(e)  b == Before(line, n - 1)  c == Before(line, n)
    <3> HIDE DEF n
    <3>1. /\ b \in Nat /\ c = b + Len(y) /\ c <= Len(words) /\ Len(words) \in Nat
          /\ \A k \in 1 .. Len(y) : words[b + k] = y[k]
      BY <1>1, <2>2, WordPlaces
    <3>2. Len(y) \in {1, 2}
      BY WrittenWords
    <3> DEFINE a == Len(words)  d == Len(y)
    <3>3. b \in Nat /\ c = b + d /\ c <= a /\ a \in Nat /\ d \in {1, 2}
      BY <3>1, <3>2
    <3> HIDE DEF a, b, c, d, words, y
    <3>4. /\ b + 1 \in 1 .. a /\ (b + 1) + d <= a + 1 /\ (b + 1) + d = c + 1 /\ (b + 1) - 1 = b
      BY <3>3
    <3>5. \A k \in 1 .. d : (b + 1) + k - 1 = b + k
      BY <3>3
    <3>6. \A k \in 1 .. Len(y) : words[(b + 1) + k - 1] = y[k]
      BY <3>1, <3>5 DEF d
    <3>7. At(words, b + 1, e)
      BY <3>3, <3>4, <3>6 DEF At, a, d, y
    <3> QED  BY <3>3, <3>4, <3>7 DEF a, b, c, d, y
  <2>4. Min(places) = p /\ places # {}
    <3>1. p \in places
      <4> HIDE DEF places, n, files
      <4> QED  BY <1>2, <2>1
    <3>2. ASSUME NEW k \in places PROVE p <= k
      <4>1. PICK j \in files : k = Before(line, j - 1) + 1
        <5> HIDE DEF places, files
        <5> QED  BY <1>2, <3>2
      <4>2. n <= j /\ j \in 1 .. Len(line) /\ n \in 1 .. Len(line)
        <5> HIDE DEF n, files
        <5> QED  BY <1>4, <2>1, <2>2
      <4>3. n - 1 \in Nat /\ j - 1 \in Nat /\ n - 1 <= j - 1 /\ j - 1 <= Len(line)
        <5> HIDE DEF n
        <5> QED  BY <1>4, <4>2
      <4> DEFINE b == Before(line, n - 1)  c == Before(line, j - 1)
      <4>4. b <= c /\ b \in Nat /\ c \in Nat
        <5> HIDE DEF n
        <5> QED  BY <1>1, <4>3, BeforeGrows
      <4> HIDE DEF b, c
      <4>5. b + 1 <= c + 1
        BY <4>4
      <4> QED  BY <4>1, <4>5 DEF b, c
    <3>3. places \subseteq 1 .. Len(words)
      <4>1. words \in Seq(WordSet(Proper))
        BY <1>1, WordsConcat
      <4> HIDE DEF words
      <4> QED  BY <4>1, LenProperties DEF ResponsePlaces
    <3> HIDE DEF places, p, words
    <3> QED  BY <2>3, <3>1, <3>2, <3>3, MinIs
  <2>5. ResponseOptions # {}
    BY <2>4 DEF ResponsePlaces
  <2>6. MatchAndGetArg(ResponseOption, words, p) = {[arg |-> e.value, next |-> p + Len(Written(e))]}
        /\ e.form # "none"
    <3> DEFINE R == Max(ResponseOptions)
    <3> HIDE DEF n, p, words
    <3>1. Fits(ResponseOption, e) /\ e.form # "none" /\ R \in DOMAIN Options
      BY <2>2, <2>5, ResponseNamed
    <3>2. e.form = "space" => e.value \notin Dashed
      BY <2>2 DEF Listed
    <3>3. Fits(Options[R], e)
      BY <3>1 DEF ResponseOption
    <3> HIDE DEF R, e
    <3>4. MatchAndGetArg(Options[R], words, p) = {[arg |-> e.value, next |-> p + Len(Written(e))]}
      BY <2>2, <2>3, <3>1, <3>2, <3>3, FittingOption
    <3> QED  BY <3>1, <3>4 DEF ResponseOption, R
  <2> DEFINE next == Before(line, n) + 1  match == [arg |-> e.value, next |-> p + Len(Written(e))]
  <2>7. args' = Unfolded(words, p, match) /\ pc' = "parse"
    <3>1. PICK m \in MatchAndGetArg(ResponseOption, words, Min(places)) :
            IF m.next > Len(words) + 1 THEN args' = words /\ pc' = "undefined"
            ELSE args' = Unfolded(words, Min(places), m) /\ pc' = "parse"
      BY <2>4 DEF Unfold
    <3>2. m = match /\ m.next = next
      <4>1. m = match
        <5> HIDE DEF places, p, words, e, n
        <5> QED  BY <2>4, <2>6, <3>1
      <4>2. match.next = next
        <5>1. match.next = p + Len(Written(e))
          OBVIOUS
        <5> HIDE DEF match, p, words, e, n
        <5> QED  BY <2>3, <5>1
      <4> HIDE DEF next, match
      <4> QED  BY <4>1, <4>2
    <3>3. ~(next > Len(words) + 1)
      <4>1. next = Before(line, n) + 1 /\ Before(line, n) <= Len(words) /\ Len(words) \in Nat
            /\ Before(line, n) \in Nat
        <5>1. n - 1 + 1 = n /\ n \in Nat /\ n <= Len(line)
          <6> HIDE DEF n
          <6> QED  BY <1>4, <2>2
        <5>2. Before(line, n) \in Nat
          <6> HIDE DEF n
          <6> QED  BY <1>1, <5>1, BeforeGrows
        <5> QED  BY <2>3, <5>2
      <4> DEFINE c == Before(line, n)  a == Len(words)
      <4> HIDE DEF a, c, next
      <4>2. next = c + 1 /\ c <= a /\ a \in Nat /\ c \in Nat
        BY <4>1 DEF a, c
      <4>3. ~(next > a + 1)
        BY <4>2
      <4> QED  BY <4>3 DEF a
    <3> HIDE DEF places, p, words, next, match
    <3> QED  BY <2>4, <3>1, <3>2, <3>3
  <2> DEFINE content == IF respfile /\ e.content # <<>> THEN e.content ELSE <<EmptyWord>>
             x == SubSeq(line, 1, n - 1)  z == SubSeq(line, n + 1, Len(line))
  <2>8. ResponseWords(words, match) = WordsOf(content) /\ content \in Seq(Proper)
    <3>1. e.content \in Seq(Proper)
      <4> HIDE DEF n
      <4> QED  BY <1>1, <2>2
    <3> HIDE DEF e, p, words
    <3> QED  BY <1>1, <2>3, <2>6, <3>1, ResponseWordsOf
  <2>9. SubSeq(words, 1, p - 1) = WordsOf(x) /\ SubSeq(words, next, Len(words)) = WordsOf(z)
    <3> HIDE DEF n
    <3> DEFINE wx == WordsOf(x)  wy == Written(line[n])  wz == WordsOf(z)  S == WordSet(Proper)
    <3>1. /\ words = (wx \o wy) \o wz /\ WordsOf(SubSeq(line, 1, n)) = wx \o wy
          /\ wx \in Seq(S) /\ wy \in Seq(S) /\ wz \in Seq(S)
      BY <1>1, <2>2, WordsAround
    <3>2. Before(line, n - 1) = Len(wx)
      BY DEF Before
    <3>3. Before(line, n) = Len(wx \o wy)
      BY <3>1 DEF Before
    <3> HIDE DEF wx, wy, wz, S
    <3>4. Len(wx \o wy) = Len(wx) + Len(wy)
      BY <3>1, ConcatProperties
    <3>5. /\ SubSeq(words, 1, Len(wx)) = wx
          /\ SubSeq(words, Len(wx) + Len(wy) + 1, Len(words)) = wz
      <4> HIDE DEF words
      <4> QED  BY <3>1, ThreeParts
    <3>6. p - 1 = Len(wx) /\ next = Len(wx) + Len(wy) + 1
      BY <2>3, <3>2, <3>3, <3>4
    <3> HIDE DEF p, next, words
    <3> QED  BY <3>5, <3>6 DEF wx, wz
  <2>10. Effective = (x \o content) \o z
    BY <1>6 DEF Effective
  <2>11. x \in Seq(Proper) /\ z \in Seq(Proper)
    <3> HIDE DEF n
    <3>1. \A i \in 1 .. n - 1 : line[i] \in Proper
      BY <1>4, <2>2
    <3>2. \A i \in n + 1 .. Len(line) : line[i] \in Proper
      BY <1>4, <2>2
    <3> QED  BY <1>4, <2>2, <3>1, <3>2, SubSeqProperties
  <2> HIDE DEF x, z, content
  <2>12. x \o content \in Seq(Proper)
    BY <2>8, <2>11, ConcatProperties
  <2>13. WordsOf((x \o content) \o z) = (WordsOf(x) \o WordsOf(content)) \o WordsOf(z)
    <3> DEFINE xc == x \o content
    <3>1. WordsOf(xc) = WordsOf(x) \o WordsOf(content)
      BY <2>8, <2>11, WordsConcat
    <3>2. xc \in Seq(Proper)
      BY <2>12
    <3> HIDE DEF xc
    <3>3. WordsOf(xc \o z) = WordsOf(xc) \o WordsOf(z)
      BY <2>11, <3>2, WordsConcat
    <3> QED  BY <3>1, <3>3 DEF xc
  <2>14. Unfolded(words, p, match)
           = (SubSeq(words, 1, p - 1) \o ResponseWords(words, match)) \o SubSeq(words, next, Len(words))
    <3>1. match.next = next
      <4>1. match.next = p + Len(Written(e))
        OBVIOUS
      <4> HIDE DEF match, p, words, e, n
      <4> QED  BY <2>3, <4>1
    <3> HIDE DEF match, p, words, next
    <3> QED  BY <3>1 DEF Unfolded
  <2>15. Unfolded(words, p, match) = WordsOf(Effective)
    <3> HIDE DEF words, p, next, match
    <3> QED  BY <2>8, <2>9, <2>10, <2>13, <2>14
  <2> QED  BY <1>3, <2>7, <2>15
<1> QED  BY <1>5, <1>6

-----------------------------------------------------------------------------
(* The parse of a whole line.                                                  *)

\* Nothing has been parsed.
Fresh ==
  /\ it = 1 /\ parsed.sources = <<>> /\ parsed.pp_options = <<>> /\ parsed.target = NoValue
  /\ parsed.scan_options = <<>>
  /\ parsed.file_format = DefaultFormat /\ parsed.kind # "ignore"

\* Where the parse of a line stands that is written as the profile lists it.
MeaningOf(e) ==
  /\ pc # "undefined"
  /\ pc = "unfold" => Fresh
  /\ pc \in {"parse", "done"} => args = WordsOf(e)
  /\ pc = "parse" => \E j \in 0 .. Len(e) : Simulates(e, j)
  /\ pc = "done" => IF parsed.kind = "ignore" THEN Ignored(e) ELSE Simulates(e, Len(e))

MeaningInv == Regular => \E e \in {Effective} : MeaningOf(e)

\* The effective line is written as the profile lists it.
LEMMA EffectiveIsGood ==
  ASSUME TypeOK, Regular
  PROVE  GoodLine(Effective)
<1>1. /\ line \in Seq(Proper) /\ <<EmptyWord>> \in Seq(Proper)
      /\ \A n \in 1 .. Len(line) : line[n].content \in Seq(Proper)
  BY ProperElements
<1>2. Effective \in Seq(Proper)
  <2> DEFINE files == Of(line, "response")  n == Min(files)
             content == IF respfile /\ line[n].content # <<>> THEN line[n].content ELSE <<EmptyWord>>
             x == SubSeq(line, 1, n - 1)  z == SubSeq(line, n + 1, Len(line))
  <2>1. CASE files = {}
    BY <1>1, <2>1 DEF Effective
  <2>2. CASE files # {}
    <3>1. Len(line) \in Nat /\ files \subseteq 1 .. Len(line) /\ \A i \in 1 .. Len(line) : line[i] \in Proper
      BY <1>1, LenProperties, ElementOfSeq DEF Of
    <3>2. n \in 1 .. Len(line)
      <4>1. n \in files
        <5> HIDE DEF files
        <5> QED  BY <2>2, <3>1, MinIs
      <4> QED  BY <3>1, <4>1
    <3>3. Effective = (x \o content) \o z
      BY <2>2 DEF Effective
    <3> HIDE DEF n
    <3>4. content \in Seq(Proper)
      BY <1>1, <3>2
    <3>5. x \in Seq(Proper) /\ z \in Seq(Proper)
      <4>1. \A i \in 1 .. n - 1 : line[i] \in Proper
        BY <3>1, <3>2
      <4>2. \A i \in n + 1 .. Len(line) : line[i] \in Proper
        BY <3>1, <3>2
      <4> QED  BY <3>1, <3>2, <4>1, <4>2, SubSeqProperties
    <3> HIDE DEF x, z, content
    <3>6. x \o content \in Seq(Proper)
      BY <3>4, <3>5, ConcatProperties
    <3>7. (x \o content) \o z \in Seq(Proper)
      BY <3>5, <3>6, ConcatProperties
    <3> QED  BY <3>3, <3>7
  <2> QED  BY <2>1, <2>2
<1> DEFINE e == Effective
<1>3. e \in Seq(Proper)
  BY <1>2
<1> HIDE DEF e
<1>4. \A n \in DOMAIN e : IsElement(e[n]) /\ Listed(e[n])
  BY <1>3, LenProperties, ElementOfSeq DEF Proper
<1>5. Proper \subseteq Elements \cup {EmptyWord}
  BY DEF Proper
<1>6. e \in Seq(Elements \cup {EmptyWord})
  BY <1>3, <1>5, SeqMonotonic
<1> QED  BY <1>4, <1>6 DEF GoodLine, e

\* At the start nothing of the line has been parsed.
LEMMA FreshSimulates ==
  ASSUME Fresh, NEW T, NEW e \in Seq(T)
  PROVE  Simulates(e, 0)
<1>1. Before(e, 0) = 0
  BY BeforeEnds
<1>2. SourcesOf(e, 0) = <<>>
  <2>1. InOrder({n \in DOMAIN e : NamesSource(e, n)}, 0) = <<>>
    BY InOrderNext
  <2>2. SourcesOf(e, 0) = [k \in DOMAIN <<>> |-> SourceOf(e, <<>>[k])]
    BY <2>1 DEF SourcesOf
  <2>3. [k \in DOMAIN <<>> |-> SourceOf(e, <<>>[k])] = <<>>
    OBVIOUS
  <2> QED  BY <2>2, <2>3
<1>3. OptionsOf(e, 0) = <<>>
  <2>1. InOrder({n \in DOMAIN e : Keeps(e, n)}, 0) = <<>>
    BY InOrderNext
  <2>2. OptionsOf(e, 0) = WordsOf([k \in DOMAIN <<>> |-> e[<<>>[k]]])
    BY <2>1 DEF OptionsOf
  <2>3. [k \in DOMAIN <<>> |-> e[<<>>[k]]] = <<>>
    OBVIOUS
  <2> QED  BY <2>2, <2>3, WordsOne
<1>4. TargetOf(e, 0) = NoValue /\ ScanOptionsOf(e, 0) = <<>>
  <2>1. InOrder({n \in DOMAIN e : Type(e[n]) = "scan"}, 0) = <<>>
    BY InOrderNext
  <2>2. ScanOptionsOf(e, 0) = [k \in DOMAIN <<>> |-> ScanOption(OptionOf(e[<<>>[k]]), e[<<>>[k]].value)]
    BY <2>1 DEF ScanOptionsOf
  <2>3. [k \in DOMAIN <<>> |-> ScanOption(OptionOf(e[<<>>[k]]), e[<<>>[k]].value)] = <<>>
    OBVIOUS
  <2> QED  BY <2>2, <2>3, TargetNext
<1>5. LanguageAt(e, 0 + 1, DefaultFormat) = DefaultFormat
  BY LanguageNext
<1>6. FoundSources = <<>> /\ KeptWords = <<>>
  BY DEF Fresh, FoundSources, KeptWords
<1> QED  BY <1>1, <1>2, <1>3, <1>4, <1>5, <1>6 DEF Fresh, Simulates, ParsedUpTo

\* At the start nothing has been parsed.
LEMMA MeaningInit == Sound /\ Init => MeaningInv
<1> SUFFICES ASSUME Sound, Init PROVE MeaningInv
  OBVIOUS
<1>1. pc = "unfold" /\ it = 1
  BY DEF Init
<1>2. Fresh
  <2>1. PICK binary \in DOMAIN Binaries :
          parsed = [kind |-> DefaultKind, binary |-> binary,
                    file_format |-> IF DefaultKind = "compile" THEN Binaries[binary] ELSE "ext",
                    target |-> NoValue, sources |-> <<>>, pp_options |-> <<>>, scan_options |-> <<>>]
    BY DEF Init
  <2> QED  BY <1>1, <2>1 DEF Fresh, DefaultFormat, Sound
<1> QED  BY <1>1, <1>2 DEF MeaningInv, MeaningOf

\* What the line means does not change while it is parsed.
LEMMA MeaningStays ==
  ASSUME UNCHANGED <<line, respfile>>
  PROVE  (Regular' <=> Regular) /\ Effective' = Effective
BY DEF Regular, Effective

\* Nor does what has been parsed as long as the parsed item stays as it is.
LEMMA SimulatesStays ==
  ASSUME UNCHANGED <<it, parsed>>, KeptWords' = KeptWords, NEW e, NEW j
  PROVE  Simulates(e, j)' <=> Simulates(e, j)
<1>1. DefaultFormat' = DefaultFormat /\ FoundSources' = FoundSources
  BY DEF DefaultFormat, FoundSources
<1>2. SourcesOf(e, j)' = SourcesOf(e, j)
  BY <1>1 DEF SourcesOf, SourceOf
<1>3. LanguageAt(e, j + 1, DefaultFormat)' = LanguageAt(e, j + 1, DefaultFormat)
  BY <1>1 DEF LanguageAt
<1>4. ParsedUpTo(e, j)' <=> ParsedUpTo(e, j)
  BY <1>1, <1>2 DEF ParsedUpTo
<1> QED  BY <1>3, <1>4 DEF Simulates

\* A step of the loop.
LEMMA MeaningLoop ==
  ASSUME Sound, WordInv, MeaningInv, MatchOption \/ WordStep
  PROVE  MeaningInv'
<1> SUFFICES ASSUME Regular' PROVE \E e \in {Effective'} : MeaningOf(e)'
  BY DEF MeaningInv
<1>1. pc = "parse" /\ it <= Len(args) /\ UNCHANGED <<line, respfile, args>>
  BY WordStepFields DEF WordInv, TypeOK, MatchOption, MoreWords
<1>2. Regular /\ Effective' = Effective
  BY <1>1, MeaningStays
<1>3. PICK e : e = Effective
  OBVIOUS
<1>4. args = WordsOf(e) /\ \E j \in 0 .. Len(e) : Simulates(e, j)
  BY <1>1, <1>2, <1>3 DEF MeaningInv, MeaningOf
<1>5. GoodLine(e)
  BY <1>2, <1>3, EffectiveIsGood DEF WordInv
<1>6. PICK j \in 0 .. Len(e) : Simulates(e, j)
  BY <1>4
<1>7. Len(e) \in Nat /\ DOMAIN e = 1 .. Len(e)
  BY <1>5, LenProperties DEF GoodLine
<1>8. j # Len(e)
  <2>1. Before(e, Len(e)) = Len(WordsOf(e))
    BY <1>5, BeforeEnds DEF GoodLine
  <2>2. Len(args) \in Nat
    BY LenProperties DEF WordInv, TypeOK
  <2>3. it = Before(e, j) + 1
    BY <1>6 DEF Simulates
  <2> QED  BY <1>1, <1>4, <2>1, <2>2, <2>3
<1> DEFINE n == j + 1
<1>9. n \in 1 .. Len(e) /\ n - 1 = j
  <2> DEFINE a == Len(e)
  <2>1. a \in Nat /\ j \in 0 .. a /\ j # a
    BY <1>7, <1>8
  <2> HIDE DEF a
  <2>2. j + 1 \in 1 .. a /\ (j + 1) - 1 = j
    BY <2>1
  <2> QED  BY <2>2 DEF a
<1> HIDE DEF n
<1>10. Simulates(e, n - 1)
  BY <1>6, <1>9
<1>11. /\ At(args, it, e[n]) /\ IsElement(e[n]) /\ Listed(e[n])
       /\ it = Before(e, n - 1) + 1 /\ parsed.kind # "ignore"
  <2>1. it = Before(e, n - 1) + 1 /\ parsed.kind # "ignore"
    BY <1>10 DEF Simulates
  <2> QED  BY <1>4, <1>5, <1>9, <2>1, ElementAt
<1>12. StepFor(e, n)
  <2>1. Matching = Matchers(args, it)
    BY DEF Matching, Matchers
  <2>2. CASE Type(e[n]) \in {"word", "unknown"}
    <3>1. Matching = {}
      BY <1>11, <2>1, <2>2, FirstMatcher DEF Sound
    <3>2. WordStep
      BY <3>1 DEF MatchOption
    <3> QED  BY <1>1, <1>4, <1>5, <1>9, <1>10, <2>2, <3>2, WordStepMeans DEF Sound
  <2>3. CASE Type(e[n]) \notin {"word", "unknown"}
    <3>1. Matching # {}
      BY <1>11, <2>1, <2>3, FirstMatcher DEF Sound
    <3>2. MatchOption
      BY <3>1, WordStepFields DEF WordInv, TypeOK
    <3> QED  BY <1>4, <1>5, <1>9, <1>11, <2>3, <3>2, OptionStep DEF Sound
  <2> QED  BY <2>2, <2>3
<1>13. Effective' = e /\ args' = WordsOf(e)
  BY <1>1, <1>2, <1>3, <1>4
<1>14. CASE Ignores(e[n])
  <2>1. pc' = "done" /\ parsed'.kind = "ignore"
    BY <1>12, <1>14 DEF StepFor
  <2>2. Ignored(e)
    BY <1>7, <1>9, <1>14 DEF Ignored
  <2> QED  BY <1>13, <2>1, <2>2 DEF MeaningOf, Ignored
<1>15. CASE ~Ignores(e[n])
  <2>1. pc' = "parse"
    BY <1>12, <1>15 DEF StepFor
  <2>2. Simulates(e, n)'
    BY <1>4, <1>5, <1>9, <1>10, <1>12, <1>15, StepSimulates
  <2>3. n \in 0 .. Len(e)
    BY <1>9
  <2>4. MeaningOf(e)'
    BY <1>13, <2>1, <2>2, <2>3 DEF MeaningOf
  <2> QED  BY <1>13, <2>4
<1> QED  BY <1>14, <1>15

\* A line that is written as the profile lists it is parsed as what it means.
THEOREM MeaningInvariant ==
  ASSUME Sound
  PROVE  Spec => []MeaningInv
<1>1. Init => MeaningInv
  BY MeaningInit
<1>2. WordInv /\ MeaningInv /\ [Next]_vars => MeaningInv'
  <2> SUFFICES ASSUME WordInv, MeaningInv, [Next]_vars PROVE MeaningInv'
    OBVIOUS
  <2>1. CASE Unfold
    <3> SUFFICES ASSUME Regular' PROVE \E e \in {Effective'} : MeaningOf(e)'
      BY DEF MeaningInv
    <3>1. UNCHANGED <<line, respfile, it, parsed>> /\ pc = "unfold"
      BY <2>1 DEF Unfold
    <3>2. Regular /\ Effective' = Effective
      BY <3>1, MeaningStays
    <3>3. args' = WordsOf(Effective) /\ pc' = "parse"
      BY <2>1, <3>2, UnfoldMeans DEF Sound
    <3>4. PICK e : e = Effective
      OBVIOUS
    <3>5. Fresh
      BY <3>1, <3>2 DEF MeaningInv, MeaningOf
    <3>6. Fresh'
      BY <3>1, <3>5 DEF Fresh, DefaultFormat
    <3>7. e \in Seq(Elements \cup {EmptyWord})
      BY <3>2, <3>4, EffectiveIsGood DEF WordInv, GoodLine
    <3>8. Simulates(e, 0)
      BY <3>5, <3>7, FreshSimulates
    <3>9. Simulates(e, 0)'
      <4>1. KeptWords = <<>> /\ KeptWords' = <<>>
        BY <3>5, <3>6 DEF Fresh, KeptWords
      <4> QED  BY <3>1, <3>8, <4>1, SimulatesStays
    <3>10. 0 \in 0 .. Len(e)
      BY <3>7, LenProperties
    <3>11. MeaningOf(e)'
      BY <3>3, <3>4, <3>9, <3>10 DEF MeaningOf
    <3> QED  BY <3>2, <3>4, <3>11
  <2>2. CASE MatchOption \/ WordStep
    BY <2>2, MeaningLoop
  <2>3. CASE Finish
    <3> SUFFICES ASSUME Regular' PROVE \E e \in {Effective'} : MeaningOf(e)'
      BY DEF MeaningInv
    <3>1. pc = "parse" /\ it = Len(args) + 1 /\ pc' = "done" /\ UNCHANGED <<line, respfile, args, it, parsed>>
      BY <2>3 DEF Finish
    <3>2. Regular /\ Effective' = Effective
      BY <3>1, MeaningStays
    <3>3. PICK e : e = Effective
      OBVIOUS
    <3>4. args = WordsOf(e) /\ \E j \in 0 .. Len(e) : Simulates(e, j)
      BY <3>1, <3>2, <3>3 DEF MeaningInv, MeaningOf
    <3>5. PICK j \in 0 .. Len(e) : Simulates(e, j)
      BY <3>4
    <3>6. e \in Seq(Elements \cup {EmptyWord})
      BY <3>2, <3>3, EffectiveIsGood DEF WordInv, GoodLine
    <3>7. j = Len(e)
      <4> SUFFICES ASSUME j # Len(e) PROVE FALSE
        OBVIOUS
      <4>1. Len(e) \in Nat
        BY <3>6, LenProperties
      <4>2. j + 1 \in 1 .. Len(e) /\ (j + 1) - 1 = j
        BY <4>1
      <4>3. /\ Before(e, j) \in Nat /\ Before(e, j + 1) = Before(e, j) + Len(Written(e[j + 1]))
            /\ Before(e, j + 1) <= Len(WordsOf(e)) /\ Len(WordsOf(e)) \in Nat
        BY <3>6, <4>2, WordPlaces
      <4>4. Len(Written(e[j + 1])) \in {1, 2}
        BY WrittenWords
      <4>5. it = Before(e, j) + 1
        BY <3>5 DEF Simulates
      <4> DEFINE a == Before(e, j)  b == Before(e, j + 1)  c == Len(WordsOf(e))  d == Len(Written(e[j + 1]))
      <4>6. a \in Nat /\ b = a + d /\ b <= c /\ c \in Nat /\ d \in {1, 2} /\ it = a + 1 /\ it = c + 1
        BY <3>1, <3>4, <4>3, <4>4, <4>5
      <4> HIDE DEF a, b, c, d
      <4> QED  BY <4>6
    <3>8. Simulates(e, Len(e))
      BY <3>5, <3>7
    <3>9. Simulates(e, Len(e))'
      <4>1. KeptWords' = KeptWords
        BY <3>1 DEF KeptWords
      <4> QED  BY <3>1, <3>8, <4>1, SimulatesStays
    <3>10. parsed'.kind # "ignore"
      BY <3>1, <3>8 DEF Simulates
    <3>11. MeaningOf(e)'
      BY <3>1, <3>4, <3>9, <3>10 DEF MeaningOf
    <3> QED  BY <3>2, <3>3, <3>11
  <2>4. CASE Returned \/ UNCHANGED vars
    <3>1. UNCHANGED vars
      BY <2>4 DEF Returned
    <3>2. UNCHANGED <<line, respfile, args, it, parsed, pc>>
      BY <3>1 DEF vars
    <3>3. KeptWords' = KeptWords /\ (Fresh' <=> Fresh)
      BY <3>2 DEF KeptWords, Fresh, DefaultFormat
    <3>4. \A e, j : Simulates(e, j)' <=> Simulates(e, j)
      BY <3>2, <3>3, SimulatesStays
    <3>5. \A e : MeaningOf(e)' <=> MeaningOf(e)
      BY <3>2, <3>3, <3>4 DEF MeaningOf, Ignored
    <3>6. (Regular' <=> Regular) /\ Effective' = Effective
      BY <3>2, MeaningStays
    <3> QED  BY <3>5, <3>6 DEF MeaningInv
  <2> QED  BY <2>1, <2>2, <2>3, <2>4 DEF Next, WordStep
<1> QED  BY <1>1, <1>2, WordsInvariant, PTL DEF Spec

\* ParsedAsMeant holds of every profile that is sound and of every command line: what
\* the parser makes of it is what it means.
THEOREM ParsedMeans ==
  ASSUME Sound
  PROVE  Spec => []ParsedAsMeant
<1>1. WordInv /\ MeaningInv => ParsedAsMeant
  <2> SUFFICES ASSUME WordInv, MeaningInv, pc = "done"
               PROVE  /\ Regular => (parsed.kind = "ignore" <=> Ignored(Effective))
                      /\ Parsed(Effective) => ParsedUpTo(Effective, Len(Effective))
    BY DEF ParsedAsMeant
  <2>1. ASSUME Regular
        PROVE  IF parsed.kind = "ignore" THEN Ignored(Effective)
               ELSE Simulates(Effective, Len(Effective))
    BY <2>1 DEF MeaningInv, MeaningOf
  <2>2. ASSUME Regular, Simulates(Effective, Len(Effective))
        PROVE  ~Ignored(Effective) /\ ParsedUpTo(Effective, Len(Effective))
    <3>1. DOMAIN Effective = 1 .. Len(Effective)
      BY <2>2, EffectiveIsGood, LenProperties DEF WordInv, GoodLine
    <3> QED  BY <2>2, <3>1 DEF Simulates, Ignored
  <2> QED  BY <2>1, <2>2 DEF Parsed
<1> QED  BY <1>1, WordsInvariant, MeaningInvariant, PTL

-----------------------------------------------------------------------------
(* The command of the preprocessing.                                           *)

\* A sequence of words without an output option.
NoOutput(s) == s \in Seq(Range(s)) /\ \A w \in Range(s) : w.head \notin OutputAliases

\* Two sequences without an output option have none together.
LEMMA NoOutputConcat ==
  ASSUME NEW s, NEW t, NoOutput(s), NoOutput(t)
  PROVE  NoOutput(s \o t)
<1> DEFINE R == {w \in Range(s) \cup Range(t) : w.head \notin OutputAliases}  u == s \o t
<1>1. s \in Seq(R) /\ t \in Seq(R)
  <2>1. Range(s) \subseteq R /\ Range(t) \subseteq R
    BY DEF NoOutput
  <2> HIDE DEF R
  <2> QED  BY <2>1, SeqMonotonic DEF NoOutput
<1>2. \A w \in R : w.head \notin OutputAliases
  OBVIOUS
<1> HIDE DEF R
<1>3. u \in Seq(R)
  BY <1>1, ConcatProperties
<1> HIDE DEF u
<1>4. Len(u) \in Nat /\ DOMAIN u = 1 .. Len(u) /\ \A i \in 1 .. Len(u) : u[i] \in R
  BY <1>3, LenProperties, ElementOfSeq
<1>5. Range(u) \subseteq R
  BY <1>4 DEF Range
<1>6. u \in [1 .. Len(u) -> Range(u)]
  BY <1>3, <1>4, LenProperties DEF Range
<1>7. u \in Seq(Range(u))
  BY <1>4, <1>6
<1> QED  BY <1>2, <1>5, <1>7 DEF NoOutput, u

\* The words of elements that are no output options.
LEMMA NoOutputWords ==
  ASSUME NEW T, \A x \in T : x.alias \notin OutputAliases, NEW s \in Seq(T)
  PROVE  NoOutput(WordsOf(s))
<1>1. NoValue \notin OutputAliases
  BY ParseAssumption DEF OutputAliases
<1>2. ASSUME NEW x \in T, NEW w \in Range(Written(x)) PROVE w.head \notin OutputAliases
  <2>1. PICK k \in DOMAIN Written(x) : w = Written(x)[k]
    BY <1>2 DEF Range
  <2>2. DOMAIN Written(x) = 1 .. Len(Written(x)) /\ Len(Written(x)) = IF x.form = "space" THEN 2 ELSE 1
    BY WrittenWords, LenProperties
  <2>3. k = 1 \/ (k = 2 /\ x.form = "space")
    BY <2>1, <2>2
  <2>4. w.head \in {x.alias, NoValue}
    BY <2>1, <2>3, WrittenWords
  <2> QED  BY <1>1, <2>4
<1> DEFINE u == WordsOf(s)
<1>3. u \in Seq(WordSet(T))
  BY WordsConcat
<1>4. \A w \in WordSet(T) : w.head \notin OutputAliases
  BY <1>2 DEF WordSet
<1> HIDE DEF u
<1>5. Len(u) \in Nat /\ DOMAIN u = 1 .. Len(u) /\ \A i \in 1 .. Len(u) : u[i] \in WordSet(T)
  BY <1>3, LenProperties, ElementOfSeq
<1>6. u \in [1 .. Len(u) -> Range(u)] /\ Range(u) \subseteq WordSet(T)
  BY <1>3, <1>5, LenProperties DEF Range
<1>7. u \in Seq(Range(u))
  BY <1>5, <1>6
<1> QED  BY <1>4, <1>6, <1>7 DEF NoOutput, u

\* The element an option is written as.
Spelled(o, arg) ==
  LET form == IF "attached" \in o.formats THEN "attached"
              ELSE IF "space" \in o.formats THEN "space"
              ELSE IF "equal" \in o.formats THEN "equal" ELSE "none"
  IN [alias |-> Head(o.aliases), form |-> form,
      value |-> IF form = "none" THEN NoValue ELSE arg, content |-> <<>>]

\* The last option of a type.
LEMMA LastOptionIs ==
  ASSUME NEW type, LastOption(type) # <<>>
  PROVE  \E n \in DOMAIN Options :
           /\ LastOption(type) = << Options[n] >> /\ Options[n].type = type
           /\ n = Max({m \in DOMAIN Options : Options[m].type = type})
           /\ Head(Options[n].aliases) \in Range(Options[n].aliases)
<1> DEFINE S == {m \in DOMAIN Options : Options[m].type = type}
<1>1. S # {} /\ LastOption(type) = << Options[Max(S)] >>
  BY DEF LastOption
<1>2. S \subseteq 1 .. Len(Options) /\ Len(Options) \in Nat
  BY OptionFacts
<1>3. Max(S) \in S
  <2> HIDE DEF S
  <2> QED  BY <1>1, <1>2, MaxIs
<1>4. Max(S) \in DOMAIN Options /\ Options[Max(S)].type = type
  BY <1>3
<1> DEFINE a == Options[Max(S)].aliases
<1>5. a \in Seq(Range(a)) /\ a # <<>>
  BY <1>4, OptionFacts, ParseAssumption
<1> HIDE DEF a
<1>6. Head(a) \in Range(a)
  BY <1>5, TailElements
<1> HIDE DEF S
<1> QED  BY <1>1, <1>4, <1>6 DEF a, S

\* Options of another type add no output option.
LEMMA NoOutputStrings ==
  ASSUME OutputStands, NEW type, type # "output", NEW values, values \in Seq(Range(values))
  PROVE  NoOutput(StringOptions(type, values))
<1>1. CASE LastOption(type) = <<>>
  <2>1. StringOptions(type, values) = <<>>
    BY <1>1 DEF StringOptions
  <2>2. <<>> \in Seq(Range(<<>>)) /\ Range(<<>>) = {}
    BY EmptySeq DEF Range
  <2> QED  BY <2>1, <2>2 DEF NoOutput
<1>2. CASE LastOption(type) # <<>>
  <2>1. PICK n \in DOMAIN Options :
          /\ LastOption(type) = << Options[n] >> /\ Options[n].type = type
          /\ Head(Options[n].aliases) \in Range(Options[n].aliases)
    BY <1>2, LastOptionIs
  <2> DEFINE o == Options[n]  els == [k \in DOMAIN values |-> Spelled(o, values[k])]
  <2>2. Head(LastOption(type)) = o
    BY <2>1
  <2>3. StringOptions(type, values) = WordsOf(els)
    <3>1. \A arg : StringOption(o, arg) = Written(Spelled(o, arg))
      BY DEF StringOption, Spelled
    <3>2. WordsOf(els) = FlattenSeq([k \in DOMAIN values |-> Written(Spelled(o, values[k]))])
      BY DEF WordsOf
    <3>3. StringOptions(type, values) = FlattenSeq([k \in DOMAIN values |-> StringOption(o, values[k])])
      BY <1>2, <2>2 DEF StringOptions
    <3> HIDE DEF o, els
    <3> QED  BY <3>1, <3>2, <3>3
  <2>4. els \in Seq(Range(els))
    <3>1. Len(values) \in Nat /\ DOMAIN values = 1 .. Len(values)
      BY LenProperties
    <3>2. els \in [1 .. Len(values) -> Range(els)]
      BY <3>1 DEF Range
    <3> HIDE DEF els
    <3> QED  BY <3>1, <3>2
  <2>5. \A x \in Range(els) : x.alias = Head(o.aliases)
    BY DEF Range, Spelled
  <2>6. Head(o.aliases) \notin OutputAliases
    <3>1. n \notin {m \in DOMAIN Options : Options[m].type = "output"}
      BY <2>1
    <3> QED  BY <2>1, <3>1 DEF OutputStands
  <2> HIDE DEF els, o
  <2> QED  BY <2>3, <2>4, <2>5, <2>6, NoOutputWords
<1> QED  BY <1>1, <1>2

\* An element that is kept is no output option.
LEMMA KeptIsNoOutput ==
  ASSUME OutputStands, NEW e, GoodLine(e), NEW n \in DOMAIN e, Keeps(e, n)
  PROVE  e[n].alias \notin OutputAliases
<1> DEFINE w == e[n]
<1>1. IsElement(w) /\ Listed(w)
  BY DEF GoodLine
<1>2. CASE Type(w) = "word"
  <2>1. w.alias = NoValue
    BY <1>2, ElementKinds DEF IsOption
  <2> QED  BY <2>1, ParseAssumption DEF OutputAliases
<1>3. CASE Type(w) = "unknown"
  BY <1>1, <1>3 DEF Listed, Has, OutputAliases
<1>4. CASE Type(w) \notin {"word", "unknown"}
  <2>1. Fitting(w) # {} /\ Type(w) = OptionOf(w).type
    BY <1>4 DEF Type
  <2>2. Fitting(w) \subseteq 1 .. Len(Options) /\ Len(Options) \in Nat
    BY OptionFacts DEF Fitting
  <2>3. Min(Fitting(w)) \in Fitting(w)
    BY <2>1, <2>2, MinIs
  <2> DEFINE m == Min(Fitting(w))
  <2>4. m \in DOMAIN Options /\ w.alias \in Range(Options[m].aliases)
    BY <2>3 DEF Fitting, Fits, Has
  <2>5. Options[m].type # "output"
    BY <1>4, <2>1 DEF OptionOf, Keeps
  <2> HIDE DEF m, w
  <2>6. m \in DOMAIN Options \ {k \in DOMAIN Options : Options[k].type = "output"}
    BY <2>4, <2>5
  <2>7. Range(Options[m].aliases) \cap OutputAliases = {}
    BY <2>6 DEF OutputStands
  <2> QED  BY <2>4, <2>7 DEF w
<1> QED  BY <1>2, <1>3, <1>4

\* The words the parser has kept are no output options.
LEMMA NoOutputKept ==
  ASSUME OutputStands, WordInv, MeaningInv, pc = "done", Parsed(Effective)
  PROVE  NoOutput(KeptWords)
<1> DEFINE e == Effective
           places == InOrder({n \in DOMAIN e : Keeps(e, n)}, Len(e))
           els == [k \in DOMAIN places |-> e[places[k]]]
<1>1. GoodLine(e)
  BY EffectiveIsGood DEF WordInv, Parsed
<1>2. KeptWords = OptionsOf(e, Len(e))
  <2>1. ~Ignored(e) /\ Regular
    BY DEF Parsed
  <2>2. Simulates(e, Len(e))
    BY <2>1 DEF MeaningInv, MeaningOf
  <2> QED  BY <2>2 DEF Simulates, ParsedUpTo
<1> HIDE DEF e
<1>3. Len(e) \in Nat /\ DOMAIN e = 1 .. Len(e)
  BY <1>1, LenProperties DEF GoodLine
<1>4. OptionsOf(e, Len(e)) = WordsOf(els)
  BY DEF OptionsOf
<1> DEFINE S == {n \in DOMAIN e : Keeps(e, n)}  K == {e[n] : n \in S}
<1>5. places \in Seq(S \cap (1 .. Len(e)))
  BY <1>3, InOrderPlaces
<1>6. els \in Seq(K)
  <2> HIDE DEF places, S
  <2>1. /\ Len(places) \in Nat /\ DOMAIN places = 1 .. Len(places)
        /\ \A k \in 1 .. Len(places) : places[k] \in S \cap (1 .. Len(e))
    BY <1>5, LenProperties, ElementOfSeq
  <2>2. els \in [1 .. Len(places) -> K]
    BY <2>1
  <2> HIDE DEF els, K
  <2> QED  BY <2>1, <2>2
<1>7. \A x \in K : x.alias \notin OutputAliases
  BY <1>1, KeptIsNoOutput
<1> HIDE DEF els, K, S, places
<1>8. NoOutput(WordsOf(els))
  BY <1>6, <1>7, NoOutputWords
<1> QED  BY <1>2, <1>4, <1>8

\* The output option of the preprocessing.
LEMMA OutputString ==
  ASSUME OutputStands, NEW target
  PROVE  LET s == StringOptions("output", << target >>) IN
         /\ s \in Seq(Range(s)) /\ Len(s) \in {1, 2}
         /\ s[1].head \in OutputAliases
         /\ Len(s) = 2 => s[2].head \notin OutputAliases
         /\ s[Len(s)].value = target
<1> DEFINE outputs == {n \in DOMAIN Options : Options[n].type = "output"}
<1>1. LastOption("output") # <<>>
  BY DEF OutputStands, LastOption
<1>2. PICK n \in DOMAIN Options :
        /\ LastOption("output") = << Options[n] >> /\ Options[n].type = "output"
        /\ n = Max(outputs)
        /\ Head(Options[n].aliases) \in Range(Options[n].aliases)
  BY <1>1, LastOptionIs
<1> DEFINE o == Options[n]  x == Spelled(o, target)
<1>3. o.formats # {} /\ o.formats \subseteq Forms \ {"none"}
  BY <1>2, OptionFacts DEF OutputStands
<1>4. StringOptions("output", << target >>) = Written(x)
  <2>1. Head(LastOption("output")) = o
    BY <1>2
  <2>2. StringOptions("output", << target >>)
          = FlattenSeq([k \in DOMAIN << target >> |-> StringOption(o, << target >>[k])])
    BY <1>1, <2>1 DEF StringOptions
  <2>3. StringOption(o, target) = Written(x)
    BY DEF StringOption, Spelled
  <2>4. [k \in DOMAIN << target >> |-> StringOption(o, << target >>[k])] = << StringOption(o, target) >>
    OBVIOUS
  <2>5. FlattenSeq(<< Written(x) >>) = Written(x)
    BY WrittenWords, FlattenOne
  <2> HIDE DEF o, x
  <2> QED  BY <2>2, <2>3, <2>4, <2>5
<1>5. x.alias = Head(o.aliases) /\ x.form # "none" /\ x.value = target
  BY <1>3 DEF Spelled, Forms
<1>6. x.alias \in OutputAliases
  <2>1. o \in Range(Options) /\ o.type = "output"
    BY <1>2, OptionFacts
  <2> HIDE DEF o, x
  <2> QED  BY <1>2, <1>5, <2>1 DEF OutputAliases, o
<1>7. NoValue \notin OutputAliases
  BY ParseAssumption DEF OutputAliases
<1> HIDE DEF x, o
<1>8. /\ Written(x) \in Seq(Range(Written(x))) /\ Len(Written(x)) \in {1, 2}
      /\ Written(x)[1].head \in OutputAliases
      /\ Len(Written(x)) = 2 => Written(x)[2].head \notin OutputAliases
      /\ Written(x)[Len(Written(x))].value = target
  <2>1. Written(x) \in Seq(Range(Written(x))) /\ Written(x)[1].head \in OutputAliases
    BY <1>5, <1>6, WrittenWords
  <2>2. CASE x.form = "space"
    <3>1. Len(Written(x)) = 2 /\ Written(x)[2].head = NoValue /\ Written(x)[2].value = x.value
      BY <2>2, WrittenWords
    <3> QED  BY <1>5, <1>7, <2>1, <3>1
  <2>3. CASE x.form # "space"
    <3>1. Len(Written(x)) = 1 /\ Written(x)[1].value = x.value
      BY <2>3, WrittenWords
    <3> QED  BY <1>5, <2>1, <3>1
  <2> QED  BY <2>2, <2>3
<1> QED  BY <1>4, <1>8

\* OneOutput holds of every sound profile whose output option stands: the command of the
\* preprocessing has that option once, and it names the path that the engine chose.
THEOREM OneOutputOnly ==
  ASSUME Sound, OutputStands
  PROVE  Spec => []OneOutput
<1>1. WordInv /\ MeaningInv => OneOutput
  <2> SUFFICES ASSUME WordInv, MeaningInv, pc = "done", Parsed(Effective),
                      NEW format \in {"c", "cxx"}
               PROVE  LET words == PreprocessingOptions("temp", format)
                          places == {n \in DOMAIN words : words[n].head \in OutputAliases}
                      IN places \in {{Len(words)}, {Len(words) - 1}} /\ Last(words).value = "temp"
    BY DEF OneOutput
  <2> DEFINE of == IF format = "c" THEN "c" ELSE "cxx"
             s1 == Added.prepended[of]
             s2 == StringOptions("isystem", Added.isystem[of])
             s3 == StringOptions("include", Added.preincluded[of])
             s4 == KeptWords
             s5 == Added.appended[of]
             s6 == StringOptions("preprocess", << NoValue >>)
             body == ((((s1 \o s2) \o s3) \o s4) \o s5) \o s6
             last == StringOptions("output", << "temp" >>)
             words == body \o last
  <2>1. PreprocessingOptions("temp", format) = words
    BY DEF PreprocessingOptions, KeptWords
  <2>2. NoOutput(s1) /\ NoOutput(s5)
    BY DEF OutputStands, NoOutput
  <2>3. NoOutput(s2) /\ NoOutput(s3)
    BY NoOutputStrings DEF OutputStands
  <2>4. NoOutput(s4)
    BY NoOutputKept
  <2>5. NoOutput(s6)
    <3>1. << NoValue >> \in Seq(Range(<< NoValue >>))
      BY DEF Range
    <3> QED  BY <3>1, NoOutputStrings
  <2> HIDE DEF s1, s2, s3, s4, s5, s6
  <2>6. NoOutput(body)
    <3>1. NoOutput(s1 \o s2)
      BY <2>2, <2>3, NoOutputConcat
    <3>2. NoOutput((s1 \o s2) \o s3)
      BY <2>3, <3>1, NoOutputConcat
    <3>3. NoOutput(((s1 \o s2) \o s3) \o s4)
      BY <2>4, <3>2, NoOutputConcat
    <3>4. NoOutput((((s1 \o s2) \o s3) \o s4) \o s5)
      BY <2>2, <3>3, NoOutputConcat
    <3> QED  BY <2>5, <3>4, NoOutputConcat
  <2>7. /\ last \in Seq(Range(last)) /\ Len(last) \in {1, 2} /\ last[1].head \in OutputAliases
        /\ Len(last) = 2 => last[2].head \notin OutputAliases
        /\ last[Len(last)].value = "temp"
    BY OutputString
  <2> HIDE DEF body, last
  <2> DEFINE R == Range(body) \cup Range(last)
  <2>8. body \in Seq(R) /\ last \in Seq(R)
    <3>1. body \in Seq(Range(body)) /\ Range(body) \subseteq R /\ Range(last) \subseteq R
      BY <2>6 DEF NoOutput
    <3> HIDE DEF R
    <3> QED  BY <2>7, <3>1, SeqMonotonic
  <2> HIDE DEF R
  <2>9. /\ words \in Seq(R) /\ Len(words) = Len(body) + Len(last) /\ Len(body) \in Nat
        /\ \A i \in 1 .. Len(body) + Len(last) :
             words[i] = IF i <= Len(body) THEN body[i] ELSE last[i - Len(body)]
    BY <2>8, ConcatProperties, LenProperties
  <2> HIDE DEF words
  <2>10. DOMAIN words = 1 .. Len(words)
    BY <2>9, LenProperties
  <2>11. \A i \in 1 .. Len(body) : body[i].head \notin OutputAliases
    <3>1. DOMAIN body = 1 .. Len(body)
      BY <2>8, LenProperties
    <3> QED  BY <2>6, <3>1 DEF NoOutput, Range
  <2> DEFINE b == Len(body)  places == {n \in DOMAIN words : words[n].head \in OutputAliases}
  <2>12. words[b + 1] = last[1] /\ (Len(last) = 2 => words[b + 2] = last[2])
    <3>1. b \in Nat /\ Len(last) \in {1, 2} /\ Len(words) = b + Len(last)
      BY <2>7, <2>9
    <3>2. b + 1 \in 1 .. b + Len(last) /\ ~(b + 1 <= b) /\ (b + 1) - b = 1
      BY <3>1
    <3>3. Len(last) = 2 => b + 2 \in 1 .. b + Len(last) /\ ~(b + 2 <= b) /\ (b + 2) - b = 2
      BY <3>1
    <3> QED  BY <2>9, <3>2, <3>3
  <2>13. \A i \in 1 .. b : words[i] = body[i]
    BY <2>7, <2>9
  <2>14. b \in Nat /\ Len(words) = b + Len(last) /\ Len(last) \in {1, 2}
    BY <2>7, <2>9
  <2> HIDE DEF b
  <2>15. \A i \in 1 .. b : words[i].head \notin OutputAliases
    BY <2>11, <2>13 DEF b
  <2>16. places = {b + 1}
    <3>1. b + 1 \in places
      BY <2>7, <2>10, <2>12, <2>14
    <3>2. ASSUME NEW i \in places PROVE i = b + 1
      <4>1. i \in 1 .. b + Len(last) /\ words[i].head \in OutputAliases
        BY <2>10, <2>14
      <4>2. i \notin 1 .. b
        BY <2>15, <4>1
      <4>3. ~(Len(last) = 2 /\ i = b + 2)
        BY <2>7, <2>12, <4>1
      <4> DEFINE d == Len(last)
      <4>4. /\ b \in Nat /\ d \in {1, 2} /\ i \in 1 .. b + d /\ i \notin 1 .. b
            /\ ~(d = 2 /\ i = b + 2)
        BY <2>14, <4>1, <4>2, <4>3
      <4> HIDE DEF d, places
      <4> QED  BY <4>4
    <3> HIDE DEF places
    <3> QED  BY <3>1, <3>2
  <2>17. Last(words).value = "temp"
    <3>1. words[Len(words)] = last[Len(last)]
      BY <2>12, <2>14
    <3> QED  BY <2>7, <3>1 DEF Last
  <2>18. places \in {{Len(words)}, {Len(words) - 1}}
    <3>1. b + 1 = Len(words) \/ b + 1 = Len(words) - 1
      <4> DEFINE a == Len(words)  d == Len(last)
      <4>1. b \in Nat /\ a = b + d /\ d \in {1, 2}
        BY <2>14
      <4> HIDE DEF a, d
      <4>2. b + 1 = a \/ b + 1 = a - 1
        BY <4>1
      <4> QED  BY <4>2 DEF a
    <3> HIDE DEF places
    <3> QED  BY <2>16, <3>1
  <2> QED  BY <2>1, <2>17, <2>18
<1> QED  BY <1>1, WordsInvariant, MeaningInvariant, PTL

=============================================================================
