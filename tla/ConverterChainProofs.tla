------------------------ MODULE ConverterChainProofs ------------------------
(***************************************************************************)
(* Proofs about ConverterChain.                                            *)
(***************************************************************************)
EXTENDS ConverterChain, NumberFacts, SequenceTheorems, TLAPS

-----------------------------------------------------------------------------
(* Sequences.                                                              *)

\* A set of sequences that has the empty one and, with a sequence, those longer
\* by one element, has them all.
LEMMA AllSequences ==
  ASSUME NEW S, NEW T \in SUBSET Seq(S), <<>> \in T,
         \A s \in T, x \in S : Append(s, x) \in T
  PROVE  \A s \in Seq(S) : s \in T
<1> SUFFICES ASSUME NEW r \in Seq(S), r \notin T
             PROVE  FALSE
  OBVIOUS
<1> DEFINE Others == {n \in Nat : \E s \in Seq(S) : s \notin T /\ Len(s) = n}
<1>1. Len(r) \in Others
  BY LenProperties
<1>2. PICK n \in Others : \A m \in Others : n <= m
  BY <1>1, LeastNatural
<1>3. PICK s \in Seq(S) : s \notin T /\ Len(s) = n
  BY <1>2
<1>4. s # <<>>
  BY <1>3
<1>5. PICK t \in Seq(S), x \in S : s = Append(t, x)
  BY <1>4, SequenceEmptyOrAppend
<1>6. Len(t) \in Nat /\ n = Len(t) + 1
  BY <1>3, <1>5, AppendProperties, LenProperties
<1>7. t \notin T
  BY <1>3, <1>5
<1>8. Len(t) \in Others
  BY <1>6, <1>7
<1>9. n <= Len(t)
  BY <1>2, <1>8
<1> QED
  BY <1>6, <1>9

\* Pieces of a sequence, bracketed in another way.
Assoc(a, b, c) == (a \o b) \o c = a \o (b \o c)

LEMMA Associative ==
  ASSUME NEW S, NEW a \in Seq(S), NEW b \in Seq(S), NEW c \in Seq(S)
  PROVE  Assoc(a, b, c)
BY ONLY ConcatAssociative, a \in Seq(S), b \in Seq(S), c \in Seq(S), SMTT(60) DEF Assoc

\* What is appended to the second of two sequences is appended to both.
LEMMA ConcatAppend ==
  ASSUME NEW S, NEW s \in Seq(S), NEW t \in Seq(S), NEW x \in S
  PROVE  s \o Append(t, x) = Append(s \o t, x)
<1>1. <<x>> \in Seq(S)
  BY AppendProperties, EmptySeq, AppendIsConcat, ConcatEmptySeq
<1>2. Append(t, x) = t \o <<x>> /\ s \o t \in Seq(S)
  BY AppendIsConcat, ConcatProperties
<1>3. Append(s \o t, x) = (s \o t) \o <<x>>
  BY <1>2, AppendIsConcat
<1>4. Assoc(s, t, <<x>>)
  BY <1>1, Associative
<1> QED
  BY <1>2, <1>3, <1>4 DEF Assoc

\* The smaller of two numbers.
LEMMA LeastOfTwo ==
  ASSUME NEW a \in Int, NEW b \in Int
  PROVE  Least({a, b}) = IF a <= b THEN a ELSE b
<1>1. PICK m \in {a, b} : \A y \in {a, b} : m <= y
  OBVIOUS
<1>2. Least({a, b}) \in {a, b} /\ \A y \in {a, b} : Least({a, b}) <= y
  BY <1>1 DEF Least
<1> QED
  BY <1>2

\* The first elements of a sequence and those behind them.
LEMMA FirstFacts ==
  ASSUME NEW S, NEW s \in Seq(S), NEW n \in Nat
  PROVE  /\ First(s, n) \in Seq(S)
         /\ Len(First(s, n)) = IF n <= Len(s) THEN n ELSE Len(s)
         /\ \A i \in 1 .. Len(First(s, n)) : First(s, n)[i] = s[i]
<1>1. Len(s) \in Nat /\ \A i \in 1 .. Len(s) : s[i] \in S
  BY LenProperties, ElementOfSeq
<1> DEFINE k == Least({n, Len(s)})
<1>2. k = IF n <= Len(s) THEN n ELSE Len(s)
  BY <1>1, LeastOfTwo
<1>3. First(s, n) = SubSeq(s, 1, k)
  BY DEF First
<1> HIDE DEF k
<1>4. k \in Int /\ k >= 0 /\ k <= Len(s) /\ \A i \in 1 .. k : s[i] \in S
  BY <1>1, <1>2
<1>5. /\ SubSeq(s, 1, k) \in Seq(S)
      /\ Len(SubSeq(s, 1, k)) = IF 1 <= k THEN k - 1 + 1 ELSE 0
      /\ \A i \in 1 .. k - 1 + 1 : SubSeq(s, 1, k)[i] = s[1 + i - 1]
  BY <1>4, SubSeqProperties
<1>6. Len(SubSeq(s, 1, k)) = k /\ \A i \in 1 .. k : SubSeq(s, 1, k)[i] = s[i]
  BY <1>4, <1>5
<1> QED
  BY <1>2, <1>3, <1>5, <1>6

LEMMA BehindFacts ==
  ASSUME NEW S, NEW s \in Seq(S), NEW n \in Nat
  PROVE  /\ Behind(s, n) \in Seq(S)
         /\ Len(Behind(s, n)) = IF n <= Len(s) THEN Len(s) - n ELSE 0
         /\ \A i \in 1 .. Len(Behind(s, n)) : Behind(s, n)[i] = s[n + i]
<1>1. Len(s) \in Nat /\ \A i \in 1 .. Len(s) : s[i] \in S
  BY LenProperties, ElementOfSeq
<1> DEFINE a == n + 1
           b == Len(s)
<1>2. a \in Int /\ b \in Int /\ \A i \in a .. b : s[i] \in S
  BY <1>1
<1>3. /\ b - a + 1 = Len(s) - n /\ (a <= b <=> n < Len(s))
      /\ \A i \in Int : a + i - 1 = n + i
  BY <1>1
<1>4. Behind(s, n) = SubSeq(s, a, b)
  BY DEF Behind
<1> HIDE DEF a, b
<1>5. /\ SubSeq(s, a, b) \in Seq(S)
      /\ Len(SubSeq(s, a, b)) = IF a <= b THEN b - a + 1 ELSE 0
      /\ \A i \in 1 .. b - a + 1 : SubSeq(s, a, b)[i] = s[a + i - 1]
  BY <1>2, SubSeqProperties
<1> QED
  BY <1>1, <1>3, <1>4, <1>5, SMTT(40)

LEMMA FirstAndBehind ==
  ASSUME NEW S, NEW s \in Seq(S), NEW n \in Nat
  PROVE  First(s, n) \o Behind(s, n) = s
<1> DEFINE f == First(s, n)
           b == Behind(s, n)
<1>1. /\ f \in Seq(S) /\ Len(f) = (IF n <= Len(s) THEN n ELSE Len(s))
      /\ \A i \in 1 .. Len(f) : f[i] = s[i]
  BY FirstFacts
<1>2. /\ b \in Seq(S) /\ Len(b) = (IF n <= Len(s) THEN Len(s) - n ELSE 0)
      /\ \A i \in 1 .. Len(b) : b[i] = s[n + i]
  BY BehindFacts
<1> HIDE DEF f, b
<1>3. /\ f \o b \in Seq(S) /\ Len(f \o b) = Len(f) + Len(b)
      /\ \A i \in 1 .. Len(f) + Len(b) : (f \o b)[i] = IF i <= Len(f) THEN f[i] ELSE b[i - Len(f)]
  BY <1>1, <1>2, ConcatProperties
<1>4. Len(s) \in Nat
  BY LenProperties
<1>5. Len(f \o b) = Len(s)
  BY <1>1, <1>2, <1>3, <1>4
<1>6. ASSUME NEW i \in 1 .. Len(s)
      PROVE  (f \o b)[i] = s[i]
  <2>1. CASE i <= Len(f)
    BY <1>1, <1>3, <1>4, <1>5, <2>1
  <2>2. CASE i > Len(f)
    <3>1. Len(f) = n /\ i - n \in 1 .. Len(b) /\ n + (i - n) = i /\ i \in 1 .. Len(f) + Len(b)
      BY <1>1, <1>2, <1>4, <2>2
    <3>2. (f \o b)[i] = b[i - n]
      BY <1>3, <2>2, <3>1
    <3> QED
      BY <1>2, <3>1, <3>2
  <2>3. Len(f) \in Nat
    BY <1>1, LenProperties
  <2>4. i \in Nat
    OBVIOUS
  <2>5. i <= Len(f) \/ i > Len(f)
    BY ONLY <2>3, <2>4
  <2> QED
    BY ONLY <2>1, <2>2, <2>5
<1> QED
  BY <1>3, <1>5, <1>6, SeqEqual DEF f, b

\* Two sequences agree on their first elements; one continues behind m elements like
\* another.
Agree(f, g, n) == \A i \in 1 .. n : f[i] = g[i]
Continues(f, g, m, n) == \A i \in 1 .. n : f[m + i] = g[i]

\* A sequence that is one in its first elements and another behind them.
LEMMA ConcatIs ==
  ASSUME NEW S, NEW r \in Seq(S), NEW s \in Seq(S), NEW t \in Seq(S),
         Len(r) = Len(s) + Len(t), Agree(r, s, Len(s)), Continues(r, t, Len(s), Len(t))
  PROVE  r = s \o t
<1>1. Len(r) \in Nat /\ Len(s) \in Nat /\ Len(t) \in Nat
  BY LenProperties
<1> DEFINE c == s \o t
<1>2. /\ c \in Seq(S) /\ Len(c) = Len(s) + Len(t)
      /\ \A i \in 1 .. Len(s) + Len(t) : c[i] = IF i <= Len(s) THEN s[i] ELSE t[i - Len(s)]
  BY ConcatProperties
<1> HIDE DEF c
<1>3. ASSUME NEW i \in 1 .. Len(r)
      PROVE  r[i] = c[i]
  <2>1. CASE i <= Len(s)
    <3>1. i \in 1 .. Len(s) /\ i \in 1 .. Len(s) + Len(t)
      BY <1>1, <2>1
    <3> QED
      BY <1>2, <2>1, <3>1 DEF Agree
  <2>2. CASE ~(i <= Len(s))
    <3>1. PICK j \in 1 .. Len(t) : j = i - Len(s) /\ Len(s) + j = i
      BY <1>1, <2>2
    <3>2. r[i] = t[j]
      BY <3>1 DEF Continues
    <3>3. i \in 1 .. Len(s) + Len(t)
      BY <1>1
    <3> QED
      BY <1>2, <2>2, <3>1, <3>2, <3>3
  <2> QED
    BY <2>1, <2>2
<1>4. Len(r) = Len(c)
  BY <1>2
<1>5. r \in Seq(S) /\ c \in Seq(S) /\ Len(r) = Len(c) /\ \A i \in 1 .. Len(r) : r[i] = c[i]
  BY <1>2, <1>3, <1>4
<1>6. r = c
  BY ONLY <1>5, SeqEqual
<1> QED
  BY <1>6 DEF c

LEMMA Regroup ==
  ASSUME NEW a \in Seq(Nat), NEW b \in Seq(Nat), NEW c \in Seq(Nat), NEW d \in Seq(Nat)
  PROVE  ((a \o b) \o c) \o d = a \o ((b \o c) \o d)
<1>1. b \o c \in Seq(Nat)
  BY ConcatProperties
<1>2. (a \o b) \o c = a \o (b \o c)
  <2>1. Assoc(a, b, c)
    BY Associative
  <2> QED
    BY ONLY <2>1 DEF Assoc
<1>3. PICK e \in Seq(Nat) : e = b \o c
  BY <1>1
<1>4. (a \o e) \o d = a \o (e \o d)
  <2>1. Assoc(a, e, d)
    BY Associative
  <2> QED
    BY ONLY <2>1 DEF Assoc
<1> QED
  BY <1>2, <1>3, <1>4

-----------------------------------------------------------------------------
(* FlattenSeq.                                                             *)

\* What FlattenSeq computes position by position.
Joins(f, s, n) ==
  f = [i \in 1 .. n |-> IF i = 1 THEN s[i] ELSE f[i - 1] \o s[i]]

LEMMA FlattenIs ==
  ASSUME NEW s, Len(s) # 0
  PROVE  FlattenSeq(s) = (CHOOSE f : Joins(f, s, Len(s)))[Len(s)]
BY DEF FlattenSeq, Joins

\* There is such a function, and one only.
LEMMA JoinExists ==
  ASSUME NEW S, NEW s \in Seq(Seq(S))
  PROVE  \E f : Joins(f, s, Len(s)) /\ f \in [1 .. Len(s) -> Seq(S)]
<1> DEFINE Has(r) == \E f : Joins(f, r, Len(r)) /\ f \in [1 .. Len(r) -> Seq(S)]
           T == {r \in Seq(Seq(S)) : Has(r)}
<1>1. <<>> \in T
  <2>1. <<>> \in Seq(Seq(S)) /\ Len(<<>>) = 0
    BY EmptySeq
  <2>2. Joins([i \in {} |-> <<>>], <<>>, 0) /\ [i \in {} |-> <<>>] \in [{} -> Seq(S)] /\ 1 .. 0 = {}
    BY DEF Joins
  <2> QED
    BY <2>1, <2>2
<1>2. ASSUME NEW r \in T, NEW x \in Seq(S)
      PROVE  Append(r, x) \in T
  <2>1. r \in Seq(Seq(S)) /\ Len(r) \in Nat
    BY LenProperties
  <2>2. PICK f : Joins(f, r, Len(r)) /\ f \in [1 .. Len(r) -> Seq(S)]
    OBVIOUS
  <2> DEFINE q == Append(r, x)
             n == Len(r)
             last == IF n = 0 THEN x ELSE f[n] \o x
             g == [i \in 1 .. n + 1 |-> IF i = n + 1 THEN last ELSE f[i]]
  <2>3. /\ q \in Seq(Seq(S)) /\ Len(q) = n + 1 /\ q[n + 1] = x
        /\ \A i \in 1 .. n : q[i] = r[i]
    BY <2>1, AppendProperties
  <2>4. last \in Seq(S)
    <3>1. CASE n = 0
      BY <3>1
    <3>2. CASE n # 0
      <4>1. f[n] \in Seq(S)
        <5>1. n \in 1 .. n
          BY <2>1, <3>2
        <5> QED
          BY <2>2, <5>1
      <4> QED
        BY <3>2, <4>1, ConcatProperties
    <3> QED
      BY <3>1, <3>2
  <2>5. g \in [1 .. n + 1 -> Seq(S)]
    BY <2>1, <2>2, <2>4
  <2>6. \A i \in 1 .. n : f[i] = IF i = 1 THEN r[i] ELSE f[i - 1] \o r[i]
    BY <2>2 DEF Joins
  <2>7. ASSUME NEW i \in 1 .. n + 1
        PROVE  g[i] = IF i = 1 THEN q[i] ELSE g[i - 1] \o q[i]
    <3>1. CASE i = n + 1
      <4>1. CASE n = 0
        BY <2>3, <3>1, <4>1
      <4>2. CASE n # 0
        <5>1. i - 1 \in 1 .. n + 1 /\ i - 1 # n + 1 /\ i - 1 = n /\ i # 1
          BY <2>1, <3>1, <4>2
        <5>2. g[i - 1] = f[n]
          BY <5>1
        <5> QED
          BY <2>3, <3>1, <4>2, <5>1, <5>2
      <4> QED
        BY <4>1, <4>2
    <3>2. CASE i # n + 1
      <4>1. i \in 1 .. n /\ (i # 1 => i - 1 \in 1 .. n + 1 /\ i - 1 # n + 1)
        BY <2>1, <3>2
      <4>2. g[i] = f[i] /\ (i # 1 => g[i - 1] = f[i - 1])
        BY <3>2, <4>1
      <4> QED
        BY <2>3, <2>6, <4>1, <4>2
    <3> QED
      BY <3>1, <3>2
  <2> HIDE DEF q, n, last
  <2>8. g = [i \in 1 .. n + 1 |-> IF i = 1 THEN q[i] ELSE g[i - 1] \o q[i]]
    <3>1. DOMAIN g = 1 .. n + 1
      OBVIOUS
    <3> HIDE DEF g
    <3> QED
      BY <2>5, <2>7, <3>1
  <2> HIDE DEF g
  <2>9. Joins(g, q, Len(q)) /\ g \in [1 .. Len(q) -> Seq(S)]
    BY <2>3, <2>5, <2>8 DEF Joins
  <2> QED
    BY <2>3, <2>9 DEF q
<1> HIDE DEF T
<1>3. T \in SUBSET Seq(Seq(S))
  BY DEF T
<1>4. s \in T
  BY ONLY <1>1, <1>2, <1>3, s \in Seq(Seq(S)), AllSequences
<1> QED
  BY <1>4 DEF T

LEMMA JoinsAgree ==
  ASSUME NEW f, NEW g, NEW s, NEW t, NEW n \in Nat, NEW m \in Nat, n <= m,
         Joins(f, s, n), Joins(g, t, m), Agree(s, t, n)
  PROVE  Agree(f, g, n)
<1> DEFINE Wrong == {i \in 1 .. n : f[i] # g[i]}
<1>1. \A i \in 1 .. n : f[i] = IF i = 1 THEN s[i] ELSE f[i - 1] \o s[i]
  BY DEF Joins
<1>2. \A i \in 1 .. n : g[i] = IF i = 1 THEN s[i] ELSE g[i - 1] \o s[i]
  <2>1. \A i \in 1 .. m : g[i] = IF i = 1 THEN t[i] ELSE g[i - 1] \o t[i]
    BY DEF Joins
  <2> QED
    BY <2>1 DEF Agree
<1> SUFFICES ASSUME Wrong # {} PROVE FALSE
  BY DEF Agree
<1>3. Wrong \in SUBSET Nat
  OBVIOUS
<1>4. PICK i \in Wrong : \A j \in Wrong : i <= j
  BY <1>3, LeastNatural
<1>5. i \in 1 .. n /\ f[i] # g[i]
  BY <1>4
<1>6. i # 1
  BY <1>1, <1>2, <1>5
<1>7. i - 1 \in 1 .. n /\ i - 1 \notin Wrong
  BY <1>4, <1>5, <1>6
<1>8. f[i - 1] = g[i - 1]
  BY <1>7
<1> QED
  BY <1>1, <1>2, <1>5, <1>6, <1>8

\* FlattenSeq along a sequence.
LEMMA FlattenEmpty == FlattenSeq(<<>>) = <<>>
BY DEF FlattenSeq

LEMMA FlattenStep ==
  ASSUME NEW S, NEW s \in Seq(Seq(S))
  PROVE  /\ FlattenSeq(s) \in Seq(S)
         /\ \A x \in Seq(S) : FlattenSeq(Append(s, x)) = FlattenSeq(s) \o x
<1>1. ASSUME NEW r \in Seq(Seq(S)), Len(r) # 0
      PROVE  \E f : /\ Joins(f, r, Len(r)) /\ f \in [1 .. Len(r) -> Seq(S)]
                    /\ FlattenSeq(r) = f[Len(r)]
  <2>1. PICK h : Joins(h, r, Len(r)) /\ h \in [1 .. Len(r) -> Seq(S)]
    BY JoinExists
  <2> DEFINE f == CHOOSE f : Joins(f, r, Len(r))
  <2>2. Joins(f, r, Len(r))
    BY <2>1
  <2>3. FlattenSeq(r) = f[Len(r)]
    BY <1>1, FlattenIs
  <2> HIDE DEF f
  <2>4. Len(r) \in Nat
    BY LenProperties
  <2>5. \A i \in 1 .. Len(r) : f[i] = h[i]
    <3>1. Agree(r, r, Len(r))
      BY DEF Agree
    <3>2. Agree(f, h, Len(r))
      BY <2>1, <2>2, <2>4, <3>1, JoinsAgree
    <3> QED
      BY <3>2 DEF Agree
  <2>6. DOMAIN f = 1 .. Len(r)
    BY <2>2 DEF Joins
  <2>7. f = [i \in 1 .. Len(r) |-> f[i]]
    BY <2>2, <2>6 DEF Joins
  <2>8. f \in [1 .. Len(r) -> Seq(S)]
    BY <2>1, <2>5, <2>7
  <2> QED
    BY <2>2, <2>3, <2>8
<1>2. Len(s) \in Nat
  BY LenProperties
<1>3. FlattenSeq(s) \in Seq(S)
  <2>1. CASE Len(s) = 0
    BY <2>1, FlattenEmpty, EmptySeq
  <2>2. CASE Len(s) # 0
    <3>1. PICK f : f \in [1 .. Len(s) -> Seq(S)] /\ FlattenSeq(s) = f[Len(s)]
      BY <1>1, <2>2
    <3>2. Len(s) \in 1 .. Len(s)
      BY <1>2, <2>2
    <3> QED
      BY <3>1, <3>2
  <2> QED
    BY <2>1, <2>2
<1>4. ASSUME NEW x \in Seq(S)
      PROVE  FlattenSeq(Append(s, x)) = FlattenSeq(s) \o x
  <2>0. PICK q, n : q = Append(s, x) /\ n = Len(s)
    OBVIOUS
  <2>1. /\ q \in Seq(Seq(S)) /\ Len(q) = n + 1 /\ q[n + 1] = x
        /\ \A i \in 1 .. n : q[i] = s[i]
    BY <2>0, AppendProperties
  <2>2. n \in Nat /\ n = Len(s)
    BY <1>2, <2>0
  <2>3. PICK g : Joins(g, q, n + 1) /\ FlattenSeq(q) = g[n + 1]
    BY <1>1, <2>1, <2>2
  <2>4. n + 1 \in 1 .. n + 1
    BY <2>2
  <2>5. g[n + 1] = IF n + 1 = 1 THEN q[n + 1] ELSE g[(n + 1) - 1] \o q[n + 1]
    BY <2>3, <2>4 DEF Joins
  <2>6. CASE n = 0
    <3>1. FlattenSeq(q) = x
      BY <2>1, <2>3, <2>5, <2>6
    <3>2. s = <<>>
      BY <2>2, <2>6, EmptySeq
    <3> QED
      BY <3>1, <3>2, FlattenEmpty, ConcatEmptySeq, <2>0
  <2>7. CASE n # 0
    <3>1. PICK f : Joins(f, s, n) /\ FlattenSeq(s) = f[n]
      BY <1>1, <2>2, <2>7
    <3>2. f[n] = g[n]
      <4>1. n + 1 \in Nat /\ n <= n + 1 /\ n \in 1 .. n
        BY <2>2, <2>7
      <4>2. Agree(s, q, n)
        BY <2>1 DEF Agree
      <4>3. PICK m \in Nat : m = n + 1
        BY <4>1
      <4>4. n \in Nat /\ n <= m /\ Joins(f, s, n) /\ Joins(g, q, m)
        BY <2>2, <2>3, <3>1, <4>1, <4>3
      <4>5. Agree(f, g, n)
        BY ONLY <4>2, <4>4, m \in Nat, JoinsAgree
      <4> QED
        BY <4>1, <4>5 DEF Agree
    <3>3. g[n + 1] = g[n] \o x
      <4>1. n + 1 # 1 /\ (n + 1) - 1 = n
        BY <2>2, <2>7
      <4> QED
        BY <2>1, <2>5, <4>1
    <3> QED
      BY <2>0, <2>3, <3>1, <3>2, <3>3
  <2> QED
    BY <2>6, <2>7
<1> QED
  BY <1>3, <1>4

LEMMA FlattenConcat ==
  ASSUME NEW S, NEW s \in Seq(Seq(S)), NEW t \in Seq(Seq(S))
  PROVE  FlattenSeq(s \o t) = FlattenSeq(s) \o FlattenSeq(t)
<1> DEFINE T == {r \in Seq(Seq(S)) : FlattenSeq(s \o r) = FlattenSeq(s) \o FlattenSeq(r)}
<1>1. <<>> \in T
  <2>1. <<>> \in Seq(Seq(S))
    BY EmptySeq
  <2>2. s \o <<>> = s /\ FlattenSeq(s) \o <<>> = FlattenSeq(s)
    BY FlattenStep, ConcatEmptySeq
  <2> QED
    BY <2>1, <2>2, FlattenEmpty
<1>2. ASSUME NEW r \in T, NEW x \in Seq(S)
      PROVE  Append(r, x) \in T
  <2>1. r \in Seq(Seq(S)) /\ s \o r \in Seq(Seq(S)) /\ Append(r, x) \in Seq(Seq(S))
    BY ConcatProperties, AppendProperties
  <2>2. s \o Append(r, x) = Append(s \o r, x)
    BY <2>1, ConcatAppend, SMTT(40)
  <2>3. FlattenSeq(Append(s \o r, x)) = FlattenSeq(s \o r) \o x
    BY <2>1, FlattenStep
  <2>4. FlattenSeq(Append(r, x)) = FlattenSeq(r) \o x
    BY <2>1, FlattenStep
  <2>5. FlattenSeq(s) \in Seq(S) /\ FlattenSeq(r) \in Seq(S)
    BY <2>1, FlattenStep
  <2>6. (FlattenSeq(s) \o FlattenSeq(r)) \o x = FlattenSeq(s) \o (FlattenSeq(r) \o x)
    <3>1. Assoc(FlattenSeq(s), FlattenSeq(r), x)
      BY <2>5, Associative
    <3> QED
      BY ONLY <3>1 DEF Assoc
  <2> QED
    BY <2>1, <2>2, <2>3, <2>4, <2>6
<1> HIDE DEF T
<1>3. T \in SUBSET Seq(Seq(S))
  BY DEF T
<1>4. t \in T
  BY ONLY <1>1, <1>2, <1>3, t \in Seq(Seq(S)), AllSequences
<1> QED
  BY <1>4 DEF T

\* A sequence of one.
LEMMA FlattenOne ==
  ASSUME NEW S, NEW x \in Seq(S)
  PROVE  <<x>> \in Seq(Seq(S)) /\ FlattenSeq(<<x>>) = x
<1>1. <<>> \in Seq(Seq(S))
  BY EmptySeq
<1>2. Append(<<>>, x) = <<>> \o <<x>> /\ Append(<<>>, x) \in Seq(Seq(S))
  BY <1>1, AppendIsConcat, AppendProperties
<1>3. Append(<<>>, x) = <<x>>
  OBVIOUS
<1>4. FlattenSeq(Append(<<>>, x)) = FlattenSeq(<<>>) \o x
  BY <1>1, FlattenStep
<1> QED
  BY <1>2, <1>3, <1>4, FlattenEmpty, ConcatEmptySeq

-----------------------------------------------------------------------------
(* The converters.                                                         *)

Cell == Seq(Nat)

Node ==
  [kind : Kinds, data : Seq(Cell), next : Nat, zpos : Nat, room : Nat,
   input : Seq(Cell), held : Seq(Nat) \cup Seq(Cell),
   eof : BOOLEAN, over : BOOLEAN, lost : BOOLEAN, received : Nat]

\* What FileIn has not given on.
Unread(n) == Behind(n.data, n.next) \o n.held

FileInSound(n) ==
  /\ n.held \in Seq(Cell)
  /\ n.next <= Len(n.data) /\ Len(n.data) <= BufferSize["filein"]
  /\ n.eof => n.held = <<>> /\ n.next = Len(n.data)

DummySound(n) == n.next <= Len(n.data) /\ Len(n.data) <= BufferSize["dummy"]

\* The free room of a ring buffer ends where the data begin, or at the end of the
\* buffer, which is where the data begin again.
RingSound(n) ==
  LET size == BufferSize[n.kind]
  IN  /\ n.held \in Seq(Nat)
      /\ Len(n.data) = size /\ n.next < size /\ n.zpos <= size
      /\ n.next > n.zpos => n.zpos + n.room = n.next
      /\ n.next <= n.zpos => \/ n.zpos + n.room = size
                             \/ n.zpos = n.next /\ n.room = 0
      /\ Len(n.input) <= InSize[n.kind]

\* A converter that met its end was told so, and one that compresses has nothing
\* left.
OverSound(n) ==
  n.over => /\ n.kind # "unzip" => n.eof
            /\ n.kind = "zip" => n.held = <<>> /\ n.input = <<>>

Sound(n) ==
  /\ n \in Node
  /\ ~n.lost
  /\ n.kind = "filein" => FileInSound(n)
  /\ n.kind = "dummy" => DummySound(n)
  /\ n.kind \in {"zip", "unzip"} => RingSound(n)
  /\ OverSound(n)

LEMMA Sizes ==
  /\ \A k \in Kinds : BufferSize[k] \in Nat /\ BufferSize[k] >= 1
  /\ BufferSize.filein = BufferSize["filein"] /\ BufferSize.dummy = BufferSize["dummy"]
  /\ BufferSize.zip = BufferSize["zip"] /\ BufferSize.unzip = BufferSize["unzip"]
  /\ BufferSize.fileout = BufferSize["fileout"] /\ BufferSize.md5 = BufferSize["md5"]
  /\ InSize["zip"] \in Nat /\ InSize["zip"] >= 1 /\ InSize.zip = InSize["zip"]
  /\ InSize["unzip"] \in Nat /\ InSize["unzip"] >= 1 /\ InSize.unzip = InSize["unzip"]
  /\ StoreBuffer \in Nat /\ StoreBuffer >= 1
  /\ RestoreBuffer \in Nat /\ RestoreBuffer >= 1
  /\ MaxRun \in Nat /\ MaxRun >= 1
BY SizesAssumption DEF Kinds

\* The fields of a converter.
LEMMA NodeFields ==
  ASSUME NEW n \in Node
  PROVE  /\ n.kind \in Kinds /\ n.data \in Seq(Cell) /\ n.input \in Seq(Cell)
         /\ n.next \in Nat /\ n.zpos \in Nat /\ n.room \in Nat /\ n.received \in Nat
         /\ n.eof \in BOOLEAN /\ n.over \in BOOLEAN /\ n.lost \in BOOLEAN
         /\ Len(n.data) \in Nat /\ Len(n.input) \in Nat
         /\ n.held \in Seq(Nat) \/ n.held \in Seq(Cell)
<1>1. n.data \in Seq(Cell) /\ n.input \in Seq(Cell)
  BY DEF Node
<1>2. Len(n.data) \in Nat /\ Len(n.input) \in Nat
  BY <1>1, LenProperties
<1> QED
  BY <1>1, <1>2 DEF Node

-----------------------------------------------------------------------------
(* The invariant.                                                          *)

Chain == [nodes : [1..2 -> Node], tee : Node]

\* Two converters and a digest at work.  h are all the bytes that were handed to
\* the first one, and g those that the second one gave on; q is what a FileIn has
\* to read.
InStep(a, b, t, g, h, q) ==
  /\ Sound(a) /\ Sound(b) /\ Sound(t)
  /\ a.kind \in {"filein", "dummy", "unzip"}
  /\ b.kind \in {"zip", "dummy", "fileout"}
  /\ t.kind = "md5" /\ t.next = 0 /\ t.eof = b.eof
  /\ b.eof => a.over /\ HasData(a) = 0
  /\ FlattenSeq(t.data) \o InNode(a) = h
  /\ FlattenSeq(t.data) = g \o InNode(b)
  /\ a.kind = "filein" => t.data \o Unread(a) = q
  /\ b.kind = "fileout" => b.data = t.data /\ b.received = Len(b.data)

GroupOK(c, g, h, q) == c \in Chain /\ InStep(c.nodes[1], c.nodes[2], c.tee, g, h, q)

\* What StoreFile can read of the file.
Readable == First(Content, At("read"))

Types ==
  /\ world \in Worlds
  /\ op \in {"store", "restore", "check", "done"}
  /\ ineof \in BOOLEAN /\ outeof \in BOOLEAN
  /\ file \in Seq(Cell) /\ sent \in 0..Len(file)
  /\ chain \in Chain
  /\ Sound(chain.nodes[1]) /\ Sound(chain.nodes[2])
  /\ result \in [store : {"none", "ok", "failed"}, restore : {"none", "ok", "failed"},
                 check : Seq(Cell)]

Storing ==
  op = "store" =>
    /\ phase \in {"work", "drain", "sum"}
    /\ GroupOK(chain, FlattenSeq(file), FlattenSeq(Readable), Readable)
    /\ chain.nodes[1].kind = "filein"
    /\ chain.nodes[2].kind = IF world.zip THEN "zip" ELSE "dummy"
    /\ phase = "drain" /\ outeof => chain.nodes[2].over
    /\ phase = "sum" => chain.nodes[2].over /\ HasData(chain.nodes[2]) = 0
    /\ result.restore # "ok" /\ result.check = NoVersion

\* What the converters got of the file that is restored.
Fed == FlattenSeq(chain.tee.data) \o InNode(chain.nodes[1])

Restoring ==
  op = "restore" =>
    /\ phase \in {"feed", "work", "sum", "done"}
    /\ GroupOK(chain, <<>>, Fed, <<>>)
    /\ chain.nodes[1].kind = IF world.zip THEN "unzip" ELSE "dummy"
    /\ chain.nodes[2].kind = "fileout"
    /\ Fed \o FlattenSeq(Behind(file, sent)) = FlattenSeq(file)
    /\ version = Readable
    /\ result.restore # "ok" /\ result.check = NoVersion

Checking ==
  op = "check" =>
    /\ phase = "work"
    /\ chain.nodes[2].data = Content
    /\ chain.tee.kind = "md5" /\ ~chain.tee.lost
    /\ chain.tee.held \in Seq(Cell)
    /\ chain.tee.data \o chain.tee.held = Content
    /\ chain.tee.eof => chain.tee.held = <<>>
    /\ result.check = NoVersion

Ending ==
  op = "done" =>
    /\ phase = "done"
    /\ result.restore = "ok" => /\ chain.nodes[2].data = Content
                                /\ result.check \in {NoVersion, Content}

IInv == Types /\ Storing /\ Restoring /\ Checking /\ Ending

-----------------------------------------------------------------------------
(* The ring buffers of Zip and Unzip.                                      *)

RingLen(n) ==
  IF Wrapped(n) THEN BufferSize[n.kind] - n.next + n.zpos ELSE n.zpos - n.next
RingAt(n, i) ==
  IF n.next + i <= BufferSize[n.kind] THEN n.next + i ELSE n.next + i - BufferSize[n.kind]
RingCell(n, i) == n.data[RingAt(n, i)]

\* Numbers of a ring buffer.
LEMMA RingNumbers ==
  ASSUME NEW n \in Node, RingSound(n)
  PROVE  /\ BufferSize[n.kind] \in Nat /\ BufferSize[n.kind] >= 1
         /\ n.next \in Nat /\ n.zpos \in Nat /\ n.room \in Nat
         /\ Len(n.data) = BufferSize[n.kind]
         /\ n.next < BufferSize[n.kind] /\ n.zpos <= BufferSize[n.kind]
         /\ \/ /\ n.next > n.zpos /\ n.zpos + n.room = n.next /\ Wrapped(n)
            \/ /\ n.next <= n.zpos /\ n.zpos + n.room = BufferSize[n.kind] /\ ~Wrapped(n)
            \/ /\ n.zpos = n.next /\ n.room = 0 /\ Wrapped(n)
BY Sizes, NodeFields DEF RingSound, Wrapped

\* The data in a ring buffer, cell by cell.
LEMMA RingFacts ==
  ASSUME NEW n \in Node, RingSound(n)
  PROVE  /\ Ring(n) \in Seq(Cell) /\ RingLen(n) \in Nat
         /\ Len(Ring(n)) = RingLen(n)
         /\ \A i \in 1 .. RingLen(n) : Ring(n)[i] = RingCell(n, i)
<1> DEFINE size == BufferSize[n.kind]
           next == n.next
           zpos == n.zpos
           d == n.data
<1>1. /\ size \in Nat /\ size >= 1 /\ next \in Nat /\ zpos \in Nat /\ Len(d) = size
      /\ next < size /\ zpos <= size
      /\ ~Wrapped(n) => next <= zpos
  BY RingNumbers
<1>2. d \in Seq(Cell) /\ \A i \in 1 .. size : d[i] \in Cell
  BY <1>1, NodeFields, ElementOfSeq
<1>3. CASE Wrapped(n)
  <2> DEFINE b == Behind(d, next)
             f == First(d, zpos)
  <2>1. /\ b \in Seq(Cell) /\ Len(b) = size - next
        /\ \A i \in 1 .. Len(b) : b[i] = d[next + i]
    BY <1>1, <1>2, BehindFacts
  <2>2. /\ f \in Seq(Cell) /\ Len(f) = zpos
        /\ \A i \in 1 .. Len(f) : f[i] = d[i]
    BY <1>1, <1>2, FirstFacts
  <2>3. Ring(n) = b \o f /\ RingLen(n) = size - next + zpos
    BY <1>3 DEF Ring, RingLen
  <2> HIDE DEF b, f
  <2>4. /\ b \o f \in Seq(Cell) /\ Len(b \o f) = Len(b) + Len(f)
        /\ \A i \in 1 .. Len(b) + Len(f) : (b \o f)[i] = IF i <= Len(b) THEN b[i] ELSE f[i - Len(b)]
    BY <2>1, <2>2, ConcatProperties
  <2>5. ASSUME NEW i \in 1 .. size - next + zpos
        PROVE  Ring(n)[i] = RingCell(n, i)
    <3> HIDE DEF size, next, zpos, d
    <3>1. CASE i <= size - next
      <4>1. i \in 1 .. Len(b) /\ i \in 1 .. Len(b) + Len(f) /\ next + i <= size
        BY <1>1, <2>1, <2>2, <3>1
      <4> QED
        BY <2>1, <2>3, <2>4, <4>1 DEF RingCell, RingAt, size, next, d
    <3>2. CASE ~(i <= size - next)
      <4>1. /\ i - Len(b) \in 1 .. Len(f) /\ ~(i <= Len(b)) /\ i \in 1 .. Len(b) + Len(f)
            /\ ~(next + i <= size) /\ i - Len(b) = next + i - size
        BY <1>1, <2>1, <2>2, <3>2
      <4>2. (b \o f)[i] = d[next + i - size]
        BY <2>2, <2>4, <4>1
      <4> QED
        BY <2>3, <4>1, <4>2 DEF RingCell, RingAt, size, next, d
    <3> QED
      BY <3>1, <3>2
  <2>6. size - next + zpos \in Nat
    BY <1>1
  <2> QED
    BY <2>1, <2>2, <2>3, <2>4, <2>5, <2>6
<1>4. CASE ~Wrapped(n)
  <2>1. Ring(n) = SubSeq(d, next + 1, zpos) /\ RingLen(n) = zpos - next
    BY <1>4 DEF Ring, RingLen
  <2> DEFINE m == next + 1
  <2>2. m \in Int /\ zpos \in Int /\ \A i \in m .. zpos : d[i] \in Cell
    BY <1>1, <1>2
  <2> HIDE DEF m
  <2>3. /\ SubSeq(d, m, zpos) \in Seq(Cell)
        /\ Len(SubSeq(d, m, zpos)) = IF m <= zpos THEN zpos - m + 1 ELSE 0
        /\ \A i \in 1 .. zpos - m + 1 : SubSeq(d, m, zpos)[i] = d[m + i - 1]
    BY <2>2, SubSeqProperties
  <2>4. /\ zpos - m + 1 = zpos - next /\ (m <= zpos <=> next < zpos) /\ next <= zpos
        /\ \A i \in 1 .. zpos - next : m + i - 1 = next + i /\ next + i <= size
    BY <1>1, <1>4, SMTT(40) DEF m
  <2>5. /\ Ring(n) \in Seq(Cell) /\ Len(Ring(n)) = zpos - next
        /\ \A i \in 1 .. zpos - next : Ring(n)[i] = d[next + i]
    <3> HIDE DEF size, next, zpos, d
    <3>1. Ring(n) = SubSeq(d, m, zpos)
      BY <2>1 DEF m
    <3>2. Len(Ring(n)) = zpos - next
      BY <1>1, <2>3, <2>4, <3>1
    <3> QED
      BY <2>3, <2>4, <3>1, <3>2
  <2>6. zpos - next \in Nat
    BY <1>1, <2>4
  <2> QED
    BY <2>1, <2>4, <2>5, <2>6 DEF RingCell, RingAt
<1> QED
  BY <1>3, <1>4

\* What is taken from a ring buffer comes from its front.
LEMMA RingTake ==
  ASSUME NEW n \in Node, RingSound(n), NEW k \in Nat, k >= 1,
         IF Wrapped(n) THEN n.next + k <= BufferSize[n.kind] ELSE n.next + k <= n.zpos
  PROVE  LET q == RingTaken(n, k)
             piece == SubSeq(n.data, n.next + 1, n.next + k)
         IN  /\ q \in Node /\ RingSound(q)
             /\ q = [n EXCEPT !.next = q.next, !.zpos = q.zpos, !.room = q.room]
             /\ piece \in Seq(Cell) /\ Len(piece) = k
             /\ Ring(n) = piece \o Ring(q)
<1> DEFINE size == BufferSize[n.kind]
           next == n.next
           zpos == n.zpos
           d == n.data
           q == RingTaken(n, k)
           next2 == IF next + k >= size THEN 0 ELSE next + k
           zpos2 == IF zpos >= size THEN 0 ELSE zpos
           room2 == IF zpos2 >= next2 THEN size - zpos2 ELSE next2 - zpos2
           piece == SubSeq(d, next + 1, next + k)
<1>1. /\ size \in Nat /\ size >= 1 /\ next \in Nat /\ zpos \in Nat /\ n.room \in Nat
      /\ Len(d) = size /\ next < size /\ zpos <= size
      /\ \/ /\ next > zpos /\ Wrapped(n)
         \/ /\ next <= zpos /\ ~Wrapped(n)
         \/ /\ zpos = next /\ Wrapped(n)
  BY RingNumbers
<1>2. q = [n EXCEPT !.next = next2, !.zpos = zpos2, !.room = room2]
  BY DEF RingTaken
<1>3. next + k <= size /\ (~Wrapped(n) => next + k <= zpos)
  BY <1>1
<1>4. /\ next2 \in Nat /\ zpos2 \in Nat /\ room2 \in Nat
      /\ next2 < size /\ zpos2 <= size
      /\ next2 > zpos2 => zpos2 + room2 = next2
      /\ next2 <= zpos2 => zpos2 + room2 = size
  <2> HIDE DEF next, zpos, size
  <2> QED
    BY <1>1, <1>3
<1>5. /\ q \in Node /\ q.next = next2 /\ q.zpos = zpos2 /\ q.room = room2 /\ q.data = d
      /\ q.kind = n.kind /\ q.input = n.input /\ q.held = n.held
      /\ q = [n EXCEPT !.next = q.next, !.zpos = q.zpos, !.room = q.room]
  <2> HIDE DEF next2, zpos2, room2, q
  <2> QED
    BY <1>2, <1>4 DEF Node
<1> HIDE DEF q
<1>6. RingSound(q)
  BY <1>1, <1>4, <1>5 DEF RingSound
<1>7. d \in Seq(Cell) /\ \A i \in 1 .. size : d[i] \in Cell
  BY <1>1, NodeFields, ElementOfSeq
<1>8. /\ piece \in Seq(Cell) /\ Len(piece) = k
      /\ \A i \in 1 .. k : piece[i] = d[next + i]
  <2> DEFINE a == next + 1
             b == next + k
  <2> HIDE DEF next, zpos, size, d
  <2>1. a \in Int /\ b \in Int /\ \A i \in a .. b : d[i] \in Cell
    BY <1>1, <1>3, <1>7
  <2>2. b - a + 1 = k /\ a <= b /\ \A i \in 1 .. k : a + i - 1 = next + i
    BY <1>1
  <2> HIDE DEF a, b
  <2>3. /\ SubSeq(d, a, b) \in Seq(Cell)
        /\ Len(SubSeq(d, a, b)) = IF a <= b THEN b - a + 1 ELSE 0
        /\ \A i \in 1 .. b - a + 1 : SubSeq(d, a, b)[i] = d[a + i - 1]
    BY <2>1, SubSeqProperties
  <2>4. piece = SubSeq(d, a, b)
    BY DEF a, b
  <2> HIDE DEF piece
  <2> QED
    BY <2>2, <2>3, <2>4
<1> DEFINE r == Ring(n)
           t == Ring(q)
<1>9. /\ r \in Seq(Cell) /\ Len(r) = RingLen(n) /\ RingLen(n) \in Nat
      /\ \A i \in 1 .. RingLen(n) : r[i] = RingCell(n, i)
      /\ t \in Seq(Cell) /\ Len(t) = RingLen(q) /\ RingLen(q) \in Nat
      /\ \A i \in 1 .. RingLen(q) : t[i] = RingCell(q, i)
  BY <1>5, <1>6, RingFacts
<1>10. RingLen(n) = k + RingLen(q)
  <2>1. RingLen(n) = IF Wrapped(n) THEN size - next + zpos ELSE zpos - next
    BY DEF RingLen
  <2>2. RingLen(q) = IF next2 > zpos2 THEN size - next2 + zpos2 ELSE zpos2 - next2
    <3>1. Wrapped(q) <=> next2 > zpos2
      <4> HIDE DEF next, zpos, size, next2, zpos2, room2
      <4> QED
        BY <1>1, <1>4, <1>5 DEF Wrapped
    <3> QED
      BY <1>5, <3>1 DEF RingLen
  <2> HIDE DEF next, zpos, size
  <2> QED
    BY <1>1, <1>3, <2>1, <2>2
<1>11. ASSUME NEW i \in 1 .. k PROVE RingCell(n, i) = d[next + i]
  <2>1. next + i <= size
    <3> HIDE DEF next, zpos, size
    <3> QED
      BY <1>1, <1>3
  <2> QED
    BY <2>1 DEF RingCell, RingAt
<1>12. ASSUME NEW i \in 1 .. RingLen(q) PROVE RingCell(n, k + i) = RingCell(q, i)
  <2>1. RingAt(n, k + i) = IF next + (k + i) <= size THEN next + (k + i)
                           ELSE next + (k + i) - size
    BY DEF RingAt
  <2>2. RingAt(q, i) = IF next2 + i <= size THEN next2 + i ELSE next2 + i - size
    BY <1>5 DEF RingAt
  <2>3. i \in Nat /\ i >= 1 /\ i <= size
    <3>1. RingLen(q) <= size
      <4>1. RingLen(q) = IF Wrapped(q) THEN size - next2 + zpos2 ELSE zpos2 - next2
        BY <1>5 DEF RingLen
      <4>2. Wrapped(q) => next2 > zpos2
        <5> HIDE DEF next, zpos, size, next2, zpos2, room2
        <5> QED
          BY <1>1, <1>4, <1>5 DEF Wrapped
      <4> HIDE DEF next, zpos, size, next2, zpos2, room2
      <4> QED
        BY <1>1, <1>4, <4>1, <4>2
    <3> HIDE DEF size
    <3> QED
      BY <1>1, <1>9, <3>1
  <2>4. RingAt(n, k + i) = RingAt(q, i)
    <3> HIDE DEF next, zpos, size, d
    <3> QED
      BY <1>1, <1>3, <2>1, <2>2, <2>3
  <2> QED
    BY <1>5, <2>4 DEF RingCell
<1> HIDE DEF r, t, piece, d, next, size, next2, zpos2, room2, zpos
<1>13. Agree(r, piece, Len(piece))
  <2> SUFFICES ASSUME NEW i \in 1 .. k PROVE r[i] = piece[i]
    BY <1>8 DEF Agree
  <2>1. i \in 1 .. RingLen(n)
    BY <1>9, <1>10
  <2> QED
    BY <1>8, <1>9, <1>11, <2>1
<1>14. Continues(r, t, Len(piece), Len(t))
  <2> SUFFICES ASSUME NEW i \in 1 .. RingLen(q) PROVE r[k + i] = t[i]
    BY <1>8, <1>9 DEF Continues
  <2>1. k + i \in 1 .. RingLen(n)
    BY <1>9, <1>10
  <2>2. r[k + i] = RingCell(n, k + i)
    BY <1>9, <2>1
  <2> QED
    BY <1>9, <1>12, <2>2
<1>15. Len(r) = Len(piece) + Len(t)
  BY <1>8, <1>9, <1>10
<1>16. r \in Seq(Cell) /\ piece \in Seq(Cell) /\ t \in Seq(Cell)
  BY <1>8, <1>9
<1>17. r = piece \o t
  BY ONLY <1>13, <1>14, <1>15, <1>16, ConcatIs
<1> QED
  BY <1>5, <1>6, <1>8, <1>17 DEF r, t, piece, d, next, q

\* A piece is written into a sequence.
Written(d, e, cells, z) ==
  /\ Len(e) = Len(d)
  /\ \A i \in 1 .. Len(d) : i <= z \/ i > z + Len(cells) => e[i] = d[i]
  /\ Continues(e, cells, z, Len(cells))

LEMMA WriteFacts ==
  ASSUME NEW S, NEW d \in Seq(S), NEW cells \in Seq(S), NEW z \in Nat, z + Len(cells) <= Len(d)
  PROVE  LET e == First(d, z) \o cells \o Behind(d, z + Len(cells))
         IN  e \in Seq(S) /\ Written(d, e, cells, z)
<1> DEFINE l == Len(cells)
           m == z + l
           f == First(d, z)
           b == Behind(d, m)
           g == f \o cells
           e == g \o b
<1>1. l \in Nat /\ Len(d) \in Nat
  BY LenProperties
<1>2. m \in Nat /\ m <= Len(d) /\ z <= Len(d) /\ m = z + l
  BY <1>1
<1> HIDE DEF m, l
<1>3. f \in Seq(S) /\ Len(f) = z /\ \A i \in 1 .. z : f[i] = d[i]
  BY <1>2, FirstFacts
<1>4. b \in Seq(S) /\ Len(b) = Len(d) - m /\ \A i \in 1 .. Len(b) : b[i] = d[m + i]
  BY <1>2, BehindFacts
<1> HIDE DEF f, b
<1>5. /\ g \in Seq(S) /\ Len(g) = z + l
      /\ \A i \in 1 .. z + l : g[i] = IF i <= z THEN f[i] ELSE cells[i - z]
  BY <1>3, ConcatProperties DEF l
<1> HIDE DEF g
<1>6. /\ e \in Seq(S) /\ Len(e) = m + (Len(d) - m)
      /\ \A i \in 1 .. m + (Len(d) - m) : e[i] = IF i <= m THEN g[i] ELSE b[i - m]
  <2>1. g \in Seq(S) /\ b \in Seq(S) /\ Len(g) = m /\ Len(b) = Len(d) - m
    BY <1>2, <1>4, <1>5
  <2>2. /\ g \o b \in Seq(S) /\ Len(g \o b) = Len(g) + Len(b)
        /\ \A i \in 1 .. Len(g) + Len(b) :
             (g \o b)[i] = IF i <= Len(g) THEN g[i] ELSE b[i - Len(g)]
    BY ONLY <2>1, ConcatProperties
  <2> QED
    BY <2>1, <2>2
<1> HIDE DEF e
<1>7. m + (Len(d) - m) = Len(d)
  BY <1>1, <1>2
<1>8. ASSUME NEW i \in 1 .. Len(d), i <= z \/ i > m
      PROVE  e[i] = d[i]
  <2>1. CASE i <= z
    <3>1. i \in 1 .. z /\ i \in 1 .. z + l /\ i <= m
      BY <1>1, <1>2, <2>1
    <3> QED
      BY <1>3, <1>5, <1>6, <1>7, <2>1, <3>1
  <2>2. CASE i > m
    <3>1. PICK j \in Nat : j = i - m /\ j \in 1 .. Len(b) /\ m + j = i /\ ~(i <= m)
      BY <1>1, <1>2, <1>4, <2>2
    <3>2. e[i] = b[j]
      BY <1>6, <1>7, <3>1
    <3> QED
      BY <1>4, <3>1, <3>2
  <2> QED
    BY <1>8, <2>1, <2>2
<1>9. ASSUME NEW j \in 1 .. l
      PROVE  e[z + j] = cells[j]
  <2>1. PICK i \in Nat : i = z + j /\ i - z = j
    OBVIOUS
  <2>2. i \in 1 .. Len(d) /\ i <= m /\ ~(i <= z) /\ i \in 1 .. z + l
    BY <1>1, <1>2, <2>1
  <2>3. e[i] = g[i]
    BY <1>6, <1>7, <2>2
  <2>4. g[i] = cells[i - z]
    BY <1>5, <2>2
  <2> QED
    BY <2>1, <2>3, <2>4
<1>10. Written(d, e, cells, z)
  BY <1>6, <1>7, <1>8, <1>9 DEF Written, Continues, m, l
<1> QED
  BY <1>6, <1>10 DEF e, g, f, b, m, l

\* What zlib puts into a ring buffer gets behind what is in it.
LEMMA RingOutput ==
  ASSUME NEW n \in Node, RingSound(n), NEW cells \in Seq(Cell), Len(cells) <= n.room
  PROVE  LET o == Output(n, cells)
         IN  /\ o \in Node /\ RingSound(o)
             /\ o = [n EXCEPT !.data = o.data, !.zpos = o.zpos, !.room = o.room]
             /\ Ring(o) = Ring(n) \o cells
<1> DEFINE size == BufferSize[n.kind]
           next == n.next
           zpos == n.zpos
           room == n.room
           d == n.data
           l == Len(cells)
           e == First(d, zpos) \o cells \o Behind(d, zpos + l)
           o == Output(n, cells)
<1>1. /\ size \in Nat /\ size >= 1 /\ next \in Nat /\ zpos \in Nat /\ room \in Nat
      /\ Len(d) = size /\ next < size /\ zpos <= size
      /\ \/ /\ next > zpos /\ zpos + room = next /\ Wrapped(n)
         \/ /\ next <= zpos /\ zpos + room = size /\ ~Wrapped(n)
         \/ /\ zpos = next /\ room = 0 /\ Wrapped(n)
  BY RingNumbers
<1>2. l \in Nat /\ l <= room /\ zpos + l <= size /\ zpos + l \in Nat /\ room - l \in Nat
  <2>1. l \in Nat
    BY LenProperties
  <2> HIDE DEF next, zpos, room, size, l
  <2>2. l <= room
    BY DEF l, room
  <2> QED
    BY <1>1, <2>1, <2>2
<1>3. d \in Seq(Cell)
  BY NodeFields
<1>4. e \in Seq(Cell) /\ Written(d, e, cells, zpos)
  <2> HIDE DEF d, zpos
  <2> QED
    BY <1>1, <1>2, <1>3, WriteFacts
<1>5. o = [n EXCEPT !.data = e, !.zpos = zpos + l, !.room = room - l]
  BY DEF Output
<1> HIDE DEF o, e
<1>6. /\ o \in Node /\ o.data = e /\ o.zpos = zpos + l /\ o.room = room - l /\ o.next = next
      /\ o.kind = n.kind /\ o.input = n.input /\ o.held = n.held
      /\ o = [n EXCEPT !.data = o.data, !.zpos = o.zpos, !.room = o.room]
  <2> HIDE DEF zpos, room, l
  <2> QED
    BY <1>2, <1>4, <1>5 DEF Node, next
<1>7. Len(e) = size
  BY <1>1, <1>4 DEF Written
<1>8. RingSound(o)
  <2>1. n.held \in Seq(Nat) /\ Len(n.input) <= InSize[n.kind]
    BY DEF RingSound
  <2>2. /\ next > zpos + l => zpos + l + (room - l) = next
        /\ next <= zpos + l => \/ zpos + l + (room - l) = size
                               \/ zpos + l = next /\ room - l = 0
    <3> HIDE DEF next, zpos, room, size, l
    <3> QED
      BY <1>1, <1>2
  <2> HIDE DEF next, zpos, room, l
  <2> QED
    BY <1>1, <1>2, <1>6, <1>7, <2>1, <2>2 DEF RingSound
<1> DEFINE r == Ring(o)
           s == Ring(n)
<1>9. /\ r \in Seq(Cell) /\ Len(r) = RingLen(o) /\ RingLen(o) \in Nat
      /\ \A i \in 1 .. RingLen(o) : r[i] = RingCell(o, i)
      /\ s \in Seq(Cell) /\ Len(s) = RingLen(n) /\ RingLen(n) \in Nat
      /\ \A i \in 1 .. RingLen(n) : s[i] = RingCell(n, i)
  BY <1>6, <1>8, RingFacts
<1>10. Wrapped(o) <=> Wrapped(n)
  <2>1. Wrapped(o) <=> next > zpos + l \/ (next = zpos + l /\ room - l = 0)
    BY <1>6 DEF Wrapped
  <2> HIDE DEF next, zpos, room, size, l
  <2> QED
    BY <1>1, <1>2, <2>1
<1>11. /\ RingLen(n) = IF Wrapped(n) THEN size - next + zpos ELSE zpos - next
       /\ RingLen(o) = RingLen(n) + l
  <2>1. RingLen(n) = IF Wrapped(n) THEN size - next + zpos ELSE zpos - next
    BY DEF RingLen
  <2>2. RingLen(o) = IF Wrapped(n) THEN size - next + (zpos + l) ELSE (zpos + l) - next
    <3>1. RingLen(o) = IF Wrapped(o) THEN size - next + (zpos + l) ELSE (zpos + l) - next
      BY <1>6 DEF RingLen
    <3> HIDE DEF next, zpos, size, l
    <3> QED
      BY <1>10, <3>1
  <2> HIDE DEF next, zpos, room, size, l
  <2> QED
    BY <1>1, <1>2, <2>1, <2>2
<1>12. \A i \in Int : /\ RingAt(o, i) = RingAt(n, i)
                      /\ RingAt(n, i) = IF next + i <= size THEN next + i ELSE next + i - size
  BY <1>6 DEF RingAt
<1>13. ASSUME NEW i \in 1 .. RingLen(n) PROVE RingCell(o, i) = RingCell(n, i)
  <2> DEFINE at == RingAt(n, i)
  <2>1. at \in 1 .. size /\ (at <= zpos \/ at > zpos + l)
    <3>1. at = IF next + i <= size THEN next + i ELSE next + i - size
      BY <1>12
    <3> HIDE DEF next, zpos, room, size, l, at
    <3> QED
      BY <1>1, <1>2, <1>9, <1>11, <3>1
  <2> HIDE DEF at
  <2>2. e[at] = d[at]
    BY <1>1, <1>4, <2>1 DEF Written, l
  <2> QED
    BY <1>6, <1>12, <2>2 DEF RingCell, at
<1>14. ASSUME NEW j \in 1 .. l PROVE RingCell(o, RingLen(n) + j) = cells[j]
  <2>1. RingAt(n, RingLen(n) + j) = zpos + j
    <3>1. PICK i \in Int : i = RingLen(n) + j
      BY <1>2, <1>9
    <3>2. RingAt(n, i) = IF next + i <= size THEN next + i ELSE next + i - size
      BY <1>12
    <3> HIDE DEF next, zpos, room, size, l
    <3>3. (IF next + i <= size THEN next + i ELSE next + i - size) = zpos + j
      BY <1>1, <1>2, <1>9, <1>11, <3>1
    <3> QED
      BY <3>1, <3>2, <3>3
  <2>2. e[zpos + j] = cells[j]
    BY <1>4 DEF Written, Continues, l
  <2>3. RingLen(n) + j \in Int
    BY <1>2, <1>9
  <2>4. RingAt(o, RingLen(n) + j) = zpos + j
    BY <1>12, <2>1, <2>3
  <2> QED
    BY <1>6, <2>2, <2>4 DEF RingCell
<1> HIDE DEF r, s, next, zpos, room, size, d
<1>15. Agree(r, s, Len(s))
  <2> SUFFICES ASSUME NEW i \in 1 .. RingLen(n) PROVE r[i] = s[i]
    BY <1>9 DEF Agree
  <2>1. i \in 1 .. RingLen(o)
    BY <1>2, <1>9, <1>11
  <2> QED
    BY <1>9, <1>13, <2>1
<1>16. Continues(r, cells, Len(s), Len(cells))
  <2> SUFFICES ASSUME NEW j \in 1 .. l PROVE r[RingLen(n) + j] = cells[j]
    BY <1>9 DEF Continues
  <2>1. RingLen(n) + j \in 1 .. RingLen(o)
    BY <1>2, <1>9, <1>11
  <2>2. r[RingLen(n) + j] = RingCell(o, RingLen(n) + j)
    BY <1>9, <2>1
  <2> QED
    BY <1>14, <2>2
<1>17. Len(r) = Len(s) + Len(cells)
  BY <1>9, <1>11
<1>18. r \in Seq(Cell) /\ s \in Seq(Cell) /\ cells \in Seq(Cell)
  BY <1>9
<1>19. r = s \o cells
  BY ONLY <1>15, <1>16, <1>17, <1>18, ConcatIs
<1> QED
  BY <1>6, <1>8, <1>19 DEF r, s, o

-----------------------------------------------------------------------------
(* Bytes and the cells that zlib makes of them.                            *)

\* Cells of one byte.
Singles(s) == [i \in 1..Len(s) |-> <<s[i]>>]

LEMMA FlattenSingles ==
  ASSUME NEW s \in Seq(Nat)
  PROVE  Singles(s) \in Seq(Cell) /\ Len(Singles(s)) = Len(s) /\ FlattenSeq(Singles(s)) = s
<1>1. ASSUME NEW r \in Seq(Nat)
      PROVE  Singles(r) \in Seq(Cell) /\ Len(Singles(r)) = Len(r)
  <2>1. Len(r) \in Nat /\ \A i \in 1 .. Len(r) : r[i] \in Nat
    BY LenProperties, ElementOfSeq
  <2>2. \A x \in Nat : <<x>> \in Cell
    BY DEF Cell
  <2>3. Singles(r) \in [1 .. Len(r) -> Cell]
    BY <2>1, <2>2 DEF Singles
  <2> HIDE DEF Cell
  <2> QED
    BY <2>1, <2>3, FunctionIsSeq
<1> DEFINE T == {r \in Seq(Nat) : FlattenSeq(Singles(r)) = r}
<1>2. <<>> \in T
  <2>1. <<>> \in Seq(Nat) /\ Len(<<>>) = 0
    BY EmptySeq
  <2>2. Singles(<<>>) = <<>>
    BY <1>1, <2>1, EmptySeq
  <2> QED
    BY <2>1, <2>2, FlattenEmpty
<1>3. ASSUME NEW r \in T, NEW x \in Nat
      PROVE  Append(r, x) \in T
  <2>1. PICK q : q = Append(r, x)
    OBVIOUS
  <2>2. r \in Seq(Nat) /\ FlattenSeq(Singles(r)) = r /\ Len(r) \in Nat
    BY LenProperties
  <2>3. /\ q \in Seq(Nat) /\ Len(q) = Len(r) + 1 /\ q[Len(r) + 1] = x
        /\ \A i \in 1 .. Len(r) : q[i] = r[i]
    BY <2>1, <2>2, AppendProperties
  <2>4. <<x>> \in Cell
    BY DEF Cell
  <2>5. Singles(q) = Append(Singles(r), <<x>>)
    <3> DEFINE a == Singles(q)
               b == Singles(r)
               e == Append(b, <<x>>)
    <3>1. a \in Seq(Cell) /\ Len(a) = Len(r) + 1 /\ b \in Seq(Cell) /\ Len(b) = Len(r)
      BY <1>1, <2>2, <2>3
    <3>2. /\ e \in Seq(Cell) /\ Len(e) = Len(r) + 1 /\ e[Len(r) + 1] = <<x>>
          /\ \A i \in 1 .. Len(r) : e[i] = b[i]
      <4> HIDE DEF b
      <4> QED
        BY <2>4, <3>1, AppendProperties
    <3>3. \A i \in 1 .. Len(r) + 1 : a[i] = <<q[i]>>
      BY <2>3 DEF Singles
    <3>4. \A i \in 1 .. Len(r) : b[i] = <<r[i]>>
      BY DEF Singles
    <3> HIDE DEF a, b, e
    <3>5. ASSUME NEW i \in 1 .. Len(a) PROVE a[i] = e[i]
      <4>1. CASE i = Len(r) + 1
        BY <2>3, <3>1, <3>2, <3>3, <4>1
      <4>2. CASE i # Len(r) + 1
        <5>1. i \in 1 .. Len(r) /\ i \in 1 .. Len(r) + 1
          BY <2>2, <3>1, <4>2
        <5> QED
          BY <2>3, <3>2, <3>3, <3>4, <5>1
      <4> QED
        BY <4>1, <4>2
    <3>6. a = e
      BY <3>1, <3>2, <3>5, SeqEqual
    <3> QED
      BY <3>6 DEF a, b, e
  <2>6. FlattenSeq(Append(Singles(r), <<x>>)) = r \o <<x>>
    <3>1. Singles(r) \in Seq(Seq(Nat)) /\ <<x>> \in Seq(Nat)
      BY <1>1, <2>2, <2>4 DEF Cell
    <3> QED
      BY <2>2, <3>1, FlattenStep
  <2>7. q = r \o <<x>>
    BY <2>1, <2>2, AppendIsConcat
  <2> QED
    BY <2>1, <2>3, <2>5, <2>6, <2>7
<1> HIDE DEF T
<1>4. T \in SUBSET Seq(Nat)
  BY DEF T
<1>5. s \in T
  BY ONLY <1>2, <1>3, <1>4, s \in Seq(Nat), AllSequences
<1> QED
  BY <1>1, <1>5 DEF T

\* Runs of bytes that grow along a sequence.
Growing(cuts) ==
  \A i \in 1 .. Len(cuts) : cuts[i] - (IF i = 1 THEN 0 ELSE cuts[i - 1]) \in 1 .. MaxRun

LEMMA CutsAreGrowing ==
  ASSUME NEW cuts \in AllCuts
  PROVE  cuts \in Seq(Nat) /\ Growing(cuts)
<1>1. PICK m \in 0 .. BufferSize.zip : cuts \in [1 .. m -> 1 .. m * MaxRun]
  BY DEF AllCuts
<1>2. m \in Nat /\ m * MaxRun \in Int
  BY <1>1, Sizes
<1>3. 1 .. m * MaxRun \subseteq Nat
  BY <1>2
<1>4. cuts \in [1 .. m -> Nat]
  BY <1>1, <1>3
<1>5. cuts \in Seq(Nat) /\ Len(cuts) = m
  BY <1>2, <1>4, FunctionIsSeq
<1>6. DOMAIN cuts = 1 .. Len(cuts)
  BY <1>4, <1>5
<1> QED
  BY <1>5, <1>6 DEF AllCuts, Growing

LEMMA EndFacts ==
  ASSUME NEW c \in Seq(Nat)
  PROVE  /\ End(c) \in Nat
         /\ \A x \in Nat : End(Append(c, x)) = x
         /\ c # <<>> => End(c) = c[Len(c)]
         /\ c = <<>> => End(c) = 0
<1>1. c # <<>> => Len(c) \in 1 .. Len(c) /\ c[Len(c)] \in Nat
  <2>1. Len(c) \in Nat /\ (c # <<>> => Len(c) # 0)
    BY LenProperties, EmptySeq
  <2>2. c # <<>> => Len(c) \in 1 .. Len(c)
    BY <2>1
  <2> QED
    BY <2>2, ElementOfSeq
<1>2. ASSUME NEW x \in Nat PROVE End(Append(c, x)) = x
  <2> DEFINE q == Append(c, x)
  <2>1. q # <<>> /\ Len(q) = Len(c) + 1 /\ q[Len(c) + 1] = x
    BY AppendProperties
  <2> HIDE DEF q
  <2> QED
    BY <2>1 DEF End, Last
<1> QED
  BY <1>1, <1>2 DEF End, Last

\* The cells of a run of bytes are, together, these bytes.
CellsAre(bytes, c) ==
  Growing(c) /\ End(c) <= Len(bytes) =>
    /\ Cells(bytes, c) \in Seq(Cell) /\ Len(Cells(bytes, c)) = Len(c)
    /\ FlattenSeq(Cells(bytes, c)) = First(bytes, End(c))

LEMMA CellsStep ==
  ASSUME NEW bytes \in Seq(Nat), NEW c \in Seq(Nat), CellsAre(bytes, c), NEW x \in Nat
  PROVE  CellsAre(bytes, Append(c, x))
<1> DEFINE q == Append(c, x)
           n == Len(c)
           e == End(c)
           piece == SubSeq(bytes, 1 + e, x)
           a == Cells(bytes, c)
           b == Cells(bytes, q)
<1>1. /\ q \in Seq(Nat) /\ Len(q) = n + 1 /\ q[n + 1] = x
      /\ \A i \in 1 .. n : q[i] = c[i]
      /\ n \in Nat
  BY AppendProperties, LenProperties
<1>2. /\ e \in Nat /\ End(q) = x
      /\ c # <<>> => e = c[n]
      /\ c = <<>> => e = 0
  BY EndFacts
<1> HIDE DEF q, e
<1> SUFFICES ASSUME Growing(q), x <= Len(bytes)
             PROVE  /\ b \in Seq(Cell) /\ Len(b) = n + 1
                    /\ FlattenSeq(b) = First(bytes, x)
  BY <1>1, <1>2 DEF CellsAre, q
<1>3. (IF n + 1 = 1 THEN 0 ELSE q[n + 1 - 1]) = e
  <2>1. CASE n = 0
    <3>1. c = <<>>
      BY <2>1, EmptySeq
    <3> QED
      BY <1>2, <2>1, <3>1
  <2>2. CASE n # 0
    <3>1. c # <<>> /\ n \in 1 .. n /\ n + 1 - 1 = n /\ n + 1 # 1
      BY <1>1, <2>2, EmptySeq
    <3> QED
      BY <1>1, <1>2, <3>1
  <2> QED
    BY <2>1, <2>2
<1>4. x - e \in 1 .. MaxRun
  <2>1. n + 1 \in 1 .. Len(q)
    BY <1>1
  <2>2. q[n + 1] - (IF n + 1 = 1 THEN 0 ELSE q[n + 1 - 1]) \in 1 .. MaxRun
    BY <2>1 DEF Growing
  <2> QED
    BY <1>1, <1>3, <2>2
<1>5. e < x
  BY <1>2, <1>4, Sizes
<1>6. \A i \in 1 .. n : (IF i = 1 THEN 0 ELSE q[i - 1]) = (IF i = 1 THEN 0 ELSE c[i - 1])
  <2> SUFFICES ASSUME NEW i \in 1 .. n, i # 1 PROVE q[i - 1] = c[i - 1]
    OBVIOUS
  <2>1. i - 1 \in 1 .. n
    BY <1>1
  <2> QED
    BY <1>1, <2>1
<1>7. Growing(c)
  <2> SUFFICES ASSUME NEW i \in 1 .. n
               PROVE  c[i] - (IF i = 1 THEN 0 ELSE c[i - 1]) \in 1 .. MaxRun
    BY DEF Growing
  <2>1. i \in 1 .. Len(q)
    BY <1>1
  <2>2. q[i] - (IF i = 1 THEN 0 ELSE q[i - 1]) \in 1 .. MaxRun
    BY <2>1 DEF Growing
  <2> QED
    BY <1>1, <1>6, <2>2
<1>8. Len(bytes) \in Nat
  BY LenProperties
<1>9. /\ a \in Seq(Cell) /\ Len(a) = n
      /\ FlattenSeq(a) = First(bytes, e)
  <2>1. e <= Len(bytes)
    BY <1>2, <1>5, <1>8
  <2> QED
    BY <1>7, <2>1 DEF CellsAre, e
<1>10. /\ piece \in Seq(Nat) /\ Len(piece) = x - e
       /\ \A i \in 1 .. x - e : piece[i] = bytes[e + i]
  <2> DEFINE m == 1 + e
  <2>1. \A i \in 1 .. Len(bytes) : bytes[i] \in Nat
    BY ElementOfSeq
  <2>2. m \in Int /\ x \in Int /\ \A i \in m .. x : bytes[i] \in Nat
    BY <1>2, <1>8, <2>1
  <2>3. m <= x /\ x - m + 1 = x - e /\ \A i \in 1 .. x - e : m + i - 1 = e + i
    BY <1>2, <1>5
  <2> HIDE DEF m
  <2>4. /\ SubSeq(bytes, m, x) \in Seq(Nat)
        /\ Len(SubSeq(bytes, m, x)) = IF m <= x THEN x - m + 1 ELSE 0
        /\ \A i \in 1 .. x - m + 1 : SubSeq(bytes, m, x)[i] = bytes[m + i - 1]
    BY <2>2, SubSeqProperties
  <2>5. piece = SubSeq(bytes, m, x)
    BY DEF m
  <2> HIDE DEF piece
  <2> QED
    BY <2>3, <2>4, <2>5
<1>11. \A i \in 1 .. n : b[i] = a[i]
  <2> SUFFICES ASSUME NEW i \in 1 .. n PROVE b[i] = a[i]
    OBVIOUS
  <2>1. DOMAIN q = 1 .. n + 1 /\ DOMAIN c = 1 .. n
    BY <1>1, LenProperties
  <2>2. i \in 1 .. n + 1
    BY <1>1
  <2>3. b[i] = SubSeq(bytes, 1 + (IF i = 1 THEN 0 ELSE q[i - 1]), q[i])
    BY <2>1, <2>2 DEF Cells
  <2>4. a[i] = SubSeq(bytes, 1 + (IF i = 1 THEN 0 ELSE c[i - 1]), c[i])
    BY <2>1 DEF Cells
  <2>5. (IF i = 1 THEN 0 ELSE q[i - 1]) = (IF i = 1 THEN 0 ELSE c[i - 1]) /\ q[i] = c[i]
    BY <1>1, <1>6
  <2> QED
    BY <2>3, <2>4, <2>5
<1>12. b[n + 1] = piece
  <2>1. PICK j : j = n + 1
    OBVIOUS
  <2>2. DOMAIN q = 1 .. n + 1 /\ j \in 1 .. n + 1
    BY <1>1, <2>1, LenProperties
  <2>3. b[j] = SubSeq(bytes, 1 + (IF j = 1 THEN 0 ELSE q[j - 1]), q[j])
    BY <2>2 DEF Cells
  <2>4. (IF j = 1 THEN 0 ELSE q[j - 1]) = e /\ q[j] = x
    BY <1>1, <1>3, <2>1
  <2> QED
    BY <2>1, <2>3, <2>4
<1> HIDE DEF a, piece
<1>13. b \in Seq(Cell) /\ Len(b) = n + 1
  <2>1. piece \in Cell
    BY <1>10 DEF Cell
  <2>2. \A i \in 1 .. n : a[i] \in Cell
    BY <1>9, ElementOfSeq
  <2>3. \A i \in 1 .. n + 1 : b[i] \in Cell
    <3> SUFFICES ASSUME NEW i \in 1 .. n + 1, i # n + 1 PROVE b[i] \in Cell
      BY <1>12, <2>1
    <3>1. i \in 1 .. n
      BY <1>1
    <3> QED
      BY <1>11, <2>2, <3>1
  <2>4. b = [i \in 1 .. n + 1 |-> b[i]]
    <3>1. DOMAIN q = 1 .. n + 1
      BY <1>1, LenProperties
    <3> QED
      BY <3>1 DEF Cells
  <2> HIDE DEF b
  <2>5. b \in [1 .. n + 1 -> Cell]
    BY <2>3, <2>4
  <2>6. n + 1 \in Nat
    BY <1>1
  <2> QED
    BY ONLY <2>5, <2>6, FunctionIsSeq
<1> HIDE DEF b, n
<1>14. b = Append(a, piece)
  <2> DEFINE z == Append(a, piece)
  <2>1. piece \in Cell
    BY <1>10 DEF Cell
  <2>2. /\ z \in Seq(Cell) /\ Len(z) = n + 1 /\ z[n + 1] = piece
        /\ \A i \in 1 .. n : z[i] = a[i]
    BY <1>9, <2>1, AppendProperties
  <2> HIDE DEF z
  <2>3. ASSUME NEW i \in 1 .. Len(b) PROVE b[i] = z[i]
    <3>1. CASE i = n + 1
      BY <1>12, <2>2, <3>1
    <3>2. CASE i # n + 1
      <4>1. i \in 1 .. n
        BY <1>1, <1>13, <3>2
      <4> QED
        BY <1>11, <2>2, <4>1
    <3> QED
      BY <3>1, <3>2
  <2>4. b \in Seq(Cell) /\ z \in Seq(Cell) /\ Len(b) = Len(z) /\ \A i \in 1 .. Len(b) : b[i] = z[i]
    BY <1>13, <2>2, <2>3
  <2>5. b = z
    BY ONLY <2>4, SeqEqual
  <2> QED
    BY <2>5 DEF z
<1>15. FlattenSeq(b) = First(bytes, e) \o piece
  <2>1. a \in Seq(Seq(Nat))
    BY <1>9 DEF Cell
  <2> QED
    BY <1>9, <1>10, <1>14, <2>1, FlattenStep
<1>16. First(bytes, x) = First(bytes, e) \o piece
  <2> DEFINE r == First(bytes, x)
             s == First(bytes, e)
  <2>1. /\ r \in Seq(Nat) /\ Len(r) = x /\ \A i \in 1 .. x : r[i] = bytes[i]
        /\ s \in Seq(Nat) /\ Len(s) = e /\ \A i \in 1 .. e : s[i] = bytes[i]
    BY <1>2, <1>5, <1>8, FirstFacts
  <2> HIDE DEF r, s
  <2>2. Agree(r, s, Len(s))
    <3>1. \A i \in 1 .. e : i \in 1 .. x
      BY <1>2, <1>5
    <3> QED
      BY <2>1, <3>1 DEF Agree
  <2>3. Continues(r, piece, Len(s), Len(piece))
    <3> SUFFICES ASSUME NEW i \in 1 .. x - e PROVE r[e + i] = piece[i]
      BY <1>10, <2>1 DEF Continues
    <3>1. e + i \in 1 .. x
      BY <1>2
    <3> QED
      BY <1>10, <2>1, <3>1
  <2>4. Len(r) = Len(s) + Len(piece)
    BY <1>2, <1>10, <2>1
  <2>5. r \in Seq(Nat) /\ s \in Seq(Nat) /\ piece \in Seq(Nat)
    BY <1>10, <2>1
  <2>6. r = s \o piece
    BY ONLY <2>2, <2>3, <2>4, <2>5, ConcatIs
  <2> QED
    BY <2>6 DEF r, s
<1> QED
  BY <1>13, <1>15, <1>16

LEMMA CellsFacts ==
  ASSUME NEW bytes \in Seq(Nat), NEW cuts \in AllCuts, End(cuts) <= Len(bytes)
  PROVE  /\ Cells(bytes, cuts) \in Seq(Cell)
         /\ Len(Cells(bytes, cuts)) = Len(cuts)
         /\ FlattenSeq(Cells(bytes, cuts)) = First(bytes, End(cuts))
         /\ End(cuts) \in Nat /\ Len(cuts) \in Nat
<1> DEFINE T == {c \in Seq(Nat) : CellsAre(bytes, c)}
<1>1. <<>> \in T
  <2>1. <<>> \in Seq(Nat) /\ <<>> \in Seq(Cell) /\ Len(<<>>) = 0 /\ End(<<>>) = 0
    BY EmptySeq, EndFacts
  <2>2. Cells(bytes, <<>>) = <<>>
    BY DEF Cells
  <2>3. First(bytes, 0) = <<>>
    <3>1. Len(First(bytes, 0)) = 0 /\ First(bytes, 0) \in Seq(Nat)
      BY FirstFacts, LenProperties
    <3> QED
      BY <3>1, EmptySeq
  <2> QED
    BY <2>1, <2>2, <2>3, FlattenEmpty DEF CellsAre
<1>2. \A c \in T, x \in Nat : Append(c, x) \in T
  BY CellsStep, AppendProperties
<1> HIDE DEF T
<1>3. T \in SUBSET Seq(Nat)
  BY DEF T
<1>4. cuts \in Seq(Nat) /\ Growing(cuts)
  BY CutsAreGrowing
<1>5. cuts \in T
  BY ONLY <1>1, <1>2, <1>3, <1>4, AllSequences
<1> QED
  BY <1>4, <1>5, EndFacts, LenProperties DEF T, CellsAre

-----------------------------------------------------------------------------
(* What the operations of a converter do with the bytes in it.             *)

LEMMA BehindSplit ==
  ASSUME NEW S, NEW s \in Seq(S), NEW p \in Seq(S), NEW n \in Nat, NEW m \in Nat,
         m = n + Len(p), m <= Len(s), Continues(s, p, n, Len(p))
  PROVE  Behind(s, n) = p \o Behind(s, m)
<1> DEFINE a == Behind(s, n)
           b == Behind(s, m)
<1>1. Len(s) \in Nat /\ Len(p) \in Nat
  BY LenProperties
<1>2. /\ a \in Seq(S) /\ Len(a) = Len(s) - n /\ \A i \in 1 .. Len(a) : a[i] = s[n + i]
      /\ b \in Seq(S) /\ Len(b) = Len(s) - m /\ \A i \in 1 .. Len(b) : b[i] = s[m + i]
  BY <1>1, BehindFacts, SMTT(40)
<1> HIDE DEF a, b
<1>3. Agree(a, p, Len(p))
  <2> SUFFICES ASSUME NEW i \in 1 .. Len(p) PROVE a[i] = p[i]
    BY DEF Agree
  <2>1. i \in 1 .. Len(a)
    BY <1>1, <1>2
  <2> QED
    BY <1>2, <2>1 DEF Continues
<1>4. Continues(a, b, Len(p), Len(b))
  <2> SUFFICES ASSUME NEW i \in 1 .. Len(b) PROVE a[Len(p) + i] = b[i]
    BY DEF Continues
  <2>1. PICK j \in Nat : j = Len(p) + i
    BY <1>1, <1>2
  <2>2. j \in 1 .. Len(a) /\ n + j = m + i
    BY <1>1, <1>2, <2>1, SMTT(40)
  <2> QED
    BY <1>2, <2>1, <2>2
<1>5. Len(a) = Len(p) + Len(b)
  BY <1>1, <1>2
<1>6. a = p \o b
  BY ONLY <1>2, <1>3, <1>4, <1>5, p \in Seq(S), ConcatIs
<1> QED
  BY <1>6 DEF a, b

LEMMA BehindAll ==
  ASSUME NEW S, NEW s \in Seq(S)
  PROVE  Behind(s, 0) = s /\ Behind(s, Len(s)) = <<>>
<1>1. Len(s) \in Nat /\ 0 \in Nat
  BY LenProperties
<1>2. Behind(s, Len(s)) = <<>>
  <2>1. Len(Behind(s, Len(s))) = 0 /\ Behind(s, Len(s)) \in Seq(S)
    BY <1>1, BehindFacts
  <2> QED
    BY <2>1, EmptySeq
<1>3. Behind(s, 0) = s
  <2> DEFINE b == Behind(s, 0)
  <2>1. b \in Seq(S) /\ Len(b) = Len(s) /\ \A i \in 1 .. Len(b) : b[i] = s[0 + i]
    BY <1>1, BehindFacts
  <2> HIDE DEF b
  <2>2. \A i \in 1 .. Len(b) : b[i] = s[i]
    BY <2>1
  <2>3. b = s
    BY ONLY <2>1, <2>2, s \in Seq(S), SeqEqual
  <2> QED
    BY <2>3 DEF b
<1> QED
  BY <1>2, <1>3

\* The bytes in a converter, kind by kind.
LEMMA InNodeIs ==
  ASSUME NEW n
  PROVE  /\ n.kind = "filein" => InNode(n) = FlattenSeq(Unread(n))
         /\ n.kind = "dummy" => InNode(n) = FlattenSeq(Behind(n.data, n.next))
         /\ n.kind \in {"zip", "unzip"} =>
              InNode(n) = FlattenSeq(Ring(n) \o <<n.held>> \o n.input)
         /\ n.kind = "fileout" => InNode(n) = FlattenSeq(n.data)
BY DEF InNode, Unread

LEMMA HasDataIs ==
  ASSUME NEW n, n.lost = FALSE
  PROVE  /\ n.kind \in {"filein", "dummy"} => HasData(n) = Len(n.data) - n.next
         /\ n.kind = "zip" => HasData(n) = ZipHasData(n)
         /\ n.kind = "unzip" => HasData(n) = UnzipHasData(n)
         /\ n.kind = "md5" => HasData(n) = Md5HasData(n)
         /\ n.kind = "fileout" => HasData(n) = 0
BY DEF HasData, FileInHasData, DummyHasData

\* The bytes in a converter of zlib.
LEMMA RingBytes ==
  ASSUME NEW n \in Node, RingSound(n), n.kind \in {"zip", "unzip"}
  PROVE  /\ FlattenSeq(Ring(n)) \in Seq(Nat) /\ n.held \in Seq(Nat)
         /\ FlattenSeq(n.input) \in Seq(Nat)
         /\ InNode(n) = (FlattenSeq(Ring(n)) \o n.held) \o FlattenSeq(n.input)
<1>1. Ring(n) \in Seq(Cell) /\ n.input \in Seq(Cell) /\ n.held \in Seq(Nat)
  BY RingFacts, NodeFields DEF RingSound
<1>2. <<n.held>> \in Seq(Cell) /\ FlattenSeq(<<n.held>>) = n.held
  BY <1>1, FlattenOne DEF Cell
<1>3. Ring(n) \o <<n.held>> \in Seq(Cell)
  BY <1>1, <1>2, ConcatProperties
<1>4. FlattenSeq(Ring(n) \o <<n.held>>) = FlattenSeq(Ring(n)) \o n.held
  BY <1>1, <1>2, FlattenConcat DEF Cell
<1>5. FlattenSeq((Ring(n) \o <<n.held>>) \o n.input)
        = FlattenSeq(Ring(n) \o <<n.held>>) \o FlattenSeq(n.input)
  BY <1>1, <1>3, FlattenConcat DEF Cell
<1>6. InNode(n) = FlattenSeq((Ring(n) \o <<n.held>>) \o n.input)
  BY InNodeIs
<1>7. FlattenSeq(Ring(n)) \in Seq(Nat) /\ FlattenSeq(n.input) \in Seq(Nat)
  BY <1>1, FlattenStep DEF Cell
<1> QED
  BY <1>1, <1>4, <1>5, <1>6, <1>7

LEMMA InNodeType ==
  ASSUME NEW n, Sound(n), n.kind # "md5"
  PROVE  InNode(n) \in Seq(Nat)
<1>1. n \in Node
  BY DEF Sound
<1>2. n.data \in Seq(Cell) /\ n.next \in Nat /\ n.kind \in Kinds
  BY <1>1, NodeFields
<1>3. Behind(n.data, n.next) \in Seq(Cell)
  BY <1>2, BehindFacts
<1>4. CASE n.kind = "filein"
  <2>1. n.held \in Seq(Cell)
    BY <1>4 DEF Sound, FileInSound
  <2>2. Unread(n) \in Seq(Cell)
    BY <1>3, <2>1, ConcatProperties DEF Unread
  <2> QED
    BY <1>4, <2>2, InNodeIs, FlattenStep DEF Cell
<1>5. CASE n.kind = "dummy"
  BY <1>3, <1>5, InNodeIs, FlattenStep DEF Cell
<1>6. CASE n.kind \in {"zip", "unzip"}
  <2>1. RingSound(n)
    BY <1>6 DEF Sound
  <2>2. /\ FlattenSeq(Ring(n)) \in Seq(Nat) /\ n.held \in Seq(Nat) /\ FlattenSeq(n.input) \in Seq(Nat)
        /\ InNode(n) = (FlattenSeq(Ring(n)) \o n.held) \o FlattenSeq(n.input)
    BY <1>1, <1>6, <2>1, RingBytes
  <2> QED
    BY <2>2, ConcatProperties
<1>7. CASE n.kind = "fileout"
  BY <1>2, <1>7, InNodeIs, FlattenStep DEF Cell
<1> QED
  BY <1>2, <1>4, <1>5, <1>6, <1>7 DEF Kinds

\* Converters with the same buffers.
SameBuffers(n, m) ==
  /\ m.kind = n.kind /\ m.data = n.data /\ m.next = n.next /\ m.zpos = n.zpos
  /\ m.room = n.room /\ m.input = n.input /\ m.held = n.held

LEMMA SameBytes ==
  ASSUME NEW n, NEW m, SameBuffers(n, m)
  PROVE  /\ InNode(m) = InNode(n) /\ Unread(m) = Unread(n) /\ Ring(m) = Ring(n)
         /\ RingSound(m) <=> RingSound(n)
         /\ FileInSound(n) /\ m.eof = n.eof => FileInSound(m)
         /\ DummySound(m) <=> DummySound(n)
<1>1. Ring(m) = Ring(n) /\ Unread(m) = Unread(n)
  BY DEF SameBuffers, Ring, Wrapped, Unread
<1>2. InNode(m) = InNode(n)
  BY <1>1 DEF SameBuffers, InNode, Unread
<1> QED
  BY <1>1, <1>2 DEF SameBuffers, RingSound, FileInSound, DummySound

\* What a converter has ready.
Out(n) == IF n.kind \in {"zip", "unzip"} THEN Ring(n) ELSE Behind(n.data, n.next)

\* A converter gives k cells.
Like(n, m) == m.kind = n.kind /\ m.eof = n.eof /\ m.over = n.over
Gives(n, got, k) ==
  /\ Sound(got.node) /\ Like(n, got.node)
  /\ got.data \in Seq(Cell) /\ Len(got.data) = k
  /\ InNode(n) = FlattenSeq(got.data) \o InNode(got.node)
  /\ n.kind = "filein" => Unread(n) = got.data \o Unread(got.node)
  /\ n.kind # "filein" => Out(n) = got.data \o Out(got.node)
  /\ n.kind = "unzip" => /\ got.node.input = n.input /\ got.node.held = n.held
                         /\ got.node.room = 0 => got.node.next # got.node.zpos

\* What GetData counts.
Counted(g) == Get([g.node EXCEPT !.received = g.node.received + Len(g.data)], g.data)

LEMMA CountedIs ==
  ASSUME NEW q \in Node, NEW e \in Seq(Cell)
  PROVE  LET m == Counted(Get(q, e)).node
         IN  /\ m \in Node /\ SameBuffers(q, m) /\ m.lost = q.lost /\ Like(q, m)
             /\ m.received = q.received + Len(e)
             /\ Counted(Get(q, e)).data = e
<1>1. PICK r : r = q.received + Len(e)
  OBVIOUS
<1>2. Counted(Get(q, e)) = Get([q EXCEPT !.received = r], e)
  BY <1>1 DEF Counted, Get
<1>3. r \in Nat
  BY <1>1, NodeFields, LenProperties
<1>4. PICK m : m = [q EXCEPT !.received = r]
  OBVIOUS
<1>5. m \in Node
  BY <1>3, <1>4 DEF Node
<1>6. /\ m.kind = q.kind /\ m.data = q.data /\ m.next = q.next /\ m.zpos = q.zpos
      /\ m.room = q.room /\ m.input = q.input /\ m.held = q.held
      /\ m.eof = q.eof /\ m.over = q.over /\ m.lost = q.lost /\ m.received = r
  BY <1>4 DEF Node
<1>7. Counted(Get(q, e)).node = m /\ Counted(Get(q, e)).data = e
  BY <1>2, <1>4 DEF Get
<1> QED
  BY <1>1, <1>5, <1>6, <1>7 DEF SameBuffers, Like

LEMMA GetDataIs ==
  ASSUME NEW n, n.lost = FALSE, NEW k
  PROVE  /\ n.kind = "filein" => GetData(n, k) = Counted(FileInGetData(n, k))
         /\ n.kind = "dummy" => GetData(n, k) = Counted(DummyGetData(n, k))
         /\ n.kind = "zip" => GetData(n, k) = Counted(ZipGetData(n, k))
         /\ n.kind = "unzip" => GetData(n, k) = Counted(UnzipGetData(n, k))
         /\ n.kind = "md5" => GetData(n, k) = Counted(Md5GetData(n, k))
BY DEF GetData, Counted

LEMMA NextOnly ==
  ASSUME NEW n \in Node, NEW x \in Nat, NEW q, q = [n EXCEPT !.next = x]
  PROVE  /\ q \in Node /\ q.kind = n.kind /\ q.data = n.data /\ q.next = x
         /\ q.held = n.held /\ q.lost = n.lost /\ q.received = n.received
         /\ Like(n, q) /\ q.input = n.input /\ q.zpos = n.zpos /\ q.room = n.room
BY DEF Node, Like

LEMMA PieceFacts ==
  ASSUME NEW S, NEW s \in Seq(S), NEW n \in Nat, NEW k \in Nat, n + k <= Len(s)
  PROVE  LET p == SubSeq(s, n + 1, n + k)
         IN  p \in Seq(S) /\ Len(p) = k /\ Continues(s, p, n, k)
<1> DEFINE a == n + 1
           b == n + k
           p == SubSeq(s, a, b)
<1>1. Len(s) \in Nat /\ \A i \in 1 .. Len(s) : s[i] \in S
  BY LenProperties, ElementOfSeq
<1>2. a \in Int /\ b \in Int /\ \A i \in a .. b : s[i] \in S
  BY <1>1
<1>3. b - a + 1 = k /\ (a <= b <=> k # 0) /\ \A i \in 1 .. k : a + i - 1 = n + i
  OBVIOUS
<1> HIDE DEF a, b
<1>4. /\ p \in Seq(S)
      /\ Len(p) = IF a <= b THEN b - a + 1 ELSE 0
      /\ \A i \in 1 .. b - a + 1 : p[i] = s[a + i - 1]
  BY <1>2, SubSeqProperties
<1> HIDE DEF p
<1>5. p \in Seq(S) /\ Len(p) = k /\ Continues(s, p, n, k)
  BY <1>3, <1>4 DEF Continues
<1> QED
  BY <1>5 DEF p, a, b

LEMMA BufferGives ==
  ASSUME NEW n, Sound(n), n.kind \in {"filein", "dummy"}, NEW k \in Nat, k >= 1, k <= HasData(n)
  PROVE  Gives(n, GetData(n, k), k)
<1> DEFINE d == n.data
           next == n.next
           got == GetData(n, k)
           p == got.data
           m == got.node
<1>1. /\ n \in Node /\ d \in Seq(Cell) /\ next \in Nat /\ Len(d) \in Nat /\ n.lost = FALSE
      /\ n.received \in Nat
  BY NodeFields DEF Sound
<1>2. next + k <= Len(d)
  <2>1. HasData(n) = Len(d) - next
    BY <1>1, HasDataIs
  <2> QED
    BY <1>1, <2>1
<1> DEFINE q == [n EXCEPT !.next = next + k]
<1>3. /\ p \in Seq(Cell) /\ Len(p) = k /\ Continues(d, p, next, k)
      /\ got = Counted(Get(q, p))
  <2>0. q \in Node
    <3>1. next + k \in Nat
      BY <1>1
    <3> HIDE DEF next
    <3> QED
      BY <1>1, <3>1, NextOnly
  <2>1. CASE n.kind = "filein"
    <3>1. Least({k, BufferSize.filein - next}) = k
      <4>1. Len(d) <= BufferSize.filein /\ BufferSize.filein \in Nat
        BY <2>1, Sizes DEF Sound, FileInSound, Kinds
      <4> HIDE DEF d, next
      <4>2. BufferSize.filein - next \in Int /\ k <= BufferSize.filein - next
        BY <1>1, <1>2, <4>1
      <4> QED
        BY <4>2, LeastOfTwo
    <3> DEFINE e == [i \in 1..k |-> IF next + i <= Len(d) THEN d[next + i] ELSE <<0>>]
    <3>2. FileInGetData(n, k) = Get(q, e)
      BY <3>1 DEF FileInGetData
    <3>3. \A i \in 1 .. k : next + i <= Len(d) /\ next + i \in 1 .. Len(d)
      BY <1>1, <1>2
    <3>4. \A i \in 1 .. k : e[i] = d[next + i] /\ e[i] \in Cell
      <4>1. \A i \in 1 .. Len(d) : d[i] \in Cell
        BY <1>1, ElementOfSeq
      <4> QED
        BY <3>3, <4>1
    <3>5. e \in [1 .. k -> Cell]
      BY <3>4
    <3>6. e \in Seq(Cell) /\ Len(e) = k
      <4> HIDE DEF e
      <4> QED
        BY <3>5, FunctionIsSeq
    <3> HIDE DEF e, q
    <3>7. got = Counted(Get(q, e))
      BY <1>1, <2>1, <3>2, GetDataIs
    <3>8. p = e
      BY <2>0, <3>6, <3>7, CountedIs
    <3> HIDE DEF p, got
    <3> QED
      BY <3>4, <3>6, <3>7, <3>8 DEF Continues
  <2>2. CASE n.kind = "dummy"
    <3>1. Least({k, DummyHasData(n)}) = k
      <4>1. DummyHasData(n) \in Int /\ k <= DummyHasData(n)
        BY <1>1, <1>2 DEF DummyHasData
      <4> QED
        BY <4>1, LeastOfTwo
    <3> DEFINE e == SubSeq(d, next + 1, next + k)
    <3>2. DummyGetData(n, k) = Get(q, e)
      BY <3>1 DEF DummyGetData
    <3>3. e \in Seq(Cell) /\ Len(e) = k /\ Continues(d, e, next, k)
      <4> HIDE DEF d, next
      <4> QED
        BY <1>1, <1>2, PieceFacts
    <3> HIDE DEF e, q
    <3>4. got = Counted(Get(q, e))
      BY <1>1, <2>2, <3>2, GetDataIs
    <3>5. p = e
      BY <2>0, <3>3, <3>4, CountedIs
    <3> HIDE DEF p, got
    <3> QED
      BY <3>3, <3>4, <3>5
  <2> QED
    BY <2>1, <2>2
<1> HIDE DEF got
<1>4. /\ m \in Node /\ m.data = d /\ m.next = next + k /\ m.held = n.held /\ m.lost = FALSE
      /\ Like(n, m)
  <2>1. next + k \in Nat
    BY <1>1
  <2>2. /\ q \in Node /\ q.kind = n.kind /\ q.data = d /\ q.next = next + k
        /\ q.held = n.held /\ q.lost = n.lost /\ Like(n, q)
    <3> HIDE DEF next
    <3> QED
      BY <1>1, <2>1, NextOnly
  <2> HIDE DEF q, p
  <2>3. m \in Node /\ SameBuffers(q, m) /\ m.lost = q.lost /\ Like(q, m)
    BY <1>3, <2>2, CountedIs
  <2> HIDE DEF m, next, d
  <2> QED
    BY <1>1, <2>2, <2>3 DEF SameBuffers, Like
<1> HIDE DEF p, m, q
<1>5. Behind(d, next) = p \o Behind(d, next + k)
  <2> DEFINE e == next + k
  <2>1. e \in Nat /\ e = next + Len(p) /\ e <= Len(d) /\ Continues(d, p, next, Len(p))
    BY <1>1, <1>2, <1>3
  <2> HIDE DEF d, next, e
  <2>2. Behind(d, next) = p \o Behind(d, e)
    BY <1>1, <1>3, <2>1, BehindSplit, ZenonT(60)
  <2> QED
    BY <2>2 DEF e
<1>6. Behind(d, next + k) \in Seq(Cell) /\ Behind(d, next) \in Seq(Cell)
  BY <1>1, BehindFacts
<1>7. Sound(m)
  <2>1. n.kind = "filein" => FileInSound(m)
    BY <1>1, <1>2, <1>4 DEF Sound, FileInSound, Like
  <2>2. n.kind = "dummy" => DummySound(m)
    BY <1>1, <1>2, <1>4 DEF Sound, DummySound
  <2>3. OverSound(m)
    BY <1>4 DEF Sound, OverSound, Like
  <2> QED
    BY <1>4, <2>1, <2>2, <2>3 DEF Sound, Like
<1>8. n.kind = "filein" =>
        Unread(n) = p \o Unread(m) /\ InNode(n) = FlattenSeq(p) \o InNode(m)
  <2> SUFFICES ASSUME n.kind = "filein"
               PROVE  Unread(n) = p \o Unread(m) /\ InNode(n) = FlattenSeq(p) \o InNode(m)
    OBVIOUS
  <2>1. n.held \in Seq(Cell)
    BY DEF Sound, FileInSound
  <2> DEFINE b == Behind(d, next + k)
  <2>2. Unread(n) = (p \o b) \o n.held /\ Unread(m) = b \o n.held
    BY <1>4, <1>5 DEF Unread
  <2>3. b \in Seq(Cell)
    BY <1>6
  <2> HIDE DEF b
  <2>4. Unread(n) = p \o Unread(m) /\ Unread(m) \in Seq(Cell)
    <3> DEFINE h == n.held
    <3>1. p \in Seq(Cell) /\ b \in Seq(Cell) /\ h \in Seq(Cell)
      BY <1>3, <2>1, <2>3
    <3> HIDE DEF h
    <3>2. (p \o b) \o h = p \o (b \o h) /\ b \o h \in Seq(Cell)
      <4>1. Assoc(p, b, h)
        BY ONLY <3>1, Associative
      <4>2. b \o h \in Seq(Cell)
        BY ONLY <3>1, ConcatProperties
      <4> QED
        BY ONLY <4>1, <4>2 DEF Assoc
    <3> QED
      BY <2>2, <3>2 DEF h
  <2>5. FlattenSeq(Unread(n)) = FlattenSeq(p) \o FlattenSeq(Unread(m))
    BY <1>3, <2>4, FlattenConcat DEF Cell
  <2> QED
    BY <1>4, <2>4, <2>5, InNodeIs DEF Like
<1>9. n.kind = "dummy" => InNode(n) = FlattenSeq(p) \o InNode(m)
  <2> SUFFICES ASSUME n.kind = "dummy" PROVE InNode(n) = FlattenSeq(p) \o InNode(m)
    OBVIOUS
  <2>1. FlattenSeq(p \o Behind(d, next + k)) = FlattenSeq(p) \o FlattenSeq(Behind(d, next + k))
    BY <1>3, <1>6, FlattenConcat DEF Cell
  <2> QED
    BY <1>4, <1>5, <2>1, InNodeIs DEF Like
<1>10. Gives(n, got, k)
  <2>1. n.kind = "dummy" => Out(n) = p \o Out(m)
    BY <1>4, <1>5 DEF Out, Like
  <2> QED
    BY <1>3, <1>4, <1>7, <1>8, <1>9, <2>1 DEF Gives, p, m
<1> QED
  BY <1>10 DEF got

LEMMA RingGives ==
  ASSUME NEW n, Sound(n), n.kind \in {"zip", "unzip"}, NEW k \in Nat, k >= 1, k <= HasData(n)
  PROVE  Gives(n, GetData(n, k), k)
<1> DEFINE got == GetData(n, k)
           e == SubSeq(n.data, n.next + 1, n.next + k)
           q == RingTaken(n, k)
           m == got.node
<1>1. n \in Node /\ RingSound(n) /\ n.lost = FALSE
  BY DEF Sound
<1>2. /\ n.next \in Nat /\ n.zpos \in Nat /\ n.received \in Nat
      /\ BufferSize[n.kind] \in Nat
      /\ n.kind = "zip" => BufferSize.zip = BufferSize[n.kind]
      /\ n.kind = "unzip" => BufferSize.unzip = BufferSize[n.kind]
  BY <1>1, NodeFields, Sizes
<1>3. /\ n.kind = "zip" => ZipHasData(n) = HasData(n) /\ HasData(n) \in Int
      /\ n.kind = "unzip" => UnzipHasData(n) = HasData(n) /\ HasData(n) \in Int
  <2>1. ZipHasData(n) \in Int
    BY <1>2, Sizes DEF ZipHasData, Kinds
  <2>2. UnzipHasData(n) \in Int
    BY <1>2, Sizes DEF UnzipHasData, Kinds
  <2> QED
    BY <1>1, <2>1, <2>2, HasDataIs
<1>4. IF Wrapped(n) THEN n.next + k <= BufferSize[n.kind] ELSE n.next + k <= n.zpos
  <2>1. CASE n.kind = "zip"
    <3>1. HasData(n) = IF Wrapped(n) THEN BufferSize[n.kind] - n.next ELSE n.zpos - n.next
      BY <1>2, <1>3, <2>1 DEF ZipHasData
    <3> QED
      BY <1>2, <3>1
  <2>2. CASE n.kind = "unzip"
    <3>1. HasData(n) = IF n.next > n.zpos THEN BufferSize[n.kind] - n.next ELSE n.zpos - n.next
      BY <1>2, <1>3, <2>2 DEF UnzipHasData
    <3>2. Wrapped(n) <=> n.next > n.zpos
      <4>1. n.next = n.zpos => HasData(n) = 0
        BY <1>2, <3>1
      <4> QED
        BY <1>2, <4>1 DEF Wrapped
    <3> QED
      BY <1>2, <3>1, <3>2
  <2> QED
    BY <2>1, <2>2
<1>5. /\ q \in Node /\ RingSound(q)
      /\ q = [n EXCEPT !.next = q.next, !.zpos = q.zpos, !.room = q.room]
      /\ e \in Seq(Cell) /\ Len(e) = k
      /\ Ring(n) = e \o Ring(q)
  BY <1>1, <1>4, RingTake
<1>6. Least({k, HasData(n)}) = k
  BY <1>3, LeastOfTwo
<1>0. q.room = 0 => q.next # q.zpos
  <2>1. BufferSize[n.kind] >= 1
    BY <1>1, RingNumbers
  <2> QED
    BY <1>1, <1>2, <2>1 DEF RingTaken, Node
<1>7. got = Counted(Get(q, e))
  <2>1. CASE n.kind = "zip"
    <3>1. Least({k, ZipHasData(n)}) = k /\ k > 0
      BY <1>3, <1>6, <2>1
    <3>2. ZipGetData(n, k) = Get(q, e)
      BY <3>1 DEF ZipGetData
    <3> HIDE DEF q, e
    <3> QED
      BY <1>1, <2>1, <3>2, GetDataIs
  <2>2. CASE n.kind = "unzip"
    <3>1. Least({k, UnzipHasData(n)}) = k /\ k > 0
      BY <1>3, <1>6, <2>2
    <3>2. UnzipGetData(n, k) = Get(q, e)
      BY <3>1 DEF UnzipGetData
    <3> HIDE DEF q, e
    <3> QED
      BY <1>1, <2>2, <3>2, GetDataIs
  <2> QED
    BY <2>1, <2>2
<1> HIDE DEF got, e, q
<1>8. /\ q.kind = n.kind /\ q.eof = n.eof /\ q.over = n.over /\ q.lost = n.lost
      /\ q.received = n.received /\ q.held = n.held /\ q.input = n.input
  BY <1>1, <1>5 DEF Node
<1>9. m \in Node /\ SameBuffers(q, m) /\ m.lost = q.lost /\ Like(q, m) /\ got.data = e
  BY <1>5, <1>7, CountedIs
<1> HIDE DEF m
<1>10. /\ m \in Node /\ SameBuffers(q, m) /\ m.lost = FALSE
       /\ Like(n, m) /\ m.held = n.held /\ m.input = n.input
  BY <1>1, <1>8, <1>9 DEF SameBuffers, Like
<1>11. RingSound(m) /\ Ring(m) = Ring(q)
  BY <1>5, <1>10, SameBytes
<1>12. Sound(m)
  <2>1. OverSound(m)
    BY <1>10 DEF Sound, OverSound, Like
  <2> QED
    BY <1>10, <1>11, <2>1 DEF Sound, Like
<1>13. InNode(n) = FlattenSeq(e) \o InNode(m)
  <2> DEFINE fe == FlattenSeq(e)
             fm == FlattenSeq(Ring(m))
             inp == FlattenSeq(n.input)
  <2>1. /\ fm \in Seq(Nat) /\ n.held \in Seq(Nat) /\ inp \in Seq(Nat)
        /\ InNode(m) = (fm \o n.held) \o inp
    BY <1>10, <1>11, RingBytes DEF Like
  <2>2. InNode(n) = (FlattenSeq(Ring(n)) \o n.held) \o inp
    BY <1>1, RingBytes
  <2>3. FlattenSeq(Ring(n)) = fe \o fm /\ fe \in Seq(Nat)
    <3>1. Ring(m) \in Seq(Cell)
      BY <1>10, <1>11, RingFacts
    <3> QED
      BY <1>5, <1>11, <3>1, FlattenConcat, FlattenStep, SMTT(40) DEF Cell
  <2> DEFINE h == n.held
  <2>8. h \in Seq(Nat)
    BY <2>1
  <2> HIDE DEF fe, fm, inp, h
  <2>9. fe \in Seq(Nat) /\ fm \in Seq(Nat) /\ inp \in Seq(Nat)
    BY <2>1, <2>3
  <2> DEFINE Same(s1, s2, s3, s4) ==
        ((s1 \o s2) \o s3) \o s4 = s1 \o ((s2 \o s3) \o s4)
  <2>10. \A s1, s2, s3, s4 \in Seq(Nat) : Same(s1, s2, s3, s4)
    BY ONLY Regroup
  <2> HIDE DEF Same
  <2>11. Same(fe, fm, h, inp)
    BY ONLY <2>8, <2>9, <2>10
  <2>4. ((fe \o fm) \o h) \o inp = fe \o ((fm \o h) \o inp)
    BY ONLY <2>11 DEF Same
  <2>7. InNode(n) = fe \o InNode(m)
    BY <2>1, <2>2, <2>3, <2>4 DEF h
  <2> QED
    BY <2>7 DEF fe
<1>14. Gives(n, got, k)
  <2>1. Out(n) = e \o Out(m)
    BY <1>5, <1>10, <1>11 DEF Out, Like
  <2>2. m.room = 0 => m.next # m.zpos
    BY <1>0, <1>10 DEF SameBuffers
  <2> QED
    BY <1>5, <1>9, <1>10, <1>12, <1>13, <2>1, <2>2 DEF Gives, m
<1> QED
  BY <1>14 DEF got

LEMMA FirstAll ==
  ASSUME NEW S, NEW s \in Seq(S), NEW n \in Nat, Len(s) <= n
  PROVE  First(s, n) = s
<1> DEFINE f == First(s, n)
<1>1. Len(s) \in Nat
  BY LenProperties
<1>2. f \in Seq(S) /\ Len(f) = Len(s) /\ \A i \in 1 .. Len(f) : f[i] = s[i]
  BY <1>1, FirstFacts
<1> HIDE DEF f
<1>3. f = s
  BY ONLY <1>2, s \in Seq(S), SeqEqual
<1> QED
  BY <1>3 DEF f

LEMMA EmptyFacts ==
  ASSUME NEW S, NEW s \in Seq(S)
  PROVE  /\ Len(s) \in Nat /\ s \o <<>> = s /\ <<>> \o s = s
         /\ s = <<>> <=> Len(s) = 0
BY LenProperties, EmptySeq, ConcatEmptySeq

\* A converter takes cells.
Takes(n, m, cells) ==
  /\ Sound(m) /\ Like(n, m)
  /\ InNode(m) = InNode(n) \o FlattenSeq(cells)
  /\ n.kind = "fileout" => m.data = n.data \o cells /\ m.received = n.received + Len(cells)
  /\ n.kind = "unzip" => HasData(m) = HasData(n)
  /\ n.kind = "dummy" => Out(m) = cells
  /\ n.kind \in {"zip", "unzip"} =>
       /\ Ring(m) = Ring(n) /\ n.input = <<>> /\ m.input = cells /\ m.held = n.held
       /\ m.next = n.next /\ m.zpos = n.zpos /\ m.room = n.room

LEMMA SetDataIs ==
  ASSUME NEW n, n.eof = FALSE, NEW cells, cells # <<>>
  PROVE  /\ n.kind = "dummy" => SetData(n, cells) = DummySetData(n, cells)
         /\ n.kind = "zip" => SetData(n, cells) = ZipSetData(n, cells)
         /\ n.kind = "unzip" => SetData(n, cells) = UnzipSetData(n, cells)
         /\ n.kind = "fileout" => SetData(n, cells) = FileOutSetData(n, cells)
         /\ n.kind = "md5" => SetData(n, cells) = Md5SetData(n, cells)
BY DEF SetData

LEMMA NeedsDataIs ==
  ASSUME NEW n, n.eof = FALSE
  PROVE  /\ n.kind = "dummy" => NeedsData(n) = DummyNeedsData(n)
         /\ n.kind = "zip" => NeedsData(n) = ZipNeedsData(n)
         /\ n.kind = "unzip" => NeedsData(n) = UnzipNeedsData(n)
         /\ n.kind = "fileout" => NeedsData(n) = BufferSize.fileout
         /\ n.kind = "md5" => NeedsData(n) = BufferSize.md5
BY DEF NeedsData, FileOutNeedsData, Md5NeedsData

LEMMA DummyTakes ==
  ASSUME NEW n, Sound(n), n.kind = "dummy", n.eof = FALSE,
         NEW cells \in Seq(Cell), cells # <<>>, Len(cells) <= NeedsData(n)
  PROVE  /\ SetData(n, cells).taken = Len(cells)
         /\ Takes(n, SetData(n, cells).node, cells)
<1> DEFINE m == [n EXCEPT !.data = cells, !.next = 0]
<1>1. Len(cells) \in Nat /\ Len(cells) >= 1 /\ BufferSize.dummy \in Nat
  BY EmptyFacts, Sizes DEF Kinds
<1>2. /\ n \in Node /\ n.data \in Seq(Cell) /\ n.next \in Nat /\ Len(n.data) \in Nat
      /\ n.lost = FALSE /\ n.next <= Len(n.data)
  BY NodeFields DEF Sound, DummySound
<1>3. n.next = Len(n.data) /\ Len(cells) <= BufferSize.dummy
  <2>1. NeedsData(n) = IF n.next < Len(n.data) THEN 0 ELSE BufferSize.dummy
    BY NeedsDataIs DEF DummyNeedsData
  <2> QED
    BY <1>1, <1>2, <2>1
<1>4. First(cells, BufferSize.dummy) = cells /\ Least({Len(cells), BufferSize.dummy}) = Len(cells)
  BY <1>1, <1>3, FirstAll, LeastOfTwo
<1>5. SetData(n, cells) = Set(m, Len(cells))
  <2>1. SetData(n, cells) = DummySetData(n, cells)
    BY SetDataIs
  <2>2. ~(n.next < Len(n.data))
    BY <1>2, <1>3
  <2> QED
    BY <1>4, <2>1, <2>2 DEF DummySetData
<1>6. SetData(n, cells).node = m /\ SetData(n, cells).taken = Len(cells)
  BY <1>5 DEF Set
<1>7. /\ m \in Node /\ m.kind = n.kind /\ m.data = cells /\ m.next = 0 /\ m.lost = FALSE
      /\ Like(n, m)
  BY <1>2 DEF Node, Like
<1> HIDE DEF m
<1>8. Sound(m)
  <2>1. DummySound(m)
    BY <1>1, <1>3, <1>7, Sizes DEF DummySound
  <2>2. OverSound(m)
    BY <1>7 DEF Sound, OverSound, Like
  <2> QED
    BY <1>7, <2>1, <2>2 DEF Sound
<1>9. InNode(m) = InNode(n) \o FlattenSeq(cells)
  <2>1. InNode(n) = FlattenSeq(Behind(n.data, n.next))
    BY InNodeIs
  <2>2. Behind(n.data, n.next) = <<>>
    BY <1>2, <1>3, BehindAll
  <2>3. InNode(n) = <<>>
    BY <2>1, <2>2, FlattenEmpty
  <2>4. InNode(m) = FlattenSeq(Behind(cells, 0))
    BY <1>7, InNodeIs
  <2>5. Behind(cells, 0) = cells
    BY BehindAll
  <2>6. FlattenSeq(cells) \in Seq(Nat)
    BY FlattenStep DEF Cell
  <2> QED
    BY <2>3, <2>4, <2>5, <2>6, EmptyFacts
<1>10. Out(m) = cells
  BY <1>7, BehindAll DEF Out
<1> QED
  BY <1>6, <1>7, <1>8, <1>9, <1>10 DEF Takes

LEMMA ZlibTakes ==
  ASSUME NEW n, Sound(n), n.kind \in {"zip", "unzip"}, n.eof = FALSE,
         NEW cells \in Seq(Cell), cells # <<>>, Len(cells) <= NeedsData(n)
  PROVE  /\ SetData(n, cells).taken = Len(cells)
         /\ Takes(n, SetData(n, cells).node, cells)
<1> DEFINE m == [n EXCEPT !.input = cells]
           size == InSize[n.kind]
<1>1. /\ Len(cells) \in Nat /\ Len(cells) >= 1 /\ size \in Nat
      /\ n.kind = "zip" => size = InSize.zip
      /\ n.kind = "unzip" => size = InSize.unzip
  BY EmptyFacts, Sizes
<1>2. n \in Node /\ n.input \in Seq(Cell) /\ n.lost = FALSE /\ RingSound(n)
  BY NodeFields DEF Sound
<1>3. n.input = <<>> /\ Len(cells) <= size
  <2>1. NeedsData(n) = IF n.input = <<>> THEN size ELSE 0
    <3> HIDE DEF size
    <3> QED
      BY <1>1, NeedsDataIs DEF ZipNeedsData, UnzipNeedsData
  <2> QED
    BY <1>1, <2>1
<1> HIDE DEF size
<1>4. First(cells, size) = cells /\ Least({Len(cells), size}) = Len(cells)
  BY <1>1, <1>3, FirstAll, LeastOfTwo
<1>5. SetData(n, cells) = Set(m, Len(cells))
  <2>1. CASE n.kind = "zip"
    <3>1. SetData(n, cells) = ZipSetData(n, cells)
      BY <2>1, SetDataIs
    <3> QED
      BY <1>1, <1>3, <1>4, <2>1, <3>1 DEF ZipSetData
  <2>2. CASE n.kind = "unzip"
    <3>1. SetData(n, cells) = UnzipSetData(n, cells)
      BY <2>2, SetDataIs
    <3> QED
      BY <1>1, <1>4, <2>2, <3>1 DEF UnzipSetData
  <2> QED
    BY <2>1, <2>2
<1>6. SetData(n, cells).node = m /\ SetData(n, cells).taken = Len(cells)
  BY <1>5 DEF Set
<1>7. /\ m \in Node /\ m.kind = n.kind /\ m.data = n.data /\ m.next = n.next
      /\ m.zpos = n.zpos /\ m.room = n.room /\ m.held = n.held /\ m.input = cells
      /\ m.lost = FALSE /\ Like(n, m)
  BY <1>2 DEF Node, Like
<1> HIDE DEF m
<1>8. Ring(m) = Ring(n)
  BY <1>7 DEF Ring, Wrapped
<1>9. RingSound(m)
  BY <1>2, <1>3, <1>7 DEF RingSound, size
<1>10. Sound(m)
  <2>1. OverSound(m)
    BY <1>7 DEF Sound, OverSound, Like
  <2> QED
    BY <1>7, <1>9, <2>1 DEF Sound
<1>11. InNode(m) = InNode(n) \o FlattenSeq(cells)
  <2> DEFINE r == FlattenSeq(Ring(n)) \o n.held
  <2>1. r \in Seq(Nat) /\ InNode(n) = r \o FlattenSeq(n.input)
    BY <1>2, RingBytes, ConcatProperties
  <2>2. InNode(m) = r \o FlattenSeq(cells)
    BY <1>7, <1>8, <1>9, RingBytes
  <2> HIDE DEF r
  <2>3. InNode(n) = r
    BY <1>3, <2>1, FlattenEmpty, EmptyFacts
  <2> QED
    BY <2>2, <2>3
<1>12. n.kind = "unzip" => HasData(m) = HasData(n)
  BY <1>2, <1>7, HasDataIs DEF UnzipHasData
<1> QED
  BY <1>3, <1>6, <1>7, <1>8, <1>10, <1>11, <1>12 DEF Takes

LEMMA FileOutTakes ==
  ASSUME NEW n, Sound(n), n.kind = "fileout", n.eof = FALSE,
         NEW cells \in Seq(Cell), cells # <<>>, SetData(n, cells).taken = Len(cells)
  PROVE  Takes(n, SetData(n, cells).node, cells)
<1> DEFINE m == [n EXCEPT !.data = n.data \o cells, !.received = n.received + Len(cells)]
<1>1. Len(cells) \in Nat
  BY EmptyFacts
<1>2. n \in Node /\ n.data \in Seq(Cell) /\ n.received \in Nat /\ n.lost = FALSE
  BY NodeFields DEF Sound
<1>3. SetData(n, cells).node = m
  <2>1. SetData(n, cells) = FileOutSetData(n, cells)
    BY SetDataIs
  <2>2. CASE Space(n) < Len(cells)
    <3>1. SetData(n, cells).taken = -1
      BY <2>1, <2>2 DEF FileOutSetData, Set, Failed
    <3> QED
      BY <1>1, <3>1
  <2>3. CASE ~(Space(n) < Len(cells))
    BY <2>1, <2>3 DEF FileOutSetData, Set
  <2> QED
    BY <2>2, <2>3
<1>4. n.data \o cells \in Seq(Cell) /\ n.received + Len(cells) \in Nat
  BY <1>1, <1>2, ConcatProperties
<1>5. /\ m \in Node /\ m.kind = n.kind /\ m.data = n.data \o cells
      /\ m.received = n.received + Len(cells) /\ m.lost = FALSE /\ Like(n, m)
  <2>1. PICK d \in Seq(Cell), r \in Nat : d = n.data \o cells /\ r = n.received + Len(cells)
    BY <1>4
  <2>2. m = [n EXCEPT !.data = d, !.received = r]
    BY <2>1
  <2> HIDE DEF m
  <2>3. m \in Node /\ m.kind = n.kind /\ m.data = d /\ m.received = r /\ m.lost = FALSE /\ Like(n, m)
    BY <1>2, <2>2 DEF Node, Like
  <2> QED
    BY <2>1, <2>3
<1> HIDE DEF m
<1>6. Sound(m)
  <2>1. OverSound(m)
    BY <1>5 DEF Sound, OverSound, Like
  <2> QED
    BY <1>5, <2>1 DEF Sound
<1>7. InNode(m) = InNode(n) \o FlattenSeq(cells)
  <2>1. InNode(n) = FlattenSeq(n.data) /\ InNode(m) = FlattenSeq(n.data \o cells)
    BY <1>5, InNodeIs
  <2> QED
    BY <1>2, <2>1, FlattenConcat DEF Cell
<1> QED
  BY <1>3, <1>5, <1>6, <1>7 DEF Takes

LEMMA Md5Takes ==
  ASSUME NEW n \in Node, n.kind = "md5", n.eof = FALSE,
         NEW cells \in Seq(Cell), cells # <<>>
  PROVE  LET m == SetData(n, cells).node
         IN  /\ SetData(n, cells).taken = Len(cells)
             /\ m \in Node /\ Like(n, m) /\ m.data = n.data \o cells /\ m.next = n.next
             /\ m.lost = n.lost /\ m.held = n.held
<1>1. n.data \in Seq(Cell)
  BY NodeFields
<1>2. PICK d \in Seq(Cell) : d = n.data \o cells
  BY <1>1, ConcatProperties
<1>3. PICK m : m = [n EXCEPT !.data = d]
  OBVIOUS
<1>4. SetData(n, cells) = Set(m, Len(cells))
  BY <1>2, <1>3, SetDataIs DEF Md5SetData
<1>5. /\ m \in Node /\ m.kind = n.kind /\ m.data = d /\ m.next = n.next /\ m.lost = n.lost
      /\ m.held = n.held /\ m.eof = n.eof /\ m.over = n.over
  BY <1>3 DEF Node
<1> QED
  BY <1>2, <1>4, <1>5 DEF Set, Like

\* The end of the data is told.
Ended(n, m) ==
  /\ m \in Node /\ SameBuffers(n, m) /\ m.lost = n.lost /\ m.over = n.over
  /\ m.received = n.received
  /\ IF n.kind = "filein" THEN m.eof = n.eof ELSE m.eof = TRUE

LEMMA EndIsTold ==
  ASSUME NEW n \in Node
  PROVE  /\ SetData(n, <<>>).taken = 0
         /\ Ended(n, SetData(n, <<>>).node)
<1>1. n.eof \in BOOLEAN
  BY NodeFields
<1>2. CASE n.eof \/ n.kind = "filein"
  <2>1. SetData(n, <<>>) = Set(n, 0)
    BY <1>2 DEF SetData
  <2> QED
    BY <1>1, <1>2, <2>1 DEF Set, Ended, SameBuffers
<1>3. CASE ~(n.eof \/ n.kind = "filein")
  <2>1. PICK m : m = [n EXCEPT !.eof = TRUE]
    OBVIOUS
  <2>2. SetData(n, <<>>) = Set(m, 0)
    BY <1>3, <2>1 DEF SetData, EndOfData
  <2>3. /\ m \in Node /\ SameBuffers(n, m) /\ m.lost = n.lost /\ m.over = n.over
        /\ m.received = n.received /\ m.eof = TRUE
    BY <2>1 DEF Node, SameBuffers
  <2> QED
    BY <1>3, <2>2, <2>3 DEF Set, Ended
<1> QED
  BY <1>2, <1>3

LEMMA EndedIsSound ==
  ASSUME NEW n, NEW m, Sound(n), Ended(n, m)
  PROVE  /\ Sound(m) /\ InNode(m) = InNode(n) /\ Unread(m) = Unread(n) /\ m.kind = n.kind
         /\ n.kind # "md5" => HasData(m) = HasData(n)
<1>1. /\ InNode(m) = InNode(n) /\ Unread(m) = Unread(n) /\ Ring(m) = Ring(n)
      /\ RingSound(m) <=> RingSound(n)
      /\ FileInSound(n) /\ m.eof = n.eof => FileInSound(m)
      /\ DummySound(m) <=> DummySound(n)
  BY SameBytes DEF Ended
<1>2. Sound(m)
  BY <1>1 DEF Sound, Ended, OverSound, SameBuffers
<1>3. n.kind # "md5" => HasData(m) = HasData(n)
  BY DEF Sound, Ended, SameBuffers, HasData, FileInHasData, DummyHasData, ZipHasData,
         UnzipHasData, Wrapped, Node, Kinds
<1> QED
  BY <1>1, <1>2, <1>3 DEF Ended, SameBuffers

-----------------------------------------------------------------------------
(* The work of the converters.                                             *)

LEMMA LeastIsMember ==
  ASSUME NEW T \in SUBSET Nat, T # {}
  PROVE  Least(T) \in T
<1>1. PICK m \in T : \A y \in T : m <= y
  BY LeastNatural
<1> QED
  BY <1>1 DEF Least

\* zlib moves bytes from the input into the output buffer, or keeps them.
Moved(n, m) ==
  /\ m \in Node /\ RingSound(m) /\ InNode(m) = InNode(n)
  /\ Like(n, m) /\ m.lost = n.lost

\* cells is what it gives, h what it keeps and i what it does not take.
Splits(n, cells, h, i) ==
  /\ cells \in Seq(Cell) /\ Len(cells) <= n.room /\ h \in Seq(Nat)
  /\ i \in Seq(Cell) /\ Len(i) <= Len(n.input)
  /\ (FlattenSeq(cells) \o h) \o FlattenSeq(i) = n.held \o FlattenSeq(n.input)

After(n, cells, h, i) == [Output(n, cells) EXCEPT !.held = h, !.input = i]

LEMMA ZlibMoves ==
  ASSUME NEW n \in Node, RingSound(n),
         NEW cells, NEW h, NEW i, Splits(n, cells, h, i),
         n.kind \in {"zip", "unzip"}
  PROVE  LET m == After(n, cells, h, i)
         IN  Moved(n, m) /\ m.held = h /\ m.input = i
<1> DEFINE o == Output(n, cells)
           m == After(n, cells, h, i)
<1>0. /\ cells \in Seq(Cell) /\ Len(cells) <= n.room /\ h \in Seq(Nat)
      /\ i \in Seq(Cell) /\ Len(i) <= Len(n.input)
      /\ (FlattenSeq(cells) \o h) \o FlattenSeq(i) = n.held \o FlattenSeq(n.input)
  BY DEF Splits
<1>1. /\ o \in Node /\ RingSound(o)
      /\ o = [n EXCEPT !.data = o.data, !.zpos = o.zpos, !.room = o.room]
      /\ Ring(o) = Ring(n) \o cells
  BY <1>0, RingOutput
<1> HIDE DEF o
<1>2. /\ o.kind = n.kind /\ o.eof = n.eof /\ o.over = n.over /\ o.lost = n.lost
      /\ o.input = n.input
  BY <1>1 DEF Node
<1>3. /\ m \in Node /\ m.kind = o.kind /\ m.data = o.data /\ m.next = o.next /\ m.zpos = o.zpos
      /\ m.room = o.room /\ m.held = h /\ m.input = i /\ m.eof = o.eof /\ m.over = o.over
      /\ m.lost = o.lost
  BY <1>0, <1>1 DEF Node, o, After
<1> HIDE DEF m
<1>4. Ring(m) = Ring(o)
  BY <1>3 DEF Ring, Wrapped
<1>5. Len(i) \in Nat /\ Len(n.input) \in Nat /\ Len(n.input) <= InSize[n.kind]
      /\ InSize[n.kind] \in Nat
  BY <1>0, NodeFields, LenProperties, Sizes DEF RingSound
<1>6. Len(i) <= InSize[n.kind]
  BY <1>0, <1>5
<1>7. RingSound(m)
  BY <1>0, <1>1, <1>2, <1>3, <1>6 DEF RingSound
<1>8. InNode(m) = InNode(n)
  <2> DEFINE fr == FlattenSeq(Ring(n))
             fc == FlattenSeq(cells)
             fi == FlattenSeq(i)
             fn == FlattenSeq(n.input)
             g == n.held
  <2>1. /\ fr \in Seq(Nat) /\ g \in Seq(Nat) /\ fn \in Seq(Nat)
        /\ InNode(n) = (fr \o g) \o fn
    BY RingBytes
  <2>2. fc \in Seq(Nat) /\ fi \in Seq(Nat) /\ h \in Seq(Nat)
    BY <1>0, FlattenStep DEF Cell
  <2>3. FlattenSeq(Ring(m)) = fr \o fc
    <3>1. PICK s \in Seq(Seq(Nat)) : s = Ring(n)
      BY RingFacts DEF Cell
    <3>2. cells \in Seq(Seq(Nat))
      BY <1>0 DEF Cell
    <3>3. FlattenSeq(s \o cells) = FlattenSeq(s) \o FlattenSeq(cells)
      BY ONLY <3>2, s \in Seq(Seq(Nat)), FlattenConcat
    <3> QED
      BY <1>1, <1>4, <3>1, <3>3
  <2>4. InNode(m) = (FlattenSeq(Ring(m)) \o h) \o fi
    BY <1>2, <1>3, <1>7, RingBytes
  <2>5. (fc \o h) \o fi = g \o fn
    BY <1>0
  <2> HIDE DEF fr, fc, fi, fn, g
  <2>6. ((fr \o fc) \o h) \o fi = fr \o ((fc \o h) \o fi)
    <3>1. PICK x \in Seq(Nat) : x = fc \o h
      BY <2>2, ConcatProperties
    <3>2. (fr \o fc) \o h = fr \o (fc \o h)
      <4>1. Assoc(fr, fc, h)
        BY ONLY <2>1, <2>2, Associative
      <4> QED
        BY ONLY <4>1 DEF Assoc
    <3>3. (fr \o x) \o fi = fr \o (x \o fi)
      <4>1. Assoc(fr, x, fi)
        BY ONLY <2>1, <2>2, x \in Seq(Nat), Associative
      <4> QED
        BY ONLY <4>1 DEF Assoc
    <3> QED
      BY <3>1, <3>2, <3>3
  <2>7. (fr \o g) \o fn = fr \o (g \o fn)
    <3>1. Assoc(fr, g, fn)
      BY ONLY <2>1, Associative
    <3> QED
      BY ONLY <3>1 DEF Assoc
  <2> QED
    BY <2>1, <2>3, <2>4, <2>5, <2>6, <2>7
<1> QED
  BY <1>2, <1>3, <1>7, <1>8 DEF Moved, Like, m

\* What deflate holds and what it gives are the bytes it was given.
LEMMA BytesOfInput ==
  ASSUME NEW n \in Node, RingSound(n), n.kind \in {"zip", "unzip"}, NEW k \in 0..Len(n.input)
  PROVE  LET bytes == n.held \o FlattenSeq(First(n.input, k))
         IN  /\ bytes \in Seq(Nat)
             /\ Behind(n.input, k) \in Seq(Cell) /\ Len(Behind(n.input, k)) = Len(n.input) - k
             /\ bytes \o FlattenSeq(Behind(n.input, k)) = n.held \o FlattenSeq(n.input)
<1> DEFINE f == First(n.input, k)
           b == Behind(n.input, k)
           g == n.held
<1>1. n.input \in Seq(Cell) /\ Len(n.input) \in Nat /\ g \in Seq(Nat) /\ k \in Nat
  BY NodeFields DEF RingSound
<1>2. f \in Seq(Cell) /\ b \in Seq(Cell) /\ f \o b = n.input /\ Len(b) = Len(n.input) - k
  <2>1. f \in Seq(Cell) /\ f \o b = n.input
    BY <1>1, FirstFacts, FirstAndBehind
  <2>2. b \in Seq(Cell) /\ Len(b) = IF k <= Len(n.input) THEN Len(n.input) - k ELSE 0
    BY <1>1, BehindFacts
  <2> QED
    BY <1>1, <2>1, <2>2
<1> HIDE DEF f, b, g
<1>3. /\ FlattenSeq(f) \in Seq(Nat) /\ FlattenSeq(b) \in Seq(Nat)
      /\ FlattenSeq(n.input) = FlattenSeq(f) \o FlattenSeq(b)
  <2>1. f \in Seq(Seq(Nat)) /\ b \in Seq(Seq(Nat))
    BY <1>2 DEF Cell
  <2> QED
    BY <1>2, <2>1, FlattenStep, FlattenConcat
<1>4. (g \o FlattenSeq(f)) \o FlattenSeq(b) = g \o (FlattenSeq(f) \o FlattenSeq(b))
  <2>1. Assoc(g, FlattenSeq(f), FlattenSeq(b))
    BY ONLY <1>1, <1>3, Associative
  <2> QED
    BY ONLY <2>1 DEF Assoc
<1>5. g \o FlattenSeq(f) \in Seq(Nat)
  BY <1>1, <1>3, ConcatProperties
<1> QED
  BY <1>2, <1>3, <1>4, <1>5 DEF f, b, g

\* The cells that zlib cuts from the bytes, and the bytes behind them.
LEMMA CutFacts ==
  ASSUME NEW bytes \in Seq(Nat), NEW room, NEW cuts \in Cuts(Len(bytes), room)
  PROVE  /\ Cells(bytes, cuts) \in Seq(Cell) /\ Len(Cells(bytes, cuts)) = Len(cuts)
         /\ Len(cuts) \in Nat /\ Len(cuts) <= room
         /\ FlattenSeq(Cells(bytes, cuts)) = First(bytes, End(cuts))
         /\ Behind(bytes, End(cuts)) \in Seq(Nat)
         /\ FlattenSeq(Cells(bytes, cuts)) \o Behind(bytes, End(cuts)) = bytes
<1>1. cuts \in AllCuts /\ End(cuts) <= Len(bytes) /\ Len(cuts) <= room
  BY DEF Cuts
<1>2. /\ Cells(bytes, cuts) \in Seq(Cell) /\ Len(Cells(bytes, cuts)) = Len(cuts)
      /\ Len(cuts) \in Nat /\ End(cuts) \in Nat
      /\ FlattenSeq(Cells(bytes, cuts)) = First(bytes, End(cuts))
  BY <1>1, CellsFacts
<1>3. /\ First(bytes, End(cuts)) \o Behind(bytes, End(cuts)) = bytes
      /\ Behind(bytes, End(cuts)) \in Seq(Nat)
  BY <1>2, FirstAndBehind, BehindFacts
<1> QED
  BY <1>1, <1>2, <1>3

LEMMA DeflatedMoves ==
  ASSUME NEW n \in Node, RingSound(n), n.kind = "zip", NEW w \in Deflated(n)
  PROVE  w.rv = "ok" /\ Moved(n, w.node)
<1> DEFINE Bytes(k) == n.held \o FlattenSeq(First(n.input, k))
<1>0. PICK k \in 0..Len(n.input) : \E cuts \in Cuts(Len(Bytes(k)), n.room) :
        w = [node |-> [Output(n, Cells(Bytes(k), cuts))
                         EXCEPT !.held = Behind(Bytes(k), End(cuts)),
                                !.input = Behind(Output(n, Cells(Bytes(k), cuts)).input, k)],
             rv   |-> "ok"]
  BY DEF Deflated
<1>1. PICK cuts \in Cuts(Len(Bytes(k)), n.room) :
        w = [node |-> [Output(n, Cells(Bytes(k), cuts))
                         EXCEPT !.held = Behind(Bytes(k), End(cuts)),
                                !.input = Behind(Output(n, Cells(Bytes(k), cuts)).input, k)],
             rv   |-> "ok"]
  BY <1>0
<1> DEFINE bytes == Bytes(k)
           cells == Cells(bytes, cuts)
           h == Behind(bytes, End(cuts))
           i == Behind(n.input, k)
           m == w.node
<1>2. /\ bytes \in Seq(Nat) /\ i \in Seq(Cell) /\ Len(i) = Len(n.input) - k
      /\ bytes \o FlattenSeq(i) = n.held \o FlattenSeq(n.input)
  BY BytesOfInput
<1>3. cuts \in Cuts(Len(bytes), n.room)
  OBVIOUS
<1>4. w.rv = "ok" /\ m = [Output(n, cells) EXCEPT !.held = h, !.input = Behind(Output(n, cells).input, k)]
  BY <1>1
<1> HIDE DEF bytes, m, i
<1>5. /\ cells \in Seq(Cell) /\ Len(cells) <= n.room /\ h \in Seq(Nat)
      /\ FlattenSeq(cells) \o h = bytes
  BY <1>2, <1>3, CutFacts
<1> HIDE DEF cells, h
<1>6. Output(n, cells).input = n.input
  <2>1. /\ Output(n, cells) \in Node
        /\ Output(n, cells) = [n EXCEPT !.data = Output(n, cells).data,
                                        !.zpos = Output(n, cells).zpos,
                                        !.room = Output(n, cells).room]
    BY <1>5, RingOutput
  <2> QED
    BY <2>1 DEF Node
<1>7. m = After(n, cells, h, i)
  BY <1>4, <1>6 DEF i, After
<1>8. Len(i) <= Len(n.input)
  BY <1>2, NodeFields
<1>9. (FlattenSeq(cells) \o h) \o FlattenSeq(i) = n.held \o FlattenSeq(n.input)
  BY <1>2, <1>5
<1>10. Moved(n, m)
  <2>1. Splits(n, cells, h, i)
    BY <1>2, <1>5, <1>8, <1>9 DEF Splits
  <2> QED
    BY <1>7, <2>1, ZlibMoves
<1> QED
  BY <1>4, <1>10 DEF m

\* The input stays as it is.
LEMMA InputStays ==
  ASSUME NEW n \in Node, RingSound(n), NEW cells \in Seq(Cell), Len(cells) <= n.room, NEW h
  PROVE  [Output(n, cells) EXCEPT !.held = h] = After(n, cells, h, n.input)
<1> DEFINE o == Output(n, cells)
<1>1. o \in Node /\ o = [n EXCEPT !.data = o.data, !.zpos = o.zpos, !.room = o.room]
  BY RingOutput
<1> HIDE DEF o
<1>2. o.input = n.input
  BY <1>1 DEF Node
<1>3. [o EXCEPT !.held = h] = [o EXCEPT !.held = h, !.input = n.input]
  BY <1>1, <1>2 DEF Node
<1> QED
  BY <1>3 DEF After, o

LEMMA FinishedMoves ==
  ASSUME NEW n \in Node, RingSound(n), n.kind = "zip", n.input = <<>>, NEW w \in Finished(n)
  PROVE  /\ Moved(n, w.node)
         /\ w.rv \in {"ok", "eof"}
         /\ w.rv = "eof" => w.node.held = <<>> /\ w.node.input = <<>>
<1> DEFINE Done(cuts) ==
             [node |-> IF Len(cuts) < n.room
                       THEN [Output(n, Cells(n.held, cuts) \o << <<>> >>) EXCEPT !.held = <<>>]
                       ELSE [Output(n, Cells(n.held, cuts))
                               EXCEPT !.held = Behind(n.held, End(cuts))],
              rv   |-> IF Len(cuts) < n.room THEN "eof" ELSE "ok"]
<1>0. \E cuts \in Cuts(Len(n.held), n.room) :
        /\ End(cuts) = Len(n.held) \/ Len(cuts) = n.room
        /\ w = Done(cuts)
  <2>1. Finished(n) = {Done(cuts) : cuts \in {l \in Cuts(Len(n.held), n.room) :
                                                End(l) = Len(n.held) \/ Len(l) = n.room}}
    BY DEF Finished
  <2> HIDE DEF Done
  <2> QED
    BY <2>1
<1> HIDE DEF Done
<1>7. PICK cuts \in Cuts(Len(n.held), n.room) :
        /\ End(cuts) = Len(n.held) \/ Len(cuts) = n.room
        /\ w = Done(cuts)
  BY <1>0
<1>1. /\ End(cuts) = Len(n.held) \/ Len(cuts) = n.room
      /\ w.node = IF Len(cuts) < n.room
                  THEN [Output(n, Cells(n.held, cuts) \o << <<>> >>) EXCEPT !.held = <<>>]
                  ELSE [Output(n, Cells(n.held, cuts)) EXCEPT !.held = Behind(n.held, End(cuts))]
      /\ w.rv = IF Len(cuts) < n.room THEN "eof" ELSE "ok"
  BY <1>7 DEF Done
<1>2. n.held \in Seq(Nat) /\ n.room \in Nat /\ Len(n.held) \in Nat
  BY NodeFields, LenProperties DEF RingSound
<1> DEFINE cells == Cells(n.held, cuts)
           h == Behind(n.held, End(cuts))
           bytes == n.held
<1>3. /\ cells \in Seq(Cell) /\ Len(cells) = Len(cuts) /\ Len(cuts) \in Nat /\ Len(cuts) <= n.room
      /\ FlattenSeq(cells) = First(bytes, End(cuts))
      /\ h \in Seq(Nat) /\ FlattenSeq(cells) \o h = bytes
  <2> HIDE DEF bytes
  <2>1. bytes \in Seq(Nat) /\ cuts \in Cuts(Len(bytes), n.room)
    BY <1>2 DEF bytes
  <2>2. /\ Cells(bytes, cuts) \in Seq(Cell) /\ Len(Cells(bytes, cuts)) = Len(cuts)
        /\ Len(cuts) \in Nat /\ Len(cuts) <= n.room
        /\ FlattenSeq(Cells(bytes, cuts)) = First(bytes, End(cuts))
        /\ Behind(bytes, End(cuts)) \in Seq(Nat)
        /\ FlattenSeq(Cells(bytes, cuts)) \o Behind(bytes, End(cuts)) = bytes
    BY <2>1, CutFacts
  <2> QED
    BY <2>2 DEF bytes
<1>4. n.input \in Seq(Cell) /\ Len(n.input) <= Len(n.input) /\ FlattenSeq(n.input) = <<>>
  BY NodeFields, FlattenEmpty
<1>5. CASE Len(cuts) < n.room
  <2> DEFINE e == << <<>> >>
             all == cells \o e
  <2>1. e \in Seq(Cell) /\ FlattenSeq(e) = <<>> /\ Len(e) = 1
    <3>1. <<>> \in Seq(Nat)
      BY EmptySeq
    <3> QED
      BY <3>1, FlattenOne DEF Cell
  <2> HIDE DEF e, cells
  <2>2. all \in Seq(Cell) /\ Len(all) = Len(cuts) + 1
    <3>1. cells \in Seq(Cell) /\ e \in Seq(Cell)
      BY <1>3, <2>1 DEF cells
    <3>2. cells \o e \in Seq(Cell) /\ Len(cells \o e) = Len(cells) + Len(e)
      BY ONLY <3>1, ConcatProperties
    <3> QED
      BY <1>3, <2>1, <3>2 DEF cells
  <2>3. FlattenSeq(all) = FlattenSeq(cells) \o <<>>
    BY <1>3, <2>1, FlattenConcat DEF Cell
  <2>4. FlattenSeq(cells) = bytes
    <3>1. End(cuts) = Len(n.held)
      BY <1>1, <1>3, <1>5
    <3> QED
      BY <1>2, <1>3, <3>1, FirstAll
  <2>5. FlattenSeq(all) = bytes
    BY <1>2, <2>3, <2>4, EmptyFacts
  <2> HIDE DEF all
  <2>6. Len(all) <= n.room
    BY <1>2, <1>3, <1>5, <2>2
  <2>7. Splits(n, all, <<>>, n.input)
    <3>1. (bytes \o <<>>) \o <<>> = bytes \o <<>>
      BY <1>2, EmptyFacts
    <3>2. <<>> \in Seq(Nat)
      BY EmptySeq
    <3> QED
      BY <1>4, <2>2, <2>5, <2>6, <3>1, <3>2 DEF Splits
  <2>8. w.node = After(n, all, <<>>, n.input)
    <3>1. w.node = [Output(n, all) EXCEPT !.held = <<>>]
      BY <1>1, <1>5 DEF all, e, cells
    <3> QED
      BY <2>2, <2>6, <3>1, InputStays
  <2>9. Moved(n, w.node) /\ w.node.held = <<>> /\ w.node.input = n.input
    BY <2>7, <2>8, ZlibMoves
  <2> QED
    BY <1>1, <1>5, <2>9
<1>6. CASE ~(Len(cuts) < n.room)
  <2>1. w.node = [Output(n, cells) EXCEPT !.held = h] /\ w.rv = "ok"
    BY <1>1, <1>6
  <2> HIDE DEF cells, h
  <2>2. Len(cells) <= n.room
    BY <1>3
  <2>3. w.node = After(n, cells, h, n.input)
    BY <1>3, <2>1, <2>2, InputStays
  <2>4. Splits(n, cells, h, n.input)
    BY <1>3, <1>4, <2>2 DEF Splits
  <2> QED
    BY <2>1, <2>3, <2>4, ZlibMoves
<1> QED
  BY <1>5, <1>6

LEMMA InflatedMoves ==
  ASSUME NEW n \in Node, RingSound(n), n.kind = "unzip"
  PROVE  Moved(n, Inflated(n).node)
<1> DEFINE Bytes(j) == n.held \o FlattenSeq(First(n.input, j))
           Ends(j)  == j > 0 /\ n.input[j] = <<>>
           T == {j \in 0..Len(n.input) : \/ Len(Bytes(j)) >= n.room
                                         \/ Ends(j) \/ j = Len(n.input)}
           k == Least(T)
           bytes == Bytes(k)
           out == First(bytes, n.room)
           cells == Singles(out)
           h == Behind(bytes, n.room)
           i == Behind(n.input, k)
           m == Inflated(n).node
<1>1. Len(n.input) \in Nat /\ n.room \in Nat
  BY NodeFields
<1>2. k \in 0..Len(n.input)
  <2>1. T \in SUBSET Nat
    <3>1. T \subseteq 0..Len(n.input)
      <4> HIDE DEF Bytes, Ends
      <4> QED
        OBVIOUS
    <3>2. 0..Len(n.input) \subseteq Nat
      BY <1>1
    <3> QED
      BY <3>1, <3>2
  <2>2. Len(n.input) \in T
    BY <1>1
  <2> HIDE DEF T
  <2>3. k \in T
    BY <2>1, <2>2, LeastIsMember
  <2> QED
    BY <2>3 DEF T
<1>3. m = [Output(n, [l \in 1..Len(out) |-> <<out[l]>>])
             EXCEPT !.held = h,
                    !.input = Behind(Output(n, [l \in 1..Len(out) |-> <<out[l]>>]).input, k)]
  BY DEF Inflated
<1>4. cells = [l \in 1..Len(out) |-> <<out[l]>>]
  BY DEF Singles
<1> HIDE DEF k, T
<1>5. /\ bytes \in Seq(Nat) /\ i \in Seq(Cell) /\ Len(i) = Len(n.input) - k
      /\ bytes \o FlattenSeq(i) = n.held \o FlattenSeq(n.input)
  BY <1>2, BytesOfInput
<1> HIDE DEF bytes, i, m
<1>6. /\ out \in Seq(Nat) /\ Len(out) <= n.room /\ h \in Seq(Nat) /\ out \o h = bytes
  <2>1. out \in Seq(Nat) /\ Len(out) = (IF n.room <= Len(bytes) THEN n.room ELSE Len(bytes))
    BY <1>1, <1>5, FirstFacts
  <2>2. h \in Seq(Nat)
    BY <1>1, <1>5, BehindFacts
  <2>3. out \o h = bytes
    BY <1>1, <1>5, FirstAndBehind
  <2>4. Len(bytes) \in Nat
    BY <1>5, LenProperties
  <2> HIDE DEF out
  <2>5. Len(out) <= n.room
    BY <1>1, <2>1, <2>4
  <2> QED
    BY <2>1, <2>2, <2>3, <2>5
<1> HIDE DEF out, h
<1>7. cells \in Seq(Cell) /\ Len(cells) = Len(out) /\ FlattenSeq(cells) = out
  BY <1>6, FlattenSingles
<1>8. m = [Output(n, cells) EXCEPT !.held = h, !.input = Behind(Output(n, cells).input, k)]
  BY <1>3, <1>4
<1> HIDE DEF cells
<1>9. Len(cells) <= n.room
  BY <1>6, <1>7
<1>10. Output(n, cells).input = n.input
  <2>1. /\ Output(n, cells) \in Node
        /\ Output(n, cells) = [n EXCEPT !.data = Output(n, cells).data,
                                        !.zpos = Output(n, cells).zpos,
                                        !.room = Output(n, cells).room]
    BY <1>7, <1>9, RingOutput
  <2> QED
    BY <2>1 DEF Node
<1>11. m = After(n, cells, h, i)
  BY <1>8, <1>10 DEF i, After
<1>12. Splits(n, cells, h, i)
  <2>1. Len(i) <= Len(n.input)
    BY <1>1, <1>2, <1>5
  <2> QED
    BY <1>5, <1>6, <1>7, <1>9, <2>1 DEF Splits
<1>13. Moved(n, m)
  BY <1>11, <1>12, ZlibMoves
<1> QED
  BY <1>13 DEF m


\* A converter does its work, before its end is noted.
Handled(n, w) ==
  LET m == w.node
  IN  /\ m \in Node /\ m.kind = n.kind /\ m.lost = n.lost
      /\ n.kind # "filein" => m.eof = n.eof
      /\ n.kind = "filein" => FileInSound(m) /\ Unread(m) = Unread(n)
      /\ n.kind = "dummy" => DummySound(m)
      /\ n.kind \in {"zip", "unzip"} => RingSound(m)
      /\ n.kind # "md5" => InNode(m) = InNode(n)
      /\ n.kind = "fileout" => m.data = n.data /\ m.received = n.received
      /\ n.kind = "md5" => m.data = n.data /\ m.next = n.next
      /\ w.rv = "eof" => /\ n.kind # "unzip" => m.eof
                         /\ n.kind = "zip" => m.held = <<>> /\ m.input = <<>>

LEMMA SameIsHandled ==
  ASSUME NEW n, Sound(n), NEW rv,
         rv = "eof" => n.eof /\ n.kind \notin {"zip", "unzip"}
  PROVE  Handled(n, [node |-> n, rv |-> rv])
<1>1. n \in Node
  BY DEF Sound
<1> QED
  BY <1>1 DEF Handled, Sound

LEMMA MovedIsHandled ==
  ASSUME NEW n, Sound(n), n.kind \in {"zip", "unzip"}, NEW w, Moved(n, w.node),
         w.rv = "eof" /\ n.kind = "zip" =>
           n.eof /\ w.node.held = <<>> /\ w.node.input = <<>>
  PROVE  Handled(n, w)
BY DEF Handled, Moved, Like

LEMMA FileInHandled ==
  ASSUME NEW n, Sound(n), n.kind = "filein", ~(HasData(n) > 0)
  PROVE  Handled(n, FileInWork(n))
<1>1. /\ n \in Node /\ n.data \in Seq(Cell) /\ n.next \in Nat /\ Len(n.data) \in Nat
      /\ n.lost = FALSE /\ n.held \in Seq(Cell) /\ n.next <= Len(n.data) /\ n.eof \in BOOLEAN
  BY NodeFields DEF Sound, FileInSound
<1>2. n.next = Len(n.data)
  <2>1. HasData(n) = Len(n.data) - n.next
    BY <1>1, HasDataIs
  <2> QED
    BY <1>1, <2>1
<1>3. Unread(n) = n.held
  <2>1. Behind(n.data, n.next) = <<>>
    BY <1>1, <1>2, BehindAll
  <2> QED
    BY <1>1, <2>1, EmptyFacts DEF Unread
<1>4. CASE n.eof
  BY <1>4, SameIsHandled DEF FileInWork
<1>5. CASE ~n.eof /\ n.held = <<>>
  <2>1. PICK m : m = [n EXCEPT !.eof = TRUE]
    OBVIOUS
  <2>2. FileInWork(n) = [node |-> m, rv |-> "ok"]
    <3>1. ~(n.next < Len(n.data))
      BY <1>1, <1>2
    <3> QED
      BY <1>5, <2>1, <3>1, Zenon DEF FileInWork
  <2>3. m \in Node /\ SameBuffers(n, m) /\ m.lost = n.lost /\ m.eof = TRUE
    BY <1>1, <2>1 DEF Node, SameBuffers
  <2>4. InNode(m) = InNode(n) /\ Unread(m) = Unread(n)
    BY <2>3, SameBytes
  <2>5. FileInSound(m)
    BY <1>2, <1>5, <2>3 DEF Sound, FileInSound, SameBuffers
  <2>6. m.kind = "filein"
    BY <2>3 DEF SameBuffers
  <2> QED
    BY <2>2, <2>3, <2>4, <2>5, <2>6 DEF Handled
<1>6. CASE ~n.eof /\ n.held # <<>>
  <2> DEFINE f == First(n.held, BufferSize.filein)
             b == Behind(n.held, BufferSize.filein)
             m == [n EXCEPT !.data = f, !.next = 0, !.held = b]
  <2>0. BufferSize.filein \in Nat /\ BufferSize.filein = BufferSize["filein"]
    BY Sizes DEF Kinds
  <2>1. FileInWork(n) = [node |-> m, rv |-> "ok"]
    BY <1>1, <1>2, <1>6 DEF FileInWork
  <2>2. /\ f \in Seq(Cell) /\ b \in Seq(Cell) /\ f \o b = n.held
        /\ Len(f) = IF BufferSize.filein <= Len(n.held) THEN BufferSize.filein ELSE Len(n.held)
    BY <1>1, <2>0, FirstFacts, BehindFacts, FirstAndBehind, ZenonT(60)
  <2>3. Len(f) <= BufferSize["filein"] /\ Len(f) \in Nat
    <3>1. Len(n.held) \in Nat
      BY <1>1, EmptyFacts
    <3> HIDE DEF f
    <3> QED
      BY <2>0, <2>2, <3>1
  <2> HIDE DEF f, b
  <2>4. /\ m \in Node /\ m.kind = "filein" /\ m.lost = n.lost /\ m.eof = FALSE
        /\ m.data = f /\ m.next = 0 /\ m.held = b
    BY <1>1, <1>6, <2>2 DEF Node
  <2> HIDE DEF m
  <2>5. FileInSound(m)
    BY <2>2, <2>3, <2>4 DEF FileInSound
  <2>6. Unread(m) = Unread(n)
    BY <1>3, <2>2, <2>4, BehindAll DEF Unread
  <2>7. InNode(m) = InNode(n)
    BY <2>4, <2>6, InNodeIs
  <2> QED
    BY <2>1, <2>4, <2>5, <2>6, <2>7 DEF Handled
<1> QED
  BY <1>4, <1>5, <1>6

LEMMA WorkHandled ==
  ASSUME NEW n, Sound(n), ~(HasData(n) > 0), NEW w \in Work(n)
  PROVE  Handled(n, w)
<1>1. n \in Node /\ n.kind \in Kinds /\ n.eof \in BOOLEAN
  BY NodeFields DEF Sound
<1>2. CASE n.kind = "filein"
  <2>1. w = FileInWork(n)
    BY <1>2 DEF Work
  <2> QED
    BY <1>2, <2>1, FileInHandled
<1>3. CASE n.kind = "zip"
  <2>0. RingSound(n)
    BY <1>3 DEF Sound
  <2>1. w \in ZipWork(n)
    BY <1>3 DEF Work
  <2>2. CASE w = [node |-> n, rv |-> "ok"]
    BY <2>2, SameIsHandled
  <2>3. CASE n.eof /\ n.input = <<>> /\ w \in Finished(n)
    <3>1. /\ Moved(n, w.node)
          /\ w.rv = "eof" => w.node.held = <<>> /\ w.node.input = <<>>
      BY <1>1, <1>3, <2>0, <2>3, FinishedMoves
    <3> QED
      BY <1>3, <2>3, <3>1, MovedIsHandled
  <2>4. CASE w \in Deflated(n)
    <3>1. w.rv = "ok" /\ Moved(n, w.node)
      BY <1>1, <1>3, <2>0, <2>4, DeflatedMoves
    <3> QED
      BY <1>3, <3>1, MovedIsHandled
  <2> QED
    BY <2>1, <2>2, <2>3, <2>4 DEF ZipWork
<1>4. CASE n.kind = "unzip"
  <2>0. RingSound(n)
    BY <1>4 DEF Sound
  <2>1. w \in UnzipWork(n)
    BY <1>4 DEF Work
  <2>2. CASE w = [node |-> n, rv |-> "ok"]
    BY <2>2, SameIsHandled
  <2>3. CASE w = Inflated(n)
    <3>1. Moved(n, w.node)
      BY <1>1, <1>4, <2>0, <2>3, InflatedMoves
    <3> QED
      BY <1>4, <3>1, MovedIsHandled
  <2> QED
    BY <2>1, <2>2, <2>3 DEF UnzipWork
<1>5. CASE n.kind \in {"dummy", "fileout", "md5"}
  <2>1. PICK rv : rv = IF n.eof THEN "eof" ELSE "ok"
    OBVIOUS
  <2>2. w = [node |-> n, rv |-> rv]
    BY <1>5, <2>1 DEF Work
  <2>3. rv = "eof" => n.eof
    BY <2>1
  <2> QED
    BY <1>5, <2>2, <2>3, SameIsHandled
<1> QED
  BY <1>1, <1>2, <1>3, <1>4, <1>5 DEF Kinds

\* The turn of a converter: it has worked, and its end is noted.
Works(n, w) ==
  LET m == w.node
  IN  /\ Sound(m) /\ m.kind = n.kind
      /\ n.kind # "filein" => m.eof = n.eof
      /\ n.kind = "filein" => Unread(m) = Unread(n)
      /\ n.kind # "md5" => InNode(m) = InNode(n)
      /\ n.kind = "fileout" => m.data = n.data /\ m.received = n.received
      /\ HasData(n) > 0 \/ n.over => m = n

LEMMA WorkedWorks ==
  ASSUME NEW n, Sound(n), NEW w \in Worked(n)
  PROVE  Works(n, w)
<1>1. CASE HasData(n) > 0 \/ n.over
  <2>1. w.node = n
    BY <1>1 DEF Worked
  <2> QED
    BY <2>1 DEF Works
<1>2. CASE ~(HasData(n) > 0 \/ n.over)
  <2>1. PICK v \in Work(n) : w = [node |-> [v.node EXCEPT !.over = (v.rv = "eof")], rv |-> v.rv]
    BY <1>2 DEF Worked
  <2>2. PICK e \in BOOLEAN : e <=> v.rv = "eof"
    OBVIOUS
  <2>3. PICK m : m = v.node
    OBVIOUS
  <2>4. PICK q : q = [m EXCEPT !.over = e]
    OBVIOUS
  <2>5. w.node = q
    <3>1. (v.rv = "eof") = e
      BY <2>2
    <3> QED
      BY <2>1, <2>3, <2>4, <3>1
  <2>6. Handled(n, v)
    BY <1>2, WorkHandled
  <2>7. m \in Node
    BY <2>3, <2>6 DEF Handled
  <2>8. /\ q \in Node /\ SameBuffers(m, q) /\ q.lost = m.lost /\ q.eof = m.eof
        /\ q.received = m.received /\ q.over = e
    BY <2>4, <2>7 DEF Node, SameBuffers
  <2>9. /\ InNode(q) = InNode(m) /\ Unread(q) = Unread(m)
        /\ RingSound(q) <=> RingSound(m)
        /\ FileInSound(m) => FileInSound(q)
        /\ DummySound(q) <=> DummySound(m)
    BY <2>8, SameBytes
  <2>10. q.kind = n.kind /\ q.kind = m.kind /\ q.data = m.data
    BY <2>3, <2>6, <2>8 DEF Handled, SameBuffers
  <2>11. Sound(q)
    <3>1. OverSound(q)
      <4>1. e => v.rv = "eof"
        BY <2>2
      <4> QED
        BY <2>3, <2>6, <2>8, <2>10, <4>1 DEF Handled, OverSound, SameBuffers
    <3>2. q.lost = FALSE
      BY <2>3, <2>6, <2>8 DEF Handled, Sound, Node
    <3> QED
      BY <2>3, <2>6, <2>8, <2>9, <2>10, <3>1, <3>2 DEF Handled, Sound
  <2> QED
    BY <1>2, <2>3, <2>5, <2>6, <2>8, <2>9, <2>10, <2>11 DEF Works, Handled
<1> QED
  BY <1>1, <1>2

-----------------------------------------------------------------------------
(* The chain.                                                              *)

\* One node of a chain is replaced.
LEMMA NodeReplaced ==
  ASSUME NEW c \in Chain, NEW i \in 1..2, NEW x \in Node
  PROVE  LET d == [c EXCEPT !.nodes[i] = x]
         IN  /\ d \in Chain /\ d.tee = c.tee /\ d.nodes[i] = x
             /\ \A j \in 1..2 : j # i => d.nodes[j] = c.nodes[j]
BY DEF Chain

LEMMA ChainFields ==
  ASSUME NEW c \in Chain
  PROVE  c.nodes[1] \in Node /\ c.nodes[2] \in Node /\ c.tee \in Node
BY DEF Chain

\* The digest takes cells.
Digests(t, u, cells) ==
  Sound(u) /\ Like(t, u) /\ u.data = t.data \o cells /\ u.next = t.next

\* A digest that took all it was given is not marked.
LEMMA NotMarked ==
  ASSUME NEW m \in Node, m.lost = FALSE, NEW x, NEW y, x = y
  PROVE  [m EXCEPT !.lost = m.lost \/ x # y] = m
<1>1. (m.lost \/ x # y) = m.lost
  OBVIOUS
<1>2. [m EXCEPT !.lost = m.lost] = m
  BY DEF Node
<1> QED
  BY <1>1, <1>2

\* What a converter needs is a number.
LEMMA NeedsDataType ==
  ASSUME NEW n, n.kind \in Kinds, n.eof \in BOOLEAN
  PROVE  NeedsData(n) \in Nat
<1>1. /\ BufferSize.dummy \in Nat /\ BufferSize.fileout \in Nat /\ BufferSize.md5 \in Nat
      /\ InSize.zip \in Nat /\ InSize.unzip \in Nat
  BY Sizes DEF Kinds
<1> QED
  BY <1>1 DEF NeedsData, DummyNeedsData, ZipNeedsData, UnzipNeedsData, FileOutNeedsData,
              Md5NeedsData, Kinds

\* The second converter and the digest take all they are given.
LEMMA SecondTakes ==
  ASSUME NEW c \in Chain, NEW b, b = c.nodes[2], NEW t, t = c.tee,
         Sound(b), Sound(t), b.kind \in {"zip", "dummy", "fileout"}, t.kind = "md5",
         b.eof = FALSE, t.eof = FALSE,
         NEW cells \in Seq(Cell), cells # <<>>,
         NEW s, s = GroupSetData(c, 2, cells), s.taken = s.size
  PROVE  /\ s.chain \in Chain /\ s.chain.nodes[1] = c.nodes[1]
         /\ Takes(b, s.chain.nodes[2], cells)
         /\ Digests(t, s.chain.tee, cells)
<1> DEFINE size == Len(cells)
           set == SetData(b, cells)
           tee == SetData(t, cells)
           fits == size = 0 \/ GroupNeedsData(c, 2) >= size
<1>1. size \in Nat /\ size >= 1
  BY EmptyFacts
<1>2. s.size = size /\ s.taken = (IF fits THEN set.taken ELSE 0)
  BY DEF GroupSetData
<1>3. fits /\ set.taken = size
  <2> HIDE DEF size, set, fits
  <2> QED
    BY <1>1, <1>2
<1>4. NeedsData(b) \in Nat /\ NeedsData(t) \in Nat
  BY NeedsDataType, NodeFields DEF Sound
<1>5. size <= NeedsData(b)
  <2>1. GroupNeedsData(c, 2) = Least({NeedsData(b), NeedsData(t)})
    BY DEF GroupNeedsData
  <2>2. GroupNeedsData(c, 2) = IF NeedsData(b) <= NeedsData(t) THEN NeedsData(b) ELSE NeedsData(t)
    <3> HIDE DEF size, set, fits
    <3> QED
      BY <1>4, <2>1, LeastOfTwo
  <2>3. GroupNeedsData(c, 2) >= size
    BY <1>1, <1>3
  <2> HIDE DEF size
  <2> QED
    BY <1>1, <1>4, <2>2, <2>3
<1>6. Takes(b, set.node, cells)
  BY <1>3, <1>5, DummyTakes, ZlibTakes, FileOutTakes
<1>7. /\ tee.taken = size
      /\ tee.node \in Node /\ Like(t, tee.node) /\ tee.node.data = t.data \o cells
      /\ tee.node.next = t.next /\ tee.node.lost = t.lost
  BY Md5Takes DEF Sound
<1>8. t.lost = FALSE
  BY NodeFields DEF Sound
<1>9. s.chain = [nodes |-> [c.nodes EXCEPT ![2] = set.node], tee |-> tee.node]
  <2>1. s.chain = [nodes |-> [c.nodes EXCEPT ![2] = set.node],
                   tee |-> [tee.node EXCEPT !.lost = tee.node.lost \/ tee.taken # size]]
    BY <1>3 DEF GroupSetData
  <2> HIDE DEF tee, set, size
  <2>2. [tee.node EXCEPT !.lost = tee.node.lost \/ tee.taken # size] = tee.node
    BY <1>7, <1>8, NotMarked
  <2> QED
    BY <2>1, <2>2
<1>10. Sound(tee.node)
  <2> HIDE DEF tee
  <2> QED
    BY <1>7, <1>8 DEF Sound, OverSound, Like
<1>11. set.node \in Node
  BY <1>6 DEF Takes, Sound
<1> HIDE DEF tee, set
<1>12. /\ s.chain \in Chain /\ s.chain.nodes[1] = c.nodes[1] /\ s.chain.nodes[2] = set.node
       /\ s.chain.tee = tee.node
  BY <1>7, <1>9, <1>11 DEF Chain
<1> QED
  BY <1>6, <1>7, <1>10, <1>12 DEF Digests

\* The second converter and the digest are told the end.
LEMMA SecondEnds ==
  ASSUME NEW c \in Chain
  PROVE  LET d == GroupSetData(c, 2, <<>>).chain
         IN  /\ d \in Chain /\ d.nodes[1] = c.nodes[1]
             /\ Ended(c.nodes[2], d.nodes[2])
             /\ c.tee.lost = FALSE => Ended(c.tee, d.tee)
<1> DEFINE set == SetData(c.nodes[2], <<>>)
           tee == SetData(c.tee, <<>>)
           d == GroupSetData(c, 2, <<>>).chain
<1>1. c.nodes[2] \in Node /\ c.tee \in Node
  BY ChainFields
<1>2. Ended(c.nodes[2], set.node) /\ set.taken = 0 /\ Ended(c.tee, tee.node) /\ tee.taken = 0
  BY <1>1, EndIsTold
<1>3. d = [nodes |-> [c.nodes EXCEPT ![2] = set.node],
           tee |-> [tee.node EXCEPT !.lost = tee.node.lost \/ tee.taken # 0]]
  <2>1. Len(<<>>) = 0
    OBVIOUS
  <2> QED
    BY <1>2, <2>1 DEF GroupSetData
<1> HIDE DEF set, tee, d
<1>4. set.node \in Node /\ tee.node \in Node /\ tee.node.lost = c.tee.lost
  BY <1>2 DEF Ended
<1>5. tee.node.lost = FALSE =>
        [tee.node EXCEPT !.lost = tee.node.lost \/ tee.taken # 0] = tee.node
  BY <1>2, <1>4, NotMarked
<1>6. [tee.node EXCEPT !.lost = tee.node.lost \/ tee.taken # 0] \in Node
  <2>1. PICK l \in BOOLEAN : l = (tee.node.lost \/ tee.taken # 0)
    OBVIOUS
  <2>2. [tee.node EXCEPT !.lost = l] \in Node
    BY <1>4 DEF Node
  <2> QED
    BY <2>1, <2>2
<1>7. d \in Chain /\ d.nodes[1] = c.nodes[1] /\ d.nodes[2] = set.node
  BY <1>3, <1>4, <1>6 DEF Chain
<1>8. c.tee.lost = FALSE => d.tee = tee.node
  BY <1>3, <1>4, <1>5
<1>9. /\ d \in Chain /\ d.nodes[1] = c.nodes[1]
      /\ Ended(c.nodes[2], d.nodes[2])
      /\ c.tee.lost = FALSE => Ended(c.tee, d.tee)
  BY <1>2, <1>7, <1>8
<1> QED
  BY <1>9 DEF d

\* The first node's data go over to the second and to the digest.
LEMMA HandedOver ==
  ASSUME NEW a, NEW b, NEW t, NEW g \in Seq(Nat), NEW h, NEW q, InStep(a, b, t, g, h, q),
         b.eof = FALSE, NEW got, NEW k, Gives(a, got, k),
         NEW b2, Takes(b, b2, got.data), NEW t2, Digests(t, t2, got.data)
  PROVE  InStep(got.node, b2, t2, g, h, q)
<1> DEFINE p == got.data
           a2 == got.node
           ft == FlattenSeq(t.data)
           fp == FlattenSeq(p)
<1>1. /\ Sound(a2) /\ a2.kind = a.kind /\ p \in Seq(Cell)
      /\ InNode(a) = fp \o InNode(a2)
      /\ a.kind = "filein" => Unread(a) = p \o Unread(a2)
  BY DEF Gives, Like
<1>2. /\ Sound(b2) /\ b2.kind = b.kind /\ b2.eof = FALSE /\ InNode(b2) = InNode(b) \o fp
      /\ b.kind = "fileout" => b2.data = b.data \o p /\ b2.received = b.received + Len(p)
  BY DEF Takes, Like
<1>3. /\ Sound(t2) /\ t2.kind = "md5" /\ t2.eof = FALSE /\ t2.data = t.data \o p /\ t2.next = 0
  BY DEF Digests, Like, InStep
<1>4. /\ t.data \in Seq(Cell) /\ InNode(a2) \in Seq(Nat) /\ InNode(b) \in Seq(Nat)
  <2>1. t \in Node /\ Sound(b) /\ b.kind # "md5" /\ a.kind # "md5"
    BY DEF InStep, Sound
  <2> QED
    BY <1>1, <2>1, NodeFields, InNodeType
<1> HIDE DEF p, a2
<1>5. ft \in Seq(Nat) /\ fp \in Seq(Nat) /\ FlattenSeq(t2.data) = ft \o fp
  <2>1. p \in Seq(Seq(Nat)) /\ t.data \in Seq(Seq(Nat))
    BY <1>1, <1>4 DEF Cell
  <2> QED
    BY <1>3, <2>1, FlattenConcat, FlattenStep
<1>6. ft \o InNode(a) = h /\ ft = g \o InNode(b)
  BY DEF InStep
<1> HIDE DEF ft, fp
<1>7. FlattenSeq(t2.data) \o InNode(a2) = h
  <2>1. (ft \o fp) \o InNode(a2) = ft \o (fp \o InNode(a2))
    <3>1. Assoc(ft, fp, InNode(a2))
      BY ONLY <1>4, <1>5, Associative
    <3> QED
      BY ONLY <3>1 DEF Assoc
  <2> QED
    BY <1>1, <1>5, <1>6, <2>1
<1>8. FlattenSeq(t2.data) = g \o InNode(b2)
  <2>1. (g \o InNode(b)) \o fp = g \o (InNode(b) \o fp)
    <3>1. Assoc(g, InNode(b), fp)
      BY ONLY <1>4, <1>5, g \in Seq(Nat), Associative
    <3> QED
      BY ONLY <3>1 DEF Assoc
  <2> QED
    BY <1>2, <1>5, <1>6, <2>1
<1>9. a.kind = "filein" => t2.data \o Unread(a2) = q
  <2> SUFFICES ASSUME a.kind = "filein" PROVE t2.data \o Unread(a2) = q
    OBVIOUS
  <2>1. t.data \o Unread(a) = q
    BY DEF InStep
  <2>2. Unread(a2) \in Seq(Cell)
    <3>1. a2.data \in Seq(Cell) /\ a2.next \in Nat /\ a2.held \in Seq(Cell)
      BY <1>1, NodeFields DEF Sound, FileInSound
    <3>2. Behind(a2.data, a2.next) \in Seq(Cell)
      BY <3>1, BehindFacts
    <3> QED
      BY <3>1, <3>2, ConcatProperties DEF Unread
  <2>3. (t.data \o p) \o Unread(a2) = t.data \o (p \o Unread(a2))
    <3>1. PICK x \in Seq(Cell), y \in Seq(Cell) : x = t.data /\ y = Unread(a2)
      BY <1>4, <2>2
    <3>2. p \in Seq(Cell)
      BY <1>1
    <3>3. (x \o p) \o y = x \o (p \o y)
      <4>1. Assoc(x, p, y)
        BY ONLY <3>2, x \in Seq(Cell), y \in Seq(Cell), Associative
      <4> QED
        BY ONLY <4>1 DEF Assoc
    <3> QED
      BY <3>1, <3>3
  <2> QED
    BY <1>1, <1>3, <2>1, <2>3
<1>10. b.kind = "fileout" => b2.data = t2.data /\ b2.received = Len(b2.data)
  <2> SUFFICES ASSUME b.kind = "fileout" PROVE b2.data = t2.data /\ b2.received = Len(b2.data)
    OBVIOUS
  <2>1. b.data = t.data /\ b.received = Len(b.data)
    BY DEF InStep
  <2>2. Len(b.data \o p) = Len(b.data) + Len(p)
    BY <1>1, <1>4, <2>1, ConcatProperties
  <2> QED
    BY <1>2, <1>3, <2>1, <2>2
<1>11. InStep(a2, b2, t2, g, h, q)
  <2>1. a.kind \in {"filein", "dummy", "unzip"} /\ b.kind \in {"zip", "dummy", "fileout"}
    BY DEF InStep
  <2> QED
    BY <1>1, <1>2, <1>3, <1>7, <1>8, <1>9, <1>10, <2>1 DEF InStep
<1> QED
  BY <1>11 DEF a2

LEMMA HasDataType ==
  ASSUME NEW n, Sound(n), n.kind # "md5"
  PROVE  HasData(n) \in Nat
<1>1. /\ n \in Node /\ n.kind \in Kinds /\ n.lost = FALSE
      /\ n.next \in Nat /\ n.zpos \in Nat /\ n.room \in Nat /\ Len(n.data) \in Nat
  BY NodeFields DEF Sound
<1>2. CASE n.kind \in {"filein", "dummy"}
  <2>1. n.next <= Len(n.data)
    BY <1>2 DEF Sound, FileInSound, DummySound
  <2>2. HasData(n) = Len(n.data) - n.next
    BY <1>1, <1>2, HasDataIs
  <2> QED
    BY <1>1, <2>1, <2>2
<1>3. CASE n.kind \in {"zip", "unzip"}
  <2>1. /\ BufferSize[n.kind] \in Nat /\ n.next < BufferSize[n.kind]
        /\ Wrapped(n) \/ n.next <= n.zpos
    BY <1>1, <1>3, RingNumbers DEF Sound
  <2>2. /\ n.kind = "zip" => BufferSize.zip = BufferSize[n.kind]
        /\ n.kind = "unzip" => BufferSize.unzip = BufferSize[n.kind]
    BY Sizes
  <2>3. CASE n.kind = "zip"
    <3>1. HasData(n) = IF Wrapped(n) THEN BufferSize[n.kind] - n.next ELSE n.zpos - n.next
      BY <1>1, <2>2, <2>3, HasDataIs DEF ZipHasData
    <3> QED
      BY <1>1, <2>1, <3>1
  <2>4. CASE n.kind = "unzip"
    <3>1. HasData(n) = IF n.next > n.zpos THEN BufferSize[n.kind] - n.next ELSE n.zpos - n.next
      BY <1>1, <2>2, <2>4, HasDataIs DEF UnzipHasData
    <3> QED
      BY <1>1, <2>1, <3>1
  <2> QED
    BY <1>3, <2>3, <2>4
<1>4. CASE n.kind = "fileout"
  <2>1. HasData(n) = 0
    BY <1>1, <1>4, HasDataIs
  <2> QED
    BY <2>1
<1> QED
  BY <1>1, <1>2, <1>3, <1>4 DEF Kinds

\* What a converter other than FileOut has, it gives.
LEMMA NodeGives ==
  ASSUME NEW n, Sound(n), n.kind # "md5", NEW k \in Nat, k >= 1, k <= HasData(n)
  PROVE  Gives(n, GetData(n, k), k)
<1>1. n.kind \in Kinds /\ n.lost = FALSE
  BY NodeFields DEF Sound
<1>2. n.kind # "fileout"
  <2>1. n.kind = "fileout" => HasData(n) = 0
    BY <1>1, HasDataIs
  <2> QED
    BY <2>1
<1> QED
  BY <1>1, <1>2, BufferGives, RingGives DEF Kinds

LEMMA FirstWorks ==
  ASSUME NEW a, NEW b, NEW t, NEW g, NEW h, NEW q, InStep(a, b, t, g, h, q), NEW w \in Worked(a)
  PROVE  InStep(w.node, b, t, g, h, q) /\ w.node.kind = a.kind
<1>1. Works(a, w)
  BY WorkedWorks DEF InStep
<1>2. a.kind # "md5"
  BY DEF InStep
<1>3. b.eof => w.node = a
  BY <1>1 DEF InStep, Works
<1> QED
  BY <1>1, <1>2, <1>3 DEF InStep, Works

LEMMA SecondWorks ==
  ASSUME NEW a, NEW b, NEW t, NEW g, NEW h, NEW q, InStep(a, b, t, g, h, q), NEW w \in Worked(b)
  PROVE  InStep(a, w.node, t, g, h, q) /\ w.node.kind = b.kind
<1>1. Works(b, w)
  BY WorkedWorks DEF InStep
<1>2. b.kind # "md5" /\ b.kind # "filein"
  BY DEF InStep
<1> QED
  BY <1>1, <1>2 DEF InStep, Works

LEMMA BothEnd ==
  ASSUME NEW a, NEW b, NEW t, NEW g, NEW h, NEW q, InStep(a, b, t, g, h, q),
         a.over, HasData(a) = 0, NEW b2, NEW t2, Ended(b, b2), Ended(t, t2)
  PROVE  InStep(a, b2, t2, g, h, q) /\ b2.kind = b.kind
<1>1. Sound(b2) /\ InNode(b2) = InNode(b) /\ b2.kind = b.kind /\ Sound(t2) /\ t2.kind = t.kind
  BY EndedIsSound DEF InStep
<1>2. b2.eof = TRUE /\ t2.eof = TRUE /\ t2.data = t.data /\ t2.next = t.next
  BY DEF InStep, Ended, SameBuffers
<1>3. b2.data = b.data /\ b2.received = b.received
  BY DEF Ended, SameBuffers
<1> QED
  BY <1>1, <1>2, <1>3 DEF InStep

KindsKept(c, d) == d.nodes[1].kind = c.nodes[1].kind /\ d.nodes[2].kind = c.nodes[2].kind

\* The first converter hands over to the second.
LEMMA HandOverOK ==
  ASSUME NEW c, NEW g \in Seq(Nat), NEW h, NEW q, GroupOK(c, g, h, q),
         HasData(c.nodes[1]) # 0, GroupNeedsData(c, 2) # 0,
         NEW s \in HandOver(c), s.taken = s.size
  PROVE  GroupOK(s.chain, g, h, q) /\ KindsKept(c, s.chain)
<1> DEFINE a == c.nodes[1]
           b == c.nodes[2]
           t == c.tee
           need == GroupNeedsData(c, 2)
           k == Least({need, HasData(a)})
           got == GetData(a, k)
           d == [c EXCEPT !.nodes[1] = got.node]
<1>1. c \in Chain /\ InStep(a, b, t, g, h, q)
  BY DEF GroupOK
<1>2. /\ Sound(a) /\ Sound(b) /\ Sound(t) /\ a.kind # "md5" /\ t.kind = "md5"
      /\ b.kind \in {"zip", "dummy", "fileout"} /\ t.eof = b.eof
  BY <1>1 DEF InStep
<1>3. s = GroupSetData(d, 2, got.data)
  BY DEF HandOver
<1>4. need = Least({NeedsData(b), NeedsData(t)})
  BY DEF GroupNeedsData
<1> HIDE DEF a, b, t, need, k, d, got
<1>5. b.eof \in BOOLEAN /\ b.kind \in Kinds /\ t.kind \in Kinds
  BY <1>2, NodeFields DEF Sound
<1>6. NeedsData(b) \in Nat /\ NeedsData(t) \in Nat
  BY <1>2, <1>5, NeedsDataType
<1>7. need \in Nat /\ need >= 1 /\ (need = NeedsData(b) \/ need = NeedsData(t))
  <2>1. need = IF NeedsData(b) <= NeedsData(t) THEN NeedsData(b) ELSE NeedsData(t)
    BY <1>4, <1>6, LeastOfTwo
  <2>2. need # 0
    BY DEF need
  <2> QED
    BY <1>6, <2>1, <2>2
<1>8. b.eof = FALSE /\ t.eof = FALSE
  <2>1. b.eof => NeedsData(b) = 0 /\ NeedsData(t) = 0
    BY <1>2 DEF NeedsData
  <2> QED
    BY <1>2, <1>5, <1>7, <2>1
<1>9. HasData(a) \in Nat /\ HasData(a) # 0
  BY <1>2, HasDataType DEF a
<1>10. k \in Nat /\ k >= 1 /\ k <= HasData(a)
  <2>1. k = IF need <= HasData(a) THEN need ELSE HasData(a)
    BY <1>7, <1>9, LeastOfTwo DEF k
  <2> QED
    BY <1>7, <1>9, <2>1
<1>11. Gives(a, got, k)
  BY <1>2, <1>10, NodeGives DEF got
<1>12. got.node \in Node /\ got.node.kind = a.kind /\ got.data \in Seq(Cell) /\ Len(got.data) = k
  BY <1>11 DEF Gives, Like, Sound
<1>13. d \in Chain /\ d.nodes[1] = got.node /\ d.nodes[2] = b /\ d.tee = t
  BY <1>1, <1>12, NodeReplaced DEF d, b, t
<1>14. got.data # <<>>
  BY <1>10, <1>12, EmptyFacts
<1> DEFINE b2 == s.chain.nodes[2]
           t2 == s.chain.tee
<1>15. /\ s.chain \in Chain /\ s.chain.nodes[1] = d.nodes[1]
       /\ Takes(b, b2, got.data) /\ Digests(t, t2, got.data)
  <2> HIDE DEF b2, t2
  <2>1. PICK cells \in Seq(Cell) : cells = got.data
    BY <1>12
  <2>2. s = GroupSetData(d, 2, cells) /\ cells # <<>>
    BY <1>3, <1>14, <2>1
  <2>3. b = d.nodes[2] /\ t = d.tee
    BY <1>13
  <2>4. /\ s.chain \in Chain /\ s.chain.nodes[1] = d.nodes[1]
        /\ Takes(b, s.chain.nodes[2], cells)
        /\ Digests(t, s.chain.tee, cells)
    BY ONLY <1>2, <1>8, <1>13, <2>2, <2>3, s.taken = s.size, cells \in Seq(Cell), SecondTakes, ZenonT(60)
  <2> QED
    BY <2>1, <2>4 DEF b2, t2
<1> HIDE DEF b2, t2
<1>16. InStep(got.node, b2, t2, g, h, q)
  BY <1>1, <1>8, <1>11, <1>15, HandedOver
<1>17. GroupOK(s.chain, g, h, q)
  BY <1>13, <1>15, <1>16 DEF GroupOK, b2, t2
<1>18. b2.kind = b.kind
  BY <1>15 DEF Takes, Like
<1> QED
  BY <1>12, <1>13, <1>15, <1>17, <1>18 DEF KindsKept, a, b, b2

LEMMA TurnOfFirst ==
  ASSUME NEW c, NEW g \in Seq(Nat), NEW h, NEW q, GroupOK(c, g, h, q),
         NEW u \in Turn(c, 1), u.rv # "error"
  PROVE  /\ GroupOK(u.chain, g, h, q) /\ KindsKept(c, u.chain)
         /\ u.rv = "ok"
<1>1. PICK w \in Worked(c.nodes[1]) : u \in Behaved([c EXCEPT !.nodes[1] = w.node], 1, w.rv)
  BY DEF Turn
<1>2. PICK d : d = [c EXCEPT !.nodes[1] = w.node]
  OBVIOUS
<1>3. PICK n : n = d.nodes[1]
  OBVIOUS
<1>4. c \in Chain /\ InStep(c.nodes[1], c.nodes[2], c.tee, g, h, q)
  BY DEF GroupOK
<1>5. InStep(w.node, c.nodes[2], c.tee, g, h, q) /\ w.node.kind = c.nodes[1].kind
  BY <1>4, FirstWorks
<1>6. d \in Chain /\ d.nodes[1] = w.node /\ d.nodes[2] = c.nodes[2] /\ d.tee = c.tee
  <2>1. w.node \in Node
    BY <1>5 DEF InStep, Sound
  <2> QED
    BY <1>2, <1>4, <2>1, NodeReplaced
<1>7. GroupOK(d, g, h, q) /\ KindsKept(c, d)
  BY <1>5, <1>6 DEF GroupOK, KindsKept
<1>8. u \in Behaved(d, 1, w.rv)
  BY <1>1, <1>2
<1>9. CASE w.rv = "error"
  <2>1. u = Stop(d, "error")
    BY <1>8, <1>9 DEF Behaved
  <2> QED
    BY <2>1 DEF Stop
<1>10. CASE w.rv # "error" /\ HasData(n) = 0 /\ ~n.over
  <2>1. u = Stop(d, "ok")
    BY <1>3, <1>8, <1>10 DEF Behaved
  <2> QED
    BY <1>7, <2>1 DEF Stop
<1>11. CASE w.rv # "error" /\ HasData(n) = 0 /\ n.over
  <2>1. PICK e : e = GroupSetData(d, 2, <<>>).chain
    OBVIOUS
  <2>2. u = GoOn(e)
    BY <1>3, <1>8, <1>11, <2>1 DEF Behaved
  <2>3. d.tee.lost = FALSE
    BY <1>7, NodeFields DEF GroupOK, InStep, Sound
  <2>4. e \in Chain /\ e.nodes[1] = n /\ Ended(d.nodes[2], e.nodes[2]) /\ Ended(d.tee, e.tee)
    BY <1>3, <1>6, <2>1, <2>3, SecondEnds
  <2>5. InStep(n, d.nodes[2], d.tee, g, h, q)
    BY <1>3, <1>7 DEF GroupOK
  <2>6. InStep(n, e.nodes[2], e.tee, g, h, q) /\ e.nodes[2].kind = d.nodes[2].kind
    <3>1. PICK b, t, b2, t2 : /\ b = d.nodes[2] /\ t = d.tee
                             /\ b2 = e.nodes[2] /\ t2 = e.tee
      OBVIOUS
    <3>2. /\ InStep(n, b, t, g, h, q) /\ n.over /\ HasData(n) = 0
          /\ Ended(b, b2) /\ Ended(t, t2)
      BY <1>11, <2>4, <2>5, <3>1
    <3>3. InStep(n, b2, t2, g, h, q) /\ b2.kind = b.kind
      BY ONLY <3>2, BothEnd
    <3> QED
      BY <3>1, <3>3
  <2> QED
    BY <1>3, <1>7, <2>2, <2>4, <2>6 DEF GoOn, GroupOK, KindsKept
<1>12. CASE w.rv # "error" /\ HasData(n) # 0 /\ GroupNeedsData(d, 2) = 0
  <2>1. u = GoOn(d)
    BY <1>3, <1>8, <1>12 DEF Behaved
  <2> QED
    BY <1>7, <2>1 DEF GoOn
<1>13. CASE w.rv # "error" /\ HasData(n) # 0 /\ GroupNeedsData(d, 2) # 0
  <2>1. PICK s \in HandOver(d) :
          u = IF s.taken = s.size THEN GoOn(s.chain) ELSE Stop(s.chain, "error")
    BY <1>3, <1>8, <1>13 DEF Behaved
  <2>2. s.taken = s.size /\ u = GoOn(s.chain)
    BY <2>1 DEF Stop
  <2>3. GroupOK(s.chain, g, h, q) /\ KindsKept(d, s.chain)
    BY <1>3, <1>7, <1>13, <2>2, HandOverOK
  <2> QED
    BY <1>7, <2>2, <2>3 DEF GoOn, KindsKept
<1> QED
  BY <1>9, <1>10, <1>11, <1>12, <1>13

LEMMA TurnOfSecond ==
  ASSUME NEW c, NEW g \in Seq(Nat), NEW h, NEW q, GroupOK(c, g, h, q),
         NEW u \in Turn(c, 2), u.rv # "error"
  PROVE  /\ GroupOK(u.chain, g, h, q) /\ KindsKept(c, u.chain)
         /\ u.rv = "eof" => u.chain.nodes[2].over /\ HasData(u.chain.nodes[2]) = 0
<1>1. PICK w \in Worked(c.nodes[2]) : u \in Behaved([c EXCEPT !.nodes[2] = w.node], 2, w.rv)
  BY DEF Turn
<1>2. PICK d : d = [c EXCEPT !.nodes[2] = w.node]
  OBVIOUS
<1>3. PICK n : n = d.nodes[2]
  OBVIOUS
<1>4. c \in Chain /\ InStep(c.nodes[1], c.nodes[2], c.tee, g, h, q)
  BY DEF GroupOK
<1>5. InStep(c.nodes[1], w.node, c.tee, g, h, q) /\ w.node.kind = c.nodes[2].kind
  BY <1>4, SecondWorks
<1>6. d \in Chain /\ d.nodes[2] = w.node /\ d.nodes[1] = c.nodes[1] /\ d.tee = c.tee
  <2>1. PICK x \in Node : x = w.node
    BY <1>5 DEF InStep, Sound
  <2>2. 2 \in 1..2 /\ 1 \in 1..2 /\ 1 # 2
    OBVIOUS
  <2>3. d = [c EXCEPT !.nodes[2] = x]
    BY <1>2, <2>1
  <2>4. d \in Chain /\ d.nodes[2] = x /\ d.nodes[1] = c.nodes[1] /\ d.tee = c.tee
    BY <1>4, <2>2, <2>3, NodeReplaced
  <2> QED
    BY <2>1, <2>4
<1>7. GroupOK(d, g, h, q) /\ KindsKept(c, d)
  BY <1>5, <1>6 DEF GroupOK, KindsKept
<1>8. u \in Behaved(d, 2, w.rv)
  BY <1>1, <1>2
<1>9. CASE w.rv = "error"
  <2>1. u = Stop(d, "error")
    BY <1>8, <1>9 DEF Behaved
  <2> QED
    BY <2>1 DEF Stop
<1>10. CASE w.rv # "error" /\ HasData(n) = 0 /\ ~n.over
  <2>1. u = Stop(d, "ok")
    BY <1>3, <1>8, <1>10 DEF Behaved
  <2> QED
    BY <1>7, <2>1 DEF Stop
<1>11. CASE w.rv # "error" /\ HasData(n) = 0 /\ n.over
  <2>1. u = Stop(d, "eof")
    BY <1>3, <1>8, <1>11 DEF Behaved
  <2> QED
    BY <1>3, <1>7, <1>11, <2>1 DEF Stop
<1>12. CASE w.rv # "error" /\ HasData(n) # 0
  <2>1. u = GoOn(d)
    BY <1>3, <1>8, <1>12 DEF Behaved
  <2> QED
    BY <1>7, <2>1 DEF GoOn
<1> QED
  BY <1>9, <1>10, <1>11, <1>12

\* A round of work of the group, other than one that runs into an error.
LEMMA GroupWorks ==
  ASSUME NEW c, NEW g \in Seq(Nat), NEW h, NEW q, GroupOK(c, g, h, q),
         NEW w \in GroupWork(c), w.rv # "error"
  PROVE  /\ GroupOK(w.chain, g, h, q) /\ KindsKept(c, w.chain)
         /\ w.rv = "eof" => w.chain.nodes[2].over /\ HasData(w.chain.nodes[2]) = 0
<1>1. PICK u \in Turn(c, 1) : w \in IF u.on THEN Turn(u.chain, 2) ELSE {u}
  BY DEF GroupWork
<1>2. CASE ~u.on
  <2>1. w = u
    BY <1>1, <1>2
  <2>2. GroupOK(u.chain, g, h, q) /\ KindsKept(c, u.chain) /\ u.rv = "ok"
    BY <2>1, TurnOfFirst
  <2> QED
    BY <2>1, <2>2
<1>3. CASE u.on
  <2>1. u.rv # "error"
    <3>1. \A e, rv : ~Stop(e, rv).on
      BY DEF Stop
    <3>2. \A e : GoOn(e).rv # "error"
      BY DEF GoOn
    <3>3. \A d, rv : \A x \in Behaved(d, 1, rv) : x.on => x.rv # "error"
      BY <3>1, <3>2 DEF Behaved
    <3> QED
      BY <1>3, <3>3 DEF Turn
  <2>2. GroupOK(u.chain, g, h, q) /\ KindsKept(c, u.chain)
    BY <2>1, TurnOfFirst
  <2>3. w \in Turn(u.chain, 2)
    BY <1>1, <1>3
  <2>4. /\ GroupOK(w.chain, g, h, q) /\ KindsKept(u.chain, w.chain)
        /\ w.rv = "eof" => w.chain.nodes[2].over /\ HasData(w.chain.nodes[2]) = 0
    BY <2>2, <2>3, TurnOfSecond
  <2> QED
    BY <2>2, <2>4 DEF KindsKept
<1> QED
  BY <1>2, <1>3

\* The data that the second converter gives on.
LEMMA Drained ==
  ASSUME NEW a, NEW b, NEW t, NEW g \in Seq(Nat), NEW h, NEW q, InStep(a, b, t, g, h, q),
         b.kind # "fileout", NEW got, NEW k, Gives(b, got, k)
  PROVE  InStep(a, got.node, t, g \o FlattenSeq(got.data), h, q)
<1> DEFINE b2 == got.node
           fp == FlattenSeq(got.data)
<1>1. /\ Sound(b2) /\ b2.kind = b.kind /\ b2.eof = b.eof
      /\ got.data \in Seq(Cell) /\ InNode(b) = fp \o InNode(b2)
  BY DEF Gives, Like
<1>2. b.kind # "md5" /\ FlattenSeq(t.data) = g \o InNode(b)
  BY DEF InStep
<1> HIDE DEF b2
<1>3. fp \in Seq(Nat) /\ InNode(b2) \in Seq(Nat)
  BY <1>1, <1>2, FlattenStep, InNodeType DEF Cell
<1> HIDE DEF fp
<1>4. FlattenSeq(t.data) = (g \o fp) \o InNode(b2)
  <2>1. (g \o fp) \o InNode(b2) = g \o (fp \o InNode(b2))
    <3>1. Assoc(g, fp, InNode(b2))
      BY ONLY <1>3, g \in Seq(Nat), Associative
    <3> QED
      BY ONLY <3>1 DEF Assoc
  <2> QED
    BY <1>1, <1>2, <2>1
<1>5. InStep(a, b2, t, g \o fp, h, q)
  BY <1>1, <1>4 DEF InStep
<1> QED
  BY <1>5 DEF b2, fp

\* The data that the first converter is given.
LEMMA FirstIsFed ==
  ASSUME NEW a, NEW b, NEW t, NEW g, NEW h, NEW q, InStep(a, b, t, g, h, q),
         a.kind # "filein", NEW cells \in Seq(Cell), NEW a2, Takes(a, a2, cells),
         b.eof => a.kind = "unzip"
  PROVE  InStep(a2, b, t, g, h \o FlattenSeq(cells), q)
<1> DEFINE ft == FlattenSeq(t.data)
           fc == FlattenSeq(cells)
<1>1. /\ Sound(a2) /\ a2.kind = a.kind /\ a2.over = a.over /\ InNode(a2) = InNode(a) \o fc
      /\ a.kind = "unzip" => HasData(a2) = HasData(a)
  BY DEF Takes, Like
<1>2. ft \in Seq(Nat) /\ fc \in Seq(Nat) /\ InNode(a) \in Seq(Nat)
  <2>1. t \in Node /\ Sound(a) /\ a.kind # "md5"
    BY DEF InStep, Sound
  <2>2. t.data \in Seq(Cell)
    BY <2>1, NodeFields
  <2> QED
    BY <2>1, <2>2, FlattenStep, InNodeType DEF Cell
<1>3. ft \o InNode(a) = h
  BY DEF InStep
<1> HIDE DEF ft, fc
<1>4. ft \o InNode(a2) = h \o fc
  <2>1. (ft \o InNode(a)) \o fc = ft \o (InNode(a) \o fc)
    <3>1. Assoc(ft, InNode(a), fc)
      BY ONLY <1>2, Associative
    <3> QED
      BY ONLY <3>1 DEF Assoc
  <2> QED
    BY <1>1, <1>3, <2>1
<1>5. InStep(a2, b, t, g, h \o fc, q)
  BY <1>1, <1>4 DEF InStep, ft
<1> QED
  BY <1>5 DEF fc

LEMMA FirstIsTold ==
  ASSUME NEW a, NEW b, NEW t, NEW g, NEW h, NEW q, InStep(a, b, t, g, h, q),
         a.kind # "filein", NEW a2, Ended(a, a2)
  PROVE  InStep(a2, b, t, g, h, q)
<1>1. /\ Sound(a2) /\ InNode(a2) = InNode(a) /\ a2.kind = a.kind
      /\ a.kind # "md5" => HasData(a2) = HasData(a)
  BY EndedIsSound DEF InStep
<1>2. a2.over = a.over
  BY DEF Ended
<1> QED
  BY <1>1, <1>2 DEF InStep

-----------------------------------------------------------------------------
(* The beginning of a transfer.                                            *)

LEMMA ConverterFields ==
  ASSUME NEW k \in Kinds
  PROVE  LET n == Converter(k)
         IN  /\ n \in Node /\ n.kind = k /\ n.data = <<>> /\ n.next = 0 /\ n.zpos = 0
             /\ n.room = BufferSize[k] /\ n.input = <<>> /\ n.held = <<>>
             /\ n.eof = FALSE /\ n.over = FALSE /\ n.lost = FALSE /\ n.received = 0
<1>1. BufferSize[k] \in Nat /\ <<>> \in Seq(Cell) /\ <<>> \in Seq(Nat)
  BY Sizes, EmptySeq
<1> QED
  BY <1>1 DEF Converter, Node

\* A ring buffer without data.
LEMMA EmptyRing ==
  ASSUME NEW n \in Node, RingSound(n), n.next = n.zpos, ~Wrapped(n)
  PROVE  Ring(n) = <<>>
<1>1. n.next \in Nat /\ n.data \in Seq(Cell)
  BY NodeFields
<1>2. Ring(n) = SubSeq(n.data, n.next + 1, n.next)
  BY DEF Ring
<1>3. Len(Ring(n)) = 0
  <2>1. Len(SubSeq(n.data, n.next + 1, n.next)) = 0
    <3>1. RingLen(n) = 0
      BY <1>1 DEF RingLen
    <3> QED
      BY <1>2, <3>1, RingFacts
  <2> QED
    BY <1>2, <2>1
<1>4. Ring(n) \in Seq(Cell)
  BY RingFacts
<1> QED
  BY <1>3, <1>4, EmptySeq

\* A ring buffer from which all was taken holds what zlib keeps.
LEMMA EmptyRingBytes ==
  ASSUME NEW n \in Node, RingSound(n), n.kind \in {"zip", "unzip"}, n.next = n.zpos, ~Wrapped(n),
         n.held = <<>>, n.input = <<>>
  PROVE  InNode(n) = <<>>
<1>1. InNode(n) = (FlattenSeq(Ring(n)) \o n.held) \o FlattenSeq(n.input)
  BY RingBytes
<1>2. FlattenSeq(Ring(n)) = <<>> /\ FlattenSeq(n.input) = <<>>
  BY EmptyRing, FlattenEmpty
<1>3. <<>> \o <<>> = <<>>
  OBVIOUS
<1> QED
  BY <1>1, <1>2, <1>3

\* New converters.
Fresh(n) == Sound(n) /\ n.eof = FALSE /\ InNode(n) = <<>>

LEMMA BehindEmpty == Behind(<<>>, 0) = <<>>
BY BehindAll, EmptySeq

LEMMA DummyIsFresh == Fresh(DummyNew) /\ DummyNew.kind = "dummy"
<1> DEFINE n == DummyNew
<1>1. /\ n \in Node /\ n.kind = "dummy" /\ n.data = <<>> /\ n.next = 0
      /\ n.eof = FALSE /\ n.over = FALSE /\ n.lost = FALSE
  BY ConverterFields DEF DummyNew, Kinds
<1> HIDE DEF n
<1>2. DummySound(n)
  BY <1>1, Sizes DEF DummySound, Kinds
<1>3. InNode(n) = <<>>
  BY <1>1, InNodeIs, BehindEmpty, FlattenEmpty
<1>4. Fresh(n) /\ n.kind = "dummy"
  BY <1>1, <1>2, <1>3 DEF Fresh, Sound, OverSound
<1> QED
  BY <1>4 DEF n

LEMMA RingIsFresh ==
  ASSUME NEW k \in {"zip", "unzip"}
  PROVE  LET n == [Converter(k) EXCEPT !.data = ZeroedBuffer(k)]
         IN  Fresh(n) /\ n.kind = k
<1> DEFINE z == ZeroedBuffer(k)
           n == [Converter(k) EXCEPT !.data = z]
           size == BufferSize[k]
<1>1. size \in Nat /\ size >= 1 /\ k \in Kinds
  BY Sizes DEF Kinds
<1>2. z \in Seq(Cell) /\ Len(z) = size
  <2>1. z \in [1..size -> Cell]
    <3>1. <<0>> \in Cell
      BY DEF Cell
    <3> QED
      BY <3>1 DEF ZeroedBuffer
  <2> HIDE DEF z, size
  <2> QED
    BY <1>1, <2>1, FunctionIsSeq
<1> HIDE DEF z
<1>3. /\ n \in Node /\ n.kind = k /\ n.data = z /\ n.next = 0 /\ n.zpos = 0
      /\ n.room = size /\ n.input = <<>> /\ n.held = <<>>
      /\ n.eof = FALSE /\ n.over = FALSE /\ n.lost = FALSE
  <2>1. PICK c \in Node : c = Converter(k)
    BY <1>1, ConverterFields
  <2>2. /\ c.kind = k /\ c.next = 0 /\ c.zpos = 0 /\ c.room = size /\ c.input = <<>>
        /\ c.held = <<>> /\ c.eof = FALSE /\ c.over = FALSE /\ c.lost = FALSE
    BY <1>1, <2>1, ConverterFields
  <2>3. n = [c EXCEPT !.data = z]
    BY <2>1
  <2> HIDE DEF n, size
  <2> QED
    BY <1>2, <2>2, <2>3 DEF Node
<1> HIDE DEF n
<1>4. RingSound(n)
  <2>1. InSize[k] \in Nat
    BY Sizes
  <2>2. <<>> \in Seq(Nat) /\ Len(<<>>) = 0
    BY EmptySeq
  <2> QED
    BY <1>1, <1>2, <1>3, <2>1, <2>2 DEF RingSound
<1>5. ~Wrapped(n)
  BY <1>1, <1>3 DEF Wrapped
<1>6. InNode(n) = <<>>
  BY <1>3, <1>4, <1>5, EmptyRingBytes
<1>7. Fresh(n) /\ n.kind = k
  BY <1>3, <1>4, <1>6 DEF Fresh, Sound, OverSound
<1> QED
  BY <1>7 DEF n, z

LEMMA FileOutIsFresh ==
  Fresh(FileOutNew) /\ FileOutNew.kind = "fileout" /\ FileOutNew.data = <<>>
  /\ FileOutNew.received = 0
<1> DEFINE n == FileOutNew
<1>1. /\ n \in Node /\ n.kind = "fileout" /\ n.data = <<>> /\ n.received = 0
      /\ n.eof = FALSE /\ n.over = FALSE /\ n.lost = FALSE
  BY ConverterFields DEF FileOutNew, Kinds
<1> HIDE DEF n
<1>2. InNode(n) = <<>>
  BY <1>1, InNodeIs, FlattenEmpty
<1>3. Fresh(n)
  BY <1>1, <1>2 DEF Fresh, Sound, OverSound
<1> QED
  BY <1>1, <1>3 DEF n

LEMMA Md5IsFresh ==
  /\ Sound(Md5New) /\ Md5New.kind = "md5" /\ Md5New.data = <<>> /\ Md5New.next = 0
  /\ Md5New.eof = FALSE
<1> DEFINE n == Md5New
<1>1. /\ n \in Node /\ n.kind = "md5" /\ n.data = <<>> /\ n.next = 0
      /\ n.eof = FALSE /\ n.over = FALSE /\ n.lost = FALSE
  BY ConverterFields DEF Md5New, Kinds
<1> HIDE DEF n
<1>2. Sound(n)
  BY <1>1 DEF Sound, OverSound
<1> QED
  BY <1>1, <1>2 DEF n

LEMMA FileInIsFresh ==
  ASSUME NEW r \in Seq(Cell)
  PROVE  LET n == FileInNew(r)
         IN  /\ Sound(n) /\ n.kind = "filein" /\ n.eof = FALSE
             /\ Unread(n) = r /\ InNode(n) = FlattenSeq(r)
<1> DEFINE n == FileInNew(r)
<1>1. /\ n \in Node /\ n.kind = "filein" /\ n.data = <<>> /\ n.next = 0 /\ n.held = r
      /\ n.eof = FALSE /\ n.over = FALSE /\ n.lost = FALSE
  <2>1. PICK c \in Node : c = Converter("filein")
    BY ConverterFields DEF Kinds
  <2>2. /\ c.kind = "filein" /\ c.data = <<>> /\ c.next = 0
        /\ c.eof = FALSE /\ c.over = FALSE /\ c.lost = FALSE
    BY <2>1, ConverterFields DEF Kinds
  <2>3. n = [c EXCEPT !.held = r]
    BY <2>1 DEF FileInNew
  <2> HIDE DEF n
  <2> QED
    BY <2>2, <2>3 DEF Node
<1> HIDE DEF n
<1>2. FileInSound(n)
  BY <1>1, Sizes DEF FileInSound, Kinds
<1>3. Unread(n) = r
  BY <1>1, BehindEmpty, EmptyFacts DEF Unread
<1>4. InNode(n) = FlattenSeq(r)
  BY <1>1, <1>3, InNodeIs
<1>5. /\ Sound(n) /\ n.kind = "filein" /\ n.eof = FALSE
      /\ Unread(n) = r /\ InNode(n) = FlattenSeq(r)
  BY <1>1, <1>2, <1>3, <1>4 DEF Sound, OverSound
<1> QED
  BY <1>5 DEF n

LEMMA ContentFacts ==
  ASSUME world \in Worlds
  PROVE  /\ world.size \in Nat /\ world.at \in Nat
         /\ Content \in Seq(Cell) /\ Readable \in Seq(Cell)
         /\ Len(Readable) = world.size => Readable = Content
<1>1. world.size \in Nat /\ world.at \in Nat
  BY SizesAssumption
<1>2. Content \in Seq(Cell) /\ Len(Content) = world.size
  <2>1. \A i \in 1..world.size : <<i>> \in Cell
    <3>1. \A i \in 1..world.size : i \in Nat
      BY <1>1
    <3> QED
      BY <3>1 DEF Cell
  <2>2. Content \in [1..world.size -> Cell]
    BY <2>1 DEF Content
  <2> QED
    BY <1>1, <2>2, FunctionIsSeq
<1>3. At("read") \in Nat
  BY <1>1 DEF At
<1>4. /\ Readable \in Seq(Cell)
      /\ Len(Readable) = IF At("read") <= Len(Content) THEN At("read") ELSE Len(Content)
  BY <1>2, <1>3, FirstFacts DEF Readable
<1>5. Len(Readable) = world.size => Readable = Content
  <2> SUFFICES ASSUME Len(Readable) = world.size PROVE Readable = Content
    OBVIOUS
  <2>1. At("read") >= Len(Content)
    BY <1>1, <1>2, <1>3, <1>4
  <2> QED
    BY <1>2, <1>3, <2>1, FirstAll DEF Readable
<1> QED
  BY <1>1, <1>2, <1>4, <1>5

LEMMA StoreBegins ==
  ASSUME world \in Worlds
  PROVE  /\ GroupOK(StoreChain, <<>>, FlattenSeq(Readable), Readable)
         /\ StoreChain.nodes[1].kind = "filein"
         /\ StoreChain.nodes[2].kind = IF world.zip THEN "zip" ELSE "dummy"
<1> DEFINE a == FileInNew(Readable)
           b == IF world.zip THEN ZipNew ELSE DummyNew
           t == Md5New
<1>1. StoreChain = [nodes |-> <<a, b>>, tee |-> t]
  BY DEF StoreChain, Readable
<1>2. Readable \in Seq(Cell)
  BY ContentFacts
<1>3. /\ Sound(a) /\ a.kind = "filein" /\ a.eof = FALSE
      /\ Unread(a) = Readable /\ InNode(a) = FlattenSeq(Readable)
  BY <1>2, FileInIsFresh
<1>4. Fresh(b) /\ b.kind = IF world.zip THEN "zip" ELSE "dummy"
  BY DummyIsFresh, RingIsFresh DEF ZipNew
<1>5. Sound(t) /\ t.kind = "md5" /\ t.data = <<>> /\ t.next = 0 /\ t.eof = FALSE
  BY Md5IsFresh
<1> HIDE DEF a, b, t
<1>6. /\ StoreChain \in Chain /\ StoreChain.nodes[1] = a /\ StoreChain.nodes[2] = b
      /\ StoreChain.tee = t
  <2>1. a \in Node /\ b \in Node /\ t \in Node
    BY <1>3, <1>4, <1>5 DEF Sound, Fresh
  <2> QED
    BY <1>1, <2>1 DEF Chain
<1>7. FlattenSeq(Readable) \in Seq(Nat)
  BY <1>2, FlattenStep DEF Cell
<1>8. InStep(a, b, t, <<>>, FlattenSeq(Readable), Readable)
  <2>1. <<>> \o FlattenSeq(Readable) = FlattenSeq(Readable) /\ <<>> \o Readable = Readable
        /\ <<>> \o <<>> = <<>>
    BY <1>2, <1>7, EmptyFacts
  <2>2. b.kind \in {"zip", "dummy"}
    BY <1>4
  <2> QED
    BY <1>3, <1>4, <1>5, <2>1, <2>2, FlattenEmpty DEF InStep, Fresh
<1> QED
  BY <1>3, <1>4, <1>6, <1>8 DEF GroupOK

LEMMA RestoreBegins ==
  /\ GroupOK(RestoreChain, <<>>, <<>>, <<>>)
  /\ RestoreChain.nodes[1].kind = IF world.zip THEN "unzip" ELSE "dummy"
  /\ RestoreChain.nodes[2].kind = "fileout"
<1> DEFINE a == IF world.zip THEN UnzipNew ELSE DummyNew
           b == FileOutNew
           t == Md5New
<1>1. RestoreChain = [nodes |-> <<a, b>>, tee |-> t]
  BY DEF RestoreChain
<1>3. Fresh(a) /\ a.kind = IF world.zip THEN "unzip" ELSE "dummy"
  BY DummyIsFresh, RingIsFresh DEF UnzipNew
<1>4. Fresh(b) /\ b.kind = "fileout" /\ b.data = <<>> /\ b.received = 0
  BY FileOutIsFresh
<1>5. Sound(t) /\ t.kind = "md5" /\ t.data = <<>> /\ t.next = 0 /\ t.eof = FALSE
  BY Md5IsFresh
<1> HIDE DEF a, b, t
<1>6. /\ RestoreChain \in Chain /\ RestoreChain.nodes[1] = a /\ RestoreChain.nodes[2] = b
      /\ RestoreChain.tee = t
  <2>1. a \in Node /\ b \in Node /\ t \in Node
    BY <1>3, <1>4, <1>5 DEF Sound, Fresh
  <2> QED
    BY <1>1, <2>1 DEF Chain
<1>8. InStep(a, b, t, <<>>, <<>>, <<>>)
  <2>1. <<>> \o <<>> = <<>> /\ Len(<<>>) = 0
    OBVIOUS
  <2>2. a.kind \in {"unzip", "dummy"}
    BY <1>3
  <2> QED
    BY <1>3, <1>4, <1>5, <2>1, <2>2, FlattenEmpty DEF InStep, Fresh
<1> QED
  BY <1>3, <1>4, <1>6, <1>8 DEF GroupOK

-----------------------------------------------------------------------------
(* The steps of StoreFile, RestoreFile and GetMD5.                         *)

LEMMA Beginning == Init => IInv
<1> SUFFICES ASSUME Init PROVE IInv
  OBVIOUS
<1>1. world \in Worlds /\ op = "store" /\ phase = "work" /\ chain = StoreChain
      /\ ineof = FALSE /\ outeof = FALSE /\ file = <<>> /\ sent = 0
      /\ result = [store |-> "none", restore |-> "none", check |-> NoVersion]
  BY DEF Init
<1>2. /\ GroupOK(chain, <<>>, FlattenSeq(Readable), Readable)
      /\ chain.nodes[1].kind = "filein"
      /\ chain.nodes[2].kind = IF world.zip THEN "zip" ELSE "dummy"
  BY <1>1, StoreBegins
<1>3. NoVersion \in Seq(Cell)
  <2>1. <<0, 0>> \in Cell
    BY DEF Cell
  <2> QED
    BY <2>1 DEF NoVersion
<1>4. Types
  <2>1. file \in Seq(Cell) /\ sent \in 0..Len(file)
    <3>1. file \in Seq(Cell) /\ Len(file) = 0
      BY <1>1, EmptySeq
    <3> QED
      BY <1>1, <3>1
  <2>2. chain \in Chain /\ Sound(chain.nodes[1]) /\ Sound(chain.nodes[2])
    BY <1>2 DEF GroupOK, InStep
  <2>3. result \in [store : {"none", "ok", "failed"}, restore : {"none", "ok", "failed"},
                    check : Seq(Cell)]
    BY <1>1, <1>3
  <2> QED
    BY <1>1, <2>1, <2>2, <2>3 DEF Types
<1>5. Storing
  <2>1. FlattenSeq(file) = <<>>
    BY <1>1, FlattenEmpty
  <2> QED
    BY <1>1, <1>2, <2>1 DEF Storing
<1>6. Restoring /\ Checking /\ Ending
  BY <1>1 DEF Restoring, Checking, Ending
<1> QED
  BY <1>4, <1>5, <1>6 DEF IInv

\* What stays while the world does.
LEMMA WorldStays ==
  ASSUME world' = world
  PROVE  Content' = Content /\ Readable' = Readable
BY DEF Content, Readable, At

LEMMA ReturnOK ==
  ASSUME IInv, op \in {"store", "restore"}, world' = world, Return("failed")
  PROVE  IInv'
<1>1. /\ op' = "done" /\ phase' = "done" /\ chain' = chain /\ ineof' = ineof /\ outeof' = outeof
      /\ file' = file /\ sent' = sent
      /\ result' = [result EXCEPT ![op] = "failed"]
  BY DEF Return
<1>2. Types
  BY DEF IInv
<1>3. result.restore # "ok"
  BY DEF IInv, Storing, Restoring
<1>4. /\ result' \in [store : {"none", "ok", "failed"}, restore : {"none", "ok", "failed"},
                      check : Seq(Cell)]
      /\ result'.restore # "ok"
  BY <1>1, <1>2, <1>3 DEF Types
<1>5. Types'
  BY <1>1, <1>2, <1>4 DEF Types
<1>6. Storing' /\ Restoring' /\ Checking' /\ Ending'
  BY <1>1, <1>4 DEF Storing, Restoring, Checking, Ending
<1> QED
  BY <1>5, <1>6 DEF IInv

LEMMA StoreWorkOK ==
  ASSUME IInv, StoreWork
  PROVE  IInv'
<1>1. op = "store" /\ phase = "work" /\ world' = world
  BY DEF StoreWork
<1>2. PICK w \in GroupWork(chain) :
        IF w.rv = "error" THEN Return("failed")
        ELSE /\ chain' = w.chain
             /\ outeof' = (w.rv = "eof")
             /\ phase' = "drain"
             /\ UNCHANGED <<op, ineof, file, sent, version, result>>
  BY DEF StoreWork
<1>3. CASE w.rv = "error"
  BY <1>1, <1>2, <1>3, ReturnOK
<1>4. CASE w.rv # "error"
  <2>1. /\ chain' = w.chain /\ outeof' = (w.rv = "eof") /\ phase' = "drain"
        /\ op' = op /\ ineof' = ineof /\ file' = file /\ sent' = sent /\ result' = result
    BY <1>2, <1>4
  <2>2. Types /\ Storing
    BY DEF IInv
  <2>3. PICK g \in Seq(Nat) : g = FlattenSeq(file)
    BY <2>2, FlattenStep DEF Types, Cell
  <2>4. GroupOK(chain, g, FlattenSeq(Readable), Readable)
    BY <1>1, <2>2, <2>3 DEF Storing
  <2>5. /\ GroupOK(w.chain, g, FlattenSeq(Readable), Readable) /\ KindsKept(chain, w.chain)
        /\ w.rv = "eof" => w.chain.nodes[2].over /\ HasData(w.chain.nodes[2]) = 0
    BY <1>4, <2>4, GroupWorks
  <2>6. Readable' = Readable
    BY <1>1, WorldStays
  <2>7. chain' \in Chain /\ Sound(chain'.nodes[1]) /\ Sound(chain'.nodes[2])
    BY <2>1, <2>5 DEF GroupOK, InStep
  <2>8. Types'
    BY <1>1, <2>1, <2>2, <2>7 DEF Types
  <2>9. Storing'
    <3>1. GroupOK(chain', FlattenSeq(file'), FlattenSeq(Readable'), Readable')
      BY <2>1, <2>3, <2>5, <2>6
    <3> QED
      BY <1>1, <2>1, <2>2, <2>5, <3>1 DEF Storing, KindsKept
  <2>10. Restoring' /\ Checking' /\ Ending'
    BY <1>1, <2>1 DEF Restoring, Checking, Ending
  <2> QED
    BY <2>8, <2>9, <2>10 DEF IInv
<1> QED
  BY <1>3, <1>4

LEMMA StoreDrainOK ==
  ASSUME IInv, StoreDrain
  PROVE  IInv'
<1> DEFINE b == chain.nodes[2]
           has == HasData(b)
           k == Least({has, StoreBuffer})
           got == GetData(b, k)
<1>1. op = "store" /\ phase = "drain" /\ world' = world
  BY DEF StoreDrain
<1>2. IF has = 0
      THEN /\ phase' = IF outeof THEN "sum" ELSE "work"
           /\ UNCHANGED <<op, chain, ineof, outeof, file, sent, version, result>>
      ELSE IF got.data = <<>> \/ Len(file) + Len(got.data) > At("room")
      THEN Return("failed")
      ELSE /\ chain' = [chain EXCEPT !.nodes[2] = got.node]
           /\ file' = file \o got.data
           /\ UNCHANGED <<op, phase, ineof, outeof, sent, version, result>>
  BY DEF StoreDrain
<1>3. Types /\ Storing /\ Readable' = Readable
  BY <1>1, WorldStays DEF IInv
<1>4. /\ GroupOK(chain, FlattenSeq(file), FlattenSeq(Readable), Readable)
      /\ b.kind = IF world.zip THEN "zip" ELSE "dummy"
      /\ outeof => b.over
  BY <1>1, <1>3 DEF Storing
<1>5. CASE has = 0
  <2>1. /\ phase' = (IF outeof THEN "sum" ELSE "work")
        /\ op' = op /\ chain' = chain /\ ineof' = ineof /\ outeof' = outeof /\ file' = file
        /\ sent' = sent /\ result' = result
    BY <1>2, <1>5
  <2>2. Types'
    BY <1>1, <1>3, <2>1 DEF Types
  <2>3. Storing'
    <3>1. phase' \in {"sum", "work"} /\ (phase' = "sum" => chain'.nodes[2].over
                                                           /\ HasData(chain'.nodes[2]) = 0)
      BY <1>4, <1>5, <2>1
    <3> QED
      BY <1>1, <1>3, <2>1, <3>1 DEF Storing
  <2>4. Restoring' /\ Checking' /\ Ending'
    BY <1>1, <2>1 DEF Restoring, Checking, Ending
  <2> QED
    BY <2>2, <2>3, <2>4 DEF IInv
<1>6. CASE has # 0 /\ (got.data = <<>> \/ Len(file) + Len(got.data) > At("room"))
  <2>1. Return("failed")
    BY <1>2, <1>6
  <2> QED
    BY <1>1, <2>1, ReturnOK
<1>7. CASE has # 0 /\ ~(got.data = <<>> \/ Len(file) + Len(got.data) > At("room"))
  <2>1. /\ chain' = [chain EXCEPT !.nodes[2] = got.node]
        /\ file' = file \o got.data
        /\ op' = op /\ phase' = phase /\ ineof' = ineof /\ outeof' = outeof
        /\ sent' = sent /\ result' = result
    BY <1>2, <1>7
  <2>2. /\ chain \in Chain
        /\ InStep(chain.nodes[1], b, chain.tee, FlattenSeq(file), FlattenSeq(Readable), Readable)
    BY <1>4 DEF GroupOK
  <2>3. Sound(b) /\ b.kind # "md5" /\ b.kind # "fileout"
    <3>1. b.kind \in {"zip", "dummy"}
      BY <1>4
    <3> QED
      BY <2>2, <3>1 DEF InStep
  <2> HIDE DEF b
  <2>4. k \in Nat /\ k >= 1 /\ k <= has
    <3>1. has \in Nat /\ has # 0 /\ StoreBuffer \in Nat /\ StoreBuffer >= 1
      BY <1>7, <2>3, HasDataType, Sizes
    <3> HIDE DEF has
    <3>2. k = IF has <= StoreBuffer THEN has ELSE StoreBuffer
      BY <3>1, LeastOfTwo
    <3> QED
      BY <3>1, <3>2
  <2> HIDE DEF k
  <2>5. Gives(b, got, k)
    BY <2>3, <2>4, NodeGives
  <2> HIDE DEF got
  <2>6. /\ Sound(got.node) /\ got.node \in Node /\ got.node.kind = b.kind /\ got.node.over = b.over
        /\ got.data \in Seq(Cell)
    BY <2>5 DEF Gives, Like, Sound
  <2>7. PICK g \in Seq(Nat) : g = FlattenSeq(file)
    BY <1>3, FlattenStep DEF Types, Cell
  <2>8. /\ InStep(chain.nodes[1], got.node, chain.tee, g \o FlattenSeq(got.data),
                  FlattenSeq(Readable), Readable)
    <3>1. PICK a, t : a = chain.nodes[1] /\ t = chain.tee
      OBVIOUS
    <3>2. InStep(a, b, t, g, FlattenSeq(Readable), Readable)
      BY <2>2, <2>7, <3>1
    <3>3. InStep(a, got.node, t, g \o FlattenSeq(got.data), FlattenSeq(Readable), Readable)
      BY <2>3, <2>5, <3>2, Drained
    <3> QED
      BY <3>1, <3>3
  <2>9. file' \in Seq(Cell) /\ FlattenSeq(file') = g \o FlattenSeq(got.data)
        /\ Len(file') >= Len(file) /\ Len(file') \in Nat /\ Len(file) \in Nat
    <3>1. file \in Seq(Cell)
      BY <1>3 DEF Types
    <3>2. file \o got.data \in Seq(Cell) /\ Len(file \o got.data) = Len(file) + Len(got.data)
      BY <2>6, <3>1, ConcatProperties
    <3>3. FlattenSeq(file \o got.data) = FlattenSeq(file) \o FlattenSeq(got.data)
      BY <2>6, <3>1, FlattenConcat DEF Cell
    <3>4. Len(file) \in Nat /\ Len(got.data) \in Nat
      BY <2>6, <3>1, EmptyFacts
    <3> QED
      BY <2>1, <2>7, <3>2, <3>3, <3>4
  <2>10. /\ chain' \in Chain /\ chain'.nodes[2] = got.node /\ chain'.nodes[1] = chain.nodes[1]
         /\ chain'.tee = chain.tee
    <3>1. PICK x \in Node : x = got.node
      BY <2>6
    <3>2. 2 \in 1..2 /\ 1 \in 1..2 /\ 1 # 2
      OBVIOUS
    <3>3. chain' = [chain EXCEPT !.nodes[2] = x]
      BY <2>1, <3>1
    <3> QED
      BY <2>2, <3>1, <3>2, <3>3, NodeReplaced
  <2>11. Types'
    <3>1. sent' \in 0..Len(file')
      <4>1. sent \in 0..Len(file)
        BY <1>3 DEF Types
      <4> QED
        BY <2>1, <2>9, <4>1
    <3> QED
      BY <1>1, <1>3, <2>1, <2>6, <2>9, <2>10, <3>1 DEF Types
  <2>12. Storing'
    <3>1. GroupOK(chain', FlattenSeq(file'), FlattenSeq(Readable'), Readable')
      BY <1>3, <2>8, <2>9, <2>10 DEF GroupOK
    <3>2. phase' = "drain" /\ (outeof' => chain'.nodes[2].over)
      BY <1>1, <1>4, <2>1, <2>6, <2>10 DEF b
    <3>3. chain'.nodes[2].kind = (IF world.zip THEN "zip" ELSE "dummy")
          /\ chain'.nodes[1].kind = "filein"
      BY <1>1, <1>3, <1>4, <2>6, <2>10 DEF b, Storing
    <3> QED
      BY <1>1, <1>3, <2>1, <3>1, <3>2, <3>3 DEF Storing
  <2>13. Restoring' /\ Checking' /\ Ending'
    BY <1>1, <2>1 DEF Restoring, Checking, Ending
  <2> QED
    BY <2>11, <2>12, <2>13 DEF IInv
<1> QED
  BY <1>5, <1>6, <1>7

LEMMA DamagedType ==
  ASSUME world \in Worlds, NEW cells \in Seq(Cell)
  PROVE  Damaged(cells) \in Seq(Cell)
<1>1. world.at \in Nat
  BY ContentFacts
<1>2. CASE world.fault = "cut"
  BY <1>1, <1>2, FirstFacts DEF Damaged
<1>3. CASE world.fault = "changed"
  <2>1. PICK n \in Nat : n = Len(cells) /\ DOMAIN cells = 1..n
    BY LenProperties
  <2> DEFINE d == [i \in 1..n |-> IF i = world.at THEN <<0>> ELSE cells[i]]
  <2>2. Damaged(cells) = d
    BY <1>3, <2>1 DEF Damaged
  <2>3. d \in [1..n -> Cell]
    <3>1. \A i \in 1..n : cells[i] \in Cell
      BY <2>1, ElementOfSeq
    <3>2. <<0>> \in Cell
      BY DEF Cell
    <3> QED
      BY <3>1, <3>2
  <2> HIDE DEF d
  <2>4. d \in Seq(Cell)
    BY <2>3, FunctionIsSeq
  <2> QED
    BY <2>2, <2>4
<1>4. CASE world.fault \notin {"cut", "changed"}
  BY <1>4 DEF Damaged
<1> QED
  BY <1>2, <1>3, <1>4

\* When the second converter met its end nothing is left in the converters and
\* the digest is ready.
LEMMA AllIsThrough ==
  ASSUME NEW a, NEW b, NEW t, NEW g, NEW h, NEW q, InStep(a, b, t, g, h, q),
         a.kind = "filein", b.kind \in {"zip", "dummy"}, b.over, HasData(b) = 0
  PROVE  /\ InNode(a) = <<>> /\ InNode(b) = <<>> /\ Unread(a) = <<>>
         /\ HasData(t) > 0 /\ t.data = q
<1>1. Sound(a) /\ Sound(b) /\ Sound(t) /\ t.kind = "md5" /\ t.next = 0 /\ t.eof = b.eof
  BY DEF InStep
<1>2. b.eof /\ (b.kind = "zip" => b.held = <<>> /\ b.input = <<>>)
  BY <1>1 DEF Sound, OverSound
<1>3. a.over
  BY <1>2 DEF InStep
<1>4. a.eof
  BY <1>1, <1>3 DEF Sound, OverSound
<1>5. a.held = <<>> /\ a.next = Len(a.data) /\ a.data \in Seq(Cell)
  BY <1>1, <1>4, NodeFields DEF Sound, FileInSound
<1>6. Unread(a) = <<>>
  <2>1. Behind(a.data, a.next) = <<>>
    BY <1>5, BehindAll
  <2>2. <<>> \o <<>> = <<>>
    OBVIOUS
  <2> QED
    BY <1>5, <2>1, <2>2 DEF Unread
<1>7. InNode(a) = <<>>
  BY <1>6, InNodeIs, FlattenEmpty
<1>8. /\ b \in Node /\ b.lost = FALSE /\ b.data \in Seq(Cell) /\ b.next \in Nat /\ b.zpos \in Nat
      /\ Len(b.data) \in Nat
  BY <1>1, NodeFields DEF Sound
<1>9. InNode(b) = <<>>
  <2>1. CASE b.kind = "dummy"
    <3>1. HasData(b) = Len(b.data) - b.next
      BY <1>8, <2>1, HasDataIs
    <3>2. b.next = Len(b.data)
      BY <1>8, <3>1
    <3>3. Behind(b.data, b.next) = <<>>
      BY <1>8, <3>2, BehindAll
    <3> QED
      BY <2>1, <3>3, InNodeIs, FlattenEmpty
  <2>2. CASE b.kind = "zip"
    <3>1. RingSound(b)
      BY <1>1, <2>2 DEF Sound
    <3>2. /\ BufferSize[b.kind] \in Nat /\ b.next < BufferSize[b.kind]
          /\ BufferSize.zip = BufferSize[b.kind]
      BY <1>8, <2>2, <3>1, RingNumbers, Sizes
    <3>3. HasData(b) = IF Wrapped(b) THEN BufferSize[b.kind] - b.next ELSE b.zpos - b.next
      BY <1>8, <2>2, <3>2, HasDataIs DEF ZipHasData
    <3>4. ~Wrapped(b) /\ b.next = b.zpos
      BY <1>8, <3>2, <3>3
    <3> QED
      BY <1>2, <1>8, <2>2, <3>1, <3>4, EmptyRingBytes
  <2> QED
    BY <2>1, <2>2
<1>10. HasData(t) > 0
  <2>1. t.lost = FALSE
    BY <1>1, NodeFields DEF Sound
  <2>2. HasData(t) = BufferSize.md5 - 0
    BY <1>1, <1>2, <2>1, HasDataIs DEF Md5HasData
  <2>3. BufferSize.md5 \in Nat /\ BufferSize.md5 >= 1
    BY Sizes DEF Kinds
  <2> QED
    BY <2>2, <2>3
<1>11. t.data = q
  <2>1. t.data \o Unread(a) = q
    BY DEF InStep
  <2>2. t.data \in Seq(Cell)
    BY <1>1, NodeFields DEF Sound
  <2> QED
    BY <1>6, <2>1, <2>2, EmptyFacts
<1> QED
  BY <1>6, <1>7, <1>9, <1>10, <1>11

LEMMA StoreEndOK ==
  ASSUME IInv, StoreEnd
  PROVE  IInv'
<1>1. op = "store" /\ phase = "sum" /\ world' = world
  BY DEF StoreEnd
<1>2. /\ version' = (IF HasData(chain.tee) > 0 THEN chain.tee.data ELSE version)
      /\ file' = Damaged(file) /\ op' = "restore"
      /\ result' = [result EXCEPT !.store = "ok",
                                  !.restore = IF world.fault = "open" THEN "failed" ELSE @]
      /\ phase' = (IF world.fault = "open" THEN "done" ELSE "feed")
      /\ chain' = RestoreChain /\ ineof' = FALSE /\ outeof' = FALSE /\ sent' = 0
  BY DEF StoreEnd
<1>3. Types /\ Storing /\ Readable' = Readable
  BY <1>1, WorldStays DEF IInv
<1>4. version' = Readable
  <2>1. /\ InStep(chain.nodes[1], chain.nodes[2], chain.tee, FlattenSeq(file),
                  FlattenSeq(Readable), Readable)
        /\ chain.nodes[1].kind = "filein" /\ chain.nodes[2].kind \in {"zip", "dummy"}
        /\ chain.nodes[2].over /\ HasData(chain.nodes[2]) = 0
    BY <1>1, <1>3 DEF Storing, GroupOK
  <2>2. HasData(chain.tee) > 0 /\ chain.tee.data = Readable
    <3>1. PICK a, b, t : a = chain.nodes[1] /\ b = chain.nodes[2] /\ t = chain.tee
      OBVIOUS
    <3>2. HasData(t) > 0 /\ t.data = Readable
      BY <2>1, <3>1, AllIsThrough
    <3> QED
      BY <3>1, <3>2
  <2> QED
    BY <1>2, <2>2
<1>5. /\ GroupOK(chain', <<>>, <<>>, <<>>)
      /\ chain'.nodes[1].kind = IF world.zip THEN "unzip" ELSE "dummy"
      /\ chain'.nodes[2].kind = "fileout"
  BY <1>2, RestoreBegins
<1>6. file' \in Seq(Cell) /\ sent' \in 0..Len(file')
  <2>1. file' \in Seq(Cell)
    BY <1>2, <1>3, DamagedType DEF Types
  <2>2. Len(file') \in Nat
    BY <2>1, EmptyFacts
  <2> QED
    BY <1>2, <2>1, <2>2
<1>7. /\ result' \in [store : {"none", "ok", "failed"}, restore : {"none", "ok", "failed"},
                      check : Seq(Cell)]
      /\ result'.restore # "ok" /\ result'.check = NoVersion
  BY <1>1, <1>2, <1>3 DEF Types, Storing
<1>8. Types'
  <2>1. chain' \in Chain /\ Sound(chain'.nodes[1]) /\ Sound(chain'.nodes[2])
    BY <1>5 DEF GroupOK, InStep
  <2> QED
    BY <1>1, <1>2, <1>3, <1>6, <1>7, <2>1 DEF Types
<1>9. Restoring'
  <2>1. Fed' = <<>>
    BY <1>5 DEF Fed, GroupOK, InStep
  <2>2. Fed' \o FlattenSeq(Behind(file', sent')) = FlattenSeq(file')
    <3>1. Behind(file', 0) = file'
      BY <1>6, BehindAll
    <3>2. FlattenSeq(file') \in Seq(Nat)
      BY <1>6, FlattenStep DEF Cell
    <3> QED
      BY <1>2, <2>1, <3>1, <3>2, EmptyFacts
  <2>3. GroupOK(chain', <<>>, Fed', <<>>)
    BY <1>5, <2>1
  <2>4. phase' \in {"feed", "work", "sum", "done"}
    BY <1>2
  <2>5. chain'.nodes[1].kind = IF world'.zip THEN "unzip" ELSE "dummy"
    BY <1>1, <1>5
  <2> QED
    BY <1>3, <1>4, <1>5, <1>7, <2>2, <2>3, <2>4, <2>5 DEF Restoring
<1>10. Storing' /\ Checking' /\ Ending'
  BY <1>2 DEF Storing, Checking, Ending
<1> QED
  BY <1>8, <1>9, <1>10 DEF IInv

\* What is read next of a file, and what remains.
LEMMA ReadOn ==
  ASSUME NEW s \in Seq(Cell), NEW n \in 0..Len(s), NEW k \in Nat
  PROVE  LET p == First(Behind(s, n), k)
         IN  /\ p \in Seq(Cell) /\ Len(p) \in Nat /\ Len(p) <= k
             /\ n + Len(p) \in 0..Len(s)
             /\ Behind(s, n) = p \o Behind(s, n + Len(p))
<1> DEFINE r == Behind(s, n)
           p == First(r, k)
<1>1. Len(s) \in Nat /\ n \in Nat /\ n <= Len(s)
  BY LenProperties
<1>2. r \in Seq(Cell) /\ Len(r) = Len(s) - n /\ \A i \in 1 .. Len(r) : r[i] = s[n + i]
  BY <1>1, BehindFacts
<1> HIDE DEF r
<1>3. /\ p \in Seq(Cell) /\ Len(p) = (IF k <= Len(r) THEN k ELSE Len(r))
      /\ \A i \in 1 .. Len(p) : p[i] = r[i]
  BY <1>2, FirstFacts
<1> HIDE DEF p
<1>4. Len(p) \in Nat /\ Len(p) <= k /\ Len(p) <= Len(r) /\ n + Len(p) <= Len(s)
  BY <1>1, <1>2, <1>3
<1>5. Continues(s, p, n, Len(p))
  <2> SUFFICES ASSUME NEW i \in 1 .. Len(p) PROVE s[n + i] = p[i]
    BY DEF Continues
  <2>1. i \in 1 .. Len(r)
    BY <1>1, <1>2, <1>4
  <2> QED
    BY <1>2, <1>3, <2>1
<1>6. PICK m \in Nat : m = n + Len(p)
  BY <1>1, <1>4
<1>7. r = p \o Behind(s, m)
  <2>1. m <= Len(s)
    BY <1>4, <1>6
  <2> QED
    BY <1>1, <1>3, <1>5, <1>6, <2>1, BehindSplit, ZenonT(60) DEF r
<1>8. n + Len(p) \in 0..Len(s)
  BY <1>1, <1>4
<1> QED
  BY <1>3, <1>4, <1>6, <1>7, <1>8 DEF p, r

\* The first converter of a chain is given what it takes.
LEMMA FirstIsGiven ==
  ASSUME NEW c \in Chain, NEW cells, NEW x, x = SetData(c.nodes[1], cells), x.node \in Node,
         x.taken = Len(cells), Len(cells) = 0 \/ NeedsData(c.nodes[1]) >= Len(cells)
  PROVE  LET d == GroupSetData(c, 1, cells).chain
         IN  /\ d \in Chain /\ d.nodes[1] = x.node /\ d.nodes[2] = c.nodes[2] /\ d.tee = c.tee
<1> DEFINE d == GroupSetData(c, 1, cells).chain
<1>1. GroupNeedsData(c, 1) = NeedsData(c.nodes[1])
  BY DEF GroupNeedsData
<1>2. d = [nodes |-> [c.nodes EXCEPT ![1] = x.node], tee |-> c.tee]
  BY <1>1 DEF GroupSetData
<1>3. /\ d \in Chain /\ d.nodes[1] = x.node /\ d.nodes[2] = c.nodes[2] /\ d.tee = c.tee
  BY <1>2 DEF Chain
<1> QED
  BY <1>3

LEMMA RestoreFeedOK ==
  ASSUME IInv, RestoreFeed
  PROVE  IInv'
<1> DEFINE a == chain.nodes[1]
           need == GroupNeedsData(chain, 1)
           size == Least({need, RestoreBuffer})
           data == First(Behind(file, sent), size)
           set == GroupSetData(chain, 1, data)
           x == SetData(a, data)
<1>1. op = "restore" /\ phase = "feed" /\ world' = world
  BY DEF RestoreFeed
<1>2. IF ineof \/ need = 0
      THEN phase' = "work" /\ UNCHANGED <<op, chain, ineof, outeof, file, sent, version, result>>
      ELSE IF sent + Len(data) > At("answers") \/ set.taken = Failed THEN Return("failed")
      ELSE /\ ineof' = (data = <<>>)
           /\ sent' = sent + Len(data)
           /\ chain' = set.chain
           /\ phase' = "work"
           /\ UNCHANGED <<op, outeof, file, version, result>>
  BY DEF RestoreFeed
<1>3. Types /\ Restoring /\ Readable' = Readable
  BY <1>1, WorldStays DEF IInv
<1>4. CASE ineof \/ need = 0
  <2>1. /\ phase' = "work" /\ op' = op /\ chain' = chain /\ ineof' = ineof /\ outeof' = outeof
        /\ file' = file /\ sent' = sent /\ version' = version /\ result' = result
    BY <1>2, <1>4
  <2>2. Types'
    BY <1>1, <1>3, <2>1 DEF Types
  <2>3. Restoring'
    BY <1>1, <1>3, <2>1 DEF Restoring, Fed
  <2>4. Storing' /\ Checking' /\ Ending'
    BY <1>1, <2>1 DEF Storing, Checking, Ending
  <2> QED
    BY <2>2, <2>3, <2>4 DEF IInv
<1>5. CASE /\ ~(ineof \/ need = 0)
           /\ sent + Len(data) > At("answers") \/ set.taken = Failed
  <2>1. Return("failed")
    BY <1>2, <1>5
  <2> QED
    BY <1>1, <2>1, ReturnOK
<1>6. CASE /\ ~(ineof \/ need = 0)
           /\ ~(sent + Len(data) > At("answers") \/ set.taken = Failed)
  <2>1. /\ ineof' = (data = <<>>) /\ sent' = sent + Len(data) /\ chain' = set.chain
        /\ phase' = "work"
        /\ op' = op /\ outeof' = outeof /\ file' = file /\ version' = version /\ result' = result
    BY <1>2, <1>6
  <2>2. /\ chain \in Chain /\ InStep(a, chain.nodes[2], chain.tee, <<>>, Fed, <<>>)
        /\ a.kind = (IF world.zip THEN "unzip" ELSE "dummy")
        /\ chain.nodes[2].kind = "fileout"
    BY <1>1, <1>3 DEF Restoring, GroupOK
  <2>3. Sound(a) /\ a.kind \in {"unzip", "dummy"} /\ a \in Node
    BY <2>2 DEF InStep, Sound
  <2>4. need = NeedsData(a)
    BY DEF GroupNeedsData
  <2> HIDE DEF a
  <2>5. need \in Nat /\ need >= 1
    <3>1. a.kind \in Kinds /\ a.eof \in BOOLEAN
      BY <2>3, NodeFields
    <3>2. need \in Nat
      BY <2>4, <3>1, NeedsDataType
    <3> HIDE DEF need
    <3> QED
      BY <1>6, <3>2
  <2>6. a.eof = FALSE
    <3>1. a.eof \in BOOLEAN
      BY <2>3, NodeFields
    <3>2. a.eof => NeedsData(a) = 0
      BY DEF NeedsData
    <3> QED
      BY <2>4, <2>5, <3>1, <3>2
  <2> HIDE DEF need
  <2>7. size \in Nat /\ size >= 1 /\ size <= need
    <3>1. RestoreBuffer \in Nat /\ RestoreBuffer >= 1
      BY Sizes
    <3>2. size = IF need <= RestoreBuffer THEN need ELSE RestoreBuffer
      BY <2>5, <3>1, LeastOfTwo
    <3> QED
      BY <2>5, <3>1, <3>2
  <2> HIDE DEF size
  <2>8. /\ data \in Seq(Cell) /\ Len(data) \in Nat /\ Len(data) <= size
        /\ sent + Len(data) \in 0..Len(file)
        /\ Behind(file, sent) = data \o Behind(file, sent + Len(data))
    BY <1>3, <2>7, ReadOn DEF Types
  <2> HIDE DEF data
  <2>9. Len(data) <= NeedsData(a)
    BY <2>4, <2>5, <2>7, <2>8
  <2> DEFINE a2 == x.node
             f2 == IF data = <<>> THEN Fed ELSE Fed \o FlattenSeq(data)
  <2>10. /\ x.taken = Len(data) /\ a2 \in Node /\ a2.kind = a.kind
         /\ InStep(a2, chain.nodes[2], chain.tee, <<>>, f2, <<>>)
    <3>1. PICK b, t, h : b = chain.nodes[2] /\ t = chain.tee /\ h = Fed
      OBVIOUS
    <3>2. InStep(a, b, t, <<>>, h, <<>>) /\ a.kind # "filein"
      BY <2>2, <2>3, <3>1
    <3>3. CASE data = <<>>
      <4>1. x.taken = 0 /\ Ended(a, a2)
        BY <2>3, <3>3, EndIsTold
      <4> HIDE DEF x
      <4>2. InStep(a2, b, t, <<>>, h, <<>>)
        BY <3>2, <4>1, FirstIsTold
      <4>3. Len(data) = 0
        BY <3>3
      <4>4. a2 \in Node /\ a2.kind = a.kind
        BY <4>1 DEF Ended, SameBuffers
      <4> QED
        BY <3>1, <3>3, <4>1, <4>2, <4>3, <4>4
    <3>4. CASE data # <<>>
      <4>1. x.taken = Len(data) /\ Takes(a, a2, data)
        BY <2>3, <2>6, <2>8, <2>9, <3>4, DummyTakes, ZlibTakes
      <4>2. b.eof => a.kind = "unzip"
        <5>1. b.eof => a.over
          BY <3>2 DEF InStep
        <5>2. a.over => a.kind = "unzip"
          BY <2>3, <2>6 DEF Sound, OverSound
        <5> QED
          BY <5>1, <5>2
      <4> HIDE DEF x
      <4>3. InStep(a2, b, t, <<>>, h \o FlattenSeq(data), <<>>)
        BY <2>8, <3>2, <4>1, <4>2, FirstIsFed
      <4>4. a2 \in Node /\ a2.kind = a.kind
        BY <4>1 DEF Takes, Sound, Like
      <4> QED
        BY <3>1, <3>4, <4>1, <4>3, <4>4
    <3> QED
      BY <3>3, <3>4
  <2>11. /\ chain' \in Chain /\ chain'.nodes[1] = a2 /\ chain'.nodes[2] = chain.nodes[2]
         /\ chain'.tee = chain.tee
    <3>1. PICK y : y = x
      OBVIOUS
    <3>2. /\ y = SetData(chain.nodes[1], data) /\ y.node \in Node /\ y.taken = Len(data)
          /\ NeedsData(chain.nodes[1]) >= Len(data)
      <4> HIDE DEF x
      <4>1. y = SetData(chain.nodes[1], data)
        BY <3>1 DEF x, a
      <4>2. y.node \in Node /\ y.taken = Len(data)
        BY <2>10, <3>1
      <4>3. NeedsData(chain.nodes[1]) = need
        BY <2>4 DEF a
      <4> QED
        BY <2>5, <2>7, <2>8, <4>1, <4>2, <4>3
    <3> HIDE DEF x
    <3>3. LET d == GroupSetData(chain, 1, data).chain
          IN  /\ d \in Chain /\ d.nodes[1] = y.node /\ d.nodes[2] = chain.nodes[2]
              /\ d.tee = chain.tee
      BY ONLY <2>2, <3>2, FirstIsGiven
    <3> QED
      BY <2>1, <3>1, <3>3
  <2> HIDE DEF a2, f2, x, set
  <2>12. Fed' = f2
    BY <2>10, <2>11 DEF Fed, InStep
  <2>13. Fed' \o FlattenSeq(Behind(file', sent')) = FlattenSeq(file')
    <3> DEFINE r == Behind(file, sent + Len(data))
    <3>1. Fed \o FlattenSeq(Behind(file, sent)) = FlattenSeq(file)
      BY <1>1, <1>3 DEF Restoring
    <3>2. file \in Seq(Cell) /\ sent + Len(data) \in Nat
      BY <1>3, <2>8 DEF Types
    <3>3. r \in Seq(Cell)
      BY <3>2, BehindFacts
    <3>4. Behind(file, sent) = data \o r /\ Behind(file', sent') = r
      BY <2>1, <2>8
    <3> HIDE DEF r
    <3>5. FlattenSeq(data \o r) = FlattenSeq(data) \o FlattenSeq(r)
      BY <2>8, <3>3, FlattenConcat DEF Cell
    <3>6. FlattenSeq(data) \in Seq(Nat) /\ FlattenSeq(r) \in Seq(Nat)
      BY <2>8, <3>3, FlattenStep DEF Cell
    <3>7. Fed \in Seq(Nat)
      <4>1. chain.tee.data \in Seq(Cell) /\ InNode(a) \in Seq(Nat)
        BY <2>2, <2>3, ChainFields, NodeFields, InNodeType
      <4>2. FlattenSeq(chain.tee.data) \in Seq(Nat)
        BY <4>1, FlattenStep DEF Cell
      <4> QED
        BY <4>1, <4>2, ConcatProperties DEF Fed, a
    <3>8. CASE data = <<>>
      <4>1. <<>> \o r = r
        BY <3>3, EmptyFacts
      <4> QED
        BY <2>1, <2>12, <3>1, <3>4, <3>8, <4>1 DEF f2
    <3>9. CASE data # <<>>
      <4>1. PICK h \in Seq(Nat), p \in Seq(Nat), o \in Seq(Nat) :
              h = Fed /\ p = FlattenSeq(data) /\ o = FlattenSeq(r)
        BY <3>6, <3>7
      <4>2. (h \o p) \o o = h \o (p \o o)
        <5>1. Assoc(h, p, o)
          BY Associative
        <5> QED
          BY ONLY <5>1 DEF Assoc
      <4>3. h \o (p \o o) = FlattenSeq(file)
        BY <3>1, <3>4, <3>5, <4>1
      <4>4. Fed' = h \o p
        BY <2>12, <3>9, <4>1 DEF f2
      <4> QED
        BY <2>1, <3>4, <4>1, <4>2, <4>3, <4>4
    <3> QED
      BY <3>8, <3>9
  <2>14. GroupOK(chain', <<>>, Fed', <<>>)
    BY <2>10, <2>11, <2>12 DEF GroupOK
  <2>15. Types'
    <3>1. Sound(chain'.nodes[1]) /\ Sound(chain'.nodes[2])
      BY <2>14 DEF GroupOK, InStep
    <3>2. sent' \in 0..Len(file') /\ ineof' \in BOOLEAN
      BY <2>1, <2>8
    <3> QED
      BY <1>1, <1>3, <2>1, <2>11, <3>1, <3>2 DEF Types
  <2>16. Restoring'
    <3>1. /\ chain'.nodes[1].kind = (IF world.zip THEN "unzip" ELSE "dummy")
          /\ chain'.nodes[2].kind = "fileout"
      BY <2>2, <2>10, <2>11
    <3> QED
      BY <1>1, <1>3, <2>1, <2>13, <2>14, <3>1 DEF Restoring
  <2>17. Storing' /\ Checking' /\ Ending'
    BY <1>1, <2>1 DEF Storing, Checking, Ending
  <2> QED
    BY <2>15, <2>16, <2>17 DEF IInv
<1> QED
  BY <1>4, <1>5, <1>6

LEMMA RestoreWorkOK ==
  ASSUME IInv, RestoreWork
  PROVE  IInv'
<1>1. op = "restore" /\ phase = "work" /\ world' = world
  BY DEF RestoreWork
<1>2. PICK w \in GroupWork(chain) :
        IF w.rv = "error" THEN Return("failed")
        ELSE /\ chain' = w.chain
             /\ outeof' = (w.rv = "eof")
             /\ phase' = IF outeof' THEN "sum" ELSE "feed"
             /\ UNCHANGED <<op, ineof, file, sent, version, result>>
  BY DEF RestoreWork
<1>3. CASE w.rv = "error"
  BY <1>1, <1>2, <1>3, ReturnOK
<1>4. CASE w.rv # "error"
  <2>1. /\ chain' = w.chain /\ outeof' = (w.rv = "eof") /\ phase' \in {"sum", "feed"}
        /\ op' = op /\ ineof' = ineof /\ file' = file /\ sent' = sent /\ version' = version
        /\ result' = result
    BY <1>2, <1>4
  <2>2. Types /\ Restoring
    BY DEF IInv
  <2>3. <<>> \in Seq(Nat)
    BY EmptySeq
  <2>4. GroupOK(chain, <<>>, Fed, <<>>)
    BY <1>1, <2>2 DEF Restoring
  <2>5. GroupOK(w.chain, <<>>, Fed, <<>>) /\ KindsKept(chain, w.chain)
    BY <1>4, <2>3, <2>4, GroupWorks
  <2>6. Readable' = Readable
    BY <1>1, WorldStays
  <2>7. chain' \in Chain /\ Sound(chain'.nodes[1]) /\ Sound(chain'.nodes[2])
    BY <2>1, <2>5 DEF GroupOK, InStep
  <2>8. Types'
    BY <1>1, <2>1, <2>2, <2>7 DEF Types
  <2>9. Fed' = Fed
    BY <2>1, <2>5 DEF Fed, GroupOK, InStep
  <2>10. Restoring'
    <3>1. GroupOK(chain', <<>>, Fed', <<>>)
      BY <2>1, <2>5, <2>9
    <3> QED
      BY <1>1, <2>1, <2>2, <2>5, <2>6, <2>9, <3>1 DEF Restoring, KindsKept
  <2>11. Storing' /\ Checking' /\ Ending'
    BY <1>1, <2>1 DEF Storing, Checking, Ending
  <2> QED
    BY <2>8, <2>10, <2>11 DEF IInv
<1> QED
  BY <1>3, <1>4

LEMMA RestoreEndOK ==
  ASSUME IInv, RestoreEnd
  PROVE  IInv'
<1>1. op = "restore" /\ phase = "sum" /\ world' = world
  BY DEF RestoreEnd
<1>2. Types /\ Restoring /\ Content' = Content
  BY <1>1, WorldStays DEF IInv
<1>3. CASE ~Verified(chain)
  <2>1. Return("failed")
    BY <1>3 DEF RestoreEnd
  <2> QED
    BY <1>1, <2>1, ReturnOK
<1>4. CASE Verified(chain)
  <2> DEFINE b == chain.nodes[2]
             u == [Md5New EXCEPT !.held = b.data]
  <2>1. /\ result' = [result EXCEPT !.restore = "ok"]
        /\ op' = "check" /\ phase' = "work"
        /\ chain' = [chain EXCEPT !.tee = u]
        /\ ineof' = FALSE /\ outeof' = FALSE
        /\ file' = file /\ sent' = sent
    BY <1>4 DEF RestoreEnd
  <2>2. /\ chain \in Chain /\ Sound(b) /\ Sound(chain.nodes[1])
        /\ b.data = chain.tee.data /\ b.received = Len(b.data) /\ version = Readable
        /\ result.check = NoVersion
    BY <1>1, <1>2 DEF Restoring, GroupOK, InStep
  <2>3. b.data = Content /\ Content \in Seq(Cell)
    <3>1. b.data = Readable /\ Len(Readable) = world.size
      BY <1>4, <2>2 DEF Verified
    <3> QED
      BY <1>2, <3>1, ContentFacts DEF Types
  <2> HIDE DEF b
  <2>4. /\ u \in Node /\ u.kind = "md5" /\ u.data = <<>> /\ u.held = Content
        /\ u.eof = FALSE /\ u.lost = FALSE
    <3>1. PICK n \in Node : n = Md5New
      BY Md5IsFresh DEF Sound
    <3>2. n.kind = "md5" /\ n.data = <<>> /\ n.eof = FALSE /\ n.lost = FALSE
      BY <3>1, Md5IsFresh, NodeFields DEF Sound
    <3>3. u = [n EXCEPT !.held = Content]
      BY <2>3, <3>1
    <3> HIDE DEF u
    <3> QED
      BY <2>3, <3>2, <3>3 DEF Node
  <2> HIDE DEF u
  <2>5. chain' \in Chain /\ chain'.nodes = chain.nodes /\ chain'.tee = u
    BY <2>1, <2>2, <2>4 DEF Chain
  <2>6. /\ result' \in [store : {"none", "ok", "failed"}, restore : {"none", "ok", "failed"},
                        check : Seq(Cell)]
        /\ result'.check = NoVersion
    BY <1>2, <2>1, <2>2 DEF Types
  <2>7. Types'
    BY <1>1, <1>2, <2>1, <2>2, <2>5, <2>6 DEF Types, b
  <2>8. Checking'
    <3>1. <<>> \o Content = Content
      BY <2>3, EmptyFacts
    <3> QED
      BY <1>2, <2>1, <2>3, <2>4, <2>5, <2>6, <3>1 DEF Checking, b
  <2>9. Storing' /\ Restoring' /\ Ending'
    BY <2>1 DEF Storing, Restoring, Ending
  <2> QED
    BY <2>7, <2>8, <2>9 DEF IInv
<1> QED
  BY <1>3, <1>4

\* The digest of a file that is read piece by piece.
Reading(n) ==
  /\ n \in Node /\ n.kind = "md5" /\ n.lost = FALSE
  /\ n.held \in Seq(Cell)
  /\ n.data \o n.held = Content
  /\ n.eof => n.held = <<>>

LEMMA ReadsOn ==
  ASSUME NEW n, Reading(n), NeedsData(n) > 0
  PROVE  LET size == Least({NeedsData(n), RestoreBuffer})
         IN  Reading([SetData(n, First(n.held, size)).node EXCEPT !.held = Behind(n.held, size)])
<1> DEFINE size == Least({NeedsData(n), RestoreBuffer})
           cells == First(n.held, size)
           r == Behind(n.held, size)
           m == SetData(n, cells).node
           q == [m EXCEPT !.held = r]
<1>1. /\ n \in Node /\ n.kind = "md5" /\ n.lost = FALSE /\ n.held \in Seq(Cell)
      /\ n.data \o n.held = Content /\ n.data \in Seq(Cell) /\ n.eof \in BOOLEAN
  BY NodeFields DEF Reading
<1>2. n.eof = FALSE
  <2>1. n.eof => NeedsData(n) = 0
    BY DEF NeedsData
  <2> QED
    BY <1>1, <2>1
<1>3. size \in Nat /\ size >= 1
  <2>1. NeedsData(n) \in Nat /\ RestoreBuffer \in Nat /\ RestoreBuffer >= 1
    BY <1>1, NodeFields, NeedsDataType, Sizes
  <2>2. size = IF NeedsData(n) <= RestoreBuffer THEN NeedsData(n) ELSE RestoreBuffer
    BY <2>1, LeastOfTwo
  <2> HIDE DEF size
  <2> QED
    BY <2>1, <2>2
<1> HIDE DEF size
<1>4. /\ cells \in Seq(Cell) /\ r \in Seq(Cell) /\ cells \o r = n.held
      /\ Len(cells) = IF size <= Len(n.held) THEN size ELSE Len(n.held)
  BY <1>1, <1>3, FirstFacts, BehindFacts, FirstAndBehind
<1> HIDE DEF cells, r
<1>5. /\ m \in Node /\ m.kind = "md5" /\ m.lost = FALSE
      /\ m.data \o r = Content
      /\ m.eof => r = <<>>
  <2>1. CASE cells = <<>>
    <3>1. Ended(n, m)
      BY <1>1, <2>1, EndIsTold
    <3>2. n.held = <<>>
      <4>1. Len(n.held) \in Nat /\ Len(cells) = 0
        BY <1>1, <2>1, EmptyFacts
      <4>2. Len(n.held) = 0
        BY <1>3, <1>4, <4>1
      <4> QED
        BY <1>1, <4>2, EmptySeq
    <3>3. r = <<>>
      <4>1. <<>> \o r = r
        BY <1>4, EmptyFacts
      <4> QED
        BY <1>4, <2>1, <3>2, <4>1
    <3> HIDE DEF m
    <3> QED
      BY <1>1, <3>1, <3>2, <3>3 DEF Ended, SameBuffers
  <2>2. CASE cells # <<>>
    <3>1. /\ m \in Node /\ Like(n, m) /\ m.data = n.data \o cells /\ m.lost = n.lost
      BY <1>1, <1>2, <1>4, <2>2, Md5Takes
    <3>2. (n.data \o cells) \o r = n.data \o (cells \o r)
      <4>1. PICK d \in Seq(Cell) : d = n.data
        BY <1>1
      <4>2. cells \in Seq(Cell) /\ r \in Seq(Cell)
        BY <1>4
      <4>3. (d \o cells) \o r = d \o (cells \o r)
        <5>1. Assoc(d, cells, r)
          BY ONLY <4>2, d \in Seq(Cell), Associative
        <5> QED
          BY ONLY <5>1 DEF Assoc
      <4> QED
        BY <4>1, <4>3
    <3> HIDE DEF m
    <3> QED
      BY <1>1, <1>2, <1>4, <3>1, <3>2 DEF Like
  <2> QED
    BY <2>1, <2>2
<1> HIDE DEF m
<1>6. /\ q \in Node /\ q.kind = m.kind /\ q.lost = m.lost /\ q.held = r /\ q.data = m.data
      /\ q.eof = m.eof
  BY <1>4, <1>5 DEF Node
<1> HIDE DEF q
<1>7. Reading(q)
  BY <1>4, <1>5, <1>6 DEF Reading
<1> QED
  BY <1>7 DEF q, m, cells, r, size

LEMMA TakesDigest ==
  ASSUME NEW n, Reading(n)
  PROVE  Reading(GetData(n, HasData(n)).node)
<1> DEFINE got == GetData(n, HasData(n))
           m == got.node
<1>1. n \in Node /\ n.kind = "md5" /\ n.lost = FALSE /\ n.next \in Nat /\ n.data \in Seq(Cell)
  BY NodeFields DEF Reading
<1>2. PICK has : has = HasData(n) /\ has = Md5HasData(n)
  BY <1>1, HasDataIs
<1>3. BufferSize.md5 \in Nat
  BY Sizes DEF Kinds
<1>4. has \in Int /\ n.next + has \in Nat
  BY <1>1, <1>2, <1>3 DEF Md5HasData
<1>5. Least({has, has}) = has
  BY <1>4, LeastOfTwo
<1>6. PICK next \in Nat : next = n.next + has
  BY <1>4
<1>7. PICK q : q = [n EXCEPT !.next = next]
  OBVIOUS
<1>8. Md5GetData(n, has) = Get(q, n.data)
  BY <1>2, <1>5, <1>6, <1>7 DEF Md5GetData
<1>9. got = Counted(Get(q, n.data))
  BY <1>1, <1>2, <1>8, GetDataIs
<1>10. q \in Node /\ q.kind = n.kind /\ q.data = n.data /\ q.held = n.held /\ q.lost = n.lost
       /\ Like(n, q)
  BY <1>1, <1>7, NextOnly
<1> HIDE DEF got
<1>11. m \in Node /\ SameBuffers(q, m) /\ m.lost = q.lost /\ Like(q, m)
  BY <1>1, <1>9, <1>10, CountedIs
<1> HIDE DEF m
<1>12. Reading(m)
  BY <1>1, <1>10, <1>11 DEF Reading, SameBuffers, Like
<1> QED
  BY <1>12 DEF m, got

LEMMA CheckWorkOK ==
  ASSUME IInv, CheckWork
  PROVE  IInv'
<1> DEFINE n == chain.tee
           size == Least({NeedsData(n), RestoreBuffer})
           read == [SetData(n, First(n.held, size)).node EXCEPT !.held = Behind(n.held, size)]
           fed == IF ~ineof /\ NeedsData(n) > 0 THEN read ELSE n
           got == GetData(fed, HasData(fed))
<1>1. op = "check" /\ phase = "work" /\ world' = world
  BY DEF CheckWork
<1>2. /\ ineof' = (ineof \/ n.held = <<>>)
      /\ chain' = [chain EXCEPT !.tee = got.node]
      /\ IF fed.eof
         THEN /\ op' = "done" /\ phase' = "done"
              /\ result' = [result EXCEPT !.check = fed.data]
         ELSE UNCHANGED <<op, phase, result>>
      /\ outeof' = outeof /\ file' = file /\ sent' = sent
  BY DEF CheckWork
<1>3. Types /\ Checking /\ Content' = Content
  BY <1>1, WorldStays DEF IInv
<1>4. chain \in Chain /\ chain.nodes[2].data = Content /\ result.check = NoVersion
  BY <1>1, <1>3 DEF Types, Checking
<1>5. Reading(n)
  <2>1. n \in Node
    BY <1>4, ChainFields
  <2>2. n.lost = FALSE
    BY <1>1, <1>3, <2>1, NodeFields DEF Checking
  <2> QED
    BY <1>1, <1>3, <2>1, <2>2 DEF Checking, Reading
<1>6. Reading(fed)
  <2>1. CASE ~ineof /\ NeedsData(n) > 0
    <3>1. Reading(read)
      <4> HIDE DEF n
      <4> QED
        BY <1>5, <2>1, ReadsOn
    <3> QED
      BY <2>1, <3>1
  <2>2. CASE ~(~ineof /\ NeedsData(n) > 0)
    BY <1>5, <2>2
  <2> QED
    BY <2>1, <2>2
<1> HIDE DEF fed
<1>7. Reading(got.node)
  BY <1>6, TakesDigest
<1> HIDE DEF got
<1>8. chain' \in Chain /\ chain'.nodes = chain.nodes /\ chain'.tee = got.node
  BY <1>2, <1>4, <1>7 DEF Chain, Reading
<1>9. ineof' \in BOOLEAN
  BY <1>2
<1>10. CASE fed.eof
  <2>1. fed.data = Content /\ fed.data \in Seq(Cell)
    <3>1. fed.held = <<>> /\ fed.data \o fed.held = Content /\ fed.data \in Seq(Cell)
      BY <1>6, <1>10, NodeFields DEF Reading
    <3> QED
      BY <3>1, EmptyFacts
  <2>2. op' = "done" /\ phase' = "done" /\ result' = [result EXCEPT !.check = Content]
    BY <1>2, <1>10, <2>1
  <2>3. /\ result' \in [store : {"none", "ok", "failed"}, restore : {"none", "ok", "failed"},
                        check : Seq(Cell)]
        /\ result'.check = Content
    BY <1>3, <2>1, <2>2 DEF Types
  <2>4. Types'
    BY <1>1, <1>2, <1>3, <1>8, <1>9, <2>2, <2>3 DEF Types
  <2>5. Ending'
    BY <1>3, <1>4, <1>8, <2>2, <2>3 DEF Ending
  <2>6. Storing' /\ Restoring' /\ Checking'
    BY <2>2 DEF Storing, Restoring, Checking
  <2> QED
    BY <2>4, <2>5, <2>6 DEF IInv
<1>11. CASE ~fed.eof
  <2>1. op' = op /\ phase' = phase /\ result' = result
    BY <1>2, <1>11
  <2>2. Types'
    BY <1>1, <1>2, <1>3, <1>8, <1>9, <2>1 DEF Types
  <2>3. Checking'
    BY <1>1, <1>3, <1>4, <1>7, <1>8, <2>1 DEF Checking, Reading
  <2>4. Storing' /\ Restoring' /\ Ending'
    BY <1>1, <2>1 DEF Storing, Restoring, Ending
  <2> QED
    BY <2>2, <2>3, <2>4 DEF IInv
<1> QED
  BY <1>10, <1>11

LEMMA StutterOK ==
  ASSUME IInv, UNCHANGED vars
  PROVE  IInv'
BY ZenonT(60) DEF IInv, vars, Types, Storing, Restoring, Checking, Ending, Fed, Readable, Content, At

LEMMA StepOK == IInv /\ [Next]_vars => IInv'
<1> SUFFICES ASSUME IInv, [Next]_vars PROVE IInv'
  OBVIOUS
<1>1. CASE StoreWork
  BY <1>1, StoreWorkOK
<1>2. CASE StoreDrain
  BY <1>2, StoreDrainOK
<1>3. CASE StoreEnd
  BY <1>3, StoreEndOK
<1>4. CASE RestoreFeed
  BY <1>4, RestoreFeedOK
<1>5. CASE RestoreWork
  BY <1>5, RestoreWorkOK
<1>6. CASE RestoreEnd
  BY <1>6, RestoreEndOK
<1>7. CASE CheckWork
  BY <1>7, CheckWorkOK
<1>8. CASE UNCHANGED vars
  BY <1>8, StutterOK
<1> QED
  BY <1>1, <1>2, <1>3, <1>4, <1>5, <1>6, <1>7, <1>8 DEF Next

-----------------------------------------------------------------------------
(* The theorems.                                                           *)

LEMMA InvariantHolds == Spec => []IInv
<1>1. Init => IInv
  BY Beginning
<1>2. IInv /\ [Next]_vars => IInv'
  BY StepOK
<1> QED
  BY <1>1, <1>2, PTL DEF Spec

\* A sound converter is of its type: the positions of a ring buffer are inside of
\* it, and those of a plain buffer inside of its data.
LEMMA SoundIsTyped ==
  ASSUME NEW n, Sound(n)
  PROVE  /\ n.kind \in {"zip", "unzip"} => RingOK(n)
         /\ n.kind \in {"filein", "dummy"} => /\ n.next <= Len(n.data)
                                              /\ Len(n.data) <= BufferSize[n.kind]
<1>1. n \in Node
  BY DEF Sound
<1>2. ASSUME n.kind \in {"zip", "unzip"}
      PROVE  RingOK(n)
  <2>1. RingSound(n)
    BY <1>2 DEF Sound
  <2>2. /\ BufferSize[n.kind] \in Nat /\ n.next \in Nat /\ n.zpos \in Nat /\ n.room \in Nat
        /\ n.next < BufferSize[n.kind]
        /\ \/ n.zpos + n.room = n.next
           \/ n.zpos + n.room = BufferSize[n.kind]
           \/ n.zpos = n.next /\ n.room = 0
    BY <1>1, <2>1, RingNumbers
  <2>3. n.next \in 0..BufferSize[n.kind] - 1 /\ n.zpos + n.room \in {BufferSize[n.kind], n.next}
    BY <2>2
  <2> QED
    BY <2>1, <2>3 DEF RingOK, RingSound
<1>3. ASSUME n.kind \in {"filein", "dummy"}
      PROVE  n.next <= Len(n.data) /\ Len(n.data) <= BufferSize[n.kind]
  BY <1>3 DEF Sound, FileInSound, DummySound
<1> QED
  BY <1>2, <1>3

\* Everything keeps its type, whatever the sizes of the buffers, of the file and of
\* the pieces zlib makes are: no operation of a converter puts its read or write
\* position outside of its buffer, and the room that is offered to zlib never
\* reaches data that have not been taken.
THEOREM TypeCorrect == Spec => []TypeOK
<1>1. IInv => TypeOK
  <2> SUFFICES ASSUME IInv PROVE TypeOK
    OBVIOUS
  <2>1. Types /\ Storing /\ Restoring /\ Checking /\ Ending
    BY DEF IInv
  <2>2. /\ world \in Worlds /\ op \in {"store", "restore", "check", "done"}
        /\ ineof \in BOOLEAN /\ outeof \in BOOLEAN /\ sent \in 0..Len(file)
        /\ Sound(chain.nodes[1]) /\ Sound(chain.nodes[2])
    BY <2>1 DEF Types
  <2>3. phase \in {"work", "drain", "sum", "feed", "done"}
    <3>1. CASE op = "store"
      BY <2>1, <3>1 DEF Storing
    <3>2. CASE op = "restore"
      BY <2>1, <3>2 DEF Restoring
    <3>3. CASE op = "check"
      BY <2>1, <3>3 DEF Checking
    <3>4. CASE op = "done"
      BY <2>1, <3>4 DEF Ending
    <3> QED
      BY <2>2, <3>1, <3>2, <3>3, <3>4
  <2>4. \A i \in 1..2 : Sound(chain.nodes[i])
    BY <2>2
  <2>5. \A i \in 1..2 :
          LET n == chain.nodes[i]
          IN  /\ n.kind \in {"zip", "unzip"} => RingOK(n)
              /\ n.kind \in {"filein", "dummy"} => /\ n.next <= Len(n.data)
                                                   /\ Len(n.data) <= BufferSize[n.kind]
    <3> SUFFICES ASSUME NEW i \in 1..2
                 PROVE  LET n == chain.nodes[i]
                        IN  /\ n.kind \in {"zip", "unzip"} => RingOK(n)
                            /\ n.kind \in {"filein", "dummy"} =>
                                 /\ n.next <= Len(n.data)
                                 /\ Len(n.data) <= BufferSize[n.kind]
      OBVIOUS
    <3>1. PICK n : n = chain.nodes[i]
      OBVIOUS
    <3>2. Sound(n)
      BY <2>4, <3>1
    <3>3. /\ n.kind \in {"zip", "unzip"} => RingOK(n)
          /\ n.kind \in {"filein", "dummy"} => /\ n.next <= Len(n.data)
                                               /\ Len(n.data) <= BufferSize[n.kind]
      BY <3>2, SoundIsTyped
    <3> QED
      BY <3>1, <3>3
  <2> QED
    BY <2>2, <2>3, <2>5 DEF TypeOK
<1> QED
  BY <1>1, InvariantHolds, PTL

\* In step converters hold what was handed over.
LEMMA InStepBytes ==
  ASSUME NEW a, NEW b, NEW t, NEW g \in Seq(Nat), NEW h, NEW q, InStep(a, b, t, g, h, q)
  PROVE  g \o (InNode(b) \o InNode(a)) = h
<1>1. Sound(a) /\ Sound(b) /\ a.kind # "md5" /\ b.kind # "md5"
  BY DEF InStep
<1>2. InNode(a) \in Seq(Nat) /\ InNode(b) \in Seq(Nat)
  BY <1>1, InNodeType
<1>3. (g \o InNode(b)) \o InNode(a) = g \o (InNode(b) \o InNode(a))
  <2>1. Assoc(g, InNode(b), InNode(a))
    BY <1>2, Associative
  <2> QED
    BY ONLY <2>1 DEF Assoc
<1>4. (g \o InNode(b)) \o InNode(a) = h
  BY DEF InStep
<1> QED
  BY <1>3, <1>4

\* Nothing is lost, repeated or reordered on the way through the converters, for
\* buffers of any sizes, files of any length, and however zlib cuts its output and
\* keeps back its input; and the digest has seen what the converter it hangs on was
\* given.
THEOREM NothingLost == Spec => []NothingIsLost
<1>1. IInv => NothingIsLost
  <2> SUFFICES ASSUME IInv PROVE NothingIsLost
    OBVIOUS
  <2>1. Types /\ Storing /\ Restoring
    BY DEF IInv
  <2>2. PICK a, b, t : a = chain.nodes[1] /\ b = chain.nodes[2] /\ t = chain.tee
    OBVIOUS
  <2>3. InChain = InNode(b) \o InNode(a)
    BY <2>2 DEF InChain
  <2>4. PICK g \in Seq(Nat) : g = FlattenSeq(file)
    BY <2>1, FlattenStep DEF Types, Cell
  <2>5. op = "store" =>
          /\ g \o InChain = FlattenSeq(Readable)
          /\ phase = "sum" => InChain = <<>>
          /\ FlattenSeq(t.data) = g \o InNode(b)
    <3> SUFFICES ASSUME op = "store"
                 PROVE  /\ g \o InChain = FlattenSeq(Readable)
                        /\ phase = "sum" => InChain = <<>>
                        /\ FlattenSeq(t.data) = g \o InNode(b)
      OBVIOUS
    <3>1. /\ InStep(a, b, t, g, FlattenSeq(Readable), Readable)
          /\ a.kind = "filein" /\ b.kind \in {"zip", "dummy"}
          /\ phase = "sum" => b.over /\ HasData(b) = 0
      BY <2>1, <2>2, <2>4 DEF Storing, GroupOK
    <3>2. g \o InChain = FlattenSeq(Readable)
      BY <2>3, <3>1, InStepBytes
    <3>3. phase = "sum" => InChain = <<>>
      <4> SUFFICES ASSUME phase = "sum" PROVE InChain = <<>>
        OBVIOUS
      <4>1. InNode(a) = <<>> /\ InNode(b) = <<>>
        BY <3>1, AllIsThrough
      <4>2. <<>> \o <<>> = <<>>
        OBVIOUS
      <4> QED
        BY <2>3, <4>1, <4>2
    <3> QED
      BY <3>1, <3>2, <3>3 DEF InStep
  <2>6. op = "restore" =>
          /\ InChain \o FlattenSeq(Behind(file, sent)) = FlattenSeq(file)
          /\ t.data = b.data
    <3> SUFFICES ASSUME op = "restore"
                 PROVE  /\ InChain \o FlattenSeq(Behind(file, sent)) = FlattenSeq(file)
                        /\ t.data = b.data
      OBVIOUS
    <3>1. /\ InStep(a, b, t, <<>>, Fed, <<>>) /\ b.kind = "fileout"
          /\ Fed \o FlattenSeq(Behind(file, sent)) = FlattenSeq(file)
      BY <2>1, <2>2 DEF Restoring, GroupOK
    <3>2. <<>> \in Seq(Nat)
      BY EmptySeq
    <3>3. <<>> \o InChain = Fed
      BY <2>3, <3>1, <3>2, InStepBytes
    <3>4. InChain \in Seq(Nat)
      <4>1. Sound(a) /\ Sound(b) /\ a.kind # "md5" /\ b.kind # "md5"
        BY <3>1 DEF InStep
      <4> QED
        BY <2>3, <4>1, InNodeType, ConcatProperties
    <3>5. InChain = Fed
      BY <3>3, <3>4, EmptyFacts
    <3> QED
      BY <3>1, <3>5 DEF InStep
  <2> QED
    BY <2>2, <2>4, <2>5, <2>6 DEF NothingIsLost, Readable
<1> QED
  BY <1>1, InvariantHolds, PTL

\* RestoreFile succeeds only with the whole file as it was, whatever a fault did to
\* the data the server kept, to the answers and to the disk; and the digest that
\* GetMD5 takes of the restored file is that of the content.
THEOREM RestoreWhole == Spec => []RestoreIsWhole
<1>1. IInv => RestoreIsWhole
  <2> SUFFICES ASSUME IInv, result.restore = "ok"
               PROVE  chain.nodes[2].data = Content /\ result.check \in {NoVersion, Content}
    BY DEF RestoreIsWhole
  <2>1. op \in {"check", "done"}
    BY DEF IInv, Types, Storing, Restoring
  <2>2. CASE op = "check"
    BY <2>2 DEF IInv, Checking
  <2>3. CASE op = "done"
    BY <2>3 DEF IInv, Ending
  <2> QED
    BY <2>1, <2>2, <2>3
<1> QED
  BY <1>1, InvariantHolds, PTL

-----------------------------------------------------------------------------
(* Transfers without a fault.                                              *)

\* Cells of one byte, and cells that do not end a compressed stream.
Single == {x \in Cell : Len(x) = 1}
Run == {x \in Cell : x # <<>>}

\* A compressed stream: its last cell is the empty one, and no other is.
Stream(s) ==
  /\ s \in Seq(Cell) /\ Len(s) > 0 /\ s[Len(s)] = <<>>
  /\ \A i \in 1 .. Len(s) - 1 : s[i] # <<>>

\* What StoreFile sent and what the second converter n has ready are single bytes
\* of the file, or a compressed stream as far as it got.
Stored(sent1, n) ==
  LET all == sent1 \o Out(n)
  IN  IF n.kind = "dummy" THEN all \in Seq(Single)
      ELSE IF n.over THEN Stream(all) ELSE all \in Seq(Run)

\* What the first converter n of RestoreFile has ready is single bytes, and what it
\* and RestoreFile will still get from the server is the rest of what was stored.
\* told says that RestoreFile met the end of it.
Coming(n, rest, told) ==
  /\ Out(n) \in Seq(Single)
  /\ told => n.eof
  /\ n.kind = "dummy" => rest \in Seq(Single) /\ (n.eof => rest = <<>>)
  /\ n.kind = "unzip" =>
       /\ ~(n.next = n.zpos /\ n.room = 0)
       /\ n.eof => n.over
       /\ IF n.over THEN n.input = <<>> /\ n.held = <<>> /\ rest = <<>>
          ELSE Stream(n.input \o rest)

\* A converter that decompresses has something to work with.
Ready(n) == n.kind = "unzip" => n.over \/ n.input # <<>>

Outcome(s, r, c) == result = [store |-> s, restore |-> r, check |-> c]

StoringWell ==
  op = "store" => Stored(file, chain.nodes[2]) /\ Outcome("none", "none", NoVersion)

RestoringWell ==
  op = "restore" =>
    /\ phase # "done" /\ Outcome("ok", "none", NoVersion)
    /\ Len(file) <= world.size + 1 /\ FlattenSeq(file) = FlattenSeq(Content)
    /\ Coming(chain.nodes[1], Behind(file, sent), ineof)
    /\ chain.nodes[2].data \in Seq(Single)
    /\ phase = "work" => Ready(chain.nodes[1])
    /\ phase = "sum" => chain.nodes[2].over

EndingWell ==
  /\ op = "check" => Outcome("ok", "ok", NoVersion)
  /\ op = "done" => Outcome("ok", "ok", Content)

FaultlessInv == world.fault = "none" => StoringWell /\ RestoringWell /\ EndingWell

\* A sequence whose elements are all in a set.
LEMMA ElementsIn ==
  ASSUME NEW S, NEW T, NEW s \in Seq(T), \A i \in 1 .. Len(s) : s[i] \in S
  PROVE  s \in Seq(S)
<1>1. Len(s) \in Nat /\ s \in [1 .. Len(s) -> T]
  BY LenProperties
<1>2. s \in [1 .. Len(s) -> S]
  BY <1>1
<1> QED
  BY ONLY <1>1, <1>2, FunctionIsSeq

LEMMA PartsIn ==
  ASSUME NEW S, NEW T, NEW s \in Seq(T), NEW t \in Seq(T), s \o t \in Seq(S)
  PROVE  s \in Seq(S) /\ t \in Seq(S)
<1> DEFINE c == s \o t
<1>1. /\ Len(s) \in Nat /\ Len(t) \in Nat /\ Len(c) = Len(s) + Len(t)
      /\ \A i \in 1 .. Len(s) + Len(t) : c[i] = IF i <= Len(s) THEN s[i] ELSE t[i - Len(s)]
  BY LenProperties, ConcatProperties
<1>2. \A i \in 1 .. Len(c) : c[i] \in S
  BY ElementOfSeq
<1> HIDE DEF c
<1>3. \A i \in 1 .. Len(s) : s[i] \in S
  <2> SUFFICES ASSUME NEW i \in 1 .. Len(s) PROVE s[i] \in S
    OBVIOUS
  <2>1. i \in 1 .. Len(s) + Len(t) /\ i <= Len(s)
    BY <1>1
  <2> QED
    BY <1>1, <1>2, <2>1
<1>4. \A i \in 1 .. Len(t) : t[i] \in S
  <2> SUFFICES ASSUME NEW i \in 1 .. Len(t) PROVE t[i] \in S
    OBVIOUS
  <2>1. PICK j : j = Len(s) + i
    OBVIOUS
  <2>2. j \in 1 .. Len(s) + Len(t) /\ ~(j <= Len(s)) /\ j - Len(s) = i
    BY <1>1, <2>1
  <2> QED
    BY <1>1, <1>2, <2>2
<1> QED
  BY <1>3, <1>4, ElementsIn

\* Single bytes are in runs and runs in cells.
LEMMA CellKinds ==
  /\ Single \subseteq Run /\ Run \subseteq Cell
  /\ \A s \in Seq(Single) : s \in Seq(Run) /\ s \in Seq(Cell)
  /\ \A s \in Seq(Run) : s \in Seq(Cell)
<1>1. Single \subseteq Run
  <2>1. Len(<<>>) = 0
    OBVIOUS
  <2> QED
    BY <2>1 DEF Single, Run
<1>2. Run \subseteq Cell
  BY DEF Run
<1> QED
  BY <1>1, <1>2, SeqMonotonic

\* Bytes one by one are cells of one byte.
LEMMA SinglesAreSingle ==
  ASSUME NEW s \in Seq(Nat)
  PROVE  Singles(s) \in Seq(Single)
<1>1. Singles(s) \in Seq(Cell) /\ Len(Singles(s)) = Len(s)
  BY FlattenSingles
<1>2. \A i \in 1 .. Len(s) : s[i] \in Nat
  BY ElementOfSeq
<1>3. \A i \in 1 .. Len(s) : Singles(s)[i] = <<s[i]>>
  BY DEF Singles
<1>4. \A x \in Nat : <<x>> \in Seq(Nat) /\ Len(<<x>>) = 1
  OBVIOUS
<1>5. \A i \in 1 .. Len(Singles(s)) : Singles(s)[i] \in Single
  BY <1>1, <1>2, <1>3, <1>4 DEF Single, Cell
<1> QED
  BY <1>1, <1>5, ElementsIn

\* A sequence of single bytes is what its bytes say; there are as many bytes as
\* cells.
LEMMA SingleBytes ==
  ASSUME NEW s \in Seq(Single)
  PROVE  Singles(FlattenSeq(s)) = s /\ Len(FlattenSeq(s)) = Len(s)
<1> DEFINE T == {r \in Seq(Single) : Singles(FlattenSeq(r)) = r}
<1>1. <<>> \in T
  <2>1. <<>> \in Seq(Single)
    BY EmptySeq
  <2>2. Singles(<<>>) = <<>>
    <3>1. <<>> \in Seq(Nat) /\ Len(<<>>) = 0
      BY EmptySeq
    <3>2. Singles(<<>>) \in Seq(Cell) /\ Len(Singles(<<>>)) = 0
      BY <3>1, FlattenSingles
    <3> QED
      BY <3>2, EmptyFacts
  <2> QED
    BY <2>1, <2>2, FlattenEmpty
<1>2. ASSUME NEW r \in T, NEW x \in Single
      PROVE  Append(r, x) \in T
  <2>1. r \in Seq(Single) /\ r \in Seq(Cell) /\ Singles(FlattenSeq(r)) = r
    BY CellKinds
  <2>2. x \in Seq(Nat) /\ Len(x) = 1 /\ x[1] \in Nat
    <3>1. x \in Seq(Nat) /\ Len(x) = 1 /\ 1 \in 1 .. 1
      BY DEF Single, Cell
    <3>2. 1 \in 1 .. Len(x)
      BY <3>1
    <3> QED
      BY <3>1, <3>2, ElementOfSeq
  <2> DEFINE f == FlattenSeq(r)
             g == f \o x
  <2>3. f \in Seq(Nat) /\ FlattenSeq(Append(r, x)) = g /\ Len(f) = Len(r) /\ Len(r) \in Nat
    <3>1. f \in Seq(Nat) /\ FlattenSeq(Append(r, x)) = g
      BY <2>1, <2>2, FlattenStep DEF Cell
    <3>2. Len(Singles(f)) = Len(f)
      BY <3>1, FlattenSingles
    <3>3. Len(f) \in Nat
      BY <3>1, LenProperties
    <3> QED
      BY <2>1, <3>1, <3>2, <3>3
  <2> HIDE DEF f
  <2>4. /\ g \in Seq(Nat) /\ Len(g) = Len(r) + 1
        /\ \A i \in 1 .. Len(r) + 1 : g[i] = IF i <= Len(r) THEN f[i] ELSE x[i - Len(r)]
    <3>0. f \in Seq(Nat) /\ x \in Seq(Nat)
      BY <2>2, <2>3
    <3>1. /\ g \in Seq(Nat) /\ Len(g) = Len(f) + Len(x)
          /\ \A i \in 1 .. Len(f) + Len(x) : g[i] = IF i <= Len(f) THEN f[i] ELSE x[i - Len(f)]
      BY ONLY <3>0, ConcatProperties
    <3> HIDE DEF g
    <3> QED
      BY <2>2, <2>3, <3>1
  <2> HIDE DEF g
  <2> DEFINE z == Append(r, x)
  <2>5. /\ z \in Seq(Single) /\ Len(z) = Len(r) + 1 /\ z[Len(r) + 1] = x
        /\ \A i \in 1 .. Len(r) : z[i] = r[i]
    BY <2>1, AppendProperties
  <2> HIDE DEF z
  <2>6. Singles(g) \in Seq(Cell) /\ Len(Singles(g)) = Len(r) + 1 /\ z \in Seq(Cell)
    BY <2>4, <2>5, FlattenSingles, CellKinds
  <2>7. ASSUME NEW i \in 1 .. Len(r) + 1
        PROVE  Singles(g)[i] = z[i]
    <3>1. Singles(g)[i] = <<g[i]>>
      BY <2>4 DEF Singles
    <3>2. CASE i <= Len(r)
      <4>1. i \in 1 .. Len(r) /\ g[i] = f[i]
        BY <2>3, <2>4, <3>2
      <4>2. Singles(f)[i] = <<f[i]>>
        BY <2>3, <4>1 DEF Singles
      <4>3. Singles(f)[i] = r[i]
        BY <2>1 DEF f
      <4> QED
        BY <2>5, <3>1, <4>1, <4>2, <4>3
    <3>3. CASE i > Len(r)
      <4>1. i = Len(r) + 1 /\ i - Len(r) = 1 /\ ~(i <= Len(r))
        BY <2>3, <3>3
      <4>2. g[i] = x[1]
        BY <2>4, <4>1
      <4>3. x = <<x[1]>>
        BY <2>2
      <4> QED
        BY <2>5, <3>1, <4>1, <4>2, <4>3
    <3>4. i <= Len(r) \/ i > Len(r)
      BY <2>3
    <3> QED
      BY <3>2, <3>3, <3>4
  <2>8. Singles(g) = z
    BY <2>5, <2>6, <2>7, SeqEqual
  <2> QED
    BY <2>3, <2>5, <2>8 DEF z
<1> HIDE DEF T
<1>3. T \in SUBSET Seq(Single)
  BY DEF T
<1>4. s \in T
  BY ONLY <1>1, <1>2, <1>3, s \in Seq(Single), AllSequences
<1>5. Singles(FlattenSeq(s)) = s
  BY <1>4 DEF T
<1>6. FlattenSeq(s) \in Seq(Nat)
  BY CellKinds, FlattenStep DEF Cell
<1> QED
  BY <1>5, <1>6, FlattenSingles

\* Cells that end no stream hold a byte each, or more.
LEMMA RunBytes ==
  ASSUME NEW s \in Seq(Run)
  PROVE  Len(s) <= Len(FlattenSeq(s)) /\ FlattenSeq(s) \in Seq(Nat)
<1> DEFINE T == {r \in Seq(Run) : Len(r) <= Len(FlattenSeq(r))}
<1>1. <<>> \in T
  BY EmptySeq, FlattenEmpty
<1>2. ASSUME NEW r \in T, NEW x \in Run
      PROVE  Append(r, x) \in T
  <2>1. r \in Seq(Run) /\ r \in Seq(Cell) /\ Len(r) <= Len(FlattenSeq(r))
    BY CellKinds
  <2>2. x \in Seq(Nat) /\ Len(x) \in Nat /\ Len(x) >= 1
    <3>1. x \in Seq(Nat) /\ x # <<>>
      BY DEF Run, Cell
    <3> QED
      BY <3>1, EmptyFacts
  <2>3. PICK f \in Seq(Nat) : f = FlattenSeq(r) /\ FlattenSeq(Append(r, x)) = f \o x
    BY <2>1, <2>2, FlattenStep DEF Cell
  <2>4. Len(f \o x) = Len(f) + Len(x)
    BY ONLY <2>2, f \in Seq(Nat), ConcatProperties
  <2>5. Append(r, x) \in Seq(Run) /\ Len(Append(r, x)) = Len(r) + 1
    BY <2>1, AppendProperties
  <2>6. Len(f) \in Nat /\ Len(r) \in Nat
    BY <2>1, LenProperties
  <2>7. Len(r) + 1 <= Len(f \o x)
    BY <2>1, <2>2, <2>3, <2>4, <2>6
  <2> QED
    BY <2>3, <2>5, <2>7
<1> HIDE DEF T
<1>3. T \in SUBSET Seq(Run)
  BY DEF T
<1>4. s \in T
  BY ONLY <1>1, <1>2, <1>3, s \in Seq(Run), AllSequences
<1> QED
  BY <1>4, CellKinds, FlattenStep DEF T, Cell

\* A stream is cells with bytes in them and one that has none.
LEMMA StreamIs ==
  ASSUME NEW s, Stream(s)
  PROVE  \E r \in Seq(Run) : s = Append(r, <<>>)
<1>1. /\ s \in Seq(Cell) /\ Len(s) \in Nat /\ Len(s) > 0 /\ s[Len(s)] = <<>>
      /\ \A i \in 1 .. Len(s) - 1 : s[i] # <<>>
  BY EmptyFacts DEF Stream
<1>2. s # <<>>
  BY <1>1, EmptyFacts
<1>3. PICK r \in Seq(Cell), x \in Cell : s = Append(r, x)
  BY <1>1, <1>2, SequenceEmptyOrAppend
<1>4. /\ Len(s) = Len(r) + 1 /\ s[Len(r) + 1] = x
      /\ \A i \in 1 .. Len(r) : s[i] = r[i]
  BY <1>3, AppendProperties
<1>5. x = <<>>
  BY <1>1, <1>4
<1>6. Len(r) = Len(s) - 1
  BY <1>4, LenProperties
<1>7. \A i \in 1 .. Len(r) : r[i] \in Run
  <2>1. \A i \in 1 .. Len(r) : r[i] \in Cell /\ r[i] # <<>>
    BY <1>1, <1>4, <1>6, ElementOfSeq
  <2> QED
    BY <2>1 DEF Run
<1>8. r \in Seq(Run)
  BY <1>7, ElementsIn
<1> QED
  BY <1>3, <1>5, <1>8

LEMMA StreamBytes ==
  ASSUME NEW s, Stream(s)
  PROVE  Len(s) <= Len(FlattenSeq(s)) + 1
<1>1. PICK r \in Seq(Run) : s = Append(r, <<>>)
  BY StreamIs
<1>2. r \in Seq(Cell) /\ <<>> \in Cell /\ <<>> \in Seq(Nat)
  BY CellKinds, EmptySeq DEF Cell
<1>3. FlattenSeq(s) = FlattenSeq(r) \o <<>> /\ FlattenSeq(r) \in Seq(Nat)
  BY <1>1, <1>2, FlattenStep DEF Cell
<1>4. FlattenSeq(s) = FlattenSeq(r)
  BY <1>3, EmptyFacts
<1>5. Len(s) = Len(r) + 1
  BY <1>1, <1>2, AppendProperties
<1>6. Len(r) <= Len(FlattenSeq(r)) /\ Len(r) \in Nat /\ Len(FlattenSeq(r)) \in Nat
  BY <1>3, RunBytes, LenProperties
<1> QED
  BY <1>4, <1>5, <1>6

\* The empty cell makes a stream of those before it.
LEMMA StreamMade ==
  ASSUME NEW s \in Seq(Run)
  PROVE  Stream(s \o << <<>> >>)
<1> DEFINE e == << <<>> >>
           c == s \o e
<1>1. e \in Seq(Cell) /\ Len(e) = 1 /\ e[1] = <<>>
  <2>1. <<>> \in Cell
    BY EmptySeq DEF Cell
  <2> QED
    BY <2>1
<1>2. s \in Seq(Cell) /\ Len(s) \in Nat
  BY CellKinds, LenProperties
<1> HIDE DEF e
<1>3. /\ c \in Seq(Cell) /\ Len(c) = Len(s) + Len(e)
      /\ \A i \in 1 .. Len(s) + Len(e) : c[i] = IF i <= Len(s) THEN s[i] ELSE e[i - Len(s)]
  BY ONLY <1>1, <1>2, ConcatProperties
<1> HIDE DEF c
<1>4. c[Len(s) + 1] = <<>>
  <2>1. PICK j : j = Len(s) + 1
    OBVIOUS
  <2>2. j \in 1 .. Len(s) + Len(e) /\ ~(j <= Len(s)) /\ j - Len(s) = 1
    BY <1>1, <1>2, <2>1
  <2> QED
    BY <1>1, <1>3, <2>1, <2>2
<1>5. ASSUME NEW i \in 1 .. Len(s) PROVE c[i] # <<>>
  <2>1. s[i] # <<>>
    BY ElementOfSeq DEF Run
  <2>2. i \in 1 .. Len(s) + Len(e) /\ i <= Len(s)
    BY <1>1, <1>2
  <2> QED
    BY <1>3, <2>1, <2>2
<1>6. Len(c) > 0 /\ Len(c) = Len(s) + 1 /\ Len(c) - 1 = Len(s)
  BY <1>1, <1>2, <1>3
<1>7. Stream(c)
  BY <1>3, <1>4, <1>5, <1>6 DEF Stream
<1> QED
  BY <1>7 DEF c, e

\* The empty cell is met at the end of a stream.
LEMMA StreamEnds ==
  ASSUME NEW s \in Seq(Cell), NEW t \in Seq(Cell), Stream(s \o t),
         NEW k \in 1 .. Len(s), s[k] = <<>>
  PROVE  k = Len(s) /\ t = <<>>
<1> DEFINE c == s \o t
<1>1. /\ Len(s) \in Nat /\ Len(t) \in Nat /\ Len(c) = Len(s) + Len(t)
      /\ \A i \in 1 .. Len(s) + Len(t) : c[i] = IF i <= Len(s) THEN s[i] ELSE t[i - Len(s)]
  BY LenProperties, ConcatProperties
<1>2. \A i \in 1 .. Len(c) - 1 : c[i] # <<>>
  BY DEF Stream
<1> HIDE DEF c
<1>3. k \in 1 .. Len(s) + Len(t) /\ k <= Len(s)
  BY <1>1
<1>4. c[k] = <<>>
  BY <1>1, <1>3
<1>5. k = Len(s) + Len(t)
  BY <1>1, <1>2, <1>3, <1>4
<1>6. k = Len(s) /\ Len(t) = 0
  BY <1>1, <1>3, <1>5
<1> QED
  BY <1>6, EmptyFacts

\* Behind cells that are not its end there is a stream, too.
LEMMA StreamGoesOn ==
  ASSUME NEW s \in Seq(Cell), NEW t \in Seq(Cell), Stream(s \o t),
         NEW k \in 0 .. Len(s), k > 0 => s[k] # <<>>
  PROVE  Stream(Behind(s, k) \o t)
<1> DEFINE b == Behind(s, k)
           c == s \o t
           d == b \o t
<1>1. /\ Len(s) \in Nat /\ Len(t) \in Nat /\ Len(c) = Len(s) + Len(t)
      /\ \A i \in 1 .. Len(s) + Len(t) : c[i] = IF i <= Len(s) THEN s[i] ELSE t[i - Len(s)]
  BY LenProperties, ConcatProperties
<1>2. /\ Len(c) > 0 /\ c[Len(c)] = <<>>
      /\ \A i \in 1 .. Len(c) - 1 : c[i] # <<>>
  BY DEF Stream
<1> HIDE DEF c
<1>3. /\ b \in Seq(Cell) /\ Len(b) = Len(s) - k
      /\ \A i \in 1 .. Len(b) : b[i] = s[k + i]
  <2>1. k \in Nat /\ k <= Len(s)
    BY <1>1
  <2> QED
    BY <2>1, BehindFacts
<1> HIDE DEF b
<1>4. /\ d \in Seq(Cell) /\ Len(d) = Len(b) + Len(t)
      /\ \A i \in 1 .. Len(b) + Len(t) : d[i] = IF i <= Len(b) THEN b[i] ELSE t[i - Len(b)]
  BY ONLY <1>3, t \in Seq(Cell), ConcatProperties
<1> HIDE DEF d
<1>5. ASSUME NEW i \in 1 .. Len(d)
      PROVE  d[i] = c[k + i] /\ k + i \in 1 .. Len(c)
  <2>1. PICK j : j = k + i
    OBVIOUS
  <2>2. j \in 1 .. Len(s) + Len(t) /\ i \in 1 .. Len(b) + Len(t)
    BY <1>1, <1>3, <1>4, <2>1
  <2>3. CASE i <= Len(b)
    <3>1. i \in 1 .. Len(b) /\ j <= Len(s)
      BY <1>1, <1>3, <2>1, <2>3
    <3> QED
      BY <1>1, <1>3, <1>4, <2>1, <2>2, <2>3, <3>1
  <2>4. CASE ~(i <= Len(b))
    <3>1. ~(j <= Len(s)) /\ j - Len(s) = i - Len(b)
      BY <1>1, <1>3, <2>1, <2>2, <2>4
    <3> QED
      BY <1>1, <1>4, <2>1, <2>2, <2>4, <3>1
  <2> QED
    BY <2>3, <2>4
<1>6. Len(d) = Len(c) - k /\ k \in Nat /\ Len(c) \in Nat /\ k <= Len(c)
  BY <1>1, <1>3, <1>4
<1>7. Len(d) > 0
  <2> SUFFICES ASSUME k = Len(c) PROVE FALSE
    BY <1>6
  <2>1. k > 0 /\ k = Len(s) /\ k \in 1 .. Len(s) + Len(t) /\ k <= Len(s)
    BY <1>1, <1>2
  <2>2. c[k] = s[k]
    BY <1>1, <2>1
  <2> QED
    BY <1>2, <2>1, <2>2
<1>8. d[Len(d)] = <<>>
  <2>1. Len(d) \in 1 .. Len(d) /\ k + Len(d) = Len(c)
    BY <1>6, <1>7
  <2> QED
    BY <1>2, <1>5, <2>1
<1>9. ASSUME NEW i \in 1 .. Len(d) - 1 PROVE d[i] # <<>>
  <2>1. i \in 1 .. Len(d) /\ k + i \in 1 .. Len(c) - 1
    BY <1>6
  <2> QED
    BY <1>2, <1>5, <2>1
<1>10. Stream(d)
  BY <1>4, <1>7, <1>8, <1>9 DEF Stream
<1> QED
  BY <1>10 DEF d, b

\* zlib never makes an empty cell but at the end.
LEMMA CellsAreRuns ==
  ASSUME NEW bytes \in Seq(Nat), NEW room, NEW cuts \in Cuts(Len(bytes), room)
  PROVE  Cells(bytes, cuts) \in Seq(Run)
<1>1. /\ Cells(bytes, cuts) \in Seq(Cell) /\ Len(Cells(bytes, cuts)) = Len(cuts)
      /\ Len(cuts) \in Nat
  BY CutFacts
<1>2. cuts \in Seq(Nat) /\ Growing(cuts) /\ DOMAIN cuts = 1 .. Len(cuts)
  BY CutsAreGrowing, LenProperties DEF Cuts
<1>3. ASSUME NEW i \in 1 .. Len(cuts)
      PROVE  Cells(bytes, cuts)[i] # <<>>
  <2> DEFINE p == IF i = 1 THEN 0 ELSE cuts[i - 1]
             m == 1 + p
             n == cuts[i]
             T == {bytes[j] : j \in m .. n}
  <2>1. n \in Nat /\ p \in Nat
    <3>1. i # 1 => i - 1 \in 1 .. Len(cuts)
      BY <1>1
    <3>2. \A j \in 1 .. Len(cuts) : cuts[j] \in Nat
      BY <1>2, ElementOfSeq
    <3> QED
      BY <3>1, <3>2
  <2>2. n - p \in 1 .. MaxRun
    BY <1>2 DEF Growing
  <2>3. Cells(bytes, cuts)[i] = SubSeq(bytes, m, n)
    BY <1>2 DEF Cells
  <2> HIDE DEF p, n
  <2>4. m \in Int /\ n \in Int /\ m <= n /\ n - m + 1 = n - p
    BY <2>1, <2>2, Sizes
  <2> HIDE DEF m
  <2>5. \A j \in m .. n : bytes[j] \in T
    OBVIOUS
  <2> HIDE DEF T
  <2>6. Len(SubSeq(bytes, m, n)) = n - m + 1 /\ SubSeq(bytes, m, n) \in Seq(T)
    BY <2>4, <2>5, SubSeqProperties
  <2>7. Len(SubSeq(bytes, m, n)) >= 1
    BY <2>2, <2>4, <2>6, Sizes
  <2>8. PICK z \in Seq(T) : z = SubSeq(bytes, m, n)
    BY <2>6
  <2>9. z # <<>>
    <3>1. Len(z) >= 1
      BY <2>7, <2>8
    <3>2. z = <<>> => Len(z) = 0
      BY ONLY z \in Seq(T), EmptyFacts
    <3> QED
      BY ONLY <3>1, <3>2
  <2> QED
    BY <2>3, <2>8, <2>9
<1>4. \A i \in 1 .. Len(Cells(bytes, cuts)) : Cells(bytes, cuts)[i] \in Run
  <2>1. \A i \in 1 .. Len(cuts) : Cells(bytes, cuts)[i] \in Cell
    BY <1>1, ElementOfSeq
  <2> QED
    BY <1>1, <1>3, <2>1 DEF Run
<1> QED
  BY <1>1, <1>4, ElementsIn

\* The ring buffer after zlib worked.
LEMMA RingAfter ==
  ASSUME NEW n \in Node, RingSound(n), NEW cells \in Seq(Cell), Len(cells) <= n.room,
         NEW h \in Seq(Nat), NEW i \in Seq(Cell)
  PROVE  LET m == After(n, cells, h, i)
         IN  /\ m \in Node /\ Ring(m) = Ring(n) \o cells /\ m.kind = n.kind /\ m.eof = n.eof
             /\ m.next = n.next /\ m.zpos = n.zpos + Len(cells) /\ m.room = n.room - Len(cells)
             /\ m.held = h /\ m.input = i
<1> DEFINE o == Output(n, cells)
           m == After(n, cells, h, i)
<1>1. /\ o \in Node
      /\ o = [n EXCEPT !.data = o.data, !.zpos = o.zpos, !.room = o.room]
      /\ Ring(o) = Ring(n) \o cells
  BY RingOutput
<1>2. o.zpos = n.zpos + Len(cells) /\ o.room = n.room - Len(cells)
  BY DEF Output, Node
<1>3. m = [o EXCEPT !.held = h, !.input = i]
  BY DEF After
<1> HIDE DEF o, m
<1>4. /\ m \in Node /\ m.kind = o.kind /\ m.data = o.data /\ m.next = o.next /\ m.zpos = o.zpos
      /\ m.room = o.room /\ m.held = h /\ m.input = i /\ m.eof = o.eof
  BY <1>1, <1>3 DEF Node
<1>5. o.kind = n.kind /\ o.next = n.next /\ o.eof = n.eof
  BY <1>1 DEF Node
<1>6. Ring(m) = Ring(o)
  BY <1>4 DEF Ring, Wrapped
<1>7. /\ m \in Node /\ Ring(m) = Ring(n) \o cells /\ m.kind = n.kind /\ m.eof = n.eof
      /\ m.next = n.next /\ m.zpos = n.zpos + Len(cells) /\ m.room = n.room - Len(cells)
      /\ m.held = h /\ m.input = i
  BY <1>1, <1>2, <1>4, <1>5, <1>6
<1> QED
  BY <1>7 DEF m

LEMMA DeflatedGives ==
  ASSUME NEW n \in Node, RingSound(n), n.kind = "zip", NEW w \in Deflated(n)
  PROVE  w.rv = "ok" /\ \E cells \in Seq(Run) : Ring(w.node) = Ring(n) \o cells
<1> DEFINE Bytes(k) == n.held \o FlattenSeq(First(n.input, k))
<1>0. PICK k \in 0..Len(n.input) : \E cuts \in Cuts(Len(Bytes(k)), n.room) :
        w = [node |-> [Output(n, Cells(Bytes(k), cuts))
                         EXCEPT !.held = Behind(Bytes(k), End(cuts)),
                                !.input = Behind(Output(n, Cells(Bytes(k), cuts)).input, k)],
             rv   |-> "ok"]
  BY DEF Deflated
<1>1. PICK cuts \in Cuts(Len(Bytes(k)), n.room) :
        w = [node |-> [Output(n, Cells(Bytes(k), cuts))
                         EXCEPT !.held = Behind(Bytes(k), End(cuts)),
                                !.input = Behind(Output(n, Cells(Bytes(k), cuts)).input, k)],
             rv   |-> "ok"]
  BY <1>0
<1> DEFINE bytes == Bytes(k)
           cells == Cells(bytes, cuts)
           h == Behind(bytes, End(cuts))
           i == Behind(Output(n, cells).input, k)
           m == w.node
<1>2. bytes \in Seq(Nat) /\ n.input \in Seq(Cell) /\ k \in Nat
  <2>1. n.input \in Seq(Cell) /\ Len(n.input) \in Nat
    BY NodeFields
  <2>2. bytes \in Seq(Nat)
    BY BytesOfInput
  <2> HIDE DEF bytes
  <2> QED
    BY <2>1, <2>2
<1>3. cuts \in Cuts(Len(bytes), n.room)
  OBVIOUS
<1>4. w.rv = "ok" /\ m = After(n, cells, h, i)
  BY <1>1 DEF After
<1> HIDE DEF bytes, m
<1>5. cells \in Seq(Run) /\ cells \in Seq(Cell) /\ Len(cells) <= n.room /\ h \in Seq(Nat)
  BY <1>2, <1>3, CutFacts, CellsAreRuns
<1> HIDE DEF cells, h
<1>6. i \in Seq(Cell)
  <2>1. /\ Output(n, cells) \in Node
        /\ Output(n, cells) = [n EXCEPT !.data = Output(n, cells).data,
                                        !.zpos = Output(n, cells).zpos,
                                        !.room = Output(n, cells).room]
    BY <1>5, RingOutput
  <2>2. Output(n, cells).input = n.input
    BY <2>1 DEF Node
  <2> QED
    BY <1>2, <2>2, BehindFacts
<1> HIDE DEF i
<1>7. Ring(m) = Ring(n) \o cells
  BY <1>4, <1>5, <1>6, RingAfter
<1> QED
  BY <1>4, <1>5, <1>7 DEF m

LEMMA FinishedGives ==
  ASSUME NEW n \in Node, RingSound(n), n.kind = "zip", n.input = <<>>, NEW w \in Finished(n)
  PROVE  /\ w.rv \in {"ok", "eof"}
         /\ \E cells \in Seq(Run) :
              Ring(w.node) = Ring(n) \o (IF w.rv = "eof" THEN cells \o << <<>> >> ELSE cells)
<1> DEFINE Done(cuts) ==
             [node |-> IF Len(cuts) < n.room
                       THEN [Output(n, Cells(n.held, cuts) \o << <<>> >>) EXCEPT !.held = <<>>]
                       ELSE [Output(n, Cells(n.held, cuts))
                               EXCEPT !.held = Behind(n.held, End(cuts))],
              rv   |-> IF Len(cuts) < n.room THEN "eof" ELSE "ok"]
<1>0. \E cuts \in Cuts(Len(n.held), n.room) : w = Done(cuts)
  <2>1. Finished(n) = {Done(cuts) : cuts \in {l \in Cuts(Len(n.held), n.room) :
                                                End(l) = Len(n.held) \/ Len(l) = n.room}}
    BY DEF Finished
  <2> HIDE DEF Done
  <2> QED
    BY <2>1
<1> HIDE DEF Done
<1>1. PICK cuts \in Cuts(Len(n.held), n.room) : w = Done(cuts)
  BY <1>0
<1> DEFINE cells == Cells(n.held, cuts)
           h == Behind(n.held, End(cuts))
           e == << <<>> >>
<1>2. /\ w.node = IF Len(cuts) < n.room
                  THEN [Output(n, cells \o e) EXCEPT !.held = <<>>]
                  ELSE [Output(n, cells) EXCEPT !.held = h]
      /\ w.rv = IF Len(cuts) < n.room THEN "eof" ELSE "ok"
  BY <1>1 DEF Done
<1>3. n.held \in Seq(Nat) /\ n.room \in Nat /\ n.input \in Seq(Cell) /\ <<>> \in Seq(Nat)
  BY NodeFields, EmptySeq DEF RingSound
<1>4. /\ cells \in Seq(Run) /\ cells \in Seq(Cell) /\ h \in Seq(Nat)
      /\ Len(cells) = Len(cuts) /\ Len(cuts) \in Nat /\ Len(cuts) <= n.room
  <2>1. PICK bytes \in Seq(Nat) : bytes = n.held
    BY <1>3
  <2>2. cuts \in Cuts(Len(bytes), n.room)
    BY <2>1
  <2>3. /\ Cells(bytes, cuts) \in Seq(Run) /\ Cells(bytes, cuts) \in Seq(Cell)
        /\ Behind(bytes, End(cuts)) \in Seq(Nat)
        /\ Len(Cells(bytes, cuts)) = Len(cuts) /\ Len(cuts) \in Nat /\ Len(cuts) <= n.room
    BY <2>2, CutFacts, CellsAreRuns
  <2> QED
    BY <2>1, <2>3
<1>5. e \in Seq(Cell) /\ Len(e) = 1
  <2>1. <<>> \in Cell
    BY EmptySeq DEF Cell
  <2> QED
    BY <2>1
<1> HIDE DEF cells, h, e
<1>6. CASE Len(cuts) < n.room
  <2>1. PICK all : all = cells \o e
    OBVIOUS
  <2>2. all \in Seq(Cell) /\ Len(all) <= n.room
    <3>1. cells \o e \in Seq(Cell) /\ Len(cells \o e) = Len(cells) + Len(e)
      BY ONLY <1>4, <1>5, ConcatProperties
    <3> QED
      BY <1>3, <1>4, <1>5, <1>6, <2>1, <3>1
  <2>3. w.node = After(n, all, <<>>, n.input)
    BY <1>2, <1>6, <2>1, <2>2, InputStays
  <2>4. Ring(w.node) = Ring(n) \o all
    <3>1. PICK i \in Seq(Cell), h0 \in Seq(Nat) : i = n.input /\ h0 = <<>>
      BY <1>3
    <3>2. w.node = After(n, all, h0, i)
      BY <2>3, <3>1
    <3> QED
      BY ONLY n \in Node, RingSound(n), <2>2, <3>2, i \in Seq(Cell), h0 \in Seq(Nat), RingAfter
  <2> QED
    BY <1>2, <1>4, <1>6, <2>1, <2>4 DEF e
<1>7. CASE ~(Len(cuts) < n.room)
  <2>1. w.node = After(n, cells, h, n.input)
    BY <1>2, <1>4, <1>7, InputStays
  <2>2. Ring(w.node) = Ring(n) \o cells
    <3>1. PICK i \in Seq(Cell) : i = n.input
      BY <1>3
    <3>2. w.node = After(n, cells, h, i) /\ Len(cells) <= n.room
      BY <1>4, <2>1, <3>1
    <3> QED
      BY ONLY n \in Node, RingSound(n), <1>4, <3>2, i \in Seq(Cell), RingAfter
  <2> QED
    BY <1>2, <1>4, <1>7, <2>2
<1> QED
  BY <1>6, <1>7

LEMMA OutSame ==
  ASSUME NEW n, NEW m, SameBuffers(n, m)
  PROVE  Out(m) = Out(n)
BY SameBytes DEF Out, SameBuffers

LEMMA OutType ==
  ASSUME NEW n, Sound(n), n.kind \in {"zip", "unzip", "dummy"}
  PROVE  Out(n) \in Seq(Cell)
<1>1. n \in Node /\ n.data \in Seq(Cell) /\ n.next \in Nat
  BY NodeFields DEF Sound
<1>2. CASE n.kind \in {"zip", "unzip"}
  <2>1. RingSound(n)
    BY <1>2 DEF Sound
  <2> QED
    BY <1>1, <1>2, <2>1, RingFacts DEF Out
<1>3. CASE n.kind = "dummy"
  BY <1>1, <1>3, BehindFacts DEF Out
<1> QED
  BY <1>2, <1>3

\* The turn of a converter: it does nothing, or works and its end is noted.
LEMMA WorkedIs ==
  ASSUME NEW n, Sound(n), NEW w \in Worked(n)
  PROVE  \/ (HasData(n) > 0 \/ n.over) /\ w.node = n /\ w.rv = "ok"
         \/ /\ ~(HasData(n) > 0 \/ n.over)
            /\ \E v \in Work(n) :
                 /\ Handled(n, v) /\ w.rv = v.rv
                 /\ SameBuffers(v.node, w.node) /\ w.node.eof = v.node.eof
                 /\ w.node.over \in BOOLEAN /\ (w.node.over <=> v.rv = "eof")
<1>1. CASE HasData(n) > 0 \/ n.over
  <2>1. w = [node |-> n, rv |-> "ok"]
    BY <1>1 DEF Worked
  <2> QED
    BY <1>1, <2>1
<1>2. CASE ~(HasData(n) > 0 \/ n.over)
  <2>1. PICK v \in Work(n) : w = [node |-> [v.node EXCEPT !.over = (v.rv = "eof")], rv |-> v.rv]
    BY <1>2 DEF Worked
  <2>2. PICK e \in BOOLEAN : e <=> v.rv = "eof"
    OBVIOUS
  <2>3. (v.rv = "eof") = e
    BY <2>2
  <2>4. w = [node |-> [v.node EXCEPT !.over = e], rv |-> v.rv]
    BY <2>1, <2>3
  <2>5. Handled(n, v)
    BY <1>2, WorkHandled
  <2>6. PICK m \in Node : m = v.node
    BY <2>5 DEF Handled
  <2>7. PICK q : q = [m EXCEPT !.over = e]
    OBVIOUS
  <2>8. SameBuffers(m, q) /\ q.eof = m.eof /\ q.over = e
    BY <2>7 DEF Node, SameBuffers
  <2>9. w.node = q /\ w.rv = v.rv
    BY <2>4, <2>6, <2>7
  <2> QED
    BY <1>2, <2>2, <2>5, <2>6, <2>8, <2>9
<1> QED
  BY <1>1, <1>2

\* Zip adds cells to those it has ready, and at its end the one that says so.
LEMMA ZipGives ==
  ASSUME NEW n, Sound(n), n.kind = "zip", NEW v \in Work(n)
  PROVE  /\ v.rv \in {"ok", "eof"}
         /\ \E cells \in Seq(Run) :
              Ring(v.node) = Ring(n) \o (IF v.rv = "eof" THEN cells \o << <<>> >> ELSE cells)
<1>1. n \in Node /\ RingSound(n)
  BY DEF Sound
<1>2. v \in ZipWork(n)
  BY DEF Work
<1>3. CASE v = [node |-> n, rv |-> "ok"]
  <2>1. <<>> \in Seq(Run) /\ Ring(n) = Ring(n) \o <<>>
    BY <1>1, RingFacts, EmptyFacts, EmptySeq
  <2> QED
    BY <1>3, <2>1
<1>4. CASE n.input = <<>> /\ v \in Finished(n)
  BY <1>1, <1>4, FinishedGives
<1>5. CASE v \in Deflated(n)
  <2>1. v.rv = "ok" /\ \E cells \in Seq(Run) : Ring(v.node) = Ring(n) \o cells
    BY <1>1, <1>5, DeflatedGives
  <2> QED
    BY <2>1
<1> QED
  BY <1>2, <1>3, <1>4, <1>5 DEF ZipWork

\* The turn of the second converter of StoreFile.
LEMMA StoredWorks ==
  ASSUME NEW n, Sound(n), n.kind \in {"zip", "dummy"}, NEW f \in Seq(Cell), Stored(f, n),
         NEW w \in Worked(n)
  PROVE  Stored(f, w.node) /\ w.rv # "error"
<1>1. CASE w.node = n /\ w.rv = "ok"
  BY <1>1
<1>2. CASE ~(w.node = n /\ w.rv = "ok")
  <2>1. PICK v \in Work(n) :
          /\ ~n.over
          /\ Handled(n, v) /\ w.rv = v.rv
          /\ SameBuffers(v.node, w.node) /\ (w.node.over <=> v.rv = "eof")
    BY <1>2, WorkedIs
  <2>2. Out(w.node) = Out(v.node) /\ w.node.kind = n.kind /\ v.node.kind = n.kind
    BY <2>1, OutSame DEF Handled, SameBuffers
  <2>3. CASE n.kind = "dummy"
    <3>1. PICK rv \in {"ok", "eof"} : v = [node |-> n, rv |-> rv]
      BY <2>3 DEF Work
    <3> QED
      BY <2>1, <2>2, <2>3, <3>1 DEF Stored
  <2>4. CASE n.kind = "zip"
    <3>1. v.rv \in {"ok", "eof"}
      BY <2>4, ZipGives
    <3>2. PICK cells \in Seq(Run) :
            Ring(v.node) = Ring(n) \o (IF v.rv = "eof" THEN cells \o << <<>> >> ELSE cells)
      BY <2>4, ZipGives
    <3>3. Out(n) = Ring(n) /\ Out(v.node) = Ring(v.node)
      BY <2>2, <2>4 DEF Out
    <3>4. f \o Ring(n) \in Seq(Run)
      BY <2>1, <2>4, <3>3 DEF Stored
    <3> DEFINE e == << <<>> >>
               r == Ring(n)
    <3>5. r \in Seq(Cell) /\ cells \in Seq(Cell) /\ e \in Seq(Cell)
      <4>1. <<>> \in Cell
        BY EmptySeq DEF Cell
      <4>2. e \in Seq(Cell)
        BY <4>1
      <4>3. n \in Node /\ RingSound(n)
        BY <2>4 DEF Sound
      <4> QED
        BY <4>2, <4>3, RingFacts, CellKinds
    <3> HIDE DEF e, r
    <3>6. f \o (r \o cells) = (f \o r) \o cells
      <4>1. Assoc(f, r, cells)
        BY ONLY <3>5, f \in Seq(Cell), Associative
      <4> QED
        BY <4>1 DEF Assoc
    <3>7. (f \o r) \o cells \in Seq(Run)
      BY <3>4, ConcatProperties DEF r
    <3>8. CASE v.rv = "eof"
      <4>1. f \o (r \o (cells \o e)) = ((f \o r) \o cells) \o e
        <5>1. Assoc(r, cells, e)
          BY ONLY <3>5, Associative
        <5>2. r \o cells \in Seq(Cell)
          BY ONLY <3>5, ConcatProperties
        <5>3. PICK s \in Seq(Cell) : s = r \o cells
          BY <5>2
        <5>4. Assoc(f, s, e)
          BY ONLY <3>5, f \in Seq(Cell), s \in Seq(Cell), Associative
        <5>5. r \o (cells \o e) = s \o e /\ f \o (s \o e) = (f \o s) \o e
          BY <5>1, <5>3, <5>4 DEF Assoc
        <5> QED
          BY <3>6, <5>3, <5>5
      <4>2. PICK s \in Seq(Run) : s = (f \o r) \o cells
        BY <3>7
      <4>3. Stream(s \o e)
        BY StreamMade DEF e
      <4>4. Out(w.node) = r \o (cells \o e)
        BY <2>2, <3>2, <3>3, <3>8 DEF r, e
      <4>5. Stream(f \o Out(w.node))
        BY <4>1, <4>2, <4>3, <4>4
      <4> QED
        BY <2>1, <2>2, <2>4, <3>8, <4>5 DEF Stored
    <3>9. CASE v.rv # "eof"
      <4>1. Out(w.node) = r \o cells
        BY <2>2, <3>2, <3>3, <3>9 DEF r
      <4>2. f \o Out(w.node) \in Seq(Run)
        BY <3>6, <3>7, <4>1
      <4> QED
        BY <2>1, <2>2, <2>4, <3>1, <3>9, <4>2 DEF Stored
    <3> QED
      BY <3>8, <3>9
  <2> QED
    BY <2>3, <2>4
<1> QED
  BY <1>1, <1>2

\* The second converter of StoreFile takes cells, is told the end, and gives what it
\* has.
LEMMA StoredTakes ==
  ASSUME NEW n, Sound(n), n.kind \in {"zip", "dummy"}, NEW f \in Seq(Cell), Stored(f, n),
         NEW cells, NEW m, Takes(n, m, cells), n.kind = "dummy" => cells \in Seq(Single)
  PROVE  Stored(f, m)
<1>1. m.kind = n.kind /\ m.over = n.over
  BY DEF Takes, Like
<1>2. CASE n.kind = "dummy"
  <2>1. Out(m) = cells
    BY <1>2 DEF Takes
  <2>2. f \o Out(n) \in Seq(Single)
    BY <1>2 DEF Stored
  <2>3. Out(n) \in Seq(Cell)
    BY OutType
  <2>4. f \in Seq(Single)
    BY <2>2, <2>3, PartsIn
  <2>5. f \o Out(m) \in Seq(Single)
    BY <1>2, <2>1, <2>4, ConcatProperties
  <2> QED
    BY <1>1, <1>2, <2>5 DEF Stored
<1>3. CASE n.kind = "zip"
  <2>1. Out(m) = Out(n)
    BY <1>1, <1>3 DEF Takes, Out
  <2> QED
    BY <1>1, <2>1 DEF Stored
<1> QED
  BY <1>2, <1>3

LEMMA StoredEnds ==
  ASSUME NEW n, NEW f, Stored(f, n), NEW m, Ended(n, m)
  PROVE  Stored(f, m)
<1>1. Out(m) = Out(n) /\ m.kind = n.kind /\ m.over = n.over
  BY OutSame DEF Ended, SameBuffers
<1> QED
  BY <1>1 DEF Stored

LEMMA StoredGives ==
  ASSUME NEW n, n.kind \in {"zip", "dummy"}, NEW f \in Seq(Cell), Stored(f, n),
         NEW got, NEW k, Gives(n, got, k)
  PROVE  Stored(f \o got.data, got.node)
<1>1. /\ got.node.kind = n.kind /\ got.node.over = n.over /\ got.data \in Seq(Cell)
      /\ Sound(got.node) /\ Out(n) = got.data \o Out(got.node)
  BY DEF Gives, Like
<1>2. Out(got.node) \in Seq(Cell)
  BY <1>1, OutType
<1>3. PICK p \in Seq(Cell), o \in Seq(Cell) : p = got.data /\ o = Out(got.node)
  BY <1>1, <1>2
<1>4. Assoc(f, p, o)
  BY Associative
<1>5. f \o Out(n) = (f \o got.data) \o Out(got.node)
  BY <1>1, <1>3, <1>4 DEF Assoc
<1> QED
  BY <1>1, <1>5 DEF Stored

\* All of a stream is in what was sent when Zip met its end and has nothing ready.
LEMMA StoredAll ==
  ASSUME NEW n, Sound(n), n.kind \in {"zip", "dummy"}, NEW f \in Seq(Cell), Stored(f, n),
         n.over, HasData(n) = 0
  PROVE  IF n.kind = "dummy" THEN f \in Seq(Single) ELSE Stream(f)
<1>1. n \in Node /\ n.lost = FALSE
  BY NodeFields DEF Sound
<1>2. Out(n) = <<>>
  <2>1. CASE n.kind = "dummy"
    <3>1. Len(n.data) = n.next
      <4>1. HasData(n) = Len(n.data) - n.next
        BY <1>1, <2>1, HasDataIs
      <4>2. Len(n.data) \in Nat /\ n.next \in Nat
        BY <1>1, NodeFields
      <4> QED
        BY <4>1, <4>2
    <3>2. Behind(n.data, Len(n.data)) = <<>>
      BY <1>1, NodeFields, BehindAll
    <3> QED
      BY <2>1, <3>1, <3>2 DEF Out
  <2>2. CASE n.kind = "zip"
    <3>1. RingSound(n) /\ ZipHasData(n) = 0
      BY <1>1, <2>2, HasDataIs DEF Sound
    <3>2. BufferSize[n.kind] = BufferSize.zip
      BY <2>2
    <3>3. n.next = n.zpos /\ ~Wrapped(n)
      BY <1>1, <3>1, <3>2, RingNumbers DEF ZipHasData
    <3> QED
      BY <1>1, <2>2, <3>1, <3>3, EmptyRing DEF Out
  <2> QED
    BY <2>1, <2>2
<1>3. f \o Out(n) = f
  BY <1>2, EmptyFacts
<1> QED
  BY <1>3 DEF Stored

\* The bytes that StoreFile sent and those that are ready are at least as many as
\* the cells, but for the end of a stream.
LEMMA StoredBytes ==
  ASSUME NEW n, NEW s, NEW f \in Seq(Cell), s = f \o Out(n), Stored(f, n)
  PROVE  s \in Seq(Cell) /\ Len(s) <= Len(FlattenSeq(s)) + 1
<1>1. CASE s \in Seq(Run)
  <2>1. Len(s) <= Len(FlattenSeq(s)) /\ FlattenSeq(s) \in Seq(Nat)
    BY <1>1, RunBytes
  <2>2. Len(s) \in Nat /\ Len(FlattenSeq(s)) \in Nat
    BY <1>1, <2>1, LenProperties
  <2> QED
    BY <1>1, <2>1, <2>2, CellKinds
<1>2. CASE Stream(s)
  BY <1>2, StreamBytes DEF Stream
<1>3. s \in Seq(Run) \/ Stream(s)
  BY CellKinds DEF Stored
<1> QED
  BY <1>1, <1>2, <1>3

LEMMA LeastIsLeast ==
  ASSUME NEW T \in SUBSET Nat, T # {}
  PROVE  Least(T) \in T /\ \A j \in T : Least(T) <= j
<1>1. \E m \in T : \A j \in T : m <= j
  BY LeastNatural
<1> QED
  BY <1>1 DEF Least

LEMMA FirstNext ==
  ASSUME NEW S, NEW s \in Seq(S), NEW k \in 1 .. Len(s)
  PROVE  First(s, k) = Append(First(s, k - 1), s[k])
<1> DEFINE r == First(s, k)
           t == First(s, k - 1)
           z == Append(t, s[k])
<1>1. Len(s) \in Nat /\ k \in Nat /\ k - 1 \in Nat /\ k <= Len(s) /\ k - 1 <= Len(s)
  BY LenProperties
<1>2. /\ r \in Seq(S) /\ Len(r) = k /\ \A i \in 1 .. k : r[i] = s[i]
      /\ t \in Seq(S) /\ Len(t) = k - 1 /\ \A i \in 1 .. k - 1 : t[i] = s[i]
  BY <1>1, FirstFacts
<1> HIDE DEF r, t
<1>3. s[k] \in S
  BY ElementOfSeq
<1>4. /\ z \in Seq(S) /\ Len(z) = Len(t) + 1 /\ z[Len(t) + 1] = s[k]
      /\ \A i \in 1 .. Len(t) : z[i] = t[i]
  BY <1>2, <1>3, AppendProperties
<1> HIDE DEF z
<1>5. Len(z) = k /\ z[k] = s[k] /\ \A i \in 1 .. k - 1 : z[i] = s[i]
  <2>1. Len(t) + 1 = k
    BY <1>1, <1>2
  <2> QED
    BY <1>2, <1>4, <2>1
<1>6. \A i \in 1 .. k : r[i] = z[i]
  <2> SUFFICES ASSUME NEW i \in 1 .. k PROVE r[i] = z[i]
    OBVIOUS
  <2>1. i = k \/ i \in 1 .. k - 1
    BY <1>1
  <2> QED
    BY <1>2, <1>5, <2>1
<1>7. r = z
  BY <1>2, <1>4, <1>5, <1>6, SeqEqual
<1> QED
  BY <1>7 DEF r, z, t

\* Unzip gives bytes until the stream ends, and finds the end.
LEMMA InflatedGives ==
  ASSUME NEW n \in Node, RingSound(n), n.kind = "unzip", n.next = n.zpos, n.room > 0,
         n.eof = FALSE, n.input # <<>>, Ring(n) \in Seq(Single),
         NEW rest \in Seq(Cell), Stream(n.input \o rest),
         NEW w, w = Inflated(n)
  PROVE  /\ w.rv \in {"ok", "eof"} /\ w.node.eof = FALSE
         /\ Ring(w.node) \in Seq(Single)
         /\ w.node.room = 0 => w.node.next # w.node.zpos
         /\ IF w.rv = "eof" THEN w.node.input = <<>> /\ w.node.held = <<>> /\ rest = <<>>
            ELSE Stream(w.node.input \o rest)
<1> DEFINE Bytes(j) == n.held \o FlattenSeq(First(n.input, j))
           Ends(j)  == j > 0 /\ n.input[j] = <<>>
           T == {j \in 0..Len(n.input) : \/ Len(Bytes(j)) >= n.room
                                         \/ Ends(j) \/ j = Len(n.input)}
           k == Least(T)
           bytes == Bytes(k)
           out == First(bytes, n.room)
           cells == Singles(out)
           h == Behind(bytes, n.room)
           i == Behind(n.input, k)
<1>1. /\ Len(n.input) \in Nat /\ n.room \in Nat /\ n.input \in Seq(Cell) /\ Len(n.input) # 0
      /\ n.zpos \in Nat /\ n.next \in Nat
  BY NodeFields, EmptyFacts
<1>2. /\ k \in 0..Len(n.input)
      /\ Len(Bytes(k)) >= n.room \/ Ends(k) \/ k = Len(n.input)
      /\ \A j \in 0..Len(n.input) : Len(Bytes(j)) >= n.room \/ Ends(j) => k <= j
  <2>1. T \in SUBSET Nat
    <3>1. T \subseteq 0..Len(n.input)
      <4> HIDE DEF Bytes, Ends
      <4> QED
        OBVIOUS
    <3>2. 0..Len(n.input) \subseteq Nat
      BY <1>1
    <3> QED
      BY <3>1, <3>2
  <2>2. Len(n.input) \in T
    BY <1>1
  <2> HIDE DEF T
  <2>3. k \in T /\ \A j \in T : k <= j
    BY <2>1, <2>2, LeastIsLeast
  <2> HIDE DEF k, Bytes, Ends
  <2> QED
    BY <2>3 DEF T
<1>3. w.node = [Output(n, [l \in 1..Len(out) |-> <<out[l]>>])
                 EXCEPT !.held = h,
                        !.input = Behind(Output(n, [l \in 1..Len(out) |-> <<out[l]>>]).input, k)]
  BY DEF Inflated
<1>4. w.rv = IF Ends(k) THEN "eof"
             ELSE IF n.eof \/ (k = 0 /\ out = <<>>) THEN "error" ELSE "ok"
  BY DEF Inflated
<1>5. cells = [l \in 1..Len(out) |-> <<out[l]>>]
  BY DEF Singles
<1> HIDE DEF k, T
<1>6. \A j \in 0..Len(n.input) : Bytes(j) \in Seq(Nat)
  BY BytesOfInput
<1>7. bytes \in Seq(Nat) /\ Len(bytes) \in Nat
  BY <1>2, <1>6, LenProperties
<1>8. k > 0 /\ Ends(k) => bytes = Bytes(k - 1) /\ k - 1 \in 0..Len(n.input)
  <2> SUFFICES ASSUME k > 0, Ends(k)
               PROVE  bytes = Bytes(k - 1) /\ k - 1 \in 0..Len(n.input)
    OBVIOUS
  <2>1. k \in 1..Len(n.input) /\ k - 1 \in 0..Len(n.input) /\ k - 1 \in Nat
    BY <1>1, <1>2
  <2>2. PICK f \in Seq(Cell) : f = First(n.input, k - 1)
    BY <1>1, <2>1, FirstFacts
  <2>3. First(n.input, k) = Append(f, <<>>)
    BY <1>1, <2>1, <2>2, FirstNext
  <2>4. FlattenSeq(Append(f, <<>>)) = FlattenSeq(f) \o <<>> /\ FlattenSeq(f) \in Seq(Nat)
    BY FlattenStep, EmptySeq DEF Cell
  <2>5. FlattenSeq(First(n.input, k)) = FlattenSeq(First(n.input, k - 1))
    BY <2>2, <2>3, <2>4, EmptyFacts
  <2> QED
    BY <2>1, <2>5
<1> HIDE DEF bytes, i
<1>9. /\ out \in Seq(Nat) /\ Len(out) = (IF n.room <= Len(bytes) THEN n.room ELSE Len(bytes))
      /\ h \in Seq(Nat) /\ Len(h) = (IF n.room <= Len(bytes) THEN Len(bytes) - n.room ELSE 0)
  BY <1>1, <1>7, FirstFacts, BehindFacts
<1> HIDE DEF out, h
<1>10. cells \in Seq(Cell) /\ Len(cells) = Len(out) /\ cells \in Seq(Single)
  BY <1>9, FlattenSingles, SinglesAreSingle
<1>11. Len(cells) <= n.room /\ Len(cells) \in Nat
  BY <1>1, <1>7, <1>9, <1>10
<1>12. /\ w.node = [Output(n, cells) EXCEPT !.held = h, !.input = Behind(Output(n, cells).input, k)]
  BY <1>3, <1>5
<1> HIDE DEF cells
<1>13. Output(n, cells).input = n.input
  <2>1. /\ Output(n, cells) \in Node
        /\ Output(n, cells) = [n EXCEPT !.data = Output(n, cells).data,
                                        !.zpos = Output(n, cells).zpos,
                                        !.room = Output(n, cells).room]
    BY <1>10, <1>11, RingOutput
  <2> QED
    BY <2>1 DEF Node
<1>14. w.node = After(n, cells, h, i)
  BY <1>12, <1>13 DEF i, After
<1>15. i \in Seq(Cell) /\ Len(i) = Len(n.input) - k
  BY <1>2, BytesOfInput DEF i
<1>16. /\ Ring(w.node) = Ring(n) \o cells /\ w.node.eof = n.eof
       /\ w.node.next = n.next /\ w.node.zpos = n.zpos + Len(cells)
       /\ w.node.room = n.room - Len(cells) /\ w.node.held = h /\ w.node.input = i
  <2>1. PICK p \in Seq(Cell), x \in Seq(Nat), y \in Seq(Cell) : p = cells /\ x = h /\ y = i
    BY <1>9, <1>10, <1>15
  <2>2. PICK m : m = After(n, p, x, y)
    OBVIOUS
  <2>3. Len(p) <= n.room
    BY <1>11, <2>1
  <2>4. /\ Ring(m) = Ring(n) \o p /\ m.eof = n.eof /\ m.next = n.next
        /\ m.zpos = n.zpos + Len(p) /\ m.room = n.room - Len(p) /\ m.held = x /\ m.input = y
    BY ONLY <2>2, <2>3, n \in Node, RingSound(n), p \in Seq(Cell), x \in Seq(Nat),
            y \in Seq(Cell), RingAfter
  <2>5. m = w.node
    BY <1>14, <2>1, <2>2
  <2> QED
    BY <2>1, <2>4, <2>5
<1>17. Ring(w.node) \in Seq(Single)
  BY <1>10, <1>16, ConcatProperties
<1>18. w.node.room = 0 => w.node.next # w.node.zpos
  BY <1>1, <1>11, <1>16
<1>19. CASE Ends(k)
  <2>1. k \in 1 .. Len(n.input) /\ n.input[k] = <<>> /\ k - 1 \in Nat /\ k > 0
    BY <1>1, <1>2, <1>19
  <2>2. k = Len(n.input) /\ rest = <<>>
    BY <1>1, <2>1, StreamEnds
  <2>3. i = <<>>
    BY <1>1, <1>15, <2>2, EmptyFacts
  <2>4. Len(bytes) < n.room
    <3>1. bytes = Bytes(k - 1) /\ k - 1 \in 0..Len(n.input)
      BY <1>8, <1>19, <2>1
    <3>2. ~(k <= k - 1)
      BY <2>1
    <3>3. ~(Len(bytes) >= n.room)
      BY <1>2, <3>1, <3>2
    <3> QED
      BY <1>1, <1>7, <3>3
  <2>5. h = <<>>
    BY <1>1, <1>7, <1>9, <2>4, EmptyFacts
  <2>6. w.rv = "eof"
    BY <1>4, <1>19
  <2> QED
    BY <1>16, <1>17, <1>18, <2>2, <2>3, <2>5, <2>6
<1>20. CASE ~Ends(k)
  <2>1. ~(k = 0 /\ out = <<>>)
    <3> SUFFICES ASSUME k = 0, out = <<>> PROVE FALSE
      OBVIOUS
    <3>1. Len(bytes) >= n.room
      BY <1>1, <1>2, <1>20 DEF bytes
    <3>2. Len(out) = n.room
      BY <1>1, <1>7, <1>9, <3>1
    <3> QED
      BY <1>1, <1>9, <3>2, EmptyFacts
  <2>2. w.rv = "ok"
    BY <1>4, <1>20, <2>1
  <2>3. k > 0 => n.input[k] # <<>>
    BY <1>20
  <2>4. Stream(i \o rest)
    BY <1>1, <1>2, <2>3, StreamGoesOn DEF i
  <2> QED
    BY <1>16, <1>17, <1>18, <2>2, <2>4
<1> QED
  BY <1>19, <1>20

\* The first converter of RestoreFile works.
LEMMA ComingWorks ==
  ASSUME NEW n, Sound(n), n.kind \in {"dummy", "unzip"}, NEW rest \in Seq(Cell),
         NEW told \in BOOLEAN, Coming(n, rest, told), Ready(n), NEW w \in Worked(n)
  PROVE  Coming(w.node, rest, told) /\ w.rv # "error"
<1>1. CASE HasData(n) > 0 \/ n.over
  <2>1. w.node = n /\ w.rv = "ok"
    BY <1>1, WorkedIs
  <2> QED
    BY <2>1
<1>2. CASE ~(HasData(n) > 0 \/ n.over)
  <2>1. PICK v \in Work(n) :
          /\ Handled(n, v) /\ w.rv = v.rv
          /\ SameBuffers(v.node, w.node) /\ w.node.eof = v.node.eof
          /\ w.node.over \in BOOLEAN /\ (w.node.over <=> v.rv = "eof")
    BY <1>2, WorkedIs
  <2>2. PICK m : m = w.node
    OBVIOUS
  <2>3. /\ SameBuffers(v.node, m) /\ m.eof = v.node.eof /\ Out(m) = Out(v.node)
        /\ Ring(m) = Ring(v.node)
        /\ m.over <=> v.rv = "eof"
    BY <2>1, <2>2, OutSame, SameBytes
  <2>4. CASE n.kind = "dummy"
    <3>1. v.node = n /\ v.rv \in {"ok", "eof"}
      BY <2>4 DEF Work
    <3>2. m.kind = "dummy" /\ m.eof = n.eof /\ Out(m) = Out(n)
      BY <2>3, <2>4, <3>1 DEF SameBuffers
    <3>3. Coming(m, rest, told)
      BY <2>4, <3>2 DEF Coming
    <3> QED
      BY <2>1, <2>2, <3>1, <3>3
  <2>5. CASE n.kind = "unzip"
    <3>1. /\ n \in Node /\ RingSound(n) /\ n.lost = FALSE /\ n.eof \in BOOLEAN
          /\ n.next \in Nat /\ n.zpos \in Nat /\ n.room \in Nat
      BY <2>5, NodeFields DEF Sound
    <3>2. HasData(n) = IF n.next > n.zpos THEN BufferSize.unzip - n.next ELSE n.zpos - n.next
      BY <2>5, <3>1, HasDataIs DEF UnzipHasData
    <3>3. BufferSize.unzip = BufferSize[n.kind] /\ BufferSize.unzip \in Nat
      BY <2>5, Sizes DEF Kinds
    <3>4. n.next < BufferSize.unzip
      BY <3>1, <3>3 DEF RingSound
    <3>5. n.next = n.zpos
      BY <1>2, <3>1, <3>2, <3>3, <3>4
    <3>6. n.room > 0 /\ n.eof = FALSE /\ n.input # <<>> /\ Stream(n.input \o rest)
      BY <1>2, <2>5, <3>1, <3>5 DEF Coming, Ready
    <3>7. told = FALSE
      BY <3>6 DEF Coming
    <3>8. Ring(n) \in Seq(Single)
      BY <2>5 DEF Coming, Out
    <3>9. v = Inflated(n)
      BY <2>5, <3>6 DEF Work, UnzipWork
    <3>10. /\ v.rv \in {"ok", "eof"} /\ v.node.eof = FALSE
           /\ Ring(v.node) \in Seq(Single)
           /\ v.node.room = 0 => v.node.next # v.node.zpos
           /\ IF v.rv = "eof" THEN v.node.input = <<>> /\ v.node.held = <<>> /\ rest = <<>>
              ELSE Stream(v.node.input \o rest)
      BY ONLY <2>5, <3>1, <3>5, <3>6, <3>8, <3>9, rest \in Seq(Cell), InflatedGives
    <3>11. v.node.kind = "unzip"
      BY <2>1, <2>5 DEF Handled
    <3>12. /\ m.kind = "unzip" /\ m.eof = FALSE /\ m.next = v.node.next /\ m.zpos = v.node.zpos
           /\ m.room = v.node.room /\ m.input = v.node.input /\ m.held = v.node.held
           /\ Out(m) \in Seq(Single)
      BY <2>3, <3>10, <3>11 DEF SameBuffers, Out
    <3>13. Coming(m, rest, told)
      BY <2>3, <3>7, <3>10, <3>12 DEF Coming
    <3> QED
      BY <2>1, <2>2, <3>10, <3>13
  <2> QED
    BY <2>4, <2>5
<1> QED
  BY <1>1, <1>2

\* It gives what it has ready.
LEMMA ComingGives ==
  ASSUME NEW n, n.kind \in {"dummy", "unzip"}, NEW rest, NEW told,
         Coming(n, rest, told), NEW got, NEW k, Gives(n, got, k)
  PROVE  Coming(got.node, rest, told) /\ got.data \in Seq(Single)
<1>1. PICK m : m = got.node
  OBVIOUS
<1>2. PICK p : p = got.data
  OBVIOUS
<1>3. /\ Sound(m) /\ m.kind = n.kind /\ m.eof = n.eof /\ m.over = n.over /\ p \in Seq(Cell)
      /\ Out(n) = p \o Out(m)
      /\ n.kind = "unzip" => m.input = n.input /\ m.held = n.held /\ (m.room = 0 => m.next # m.zpos)
  BY <1>1, <1>2 DEF Gives, Like
<1>4. Out(m) \in Seq(Cell)
  BY <1>3, OutType
<1>5. p \in Seq(Single) /\ Out(m) \in Seq(Single)
  <2>1. p \o Out(m) \in Seq(Single)
    BY <1>3 DEF Coming
  <2> QED
    BY <1>3, <1>4, <2>1, PartsIn
<1>6. Coming(m, rest, told)
  BY <1>3, <1>5 DEF Coming
<1> QED
  BY <1>1, <1>2, <1>5, <1>6

\* It is told that no more comes.
LEMMA ComingEnds ==
  ASSUME NEW n, n.kind \in {"dummy", "unzip"}, NEW told, Coming(n, <<>>, told),
         n.kind = "unzip" => n.input = <<>>, NEW m, Ended(n, m), NEW now \in BOOLEAN
  PROVE  Coming(m, <<>>, now) /\ Ready(m)
<1>1. /\ m.kind = n.kind /\ m.eof = TRUE /\ m.over = n.over /\ SameBuffers(n, m)
      /\ Out(m) = Out(n)
  BY OutSame DEF Ended, SameBuffers
<1>2. CASE n.kind = "dummy"
  <2>1. <<>> \in Seq(Single)
    BY EmptySeq
  <2> QED
    BY <1>1, <1>2, <2>1 DEF Coming, Ready
<1>3. CASE n.kind = "unzip"
  <2>1. ~Stream(n.input \o <<>>)
    <3>1. n.input \o <<>> = <<>> /\ Len(<<>>) = 0
      BY <1>3
    <3> QED
      BY <3>1 DEF Stream
  <2>2. n.over
    BY <1>3, <2>1 DEF Coming
  <2> QED
    BY <1>1, <1>3, <2>2 DEF Coming, Ready, SameBuffers
<1> QED
  BY <1>2, <1>3

\* It needs nothing only when it has something to work with.
LEMMA ComingReady ==
  ASSUME NEW n, n.kind \in {"dummy", "unzip"}, n.eof \in BOOLEAN, NEW rest, NEW told,
         Coming(n, rest, told), told \/ NeedsData(n) = 0
  PROVE  Ready(n)
<1>1. InSize.unzip # 0
  BY Sizes
<1>2. CASE n.eof
  BY <1>2 DEF Coming, Ready
<1>3. CASE ~n.eof
  <2>1. NeedsData(n) = 0
    BY <1>3 DEF Coming
  <2>2. n.kind = "unzip" => NeedsData(n) = UnzipNeedsData(n)
    BY <1>3, NeedsDataIs
  <2> QED
    BY <1>1, <2>1, <2>2 DEF UnzipNeedsData, Ready
<1> QED
  BY <1>2, <1>3

\* A transfer without a fault.
Healthy(c, f, rest, told) ==
  IF c.nodes[1].kind = "filein"
  THEN c.nodes[2].kind \in {"zip", "dummy"} /\ Stored(f, c.nodes[2])
  ELSE /\ c.nodes[2].kind = "fileout" /\ c.nodes[2].data \in Seq(Single)
       /\ Coming(c.nodes[1], rest, told)

\* A second converter takes what it needs.
LEMMA TakesAll ==
  ASSUME NEW b, Sound(b), b.kind \in {"zip", "dummy", "fileout"}, b.eof = FALSE,
         NEW cells \in Seq(Cell), cells # <<>>, Len(cells) <= NeedsData(b),
         b.kind = "fileout" => Space(b) \in Int /\ Len(cells) <= Space(b)
  PROVE  SetData(b, cells).taken = Len(cells)
<1>1. CASE b.kind = "zip"
  BY <1>1, ZlibTakes
<1>2. CASE b.kind = "dummy"
  BY <1>2, DummyTakes
<1>3. CASE b.kind = "fileout"
  <2>1. SetData(b, cells) = FileOutSetData(b, cells)
    BY <1>3, SetDataIs
  <2>2. ~(Space(b) < Len(cells))
    <3>1. Len(cells) \in Nat
      BY EmptyFacts
    <3> QED
      BY <1>3, <3>1
  <2> QED
    BY <2>1, <2>2 DEF FileOutSetData, Set
<1> QED
  BY <1>1, <1>2, <1>3

LEMMA SecondTakesAll ==
  ASSUME NEW c \in Chain, NEW b, b = c.nodes[2], NEW t, t = c.tee,
         Sound(b), Sound(t), b.kind \in {"zip", "dummy", "fileout"}, t.kind = "md5",
         b.eof = FALSE, NEW cells \in Seq(Cell), cells # <<>>,
         Len(cells) <= GroupNeedsData(c, 2),
         b.kind = "fileout" => Space(b) \in Int /\ Len(cells) <= Space(b),
         NEW s, s = GroupSetData(c, 2, cells)
  PROVE  s.taken = s.size
<1> DEFINE size == Len(cells)
           need == GroupNeedsData(c, 2)
<1>1. size \in Nat /\ NeedsData(b) \in Nat /\ NeedsData(t) \in Nat
  BY EmptyFacts, NeedsDataType, NodeFields DEF Sound
<1>2. need = Least({NeedsData(b), NeedsData(t)})
  BY DEF GroupNeedsData
<1>3. need \in Nat /\ need <= NeedsData(b)
  <2> HIDE DEF need
  <2>1. need = IF NeedsData(b) <= NeedsData(t) THEN NeedsData(b) ELSE NeedsData(t)
    BY <1>1, <1>2, LeastOfTwo
  <2> QED
    BY <1>1, <2>1
<1>4. size <= need
  OBVIOUS
<1>5. size <= NeedsData(b) /\ need >= size
  <2> HIDE DEF need, size
  <2> QED
    BY <1>1, <1>3, <1>4
<1>6. SetData(b, cells).taken = size
  BY <1>5, TakesAll
<1>7. s.size = size /\ s.taken = IF size = 0 \/ need >= size THEN SetData(b, cells).taken ELSE 0
  BY DEF GroupSetData
<1> QED
  BY <1>5, <1>6, <1>7

\* The disk has room for the rest of the file.
LEMMA SpaceIsEnough ==
  ASSUME world \in Worlds, world.fault = "none",
         NEW b \in Node, b.data \in Seq(Single), NEW p \in Seq(Single), NEW r \in Seq(Nat),
         NEW h, FlattenSeq(b.data) \o (FlattenSeq(p) \o r) = h, Len(h) <= world.size
  PROVE  Space(b) \in Int /\ Len(p) <= Space(b)
<1>1. world.size \in Nat
  BY SizesAssumption
<1>2. At("disk") = world.size + 1
  BY DEF At
<1>3. /\ Len(FlattenSeq(b.data)) = Len(b.data) /\ Len(FlattenSeq(p)) = Len(p)
      /\ FlattenSeq(b.data) \in Seq(Nat) /\ FlattenSeq(p) \in Seq(Nat)
  BY SingleBytes, CellKinds, RunBytes
<1>4. PICK x \in Seq(Nat), y \in Seq(Nat) : x = FlattenSeq(b.data) /\ y = FlattenSeq(p)
  BY <1>3
<1>5. Len(h) = Len(x) + (Len(y) + Len(r)) /\ Len(x) \in Nat /\ Len(y) \in Nat /\ Len(r) \in Nat
  <2>1. y \o r \in Seq(Nat) /\ Len(y \o r) = Len(y) + Len(r)
    BY ConcatProperties
  <2>2. Len(x \o (y \o r)) = Len(x) + Len(y \o r)
    BY <2>1, ConcatProperties
  <2> QED
    BY <1>4, <2>1, <2>2, LenProperties
<1>6. Len(b.data) = Len(x) /\ Len(p) = Len(y)
  BY <1>3, <1>4
<1> QED
  BY <1>1, <1>2, <1>5, <1>6 DEF Space

\* The first converter's data are taken, and the transfer stays without a fault.
LEMMA HandedOverWell ==
  ASSUME world \in Worlds, world.fault = "none",
         NEW c, NEW g \in Seq(Nat), NEW h, NEW q \in Seq(Single), GroupOK(c, g, h, q),
         NEW f \in Seq(Cell), NEW rest, NEW told, Healthy(c, f, rest, told),
         c.nodes[2].kind = "fileout" => Len(h) <= world.size,
         HasData(c.nodes[1]) # 0, GroupNeedsData(c, 2) # 0, NEW s \in HandOver(c)
  PROVE  s.taken = s.size /\ Healthy(s.chain, f, rest, told)
<1> DEFINE a == c.nodes[1]
           b == c.nodes[2]
           t == c.tee
           need == GroupNeedsData(c, 2)
           k == Least({need, HasData(a)})
           got == GetData(a, k)
           d == [c EXCEPT !.nodes[1] = got.node]
<1>1. c \in Chain /\ InStep(a, b, t, g, h, q)
  BY DEF GroupOK
<1>2. /\ Sound(a) /\ Sound(b) /\ Sound(t) /\ a.kind # "md5" /\ t.kind = "md5"
      /\ a.kind \in {"filein", "dummy", "unzip"}
      /\ b.kind \in {"zip", "dummy", "fileout"} /\ t.eof = b.eof
  BY <1>1 DEF InStep
<1>3. s = GroupSetData(d, 2, got.data)
  BY DEF HandOver
<1>4. need = Least({NeedsData(b), NeedsData(t)})
  BY DEF GroupNeedsData
<1>5. IF a.kind = "filein"
      THEN b.kind \in {"zip", "dummy"} /\ Stored(f, b)
      ELSE b.kind = "fileout" /\ b.data \in Seq(Single) /\ Coming(a, rest, told)
  BY DEF Healthy
<1>6. b.kind = "fileout" => Len(h) <= world.size
  OBVIOUS
<1> HIDE DEF a, b, t, need, k, d, got
<1>7. b.eof \in BOOLEAN /\ b.kind \in Kinds /\ t.kind \in Kinds
  BY <1>2, NodeFields DEF Sound
<1>8. NeedsData(b) \in Nat /\ NeedsData(t) \in Nat
  BY <1>2, <1>7, NeedsDataType
<1>9. need \in Nat /\ need >= 1 /\ (need = NeedsData(b) \/ need = NeedsData(t))
  <2>1. need = IF NeedsData(b) <= NeedsData(t) THEN NeedsData(b) ELSE NeedsData(t)
    BY <1>4, <1>8, LeastOfTwo
  <2>2. need # 0
    BY DEF need
  <2> QED
    BY <1>8, <2>1, <2>2
<1>10. b.eof = FALSE /\ t.eof = FALSE
  <2>1. b.eof => NeedsData(b) = 0 /\ NeedsData(t) = 0
    BY <1>2 DEF NeedsData
  <2> QED
    BY <1>2, <1>7, <1>9, <2>1
<1>11. HasData(a) \in Nat /\ HasData(a) # 0
  BY <1>2, HasDataType DEF a
<1>12. k \in Nat /\ k >= 1 /\ k <= HasData(a) /\ k <= need
  <2>1. k = IF need <= HasData(a) THEN need ELSE HasData(a)
    BY <1>9, <1>11, LeastOfTwo DEF k
  <2> QED
    BY <1>9, <1>11, <2>1
<1>13. Gives(a, got, k)
  BY <1>2, <1>12, NodeGives DEF got
<1>14. PICK cells \in Seq(Cell), x \in Node :
         /\ cells = got.data /\ x = got.node /\ Len(cells) = k /\ Sound(x) /\ x.kind = a.kind
         /\ InNode(a) = FlattenSeq(cells) \o InNode(x)
         /\ a.kind = "filein" => Unread(a) = cells \o Unread(x)
  BY <1>13 DEF Gives, Like, Sound
<1>15. d \in Chain /\ d.nodes[1] = x /\ d.nodes[2] = b /\ d.tee = t
  <2>1. d = [c EXCEPT !.nodes[1] = x] /\ c \in Chain /\ 1 \in 1..2 /\ 2 \in 1..2 /\ 1 # 2
    BY <1>1, <1>14 DEF d
  <2>2. d \in Chain /\ d.tee = c.tee /\ d.nodes[1] = x /\ d.nodes[2] = c.nodes[2]
    BY ONLY <2>1, x \in Node, NodeReplaced
  <2> QED
    BY <2>2 DEF b, t
<1>16. cells # <<>>
  BY <1>12, <1>14, EmptyFacts
<1>17. GroupNeedsData(d, 2) = need
  BY <1>4, <1>15 DEF GroupNeedsData
<1>18. a.kind # "filein" => cells \in Seq(Single) /\ Coming(x, rest, told)
  <2> SUFFICES ASSUME a.kind # "filein" PROVE cells \in Seq(Single) /\ Coming(x, rest, told)
    OBVIOUS
  <2>1. Coming(a, rest, told) /\ a.kind \in {"dummy", "unzip"}
    BY <1>2, <1>5
  <2> QED
    BY <1>13, <1>14, <2>1, ComingGives
<1>19. b.kind = "fileout" => Space(b) \in Int /\ Len(cells) <= Space(b)
  <2> SUFFICES ASSUME b.kind = "fileout" PROVE Space(b) \in Int /\ Len(cells) <= Space(b)
    OBVIOUS
  <2>1. a.kind # "filein" /\ b.data \in Seq(Single) /\ cells \in Seq(Single)
    BY <1>5, <1>18
  <2>2. PICK r \in Seq(Nat) : r = InNode(x)
    BY <1>2, <1>14, InNodeType
  <2>3. FlattenSeq(b.data) \o (FlattenSeq(cells) \o r) = h
    BY <1>1, <1>14, <2>2 DEF InStep
  <2>4. b \in Node
    BY <1>2 DEF Sound
  <2>5. Len(h) <= world.size
    BY <1>6
  <2> QED
    BY ONLY world \in Worlds, world.fault = "none", <2>1, <2>3, <2>4, <2>5, r \in Seq(Nat),
            SpaceIsEnough
<1>20. s = GroupSetData(d, 2, cells)
  BY <1>3, <1>14
<1>21. s.taken = s.size
  <2>1. Len(cells) <= GroupNeedsData(d, 2)
    BY <1>12, <1>14, <1>17
  <2>2. b = d.nodes[2] /\ t = d.tee /\ d \in Chain
    BY <1>15
  <2> QED
    BY ONLY <1>2, <1>10, <1>16, <1>19, <1>20, <2>1, <2>2, cells \in Seq(Cell), SecondTakesAll,
            ZenonT(60)
<1>22. PICK e, b2 : /\ e = s.chain /\ e.nodes[1] = x /\ b2 = e.nodes[2] /\ Takes(b, b2, cells)
  <2>1. b = d.nodes[2] /\ t = d.tee
    BY <1>15
  <2>2. /\ s.chain \in Chain /\ s.chain.nodes[1] = d.nodes[1]
        /\ Takes(b, s.chain.nodes[2], cells)
    BY ONLY <1>2, <1>10, <1>15, <1>16, <1>20, <1>21, <2>1, cells \in Seq(Cell), SecondTakes,
            ZenonT(60)
  <2> QED
    BY <1>15, <2>2
<1>23. b2.kind = b.kind
  BY <1>22 DEF Takes, Like
<1>24. CASE a.kind = "filein"
  <2>1. t.data \o (cells \o Unread(x)) \in Seq(Single)
    BY <1>1, <1>14, <1>24 DEF InStep
  <2>2. /\ t.data \in Seq(Cell) /\ Unread(x) \in Seq(Cell) /\ cells \o Unread(x) \in Seq(Cell)
    <3>1. x.data \in Seq(Cell) /\ x.next \in Nat /\ x.held \in Seq(Cell) /\ t \in Node
      BY <1>2, <1>14, <1>24, NodeFields DEF Sound, FileInSound
    <3>2. Behind(x.data, x.next) \in Seq(Cell)
      BY <3>1, BehindFacts
    <3>3. Unread(x) \in Seq(Cell)
      BY <3>1, <3>2, ConcatProperties DEF Unread
    <3> QED
      BY <3>1, <3>3, NodeFields, ConcatProperties
  <2>3. cells \in Seq(Single)
    <3>1. cells \o Unread(x) \in Seq(Single)
      BY <2>1, <2>2, PartsIn
    <3> QED
      BY <2>2, <3>1, PartsIn
  <2>4. Stored(f, b) /\ b.kind \in {"zip", "dummy"}
    BY <1>5, <1>24
  <2>5. Stored(f, b2)
    BY ONLY <1>2, <1>22, <2>3, <2>4, f \in Seq(Cell), StoredTakes
  <2> QED
    BY <1>14, <1>21, <1>22, <1>23, <1>24, <2>4, <2>5 DEF Healthy
<1>25. CASE a.kind # "filein"
  <2>1. b.kind = "fileout" /\ b.data \in Seq(Single)
    BY <1>5, <1>25
  <2>2. b2.data = b.data \o cells
    BY <1>22, <2>1 DEF Takes
  <2>3. b2.data \in Seq(Single)
    BY <1>18, <1>25, <2>1, <2>2, ConcatProperties
  <2> QED
    BY <1>14, <1>18, <1>21, <1>22, <1>23, <1>25, <2>1, <2>3 DEF Healthy
<1> QED
  BY <1>24, <1>25

\* The turn of the first converter, without a fault.
LEMMA TurnOfFirstWell ==
  ASSUME world \in Worlds, world.fault = "none",
         NEW c, NEW g \in Seq(Nat), NEW h, NEW q \in Seq(Single), GroupOK(c, g, h, q),
         NEW f \in Seq(Cell), NEW rest \in Seq(Cell), NEW told \in BOOLEAN,
         Healthy(c, f, rest, told),
         c.nodes[2].kind = "fileout" => Len(h) <= world.size /\ Ready(c.nodes[1]),
         NEW u \in Turn(c, 1)
  PROVE  u.rv # "error" /\ Healthy(u.chain, f, rest, told)
<1>1. PICK w \in Worked(c.nodes[1]) : u \in Behaved([c EXCEPT !.nodes[1] = w.node], 1, w.rv)
  BY DEF Turn
<1>2. PICK d, n : d = [c EXCEPT !.nodes[1] = w.node] /\ n = d.nodes[1]
  OBVIOUS
<1>3. c \in Chain /\ InStep(c.nodes[1], c.nodes[2], c.tee, g, h, q)
  BY DEF GroupOK
<1>4. InStep(w.node, c.nodes[2], c.tee, g, h, q) /\ w.node.kind = c.nodes[1].kind
  BY <1>3, FirstWorks
<1>5. d \in Chain /\ d.nodes[1] = w.node /\ d.nodes[2] = c.nodes[2] /\ d.tee = c.tee
  <2>1. w.node \in Node
    BY <1>4 DEF InStep, Sound
  <2> QED
    BY <1>2, <1>3, <2>1, NodeReplaced
<1>6. GroupOK(d, g, h, q)
  BY <1>4, <1>5 DEF GroupOK
<1>7. w.rv # "error" /\ Healthy(d, f, rest, told)
  <2>1. Sound(c.nodes[1]) /\ c.nodes[1].kind \in {"filein", "dummy", "unzip"}
    BY <1>3 DEF InStep
  <2>2. CASE c.nodes[1].kind = "filein"
    <3>1. w.rv # "error"
      <4>1. \A v \in Work(c.nodes[1]) : v.rv \in {"ok", "eof"}
        BY <2>2 DEF Work, FileInWork
      <4> QED
        BY <2>1, <4>1, WorkedIs
    <3> QED
      BY <1>4, <1>5, <2>2, <3>1 DEF Healthy
  <2>3. CASE c.nodes[1].kind # "filein"
    <3>1. /\ c.nodes[2].kind = "fileout" /\ c.nodes[2].data \in Seq(Single)
          /\ Coming(c.nodes[1], rest, told)
      BY <2>3 DEF Healthy
    <3>2. Coming(w.node, rest, told) /\ w.rv # "error"
      BY <2>1, <2>3, <3>1, ComingWorks
    <3> QED
      BY <1>4, <1>5, <2>3, <3>1, <3>2 DEF Healthy
  <2> QED
    BY <2>2, <2>3
<1>8. u \in Behaved(d, 1, w.rv)
  BY <1>1, <1>2
<1>9. CASE HasData(n) = 0 /\ ~n.over
  <2>1. u = Stop(d, "ok")
    BY <1>2, <1>7, <1>8, <1>9 DEF Behaved
  <2> QED
    BY <1>7, <2>1 DEF Stop
<1>10. CASE HasData(n) = 0 /\ n.over
  <2>1. PICK e : e = GroupSetData(d, 2, <<>>).chain
    OBVIOUS
  <2>2. u = GoOn(e)
    BY <1>2, <1>7, <1>8, <1>10, <2>1 DEF Behaved
  <2>3. e.nodes[1] = d.nodes[1] /\ Ended(d.nodes[2], e.nodes[2])
    BY <1>5, <2>1, SecondEnds
  <2>4. e.nodes[2].kind = d.nodes[2].kind /\ e.nodes[2].data = d.nodes[2].data
    BY <2>3 DEF Ended, SameBuffers
  <2>5. Stored(f, d.nodes[2]) => Stored(f, e.nodes[2])
    BY <2>3, StoredEnds
  <2>6. Healthy(e, f, rest, told)
    BY <1>7, <2>3, <2>4, <2>5 DEF Healthy
  <2> QED
    BY <2>2, <2>6 DEF GoOn
<1>11. CASE HasData(n) # 0 /\ GroupNeedsData(d, 2) = 0
  <2>1. u = GoOn(d)
    BY <1>2, <1>7, <1>8, <1>11 DEF Behaved
  <2> QED
    BY <1>7, <2>1 DEF GoOn
<1>12. CASE HasData(n) # 0 /\ GroupNeedsData(d, 2) # 0
  <2>1. PICK s \in HandOver(d) :
          u = IF s.taken = s.size THEN GoOn(s.chain) ELSE Stop(s.chain, "error")
    <3>1. w.rv # "error" /\ n = d.nodes[1]
      BY <1>2, <1>7
    <3> QED
      BY <1>8, <1>12, <3>1 DEF Behaved
  <2>2. d.nodes[2].kind = "fileout" => Len(h) <= world.size
    BY <1>5
  <2>3. s.taken = s.size /\ Healthy(s.chain, f, rest, told)
    BY <1>2, <1>6, <1>7, <1>12, <2>2, HandedOverWell
  <2> QED
    BY <2>1, <2>3 DEF GoOn
<1> QED
  BY <1>9, <1>10, <1>11, <1>12

\* The turn of the second.
LEMMA TurnOfSecondWell ==
  ASSUME NEW c, NEW g \in Seq(Nat), NEW h, NEW q, GroupOK(c, g, h, q),
         NEW f \in Seq(Cell), NEW rest, NEW told, Healthy(c, f, rest, told),
         NEW u \in Turn(c, 2)
  PROVE  u.rv # "error" /\ Healthy(u.chain, f, rest, told)
<1>1. PICK w \in Worked(c.nodes[2]) : u \in Behaved([c EXCEPT !.nodes[2] = w.node], 2, w.rv)
  BY DEF Turn
<1>2. PICK d, n : d = [c EXCEPT !.nodes[2] = w.node] /\ n = d.nodes[2]
  OBVIOUS
<1>3. c \in Chain /\ InStep(c.nodes[1], c.nodes[2], c.tee, g, h, q)
  BY DEF GroupOK
<1>4. InStep(c.nodes[1], w.node, c.tee, g, h, q) /\ w.node.kind = c.nodes[2].kind
  BY <1>3, SecondWorks
<1>5. d.nodes[2] = w.node /\ d.nodes[1] = c.nodes[1]
  <2>1. PICK x \in Node : x = w.node
    BY <1>4 DEF InStep, Sound
  <2>2. 2 \in 1..2 /\ 1 \in 1..2 /\ 1 # 2
    OBVIOUS
  <2>3. d = [c EXCEPT !.nodes[2] = x]
    BY <1>2, <2>1
  <2>4. d \in Chain /\ d.nodes[2] = x /\ d.nodes[1] = c.nodes[1] /\ d.tee = c.tee
    BY ONLY <1>3, <2>2, <2>3, x \in Node, NodeReplaced, SMTT(30)
  <2> QED
    BY <2>1, <2>4
<1>6. w.rv # "error" /\ Healthy(d, f, rest, told)
  <2>1. Sound(c.nodes[2])
    BY <1>3 DEF InStep
  <2>2. CASE c.nodes[1].kind = "filein"
    <3>1. c.nodes[2].kind \in {"zip", "dummy"} /\ Stored(f, c.nodes[2])
      BY <2>2 DEF Healthy
    <3>2. Stored(f, w.node) /\ w.rv # "error"
      BY <2>1, <3>1, StoredWorks
    <3> QED
      BY <1>4, <1>5, <2>2, <3>1, <3>2 DEF Healthy
  <2>3. CASE c.nodes[1].kind # "filein"
    <3>1. /\ c.nodes[2].kind = "fileout" /\ c.nodes[2].data \in Seq(Single)
          /\ Coming(c.nodes[1], rest, told)
      BY <2>3 DEF Healthy
    <3>2. w.node.data = c.nodes[2].data
      BY <2>1, <3>1, WorkedWorks DEF Works
    <3>3. w.rv # "error"
      <4>1. \A v \in Work(c.nodes[2]) : v.rv \in {"ok", "eof"}
        BY <3>1 DEF Work
      <4> QED
        BY <2>1, <4>1, WorkedIs
    <3> QED
      BY <1>4, <1>5, <2>3, <3>1, <3>2, <3>3 DEF Healthy
  <2> QED
    BY <2>2, <2>3
<1>7. u \in Behaved(d, 2, w.rv)
  BY <1>1, <1>2
<1>8. u.rv # "error" /\ u.chain = d
  BY <1>2, <1>6, <1>7 DEF Behaved, Stop, GoOn
<1> QED
  BY <1>6, <1>8

\* A round of work of the group without a fault.
LEMMA GroupWorksWell ==
  ASSUME world \in Worlds, world.fault = "none",
         NEW c, NEW g \in Seq(Nat), NEW h, NEW q \in Seq(Single), GroupOK(c, g, h, q),
         NEW f \in Seq(Cell), NEW rest \in Seq(Cell), NEW told \in BOOLEAN,
         Healthy(c, f, rest, told),
         c.nodes[2].kind = "fileout" => Len(h) <= world.size /\ Ready(c.nodes[1]),
         NEW w \in GroupWork(c)
  PROVE  w.rv # "error" /\ Healthy(w.chain, f, rest, told)
<1>1. PICK u \in Turn(c, 1) : w \in IF u.on THEN Turn(u.chain, 2) ELSE {u}
  BY DEF GroupWork
<1>2. u.rv # "error" /\ Healthy(u.chain, f, rest, told)
  BY TurnOfFirstWell
<1>3. GroupOK(u.chain, g, h, q)
  BY <1>2, TurnOfFirst
<1>4. CASE ~u.on
  BY <1>1, <1>2, <1>4
<1>5. CASE u.on
  <2>1. w \in Turn(u.chain, 2)
    BY <1>1, <1>5
  <2> QED
    BY <1>2, <1>3, <2>1, TurnOfSecondWell
<1> QED
  BY <1>4, <1>5

-----------------------------------------------------------------------------
(* The steps of a transfer without a fault.                                *)

LEMMA NoFault ==
  ASSUME world \in Worlds, world.fault = "none"
  PROVE  /\ world.size \in Nat /\ Content \in Seq(Single) /\ Readable = Content
         /\ Len(Content) = world.size /\ Len(FlattenSeq(Content)) = world.size
         /\ FlattenSeq(Content) \in Seq(Nat)
         /\ \A f \in Faults \ {"none"} : At(f) = world.size + 1
<1>1. world.size \in Nat
  BY SizesAssumption
<1>2. Content \in Seq(Single) /\ Len(Content) = world.size
  <2>1. \A i \in 1..world.size : <<i>> \in Single
    <3>1. \A i \in 1..world.size : i \in Nat
      BY <1>1
    <3> QED
      BY <3>1 DEF Single, Cell
  <2>2. Content \in [1..world.size -> Single]
    BY <2>1 DEF Content
  <2> QED
    BY <1>1, <2>2, FunctionIsSeq
<1>3. \A f \in Faults \ {"none"} : At(f) = world.size + 1
  BY DEF At
<1>4. At("read") = world.size + 1
  BY <1>3 DEF Faults
<1>5. Readable = Content
  <2>1. world.size + 1 \in Nat /\ world.size + 1 >= Len(Content)
    BY <1>1, <1>2
  <2> QED
    BY <1>2, <1>4, <2>1, FirstAll DEF Readable
<1>6. Len(FlattenSeq(Content)) = world.size /\ FlattenSeq(Content) \in Seq(Nat)
  BY <1>2, SingleBytes, CellKinds, RunBytes
<1> QED
  BY <1>1, <1>2, <1>3, <1>5, <1>6

\* New converters have nothing ready.
LEMMA NewRing ==
  ASSUME NEW k \in {"zip", "unzip"}
  PROVE  LET n == [Converter(k) EXCEPT !.data = ZeroedBuffer(k)]
         IN  /\ Fresh(n) /\ n.kind = k /\ n.over = FALSE /\ Out(n) = <<>>
             /\ n.next = 0 /\ n.zpos = 0 /\ n.room = BufferSize[k] /\ n.input = <<>>
<1> DEFINE z == ZeroedBuffer(k)
           n == [Converter(k) EXCEPT !.data = z]
<1>1. BufferSize[k] \in Nat /\ BufferSize[k] >= 1 /\ k \in Kinds
  BY Sizes DEF Kinds
<1>2. Fresh(n) /\ n.kind = k
  BY RingIsFresh
<1>3. n.next = 0 /\ n.zpos = 0 /\ n.room = BufferSize[k] /\ n.over = FALSE /\ n.input = <<>>
  <2>1. PICK c \in Node : c = Converter(k)
    BY <1>1, ConverterFields
  <2>2. /\ c.kind = k /\ c.next = 0 /\ c.zpos = 0 /\ c.room = BufferSize[k] /\ c.over = FALSE
        /\ c.input = <<>>
    BY <1>1, <2>1, ConverterFields
  <2>3. n = [c EXCEPT !.data = z]
    BY <2>1
  <2> HIDE DEF n, z
  <2> QED
    BY <2>2, <2>3 DEF Node
<1> HIDE DEF n, z
<1>4. n \in Node /\ RingSound(n)
  BY <1>2 DEF Fresh, Sound
<1>5. ~Wrapped(n)
  BY <1>1, <1>3 DEF Wrapped
<1>6. Out(n) = <<>>
  BY <1>2, <1>3, <1>4, <1>5, EmptyRing DEF Out
<1>7. /\ Fresh(n) /\ n.kind = k /\ n.over = FALSE /\ Out(n) = <<>>
      /\ n.next = 0 /\ n.zpos = 0 /\ n.room = BufferSize[k] /\ n.input = <<>>
  BY <1>2, <1>3, <1>6
<1> QED
  BY <1>7 DEF n, z

LEMMA NewDummy ==
  Fresh(DummyNew) /\ DummyNew.kind = "dummy" /\ DummyNew.over = FALSE /\ Out(DummyNew) = <<>>
<1>1. Fresh(DummyNew)
  BY DummyIsFresh
<1>2. /\ DummyNew.kind = "dummy" /\ DummyNew.data = <<>> /\ DummyNew.next = 0
      /\ DummyNew.over = FALSE
  BY ConverterFields DEF DummyNew, Kinds
<1> QED
  BY <1>1, <1>2, BehindEmpty DEF Out

LEMMA NewGivesNothing ==
  ASSUME NEW b, b = IF world.zip THEN ZipNew ELSE DummyNew
  PROVE  /\ Fresh(b) /\ b.over = FALSE /\ b.kind = (IF world.zip THEN "zip" ELSE "dummy")
         /\ Out(b) = <<>>
BY NewRing, NewDummy DEF ZipNew

LEMMA BeginningWell == Init => FaultlessInv
<1> SUFFICES ASSUME Init PROVE FaultlessInv
  OBVIOUS
<1>1. /\ op = "store" /\ chain = StoreChain /\ file = <<>> /\ world \in Worlds
      /\ result = [store |-> "none", restore |-> "none", check |-> NoVersion]
  BY DEF Init
<1>2. PICK b : b = IF world.zip THEN ZipNew ELSE DummyNew
  OBVIOUS
<1>3. chain.nodes[2] = b
  BY <1>1, <1>2 DEF StoreChain
<1>4. /\ Fresh(b) /\ b.over = FALSE /\ b.kind = (IF world.zip THEN "zip" ELSE "dummy")
      /\ Out(b) = <<>>
  BY <1>2, NewGivesNothing
<1>5. <<>> \o Out(b) = <<>> /\ <<>> \in Seq(Single) /\ <<>> \in Seq(Run)
  BY <1>4, EmptySeq
<1>6. Stored(file, chain.nodes[2])
  BY <1>1, <1>3, <1>4, <1>5 DEF Stored
<1> QED
  BY <1>1, <1>6 DEF FaultlessInv, StoringWell, RestoringWell, EndingWell, Outcome

LEMMA StoreWorkWell ==
  ASSUME IInv, FaultlessInv, StoreWork
  PROVE  FaultlessInv'
<1>1. op = "store" /\ world' = world
  BY DEF StoreWork
<1>2. SUFFICES ASSUME world.fault = "none" PROVE FaultlessInv'
  BY <1>1 DEF FaultlessInv
<1>3. PICK w \in GroupWork(chain) :
        IF w.rv = "error" THEN Return("failed")
        ELSE /\ chain' = w.chain
             /\ outeof' = (w.rv = "eof")
             /\ phase' = "drain"
             /\ UNCHANGED <<op, ineof, file, sent, version, result>>
  BY DEF StoreWork
<1>4. /\ world \in Worlds /\ file \in Seq(Cell)
      /\ GroupOK(chain, FlattenSeq(file), FlattenSeq(Readable), Readable)
      /\ chain.nodes[1].kind = "filein" /\ chain.nodes[2].kind \in {"zip", "dummy"}
  BY <1>1 DEF IInv, Types, Storing
<1>5. Stored(file, chain.nodes[2]) /\ Outcome("none", "none", NoVersion)
  BY <1>1, <1>2 DEF FaultlessInv, StoringWell
<1>6. PICK g \in Seq(Nat), f \in Seq(Cell), q \in Seq(Single), h \in Seq(Nat) :
        g = FlattenSeq(file) /\ f = file /\ q = Readable /\ h = FlattenSeq(Readable)
  BY <1>2, <1>4, NoFault, FlattenStep DEF Cell
<1>7. PICK rest \in Seq(Cell), told \in BOOLEAN : rest = <<>> /\ told = FALSE
  BY EmptySeq
<1>8. GroupOK(chain, g, h, q) /\ Healthy(chain, f, rest, told)
  BY <1>4, <1>5, <1>6 DEF Healthy
<1>9. chain.nodes[2].kind # "fileout"
  BY <1>4
<1>10. w.rv # "error" /\ Healthy(w.chain, f, rest, told)
  BY ONLY <1>2, <1>4, <1>8, <1>9, g \in Seq(Nat), f \in Seq(Cell), q \in Seq(Single),
          rest \in Seq(Cell), told \in BOOLEAN, w \in GroupWork(chain), GroupWorksWell
<1>11. KindsKept(chain, w.chain)
  BY <1>8, <1>10, GroupWorks
<1>12. Stored(file, w.chain.nodes[2])
  BY <1>4, <1>6, <1>10, <1>11 DEF KindsKept, Healthy
<1>13. chain' = w.chain /\ op' = op /\ file' = file /\ result' = result
  BY <1>3, <1>10
<1>14. StoringWell'
  BY <1>5, <1>12, <1>13 DEF StoringWell, Outcome
<1>15. RestoringWell' /\ EndingWell'
  BY <1>1, <1>13 DEF RestoringWell, EndingWell
<1> QED
  BY <1>14, <1>15 DEF FaultlessInv

\* The room at the server is enough for what StoreFile sends.
LEMMA RoomIsEnough ==
  ASSUME world \in Worlds, world.fault = "none",
         NEW a, NEW b, NEW t, NEW f \in Seq(Cell), NEW q,
         InStep(a, b, t, FlattenSeq(f), FlattenSeq(Readable), q),
         b.kind \in {"zip", "dummy"}, Stored(f, b)
  PROVE  Len(f \o Out(b)) <= world.size + 1
<1>1. Sound(b) /\ b.kind # "md5" /\ Out(b) \in Seq(Cell)
  BY OutType DEF InStep
<1>2. PICK o \in Seq(Cell) : o = Out(b)
  BY <1>1
<1>3. Len(f \o o) <= Len(FlattenSeq(f \o o)) + 1 /\ f \o o \in Seq(Cell)
  BY <1>2, StoredBytes
<1>4. /\ FlattenSeq(f \o o) = FlattenSeq(f) \o FlattenSeq(o)
      /\ FlattenSeq(f) \in Seq(Nat) /\ FlattenSeq(o) \in Seq(Nat)
  BY FlattenConcat, FlattenStep DEF Cell
<1>5. PICK x \in Seq(Nat), y \in Seq(Nat) : x = FlattenSeq(f) /\ y = FlattenSeq(o)
  BY <1>4
<1>6. \E z \in Seq(Nat) : InNode(b) = y \o z
  <2>1. CASE b.kind = "dummy"
    <3>1. InNode(b) = y
      BY <1>2, <1>5, <2>1, InNodeIs DEF Out
    <3>2. y \o <<>> = y /\ <<>> \in Seq(Nat)
      BY EmptyFacts, EmptySeq
    <3> QED
      BY <3>1, <3>2
  <2>2. CASE b.kind = "zip"
    <3>1. b \in Node /\ RingSound(b)
      BY <1>1, <2>2 DEF Sound
    <3>2. /\ InNode(b) = (FlattenSeq(Ring(b)) \o b.held) \o FlattenSeq(b.input)
          /\ b.held \in Seq(Nat) /\ FlattenSeq(b.input) \in Seq(Nat)
      BY <2>2, <3>1, RingBytes
    <3>3. Ring(b) = o
      BY <1>2, <2>2 DEF Out
    <3>4. PICK u \in Seq(Nat), v \in Seq(Nat) : u = b.held /\ v = FlattenSeq(b.input)
      BY <3>2
    <3>5. (y \o u) \o v = y \o (u \o v) /\ u \o v \in Seq(Nat)
      <4>1. Assoc(y, u, v)
        BY ONLY y \in Seq(Nat), u \in Seq(Nat), v \in Seq(Nat), Associative
      <4> QED
        BY ONLY <4>1, u \in Seq(Nat), v \in Seq(Nat), ConcatProperties DEF Assoc
    <3>6. InNode(b) = y \o (u \o v)
      BY <1>5, <3>2, <3>3, <3>4, <3>5
    <3> QED
      BY <3>5, <3>6
  <2> QED
    BY <2>1, <2>2
<1>7. PICK z \in Seq(Nat) : InNode(b) = y \o z
  BY <1>6
<1>8. PICK e \in Seq(Nat) : e = InNode(a)
  <2>1. Sound(a) /\ a.kind # "md5"
    BY DEF InStep
  <2> QED
    BY <2>1, InNodeType
<1>9. PICK h : h = FlattenSeq(Readable)
  OBVIOUS
<1>10. x \o ((y \o z) \o e) = h
  <2>1. InStep(a, b, t, x, h, q)
    BY <1>5, <1>9
  <2>2. x \o (InNode(b) \o InNode(a)) = h
    BY ONLY <2>1, x \in Seq(Nat), InStepBytes
  <2> QED
    BY <1>7, <1>8, <2>2
<1>11. Len(h) = Len(x) + ((Len(y) + Len(z)) + Len(e))
  <2>1. y \o z \in Seq(Nat) /\ Len(y \o z) = Len(y) + Len(z)
    BY ConcatProperties
  <2>2. (y \o z) \o e \in Seq(Nat) /\ Len((y \o z) \o e) = Len(y \o z) + Len(e)
    BY <2>1, ConcatProperties
  <2>3. Len(x \o ((y \o z) \o e)) = Len(x) + Len((y \o z) \o e)
    BY <2>2, ConcatProperties
  <2> QED
    BY <1>10, <2>1, <2>2, <2>3
<1>12. Len(x) \in Nat /\ Len(y) \in Nat /\ Len(z) \in Nat /\ Len(e) \in Nat
  BY LenProperties
<1>13. Len(h) = world.size /\ world.size \in Nat
  BY <1>9, NoFault
<1>14. Len(FlattenSeq(f \o o)) = Len(x) + Len(y)
  BY <1>4, <1>5, ConcatProperties
<1>15. Len(f \o o) \in Nat
  BY <1>3, LenProperties
<1>16. Len(f \o o) <= world.size + 1
  BY <1>3, <1>11, <1>12, <1>13, <1>14, <1>15
<1> QED
  BY <1>2, <1>16

LEMMA StoreDrainWell ==
  ASSUME IInv, FaultlessInv, StoreDrain
  PROVE  FaultlessInv'
<1> DEFINE b == chain.nodes[2]
           has == HasData(b)
           k == Least({has, StoreBuffer})
           got == GetData(b, k)
<1>1. op = "store" /\ world' = world
  BY DEF StoreDrain
<1>2. SUFFICES ASSUME world.fault = "none" PROVE FaultlessInv'
  BY <1>1 DEF FaultlessInv
<1>3. IF has = 0
      THEN /\ phase' = IF outeof THEN "sum" ELSE "work"
           /\ UNCHANGED <<op, chain, ineof, outeof, file, sent, version, result>>
      ELSE IF got.data = <<>> \/ Len(file) + Len(got.data) > At("room")
      THEN Return("failed")
      ELSE /\ chain' = [chain EXCEPT !.nodes[2] = got.node]
           /\ file' = file \o got.data
           /\ UNCHANGED <<op, phase, ineof, outeof, sent, version, result>>
  BY DEF StoreDrain
<1>4. /\ world \in Worlds /\ file \in Seq(Cell) /\ chain \in Chain
      /\ InStep(chain.nodes[1], b, chain.tee, FlattenSeq(file), FlattenSeq(Readable), Readable)
      /\ b.kind \in {"zip", "dummy"}
  BY <1>1 DEF IInv, Types, Storing, GroupOK
<1>5. Stored(file, b) /\ Outcome("none", "none", NoVersion)
  BY <1>1, <1>2 DEF FaultlessInv, StoringWell
<1>6. CASE has = 0
  <2>1. chain' = chain /\ op' = op /\ file' = file /\ result' = result
    BY <1>3, <1>6
  <2>2. StoringWell'
    BY <1>5, <2>1 DEF StoringWell, Outcome
  <2>3. RestoringWell' /\ EndingWell'
    BY <1>1, <2>1 DEF RestoringWell, EndingWell
  <2> QED
    BY <2>2, <2>3 DEF FaultlessInv
<1>7. CASE has # 0
  <2>1. Sound(b) /\ b.kind # "md5"
    BY <1>4 DEF InStep
  <2>2. PICK n \in Node, f \in Seq(Cell) : n = b /\ f = file
    BY <1>4, <2>1 DEF Sound
  <2> HIDE DEF b
  <2>3. k \in Nat /\ k >= 1 /\ k <= has
    <3>1. has \in Nat /\ has # 0 /\ StoreBuffer \in Nat /\ StoreBuffer >= 1
      BY <1>7, <2>1, HasDataType, Sizes
    <3> HIDE DEF has
    <3>2. k = IF has <= StoreBuffer THEN has ELSE StoreBuffer
      BY <3>1, LeastOfTwo
    <3> QED
      BY <3>1, <3>2
  <2> HIDE DEF k
  <2>4. Gives(b, got, k)
    BY <2>1, <2>3, NodeGives
  <2> HIDE DEF got
  <2>5. PICK x \in Node, p \in Seq(Cell) :
          /\ x = got.node /\ p = got.data /\ Sound(x) /\ x.kind = b.kind
          /\ Len(p) = k /\ Out(b) = p \o Out(x)
    BY <1>4, <2>4 DEF Gives, Like, Sound
  <2>6. p # <<>>
    BY <2>3, <2>5, EmptyFacts
  <2>7. Len(f) + Len(p) <= At("room")
    <3>1. PICK o \in Seq(Cell) : o = Out(x)
      BY <1>4, <2>5, OutType
    <3>2. Len(f \o Out(b)) <= world.size + 1
      <4>1. PICK a, t : a = chain.nodes[1] /\ t = chain.tee
        OBVIOUS
      <4>2. InStep(a, n, t, FlattenSeq(f), FlattenSeq(Readable), Readable)
        BY <1>4, <2>2, <4>1
      <4>3. n.kind \in {"zip", "dummy"} /\ Stored(f, n)
        BY <1>4, <1>5, <2>2
      <4>4. Len(f \o Out(n)) <= world.size + 1
        BY <1>2, <1>4, <4>2, <4>3, RoomIsEnough
      <4> QED
        BY <2>2, <4>4
    <3>3. Len(f \o (p \o o)) = Len(f) + (Len(p) + Len(o))
      <4>1. p \o o \in Seq(Cell) /\ Len(p \o o) = Len(p) + Len(o)
        BY ConcatProperties
      <4> QED
        BY <4>1, ConcatProperties
    <3>4. Len(f) \in Nat /\ Len(p) \in Nat /\ Len(o) \in Nat
      BY LenProperties
    <3>5. At("room") = world.size + 1 /\ world.size \in Nat
      BY <1>2, <1>4, NoFault DEF Faults
    <3> QED
      BY <2>5, <3>1, <3>2, <3>3, <3>4, <3>5
  <2>8. ~(Len(file) + Len(got.data) > At("room"))
    <3>1. Len(f) \in Nat /\ Len(p) \in Nat /\ At("room") \in Int
      <4>1. At("room") = world.size + 1 /\ world.size \in Nat
        BY <1>2, <1>4, NoFault DEF Faults
      <4> QED
        BY <4>1, LenProperties
    <3> QED
      BY <2>2, <2>5, <2>7, <3>1
  <2>9. /\ chain' = [chain EXCEPT !.nodes[2] = x] /\ file' = f \o p
        /\ op' = op /\ result' = result
    BY <1>3, <1>7, <2>2, <2>5, <2>6, <2>8
  <2>10. chain'.nodes[2] = x
    BY <1>4, <2>9 DEF Chain
  <2>11. Stored(f \o p, x)
    <3>1. Stored(f, n) /\ n.kind \in {"zip", "dummy"} /\ Gives(n, got, k)
      BY <1>4, <1>5, <2>2, <2>4
    <3>2. Stored(f \o got.data, got.node)
      BY <3>1, StoredGives
    <3> QED
      BY <2>5, <3>2
  <2>12. StoringWell'
    BY <1>5, <2>9, <2>10, <2>11 DEF StoringWell, Outcome
  <2>13. RestoringWell' /\ EndingWell'
    BY <1>1, <2>9 DEF RestoringWell, EndingWell
  <2> QED
    BY <2>12, <2>13 DEF FaultlessInv
<1> QED
  BY <1>6, <1>7

\* The converters of RestoreFile are new.
LEMMA ComingBegins ==
  ASSUME NEW f, IF world.zip THEN Stream(f) ELSE f \in Seq(Single)
  PROVE  Coming(RestoreChain.nodes[1], f, FALSE) /\ RestoreChain.nodes[2].data = <<>>
<1>1. PICK a : a = IF world.zip THEN UnzipNew ELSE DummyNew
  OBVIOUS
<1>2. RestoreChain.nodes[1] = a /\ RestoreChain.nodes[2] = FileOutNew
  BY <1>1 DEF RestoreChain
<1>3. FileOutNew.data = <<>>
  BY FileOutIsFresh
<1>4. Coming(a, f, FALSE)
  <2>1. <<>> \in Seq(Single)
    BY EmptySeq
  <2>2. CASE world.zip
    <3>1. /\ Fresh(a) /\ a.kind = "unzip" /\ a.over = FALSE /\ Out(a) = <<>>
          /\ a.next = 0 /\ a.zpos = 0 /\ a.room = BufferSize["unzip"] /\ a.input = <<>>
      BY <1>1, <2>2, NewRing DEF UnzipNew
    <3>2. BufferSize["unzip"] # 0
      BY Sizes DEF Kinds
    <3>3. a.input \o f = f /\ Stream(f)
      <4>1. Stream(f) /\ f \in Seq(Cell)
        BY <2>2 DEF Stream
      <4> QED
        BY <3>1, <4>1, EmptyFacts
    <3>4. a.eof = FALSE
      BY <3>1 DEF Fresh
    <3> QED
      BY <2>1, <3>1, <3>2, <3>3, <3>4 DEF Coming
  <2>3. CASE ~world.zip
    <3>1. Fresh(a) /\ a.kind = "dummy" /\ a.over = FALSE /\ Out(a) = <<>>
      BY <1>1, <2>3, NewDummy
    <3>2. a.eof = FALSE
      BY <3>1 DEF Fresh
    <3> QED
      BY <2>1, <2>3, <3>1, <3>2 DEF Coming
  <2> QED
    BY <2>2, <2>3
<1> QED
  BY <1>2, <1>3, <1>4

LEMMA StoreEndWell ==
  ASSUME IInv, FaultlessInv, StoreEnd
  PROVE  FaultlessInv'
<1>1. op = "store" /\ phase = "sum" /\ world' = world
  BY DEF StoreEnd
<1>2. SUFFICES ASSUME world.fault = "none" PROVE FaultlessInv'
  BY <1>1 DEF FaultlessInv
<1>3. /\ file' = Damaged(file) /\ op' = "restore"
      /\ result' = [result EXCEPT !.store = "ok",
                                  !.restore = IF world.fault = "open" THEN "failed" ELSE @]
      /\ phase' = (IF world.fault = "open" THEN "done" ELSE "feed")
      /\ chain' = RestoreChain /\ ineof' = FALSE /\ sent' = 0
  BY DEF StoreEnd
<1>4. /\ world \in Worlds /\ file \in Seq(Cell)
      /\ InStep(chain.nodes[1], chain.nodes[2], chain.tee, FlattenSeq(file),
                FlattenSeq(Readable), Readable)
      /\ chain.nodes[1].kind = "filein"
      /\ chain.nodes[2].kind = (IF world.zip THEN "zip" ELSE "dummy")
      /\ chain.nodes[2].over /\ HasData(chain.nodes[2]) = 0
  BY <1>1 DEF IInv, Types, Storing, GroupOK
<1>5. Stored(file, chain.nodes[2]) /\ Outcome("none", "none", NoVersion)
  BY <1>1, <1>2 DEF FaultlessInv, StoringWell
<1>6. PICK a, b, t : a = chain.nodes[1] /\ b = chain.nodes[2] /\ t = chain.tee
  OBVIOUS
<1>7. IF world.zip THEN Stream(file) ELSE file \in Seq(Single)
  <2>1. Sound(b) /\ b.kind \in {"zip", "dummy"} /\ Stored(file, b) /\ b.over /\ HasData(b) = 0
    BY <1>4, <1>5, <1>6 DEF InStep
  <2>2. IF b.kind = "dummy" THEN file \in Seq(Single) ELSE Stream(file)
    BY <1>4, <2>1, StoredAll
  <2> QED
    BY <1>4, <1>6, <2>2
<1>8. FlattenSeq(file) = FlattenSeq(Content)
  <2>1. PICK g \in Seq(Nat), h \in Seq(Nat) : g = FlattenSeq(file) /\ h = FlattenSeq(Readable)
    BY <1>2, <1>4, NoFault, FlattenStep DEF Cell
  <2>2. /\ InStep(a, b, t, g, h, Readable)
        /\ a.kind = "filein" /\ b.kind \in {"zip", "dummy"} /\ b.over /\ HasData(b) = 0
    BY <1>4, <1>6, <2>1
  <2>3. InNode(a) = <<>> /\ InNode(b) = <<>>
    BY ONLY <2>2, AllIsThrough
  <2>4. g \o (InNode(b) \o InNode(a)) = h
    BY ONLY <2>2, g \in Seq(Nat), InStepBytes
  <2>5. <<>> \o <<>> = <<>> /\ g \o <<>> = g
    BY EmptyFacts
  <2>6. g = h
    BY <2>3, <2>4, <2>5
  <2> QED
    BY <1>2, <1>4, <2>1, <2>6, NoFault
<1>9. Len(file) <= world.size + 1
  <2>1. Len(FlattenSeq(Content)) = world.size /\ world.size \in Nat /\ Len(file) \in Nat
    BY <1>2, <1>4, NoFault, LenProperties
  <2>2. CASE world.zip
    <3>1. Len(file) <= Len(FlattenSeq(file)) + 1
      BY <1>7, <2>2, StreamBytes
    <3> QED
      BY <1>8, <2>1, <3>1
  <2>3. CASE ~world.zip
    <3>1. Len(FlattenSeq(file)) = Len(file)
      BY <1>7, <2>3, SingleBytes
    <3> QED
      BY <1>8, <2>1, <3>1
  <2> QED
    BY <2>2, <2>3
<1>10. file' = file
  BY <1>2, <1>3 DEF Damaged
<1>11. Coming(chain'.nodes[1], file, FALSE) /\ chain'.nodes[2].data = <<>>
  BY <1>3, <1>7, ComingBegins
<1>12. Behind(file, 0) = file
  BY <1>4, BehindAll
<1>13. Content' = Content
  BY <1>1, WorldStays
<1>14. RestoringWell'
  <2>1. phase' = "feed"
    BY <1>2, <1>3
  <2>2. result' = [store |-> "ok", restore |-> "none", check |-> NoVersion]
    <3>1. PICK v : v = NoVersion
      OBVIOUS
    <3>2. result = [store |-> "none", restore |-> "none", check |-> v]
      BY <1>5, <3>1 DEF Outcome
    <3>3. result' = [result EXCEPT !.store = "ok",
                                   !.restore = IF world.fault = "open" THEN "failed" ELSE @]
      BY <1>3
    <3>4. result' = [store |-> "ok", restore |-> "none", check |-> v]
      BY ONLY <1>2, <3>2, <3>3
    <3> QED
      BY <3>1, <3>4
  <2>3. <<>> \in Seq(Single)
    BY EmptySeq
  <2>4. Coming(chain'.nodes[1], Behind(file', sent'), ineof')
    BY <1>3, <1>10, <1>11, <1>12
  <2>5. Len(file') <= world'.size + 1 /\ FlattenSeq(file') = FlattenSeq(Content')
    BY <1>1, <1>8, <1>9, <1>10, <1>13
  <2> QED
    BY <1>3, <1>11, <2>1, <2>2, <2>3, <2>4, <2>5 DEF RestoringWell, Outcome
<1>15. StoringWell' /\ EndingWell'
  BY <1>3 DEF StoringWell, EndingWell
<1> QED
  BY <1>14, <1>15 DEF FaultlessInv

\* RestoreFile feeds its first converter: it takes all it is given.
LEMMA Feeding ==
  ASSUME IInv, op = "restore",
         NEW a, a = chain.nodes[1], NEW need, need = GroupNeedsData(chain, 1), need # 0,
         NEW data, data = First(Behind(file, sent), Least({need, RestoreBuffer})),
         NEW set, set = GroupSetData(chain, 1, data)
  PROVE  /\ data \in Seq(Cell) /\ sent + Len(data) \in 0..Len(file)
         /\ Behind(file, sent) = data \o Behind(file, sent + Len(data))
         /\ Behind(file, sent + Len(data)) \in Seq(Cell)
         /\ data = <<>> => Behind(file, sent) = <<>>
         /\ a.eof = FALSE /\ NeedsData(a) # 0
         /\ set.taken = Len(data)
         /\ set.chain.nodes[2] = chain.nodes[2]
         /\ IF data = <<>> THEN Ended(a, set.chain.nodes[1])
            ELSE Takes(a, set.chain.nodes[1], data)
<1> DEFINE size == Least({need, RestoreBuffer})
           x == SetData(a, data)
<1>1. /\ chain \in Chain /\ Sound(a) /\ a.kind \in {"unzip", "dummy"} /\ a \in Node
      /\ file \in Seq(Cell) /\ sent \in 0..Len(file)
  BY DEF IInv, Types, Restoring, Sound
<1>2. need = NeedsData(a)
  BY DEF GroupNeedsData
<1>3. a.kind \in Kinds /\ a.eof \in BOOLEAN
  BY <1>1, NodeFields
<1>4. need \in Nat /\ need >= 1
  <2>1. need \in Nat
    BY <1>2, <1>3, NeedsDataType
  <2> QED
    BY <2>1
<1>5. a.eof = FALSE
  <2>1. a.eof => NeedsData(a) = 0
    BY DEF NeedsData
  <2> QED
    BY <1>2, <1>3, <2>1
<1>6. size \in Nat /\ size >= 1 /\ size <= need
  <2>1. RestoreBuffer \in Nat /\ RestoreBuffer >= 1
    BY Sizes
  <2>2. size = IF need <= RestoreBuffer THEN need ELSE RestoreBuffer
    BY <1>4, <2>1, LeastOfTwo
  <2> QED
    BY <1>4, <2>1, <2>2
<1>7. data = First(Behind(file, sent), size)
  OBVIOUS
<1> HIDE DEF size
<1>8. /\ data \in Seq(Cell) /\ Len(data) \in Nat /\ Len(data) <= size
      /\ sent + Len(data) \in 0..Len(file)
      /\ Behind(file, sent) = data \o Behind(file, sent + Len(data))
  BY <1>1, <1>6, <1>7, ReadOn
<1>9. sent \in Nat /\ sent + Len(data) \in Nat
  BY <1>1, <1>8
<1>10. Behind(file, sent) \in Seq(Cell) /\ Behind(file, sent + Len(data)) \in Seq(Cell)
  BY <1>1, <1>9, BehindFacts
<1>11. data = <<>> => Behind(file, sent) = <<>>
  <2> SUFFICES ASSUME data = <<>> PROVE Behind(file, sent) = <<>>
    OBVIOUS
  <2>1. PICK r \in Seq(Cell) : r = Behind(file, sent)
    BY <1>10
  <2>2. Len(data) = (IF size <= Len(r) THEN size ELSE Len(r)) /\ Len(data) = 0 /\ Len(r) \in Nat
    BY <1>6, <1>7, <2>1, FirstFacts, EmptyFacts
  <2>3. Len(r) = 0
    BY <1>6, <2>2
  <2> QED
    BY <2>1, <2>3, EmptyFacts
<1>12. Len(data) <= NeedsData(a)
  BY <1>2, <1>4, <1>6, <1>8
<1>13. /\ x.taken = Len(data) /\ x.node \in Node
       /\ IF data = <<>> THEN Ended(a, x.node) ELSE Takes(a, x.node, data)
  <2>1. CASE data = <<>>
    <3>1. x.taken = 0 /\ Ended(a, x.node)
      BY <1>1, <2>1, EndIsTold
    <3> HIDE DEF x
    <3>2. Len(data) = 0 /\ x.node \in Node
      BY <2>1, <3>1 DEF Ended
    <3> QED
      BY <2>1, <3>1, <3>2
  <2>2. CASE data # <<>>
    <3>1. x.taken = Len(data) /\ Takes(a, x.node, data)
      BY <1>1, <1>5, <1>8, <1>12, <2>2, DummyTakes, ZlibTakes
    <3> HIDE DEF x
    <3>2. x.node \in Node
      BY <3>1 DEF Takes, Sound
    <3> QED
      BY <2>2, <3>1, <3>2
  <2> QED
    BY <2>1, <2>2
<1>14. PICK y : y = x
  OBVIOUS
<1>15. y = SetData(chain.nodes[1], data)
  BY <1>14
<1> HIDE DEF x
<1>16. y.node \in Node /\ y.taken = Len(data)
  BY <1>13, <1>14
<1>17. NeedsData(chain.nodes[1]) >= Len(data)
  <2>1. NeedsData(chain.nodes[1]) = need /\ Len(data) <= need
    BY <1>2, <1>4, <1>6, <1>8
  <2> QED
    BY <1>4, <1>8, <2>1
<1>18. /\ set.chain.nodes[1] = y.node /\ set.chain.nodes[2] = chain.nodes[2]
  <2>1. LET d == GroupSetData(chain, 1, data).chain
        IN  /\ d \in Chain /\ d.nodes[1] = y.node /\ d.nodes[2] = chain.nodes[2]
            /\ d.tee = chain.tee
    BY ONLY <1>1, <1>15, <1>16, <1>17, FirstIsGiven
  <2> QED
    BY <2>1
<1>19. set.taken = Len(data)
  <2>1. GroupNeedsData(chain, 1) >= Len(data)
    BY <1>2, <1>17
  <2> QED
    BY <1>15, <1>16, <2>1 DEF GroupSetData
<1> QED
  BY <1>2, <1>4, <1>5, <1>8, <1>10, <1>11, <1>13, <1>14, <1>18, <1>19

LEMMA RestoreFeedWell ==
  ASSUME IInv, FaultlessInv, RestoreFeed
  PROVE  FaultlessInv'
<1> DEFINE need == GroupNeedsData(chain, 1)
           data == First(Behind(file, sent), Least({need, RestoreBuffer}))
           set == GroupSetData(chain, 1, data)
<1>1. op = "restore" /\ phase = "feed" /\ world' = world
  BY DEF RestoreFeed
<1>2. SUFFICES ASSUME world.fault = "none" PROVE FaultlessInv'
  BY <1>1 DEF FaultlessInv
<1>3. IF ineof \/ need = 0
      THEN phase' = "work" /\ UNCHANGED <<op, chain, ineof, outeof, file, sent, version, result>>
      ELSE IF sent + Len(data) > At("answers") \/ set.taken = Failed THEN Return("failed")
      ELSE /\ ineof' = (data = <<>>)
           /\ sent' = sent + Len(data)
           /\ chain' = set.chain
           /\ phase' = "work"
           /\ UNCHANGED <<op, outeof, file, version, result>>
  BY DEF RestoreFeed
<1>4. PICK a : a = chain.nodes[1]
  OBVIOUS
<1>5. /\ world \in Worlds /\ file \in Seq(Cell) /\ sent \in 0..Len(file) /\ ineof \in BOOLEAN
      /\ a \in Node /\ a.kind \in {"dummy", "unzip"} /\ a.eof \in BOOLEAN
  BY <1>1, <1>4, NodeFields DEF IInv, Types, Restoring, Sound
<1>6. /\ Outcome("ok", "none", NoVersion) /\ Len(file) <= world.size + 1
      /\ FlattenSeq(file) = FlattenSeq(Content)
      /\ Coming(a, Behind(file, sent), ineof) /\ chain.nodes[2].data \in Seq(Single)
  BY <1>1, <1>2, <1>4 DEF FaultlessInv, RestoringWell
<1>7. Content' = Content
  BY <1>1, WorldStays
<1>8. CASE ineof \/ need = 0
  <2>1. /\ phase' = "work" /\ op' = op /\ chain' = chain /\ ineof' = ineof
        /\ file' = file /\ sent' = sent /\ result' = result
    BY <1>3, <1>8
  <2>2. ineof \/ NeedsData(a) = 0
    BY <1>4, <1>8 DEF GroupNeedsData
  <2>3. Ready(a)
    BY <1>5, <1>6, <2>2, ComingReady
  <2>4. RestoringWell'
    BY <1>1, <1>4, <1>6, <1>7, <2>1, <2>3 DEF RestoringWell, Outcome
  <2>5. StoringWell' /\ EndingWell'
    BY <1>1, <2>1 DEF StoringWell, EndingWell
  <2> QED
    BY <2>4, <2>5 DEF FaultlessInv
<1>9. CASE ~(ineof \/ need = 0)
  <2>1. need # 0 /\ ineof = FALSE
    BY <1>5, <1>9
  <2>2. PICK p, c, u : p = data /\ c = set.chain /\ u = set.taken
    OBVIOUS
  <2>3. PICK rest : rest = Behind(file, sent + Len(p))
    OBVIOUS
  <2>4. /\ p \in Seq(Cell) /\ sent + Len(p) \in 0..Len(file)
        /\ Behind(file, sent) = p \o rest
        /\ rest \in Seq(Cell)
        /\ p = <<>> => Behind(file, sent) = <<>>
        /\ a.eof = FALSE /\ NeedsData(a) # 0
        /\ u = Len(p)
        /\ c.nodes[2] = chain.nodes[2]
        /\ IF p = <<>> THEN Ended(a, c.nodes[1]) ELSE Takes(a, c.nodes[1], p)
    <3>1. PICK n, s : n = need /\ s = set
      OBVIOUS
    <3>2. /\ n = GroupNeedsData(chain, 1) /\ n # 0
          /\ p = First(Behind(file, sent), Least({n, RestoreBuffer}))
          /\ s = GroupSetData(chain, 1, p)
      BY <2>1, <2>2, <3>1
    <3>3. /\ p \in Seq(Cell) /\ sent + Len(p) \in 0..Len(file)
          /\ Behind(file, sent) = p \o Behind(file, sent + Len(p))
          /\ Behind(file, sent + Len(p)) \in Seq(Cell)
          /\ p = <<>> => Behind(file, sent) = <<>>
          /\ a.eof = FALSE /\ NeedsData(a) # 0
          /\ s.taken = Len(p)
          /\ s.chain.nodes[2] = chain.nodes[2]
          /\ IF p = <<>> THEN Ended(a, s.chain.nodes[1]) ELSE Takes(a, s.chain.nodes[1], p)
      BY ONLY IInv, <1>1, <1>4, <3>2, Feeding
    <3> QED
      BY <2>2, <2>3, <3>1, <3>3
  <2>5. /\ phase' = "work" /\ op' = op /\ chain' = c /\ ineof' = (p = <<>>)
        /\ file' = file /\ sent' = sent + Len(p) /\ result' = result
    <3>1. ~(sent + Len(p) > At("answers"))
      <4>1. At("answers") = world.size + 1 /\ world.size \in Nat
        BY <1>2, <1>5, NoFault DEF Faults
      <4>2. Len(file) \in Nat
        BY <1>5, LenProperties
      <4> QED
        BY <1>6, <2>4, <4>1, <4>2
    <3>2. u # Failed
      <4>1. Len(p) \in Nat
        BY <2>4, LenProperties
      <4> QED
        BY <2>4, <4>1 DEF Failed
    <3> HIDE DEF data, set, need
    <3> QED
      BY <1>3, <1>9, <2>2, <3>1, <3>2
  <2>6. PICK now \in BOOLEAN : now <=> p = <<>>
    OBVIOUS
  <2>7. Coming(c.nodes[1], rest, now) /\ Ready(c.nodes[1])
    <3>1. PICK m, told : m = c.nodes[1] /\ told = ineof
      OBVIOUS
    <3>2. CASE p = <<>>
      <4>1. Ended(a, m) /\ Coming(a, <<>>, told)
        BY <1>6, <2>4, <3>1, <3>2
      <4>2. a.kind = "unzip" => a.input = <<>>
        <5>1. a.kind = "unzip" => NeedsData(a) = UnzipNeedsData(a)
          BY <2>4, NeedsDataIs
        <5> QED
          BY <2>4, <5>1 DEF UnzipNeedsData
      <4>3. Coming(m, <<>>, now) /\ Ready(m)
        BY ONLY <1>5, <4>1, <4>2, now \in BOOLEAN, ComingEnds
      <4>4. rest = <<>>
        <5>1. p \o rest = rest
          BY <2>4, <3>2, EmptyFacts
        <5> QED
          BY <2>4, <3>2, <5>1
      <4> QED
        BY <3>1, <3>2, <4>3, <4>4
    <3>3. CASE p # <<>>
      <4>1. Takes(a, m, p) /\ Coming(a, p \o rest, told)
        BY <1>6, <2>4, <3>1, <3>3
      <4>2. Coming(m, rest, now) /\ Ready(m)
        <5>1. /\ Takes(a, m, p) /\ Coming(a, p \o rest, told) /\ p # <<>> /\ now = FALSE
              /\ p \in Seq(Cell) /\ rest \in Seq(Cell) /\ a.kind \in {"dummy", "unzip"}
              /\ a.eof = FALSE
          BY <1>5, <2>4, <2>6, <3>3, <4>1
        <5>2. m.kind = a.kind /\ m.eof = FALSE /\ m.over = a.over
          BY <5>1 DEF Takes, Like
        <5>3. CASE a.kind = "dummy"
          <6>1. p \in Seq(Single) /\ rest \in Seq(Single)
            <7>1. p \o rest \in Seq(Single)
              BY <5>1, <5>3 DEF Coming
            <7> QED
              BY <5>1, <7>1, PartsIn
          <6>2. Out(m) = p
            BY <5>1, <5>3 DEF Takes
          <6> QED
            BY <5>1, <5>2, <5>3, <6>1, <6>2 DEF Coming, Ready
        <5>4. CASE a.kind = "unzip"
          <6>1. /\ Ring(m) = Ring(a) /\ a.input = <<>> /\ m.input = p /\ m.held = a.held
                /\ m.next = a.next /\ m.zpos = a.zpos /\ m.room = a.room
            BY <5>1, <5>4 DEF Takes
          <6>2. p \o rest # <<>> /\ <<>> \o (p \o rest) = p \o rest
            <7>1. Len(p \o rest) = Len(p) + Len(rest) /\ p \o rest \in Seq(Cell)
              BY <5>1, ConcatProperties
            <7>2. Len(p) # 0 /\ Len(p) \in Nat /\ Len(rest) \in Nat
              BY <5>1, EmptyFacts
            <7>3. Len(p \o rest) # 0
              BY <7>1, <7>2
            <7> QED
              BY <7>1, <7>3, EmptyFacts
          <6>3. ~a.over /\ Stream(p \o rest) /\ ~(a.next = a.zpos /\ a.room = 0)
            BY <5>1, <5>4, <6>1, <6>2 DEF Coming
          <6>4. Out(m) \in Seq(Single)
            BY <5>1, <5>2, <5>4, <6>1 DEF Coming, Out
          <6> QED
            BY <5>1, <5>2, <5>4, <6>1, <6>3, <6>4 DEF Coming, Ready
        <5> QED
          BY <5>1, <5>3, <5>4
      <4> QED
        BY <3>1, <3>3, <4>2
    <3> QED
      BY <3>2, <3>3
  <2>8. Coming(chain'.nodes[1], Behind(file', sent'), ineof')
    BY <2>3, <2>5, <2>6, <2>7
  <2>9. chain'.nodes[2].data \in Seq(Single) /\ Ready(chain'.nodes[1])
    BY <1>6, <2>4, <2>5, <2>7
  <2>10. RestoringWell'
    BY <1>1, <1>6, <1>7, <2>5, <2>8, <2>9 DEF RestoringWell, Outcome
  <2>11. StoringWell' /\ EndingWell'
    BY <1>1, <2>5 DEF StoringWell, EndingWell
  <2> QED
    BY <2>10, <2>11 DEF FaultlessInv
<1> QED
  BY <1>8, <1>9

\* The converters of RestoreFile have not got more than the file.
LEMMA FedIsPart ==
  ASSUME IInv, op = "restore", world.fault = "none", FlattenSeq(file) = FlattenSeq(Content)
  PROVE  /\ Fed \in Seq(Nat) /\ FlattenSeq(Behind(file, sent)) \in Seq(Nat)
         /\ Fed \o FlattenSeq(Behind(file, sent)) = FlattenSeq(Content)
         /\ Len(Fed) <= world.size
<1>1. /\ world \in Worlds /\ file \in Seq(Cell) /\ sent \in 0..Len(file)
      /\ InStep(chain.nodes[1], chain.nodes[2], chain.tee, <<>>, Fed, <<>>)
      /\ Fed \o FlattenSeq(Behind(file, sent)) = FlattenSeq(file)
  BY DEF IInv, Types, Restoring, GroupOK
<1>2. Fed \in Seq(Nat)
  <2>1. PICK a, t : a = chain.nodes[1] /\ t = chain.tee
    OBVIOUS
  <2>2. Sound(a) /\ a.kind # "md5" /\ t \in Node
    BY <1>1, <2>1 DEF InStep, Sound
  <2>3. PICK x \in Seq(Nat), y \in Seq(Nat) : x = FlattenSeq(t.data) /\ y = InNode(a)
    <3>1. t.data \in Seq(Seq(Nat))
      BY <2>2, NodeFields DEF Cell
    <3> QED
      BY <2>2, <3>1, FlattenStep, InNodeType
  <2>4. x \o y \in Seq(Nat)
    BY ConcatProperties
  <2> QED
    BY <2>1, <2>3, <2>4 DEF Fed
<1>3. FlattenSeq(Behind(file, sent)) \in Seq(Nat)
  <2>1. sent \in Nat
    BY <1>1
  <2>2. Behind(file, sent) \in Seq(Seq(Nat))
    BY <1>1, <2>1, BehindFacts DEF Cell
  <2> QED
    BY <2>2, FlattenStep
<1>4. Len(Fed) <= world.size
  <2>1. PICK x \in Seq(Nat), y \in Seq(Nat) : x = Fed /\ y = FlattenSeq(Behind(file, sent))
    BY <1>2, <1>3
  <2>2. Len(x \o y) = Len(x) + Len(y) /\ Len(x) \in Nat /\ Len(y) \in Nat
    BY ConcatProperties, LenProperties
  <2>3. Len(x \o y) = world.size /\ world.size \in Nat
    BY <1>1, <2>1, NoFault
  <2> QED
    BY <2>1, <2>2, <2>3
<1> QED
  BY <1>1, <1>2, <1>3, <1>4

LEMMA RestoreWorkWell ==
  ASSUME IInv, FaultlessInv, RestoreWork
  PROVE  FaultlessInv'
<1>1. op = "restore" /\ phase = "work" /\ world' = world
  BY DEF RestoreWork
<1>2. SUFFICES ASSUME world.fault = "none" PROVE FaultlessInv'
  BY <1>1 DEF FaultlessInv
<1>3. PICK w \in GroupWork(chain) :
        IF w.rv = "error" THEN Return("failed")
        ELSE /\ chain' = w.chain
             /\ outeof' = (w.rv = "eof")
             /\ phase' = IF outeof' THEN "sum" ELSE "feed"
             /\ UNCHANGED <<op, ineof, file, sent, version, result>>
  BY DEF RestoreWork
<1>4. /\ world \in Worlds /\ file \in Seq(Cell) /\ sent \in 0..Len(file) /\ ineof \in BOOLEAN
      /\ GroupOK(chain, <<>>, Fed, <<>>)
      /\ chain.nodes[1].kind \in {"unzip", "dummy"} /\ chain.nodes[2].kind = "fileout"
  BY <1>1 DEF IInv, Types, Restoring
<1>5. /\ Outcome("ok", "none", NoVersion) /\ Len(file) <= world.size + 1
      /\ FlattenSeq(file) = FlattenSeq(Content)
      /\ Coming(chain.nodes[1], Behind(file, sent), ineof) /\ chain.nodes[2].data \in Seq(Single)
      /\ Ready(chain.nodes[1])
  BY <1>1, <1>2 DEF FaultlessInv, RestoringWell
<1>6. PICK g \in Seq(Nat), h \in Seq(Nat), q \in Seq(Single), f \in Seq(Cell), rest \in Seq(Cell),
           told \in BOOLEAN :
        /\ g = <<>> /\ h = Fed /\ q = <<>> /\ f = <<>> /\ rest = Behind(file, sent) /\ told = ineof
  <2>1. sent \in Nat
    BY <1>4
  <2>2. <<>> \in Seq(Nat) /\ <<>> \in Seq(Single) /\ <<>> \in Seq(Cell)
    BY EmptySeq
  <2>3. Behind(file, sent) \in Seq(Cell)
    BY <1>4, <2>1, BehindFacts
  <2>4. Fed \in Seq(Nat)
    BY <1>1, <1>2, <1>5, FedIsPart
  <2> QED
    BY <1>4, <2>2, <2>3, <2>4
<1>7. GroupOK(chain, g, h, q) /\ Healthy(chain, f, rest, told)
  BY <1>4, <1>5, <1>6 DEF Healthy
<1>8. chain.nodes[2].kind = "fileout" => Len(h) <= world.size /\ Ready(chain.nodes[1])
  BY <1>1, <1>2, <1>5, <1>6, FedIsPart
<1>9. w.rv # "error" /\ Healthy(w.chain, f, rest, told)
  BY ONLY <1>2, <1>4, <1>7, <1>8, g \in Seq(Nat), f \in Seq(Cell), q \in Seq(Single),
          rest \in Seq(Cell), told \in BOOLEAN, w \in GroupWork(chain), GroupWorksWell
<1>10. KindsKept(chain, w.chain) /\ (w.rv = "eof" => w.chain.nodes[2].over)
  BY <1>7, <1>9, GroupWorks
<1>11. w.chain.nodes[2].data \in Seq(Single) /\ Coming(w.chain.nodes[1], rest, told)
  BY <1>4, <1>9, <1>10 DEF KindsKept, Healthy
<1>12. /\ chain' = w.chain /\ op' = op /\ file' = file /\ sent' = sent /\ ineof' = ineof
       /\ result' = result
       /\ phase' = IF w.rv = "eof" THEN "sum" ELSE "feed"
  BY <1>3, <1>9
<1>13. Content' = Content
  BY <1>1, WorldStays
<1>14. Coming(chain'.nodes[1], Behind(file', sent'), ineof')
  BY <1>6, <1>11, <1>12
<1>15. RestoringWell'
  BY <1>1, <1>5, <1>10, <1>11, <1>12, <1>13, <1>14 DEF RestoringWell, Outcome
<1>16. StoringWell' /\ EndingWell'
  BY <1>1, <1>12 DEF StoringWell, EndingWell
<1> QED
  BY <1>15, <1>16 DEF FaultlessInv

\* RestoreFile at its end: nothing is left in the first converter or comes to it.
LEMMA AllIsRestored ==
  ASSUME NEW a, NEW b, NEW t, NEW g, NEW h, NEW q, InStep(a, b, t, g, h, q),
         a.kind \in {"dummy", "unzip"}, b.kind = "fileout", b.over,
         NEW rest, NEW told, Coming(a, rest, told)
  PROVE  InNode(a) = <<>> /\ rest = <<>> /\ HasData(t) > 0
<1>1. Sound(a) /\ Sound(b) /\ Sound(t) /\ t.kind = "md5" /\ t.next = 0 /\ t.eof = b.eof
  BY DEF InStep
<1>2. b.eof
  BY <1>1 DEF Sound, OverSound
<1>3. a.over /\ HasData(a) = 0
  BY <1>2 DEF InStep
<1>4. /\ a \in Node /\ a.lost = FALSE /\ a.data \in Seq(Cell) /\ a.next \in Nat /\ a.zpos \in Nat
      /\ a.room \in Nat /\ Len(a.data) \in Nat
  BY <1>1, NodeFields DEF Sound
<1>5. HasData(t) > 0
  <2>1. t.lost = FALSE
    BY <1>1, NodeFields DEF Sound
  <2>2. HasData(t) = BufferSize.md5 - 0
    BY <1>1, <1>2, <2>1, HasDataIs DEF Md5HasData
  <2>3. BufferSize.md5 \in Nat /\ BufferSize.md5 >= 1
    BY Sizes DEF Kinds
  <2> QED
    BY <2>2, <2>3
<1>6. CASE a.kind = "dummy"
  <2>1. a.eof
    BY <1>1, <1>3, <1>6 DEF Sound, OverSound
  <2>2. rest = <<>>
    BY <1>6, <2>1 DEF Coming
  <2>3. HasData(a) = Len(a.data) - a.next
    BY <1>4, <1>6, HasDataIs
  <2>4. a.next = Len(a.data)
    BY <1>3, <1>4, <2>3
  <2>5. Behind(a.data, a.next) = <<>>
    BY <1>4, <2>4, BehindAll
  <2> QED
    BY <1>5, <1>6, <2>2, <2>5, InNodeIs, FlattenEmpty
<1>7. CASE a.kind = "unzip"
  <2>1. /\ ~(a.next = a.zpos /\ a.room = 0)
        /\ a.input = <<>> /\ a.held = <<>> /\ rest = <<>>
    BY <1>3, <1>7 DEF Coming
  <2>2. RingSound(a)
    BY <1>1, <1>7 DEF Sound
  <2>3. /\ BufferSize[a.kind] \in Nat /\ a.next < BufferSize[a.kind]
        /\ BufferSize.unzip = BufferSize[a.kind]
    BY <1>4, <1>7, <2>2, RingNumbers, Sizes
  <2>4. HasData(a) = IF a.next > a.zpos THEN BufferSize[a.kind] - a.next ELSE a.zpos - a.next
    BY <1>4, <1>7, <2>3, HasDataIs DEF UnzipHasData
  <2>5. a.next = a.zpos
    BY <1>3, <1>4, <2>3, <2>4
  <2>6. ~Wrapped(a)
    BY <1>4, <2>1, <2>5 DEF Wrapped
  <2>7. InNode(a) = <<>>
    BY <1>4, <1>7, <2>1, <2>2, <2>5, <2>6, EmptyRingBytes
  <2> QED
    BY <1>5, <2>1, <2>7
<1> QED
  BY <1>6, <1>7

LEMMA RestoreEndWell ==
  ASSUME IInv, FaultlessInv, RestoreEnd
  PROVE  FaultlessInv'
<1>1. op = "restore" /\ phase = "sum" /\ world' = world
  BY DEF RestoreEnd
<1>2. SUFFICES ASSUME world.fault = "none" PROVE FaultlessInv'
  BY <1>1 DEF FaultlessInv
<1>3. PICK a, b, t : a = chain.nodes[1] /\ b = chain.nodes[2] /\ t = chain.tee
  OBVIOUS
<1>4. /\ world \in Worlds /\ InStep(a, b, t, <<>>, Fed, <<>>)
      /\ a.kind \in {"unzip", "dummy"} /\ b.kind = "fileout" /\ version = Readable
  BY <1>1, <1>3 DEF IInv, Types, Restoring, GroupOK
<1>5. /\ Outcome("ok", "none", NoVersion) /\ FlattenSeq(file) = FlattenSeq(Content)
      /\ Coming(a, Behind(file, sent), ineof) /\ b.data \in Seq(Single) /\ b.over
  BY <1>1, <1>2, <1>3 DEF FaultlessInv, RestoringWell
<1>6. PICK r : r = Behind(file, sent)
  OBVIOUS
<1>7. InNode(a) = <<>> /\ r = <<>> /\ HasData(t) > 0
  <2>1. PICK h, told : h = Fed /\ told = ineof
    OBVIOUS
  <2>2. PICK g, q : g = <<>> /\ q = <<>>
    OBVIOUS
  <2>3. InStep(a, b, t, g, h, q) /\ Coming(a, r, told)
    BY <1>4, <1>5, <1>6, <2>1, <2>2
  <2> QED
    BY ONLY <1>4, <1>5, <2>3, AllIsRestored
<1>8. b.data = Content
  <2>1. t.data = b.data
    BY <1>4 DEF InStep
  <2>2. PICK x \in Seq(Nat) : x = FlattenSeq(b.data)
    <3>1. \A y \in Single : y \in Seq(Nat)
      BY DEF Single, Cell
    <3>2. b.data \in Seq(Seq(Nat))
      <4>1. Sound(b)
        BY <1>4 DEF InStep
      <4> QED
        BY <4>1, NodeFields DEF Sound, Cell
    <3> QED
      BY <3>2, FlattenStep
  <2>3. Fed = x
    <3>1. Fed = x \o <<>>
      BY <1>3, <1>7, <2>1, <2>2 DEF Fed
    <3> QED
      BY <3>1, EmptyFacts
  <2>4. Fed \o <<>> = FlattenSeq(Content)
    <3>1. Fed \o FlattenSeq(Behind(file, sent)) = FlattenSeq(Content)
      BY <1>1, <1>2, <1>5, FedIsPart
    <3> QED
      BY <1>6, <1>7, <3>1, FlattenEmpty
  <2>5. FlattenSeq(b.data) = FlattenSeq(Content)
    <3>1. x \o <<>> = x
      BY EmptyFacts
    <3> QED
      BY <2>2, <2>3, <2>4, <3>1
  <2>6. Singles(FlattenSeq(b.data)) = b.data
    BY <1>5, SingleBytes
  <2>7. Singles(FlattenSeq(Content)) = Content
    <3>1. PICK c \in Seq(Single) : c = Content
      BY <1>2, <1>4, NoFault
    <3>2. Singles(FlattenSeq(c)) = c
      BY SingleBytes
    <3> QED
      BY <3>1, <3>2
  <2> QED
    BY <2>5, <2>6, <2>7
<1>9. Verified(chain)
  <2>1. b.received = Len(b.data) /\ t.data = b.data
    BY <1>4 DEF InStep
  <2>2. Len(Content) = world.size /\ Readable = Content
    BY <1>2, <1>4, NoFault
  <2> QED
    BY <1>3, <1>4, <1>7, <1>8, <2>1, <2>2 DEF Verified
<1>10. op' = "check" /\ result' = [result EXCEPT !.restore = "ok"]
  BY <1>9 DEF RestoreEnd
<1>11. result' = [store |-> "ok", restore |-> "ok", check |-> NoVersion]
  <2>1. PICK v : v = NoVersion
    OBVIOUS
  <2>2. result = [store |-> "ok", restore |-> "none", check |-> v]
    BY <1>5, <2>1 DEF Outcome
  <2>3. result' = [store |-> "ok", restore |-> "ok", check |-> v]
    BY ONLY <1>10, <2>2
  <2> QED
    BY <2>1, <2>3
<1>12. EndingWell'
  BY <1>10, <1>11 DEF EndingWell, Outcome
<1>13. StoringWell' /\ RestoringWell'
  BY <1>10 DEF StoringWell, RestoringWell
<1> QED
  BY <1>12, <1>13 DEF FaultlessInv

LEMMA CheckWorkWell ==
  ASSUME IInv, FaultlessInv, CheckWork
  PROVE  FaultlessInv'
<1> DEFINE n == chain.tee
           size == Least({NeedsData(n), RestoreBuffer})
           read == [SetData(n, First(n.held, size)).node EXCEPT !.held = Behind(n.held, size)]
           fed == IF ~ineof /\ NeedsData(n) > 0 THEN read ELSE n
<1>1. op = "check" /\ phase = "work" /\ world' = world
  BY DEF CheckWork
<1>2. SUFFICES ASSUME world.fault = "none" PROVE FaultlessInv'
  BY <1>1 DEF FaultlessInv
<1>3. IF fed.eof
      THEN /\ op' = "done" /\ phase' = "done"
           /\ result' = [result EXCEPT !.check = fed.data]
      ELSE UNCHANGED <<op, phase, result>>
  BY DEF CheckWork
<1>4. Outcome("ok", "ok", NoVersion) /\ Content' = Content
  BY <1>1, <1>2, WorldStays DEF FaultlessInv, EndingWell
<1>5. Reading(n)
  <2>1. chain \in Chain /\ Checking
    BY DEF IInv, Types
  <2>2. n \in Node
    BY <2>1, ChainFields
  <2>3. n.lost = FALSE
    BY <1>1, <2>1, <2>2, NodeFields DEF Checking
  <2> QED
    BY <1>1, <2>1, <2>2, <2>3 DEF Checking, Reading
<1>6. Reading(fed)
  <2>1. CASE ~ineof /\ NeedsData(n) > 0
    <3>1. Reading(read)
      <4> HIDE DEF n
      <4> QED
        BY <1>5, <2>1, ReadsOn
    <3> QED
      BY <2>1, <3>1
  <2>2. CASE ~(~ineof /\ NeedsData(n) > 0)
    BY <1>5, <2>2
  <2> QED
    BY <2>1, <2>2
<1> HIDE DEF fed
<1>7. CASE fed.eof
  <2>1. fed.data = Content
    <3>1. fed.held = <<>> /\ fed.data \o fed.held = Content /\ fed.data \in Seq(Cell)
      BY <1>6, <1>7, NodeFields DEF Reading
    <3> QED
      BY <3>1, EmptyFacts
  <2>2. op' = "done" /\ result' = [result EXCEPT !.check = Content]
    BY <1>3, <1>7, <2>1
  <2>3. result' = [store |-> "ok", restore |-> "ok", check |-> Content]
    <3>1. PICK v, c : v = NoVersion /\ c = Content
      OBVIOUS
    <3>2. result = [store |-> "ok", restore |-> "ok", check |-> v]
      BY <1>4, <3>1 DEF Outcome
    <3>3. result' = [result EXCEPT !.check = c]
      BY <2>2, <3>1
    <3>4. result' = [store |-> "ok", restore |-> "ok", check |-> c]
      BY ONLY <3>2, <3>3
    <3> QED
      BY <3>1, <3>4
  <2>4. EndingWell'
    BY <1>4, <2>2, <2>3 DEF EndingWell, Outcome
  <2>5. StoringWell' /\ RestoringWell'
    BY <2>2 DEF StoringWell, RestoringWell
  <2> QED
    BY <2>4, <2>5 DEF FaultlessInv
<1>8. CASE ~fed.eof
  <2>1. op' = op /\ result' = result
    BY <1>3, <1>8
  <2>2. EndingWell'
    BY <1>1, <1>4, <2>1 DEF EndingWell, Outcome
  <2>3. StoringWell' /\ RestoringWell'
    BY <1>1, <2>1 DEF StoringWell, RestoringWell
  <2> QED
    BY <2>2, <2>3 DEF FaultlessInv
<1> QED
  BY <1>7, <1>8

LEMMA StutterWell ==
  ASSUME FaultlessInv, UNCHANGED vars
  PROVE  FaultlessInv'
<1>1. /\ world' = world /\ op' = op /\ phase' = phase /\ chain' = chain /\ ineof' = ineof
      /\ file' = file /\ sent' = sent /\ result' = result
  BY DEF vars
<1>2. Content' = Content
  BY <1>1, WorldStays
<1>3. StoringWell' <=> StoringWell
  BY <1>1 DEF StoringWell, Outcome
<1>4. RestoringWell' <=> RestoringWell
  BY <1>1, <1>2 DEF RestoringWell, Outcome
<1>5. EndingWell' <=> EndingWell
  BY <1>1, <1>2 DEF EndingWell, Outcome
<1> QED
  BY <1>1, <1>3, <1>4, <1>5 DEF FaultlessInv

LEMMA StepWell == IInv /\ FaultlessInv /\ [Next]_vars => FaultlessInv'
<1> SUFFICES ASSUME IInv, FaultlessInv, [Next]_vars PROVE FaultlessInv'
  OBVIOUS
<1>1. CASE StoreWork
  BY <1>1, StoreWorkWell
<1>2. CASE StoreDrain
  BY <1>2, StoreDrainWell
<1>3. CASE StoreEnd
  BY <1>3, StoreEndWell
<1>4. CASE RestoreFeed
  BY <1>4, RestoreFeedWell
<1>5. CASE RestoreWork
  BY <1>5, RestoreWorkWell
<1>6. CASE RestoreEnd
  BY <1>6, RestoreEndWell
<1>7. CASE CheckWork
  BY <1>7, CheckWorkWell
<1>8. CASE UNCHANGED vars
  BY <1>8, StutterWell
<1> QED
  BY <1>1, <1>2, <1>3, <1>4, <1>5, <1>6, <1>7, <1>8 DEF Next

\* Where nothing goes wrong every file is stored and restored as it was, and its
\* digest is that of the content: whatever the sizes of the buffers and of the file
\* and however zlib cuts its output, no converter gets data it does not take,
\* decompresses without input, or meets the end of a stream too early.
THEOREM FaultlessSucceedsCorrect == Spec => []FaultlessSucceeds
<1>1. Init => IInv /\ FaultlessInv
  BY Beginning, BeginningWell
<1>2. IInv /\ FaultlessInv /\ [Next]_vars => IInv' /\ FaultlessInv'
  BY StepOK, StepWell
<1>3. IInv /\ FaultlessInv => FaultlessSucceeds
  <2> SUFFICES ASSUME IInv, FaultlessInv, phase = "done", world.fault = "none"
               PROVE  result = [store |-> "ok", restore |-> "ok", check |-> Content]
    BY DEF FaultlessSucceeds
  <2>1. op \in {"store", "restore", "check", "done"}
    BY DEF IInv, Types
  <2>2. op # "store" /\ op # "check"
    BY DEF IInv, Storing, Checking
  <2>3. op # "restore"
    BY DEF FaultlessInv, RestoringWell
  <2>4. op = "done"
    BY <2>1, <2>2, <2>3
  <2> QED
    BY <2>4 DEF FaultlessInv, EndingWell, Outcome
<1> QED
  BY <1>1, <1>2, <1>3, PTL DEF Spec
=============================================================================
