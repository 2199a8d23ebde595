------------------------ MODULE IPCServiceLayerProofs ------------------------
(***************************************************************************)
(* Proofs about IPCServiceLayer, for any number of layers and messages.    *)
(*                                                                         *)
(* The links and the head of the list stand for a sequence of layers,      *)
(* without repetition: those in use, in the order they were added.  Every  *)
(* step of the loop appends one to it or takes one out.  What the walks    *)
(* along the links reach follows from that sequence.                       *)
(***************************************************************************)
EXTENDS IPCServiceLayer, NumberFacts, SequenceTheorems, FiniteSetTheorems, TLAPS

\* What a link, the head or the cursor may be.
Pointer == Layers \cup {NoLayer}

-----------------------------------------------------------------------------
(* Walking along the list.                                                 *)

\* The links of the layers of a sequence lead along it, and end with it.
Links(s, link) ==
  \A i \in DOMAIN s : link[s[i]] = IF i < Len(s) THEN s[i + 1] ELSE NoLayer

\* The head of a list, and the layers on it.
First(s) == IF s = <<>> THEN NoLayer ELSE s[1]
Elements(s) == {s[i] : i \in DOMAIN s}

\* The list that a link function and a head stand for.
IsList(s, link, head) ==
  /\ s \in Seq(Layers)
  /\ \A i, j \in DOMAIN s : s[i] = s[j] => i = j
  /\ Links(s, link)
  /\ head = First(s)

\* The bounds, and that NoLayer is no layer.
LEMMA Bounds == MaxLayers \in Nat /\ MaxInbox \in Nat /\ Layers = 0..MaxLayers /\ NoLayer \notin Layers
BY BoundsAssumption DEF Layers, NoLayer

\* The walk behind a head goes along the sequence, and stays at its end.
LEMMA WalkIs ==
  ASSUME NEW p \in Seq(Layers), Links(p, next), Len(p) <= MaxLayers + 1
  PROVE  \A n \in 0..MaxLayers + 1 :
           Nth(First(p))[n] = IF n < Len(p) THEN p[n + 1] ELSE NoLayer
<1> DEFINE N == MaxLayers + 1
           from == First(p)
           Step1(f, n) == IF n = 0 THEN from
                          ELSE IF f[n - 1] = NoLayer THEN NoLayer ELSE next[f[n - 1]]
           walk == [n \in 0..N |-> IF n < Len(p) THEN p[n + 1] ELSE NoLayer]
<1>1. N \in Nat /\ Len(p) \in Nat /\ DOMAIN p = 1..Len(p) /\ \A i \in 1..Len(p) : p[i] \in Layers
  BY Bounds, LenProperties, ElementOfSeq
<1>2. walk = [n \in 0..N |-> Step1(walk, n)]
  <2> SUFFICES ASSUME NEW n \in 0..N PROVE walk[n] = Step1(walk, n)
    OBVIOUS
  <2>1. CASE n = 0
    BY <1>1, <2>1 DEF First
  <2>2. CASE n # 0
    <3>1. n - 1 \in 0..N /\ n \in Nat
      BY <1>1, <2>2
    <3>2. walk[n - 1] = IF n - 1 < Len(p) THEN p[n] ELSE NoLayer
      BY <3>1
    <3>3. CASE n - 1 < Len(p)
      <4>1. n \in 1..Len(p) /\ p[n] # NoLayer
        BY <1>1, <2>2, <3>3, Bounds
      <4> QED
        BY <1>1, <2>2, <3>2, <3>3, <4>1 DEF Links
    <3>4. CASE ~(n - 1 < Len(p))
      BY <1>1, <2>2, <3>1, <3>2, <3>4
    <3> QED
      BY <3>3, <3>4
  <2> QED
    BY <2>1, <2>2
<1>3. ASSUME NEW f, f = [n \in 0..N |-> Step1(f, n)]
      PROVE  f = walk
  <2> DEFINE Wrong == {n \in 0..N : f[n] # walk[n]}
  <2>1. CASE Wrong = {}
    BY <1>3, <2>1
  <2>2. CASE Wrong # {}
    <3>1. Wrong \in SUBSET Nat
      OBVIOUS
    <3>2. PICK m \in Wrong : \A n \in Wrong : m <= n
      BY <2>2, <3>1, LeastNatural
    <3>3. m \in 0..N /\ f[m] = Step1(f, m) /\ walk[m] = Step1(walk, m)
      BY <1>2, <1>3
    <3>4. m # 0
      BY <3>2, <3>3
    <3>5. m - 1 \in 0..N /\ m - 1 \notin Wrong
      BY <1>1, <3>2, <3>3, <3>4
    <3>6. f[m - 1] = walk[m - 1]
      BY <3>5
    <3> QED
      BY <3>2, <3>3, <3>6
  <2> QED
    BY <2>1, <2>2
<1>4. Nth(from) = CHOOSE f : f = [n \in 0..N |-> Step1(f, n)]
  BY DEF Nth
<1> HIDE DEF walk, Step1
<1>5. Nth(from) = walk
  BY <1>2, <1>3, <1>4
<1> QED
  BY <1>5 DEF walk

\* What a list is made of.
LEMMA ListParts ==
  ASSUME NEW s \in Seq(Layers)
  PROVE  /\ Len(s) \in Nat /\ DOMAIN s = 1..Len(s)
         /\ \A i \in 1..Len(s) : s[i] \in Layers /\ s[i] # NoLayer
         /\ s = <<>> <=> Len(s) = 0
BY Bounds, LenProperties, ElementOfSeq, EmptySeq

\* A list is not longer than there are layers.
LEMMA ListLength ==
  ASSUME NEW s \in Seq(Layers), \A i, j \in DOMAIN s : s[i] = s[j] => i = j
  PROVE  Len(s) <= MaxLayers + 1
<1>1. Len(s) \in Nat /\ DOMAIN s = 1..Len(s) /\ s \in [1..Len(s) -> Layers]
  BY LenProperties
<1>2. s \in Injection(1..Len(s), Layers)
  BY <1>1 DEF Injection, IsInjective
<1>3. /\ IsFiniteSet(Layers) /\ Cardinality(Layers) = MaxLayers + 1
      /\ Cardinality(1..Len(s)) = Len(s)
  <2>1. IsFiniteSet(0..MaxLayers) /\ Cardinality(0..MaxLayers) = MaxLayers - 0 + 1
    BY Bounds, FS_Interval
  <2>2. Cardinality(1..Len(s)) = Len(s)
    BY <1>1, FS_Interval
  <2> QED
    BY <2>1, <2>2, Bounds
<1> QED
  BY <1>2, <1>3, FS_Injection

\* The walk from the head reaches the layers of the list.
LEMMA ListedIs ==
  ASSUME NEW s, IsList(s, next, messageLayers)
  PROVE  Listed = Elements(s)
<1>1. /\ s \in Seq(Layers) /\ Links(s, next) /\ messageLayers = First(s)
      /\ Len(s) <= MaxLayers + 1
  BY ListLength DEF IsList
<1>2. /\ Len(s) \in Nat /\ DOMAIN s = 1..Len(s)
      /\ \A i \in 1..Len(s) : s[i] \in Layers /\ s[i] # NoLayer
  BY <1>1, ListParts
<1> DEFINE walk == Nth(messageLayers)
<1>3. \A n \in 0..MaxLayers + 1 : walk[n] = IF n < Len(s) THEN s[n + 1] ELSE NoLayer
  BY <1>1, WalkIs
<1>4. Listed = {walk[n] : n \in 0..MaxLayers + 1} \ {NoLayer}
  BY DEF Listed, Reached
<1> HIDE DEF walk
<1>5. ASSUME NEW l \in Listed PROVE l \in Elements(s)
  <2>1. PICK n \in 0..MaxLayers + 1 : l = walk[n] /\ l # NoLayer
    BY <1>4
  <2>2. n < Len(s) /\ l = s[n + 1] /\ n + 1 \in 1..Len(s)
    BY <1>2, <1>3, <2>1, Bounds
  <2> QED
    BY <1>2, <2>2 DEF Elements
<1>6. ASSUME NEW i \in DOMAIN s PROVE s[i] \in Listed
  <2>1. i - 1 \in 0..MaxLayers + 1 /\ i - 1 < Len(s) /\ (i - 1) + 1 = i
    BY <1>1, <1>2, Bounds
  <2>2. walk[i - 1] = s[i]
    BY <1>3, <2>1
  <2> QED
    BY <1>2, <1>4, <2>1, <2>2
<1> QED
  BY <1>5, <1>6 DEF Elements

\* The walk from a layer of the list reaches layers of the list only.
LEMMA WalkStays ==
  ASSUME NEW s, IsList(s, next, messageLayers), NEW l \in Elements(s) \cup {NoLayer},
         NEW n \in 0..MaxLayers
  PROVE  Nth(l)[n] \in Elements(s) \cup {NoLayer}
<1>1. /\ s \in Seq(Layers) /\ Links(s, next) /\ Len(s) <= MaxLayers + 1
  BY ListLength DEF IsList
<1>2. /\ Len(s) \in Nat /\ DOMAIN s = 1..Len(s)
      /\ \A i \in 1..Len(s) : s[i] \in Layers /\ s[i] # NoLayer
  BY <1>1, ListParts
<1>3. n \in 0..MaxLayers + 1 /\ n \in Nat
  BY Bounds
<1>4. CASE l = NoLayer
  <2> DEFINE p == <<>>
  <2>1. p \in Seq(Layers) /\ Links(p, next) /\ Len(p) = 0 /\ First(p) = NoLayer
    BY EmptySeq DEF Links, First
  <2> HIDE DEF p
  <2>2. Nth(First(p))[n] = IF n < Len(p) THEN p[n + 1] ELSE NoLayer
    <3>1. Len(p) <= MaxLayers + 1
      BY <2>1, Bounds
    <3>2. \A k \in 0..MaxLayers + 1 :
            Nth(First(p))[k] = IF k < Len(p) THEN p[k + 1] ELSE NoLayer
      BY <2>1, <3>1, WalkIs
    <3> QED
      BY <1>3, <3>2
  <2> QED
    BY <1>3, <1>4, <2>1, <2>2
<1>5. CASE l # NoLayer
  <2>1. PICK i \in 1..Len(s) : l = s[i]
    BY <1>2, <1>5 DEF Elements
  <2> DEFINE p == SubSeq(s, i, Len(s))
  <2>2. /\ p \in Seq(Layers) /\ Len(p) = Len(s) - i + 1
        /\ \A j \in 1..Len(s) - i + 1 : p[j] = s[i + j - 1]
    BY <1>2, SubSeqProperties
  <2> HIDE DEF p
  <2>3. DOMAIN p = 1..Len(p) /\ Len(p) > 0 /\ Len(p) <= MaxLayers + 1
    BY <1>1, <1>2, <2>2, LenProperties, Bounds
  <2>4. First(p) = l
    BY <1>2, <2>1, <2>2, <2>3, ListParts DEF First
  <2>5. Links(p, next)
    <3> SUFFICES ASSUME NEW j \in 1..Len(p)
                 PROVE  next[p[j]] = IF j < Len(p) THEN p[j + 1] ELSE NoLayer
      BY <2>3 DEF Links
    <3>1. p[j] = s[i + j - 1] /\ i + j - 1 \in 1..Len(s)
      BY <1>2, <2>2
    <3>2. next[p[j]] = IF i + j - 1 < Len(s) THEN s[i + j - 1 + 1] ELSE NoLayer
      BY <1>1, <1>2, <3>1 DEF Links
    <3>3. j < Len(p) => p[j + 1] = s[i + j - 1 + 1]
      <4> SUFFICES ASSUME j < Len(p) PROVE p[j + 1] = s[i + j - 1 + 1]
        OBVIOUS
      <4>1. j + 1 \in 1..Len(s) - i + 1 /\ i + (j + 1) - 1 = i + j - 1 + 1
        BY <1>2, <2>2
      <4>2. p[j + 1] = s[i + (j + 1) - 1]
        BY <2>2, <4>1
      <4> QED
        BY <4>1, <4>2
    <3>4. j < Len(p) <=> i + j - 1 < Len(s)
      BY <1>2, <2>2
    <3> QED
      BY <3>2, <3>3, <3>4
  <2>6. Nth(l)[n] = IF n < Len(p) THEN p[n + 1] ELSE NoLayer
    BY <1>3, <2>2, <2>3, <2>4, <2>5, WalkIs
  <2>7. n < Len(p) => p[n + 1] = s[i + n] /\ i + n \in 1..Len(s)
    <3> SUFFICES ASSUME n < Len(p) PROVE p[n + 1] = s[i + n] /\ i + n \in 1..Len(s)
      OBVIOUS
    <3>1. n + 1 \in 1..Len(s) - i + 1 /\ i + (n + 1) - 1 = i + n /\ i + n \in 1..Len(s)
      BY <1>2, <1>3, <2>2
    <3>2. p[n + 1] = s[i + (n + 1) - 1]
      BY <2>2, <3>1
    <3> QED
      BY <3>1, <3>2
  <2> QED
    BY <1>2, <2>6, <2>7 DEF Elements
<1> QED
  BY <1>4, <1>5

-----------------------------------------------------------------------------
(* Steps of the list.                                                      *)

\* A layer that is on no list is appended.
LEMMA AppendList ==
  ASSUME NEW s, NEW link \in [Layers -> Pointer], NEW head, IsList(s, link, head),
         NEW l \in Layers, l \notin Elements(s), link[l] = NoLayer,
         NEW link2, NEW head2,
         IF head = NoLayer
           THEN head2 = l /\ link2 = link
           ELSE /\ head2 = head
                /\ \E last \in Elements(s) :
                     link[last] = NoLayer /\ link2 = [link EXCEPT ![last] = l]
  PROVE  /\ link2 \in [Layers -> Pointer]
         /\ \E t : IsList(t, link2, head2) /\ Elements(t) = Elements(s) \cup {l}
<1>1. s \in Seq(Layers) /\ Links(s, link) /\ head = First(s)
  BY DEF IsList
<1>2. /\ Len(s) \in Nat /\ DOMAIN s = 1..Len(s)
      /\ \A i \in 1..Len(s) : s[i] \in Layers /\ s[i] # NoLayer
      /\ s = <<>> <=> Len(s) = 0
  BY <1>1, ListParts
<1> DEFINE t == Append(s, l)
<1>3. /\ t \in Seq(Layers) /\ Len(t) = Len(s) + 1 /\ DOMAIN t = 1..Len(s) + 1
      /\ \A i \in 1..Len(s) : t[i] = s[i]
      /\ t[Len(s) + 1] = l
  BY <1>1, AppendProperties, LenProperties
<1> HIDE DEF t
<1>4. \A i \in 1..Len(s) : s[i] # l
  BY <1>2 DEF Elements
<1>5. \A i \in DOMAIN t : i \in 1..Len(s) \/ i = Len(s) + 1
  BY <1>2, <1>3
<1>6. \A i, j \in DOMAIN t : t[i] = t[j] => i = j
  BY <1>2, <1>3, <1>4, <1>5 DEF IsList
<1>7. Elements(t) = Elements(s) \cup {l}
  <2>1. \A i \in DOMAIN t : t[i] \in Elements(s) \cup {l}
    BY <1>2, <1>3, <1>5 DEF Elements
  <2>2. \A i \in DOMAIN s : s[i] \in Elements(t)
    BY <1>2, <1>3 DEF Elements
  <2>3. l \in Elements(t)
    BY <1>2, <1>3 DEF Elements
  <2> QED
    BY <2>1, <2>2, <2>3 DEF Elements
<1>8. head = NoLayer <=> Len(s) = 0
  BY <1>1, <1>2 DEF First
<1>9. \A i \in 1..Len(s) : link[s[i]] = NoLayer <=> i = Len(s)
  <2> SUFFICES ASSUME NEW i \in 1..Len(s) PROVE link[s[i]] = NoLayer <=> i = Len(s)
    OBVIOUS
  <2>1. link[s[i]] = IF i < Len(s) THEN s[i + 1] ELSE NoLayer
    BY <1>1, <1>2 DEF Links
  <2>2. CASE i < Len(s)
    <3>1. i + 1 \in 1..Len(s)
      BY <1>2, <2>2
    <3>2. s[i + 1] # NoLayer
      BY <1>2, <3>1
    <3> QED
      BY <2>1, <2>2, <3>2
  <2>3. CASE i = Len(s)
    BY <2>1, <2>3
  <2>4. Len(s) \in Nat
    BY <1>2
  <2>5. (i < Len(s) \/ i = Len(s)) /\ (i < Len(s) => i # Len(s))
    BY <2>4
  <2> QED
    BY <2>2, <2>3, <2>5
<1>10. /\ link2 \in [Layers -> Pointer] /\ head2 = First(t)
       /\ link2[l] = NoLayer
       /\ \A i \in 1..Len(s) : link2[s[i]] = IF i = Len(s) THEN l ELSE link[s[i]]
  <2>1. First(t) = IF Len(s) = 0 THEN l ELSE s[1]
    BY <1>2, <1>3, ListParts DEF First
  <2>2. CASE head = NoLayer
    BY <1>8, <2>1, <2>2
  <2>3. CASE head # NoLayer
    <3>1. head2 = First(t)
      BY <1>1, <1>2, <1>8, <2>1, <2>3 DEF First
    <3>2. PICK last \in Elements(s) :
            link[last] = NoLayer /\ link2 = [link EXCEPT ![last] = l]
      BY <2>3
    <3>3. PICK k \in 1..Len(s) : last = s[k]
      BY <1>2 DEF Elements
    <3>4. k = Len(s) /\ Len(s) \in 1..Len(s) /\ last = s[Len(s)] /\ last \in Layers /\ last # l
      BY <1>2, <1>4, <1>9, <3>2, <3>3
    <3>5. link2 \in [Layers -> Pointer] /\ link2[l] = NoLayer
      BY <3>2, <3>4 DEF Pointer
    <3>6. \A i \in 1..Len(s) : s[i] = last <=> i = Len(s)
      BY <1>2, <3>4 DEF IsList
    <3> QED
      BY <1>2, <3>1, <3>2, <3>5, <3>6
  <2> QED
    BY <2>2, <2>3
<1>11. Links(t, link2)
  <2> SUFFICES ASSUME NEW i \in DOMAIN t
               PROVE  link2[t[i]] = IF i < Len(t) THEN t[i + 1] ELSE NoLayer
    BY DEF Links
  <2>1. CASE i = Len(s) + 1
    <3>1. t[i] = l /\ ~(i < Len(t))
      BY <1>2, <1>3, <2>1
    <3> QED
      BY <1>10, <3>1
  <2>2. CASE i \in 1..Len(s) /\ i = Len(s)
    <3>1. t[i] = s[i] /\ i < Len(t) /\ t[i + 1] = l
      BY <1>2, <1>3, <2>2
    <3> QED
      BY <1>10, <2>2, <3>1
  <2>3. CASE i \in 1..Len(s) /\ i < Len(s)
    <3>1. i + 1 \in 1..Len(s) /\ i < Len(t)
      BY <1>2, <1>3, <2>3
    <3>2. t[i] = s[i] /\ t[i + 1] = s[i + 1] /\ i # Len(s)
      BY <1>2, <1>3, <2>3, <3>1
    <3>3. link[s[i]] = s[i + 1]
      BY <1>1, <1>2, <2>3 DEF Links
    <3>4. link2[s[i]] = link[s[i]]
      BY <1>10, <2>3, <3>2
    <3> QED
      BY <3>1, <3>2, <3>3, <3>4
  <2> QED
    BY <1>2, <1>5, <2>1, <2>2, <2>3
<1>12. IsList(t, link2, head2)
  BY <1>3, <1>6, <1>10, <1>11 DEF IsList
<1> QED
  BY <1>7, <1>10, <1>12

\* The link of the layer before it is led past the one that is taken out.
LEMMA RemoveList ==
  ASSUME NEW s, NEW link, NEW head, IsList(s, link, head), NEW i \in DOMAIN s,
         NEW link2, NEW head2,
         \A k \in DOMAIN s \ {i} :
           link2[s[k]] = IF link[s[k]] = s[i] THEN link[s[i]] ELSE link[s[k]],
         head2 = IF head = s[i] THEN link[head] ELSE head
  PROVE  \E t : IsList(t, link2, head2) /\ Elements(t) = Elements(s) \ {s[i]}
<1>1. s \in Seq(Layers) /\ Links(s, link) /\ head = First(s)
  BY DEF IsList
<1>2. /\ Len(s) \in Nat /\ DOMAIN s = 1..Len(s)
      /\ \A k \in 1..Len(s) : s[k] \in Layers /\ s[k] # NoLayer
      /\ s = <<>> <=> Len(s) = 0
  BY <1>1, ListParts
<1>3. \A j, k \in 1..Len(s) : s[j] = s[k] => j = k
  BY <1>2 DEF IsList
<1> DEFINE n == Len(s) - 1
           t == [k \in 1..n |-> IF k < i THEN s[k] ELSE s[k + 1]]
<1>4. /\ i \in 1..Len(s) /\ n \in Nat /\ n + 1 = Len(s)
      /\ \A k \in 1..n : k \in 1..Len(s) /\ k + 1 \in 1..Len(s)
  BY <1>2
<1>5. t \in Seq(Layers) /\ Len(t) = n /\ DOMAIN t = 1..n
  <2>1. t \in [1..n -> Layers]
    BY <1>2, <1>4
  <2> QED
    BY <1>4, <2>1, FunctionIsSeq, LenProperties
<1>6. \A k \in 1..n : t[k] = IF k < i THEN s[k] ELSE s[k + 1]
  OBVIOUS
<1> HIDE DEF t, n
<1> DEFINE at(k) == IF k < i THEN k ELSE k + 1
<1>7. \A k \in 1..n : at(k) \in 1..Len(s) /\ at(k) # i /\ t[k] = s[at(k)]
  BY <1>4, <1>6
<1>8. \A j, k \in 1..n : at(j) = at(k) => j = k
  BY <1>4
<1>9. \A j, k \in DOMAIN t : t[j] = t[k] => j = k
  BY <1>3, <1>5, <1>7, <1>8
<1>10. \A k \in 1..Len(s) : k # i => \E j \in 1..n : at(j) = k
  <2> SUFFICES ASSUME NEW k \in 1..Len(s), k # i PROVE \E j \in 1..n : at(j) = k
    OBVIOUS
  <2>1. CASE k < i
    <3>1. k \in 1..n /\ at(k) = k
      BY <1>4, <2>1
    <3> QED
      BY <3>1
  <2>2. CASE k > i
    <3>1. k - 1 \in 1..n /\ at(k - 1) = k
      BY <1>4, <2>2
    <3> QED
      BY <3>1
  <2> QED
    BY <1>4, <2>1, <2>2
<1>11. Elements(t) = Elements(s) \ {s[i]}
  <2>1. \A k \in DOMAIN t : t[k] \in Elements(s) /\ t[k] # s[i]
    <3> SUFFICES ASSUME NEW k \in 1..n PROVE t[k] \in Elements(s) /\ t[k] # s[i]
      BY <1>5
    <3> DEFINE a == at(k)
    <3>1. a \in 1..Len(s) /\ a # i /\ t[k] = s[a]
      BY <1>7
    <3> HIDE DEF a
    <3> QED
      BY <1>2, <1>3, <1>4, <3>1 DEF Elements
  <2>2. \A k \in DOMAIN s : s[k] # s[i] => s[k] \in Elements(t)
    <3> SUFFICES ASSUME NEW k \in 1..Len(s), k # i PROVE s[k] \in Elements(t)
      BY <1>2
    <3>1. PICK j \in 1..n : at(j) = k
      BY <1>10
    <3>2. t[j] = s[k]
      BY <1>7, <3>1
    <3> QED
      BY <1>5, <3>2 DEF Elements
  <2> QED
    BY <2>1, <2>2 DEF Elements
<1>12. \A k \in 1..Len(s) : link[s[k]] = IF k < Len(s) THEN s[k + 1] ELSE NoLayer
  BY <1>1, <1>2 DEF Links
<1>13. Links(t, link2)
  <2> SUFFICES ASSUME NEW k \in 1..n
               PROVE  link2[t[k]] = IF k < n THEN t[k + 1] ELSE NoLayer
    BY <1>5 DEF Links
  <2> DEFINE a == at(k)
  <2>1. a \in 1..Len(s) /\ a # i /\ t[k] = s[a]
    BY <1>7
  <2>2. link2[t[k]] = IF link[s[a]] = s[i] THEN link[s[i]] ELSE link[s[a]]
    BY <1>2, <2>1
  <2>3. link[s[a]] = s[i] <=> a + 1 = i
    <3>1. CASE a < Len(s)
      <4>1. a + 1 \in 1..Len(s) /\ link[s[a]] = s[a + 1]
        BY <1>2, <1>12, <2>1, <3>1
      <4> QED
        BY <1>3, <1>4, <4>1
    <3>2. CASE ~(a < Len(s))
      BY <1>2, <1>4, <1>12, <2>1, <3>2
    <3> QED
      BY <3>1, <3>2
  <2>4. CASE a + 1 = i
    <3>1. k + 1 = i /\ link2[t[k]] = link[s[i]]
      BY <1>4, <2>2, <2>3, <2>4
    <3>2. link[s[i]] = IF i < Len(s) THEN s[i + 1] ELSE NoLayer
      BY <1>4, <1>12
    <3>3. k < n <=> i < Len(s)
      BY <1>2, <1>4, <3>1
    <3>4. k < n => t[k + 1] = s[i + 1]
      <4> SUFFICES ASSUME k < n PROVE t[k + 1] = s[i + 1]
        OBVIOUS
      <4>1. k + 1 \in 1..n /\ ~(k + 1 < i)
        BY <1>4, <3>1
      <4> QED
        BY <1>6, <3>1, <4>1
    <3> QED
      BY <3>1, <3>2, <3>3, <3>4
  <2>5. CASE a + 1 # i
    <3>1. link2[t[k]] = IF a < Len(s) THEN s[a + 1] ELSE NoLayer
      BY <1>12, <2>1, <2>2, <2>3, <2>5
    <3>2. k < n <=> a < Len(s)
      BY <1>2, <1>4, <2>1, <2>5
    <3>3. k < n => k + 1 \in 1..n /\ at(k + 1) = a + 1
      BY <1>2, <1>4, <2>1, <2>5
    <3>4. k < n => t[k + 1] = s[a + 1]
      BY <1>7, <3>3
    <3> QED
      BY <3>1, <3>2, <3>4
  <2> QED
    BY <2>4, <2>5
<1>14. head2 = First(t)
  <2>1. head = s[1] /\ 1 \in 1..Len(s)
    BY <1>1, <1>2, <1>4 DEF First
  <2>2. First(t) = IF n = 0 THEN NoLayer ELSE t[1]
    BY <1>5, ListParts DEF First
  <2>3. CASE i = 1
    <3>1. head2 = IF 1 < Len(s) THEN s[2] ELSE NoLayer
      BY <1>12, <2>1, <2>3
    <3>2. n # 0 => 1 \in 1..n /\ t[1] = s[2]
      BY <1>4, <1>6, <2>3
    <3> QED
      BY <1>2, <1>4, <2>2, <3>1, <3>2
  <2>4. CASE i # 1
    <3>1. head2 = s[1]
      BY <1>3, <1>4, <2>1, <2>4
    <3>2. n # 0 /\ 1 \in 1..n /\ t[1] = s[1]
      BY <1>4, <1>6, <2>4
    <3> QED
      BY <2>2, <3>1, <3>2
  <2> QED
    BY <2>3, <2>4
<1> QED
  BY <1>5, <1>9, <1>11, <1>13, <1>14 DEF IsList

-----------------------------------------------------------------------------
(* The invariant of the list.                                              *)

\* Every variable has its type.
Types ==
  /\ setting \in Settings
  /\ next \in [Layers -> Pointer]
  /\ messageLayers \in Pointer /\ nextMessageLayer \in Pointer
  /\ status \in [Layers -> {"Unused", "Listening", "Connected", "Disconnected", "Freed"}]
  /\ id \in [Layers -> Nat \cup {NoId}]
  /\ inbox \in [Layers -> 0..MaxInbox]
  /\ lastId \in Nat /\ ends \in Nat /\ msgcount \in Nat
  /\ phase \in {"work", "sweep", "handle"}
  /\ worked \subseteq Layers
  /\ handled \in Pointer

\* The layers in use.
Live == {l \in Layers : status[l] \notin {"Unused", "Freed"}}

\* The list is a sequence of the layers in use.
ListIsLive == \E s : IsList(s, next, messageLayers) /\ Elements(s) = Live

\* A layer that was not made yet has no link, no message and no cursor.
UnusedIsBlank ==
  /\ \A l \in Layers : status[l] = "Unused" => next[l] = NoLayer /\ inbox[l] = 0
  /\ nextMessageLayer # NoLayer => status[nextMessageLayer] # "Unused"

\* Only the first layer of a server listens, and it gets no message.
ListenerListens ==
  /\ status[Listener] = IF setting.role = "server" THEN "Listening" ELSE "Unused"
  /\ inbox[Listener] = 0

\* A server has no layer without a connection but the one that ended since the
\* last sweep.
OneDisconnected ==
  setting.role = "server" =>
    /\ \A l, k \in Layers : status[l] = "Disconnected" /\ status[k] = "Disconnected" => l = k
    /\ ends = 0 => \A l \in Layers : status[l] # "Disconnected"

\* Only a server has this phase, and begins it with no message handled.
OnlyServersSweep == phase = "sweep" => setting.role = "server" /\ msgcount = 0

\* The inductive invariant of the list.
LInv ==
  /\ Types /\ ListIsLive /\ UnusedIsBlank /\ ListenerListens
  /\ OneDisconnected /\ OnlyServersSweep

-----------------------------------------------------------------------------
(* The invariant of the cursor.                                            *)

\* Whether no round of this process ends for its message limit while there are
\* messages.
Ample == setting.maxmsg > MaxLayers * MaxInbox

\* The messages that wait for the loop, by layer and position.
Messages == {m \in (1..MaxLayers) \X (1..MaxInbox) : m[2] <= inbox[m[1]]}

\* The messages of a round were all there when it began.
RoundIsBounded ==
  phase = "handle" => msgcount + Cardinality(Messages) <= MaxLayers * MaxInbox

CursorIsListed == nextMessageLayer \in Live \cup {NoLayer}

\* A round ends with the cursor taken back, or no layer is ever freed.
CursorRests ==
  IF Ample THEN phase # "handle" => nextMessageLayer = NoLayer
  ELSE \A l \in Layers : status[l] \notin {"Disconnected", "Freed"}

\* The inductive invariant of the cursor.
CInv == LInv /\ RoundIsBounded /\ CursorIsListed /\ CursorRests

-----------------------------------------------------------------------------
(* What the invariant says of the walks.                                   *)

\* The walk from the head reaches the layers in use.
LEMMA ListedIsLive == ASSUME LInv PROVE Listed = Live
<1>1. PICK s : IsList(s, next, messageLayers) /\ Elements(s) = Live
  BY DEF LInv, ListIsLive
<1> QED
  BY <1>1, ListedIs

\* A link of a layer in use leads to one, or nowhere.
LEMMA LinkIsLive ==
  ASSUME LInv, NEW l \in Live
  PROVE  next[l] \in Live \cup {NoLayer}
<1>1. PICK s : IsList(s, next, messageLayers) /\ Elements(s) = Live
  BY DEF LInv, ListIsLive
<1>2. s \in Seq(Layers) /\ Links(s, next)
  BY <1>1 DEF IsList
<1>3. Len(s) \in Nat /\ DOMAIN s = 1..Len(s)
  BY <1>2, ListParts
<1>4. PICK i \in DOMAIN s : l = s[i]
  BY <1>1 DEF Elements
<1>5. next[l] = IF i < Len(s) THEN s[i + 1] ELSE NoLayer
  BY <1>2, <1>4 DEF Links
<1>6. i < Len(s) => i + 1 \in DOMAIN s
  BY <1>3
<1> QED
  BY <1>1, <1>5, <1>6 DEF Elements

\* A search that starts at a layer in use meets no other ones.
LEMMA WalkIsLive ==
  ASSUME LInv, NEW l \in Live \cup {NoLayer}, NEW n \in 0..MaxLayers
  PROVE  Nth(l)[n] \in Live \cup {NoLayer}
<1>1. PICK s : IsList(s, next, messageLayers) /\ Elements(s) = Live
  BY DEF LInv, ListIsLive
<1> QED
  BY <1>1, WalkStays

\* The head of the list is in use.
LEMMA HeadIsLive == ASSUME LInv PROVE messageLayers \in Live \cup {NoLayer}
<1>1. PICK s : IsList(s, next, messageLayers) /\ Elements(s) = Live
  BY DEF LInv, ListIsLive
<1>2. s \in Seq(Layers) /\ messageLayers = First(s)
  BY <1>1 DEF IsList
<1>3. s # <<>> => 1 \in DOMAIN s
  BY <1>2, ListParts
<1> QED
  BY <1>1, <1>2, <1>3 DEF First, Elements

\* The search finds a layer in use that holds a message.
LEMMA SearchFinds ==
  ASSUME LInv, ~Dangling, Holding # {}
  PROVE  LET l == Nth(Start)[Min(Holding)] IN l \in Live /\ inbox[l] > 0
<1> DEFINE n == Min(Holding)
<1>1. n \in Holding
  <2>1. Holding \in SUBSET Nat
    BY Bounds DEF Holding
  <2>2. \E m \in Holding : \A k \in Holding : m <= k
    BY <2>1, LeastNatural
  <2> QED
    BY <2>2 DEF Min
<1> HIDE DEF n
<1>2. n \in 0..MaxLayers /\ Nth(Start)[n] # NoLayer /\ inbox[Nth(Start)[n]] > 0
  BY <1>1 DEF Holding
<1>3. Start \in Live \cup {NoLayer}
  <2>1. CASE nextMessageLayer = NoLayer
    BY <2>1, HeadIsLive DEF Start
  <2>2. CASE nextMessageLayer # NoLayer
    <3>1. /\ nextMessageLayer \in Layers /\ status[nextMessageLayer] # "Unused"
          /\ nextMessageLayer \notin Freed
      BY <2>2 DEF LInv, Types, Pointer, UnusedIsBlank, Dangling
    <3> QED
      BY <2>2, <3>1 DEF Start, Live, Freed
  <2> QED
    BY <2>1, <2>2
<1>4. Nth(Start)[n] \in Live \cup {NoLayer}
  BY <1>2, <1>3, WalkIsLive
<1> QED
  BY <1>2, <1>4 DEF n

\* The list goes on if neither the links nor the layers in use change.
LEMMA SameList ==
  ASSUME LInv, UNCHANGED list, Live' = Live
  PROVE  ListIsLive'
<1>1. PICK s : IsList(s, next, messageLayers) /\ Elements(s) = Live
  BY DEF LInv, ListIsLive
<1>2. IsList(s, next', messageLayers') /\ Elements(s) = Live'
  BY <1>1 DEF list
<1> QED
  BY <1>2 DEF ListIsLive

\* What AddMessageLayer does to the list.
LEMMA AddedIsLive ==
  ASSUME LInv, NEW l \in Layers, status[l] = "Unused", AddMessageLayer(l),
         NEW mark \in {"Connected", "Disconnected"}, status' = [status EXCEPT ![l] = mark]
  PROVE  /\ next' \in [Layers -> Pointer] /\ messageLayers' \in Pointer
         /\ Live' = Live \cup {l} /\ ListIsLive'
         /\ \A k \in Layers : status'[k] = "Unused" => next'[k] = NoLayer /\ inbox[k] = 0
<1>1. PICK s : IsList(s, next, messageLayers) /\ Elements(s) = Live
  BY DEF LInv, ListIsLive
<1>2. /\ next \in [Layers -> Pointer] /\ messageLayers \in Pointer
      /\ status \in [Layers -> {"Unused", "Listening", "Connected", "Disconnected", "Freed"}]
      /\ next[l] = NoLayer
      /\ \A k \in Layers : status[k] = "Unused" => next[k] = NoLayer /\ inbox[k] = 0
  BY DEF LInv, Types, UnusedIsBlank
<1>3. Live' = Live \cup {l}
  BY <1>2 DEF Live
<1>4. l \notin Elements(s)
  BY <1>1 DEF Live
<1>5. messageLayers # NoLayer =>
        /\ messageLayers' = messageLayers
        /\ \E last \in Elements(s) : next[last] = NoLayer /\ next' = [next EXCEPT ![last] = l]
  <2> SUFFICES ASSUME messageLayers # NoLayer
               PROVE  /\ messageLayers' = messageLayers
                      /\ \E last \in Elements(s) :
                           next[last] = NoLayer /\ next' = [next EXCEPT ![last] = l]
    OBVIOUS
  <2> DEFINE last == CHOOSE k \in Listed : next[k] = NoLayer
  <2>1. messageLayers' = messageLayers /\ next' = [next EXCEPT ![last] = l]
    BY DEF AddMessageLayer
  <2>2. s \in Seq(Layers) /\ messageLayers = First(s) /\ Links(s, next)
    BY <1>1 DEF IsList
  <2>3. s # <<>>
    BY <2>2 DEF First
  <2>4. Len(s) \in DOMAIN s /\ ~(Len(s) < Len(s))
    BY <2>2, <2>3, ListParts
  <2>5. s[Len(s)] \in Elements(s) /\ next[s[Len(s)]] = NoLayer
    BY <2>2, <2>4 DEF Links, Elements
  <2>6. Listed = Elements(s)
    BY <1>1, ListedIs
  <2>7. last \in Elements(s) /\ next[last] = NoLayer
    BY <2>5, <2>6
  <2> QED
    BY <2>1, <2>7
<1>6. messageLayers = NoLayer => messageLayers' = l /\ next' = next
  BY DEF AddMessageLayer
<1>7. /\ next' \in [Layers -> Pointer]
      /\ \E t : IsList(t, next', messageLayers') /\ Elements(t) = Elements(s) \cup {l}
  BY <1>1, <1>2, <1>4, <1>5, <1>6, AppendList
<1>8. ListIsLive'
  BY <1>1, <1>3, <1>7 DEF ListIsLive
<1>9. ASSUME NEW k \in Layers, status'[k] = "Unused"
      PROVE  next'[k] = NoLayer /\ inbox[k] = 0
  <2>1. status[k] = "Unused" /\ k \notin Live
    BY <1>2, <1>9 DEF Live
  <2>2. next'[k] = next[k]
    <3>1. CASE messageLayers = NoLayer
      BY <1>6, <3>1
    <3>2. CASE messageLayers # NoLayer
      <4>1. PICK last \in Elements(s) : next' = [next EXCEPT ![last] = l]
        BY <1>5, <3>2
      <4> QED
        BY <1>1, <1>2, <2>1, <4>1
    <3> QED
      BY <3>1, <3>2
  <2> QED
    BY <1>2, <2>1, <2>2
<1>10. messageLayers' \in Pointer
  BY <1>2, <1>5, <1>6 DEF Pointer
<1> QED
  BY <1>3, <1>7, <1>8, <1>9, <1>10

-----------------------------------------------------------------------------
(* The invariant of the list, action by action.                            *)

\* No two connections end between two sweeps, and the first server stays.
OneEnd == \A s \in Settings : s.maxEnds <= 1 /\ ~s.removeFirst

\* The setting of a process.
LEMMA SettingIs ==
  ASSUME setting \in Settings
  PROVE  /\ setting.role \in {"server", "client"}
         /\ setting.maxmsg \in Nat /\ setting.maxEnds \in Nat
BY SettingsAssumption

\* The layer that is made next was not used before.
LEMMA MinUnused ==
  ASSUME Unused # {}
  PROVE  Min(Unused) \in Layers \ {Listener} /\ status[Min(Unused)] = "Unused"
<1>1. Unused \in SUBSET Nat
  BY Bounds DEF Unused
<1>2. \E m \in Unused : \A k \in Unused : m <= k
  BY <1>1, LeastNatural
<1>3. Min(Unused) \in Unused
  BY <1>2 DEF Min
<1> QED
  BY <1>3 DEF Unused

\* The first state.
LEMMA InitLInv == Init => LInv
<1> SUFFICES ASSUME Init PROVE LInv
  OBVIOUS
<1>1. Listener \in Layers /\ NoLayer \notin Layers /\ Layers = 0..MaxLayers
  BY Bounds DEF Listener
<1>2. setting \in Settings /\ setting.role \in {"server", "client"}
  BY SettingIs DEF Init
<1>3. Types
  BY <1>1, <1>2, Bounds DEF Init, Types, Pointer
<1>4. ListIsLive
  <2>1. CASE setting.role = "server"
    <3> DEFINE s == <<Listener>>
    <3>1. s \in Seq(Layers) /\ Len(s) = 1 /\ s[1] = Listener
      BY <1>1
    <3> HIDE DEF s
    <3>2. DOMAIN s = {1} /\ s # <<>>
      <4>1. DOMAIN s = 1..Len(s) /\ (s = <<>> <=> Len(s) = 0)
        BY <3>1, ListParts
      <4> QED
        BY <3>1, <4>1
    <3>3. IsList(s, next, messageLayers)
      BY <1>1, <2>1, <3>1, <3>2 DEF IsList, Links, First, Init
    <3>4. Elements(s) = Live
      BY <1>1, <2>1, <3>1, <3>2 DEF Elements, Live, Init
    <3> QED
      BY <3>3, <3>4 DEF ListIsLive
  <2>2. CASE setting.role # "server"
    <3> DEFINE s == <<>>
    <3>1. s \in Seq(Layers) /\ DOMAIN s = {} /\ First(s) = NoLayer
      BY EmptySeq DEF First
    <3> HIDE DEF s
    <3>2. IsList(s, next, messageLayers)
      BY <2>2, <3>1 DEF IsList, Links, Init
    <3>3. Elements(s) = Live
      BY <2>2, <3>1 DEF Elements, Live, Init
    <3> QED
      BY <3>2, <3>3 DEF ListIsLive
  <2> QED
    BY <2>1, <2>2
<1>5. UnusedIsBlank /\ ListenerListens
  BY <1>1 DEF Init, UnusedIsBlank, ListenerListens
<1>6. OneDisconnected /\ OnlyServersSweep
  BY DEF Init, OneDisconnected, OnlyServersSweep
<1> QED
  BY <1>3, <1>4, <1>5, <1>6 DEF LInv

\* A message that was read.
LEMMA ReceiveLInv ==
  ASSUME LInv, UNCHANGED setting, NEW l \in Layers, Receive(l)
  PROVE  LInv'
<1>1. Types'
  <2>1. inbox[l] + 1 \in 0..MaxInbox
    BY Bounds DEF Receive, LInv, Types
  <2>2. inbox' \in [Layers -> 0..MaxInbox]
    BY <2>1 DEF Receive, LInv, Types
  <2>3. worked' \subseteq Layers
    BY DEF Receive, Working, LInv, Types
  <2> QED
    BY <2>2, <2>3 DEF Receive, Working, LInv, Types, list
<1>2. ListIsLive'
  <2>1. Live' = Live
    BY DEF Receive, Live
  <2> QED
    BY <2>1, SameList DEF Receive
<1>3. status' = status /\ status[l] = "Connected" /\ \A k \in Layers : k # l => inbox'[k] = inbox[k]
  BY DEF Receive, LInv, Types
<1>4. UnusedIsBlank'
  BY <1>3 DEF Receive, UnusedIsBlank, LInv, list
<1>5. ListenerListens'
  <2>1. Listener \in Layers /\ l # Listener
    BY <1>3, Bounds DEF Listener, ListenerListens, LInv
  <2> QED
    BY <1>3, <2>1 DEF ListenerListens, LInv
<1>6. OneDisconnected' /\ OnlyServersSweep'
  BY DEF Receive, Working, OneDisconnected, OnlyServersSweep, LInv
<1> QED
  BY <1>1, <1>2, <1>4, <1>5, <1>6 DEF LInv

\* Of a server only one connection ends, and its layer stays on the list.
LEMMA EndedStays ==
  ASSUME OneEnd, LInv, UNCHANGED setting, UNCHANGED list, NEW l \in Layers,
         status[l] = "Connected", ends < setting.maxEnds,
         status' = [status EXCEPT ![l] = "Disconnected"], ends' = ends + 1
  PROVE  /\ ListIsLive' /\ OneDisconnected'
         /\ \A k \in Layers : k # l => status'[k] = status[k]
         /\ status'[l] = "Disconnected" /\ l # Listener
<1>1. /\ \A k \in Layers : k # l => status'[k] = status[k]
      /\ status'[l] = "Disconnected" /\ l # Listener
  BY DEF LInv, Types, ListenerListens
<1>2. Live' = Live
  BY <1>1 DEF Live
<1>3. ListIsLive'
  BY <1>2, SameList
<1>4. OneDisconnected'
  <2> SUFFICES ASSUME setting.role = "server" PROVE OneDisconnected'
    BY DEF OneDisconnected
  <2>1. setting.maxEnds \in Nat /\ setting.maxEnds <= 1 /\ ends \in Nat
    BY SettingIs DEF OneEnd, LInv, Types
  <2>2. ends = 0 /\ ends' # 0
    BY <2>1
  <2>3. \A k \in Layers : status[k] # "Disconnected"
    BY <2>2 DEF LInv, OneDisconnected
  <2>4. \A k \in Layers : status'[k] = "Disconnected" => k = l
    BY <1>1, <2>3
  <2> QED
    BY <2>2, <2>4 DEF OneDisconnected
<1> QED
  BY <1>1, <1>3, <1>4

\* A connection that ended.
LEMMA DisconnectLInv ==
  ASSUME OneEnd, LInv, UNCHANGED setting, NEW l \in Layers, Disconnect(l)
  PROVE  LInv'
<1>1. /\ ListIsLive' /\ OneDisconnected'
      /\ \A k \in Layers : k # l => status'[k] = status[k]
      /\ status'[l] = "Disconnected" /\ l # Listener
  BY EndedStays DEF Disconnect
<1>2. Types'
  <2>1. status' \in [Layers -> {"Unused", "Listening", "Connected", "Disconnected", "Freed"}]
    BY DEF Disconnect, LInv, Types
  <2>2. worked' \subseteq Layers /\ ends' \in Nat
    BY DEF Disconnect, Working, LInv, Types
  <2> QED
    BY <2>1, <2>2 DEF Disconnect, Working, LInv, Types, list
<1>3. UnusedIsBlank'
  <2>1. \A k \in Layers : status'[k] = "Unused" <=> status[k] = "Unused"
    BY <1>1 DEF Disconnect
  <2>2. nextMessageLayer # NoLayer => nextMessageLayer \in Layers
    BY DEF LInv, Types, Pointer
  <2> QED
    BY <2>1, <2>2 DEF Disconnect, UnusedIsBlank, LInv, list
<1>4. ListenerListens'
  <2>1. Listener \in Layers
    BY Bounds DEF Listener
  <2> QED
    BY <1>1, <2>1 DEF Disconnect, ListenerListens, LInv
<1>5. OnlyServersSweep'
  BY DEF Disconnect, Working, OnlyServersSweep, LInv
<1> QED
  BY <1>1, <1>2, <1>3, <1>4, <1>5 DEF LInv

\* A connection that is accepted, or a server that is added: a new layer.
LEMMA NewLayerLInv ==
  ASSUME LInv, UNCHANGED <<setting, nextMessageLayer, inbox, ends, msgcount>>,
         NEW l \in Layers \ {Listener}, status[l] = "Unused", AddMessageLayer(l),
         NEW mark \in {"Connected", "Disconnected"}, status' = [status EXCEPT ![l] = mark],
         setting.role = "server" => mark = "Connected", phase' = phase
  PROVE  /\ next' \in [Layers -> Pointer] /\ messageLayers' \in Pointer
         /\ status' \in [Layers -> {"Unused", "Listening", "Connected", "Disconnected", "Freed"}]
         /\ Live' = Live \cup {l}
         /\ ListIsLive' /\ UnusedIsBlank' /\ ListenerListens' /\ OneDisconnected'
         /\ OnlyServersSweep'
<1>1. /\ next' \in [Layers -> Pointer] /\ messageLayers' \in Pointer
      /\ Live' = Live \cup {l} /\ ListIsLive'
      /\ \A k \in Layers : status'[k] = "Unused" => next'[k] = NoLayer /\ inbox[k] = 0
  BY AddedIsLive
<1>2. /\ status' \in [Layers -> {"Unused", "Listening", "Connected", "Disconnected", "Freed"}]
      /\ \A k \in Layers : k # l => status'[k] = status[k]
      /\ status'[l] = mark
  BY DEF LInv, Types
<1>3. UnusedIsBlank'
  <2>1. nextMessageLayer # NoLayer =>
          nextMessageLayer \in Layers /\ status[nextMessageLayer] # "Unused"
    BY DEF LInv, Types, Pointer, UnusedIsBlank
  <2> QED
    BY <1>1, <1>2, <2>1 DEF UnusedIsBlank
<1>4. ListenerListens'
  <2>1. Listener \in Layers
    BY Bounds DEF Listener
  <2> QED
    BY <1>2, <2>1 DEF ListenerListens, LInv
<1>5. OneDisconnected'
  <2> SUFFICES ASSUME setting.role = "server" PROVE OneDisconnected'
    BY DEF OneDisconnected
  <2>1. \A k \in Layers : status'[k] = "Disconnected" => status[k] = "Disconnected"
    BY <1>2
  <2> QED
    BY <2>1 DEF LInv, OneDisconnected
<1>6. OnlyServersSweep'
  BY DEF LInv, OnlyServersSweep
<1> QED
  BY <1>1, <1>2, <1>3, <1>4, <1>5, <1>6

\* The listening layer accepts a connection.
LEMMA AcceptLInv == ASSUME LInv, UNCHANGED setting, Accept PROVE LInv'
<1>1. PICK l \in Layers \ {Listener} : /\ status[l] = "Unused" /\ AddMessageLayer(l)
                                       /\ status' = [status EXCEPT ![l] = "Connected"]
  BY MinUnused DEF Accept
<1>2. UNCHANGED <<setting, nextMessageLayer, inbox, ends, msgcount, phase, id, lastId, handled>>
  BY DEF Accept, Working
<1>3. worked' \subseteq Layers
  BY Bounds DEF Accept, Working, LInv, Types, Listener
<1>4. /\ next' \in [Layers -> Pointer] /\ messageLayers' \in Pointer
      /\ status' \in [Layers -> {"Unused", "Listening", "Connected", "Disconnected", "Freed"}]
      /\ ListIsLive' /\ UnusedIsBlank' /\ ListenerListens' /\ OneDisconnected'
      /\ OnlyServersSweep'
  BY <1>1, <1>2, NewLayerLInv
<1>5. Types'
  BY <1>2, <1>3, <1>4 DEF LInv, Types
<1> QED
  BY <1>4, <1>5 DEF LInv

\* The application adds a server.
LEMMA AddServerLInv == ASSUME LInv, UNCHANGED setting, AddServer PROVE LInv'
<1>1. PICK l \in Layers \ {Listener} : /\ status[l] = "Unused" /\ AddMessageLayer(l)
                                       /\ status' = [status EXCEPT ![l] = "Disconnected"]
                                       /\ id' = [id EXCEPT ![l] = lastId + 1]
  BY MinUnused DEF AddServer
<1>2. /\ UNCHANGED <<setting, nextMessageLayer, inbox, ends, msgcount, phase, worked, handled>>
      /\ setting.role # "server"
  BY DEF AddServer, Idle, loop
<1>3. lastId' \in Nat /\ id' \in [Layers -> Nat \cup {NoId}]
  BY <1>1 DEF AddServer, LInv, Types
<1>4. /\ next' \in [Layers -> Pointer] /\ messageLayers' \in Pointer
      /\ status' \in [Layers -> {"Unused", "Listening", "Connected", "Disconnected", "Freed"}]
      /\ ListIsLive' /\ UnusedIsBlank' /\ ListenerListens' /\ OneDisconnected'
      /\ OnlyServersSweep'
  BY <1>1, <1>2, NewLayerLInv
<1>5. Types'
  BY <1>2, <1>3, <1>4 DEF LInv, Types
<1> QED
  BY <1>4, <1>5 DEF LInv

\* Every layer whose socket was ready had its turn.
LEMMA WorkDoneLInv == ASSUME LInv, UNCHANGED setting, WorkDone PROVE LInv'
<1>1. setting.role \in {"server", "client"} /\ setting' = setting
  BY SettingIs DEF LInv, Types
<1>2. UNCHANGED <<list, nextMessageLayer, status, id, inbox, lastId, worked, ends, handled>>
  BY DEF WorkDone
<1>3. msgcount' = 0 /\ phase' = IF setting.role = "server" THEN "sweep" ELSE "handle"
  BY DEF WorkDone
<1>4. Types'
  BY <1>1, <1>2, <1>3 DEF LInv, Types, list
<1>5. ListIsLive'
  BY <1>2, SameList DEF Live
<1>6. UnusedIsBlank' /\ ListenerListens' /\ OneDisconnected'
  BY <1>1, <1>2 DEF LInv, UnusedIsBlank, ListenerListens, OneDisconnected, list
<1>7. OnlyServersSweep'
  BY <1>1, <1>3 DEF OnlyServersSweep
<1> QED
  BY <1>4, <1>5, <1>6, <1>7 DEF LInv

\* The sweep takes out the layer whose connection ended, if there is one.
LEMMA SweepLInv == ASSUME LInv, UNCHANGED setting, Sweep PROVE LInv'
<1>1. setting.role = "server"
  BY DEF Sweep, LInv, OnlyServersSweep
<1>2. PICK s : IsList(s, next, messageLayers) /\ Elements(s) = Live
  BY DEF LInv, ListIsLive
<1>3. Listed = Live
  BY ListedIsLive
<1>4. /\ next' = [l \in Layers |-> IF l \in Live \ Swept THEN LinkBehind(l) ELSE next[l]]
      /\ messageLayers' = IF messageLayers \in Swept THEN next[messageLayers] ELSE messageLayers
      /\ status' = [l \in Layers |-> IF l \in Swept THEN "Freed" ELSE status[l]]
      /\ id' = [l \in Layers |-> IF l \in Swept THEN NoId ELSE id[l]]
      /\ ends' = 0 /\ phase' = "handle"
      /\ UNCHANGED <<setting, nextMessageLayer, inbox, lastId, worked, msgcount, handled>>
  BY <1>3 DEF Sweep
<1>5. /\ Swept = {l \in Live : status[l] = "Disconnected"} /\ Swept \subseteq Live
      /\ \A l, k \in Swept : l = k
  BY <1>1, <1>3 DEF Swept, Live, LInv, OneDisconnected
<1>6. \A l \in Live : next[l] \in Live \cup {NoLayer}
  BY LinkIsLive
<1>7. Live' = Live \ Swept
  BY <1>4, <1>5 DEF Live
<1>8. Types'
  <2>1. /\ next \in [Layers -> Pointer] /\ messageLayers \in Pointer
        /\ status \in [Layers -> {"Unused", "Listening", "Connected", "Disconnected", "Freed"}]
        /\ id \in [Layers -> Nat \cup {NoId}] /\ Live \subseteq Layers
    BY DEF LInv, Types, Live
  <2>2. \A l \in Live : LinkBehind(l) \in Pointer
    BY <1>5, <1>6, <2>1 DEF LinkBehind, Pointer
  <2>3. next' \in [Layers -> Pointer]
    BY <1>4, <2>1, <2>2
  <2>4. messageLayers' \in Pointer
    BY <1>4, <1>5, <2>1
  <2>5. status' \in [Layers -> {"Unused", "Listening", "Connected", "Disconnected", "Freed"}]
    BY <1>4, <2>1
  <2>6. id' \in [Layers -> Nat \cup {NoId}]
    BY <1>4, <2>1
  <2> QED
    BY <1>4, <2>3, <2>4, <2>5, <2>6 DEF LInv, Types
<1>9. ListIsLive'
  <2>1. CASE Swept = {}
    <3>1. \A l \in Live : LinkBehind(l) = next[l]
      BY <2>1 DEF LinkBehind
    <3>2. next' = next
      BY <1>4, <3>1 DEF LInv, Types
    <3>3. messageLayers' = messageLayers /\ Live' = Live
      BY <1>4, <1>7, <2>1
    <3> QED
      BY <3>2, <3>3, SameList DEF list
  <2>2. CASE Swept # {}
    <3>1. PICK d \in Swept : Swept = {d}
      BY <1>5, <2>2
    <3>2. PICK i \in DOMAIN s : d = s[i]
      BY <1>2, <1>5 DEF Elements
    <3>3. s \in Seq(Layers) /\ \A j, k \in DOMAIN s : s[j] = s[k] => j = k
      BY <1>2 DEF IsList
    <3>4. ASSUME NEW k \in DOMAIN s \ {i}
          PROVE  next'[s[k]] = IF next[s[k]] = s[i] THEN next[s[i]] ELSE next[s[k]]
      <4>1. s[k] \in Live /\ s[k] \in Layers /\ s[k] # d
        BY <1>2, <3>2, <3>3 DEF Elements, Live
      <4>2. next'[s[k]] = LinkBehind(s[k])
        BY <1>4, <3>1, <4>1
      <4> QED
        BY <3>1, <3>2, <4>2 DEF LinkBehind
    <3>5. messageLayers' = IF messageLayers = s[i] THEN next[messageLayers] ELSE messageLayers
      BY <1>4, <3>1, <3>2
    <3>6. \E t : IsList(t, next', messageLayers') /\ Elements(t) = Elements(s) \ {s[i]}
      BY <1>2, <3>4, <3>5, RemoveList
    <3> QED
      BY <1>2, <1>7, <3>1, <3>2, <3>6 DEF ListIsLive
  <2> QED
    BY <2>1, <2>2
<1>10. UnusedIsBlank'
  <2>1. \A l \in Layers : status'[l] = "Unused" => status[l] = "Unused" /\ next'[l] = next[l]
    BY <1>4 DEF Live
  <2>2. nextMessageLayer # NoLayer => nextMessageLayer \in Layers
    BY DEF LInv, Types, Pointer
  <2> QED
    BY <1>4, <2>1, <2>2 DEF LInv, UnusedIsBlank
<1>11. ListenerListens'
  <2>1. Listener \in Layers /\ status[Listener] = "Listening"
    BY <1>1, Bounds DEF Listener, LInv, ListenerListens
  <2>2. Listener \notin Swept
    BY <1>5, <2>1
  <2> QED
    BY <1>4, <2>1, <2>2 DEF LInv, ListenerListens
<1>12. OneDisconnected'
  <2>1. \A l \in Layers : status[l] = "Disconnected" => l \in Swept
    BY <1>5 DEF Live
  <2>2. \A l \in Layers : status'[l] # "Disconnected"
    BY <1>4, <2>1
  <2> QED
    BY <2>2 DEF OneDisconnected
<1>13. OnlyServersSweep'
  BY <1>4 DEF OnlyServersSweep
<1> QED
  BY <1>8, <1>9, <1>10, <1>11, <1>12, <1>13 DEF LInv

\* A search that found no message, and a round that reached its limit.
LEMMA RoundDoneLInv ==
  ASSUME LInv, UNCHANGED setting, NoMessage \/ LimitReached
  PROVE  LInv'
<1>1. /\ UNCHANGED <<list, status, id, inbox, lastId, ends, handled, msgcount>>
      /\ phase' = "work" /\ worked' = {}
      /\ nextMessageLayer' = NoLayer \/ nextMessageLayer' = nextMessageLayer
  BY DEF NoMessage, LimitReached, RoundDone, CursorAtEnd
<1>2. Types'
  BY <1>1 DEF LInv, Types, list, Pointer
<1>3. ListIsLive'
  BY <1>1, SameList DEF Live
<1>4. UnusedIsBlank'
  BY <1>1 DEF LInv, UnusedIsBlank, list
<1>5. ListenerListens' /\ OneDisconnected' /\ OnlyServersSweep'
  BY <1>1 DEF LInv, ListenerListens, OneDisconnected, OnlyServersSweep
<1> QED
  BY <1>2, <1>3, <1>4, <1>5 DEF LInv

\* A message that is handled, with what it says of the cursor.
LEMMA HandleMessageLInv ==
  ASSUME OneEnd, LInv, UNCHANGED setting, ~Dangling, HandleMessage
  PROVE  /\ LInv'
         /\ nextMessageLayer' \in Live \cup {NoLayer} /\ Live' = Live
         /\ \E l \in Live : inbox[l] > 0 /\ inbox' = [inbox EXCEPT ![l] = @ - 1]
<1> DEFINE l == Nth(Start)[Min(Holding)]
<1>1. l \in Live /\ inbox[l] > 0
  BY SearchFinds DEF HandleMessage
<1>2. /\ inbox' = [inbox EXCEPT ![l] = @ - 1]
      /\ nextMessageLayer' = next[l] /\ handled' = l
      /\ lastId' = (IF id[l] = NoId THEN lastId + 1 ELSE lastId)
      /\ id' = (IF id[l] = NoId THEN [id EXCEPT ![l] = lastId + 1] ELSE id)
      /\ \/ UNCHANGED <<status, ends>>
         \/ /\ status[l] = "Connected" /\ ends < setting.maxEnds
            /\ status' = [status EXCEPT ![l] = "Disconnected"]
            /\ ends' = ends + 1
      /\ msgcount' = msgcount + 1
      /\ UNCHANGED <<list, phase, worked>>
      /\ phase = "handle"
  BY DEF HandleMessage, CursorBehind
<1> HIDE DEF l
<1>3. l \in Layers
  BY <1>1 DEF Live
<1>4. nextMessageLayer' \in Live \cup {NoLayer}
  BY <1>1, <1>2, LinkIsLive
<1>5. /\ ListIsLive' /\ OneDisconnected'
      /\ \A k \in Layers :
           \/ status'[k] = status[k]
           \/ status[k] = "Connected" /\ status'[k] = "Disconnected" /\ k # Listener
  <2>1. CASE UNCHANGED <<status, ends>>
    <3>1. ListIsLive'
      BY <1>2, <2>1, SameList DEF Live
    <3>2. OneDisconnected'
      BY <2>1 DEF LInv, OneDisconnected
    <3> QED
      BY <2>1, <3>1, <3>2
  <2>2. CASE /\ status[l] = "Connected" /\ ends < setting.maxEnds
             /\ status' = [status EXCEPT ![l] = "Disconnected"]
             /\ ends' = ends + 1
    <3>1. /\ ListIsLive' /\ OneDisconnected'
          /\ \A k \in Layers : k # l => status'[k] = status[k]
          /\ status'[l] = "Disconnected" /\ l # Listener
      BY <1>2, <1>3, <2>2, EndedStays
    <3> QED
      BY <2>2, <3>1
  <2> QED
    BY <1>2, <2>1, <2>2
<1>6. \A k \in Layers : status'[k] \in {"Unused", "Freed"} <=> status[k] \in {"Unused", "Freed"}
  BY <1>5
<1>7. Live' = Live
  BY <1>6 DEF Live
<1>8. inbox' \in [Layers -> 0..MaxInbox] /\ \A k \in Layers : inbox[k] = 0 => inbox'[k] = 0
  <2>1. inbox \in [Layers -> 0..MaxInbox]
    BY DEF LInv, Types
  <2>2. inbox[l] - 1 \in 0..MaxInbox
    BY <1>1, <1>3, <2>1, Bounds
  <2>3. inbox' \in [Layers -> 0..MaxInbox]
    BY <1>2, <2>1, <2>2
  <2>4. ASSUME NEW k \in Layers, inbox[k] = 0 PROVE inbox'[k] = 0
    <3>1. k # l
      BY <1>1, <2>4
    <3> QED
      BY <1>2, <2>1, <2>4, <3>1
  <2> QED
    BY <2>3, <2>4
<1>9. Types'
  <2>1. status' \in [Layers -> {"Unused", "Listening", "Connected", "Disconnected", "Freed"}]
        /\ ends' \in Nat
    BY <1>2 DEF LInv, Types
  <2>2. id' \in [Layers -> Nat \cup {NoId}] /\ lastId' \in Nat
    <3>1. id \in [Layers -> Nat \cup {NoId}] /\ lastId \in Nat /\ lastId + 1 \in Nat
      BY DEF LInv, Types
    <3> QED
      BY <1>2, <3>1
  <2>3. nextMessageLayer' \in Pointer /\ handled' \in Pointer
    BY <1>2, <1>3, <1>4 DEF Live, Pointer
  <2>4. msgcount' \in Nat
    BY <1>2 DEF LInv, Types
  <2> QED
    BY <1>2, <1>8, <2>1, <2>2, <2>3, <2>4 DEF LInv, Types, list
<1>10. UnusedIsBlank'
  <2>1. \A k \in Layers : status'[k] = "Unused" => status[k] = "Unused"
    BY <1>5
  <2>2. nextMessageLayer' # NoLayer => nextMessageLayer' \in Layers /\ status'[nextMessageLayer'] # "Unused"
    BY <1>4, <1>7 DEF Live
  <2> QED
    BY <1>2, <1>8, <2>1, <2>2 DEF LInv, UnusedIsBlank, list
<1>11. ListenerListens'
  <2>1. Listener \in Layers
    BY Bounds DEF Listener
  <2>2. status'[Listener] = status[Listener] /\ inbox'[Listener] = 0
    BY <1>5, <1>8, <2>1 DEF LInv, ListenerListens
  <2> QED
    BY <2>2 DEF LInv, ListenerListens
<1>12. OnlyServersSweep'
  BY <1>2 DEF OnlyServersSweep
<1> QED
  BY <1>1, <1>2, <1>4, <1>5, <1>7, <1>9, <1>10, <1>11, <1>12 DEF LInv

\* A connection to a server of the list is opened.
LEMMA OpenLInv ==
  ASSUME LInv, UNCHANGED setting, NEW l \in Layers, Open(l)
  PROVE  LInv' /\ Live' = Live
<1>1. /\ UNCHANGED <<list, nextMessageLayer, id, inbox, lastId, loop, handled>>
      /\ status' = [status EXCEPT ![l] = "Connected"] /\ ends' = 0
      /\ status[l] = "Disconnected" /\ setting.role # "server"
  BY DEF Open, Idle
<1>2. /\ \A k \in Layers : k # l => status'[k] = status[k]
      /\ status'[l] = "Connected"
      /\ status' \in [Layers -> {"Unused", "Listening", "Connected", "Disconnected", "Freed"}]
  BY <1>1 DEF LInv, Types
<1>3. Live' = Live
  BY <1>1, <1>2 DEF Live
<1>4. ListIsLive'
  BY <1>1, <1>3, SameList
<1>5. Types'
  BY <1>1, <1>2 DEF LInv, Types, list, loop
<1>6. UnusedIsBlank'
  <2>1. \A k \in Layers : status'[k] = "Unused" <=> status[k] = "Unused"
    BY <1>1, <1>2
  <2>2. nextMessageLayer # NoLayer => nextMessageLayer \in Layers
    BY DEF LInv, Types, Pointer
  <2> QED
    BY <1>1, <2>1, <2>2 DEF LInv, UnusedIsBlank, list
<1>7. ListenerListens'
  <2>1. Listener \in Layers /\ status[Listener] = "Unused"
    BY <1>1, Bounds DEF Listener, LInv, ListenerListens
  <2>2. Listener # l
    BY <1>1, <2>1
  <2> QED
    BY <1>1, <1>2, <2>1, <2>2 DEF LInv, ListenerListens
<1>8. OneDisconnected' /\ OnlyServersSweep'
  BY <1>1 DEF LInv, OneDisconnected, OnlyServersSweep, loop
<1> QED
  BY <1>3, <1>4, <1>5, <1>6, <1>7, <1>8 DEF LInv

\* A server is removed, not the first one.
LEMMA RemoveServerLInv ==
  ASSUME OneEnd, LInv, UNCHANGED setting, NEW l \in Layers, RemoveServer(l)
  PROVE  LInv'
<1>1. /\ UNCHANGED <<messageLayers, nextMessageLayer, id, inbox, lastId, loop, ends, handled>>
      /\ next' = Unlinked(l)
      /\ status' = [status EXCEPT ![l] = "Freed"]
      /\ setting.role # "server"
  BY DEF RemoveServer, Idle
<1>2. l # messageLayers
  BY DEF RemoveServer, OneEnd, LInv, Types
<1>3. Listed = Live
  BY ListedIsLive
<1>4. l \in Live
  BY <1>3 DEF RemoveServer
<1>5. \A k \in Layers : Unlinked(l)[k] =
        IF k = l THEN NoLayer
        ELSE IF k \in Live /\ next[k] = l THEN next[l] ELSE next[k]
  BY <1>3 DEF Unlinked
<1>6. /\ \A k \in Layers : k # l => status'[k] = status[k]
      /\ status'[l] = "Freed"
      /\ status' \in [Layers -> {"Unused", "Listening", "Connected", "Disconnected", "Freed"}]
  BY <1>1 DEF LInv, Types
<1>7. Live' = Live \ {l}
  BY <1>6 DEF Live
<1>8. next' \in [Layers -> Pointer]
  <2>1. next \in [Layers -> Pointer] /\ NoLayer \in Pointer
    BY DEF LInv, Types, Pointer
  <2>2. Unlinked(l) = [k \in Layers |-> Unlinked(l)[k]]
    BY DEF Unlinked
  <2>3. \A k \in Layers : Unlinked(l)[k] \in Pointer
    BY <1>5, <2>1
  <2> QED
    BY <1>1, <2>2, <2>3
<1>9. Types'
  BY <1>1, <1>6, <1>8 DEF LInv, Types, loop
<1>10. ListIsLive'
  <2>1. PICK s : IsList(s, next, messageLayers) /\ Elements(s) = Live
    BY DEF LInv, ListIsLive
  <2>2. PICK i \in DOMAIN s : l = s[i]
    BY <1>4, <2>1 DEF Elements
  <2>3. ASSUME NEW k \in DOMAIN s \ {i}
        PROVE  next'[s[k]] = IF next[s[k]] = s[i] THEN next[s[i]] ELSE next[s[k]]
    <3>1. s[k] \in Live /\ s[k] \in Layers /\ s[k] # l
      BY <2>1, <2>2 DEF Elements, Live, IsList
    <3> QED
      BY <1>1, <1>5, <2>2, <3>1
  <2>4. messageLayers' = IF messageLayers = s[i] THEN next[messageLayers] ELSE messageLayers
    BY <1>1, <1>2, <2>2
  <2>5. \E t : IsList(t, next', messageLayers') /\ Elements(t) = Elements(s) \ {s[i]}
    BY <2>1, <2>3, <2>4, RemoveList
  <2> QED
    BY <1>7, <2>1, <2>2, <2>5 DEF ListIsLive
<1>11. UnusedIsBlank'
  <2>1. \A k \in Layers : status'[k] = "Unused" => status[k] = "Unused" /\ k # l /\ k \notin Live
    BY <1>6 DEF Live
  <2>2. \A k \in Layers : status'[k] = "Unused" => next'[k] = next[k]
    BY <1>1, <1>5, <2>1
  <2>3. nextMessageLayer # NoLayer => nextMessageLayer \in Layers
    BY DEF LInv, Types, Pointer
  <2> QED
    BY <1>1, <2>1, <2>2, <2>3 DEF LInv, UnusedIsBlank
<1>12. ListenerListens'
  <2>1. Listener \in Layers /\ status[Listener] = "Unused"
    BY <1>1, Bounds DEF Listener, LInv, ListenerListens
  <2>2. Listener # l
    BY <1>4, <2>1 DEF Live
  <2> QED
    BY <1>1, <1>6, <2>1, <2>2 DEF LInv, ListenerListens
<1>13. OneDisconnected' /\ OnlyServersSweep'
  BY <1>1 DEF LInv, OneDisconnected, OnlyServersSweep, loop
<1> QED
  BY <1>9, <1>10, <1>11, <1>12, <1>13 DEF LInv

\* Every step preserves it.
LEMMA NextLInv == ASSUME OneEnd, LInv, [Next]_vars PROVE LInv'
<1>1. CASE UNCHANGED vars
  <2>1. UNCHANGED <<setting, list, nextMessageLayer, status, id, inbox, lastId, phase, worked,
                    msgcount, ends, handled>>
    BY <1>1 DEF vars, loop
  <2>2. ListIsLive'
    BY <2>1, SameList DEF Live
  <2>3. Types'
    BY <2>1 DEF LInv, Types, list
  <2>4. UnusedIsBlank' /\ ListenerListens' /\ OneDisconnected' /\ OnlyServersSweep'
    BY <2>1 DEF LInv, UnusedIsBlank, ListenerListens, OneDisconnected, OnlyServersSweep, list
  <2> QED
    BY <2>2, <2>3, <2>4 DEF LInv
<1>2. CASE Step /\ UNCHANGED setting
  <2>1. CASE \E l \in Layers : Receive(l) \/ Disconnect(l) \/ Open(l) \/ RemoveServer(l)
    BY <1>2, <2>1, ReceiveLInv, DisconnectLInv, OpenLInv, RemoveServerLInv
  <2>2. CASE Accept
    BY <1>2, <2>2, AcceptLInv
  <2>3. CASE AddServer
    BY <1>2, <2>3, AddServerLInv
  <2>4. CASE WorkDone
    BY <1>2, <2>4, WorkDoneLInv
  <2>5. CASE Sweep
    BY <1>2, <2>5, SweepLInv
  <2>6. CASE Handle
    BY <1>2, <2>6, RoundDoneLInv, HandleMessageLInv DEF Handle
  <2> QED
    BY <1>2, <2>1, <2>2, <2>3, <2>4, <2>5, <2>6 DEF Step
<1> QED
  BY <1>1, <1>2 DEF Next

-----------------------------------------------------------------------------
(* The theorems about the list.                                            *)

\* Whatever ends, is accepted, added or removed, the list of a process where no
\* two connections end between two sweeps, and the first server stays, has the
\* layers in use and no freed one. (ctserver.c, line 804; ipcservicelayer.c, line
\* 188)
THEOREM ListIsSound == ASSUME OneEnd PROVE Spec => []ListedAreLive
<1>1. Init => LInv
  BY InitLInv
<1>2. LInv /\ [Next]_vars => LInv'
  BY NextLInv
<1>3. LInv => ListedAreLive
  BY ListedIsLive DEF Live, ListedAreLive
<1> QED
  BY <1>1, <1>2, <1>3, PTL DEF Spec

-----------------------------------------------------------------------------
(* The invariant of the cursor.                                            *)

\* A round takes all messages, or no layer is ever freed.
RoundsEnd ==
  \A s \in Settings :
    \/ s.maxmsg > MaxLayers * MaxInbox
    \/ s.role = "server" /\ s.maxEnds = 0

\* No more messages wait than the layers hold.
LEMMA MessagesFit ==
  /\ IsFiniteSet(Messages)
  /\ Cardinality(Messages) \in Nat
  /\ Cardinality(Messages) <= MaxLayers * MaxInbox
<1> DEFINE Places == (1..MaxLayers) \X (1..MaxInbox)
<1>1. /\ IsFiniteSet(1..MaxLayers) /\ Cardinality(1..MaxLayers) = MaxLayers
      /\ IsFiniteSet(1..MaxInbox) /\ Cardinality(1..MaxInbox) = MaxInbox
  <2>1. MaxLayers \in Nat /\ MaxInbox \in Nat
    BY Bounds
  <2>2. IsFiniteSet(1..MaxLayers) /\ Cardinality(1..MaxLayers) = MaxLayers
    BY <2>1, FS_Interval
  <2>3. IsFiniteSet(1..MaxInbox) /\ Cardinality(1..MaxInbox) = MaxInbox
    BY <2>1, FS_Interval
  <2> QED
    BY <2>2, <2>3
<1>2. IsFiniteSet(Places) /\ Cardinality(Places) = MaxLayers * MaxInbox
  <2> DEFINE A == 1..MaxLayers
             B == 1..MaxInbox
  <2>1. IsFiniteSet(A) /\ Cardinality(A) = MaxLayers /\ IsFiniteSet(B) /\ Cardinality(B) = MaxInbox
    BY <1>1
  <2> HIDE DEF A, B
  <2>2. IsFiniteSet(A \X B) /\ Cardinality(A \X B) = MaxLayers * MaxInbox
    BY <2>1, FS_Product
  <2> QED
    BY <2>2 DEF A, B
<1>3. Messages \in SUBSET Places
  BY DEF Messages
<1> HIDE DEF Places
<1>4. IsFiniteSet(Messages) /\ Cardinality(Messages) <= Cardinality(Places)
  BY <1>2, <1>3, FS_Subset
<1>5. Cardinality(Messages) \in Nat
  BY <1>4, FS_CardinalityType
<1> QED
  BY <1>2, <1>4, <1>5

\* A message that is handled does not wait any more.
LEMMA MessageTaken ==
  ASSUME LInv, NEW l \in Layers, inbox[l] > 0, inbox' = [inbox EXCEPT ![l] = @ - 1]
  PROVE  Cardinality(Messages') = Cardinality(Messages) - 1
<1>1. inbox \in [Layers -> 0..MaxInbox] /\ inbox[Listener] = 0
  BY DEF LInv, Types, ListenerListens
<1>2. l \in 1..MaxLayers /\ inbox[l] \in 1..MaxInbox
  <2>1. l # Listener
    BY <1>1
  <2>2. l \in 0..MaxLayers /\ MaxLayers \in Nat
    BY Bounds
  <2>3. inbox[l] \in 0..MaxInbox /\ MaxInbox \in Nat
    BY <1>1, Bounds
  <2> QED
    BY <2>1, <2>2, <2>3 DEF Listener
<1> DEFINE m == <<l, inbox[l]>>
<1>3. m \in Messages
  BY <1>2 DEF Messages
<1>4. Messages' = Messages \ {m}
  <2>1. ASSUME NEW k \in 1..MaxLayers, NEW p \in 1..MaxInbox
        PROVE  p <= inbox'[k] <=> p <= inbox[k] /\ <<k, p>> # m
    <3>1. k \in Layers /\ inbox[k] \in 0..MaxInbox /\ MaxInbox \in Nat
      BY <1>1, Bounds
    <3>2. CASE k = l
      <4>1. inbox'[k] = inbox[k] - 1
        BY <1>1, <3>1, <3>2
      <4> QED
        BY <3>1, <3>2, <4>1
    <3>3. CASE k # l
      BY <1>1, <3>1, <3>3
    <3> QED
      BY <3>2, <3>3
  <2> HIDE DEF m
  <2>2. \A x \in (1..MaxLayers) \X (1..MaxInbox) : x \in Messages' <=> x \in Messages /\ x # m
    BY <2>1 DEF Messages
  <2>3. Messages \subseteq (1..MaxLayers) \X (1..MaxInbox)
        /\ Messages' \subseteq (1..MaxLayers) \X (1..MaxInbox)
    BY DEF Messages
  <2> QED
    BY <2>2, <2>3
<1> HIDE DEF m
<1> QED
  BY <1>3, <1>4, MessagesFit, FS_RemoveElement

\* The first state.
LEMMA InitCInv == ASSUME RoundsEnd PROVE Init => CInv
<1> SUFFICES ASSUME Init PROVE CInv
  OBVIOUS
<1>1. LInv
  BY InitLInv
<1>2. RoundIsBounded /\ CursorIsListed /\ CursorRests
  BY DEF Init, RoundIsBounded, CursorIsListed, CursorRests
<1> QED
  BY <1>1, <1>2 DEF CInv

\* Whether a process is one or the other.
LEMMA AmpleOrQuiet ==
  ASSUME RoundsEnd, LInv
  PROVE  /\ setting.maxmsg \in Nat /\ MaxLayers * MaxInbox \in Nat
         /\ ~Ample => setting.role = "server" /\ setting.maxEnds = 0
<1>1. setting \in Settings
  BY DEF LInv, Types
<1>2. setting.maxmsg \in Nat
  BY <1>1, SettingIs
<1>3. MaxLayers * MaxInbox \in Nat
  BY Bounds
<1> QED
  BY <1>1, <1>2, <1>3 DEF RoundsEnd, Ample

\* A step that leaves the cursor, the phase and the messages as they are, and ends
\* no connection of a process that frees nothing.
LEMMA CursorStays ==
  ASSUME CInv, LInv', Live \subseteq Live', phase' = phase, msgcount' = msgcount,
         UNCHANGED <<setting, nextMessageLayer>>,
         inbox' = inbox \/ phase # "handle",
         ~Ample => \A l \in Layers : status'[l] \in {status[l], "Connected"}
  PROVE  CInv'
<1>1. RoundIsBounded'
  BY DEF CInv, RoundIsBounded, Messages
<1>2. CursorIsListed'
  BY DEF CInv, CursorIsListed
<1>3. CursorRests'
  BY DEF CInv, CursorRests, Ample
<1> QED
  BY <1>1, <1>2, <1>3 DEF CInv

\* The steps of the process between two rounds.
LEMMA WorkCInv ==
  ASSUME RoundsEnd, CInv, LInv', UNCHANGED setting,
         \/ \E l \in Layers : Receive(l) \/ Disconnect(l) \/ Open(l) \/ RemoveServer(l)
         \/ Accept \/ AddServer
  PROVE  CInv'
<1>1. LInv /\ (~Ample => setting.role = "server" /\ setting.maxEnds = 0)
  BY AmpleOrQuiet DEF CInv
<1>2. phase = "work" /\ phase' = phase /\ msgcount' = msgcount /\ nextMessageLayer' = nextMessageLayer
  BY DEF Receive, Disconnect, Open, RemoveServer, Accept, AddServer, Working, Idle, loop
<1>3. status \in [Layers -> {"Unused", "Listening", "Connected", "Disconnected", "Freed"}]
  BY <1>1 DEF LInv, Types
<1>4. CASE \E l \in Layers : Receive(l)
  BY <1>2, <1>4, CursorStays DEF Receive, Live
<1>5. CASE \E l \in Layers : Disconnect(l)
  <2>1. Ample
    BY <1>1, <1>5 DEF Disconnect, LInv, Types
  <2>2. Live' = Live
    BY <1>3, <1>5 DEF Disconnect, Live
  <2> QED
    BY <1>2, <2>1, <2>2, CursorStays
<1>6. CASE \E l \in Layers : Open(l)
  <2>1. Ample
    BY <1>1, <1>6 DEF Open, Idle
  <2>2. Live' = Live
    BY <1>1, <1>6, OpenLInv
  <2> QED
    BY <1>2, <2>1, <2>2, CursorStays
<1>7. CASE \E l \in Layers : RemoveServer(l)
  <2>1. Ample
    BY <1>1, <1>7 DEF RemoveServer, Idle
  <2>2. nextMessageLayer = NoLayer
    BY <1>2, <2>1 DEF CInv, CursorRests
  <2>3. RoundIsBounded' /\ CursorIsListed' /\ CursorRests'
    BY <1>2, <2>1, <2>2 DEF RoundIsBounded, CursorIsListed, CursorRests, Ample
  <2> QED
    BY <2>3 DEF CInv
<1>8. CASE Accept \/ AddServer
  <2>1. PICK l \in Layers \ {Listener} :
          \E mark \in {"Connected", "Disconnected"} :
            /\ status[l] = "Unused" /\ status' = [status EXCEPT ![l] = mark]
            /\ setting.role = "server" => mark = "Connected"
    BY <1>8, MinUnused DEF Accept, AddServer, Idle
  <2>2. Live \subseteq Live'
    BY <1>3, <2>1 DEF Live
  <2>3. ~Ample => \A k \in Layers : status'[k] \in {status[k], "Connected"}
    BY <1>1, <1>3, <2>1
  <2> QED
    BY <1>2, <2>2, <2>3, CursorStays
<1> QED
  BY <1>4, <1>5, <1>6, <1>7, <1>8

\* A round begins: the cursor is at rest, and the messages are those that wait.
LEMMA BeginCInv ==
  ASSUME RoundsEnd, CInv, LInv', UNCHANGED setting, WorkDone \/ Sweep
  PROVE  CInv'
<1>1. LInv
  BY DEF CInv
<1>2. /\ inbox' = inbox /\ nextMessageLayer' = nextMessageLayer
      /\ phase # "handle"
      /\ phase' = "handle" => msgcount' = 0
  BY <1>1 DEF WorkDone, Sweep, LInv, OnlyServersSweep
<1>3. RoundIsBounded'
  <2>1. Messages' = Messages
    BY <1>2 DEF Messages
  <2>2. Cardinality(Messages) \in Nat /\ Cardinality(Messages) <= MaxLayers * MaxInbox
    BY MessagesFit
  <2> QED
    BY <1>2, <2>1, <2>2 DEF RoundIsBounded
<1>4. CASE Ample
  <2>1. nextMessageLayer' = NoLayer /\ Ample'
    BY <1>2, <1>4 DEF CInv, CursorRests, Ample
  <2> QED
    BY <1>3, <2>1 DEF CInv, CursorIsListed, CursorRests
<1>5. CASE ~Ample
  <2>1. \A l \in Layers : status[l] \notin {"Disconnected", "Freed"}
    BY <1>5 DEF CInv, CursorRests
  <2>2. \A l \in Layers : status'[l] = status[l]
    <3>1. CASE WorkDone
      BY <3>1 DEF WorkDone
    <3>2. CASE Sweep
      BY <2>1, <3>2 DEF Sweep, Swept
    <3> QED
      BY <3>1, <3>2
  <2>3. Live' = Live
    BY <2>2 DEF Live
  <2> QED
    BY <1>2, <1>3, <1>5, <2>1, <2>2, <2>3 DEF CInv, CursorIsListed, CursorRests, Ample
<1> QED
  BY <1>4, <1>5

\* A message is handled, or the round ends.
LEMMA HandleCInv ==
  ASSUME OneEnd, RoundsEnd, CInv, LInv', UNCHANGED setting, Handle
  PROVE  CInv'
<1>1. /\ LInv /\ setting.maxmsg \in Nat /\ MaxLayers * MaxInbox \in Nat
      /\ ~Ample => setting.role = "server" /\ setting.maxEnds = 0
  BY AmpleOrQuiet DEF CInv
<1>2. /\ msgcount \in Nat /\ Cardinality(Messages) \in Nat
      /\ status \in [Layers -> {"Unused", "Listening", "Connected", "Disconnected", "Freed"}]
  BY <1>1, MessagesFit DEF LInv, Types
<1>3. phase = "handle" /\ msgcount + Cardinality(Messages) <= MaxLayers * MaxInbox
  BY DEF Handle, NoMessage, HandleMessage, LimitReached, CInv, RoundIsBounded
<1>4. CASE NoMessage
  <2>1. /\ phase' = "work" /\ nextMessageLayer' = NoLayer /\ status' = status
    BY <1>4 DEF NoMessage, RoundDone, CursorAtEnd
  <2> QED
    BY <2>1 DEF CInv, RoundIsBounded, CursorIsListed, CursorRests, Ample
<1>5. CASE LimitReached
  <2>1. /\ phase' = "work" /\ nextMessageLayer' = nextMessageLayer /\ status' = status
        /\ msgcount = setting.maxmsg
    BY <1>5 DEF LimitReached, RoundDone
  <2>2. ~Ample
    BY <1>1, <1>2, <1>3, <2>1 DEF Ample
  <2>3. Live' = Live
    BY <2>1 DEF Live
  <2> QED
    BY <2>1, <2>2, <2>3 DEF CInv, RoundIsBounded, CursorIsListed, CursorRests, Ample
<1>6. CASE HandleMessage
  <2>1. /\ nextMessageLayer' \in Live \cup {NoLayer} /\ Live' = Live
        /\ \E l \in Live : inbox[l] > 0 /\ inbox' = [inbox EXCEPT ![l] = @ - 1]
    BY <1>1, <1>6, HandleMessageLInv DEF Handle
  <2>2. phase' = phase /\ msgcount' = msgcount + 1
    BY <1>6 DEF HandleMessage
  <2>3. Cardinality(Messages') = Cardinality(Messages) - 1
    BY <1>1, <2>1, MessageTaken DEF Live
  <2>4. RoundIsBounded'
    BY <1>1, <1>2, <1>3, <2>2, <2>3 DEF RoundIsBounded
  <2>5. CursorIsListed'
    BY <2>1 DEF CursorIsListed
  <2>6. ~Ample => status' = status
    BY <1>1, <1>6 DEF HandleMessage, LInv, Types
  <2>7. CursorRests'
    BY <1>3, <2>2, <2>6 DEF CInv, CursorRests, Ample
  <2> QED
    BY <2>4, <2>5, <2>7 DEF CInv
<1> QED
  BY <1>4, <1>5, <1>6 DEF Handle

\* Every step preserves it.
LEMMA NextCInv == ASSUME OneEnd, RoundsEnd, CInv, [Next]_vars PROVE CInv'
<1>1. LInv'
  BY NextLInv DEF CInv
<1>2. CASE UNCHANGED vars
  <2>1. UNCHANGED <<setting, nextMessageLayer, status, inbox, phase, msgcount>>
    BY <1>2 DEF vars, loop
  <2>2. Live' = Live
    BY <2>1 DEF Live
  <2> QED
    BY <1>1, <2>1, <2>2, CursorStays
<1>3. CASE Step /\ UNCHANGED setting
  <2>1. CASE \/ \E l \in Layers : Receive(l) \/ Disconnect(l) \/ Open(l) \/ RemoveServer(l)
             \/ Accept \/ AddServer
    BY <1>1, <1>3, <2>1, WorkCInv
  <2>2. CASE WorkDone \/ Sweep
    BY <1>1, <1>3, <2>2, BeginCInv
  <2>3. CASE Handle
    BY <1>1, <1>3, <2>3, HandleCInv
  <2> QED
    BY <1>3, <2>1, <2>2, <2>3 DEF Step
<1> QED
  BY <1>2, <1>3 DEF Next

\* The search for a message never goes on at a freed layer, in a process whose
\* rounds take all the messages there are, or that frees no layer. (ctserver.c,
\* line 851; ipcservicelayer.c, line 143)
THEOREM CursorIsSound == ASSUME OneEnd, RoundsEnd PROVE Spec => []CursorIsLive
<1>1. Init => CInv
  BY InitCInv
<1>2. CInv /\ [Next]_vars => CInv'
  BY NextCInv
<1>3. CInv => CursorIsLive
  <2> SUFFICES ASSUME nextMessageLayer \in Live \cup {NoLayer} PROVE CursorIsLive
    BY DEF CInv, CursorIsListed
  <2>1. NoLayer \notin Freed
    BY Bounds DEF Freed
  <2>2. Live \subseteq Layers \ Freed
    BY DEF Live, Freed
  <2> QED
    BY <2>1, <2>2 DEF CursorIsLive
<1> QED
  BY <1>1, <1>2, <1>3, PTL DEF Spec

=============================================================================
