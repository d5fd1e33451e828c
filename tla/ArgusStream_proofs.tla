-------------------------- MODULE ArgusStream_proofs --------------------------
(***************************************************************************)
(* Argus, for any Subjects and Events, any number of browsers, queues and  *)
(* feeds of any size, and any limits.                                      *)
(*                                                                         *)
(* First what the messages of a queue make of a view.  A fold is the last  *)
(* of the views it goes through (FoldIs, Goes), so its laws are proved by  *)
(* induction over the length of the queue, which NaturalInduction states   *)
(* of a set of numbers.  Then three theorems, each from an invariant of    *)
(* its own:                                                                *)
(*   EveryEventIsToldOnce   where an Event is told, held or dropped        *)
(*   StreamsAddUp           a view and what is on its way to it make the   *)
(*                          picture of the store; the types                *)
(*   NeverShownBackwards    each view on that way is no older than the one *)
(*                          before, and none is ahead of the store         *)
(***************************************************************************)
EXTENDS ArgusStream, SequenceTheorems, FiniteSetTheorems, TLAPS

-----------------------------------------------------------------------------
(* Folds of messages *)

(* Induction over the natural numbers, of a set of them. *)
LEMMA NaturalInduction ==
  ASSUME NEW T, 0 \in T, \A n \in Nat : n \in T => n + 1 \in T
  PROVE  \A n \in Nat : n \in T
<1> DEFINE R == OpToRel(<, Nat)
           U == Nat \ T
<1>1. IsWellFoundedOn(R, Nat)
  BY NatLessThanWellFounded
<1>2. \A x, y \in Nat : x < y => <<x, y>> \in R
  BY DEF OpToRel
<1> HIDE DEF R
<1> SUFFICES ASSUME NEW a \in Nat, a \notin T PROVE FALSE
  OBVIOUS
<1>3. PICK x \in U : \A y \in U : ~(<<y, x>> \in R)
  BY <1>1, WFMin
<1>4. x \in Nat /\ x # 0 /\ x \notin T
  BY <1>3
<1>5. x - 1 \in Nat /\ x - 1 < x /\ (x - 1) + 1 = x
  BY <1>4
<1>6. <<x - 1, x>> \in R
  BY <1>2, <1>4, <1>5
<1>7. x - 1 \in T
  BY <1>3, <1>5, <1>6
<1> QED
  BY <1>4, <1>5, <1>7

LEMMA MaxIs ==
  ASSUME NEW S, NEW m \in S, \A x \in S : x \in Nat /\ x <= m
  PROVE  Max(S) = m
<1>1. m \in Nat /\ \A x \in S : m >= x
  OBVIOUS
<1>2. \A y \in S : (\A x \in S : y >= x) => y = m
  BY <1>1
<1> QED
  BY <1>1, <1>2 DEF Max

Fold(v, q) == FoldLeft(Replayed, v, q)
Goes(v, k, q, G) == G[0] = v /\ \A i \in 1 .. k : G[i] = Replayed(G[i - 1], q[i])

(* A fold of messages is the last of the views it goes through. *)
LEMMA FoldIs ==
  ASSUME NEW v, NEW k \in Nat, NEW q, DOMAIN q = 1 .. k,
         NEW G, Goes(v, k, q, G)
  PROVE  Fold(v, q) = G[k]
<1>0. G[0] = v /\ \A i \in 1 .. k : G[i] = Replayed(G[i - 1], q[i])
  BY DEF Goes
<1> DEFINE Iter(n, h) ==
             h = [s \in SUBSET (1 .. n) |-> IF s = {} THEN v ELSE Replayed(h[s \ {Max(s)}], q[Max(s)])]
           T == {n \in Nat : \E h : Iter(n, h)}
           final == CHOOSE h : Iter(k, h)
<1>1. Fold(v, q) = final[1 .. k]
  <2>1. Fold(v, q) =
          (CHOOSE h : h = [s \in SUBSET DOMAIN q |->
                             IF s = {} THEN v ELSE Replayed(h[s \ {Max(s)}], q[Max(s)])])[DOMAIN q]
    BY Zenon DEF Fold, FoldLeft, MapThenFoldSet
  <2> QED
    BY <2>1, Zenon
<1>2. 0 \in T
  <2> DEFINE h == [s \in SUBSET (1 .. 0) |-> v]
  <2>1. \A s \in SUBSET (1 .. 0) : s = {}
    OBVIOUS
  <2>2. h = [s \in SUBSET (1 .. 0) |-> IF s = {} THEN v ELSE Replayed(h[s \ {Max(s)}], q[Max(s)])]
    BY <2>1
  <2> QED
    BY <2>2
<1>3. ASSUME NEW n \in Nat, n \in T PROVE n + 1 \in T
  <2>1. PICK h : Iter(n, h)
    BY <1>3
  <2> DEFINE g == [s \in SUBSET (1 .. n + 1) |->
                     IF n + 1 \in s THEN Replayed(h[s \ {n + 1}], q[n + 1]) ELSE h[s]]
  <2>2. \A s \in SUBSET (1 .. n + 1) : n + 1 \notin s => s \in SUBSET (1 .. n)
    OBVIOUS
  <2>3. \A s \in SUBSET (1 .. n + 1) : s \ {n + 1} \in SUBSET (1 .. n) /\ s \ {n + 1} \in SUBSET (1 .. n + 1)
    OBVIOUS
  <2>4. \A s \in SUBSET (1 .. n) : h[s] = IF s = {} THEN v ELSE Replayed(h[s \ {Max(s)}], q[Max(s)])
    BY <2>1
  <2>5. ASSUME NEW s \in SUBSET (1 .. n + 1)
        PROVE  g[s] = IF s = {} THEN v ELSE Replayed(g[s \ {Max(s)}], q[Max(s)])
    <3>1. CASE n + 1 \in s
      <4>1. Max(s) = n + 1
        <5>1. \A x \in s : x \in Nat /\ x <= n + 1
          OBVIOUS
        <5> QED
          BY <3>1, <5>1, MaxIs
      <4>2. g[s \ {n + 1}] = h[s \ {n + 1}]
        BY <2>3
      <4>3. g[s] = Replayed(h[s \ {n + 1}], q[n + 1])
        BY <3>1
      <4>4. s # {}
        BY <3>1
      <4> HIDE DEF g
      <4> QED
        BY <4>1, <4>2, <4>3, <4>4
    <3>2. CASE n + 1 \notin s
      <4>1. g[s] = h[s] /\ s \in SUBSET (1 .. n)
        BY <2>2, <3>2
      <4>2. s \ {Max(s)} \in SUBSET (1 .. n + 1) /\ n + 1 \notin s \ {Max(s)}
        BY <3>2
      <4>3. g[s \ {Max(s)}] = h[s \ {Max(s)}]
        BY <4>2
      <4> HIDE DEF g
      <4> QED
        BY <2>4, <4>1, <4>3
    <3> QED
      BY <3>1, <3>2
  <2>6. g = [s \in SUBSET (1 .. n + 1) |-> g[s]]
    OBVIOUS
  <2> HIDE DEF g
  <2>7. Iter(n + 1, g)
    BY <2>5, <2>6
  <2> HIDE DEF Iter
  <2>8. n + 1 \in Nat /\ \E h2 : Iter(n + 1, h2)
    BY <2>7
  <2> QED
    BY <2>8
<1>4. k \in T
  <2> HIDE DEF T
  <2> QED
    BY <1>2, <1>3, NaturalInduction
<1>5. Iter(k, final)
  BY <1>4
<1> HIDE DEF final, T
<1>6. \A s \in SUBSET (1 .. k) :
        final[s] = IF s = {} THEN v ELSE Replayed(final[s \ {Max(s)}], q[Max(s)])
  BY <1>5
<1> DEFINE A == {n \in Nat : n <= k => final[1 .. n] = G[n]}
<1>7. 0 \in A
  <2>1. 1 .. 0 = {} /\ {} \in SUBSET (1 .. k)
    OBVIOUS
  <2>2. final[{}] = v
    BY <1>6, <2>1
  <2> QED
    BY <1>0, <2>1, <2>2
<1>8. ASSUME NEW n \in Nat, n \in A PROVE n + 1 \in A
  <2> SUFFICES ASSUME n + 1 <= k PROVE final[1 .. n + 1] = G[n + 1]
    OBVIOUS
  <2>1. final[1 .. n] = G[n]
    BY <1>8
  <2>2. Max(1 .. n + 1) = n + 1
    <3>1. n + 1 \in 1 .. n + 1 /\ \A x \in 1 .. n + 1 : x \in Nat /\ x <= n + 1
      OBVIOUS
    <3> QED
      BY <3>1, MaxIs
  <2>3. (1 .. n + 1) \ {n + 1} = 1 .. n
    OBVIOUS
  <2>6. 1 .. n + 1 \in SUBSET (1 .. k)
    OBVIOUS
  <2>7. 1 .. n + 1 # {}
    <3>1. n + 1 \in 1 .. n + 1
      OBVIOUS
    <3> QED
      BY <3>1
  <2>4. final[1 .. n + 1] = Replayed(final[1 .. n], q[n + 1])
    BY <1>6, <2>2, <2>3, <2>6, <2>7
  <2>5. n + 1 \in 1 .. k /\ (n + 1) - 1 = n
    OBVIOUS
  <2> QED
    BY <1>0, <2>1, <2>4, <2>5
<1>9. k \in A
  <2> HIDE DEF A
  <2> QED
    BY <1>7, <1>8, NaturalInduction
<1> QED
  BY <1>1, <1>9

LEMMA FoldGoes ==
  ASSUME NEW v, NEW k \in Nat, NEW q
  PROVE  \E G : Goes(v, k, q, G)
<1> DEFINE GoesTo(n) == \E G : Goes(v, n, q, G)
           T == {n \in Nat : GoesTo(n)}
<1>1. 0 \in T
  <2> DEFINE G == [i \in {0} |-> v]
  <2>1. G[0] = v /\ \A i \in 1 .. 0 : G[i] = Replayed(G[i - 1], q[i])
    OBVIOUS
  <2> HIDE DEF G
  <2>2. Goes(v, 0, q, G)
    BY <2>1 DEF Goes
  <2> QED
    BY <2>2
<1>2. ASSUME NEW n \in Nat, n \in T PROVE n + 1 \in T
  <2>0. PICK G : Goes(v, n, q, G)
    BY <1>2
  <2>1. G[0] = v /\ \A i \in 1 .. n : G[i] = Replayed(G[i - 1], q[i])
    BY <2>0 DEF Goes
  <2> DEFINE H == [i \in 0 .. n + 1 |-> IF i = n + 1 THEN Replayed(G[n], q[n + 1]) ELSE G[i]]
  <2>2. H[0] = v
    BY <2>1
  <2>3. ASSUME NEW i \in 1 .. n + 1 PROVE H[i] = Replayed(H[i - 1], q[i])
    <3>1. i - 1 \in 0 .. n + 1 /\ i - 1 # n + 1 /\ i \in 0 .. n + 1
      OBVIOUS
    <3>2. H[i - 1] = G[i - 1]
      BY <3>1
    <3>3. CASE i = n + 1
      <4>1. i - 1 = n
        BY <3>3
      <4>2. H[i] = Replayed(G[n], q[n + 1])
        BY <3>1, <3>3
      <4> HIDE DEF H
      <4> QED
        BY <3>2, <3>3, <4>1, <4>2
    <3>4. CASE i # n + 1
      <4>1. i \in 1 .. n
        BY <3>4
      <4>2. H[i] = G[i]
        BY <3>1, <3>4
      <4> HIDE DEF H
      <4> QED
        BY <2>1, <3>2, <4>1, <4>2
    <3> QED
      BY <3>3, <3>4
  <2> HIDE DEF H
  <2>5. Goes(v, n + 1, q, H)
    BY <2>2, <2>3 DEF Goes
  <2>4. GoesTo(n + 1)
    BY <2>5
  <2> HIDE DEF GoesTo
  <2> QED
    BY <2>4
<1> HIDE DEF T
<1>3. k \in T
  BY <1>1, <1>2, NaturalInduction
<1> QED
  BY <1>3 DEF T

LEMMA FoldNone == ASSUME NEW v PROVE Fold(v, <<>>) = v
<1> DEFINE G == [i \in {0} |-> v]
<1>1. G[0] = v /\ DOMAIN <<>> = 1 .. 0
  OBVIOUS
<1>2. \A i \in 1 .. 0 : G[i] = Replayed(G[i - 1], <<>>[i])
  OBVIOUS
<1> HIDE DEF G
<1>4. Goes(v, 0, <<>>, G)
  BY <1>1, <1>2 DEF Goes
<1>3. Fold(v, <<>>) = G[0]
  BY <1>1, <1>4, FoldIs
<1> QED
  BY <1>1, <1>3

LEMMA FoldHead ==
  ASSUME NEW v, NEW S, NEW q \in Seq(S), q # <<>>
  PROVE  Fold(v, q) = Fold(Replayed(v, Head(q)), Tail(q))
<1> DEFINE k == Len(q)
           r == Tail(q)
<1>1. k \in Nat /\ k >= 1 /\ DOMAIN q = 1 .. k /\ Head(q) = q[1]
  BY LenProperties, EmptySeq
<1>2. r \in Seq(S) /\ Len(r) = k - 1 /\ \A i \in 1 .. k - 1 : r[i] = q[i + 1]
  BY HeadTailProperties
<1>3. DOMAIN r = 1 .. k - 1 /\ k - 1 \in Nat
  BY <1>1, <1>2, LenProperties
<1> HIDE DEF k, r
<1>10. PICK G : Goes(v, k, q, G)
  BY <1>1, FoldGoes
<1>4. G[0] = v /\ \A i \in 1 .. k : G[i] = Replayed(G[i - 1], q[i])
  BY <1>10 DEF Goes
<1>5. Fold(v, q) = G[k]
  BY <1>1, <1>10, FoldIs
<1> DEFINE H == [i \in 0 .. k - 1 |-> G[i + 1]]
<1>6. G[1] = Replayed(v, Head(q))
  BY <1>1, <1>4
<1>7. H[0] = Replayed(v, Head(q)) /\ H[k - 1] = G[k]
  BY <1>1, <1>6
<1>8. ASSUME NEW i \in 1 .. k - 1 PROVE H[i] = Replayed(H[i - 1], r[i])
  <2>1. i + 1 \in 1 .. k /\ (i + 1) - 1 = i /\ i - 1 \in 0 .. k - 1 /\ i \in 0 .. k - 1 /\ (i - 1) + 1 = i
    BY <1>1
  <2>2. H[i] = G[i + 1] /\ H[i - 1] = G[i]
    BY <2>1
  <2>3. G[i + 1] = Replayed(G[i], q[i + 1])
    BY <1>4, <2>1
  <2> QED
    BY <1>2, <2>2, <2>3
<1> HIDE DEF H
<1>11. Goes(Replayed(v, Head(q)), k - 1, r, H)
  BY <1>7, <1>8 DEF Goes
<1>9. Fold(Replayed(v, Head(q)), r) = H[k - 1]
  BY <1>3, <1>11, FoldIs
<1> QED
  BY <1>5, <1>7, <1>9 DEF r

LEMMA FoldConcat ==
  ASSUME NEW v, NEW S, NEW p \in Seq(S), NEW q \in Seq(S)
  PROVE  Fold(v, p \o q) = Fold(Fold(v, p), q)
<1> DEFINE a == Len(p)
           c == Len(q)
           r == p \o q
<1>1. a \in Nat /\ c \in Nat /\ DOMAIN p = 1 .. a /\ DOMAIN q = 1 .. c
  BY LenProperties
<1>2. /\ r \in Seq(S) /\ Len(r) = a + c
      /\ \A i \in 1 .. a + c : r[i] = IF i <= a THEN p[i] ELSE q[i - a]
  BY ConcatProperties
<1>3. DOMAIN r = 1 .. a + c
  BY <1>2, LenProperties
<1>4. \A i \in 1 .. a : r[i] = p[i]
  BY <1>1, <1>2
<1>5. \A i \in 1 .. c : r[a + i] = q[i]
  <2> SUFFICES ASSUME NEW i \in 1 .. c PROVE r[a + i] = q[i]
    OBVIOUS
  <2>1. a + i \in 1 .. a + c /\ ~(a + i <= a) /\ (a + i) - a = i
    BY <1>1
  <2> HIDE DEF a, c, r
  <2> QED
    BY <1>2, <2>1
<1> HIDE DEF a, c, r
<1>13. a + c \in Nat
  BY <1>1
<1>14. PICK G : Goes(v, a + c, r, G)
  BY <1>13, FoldGoes
<1>6. G[0] = v /\ \A i \in 1 .. a + c : G[i] = Replayed(G[i - 1], r[i])
  BY <1>14 DEF Goes
<1>7. Fold(v, r) = G[a + c]
  BY <1>3, <1>13, <1>14, FoldIs
<1>8. \A i \in 1 .. a : G[i] = Replayed(G[i - 1], p[i])
  <2>1. \A i \in 1 .. a : i \in 1 .. a + c
    BY <1>1
  <2> QED
    BY <1>4, <1>6, <2>1
<1>15. Goes(v, a, p, G)
  BY <1>6, <1>8 DEF Goes
<1>9. Fold(v, p) = G[a]
  BY <1>1, <1>15, FoldIs
<1> DEFINE H == [i \in 0 .. c |-> G[a + i]]
<1>10. H[0] = G[a] /\ H[c] = G[a + c]
  BY <1>1
<1>11. ASSUME NEW i \in 1 .. c PROVE H[i] = Replayed(H[i - 1], q[i])
  <2>1. /\ i \in 0 .. c /\ i - 1 \in 0 .. c /\ a + i \in 1 .. a + c /\ (a + i) - 1 = a + (i - 1)
    BY <1>1
  <2>2. H[i] = G[a + i] /\ H[i - 1] = G[a + (i - 1)]
    BY <2>1
  <2>3. G[a + i] = Replayed(G[(a + i) - 1], r[a + i])
    BY <1>6, <2>1
  <2> HIDE DEF H
  <2> QED
    BY <1>5, <2>1, <2>2, <2>3
<1> HIDE DEF H
<1>16. Goes(G[a], c, q, H)
  BY <1>10, <1>11 DEF Goes
<1>12. Fold(G[a], q) = H[c]
  BY <1>1, <1>16, FoldIs
<1> QED
  BY <1>7, <1>9, <1>10, <1>12 DEF r

-----------------------------------------------------------------------------
(* Sequences of what notes are about *)

(* The sequence of a finite set has each of its members at one place. *)
LEMMA SetToSeqIs ==
  ASSUME NEW S, IsFiniteSet(S)
  PROVE  /\ SetToSeq(S) \in Seq(S)
         /\ \A x \in S : \E i \in DOMAIN SetToSeq(S) : SetToSeq(S)[i] = x
         /\ \A i, j \in DOMAIN SetToSeq(S) : SetToSeq(S)[i] = SetToSeq(S)[j] => i = j
<1> DEFINE n == Cardinality(S)
           q == SetToSeq(S)
<1>1. n \in Nat /\ ExistsBijection(1 .. n, S)
  BY FS_CardinalityType
<1>2. \E f \in [1 .. n -> S] : IsInjective(f)
  BY <1>1 DEF ExistsBijection, Bijection, Injection
<1>3. q \in [1 .. n -> S] /\ IsInjective(q)
  BY <1>2 DEF SetToSeq
<1>4. q \in Injection(1 .. n, S)
  BY <1>3 DEF Injection
<1>5. IsFiniteSet(1 .. n) /\ Cardinality(1 .. n) = n
  BY <1>1, FS_Interval
<1> HIDE DEF q, n
<1>6. Cardinality(1 .. n) = Cardinality(S)
  BY <1>5 DEF n
<1>7. q \in Surjection(1 .. n, S)
  BY <1>4, <1>6, FS_Injection
<1>8. q \in Seq(S)
  BY <1>1, <1>3
<1>9. DOMAIN q = 1 .. n
  BY <1>3
<1>10. \A x \in S : \E i \in 1 .. n : q[i] = x
  BY <1>7 DEF Surjection
<1>11. \A i, j \in DOMAIN q : q[i] = q[j] => i = j
  BY <1>3 DEF IsInjective
<1> QED
  BY <1>8, <1>9, <1>10, <1>11 DEF q

Places(q, x) == {i \in DOMAIN q : q[i] = x}

LEMMA NoPlaces ==
  ASSUME NEW S, NEW q \in Seq(S), NEW x, x \notin S
  PROVE  Places(q, x) = {}
BY LenProperties DEF Places

LEMMA PlacesInASet ==
  ASSUME NEW S, IsFiniteSet(S), NEW x
  PROVE  /\ x \in S => \E j \in Nat : Places(SetToSeq(S), x) = {j}
         /\ x \notin S => Places(SetToSeq(S), x) = {}
<1> DEFINE q == SetToSeq(S)
<1>1. q \in Seq(S) /\ \A y \in S : \E i \in DOMAIN q : q[i] = y
  BY SetToSeqIs
<1>2. \A i, j \in DOMAIN q : q[i] = q[j] => i = j
  BY SetToSeqIs
<1> HIDE DEF q
<1>3. DOMAIN q \subseteq Nat
  BY <1>1, LenProperties
<1>4. x \notin S => Places(q, x) = {}
  BY <1>1, NoPlaces
<1>5. ASSUME x \in S PROVE \E j \in Nat : Places(q, x) = {j}
  <2>1. PICK i \in DOMAIN q : q[i] = x
    BY <1>1, <1>5
  <2>2. Places(q, x) = {i}
    BY <1>2, <2>1 DEF Places
  <2> QED
    BY <1>3, <2>1, <2>2
<1> QED
  BY <1>4, <1>5 DEF q

LEMMA PlacesAfter ==
  ASSUME NEW S, NEW p \in Seq(S), NEW T, NEW q \in Seq(T), NEW x, x \notin S
  PROVE  /\ \A j \in Nat : Places(q, x) = {j} => \E k \in Nat : Places(p \o q, x) = {k}
         /\ Places(q, x) = {} => Places(p \o q, x) = {}
<1> DEFINE a == Len(p)
           c == Len(q)
           r == p \o q
<1>1. a \in Nat /\ c \in Nat /\ DOMAIN q = 1 .. c
  BY LenProperties
<1>2. \A i \in 1 .. a : p[i] \in S
  BY ElementOfSeq
<1>3. p \in Seq(S \cup T) /\ q \in Seq(S \cup T)
  BY SeqMonotonic
<1>4. /\ r \in Seq(S \cup T) /\ Len(r) = a + c
      /\ \A i \in 1 .. a + c : r[i] = IF i <= a THEN p[i] ELSE q[i - a]
  BY <1>3, ConcatProperties
<1>5. DOMAIN r = 1 .. a + c
  BY <1>4, LenProperties
<1> HIDE DEF a, c, r
<1>6. \A i \in 1 .. a : r[i] = p[i]
  <2>1. \A i \in 1 .. a : i \in 1 .. a + c /\ i <= a
    BY <1>1
  <2> QED
    BY <1>4, <2>1
<1>7. \A i \in 1 .. c : a + i \in 1 .. a + c /\ r[a + i] = q[i]
  <2>1. \A i \in 1 .. c : a + i \in 1 .. a + c /\ ~(a + i <= a) /\ (a + i) - a = i
    BY <1>1
  <2> QED
    BY <1>4, <2>1
<1>8. \A i \in 1 .. a + c : i \in 1 .. a \/ (i - a \in 1 .. c /\ i = a + (i - a))
  BY <1>1
<1>9. \A i \in 1 .. a : r[i] # x
  BY <1>2, <1>6
<1>10. \A i \in Places(r, x) : i - a \in Places(q, x) /\ i = a + (i - a)
  BY <1>1, <1>5, <1>7, <1>8, <1>9 DEF Places
<1>11. \A i \in Places(q, x) : a + i \in Places(r, x)
  BY <1>1, <1>5, <1>7 DEF Places
<1>12. Places(q, x) = {} => Places(r, x) = {}
  BY <1>10
<1>13. ASSUME NEW j \in Nat, Places(q, x) = {j} PROVE \E k \in Nat : Places(r, x) = {k}
  <2>1. Places(r, x) = {a + j}
    BY <1>10, <1>11, <1>13
  <2>2. a + j \in Nat
    BY <1>1
  <2> QED
    BY <2>1, <2>2
<1> QED
  BY <1>12, <1>13 DEF r

LEMMA PlacesCounted ==
  ASSUME NEW q, NEW x
  PROVE  /\ \A j \in Nat : Places(q, x) = {j} => Cardinality({i \in DOMAIN q : q[i] = x}) = 1
         /\ Places(q, x) = {} => Cardinality({i \in DOMAIN q : q[i] = x}) = 0
BY FS_Singleton, FS_EmptySet DEF Places

-----------------------------------------------------------------------------
(* What becomes of an Event *)

EventsOK ==
  /\ now \in Time
  /\ event \in [Event -> Time \cup {Never, Gone}]
  /\ pod \in [Probe -> [created : Time \cup {Never}, readyAt : Time \cup {Never}]]
  /\ seeding \in {"before", "between", "done"}
  /\ held \in [Probe -> Time \cup {Never}]
  /\ dropped \subseteq Probe
  /\ told \in [Event -> 0 .. 1]

(* Nothing has been decided of e; e is held; e has been dropped. *)
Held(e) == e \in Probe /\ held[e] # Never
Undecided(e) == told[e] = 0 /\ ~Held(e) /\ e \notin dropped
OneFate(e) ==
  /\ told[e] = 1 => ~Held(e) /\ e \notin dropped
  /\ Held(e) => e \notin dropped
  /\ event[e] = Never => Undecided(e)
  /\ event[e] \in Time => ~Undecided(e)

(* Before the feed is seeded nothing is decided, and after each Event has one fate. *)
FatesOK ==
  /\ ~seeded => \A e \in Event : Undecided(e)
  /\ seeded => \A e \in Event : OneFate(e)

LEMMA TimeIs == Time \subseteq Nat /\ Never \notin Time /\ Gone \notin Time /\ Never # Gone
BY ArgusAssumption DEF Time, Never, Gone

LEMMA UntilNow == ASSUME now \in Time PROVE \A t \in 0 .. now : t \in Time
<1>1. MaxNow \in Nat
  BY ArgusAssumption
<1> QED
  BY <1>1 DEF Time

LEMMA FateIs ==
  ASSUME NEW p, NEW t, NEW h
  PROVE  Fate(p, t, h) \in {"publish", "drop", "hold"}
BY DEF Fate

LEMMA FirstFateIs ==
  ASSUME NEW e, NEW t
  PROVE  /\ FirstFate(e, t) \in {"publish", "drop", "hold"}
         /\ FirstFate(e, t) # "publish" => e \in Probe
BY FateIs DEF FirstFate

LEMMA NoticedFate ==
  ASSUME EventsOK, FatesOK, NEW e \in Event, NEW t \in Time, Noticed(e, t),
         event[e] = Never \/ e \in dropped,
         event' = [event EXCEPT ![e] = t], UNCHANGED <<now, pod, seeding>>
  PROVE  EventsOK' /\ FatesOK'
<1>1. seeded' <=> seeded
  BY DEF seeded
<1>2. /\ seeded => OneFate(e)
      /\ ~seeded => \A x \in Event : Undecided(x)
  BY DEF FatesOK
<1>3. told[e] = 0 /\ ~Held(e)
  BY <1>2, TimeIs DEF OneFate, Undecided, EventsOK
<1>4. CASE ~seeded
  <2>1. FirstFate(e, t) # "publish" \/ ~seeded
    BY <1>4
  <2>2. held' = held /\ dropped' = dropped \ {e} /\ told' = [told EXCEPT ![e] = 0]
    BY <1>4 DEF Noticed
  <2>3. \A x \in Event : Undecided(x)'
    BY <1>2, <1>4, <2>2 DEF Undecided, Held, EventsOK
  <2>4. FatesOK'
    BY <1>1, <1>4, <2>3 DEF FatesOK
  <2>5. EventsOK'
    BY <2>2 DEF EventsOK
  <2> QED
    BY <2>4, <2>5
<1>5. CASE seeded
  <2>1. e \in Event /\ Event = Warning \cup Probe
    BY DEF Event
  <2>2. CASE FirstFate(e, t) = "publish"
    <3>1. held' = held /\ dropped' = dropped \ {e} /\ told' = [told EXCEPT ![e] = 1]
      BY <1>5, <2>2 DEF Noticed
    <3>2. OneFate(e)'
      BY <1>3, <3>1, TimeIs DEF OneFate, Undecided, Held, EventsOK
    <3>3. \A x \in Event \ {e} : OneFate(x)'
      BY <1>5, <3>1 DEF OneFate, Undecided, Held, EventsOK, FatesOK
    <3>4. FatesOK'
      BY <1>1, <1>5, <3>2, <3>3 DEF FatesOK
    <3>5. EventsOK'
      BY <3>1 DEF EventsOK
    <3> QED
      BY <3>4, <3>5
  <2>3. CASE FirstFate(e, t) = "hold"
    <3>1. e \in Probe
      BY <2>3, FirstFateIs
    <3>2. held' = [held EXCEPT ![e] = t] /\ dropped' = dropped \ {e} /\ told' = [told EXCEPT ![e] = 0]
      BY <1>5, <2>3 DEF Noticed
    <3>3. OneFate(e)'
      BY <3>1, <3>2, TimeIs DEF OneFate, Undecided, Held, EventsOK
    <3>4. \A x \in Event \ {e} : OneFate(x)'
      BY <1>5, <3>2 DEF OneFate, Undecided, Held, EventsOK, FatesOK
    <3>5. FatesOK'
      BY <1>1, <1>5, <3>3, <3>4 DEF FatesOK
    <3>6. EventsOK'
      BY <3>1, <3>2 DEF EventsOK
    <3> QED
      BY <3>5, <3>6
  <2>4. CASE FirstFate(e, t) = "drop"
    <3>1. e \in Probe
      BY <2>4, FirstFateIs
    <3>2. held' = held /\ dropped' = dropped \cup {e} /\ told' = [told EXCEPT ![e] = 0]
      BY <1>5, <2>4 DEF Noticed
    <3>3. OneFate(e)'
      BY <1>3, <3>1, <3>2, TimeIs DEF OneFate, Undecided, Held, EventsOK
    <3>4. \A x \in Event \ {e} : OneFate(x)'
      BY <1>5, <3>2 DEF OneFate, Undecided, Held, EventsOK, FatesOK
    <3>5. FatesOK'
      BY <1>1, <1>5, <3>3, <3>4 DEF FatesOK
    <3>6. EventsOK'
      BY <3>1, <3>2 DEF EventsOK
    <3> QED
      BY <3>5, <3>6
  <2> QED
    BY <2>2, <2>3, <2>4, FirstFateIs
<1> QED
  BY <1>4, <1>5

LEMMA FatesUntouched ==
  ASSUME EventsOK, FatesOK,
         UNCHANGED <<now, event, pod, seeding, held, dropped, told>>
  PROVE  EventsOK' /\ FatesOK'
<1>1. EventsOK'
  BY DEF EventsOK
<1>2. FatesOK'
  BY DEF FatesOK, OneFate, Undecided, Held, seeded
<1> QED
  BY <1>1, <1>2

(* What is told of an Event as the notes go out. *)
LEMMA TellingIs ==
  ASSUME NEW q, NEW e \in Event, told[e] \in Nat
  PROVE  /\ \A j \in Nat : Places(q, e) = {j} => Telling(q)[e] = told[e] + 1
         /\ Places(q, e) = {} => Telling(q)[e] = told[e]
<1>1. Telling(q)[e] = told[e] + Cardinality({i \in DOMAIN q : q[i] = e})
  BY DEF Telling
<1> DEFINE n == Cardinality({i \in DOMAIN q : q[i] = e})
<1>2. /\ \A j \in Nat : Places(q, e) = {j} => n = 1
      /\ Places(q, e) = {} => n = 0
  BY PlacesCounted
<1> HIDE DEF n
<1>3. Telling(q)[e] = told[e] + n
  BY <1>1 DEF n
<1>4. n = 1 => Telling(q)[e] = told[e] + 1
  BY <1>3
<1>5. n = 0 => Telling(q)[e] = told[e]
  BY <1>3
<1> QED
  BY <1>2, <1>4, <1>5

LEMMA ClusterNotesAre == ClusterNotes \in Seq({"lost", "seen"})
<1>1. <<>> \in Seq({"lost", "seen"}) /\ <<"lost">> \in Seq({"lost", "seen"})
      /\ <<"seen">> \in Seq({"lost", "seen"})
  OBVIOUS
<1>2. ClusterNotes = <<>> \/ ClusterNotes = <<"lost">> \/ ClusterNotes = <<"seen">>
  BY DEF ClusterNotes
<1> QED
  BY <1>1, <1>2

LEMMA RecomputedFate ==
  ASSUME EventsOK, FatesOK, NEW next, next = seeding \/ (~seeded /\ next = "between"),
         Recomputing(next), UNCHANGED <<now, event, pod>>
  PROVE  EventsOK' /\ FatesOK'
<1> DEFINE changed == {s \in Subject : ~Same(apps[s], objects[s])}
           settled == IF seeded THEN SettledAs("publish") ELSE {}
<1>1. PICK noted \in SUBSET (IF seeded THEN changed ELSE {}) :
        told' = Telling(SetToSeq(noted) \o ClusterNotes \o SetToSeq(settled))
  BY DEF Recomputing
<1>2. /\ seeding' = next /\ held' = StillHeld
      /\ seeded => dropped' = dropped \cup SettledAs("drop")
      /\ ~seeded => dropped' = dropped
  BY DEF Recomputing
<1>3. noted \subseteq Subject /\ IsFiniteSet(noted)
  <2>1. noted \subseteq Subject
    BY <1>1
  <2>2. IsFiniteSet(Subject)
    BY ArgusAssumption
  <2> QED
    BY <2>1, <2>2, FS_Subset
<1>4. settled \subseteq Probe /\ IsFiniteSet(settled)
  <2>1. settled \subseteq Probe
    BY DEF SettledAs, Settled
  <2>2. IsFiniteSet(Probe)
    BY ArgusAssumption
  <2> QED
    BY <2>1, <2>2, FS_Subset
<1>5. ~seeded => settled = {}
  OBVIOUS
<1>6. seeded => settled = SettledAs("publish")
  OBVIOUS
<1> HIDE DEF settled, changed
<1>7. /\ SetToSeq(noted) \in Seq(Subject)
      /\ ClusterNotes \in Seq({"lost", "seen"})
      /\ SetToSeq(settled) \in Seq(settled)
  <2>1. SetToSeq(noted) \in Seq(noted)
    BY <1>3, SetToSeqIs
  <2>2. SetToSeq(noted) \in Seq(Subject)
    BY <1>3, <2>1, SeqMonotonic
  <2>3. ClusterNotes \in Seq({"lost", "seen"})
    BY ClusterNotesAre
  <2>4. SetToSeq(settled) \in Seq(settled)
    BY <1>4, SetToSeqIs
  <2> QED
    BY <2>2, <2>3, <2>4
<1> DEFINE front == SetToSeq(noted) \o ClusterNotes
           all == front \o SetToSeq(settled)
<1>8. front \in Seq(Subject \cup {"lost", "seen"})
  <2>1. /\ SetToSeq(noted) \in Seq(Subject \cup {"lost", "seen"})
        /\ ClusterNotes \in Seq(Subject \cup {"lost", "seen"})
    BY <1>7, SeqMonotonic
  <2> QED
    BY <2>1, ConcatProperties
<1>9. \A e \in Event : e \notin Subject \cup {"lost", "seen"}
  BY ArgusAssumption DEF Event
<1>10. told' = Telling(all)
  BY <1>1
<1> HIDE DEF front
<1>11. ASSUME NEW e \in Event
       PROVE  /\ e \in settled => told'[e] = told[e] + 1
              /\ e \notin settled => told'[e] = told[e]
  <2>1. told[e] \in Nat
    BY DEF EventsOK
  <2>2. /\ e \in settled => \E j \in Nat : Places(SetToSeq(settled), e) = {j}
        /\ e \notin settled => Places(SetToSeq(settled), e) = {}
    BY <1>4, PlacesInASet
  <2>3. /\ \A j \in Nat : Places(SetToSeq(settled), e) = {j} => \E k \in Nat : Places(all, e) = {k}
        /\ Places(SetToSeq(settled), e) = {} => Places(all, e) = {}
    BY <1>7, <1>8, <1>9, PlacesAfter
  <2> HIDE DEF all
  <2>4. /\ \A j \in Nat : Places(all, e) = {j} => Telling(all)[e] = told[e] + 1
        /\ Places(all, e) = {} => Telling(all)[e] = told[e]
    BY <2>1, TellingIs
  <2> QED
    BY <1>10, <2>2, <2>3, <2>4
<1>12. told' = [e \in Event |-> told'[e]]
  BY <1>10 DEF Telling
<1> HIDE DEF all
<1>13. ASSUME NEW p \in Probe
       PROVE  /\ ~(seeded /\ p \in Settled) => held'[p] = held[p]
              /\ seeded /\ p \in Settled => held'[p] = Never
  BY <1>2 DEF StillHeld
<1>14. held' \in [Probe -> Time \cup {Never}]
  BY <1>2 DEF StillHeld, EventsOK
<1>15. CASE ~seeded
  <2>1. \A e \in Event : Undecided(e)'
    BY <1>2, <1>5, <1>11, <1>13, <1>15 DEF FatesOK, Undecided, Held
  <2>2. ~seeded'
    BY <1>2, <1>15 DEF seeded
  <2>3. FatesOK'
    BY <2>1, <2>2 DEF FatesOK
  <2>4. told' \in [Event -> 0 .. 1]
    BY <1>12, <2>1 DEF Undecided
  <2>5. seeding' \in {"before", "between", "done"}
    BY <1>2 DEF EventsOK
  <2>6. dropped' \subseteq Probe
    BY <1>2, <1>15 DEF EventsOK
  <2>7. EventsOK'
    BY <1>14, <2>4, <2>5, <2>6 DEF EventsOK
  <2> QED
    BY <2>3, <2>7
<1>16. CASE seeded
  <2>1. seeding' = seeding /\ seeded'
    BY <1>2, <1>16 DEF seeded
  <2>2. ASSUME NEW e \in Event PROVE OneFate(e)'
    <3>1. OneFate(e)
      BY <1>16 DEF FatesOK
    <3>2. told[e] \in 0 .. 1 /\ event'[e] = event[e]
      BY DEF EventsOK
    <3>3. CASE e \in settled
      <4>1. e \in Probe /\ e \in Settled /\ held[e] # Never /\ e \notin SettledAs("drop")
        BY <1>6, <1>16, <3>3 DEF SettledAs, Settled
      <4>2. Held(e) /\ told[e] = 0 /\ e \notin dropped
        BY <3>1, <3>2, <4>1 DEF OneFate, Held
      <4>3. told'[e] = 1
        BY <1>11, <3>3, <4>2
      <4>4. held'[e] = Never /\ e \notin dropped'
        BY <1>2, <1>13, <1>16, <4>1, <4>2
      <4> QED
        BY <3>1, <3>2, <4>2, <4>3, <4>4 DEF OneFate, Undecided, Held
    <3>4. CASE e \in SettledAs("drop")
      <4>1. e \in Probe /\ e \in Settled /\ held[e] # Never /\ e \notin settled
        BY <1>6, <1>16, <3>4 DEF SettledAs, Settled
      <4>2. Held(e) /\ told[e] = 0
        BY <3>1, <3>2, <4>1 DEF OneFate, Held
      <4>3. told'[e] = 0
        BY <1>11, <4>1, <4>2
      <4>4. held'[e] = Never /\ e \in dropped'
        BY <1>2, <1>13, <1>16, <3>4, <4>1
      <4> QED
        BY <3>1, <3>2, <4>2, <4>3, <4>4 DEF OneFate, Undecided, Held
    <3>5. CASE e \notin settled /\ e \notin SettledAs("drop")
      <4>1. e \notin Settled
        BY <1>6, <1>16, <3>5, FateIs DEF SettledAs, Settled
      <4>2. told'[e] = told[e]
        BY <1>11, <3>5
      <4>3. e \in dropped' <=> e \in dropped
        BY <1>2, <1>16, <3>5
      <4>4. Held(e)' <=> Held(e)
        BY <1>13, <4>1 DEF Held
      <4> QED
        BY <3>1, <3>2, <4>2, <4>3, <4>4 DEF OneFate, Undecided
    <3> QED
      BY <3>3, <3>4, <3>5
  <2>3. ASSUME NEW e \in Event PROVE told'[e] \in 0 .. 1
    <3>1. e \in settled => told[e] = 0
      <4>1. e \in settled => Held(e)
        BY <1>6, <1>16 DEF SettledAs, Settled, Held
      <4>2. OneFate(e) /\ told[e] \in 0 .. 1
        BY <1>16 DEF FatesOK, EventsOK
      <4> QED
        BY <4>1, <4>2 DEF OneFate
    <3>2. told[e] \in 0 .. 1
      BY DEF EventsOK
    <3> QED
      BY <1>11, <3>1, <3>2
  <2>4. told' \in [Event -> 0 .. 1]
    BY <1>12, <2>3
  <2>5. dropped' \subseteq Probe
    BY <1>2, <1>16 DEF EventsOK, SettledAs, Settled
  <2>6. EventsOK'
    BY <1>14, <2>1, <2>4, <2>5 DEF EventsOK
  <2>7. FatesOK'
    BY <2>1, <2>2 DEF FatesOK
  <2> QED
    BY <2>6, <2>7
<1> QED
  BY <1>15, <1>16

LEMMA SeededFate ==
  ASSUME EventsOK, FatesOK, SeedEnds
  PROVE  EventsOK' /\ FatesOK'
<1> DEFINE known == {e \in Event : event[e] \in Time}
           fated(fate) == {e \in known : FirstFate(e, event[e]) = fate}
           news == {s \in Subject : There(apps[s])} \cup fated("publish")
<1>1. /\ seeding = "between" /\ seeding' = "done"
      /\ held' = [p \in Probe |-> IF p \in fated("hold") THEN event[p] ELSE held[p]]
      /\ dropped' = dropped \cup fated("drop")
      /\ told' = Telling(SetToSeq(news))
      /\ UNCHANGED <<now, event, pod>>
  <2>1. seeding = "between" /\ seeding' = "done"
    BY DEF SeedEnds
  <2>2. held' = [p \in Probe |-> IF p \in fated("hold") THEN event[p] ELSE held[p]]
    BY DEF SeedEnds
  <2>3. dropped' = dropped \cup fated("drop")
    BY DEF SeedEnds
  <2>4. told' = Telling(SetToSeq(news))
    BY DEF SeedEnds
  <2>5. UNCHANGED <<now, event, pod>>
    BY DEF SeedEnds, objectVars
  <2> QED
    BY <2>1, <2>2, <2>3, <2>4, <2>5
<1>2. IsFiniteSet(news)
  <2>1. news \subseteq Subject \cup (Warning \cup Probe)
    BY DEF Event
  <2>2. IsFiniteSet(Subject \cup (Warning \cup Probe))
    BY ArgusAssumption, FS_Union
  <2> QED
    BY <2>1, <2>2, FS_Subset
<1>3. \A e \in Event : e \in news <=> e \in fated("publish")
  BY ArgusAssumption DEF Event
<1> HIDE DEF news
<1>6. \A e \in Event : Undecided(e)
  BY <1>1 DEF FatesOK, seeded
<1>7. ASSUME NEW e \in Event
      PROVE  /\ e \in fated("publish") => told'[e] = 1
             /\ e \notin fated("publish") => told'[e] = 0
  <2>1. told[e] = 0 /\ told[e] \in Nat
    BY <1>6 DEF Undecided
  <2>2. /\ e \in news => \E j \in Nat : Places(SetToSeq(news), e) = {j}
        /\ e \notin news => Places(SetToSeq(news), e) = {}
    BY <1>2, PlacesInASet
  <2> DEFINE all == SetToSeq(news)
  <2>4. told' = Telling(all)
    BY <1>1
  <2> HIDE DEF all
  <2>5. /\ \A j \in Nat : Places(all, e) = {j} => Telling(all)[e] = told[e] + 1
        /\ Places(all, e) = {} => Telling(all)[e] = told[e]
    BY <2>1, TellingIs
  <2>6. /\ e \in news => Telling(all)[e] = told[e] + 1
        /\ e \notin news => Telling(all)[e] = told[e]
    BY <2>2, <2>5 DEF all
  <2> HIDE DEF fated
  <2> QED
    BY <1>3, <2>1, <2>4, <2>6
<1>8. told' = [e \in Event |-> told'[e]]
  BY <1>1 DEF Telling
<1>9. told' \in [Event -> 0 .. 1]
  BY <1>7, <1>8
<1>10. \A p \in Probe : p \in Event
  BY DEF Event
<1>11. \A e \in Event : ~Held(e) /\ e \notin dropped
  BY <1>6 DEF Undecided
<1>12. ASSUME NEW e \in Event
       PROVE  /\ Held(e)' <=> e \in fated("hold")
              /\ e \in dropped' <=> e \in fated("drop")
  <2>1. e \in dropped' <=> e \in fated("drop")
    BY <1>1, <1>11
  <2>2. e \in fated("hold") => e \in Probe /\ event[e] # Never
    BY FirstFateIs, TimeIs
  <2>3. Held(e)' <=> e \in fated("hold")
    BY <1>1, <1>11, <2>2 DEF Held
  <2> QED
    BY <2>1, <2>3
<1>13. ASSUME NEW e \in Event PROVE OneFate(e)'
  <2>1. event' = event
    BY <1>1
  <2>2. e \notin known => event[e] \notin Time
    OBVIOUS
  <2>3. event[e] = Never => e \notin known
    BY TimeIs
  <2>4. \A f \in {"publish", "drop", "hold"} :
          e \in fated(f) <=> e \in known /\ FirstFate(e, event[e]) = f
    OBVIOUS
  <2>5. FirstFate(e, event[e]) \in {"publish", "drop", "hold"}
    BY FirstFateIs
  <2> HIDE DEF fated, known
  <2> QED
    BY <1>7, <1>12, <2>1, <2>2, <2>3, <2>4, <2>5 DEF OneFate, Undecided
<1>14. held' \in [Probe -> Time \cup {Never}]
  BY <1>1 DEF EventsOK
<1>15. dropped' \subseteq Probe
  BY <1>1, FirstFateIs DEF EventsOK
<1> HIDE DEF fated, known
<1>16. EventsOK'
  BY <1>1, <1>9, <1>14, <1>15 DEF EventsOK
<1>17. FatesOK'
  BY <1>1, <1>13 DEF FatesOK, seeded
<1> QED
  BY <1>16, <1>17

LEMMA FatesStep ==
  ASSUME EventsOK, FatesOK, [ArgusNext]_argusVars
  PROVE  EventsOK' /\ FatesOK'
<1>1. ASSUME UNCHANGED argusVars PROVE EventsOK' /\ FatesOK'
  <2>1. UNCHANGED <<now, event, pod, seeding, held, dropped, told>>
    BY <1>1 DEF argusVars, objectVars, pictureVars
  <2> QED
    BY <2>1, FatesUntouched
<1>2. ASSUME NEW s \in Subject, Put(s) \/ Delete(s) PROVE EventsOK' /\ FatesOK'
  <2>1. UNCHANGED <<now, event, pod, seeding, held, dropped, told>>
    BY <1>2 DEF Put, Delete, pictureVars
  <2> QED
    BY <2>1, FatesUntouched
<1>3. ASSUME NEW e \in Event, PutNewEvent(e) PROVE EventsOK' /\ FatesOK'
  <2>1. PICK t \in 0 .. now : event' = [event EXCEPT ![e] = t] /\ Noticed(e, t)
    BY <1>3 DEF PutNewEvent
  <2>2. event[e] = Never /\ UNCHANGED <<now, pod, seeding>>
    BY <1>3 DEF PutNewEvent
  <2>3. t \in Time
    BY UntilNow DEF EventsOK
  <2> QED
    BY <2>1, <2>2, <2>3, NoticedFate
<1>4. ASSUME NEW e \in Event, UpdateEvent(e) PROVE EventsOK' /\ FatesOK'
  <2>1. PICK t \in event[e] + 1 .. now :
          /\ event' = [event EXCEPT ![e] = t]
          /\ \/ e \in dropped /\ Noticed(e, t)
             \/ e \notin dropped /\ UNCHANGED <<feed, stream, held, dropped, told>>
    BY <1>4 DEF UpdateEvent
  <2>2. event[e] \in Time /\ UNCHANGED <<now, pod, seeding>>
    BY <1>4 DEF UpdateEvent
  <2>3. t \in Time
    <3>1. now \in Time /\ event[e] \in Nat
      BY <2>2, TimeIs DEF EventsOK
    <3>2. t \in 0 .. now
      BY <3>1, TimeIs
    <3> QED
      BY <3>1, <3>2, UntilNow
  <2>4. CASE e \in dropped
    BY <2>1, <2>2, <2>3, <2>4, NoticedFate
  <2>5. CASE e \notin dropped
    <3>1. UNCHANGED <<held, dropped, told>>
      BY <2>1, <2>5
    <3>2. EventsOK'
      BY <2>1, <2>2, <2>3, <3>1 DEF EventsOK
    <3>3. event'[e] = t /\ \A x \in Event \ {e} : event'[x] = event[x]
      BY <2>1 DEF EventsOK
    <3>4. \A x \in Event : OneFate(x) => OneFate(x)'
      BY <2>2, <2>3, <3>1, <3>3, TimeIs DEF OneFate, Undecided, Held
    <3>5. \A x \in Event : Undecided(x) => Undecided(x)'
      BY <3>1 DEF Undecided, Held
    <3>6. FatesOK'
      BY <2>2, <3>4, <3>5 DEF FatesOK, seeded
    <3> QED
      BY <3>2, <3>6
  <2> QED
    BY <2>4, <2>5
<1>5. ASSUME NEW e \in Event, DeleteEvent(e) PROVE EventsOK' /\ FatesOK'
  <2>1. /\ event' = [event EXCEPT ![e] = Gone] /\ dropped' = dropped \ {e}
        /\ UNCHANGED <<now, pod, seeding, held, told>>
    BY <1>5 DEF DeleteEvent
  <2>2. EventsOK'
    BY <2>1 DEF EventsOK
  <2>3. event'[e] = Gone /\ \A x \in Event \ {e} : event'[x] = event[x]
    BY <2>1 DEF EventsOK
  <2>4. \A x \in Event : OneFate(x) => OneFate(x)'
    BY <2>1, <2>3, TimeIs DEF OneFate, Undecided, Held
  <2>5. \A x \in Event : Undecided(x) => Undecided(x)'
    BY <2>1 DEF Undecided, Held
  <2>6. FatesOK'
    BY <2>1, <2>4, <2>5 DEF FatesOK, seeded
  <2> QED
    BY <2>2, <2>6
<1>6. ASSUME NEW p \in Probe, PutPod(p) PROVE EventsOK' /\ FatesOK'
  <2>1. UNCHANGED <<now, event, seeding, held, dropped, told>>
    BY <1>6 DEF PutPod, pictureVars
  <2>2. pod' \in [Probe -> [created : Time \cup {Never}, readyAt : Time \cup {Never}]]
    <3>1. \A t \in 0 .. now : t \in Time
      BY UntilNow DEF EventsOK
    <3>2. NoPod \in [created : Time \cup {Never}, readyAt : Time \cup {Never}]
      BY DEF NoPod
    <3>3. ASSUME NEW t \in 0 .. now, pod' = [pod EXCEPT ![p] = [created |-> t, readyAt |-> Never]]
          PROVE  pod' \in [Probe -> [created : Time \cup {Never}, readyAt : Time \cup {Never}]]
      BY <3>1, <3>3 DEF EventsOK
    <3>4. ASSUME NEW t \in pod[p].created .. now, pod' = [pod EXCEPT ![p].readyAt = t]
          PROVE  pod' \in [Probe -> [created : Time \cup {Never}, readyAt : Time \cup {Never}]]
      <4>1. pod[p].created \in Time \cup {Never}
        BY DEF EventsOK
      <4>2. t \in Time \cup {Never}
        <5>1. now \in Nat /\ pod[p].created \in Nat \cup {-1}
          BY <4>1, TimeIs DEF EventsOK, Never
        <5>2. t \in 0 .. now \/ t = -1
          BY <5>1
        <5> QED
          BY <3>1, <5>2 DEF Never
      <4> QED
        BY <3>4, <4>2 DEF EventsOK
    <3>5. ASSUME pod' = [pod EXCEPT ![p].readyAt = Never]
          PROVE  pod' \in [Probe -> [created : Time \cup {Never}, readyAt : Time \cup {Never}]]
      BY <3>5 DEF EventsOK
    <3>6. ASSUME pod' = [pod EXCEPT ![p] = NoPod]
          PROVE  pod' \in [Probe -> [created : Time \cup {Never}, readyAt : Time \cup {Never}]]
      BY <3>2, <3>6 DEF EventsOK
    <3> QED
      BY <1>6, <3>3, <3>4, <3>5, <3>6 DEF PutPod
  <2>3. EventsOK'
    BY <2>1, <2>2 DEF EventsOK
  <2>4. FatesOK'
    BY <2>1 DEF FatesOK, OneFate, Undecided, Held, seeded
  <2> QED
    BY <2>3, <2>4
<1>7. ASSUME SetReachable PROVE EventsOK' /\ FatesOK'
  <2>1. UNCHANGED <<now, event, pod, seeding, held, dropped, told>>
    BY <1>7 DEF SetReachable, pictureVars
  <2> QED
    BY <2>1, FatesUntouched
<1>8. ASSUME Tick PROVE EventsOK' /\ FatesOK'
  <2>1. now < MaxNow /\ now' = now + 1 /\ UNCHANGED <<event, pod, seeding, held, dropped, told>>
    BY <1>8 DEF Tick, objectVars, pictureVars
  <2>2. now' \in Time
    BY <2>1, ArgusAssumption DEF EventsOK, Time
  <2>3. EventsOK'
    BY <2>1, <2>2 DEF EventsOK
  <2>4. FatesOK'
    BY <2>1 DEF FatesOK, OneFate, Undecided, Held, seeded
  <2> QED
    BY <2>3, <2>4
<1>9. ASSUME Recompute PROVE EventsOK' /\ FatesOK'
  <2>1. Recomputing(seeding) /\ UNCHANGED <<now, event, pod>>
    BY <1>9 DEF Recompute, objectVars
  <2> QED
    BY <2>1, RecomputedFate
<1>10. ASSUME SeedBegins PROVE EventsOK' /\ FatesOK'
  <2>1. Recomputing("between") /\ ~seeded /\ UNCHANGED <<now, event, pod>>
    BY <1>10 DEF SeedBegins, objectVars, seeded
  <2> QED
    BY <2>1, RecomputedFate
<1>11. ASSUME SeedEnds PROVE EventsOK' /\ FatesOK'
  BY <1>11, SeededFate
<1>12. ASSUME NEW b \in Browser, Subscribe(b) \/ Deliver(b) \/ StreamEnds(b) \/ Break(b)
       PROVE  EventsOK' /\ FatesOK'
  <2>1. UNCHANGED <<now, event, pod, seeding, held, dropped, told>>
    BY <1>12 DEF Subscribe, Deliver, StreamEnds, Break, objectVars, pictureVars
  <2> QED
    BY <2>1, FatesUntouched
<1>13. ASSUME Restart PROVE EventsOK' /\ FatesOK'
  <2>1. /\ event' = [e \in Event |-> Never] /\ told' = [e \in Event |-> 0]
        /\ pod' = [p \in Probe |-> NoPod] /\ seeding' = "before"
        /\ held' = NothingHeld /\ dropped' = {} /\ now' = now
    BY <1>13 DEF Restart
  <2>2. EventsOK'
    BY <2>1 DEF EventsOK, NothingHeld, NoPod
  <2>3. \A e \in Event : Undecided(e)'
    BY <2>1 DEF Undecided, Held, NothingHeld
  <2>4. FatesOK'
    BY <2>1, <2>3 DEF FatesOK, seeded
  <2> QED
    BY <2>2, <2>4
<1> QED
  BY <1>1, <1>2, <1>3, <1>4, <1>5, <1>6, <1>7, <1>8, <1>9, <1>10, <1>11, <1>12, <1>13
     DEF ArgusNext

LEMMA FatesInit == ArgusInit => EventsOK /\ FatesOK
<1> SUFFICES ASSUME ArgusInit PROVE EventsOK /\ FatesOK
  OBVIOUS
<1>1. EventsOK
  BY ArgusAssumption DEF ArgusInit, EventsOK, NothingHeld, NoPod, Time
<1>2. \A e \in Event : Undecided(e)
  BY DEF ArgusInit, Undecided, Held, NothingHeld
<1>3. FatesOK
  BY <1>2 DEF ArgusInit, FatesOK, seeded
<1> QED
  BY <1>1, <1>3

LEMMA FatesAlways == ArgusSpec => [](EventsOK /\ FatesOK)
<1>1. (EventsOK /\ FatesOK) /\ [ArgusNext]_argusVars => (EventsOK /\ FatesOK)'
  BY FatesStep
<1> QED
  BY FatesInit, <1>1, PTL DEF ArgusSpec

(* Once the feed is seeded every Event the store holds is told once, or, a failed
   probe, held or dropped instead: Seed, the informers and the loop (seed.go, store.go) may come
   in any order, and none tells again what another told nor leaves it to another that
   does not. *)
THEOREM EveryEventIsToldOnce == ArgusSpec => []EveryEventHasOneFate
<1>1. EventsOK /\ FatesOK => EveryEventHasOneFate
  <2> SUFFICES ASSUME EventsOK, FatesOK, seeded, NEW e \in Event, event[e] \in Time
               PROVE  IF e \in Warning THEN told[e] = 1
                      ELSE told[e] + (IF held[e] # Never THEN 1 ELSE 0)
                             + (IF e \in dropped THEN 1 ELSE 0) = 1
    BY DEF EveryEventHasOneFate
  <2>1. OneFate(e) /\ told[e] \in 0 .. 1 /\ dropped \subseteq Probe
    BY DEF FatesOK, EventsOK
  <2>2. CASE e \in Warning
    <3>1. ~Held(e) /\ e \notin dropped
      BY <2>1, <2>2, ArgusAssumption DEF Held
    <3>2. told[e] = 1
      BY <2>1, <3>1 DEF OneFate, Undecided
    <3> QED
      BY <2>2, <3>2
  <2>3. CASE e \notin Warning
    <3>1. e \in Probe
      BY <2>3 DEF Event
    <3>2. Held(e) <=> held[e] # Never
      BY <3>1 DEF Held
    <3>3. CASE told[e] = 1
      <4>1. ~(held[e] # Never) /\ e \notin dropped
        BY <2>1, <3>2, <3>3 DEF OneFate
      <4> QED
        BY <2>3, <3>3, <4>1
    <3>4. CASE told[e] = 0 /\ held[e] # Never
      <4>1. e \notin dropped
        BY <2>1, <3>2, <3>4 DEF OneFate
      <4> QED
        BY <2>3, <3>4, <4>1
    <3>5. CASE told[e] = 0 /\ ~(held[e] # Never)
      <4>1. e \in dropped
        BY <2>1, <3>2, <3>5 DEF OneFate, Undecided
      <4> QED
        BY <2>3, <3>5, <4>1
    <3> QED
      BY <2>1, <3>3, <3>4, <3>5
  <2> QED
    BY <2>2, <2>3
<1> QED
  BY <1>1, FatesAlways, PTL

-----------------------------------------------------------------------------
(* Notes *)

View == {p \in Picture : Len(p.notes) <= FeedSize}
Msg == {m \in Message : m.type = "snapshot" => m.picture \in View}

LEMMA BoundsAre ==
  /\ ClientBuffer \in Nat /\ FeedSize \in Nat /\ FeedSize >= 1
  /\ MaxChanges \in Nat /\ MaxNow \in Nat /\ WatchLostAfter \in Nat
BY ArgusAssumption

LEMMA TrimmedIs ==
  ASSUME NEW S, NEW x \in Seq(S)
  PROVE  /\ Trimmed(x) \in Seq(S) /\ Len(Trimmed(x)) <= FeedSize
         /\ Len(x) <= FeedSize => Trimmed(x) = x
         /\ Len(x) > FeedSize =>
              /\ Len(Trimmed(x)) = FeedSize
              /\ \A i \in 1 .. FeedSize : Trimmed(x)[i] = x[Len(x) - FeedSize + i]
<1> DEFINE n == Len(x)
           F == FeedSize
           t == SubSeq(x, n - F + 1, n)
<1>1. n \in Nat /\ F \in Nat /\ F >= 1
  BY LenProperties, BoundsAre
<1>2. CASE n <= F
  <2>1. Trimmed(x) = x
    BY <1>2 DEF Trimmed
  <2> QED
    BY <1>1, <1>2, <2>1
<1>3. CASE n > F
  <2>1. Trimmed(x) = t
    BY <1>1, <1>3 DEF Trimmed
  <2>2. \A i \in n - F + 1 .. n : x[i] \in S
    <3>1. \A i \in n - F + 1 .. n : i \in 1 .. n
      BY <1>1, <1>3
    <3> QED
      BY <3>1, ElementOfSeq
  <2>3. n - F + 1 \in Int /\ n \in Int
    BY <1>1
  <2> DEFINE m == n - F + 1
  <2>4. /\ t \in Seq(S) /\ Len(t) = IF m <= n THEN n - m + 1 ELSE 0
        /\ \A i \in 1 .. n - m + 1 : t[i] = x[m + i - 1]
    BY <2>2, <2>3, SubSeqProperties
  <2>5. m <= n /\ n - m + 1 = F /\ \A i \in 1 .. F : m + i - 1 = n - F + i
    BY <1>1, <1>3
  <2> HIDE DEF t, m
  <2>6. Len(t) = F /\ \A i \in 1 .. F : t[i] = x[n - F + i]
    BY <2>4, <2>5
  <2> HIDE DEF n, F
  <2>7. Len(Trimmed(x)) = F /\ \A i \in 1 .. F : Trimmed(x)[i] = x[n - F + i]
    BY <2>1, <2>6
  <2>8. Trimmed(x) \in Seq(S) /\ Len(Trimmed(x)) <= F
    BY <1>1, <2>1, <2>4, <2>7
  <2>9. ~(n <= F)
    BY <1>1, <1>3
  <2> QED
    BY <2>7, <2>8, <2>9 DEF n, F
<1> QED
  BY <1>1, <1>2, <1>3

(* To trim as each note comes is to trim when all have come. *)
LEMMA TrimmedAppend ==
  ASSUME NEW S, NEW x \in Seq(S), NEW e \in S
  PROVE  Trimmed(Append(Trimmed(x), e)) = Trimmed(Append(x, e))
<1> DEFINE n == Len(x)
           F == FeedSize
           t == Trimmed(x)
           y == Append(x, e)
           z == Append(t, e)
<1>1. n \in Nat /\ F \in Nat /\ F >= 1
  BY LenProperties, BoundsAre
<1>2. CASE n <= F
  BY <1>2, TrimmedIs
<1>3. CASE n > F
  <2>1. t \in Seq(S) /\ Len(t) = F /\ \A i \in 1 .. F : t[i] = x[n - F + i]
    BY <1>3, TrimmedIs
  <2>2. /\ y \in Seq(S) /\ Len(y) = n + 1
        /\ \A i \in 1 .. n : y[i] = x[i]
        /\ y[n + 1] = e
    BY AppendProperties
  <2> HIDE DEF t
  <2>3. /\ z \in Seq(S) /\ Len(z) = F + 1
        /\ \A i \in 1 .. F : z[i] = t[i]
        /\ z[F + 1] = e
    BY <2>1, AppendProperties
  <2> HIDE DEF y, z, F, n
  <2>4. n + 1 > F /\ F + 1 > F
    BY <1>1, <1>3
  <2>5. /\ Trimmed(y) \in Seq(S) /\ Len(Trimmed(y)) = F
        /\ \A i \in 1 .. F : Trimmed(y)[i] = y[(n + 1) - F + i]
    BY <2>2, <2>4, TrimmedIs DEF F
  <2>6. /\ Trimmed(z) \in Seq(S) /\ Len(Trimmed(z)) = F
        /\ \A i \in 1 .. F : Trimmed(z)[i] = z[(F + 1) - F + i]
    <3>1. Len(z) > FeedSize
      BY <2>3, <2>4 DEF F
    <3>2. /\ Trimmed(z) \in Seq(S) /\ Len(Trimmed(z)) = FeedSize
          /\ \A i \in 1 .. FeedSize : Trimmed(z)[i] = z[Len(z) - FeedSize + i]
      BY <2>3, <3>1, TrimmedIs
    <3>3. Len(z) = F + 1
      BY <2>3
    <3> QED
      BY <3>2, <3>3 DEF F
  <2>7. ASSUME NEW i \in 1 .. F PROVE Trimmed(z)[i] = Trimmed(y)[i]
    <3>1. CASE i = F
      <4>1. (F + 1) - F + i = F + 1 /\ (n + 1) - F + i = n + 1
        BY <1>1, <3>1
      <4> QED
        BY <2>2, <2>3, <2>5, <2>6, <4>1
    <3>2. CASE i # F
      <4>1. /\ (F + 1) - F + i \in 1 .. F /\ (n + 1) - F + i \in 1 .. n
            /\ n - F + ((F + 1) - F + i) = (n + 1) - F + i
        BY <1>1, <1>3, <3>2
      <4> DEFINE a == (F + 1) - F + i
                 c == (n + 1) - F + i
      <4> HIDE DEF a, c
      <4>2. a \in 1 .. F /\ c \in 1 .. n /\ n - F + a = c
        BY <4>1 DEF a, c
      <4>3. Trimmed(z)[i] = z[a] /\ Trimmed(y)[i] = y[c]
        BY <2>5, <2>6 DEF a, c
      <4>4. z[a] = t[a] /\ t[a] = x[n - F + a] /\ y[c] = x[c]
        BY <2>1, <2>2, <2>3, <4>2 DEF F, n
      <4> QED
        BY <4>2, <4>3, <4>4
    <3> QED
      BY <3>1, <3>2
  <2>8. Trimmed(z) = Trimmed(y)
    <3>1. Len(Trimmed(z)) = Len(Trimmed(y)) /\ \A i \in 1 .. Len(Trimmed(z)) : Trimmed(z)[i] = Trimmed(y)[i]
      BY <2>5, <2>6, <2>7
    <3> QED
      BY <2>5, <2>6, <3>1, SeqEqual
  <2> QED
    BY <2>8 DEF y, z, t
<1> QED
  BY <1>1, <1>2, <1>3

-----------------------------------------------------------------------------
(* What messages make of a view *)

LEMMA ReplayedIs ==
  ASSUME NEW v, NEW m
  PROVE  /\ m.type = "snapshot" => Replayed(v, m) = m.picture
         /\ m.type = "subject" => Replayed(v, m) = [v EXCEPT !.apps[m.name] = m.version]
         /\ m.type = "cluster" => Replayed(v, m) = [v EXCEPT !.cluster = m.state]
         /\ m.type = "note" => Replayed(v, m) = [v EXCEPT !.notes = Trimmed(Append(@, m.note))]
BY DEF Replayed

LEMMA MsgIs ==
  ASSUME NEW m \in Msg
  PROVE  /\ m.type \in {"snapshot", "subject", "cluster", "note"}
         /\ m.type = "snapshot" => m.picture \in View
         /\ m.type = "subject" => m.name \in Subject /\ m.version \in Version
         /\ m.type = "cluster" => m.state \in Connection
         /\ m.type = "note" => m.note \in Note
BY DEF Msg, Message

LEMMA ReplayedView ==
  ASSUME NEW v \in View, NEW m \in Msg
  PROVE  Replayed(v, m) \in View
<1>1. v \in Picture /\ Len(v.notes) <= FeedSize
  BY DEF View
<1>2. CASE m.type = "snapshot"
  BY <1>2, ReplayedIs, MsgIs
<1>3. CASE m.type = "subject"
  <2>1. m.name \in Subject /\ m.version \in Version
    BY <1>3, MsgIs
  <2>2. Replayed(v, m) = [v EXCEPT !.apps[m.name] = m.version]
    BY <1>3, ReplayedIs
  <2>3. [v EXCEPT !.apps[m.name] = m.version] \in Picture
    BY <1>1, <2>1 DEF Picture
  <2>4. [v EXCEPT !.apps[m.name] = m.version].notes = v.notes
    BY <1>1 DEF Picture
  <2> QED
    BY <1>1, <2>2, <2>3, <2>4 DEF View
<1>4. CASE m.type = "cluster"
  <2>1. m.state \in Connection
    BY <1>4, MsgIs
  <2>2. Replayed(v, m) = [v EXCEPT !.cluster = m.state]
    BY <1>4, ReplayedIs
  <2>3. [v EXCEPT !.cluster = m.state] \in Picture
    BY <1>1, <2>1 DEF Picture
  <2>4. [v EXCEPT !.cluster = m.state].notes = v.notes
    BY <1>1 DEF Picture
  <2> QED
    BY <1>1, <2>2, <2>3, <2>4 DEF View
<1>5. CASE m.type = "note"
  <2>1. m.note \in Note /\ v.notes \in Seq(Note)
    BY <1>1, <1>5, MsgIs DEF Picture
  <2> DEFINE t == Trimmed(Append(v.notes, m.note))
  <2>2. t \in Seq(Note) /\ Len(t) <= FeedSize
    BY <2>1, AppendProperties, TrimmedIs
  <2>3. Replayed(v, m) = [v EXCEPT !.notes = t]
    BY <1>5, ReplayedIs
  <2> HIDE DEF t
  <2>4. [v EXCEPT !.notes = t] \in Picture
    BY <1>1, <2>2 DEF Picture
  <2>5. [v EXCEPT !.notes = t].notes = t
    BY <1>1 DEF Picture
  <2> QED
    BY <2>2, <2>3, <2>4, <2>5 DEF View
<1> QED
  BY <1>2, <1>3, <1>4, <1>5, MsgIs

Shown(a, c, n, r) == [apps |-> a, cluster |-> c, notes |-> n, restartedAt |-> r]

LEMMA ShownIs ==
  ASSUME NEW w \in Picture
  PROVE  /\ w = Shown(w.apps, w.cluster, w.notes, w.restartedAt)
         /\ w.apps \in [Subject -> Version] /\ w.cluster \in Connection
         /\ w.notes \in Seq(Note) /\ w.restartedAt \in 0 .. MaxChanges
BY DEF Picture, Shown

LEMMA SubjectShown ==
  ASSUME NEW a, NEW c, NEW n, NEW r, NEW m, m.type = "subject"
  PROVE  Replayed(Shown(a, c, n, r), m) = Shown([a EXCEPT ![m.name] = m.version], c, n, r)
<1> DEFINE w == Shown(a, c, n, r)
<1>1. [w EXCEPT !.apps[m.name] = m.version] = Shown([a EXCEPT ![m.name] = m.version], c, n, r)
  BY DEF Shown
<1> HIDE DEF w
<1> QED
  BY <1>1, ReplayedIs DEF w

LEMMA ClusterShown ==
  ASSUME NEW a, NEW c, NEW n, NEW r, NEW m, m.type = "cluster"
  PROVE  Replayed(Shown(a, c, n, r), m) = Shown(a, m.state, n, r)
<1> DEFINE w == Shown(a, c, n, r)
<1>1. [w EXCEPT !.cluster = m.state] = Shown(a, m.state, n, r)
  BY DEF Shown
<1> HIDE DEF w
<1> QED
  BY <1>1, ReplayedIs DEF w

LEMMA NoteShown ==
  ASSUME NEW a, NEW c, NEW n, NEW r, NEW m, m.type = "note"
  PROVE  Replayed(Shown(a, c, n, r), m) = Shown(a, c, Trimmed(Append(n, m.note)), r)
<1> DEFINE w == Shown(a, c, n, r)
<1>1. [w EXCEPT !.notes = Trimmed(Append(@, m.note))] = Shown(a, c, Trimmed(Append(n, m.note)), r)
  BY DEF Shown
<1> HIDE DEF w
<1> QED
  BY <1>1, ReplayedIs DEF w

Updated(a, order, objs) ==
  [s \in Subject |-> IF \E j \in DOMAIN order : order[j] = s THEN objs[s] ELSE a[s]]

LEMMA FoldSubjects ==
  ASSUME NEW a, DOMAIN a = Subject, a = [s \in Subject |-> a[s]], NEW c, NEW n, NEW r,
         NEW order \in Seq(Subject), NEW objs, NEW q, DOMAIN q = DOMAIN order,
         \A i \in DOMAIN order :
           q[i].type = "subject" /\ q[i].name = order[i] /\ q[i].version = objs[order[i]]
  PROVE  Fold(Shown(a, c, n, r), q) = Shown(Updated(a, order, objs), c, n, r)
<1> DEFINE k == Len(order)
           W(i) == [s \in Subject |-> IF \E j \in 1 .. i : order[j] = s THEN objs[s] ELSE a[s]]
           G == [i \in 0 .. k |-> Shown(W(i), c, n, r)]
<1>1. k \in Nat /\ DOMAIN order = 1 .. k /\ \A i \in 1 .. k : order[i] \in Subject
  BY LenProperties, ElementOfSeq
<1> HIDE DEF k
<1>2. W(0) = a
  <2>1. \A s \in Subject : W(0)[s] = a[s]
    OBVIOUS
  <2> QED
    BY <2>1
<1>3. G[0] = Shown(a, c, n, r) /\ G[k] = Shown(W(k), c, n, r)
  BY <1>1, <1>2
<1>4. ASSUME NEW i \in 1 .. k PROVE G[i] = Replayed(G[i - 1], q[i])
  <2>1. i \in 0 .. k /\ i - 1 \in 0 .. k
    BY <1>1
  <2>2. G[i] = Shown(W(i), c, n, r) /\ G[i - 1] = Shown(W(i - 1), c, n, r)
    BY <2>1
  <2>3. q[i].type = "subject" /\ q[i].name = order[i] /\ q[i].version = objs[order[i]]
    BY <1>1
  <2>4. W(i) = [W(i - 1) EXCEPT ![order[i]] = objs[order[i]]]
    <3>1. order[i] \in Subject
      BY <1>1
    <3>2. \A j \in 1 .. i : j \in 1 .. i - 1 \/ j = i
      BY <1>1
    <3>3. \A j \in 1 .. i - 1 : j \in 1 .. i
      BY <1>1
    <3>4. i \in 1 .. i
      BY <1>1
    <3>5. ASSUME NEW s \in Subject, s # order[i] PROVE W(i)[s] = W(i - 1)[s]
      <4>1. (\E j \in 1 .. i : order[j] = s) <=> (\E j \in 1 .. i - 1 : order[j] = s)
        BY <3>2, <3>3, <3>5
      <4> QED
        BY <4>1
    <3>6. W(i)[order[i]] = objs[order[i]]
      BY <3>1, <3>4
    <3>7. DOMAIN W(i) = Subject /\ DOMAIN W(i - 1) = Subject /\ W(i) = [s \in Subject |-> W(i)[s]]
      OBVIOUS
    <3> HIDE DEF W
    <3> QED
      BY <3>1, <3>5, <3>6, <3>7
  <2> HIDE DEF W, G
  <2>5. Replayed(Shown(W(i - 1), c, n, r), q[i])
          = Shown([W(i - 1) EXCEPT ![q[i].name] = q[i].version], c, n, r)
    BY <2>3, SubjectShown
  <2> QED
    BY <2>2, <2>3, <2>4, <2>5
<1> HIDE DEF G
<1>5. Goes(Shown(a, c, n, r), k, q, G)
  BY <1>3, <1>4 DEF Goes
<1>6. DOMAIN q = 1 .. k
  BY <1>1
<1>7. Fold(Shown(a, c, n, r), q) = G[k]
  BY <1>1, <1>5, <1>6, FoldIs
<1>8. W(k) = Updated(a, order, objs)
  BY <1>1 DEF Updated
<1> HIDE DEF W
<1> QED
  BY <1>3, <1>7, <1>8

LEMMA FoldNotes ==
  ASSUME NEW a, NEW c, NEW n \in Seq(Note), Len(n) <= FeedSize, NEW r,
         NEW N \in Seq(Note), NEW q, DOMAIN q = DOMAIN N,
         \A i \in DOMAIN N : q[i].type = "note" /\ q[i].note = N[i]
  PROVE  Fold(Shown(a, c, n, r), q) = Shown(a, c, Trimmed(n \o N), r)
<1> DEFINE k == Len(N)
           P == [i \in 0 .. k |-> n \o SubSeq(N, 1, i)]
           G == [i \in 0 .. k |-> Shown(a, c, Trimmed(P[i]), r)]
<1>1. k \in Nat /\ DOMAIN N = 1 .. k /\ \A i \in 1 .. k : N[i] \in Note
  BY LenProperties, ElementOfSeq
<1>2. SubSeq(N, 1, 0) = <<>> /\ SubSeq(N, 1, k) = N
  BY SubSeqEmpty, SubSeqFull
<1>3. Trimmed(P[0]) = n
  <2>1. P[0] = n
    BY <1>1, <1>2, ConcatEmptySeq
  <2> QED
    BY <2>1, TrimmedIs
<1>4. P[k] = n \o N
  BY <1>1, <1>2
<1> HIDE DEF k
<1>5. ASSUME NEW i \in 0 .. k PROVE SubSeq(N, 1, i) \in Seq(Note)
  <2>1. \A j \in 1 .. i : N[j] \in Note
    BY <1>1
  <2>2. i \in Int
    OBVIOUS
  <2> QED
    BY <2>1, <2>2, SubSeqProperties
<1>6. ASSUME NEW i \in 1 .. k PROVE P[i] = Append(P[i - 1], N[i])
  <2>1. i \in 0 .. k /\ i - 1 \in 0 .. k /\ N[i] \in Note
    BY <1>1
  <2>2. i \in 1 .. Len(N) /\ 1 \in 1 .. Len(N) /\ i \in 1 .. Len(N)
    BY <1>1 DEF k
  <2>3. SubSeq(N, 1, i) = SubSeq(N, 1, i - 1) \o <<N[i]>>
    BY <2>2, SubSeqRecursiveSecond
  <2>4. SubSeq(N, 1, i - 1) \in Seq(Note) /\ <<N[i]>> \in Seq(Note)
    BY <1>5, <2>1
  <2>5. n \o (SubSeq(N, 1, i - 1) \o <<N[i]>>) = (n \o SubSeq(N, 1, i - 1)) \o <<N[i]>>
    <3> DEFINE A == SubSeq(N, 1, i - 1)
               B == <<N[i]>>
    <3>1. A \in Seq(Note) /\ B \in Seq(Note)
      BY <2>4
    <3> HIDE DEF A, B, P, G
    <3>2. n \o (A \o B) = (n \o A) \o B
      BY <3>1, ConcatAssociative
    <3> QED
      BY <3>2 DEF A, B
  <2>6. n \o SubSeq(N, 1, i - 1) \in Seq(Note)
    BY <2>4, ConcatProperties
  <2>7. (n \o SubSeq(N, 1, i - 1)) \o <<N[i]>> = Append(n \o SubSeq(N, 1, i - 1), N[i])
    BY <2>1, <2>6, AppendIsConcat
  <2>8. P[i] = n \o SubSeq(N, 1, i) /\ P[i - 1] = n \o SubSeq(N, 1, i - 1)
    BY <2>1
  <2> HIDE DEF P
  <2> QED
    BY <2>3, <2>5, <2>7, <2>8
<1>7. ASSUME NEW i \in 0 .. k PROVE P[i] \in Seq(Note)
  <2>1. SubSeq(N, 1, i) \in Seq(Note)
    BY <1>5
  <2>2. n \o SubSeq(N, 1, i) \in Seq(Note)
    BY <2>1, ConcatProperties
  <2> QED
    BY <2>2
<1> HIDE DEF P
<1>8. G[0] = Shown(a, c, n, r) /\ G[k] = Shown(a, c, Trimmed(n \o N), r)
  <2>1. 0 \in 0 .. k /\ k \in 0 .. k
    BY <1>1
  <2>2. G[0] = Shown(a, c, Trimmed(P[0]), r) /\ G[k] = Shown(a, c, Trimmed(P[k]), r)
    BY <2>1
  <2> HIDE DEF G
  <2> QED
    BY <1>3, <1>4, <2>2, Zenon
<1>9. ASSUME NEW i \in 1 .. k PROVE G[i] = Replayed(G[i - 1], q[i])
  <2>1. i \in 0 .. k /\ i - 1 \in 0 .. k /\ N[i] \in Note
    BY <1>1
  <2>2. G[i] = Shown(a, c, Trimmed(P[i]), r) /\ G[i - 1] = Shown(a, c, Trimmed(P[i - 1]), r)
    BY <2>1
  <2>3. q[i].type = "note" /\ q[i].note = N[i]
    BY <1>1
  <2> HIDE DEF G
  <2>6. P[i - 1] \in Seq(Note) /\ P[i] = Append(P[i - 1], N[i])
    BY <1>6, <1>7, <2>1
  <2>4. Trimmed(Append(Trimmed(P[i - 1]), N[i])) = Trimmed(P[i])
    BY <2>1, <2>6, TrimmedAppend
  <2> DEFINE x == Trimmed(P[i - 1])
             m == q[i]
  <2>7. m.type = "note"
    BY <2>3
  <2> HIDE DEF x, m
  <2>8. Replayed(Shown(a, c, x, r), m) = Shown(a, c, Trimmed(Append(x, m.note)), r)
    BY <2>7, NoteShown
  <2>5. Replayed(Shown(a, c, Trimmed(P[i - 1]), r), q[i])
          = Shown(a, c, Trimmed(Append(Trimmed(P[i - 1]), q[i].note)), r)
    BY <2>8 DEF x, m
  <2> QED
    BY <2>2, <2>3, <2>4, <2>5
<1> HIDE DEF G
<1>10. Goes(Shown(a, c, n, r), k, q, G)
  BY <1>8, <1>9 DEF Goes
<1>11. DOMAIN q = 1 .. k
  BY <1>1
<1>12. Fold(Shown(a, c, n, r), q) = G[k]
  BY <1>1, <1>10, <1>11, FoldIs
<1> QED
  BY <1>8, <1>12

LEMMA FoldOne ==
  ASSUME NEW v, NEW S, NEW m \in S
  PROVE  Fold(v, <<m>>) = Replayed(v, m)
<1>1. <<m>> \in Seq(S) /\ <<m>> # <<>> /\ Head(<<m>>) = m /\ Tail(<<m>>) = <<>>
  OBVIOUS
<1>2. Fold(v, <<m>>) = Fold(Replayed(v, m), <<>>)
  BY <1>1, FoldHead
<1> QED
  BY <1>2, FoldNone

-----------------------------------------------------------------------------
(* Sending *)

Link == [state : {"none", "open", "closed"}, queue : Seq(Msg)]

(* Frames of what changes: no snapshot among them. *)
Frames(f) == f \in Seq(Msg) /\ \A i \in 1 .. Len(f) : f[i].type # "snapshot"

LEMMA RoomIs ==
  ASSUME NEW q
  PROVE  /\ q # <<>> /\ Head(q).type = "snapshot" => Room(q) = ClientBuffer - (Len(q) - 1)
         /\ ~(q # <<>> /\ Head(q).type = "snapshot") => Room(q) = ClientBuffer - Len(q)
BY DEF Room

LEMMA RoomAfter ==
  ASSUME NEW q \in Seq(Msg), NEW f, Frames(f)
  PROVE  /\ q \o f \in Seq(Msg)
         /\ Room(q \o f) = Room(q) - Len(f)
<1> DEFINE r == q \o f
           a == Len(q)
           c == Len(f)
<1>1. f \in Seq(Msg) /\ \A i \in 1 .. Len(f) : f[i].type # "snapshot"
  BY DEF Frames
<1>2. a \in Nat /\ c \in Nat
  BY <1>1, LenProperties
<1>3. /\ r \in Seq(Msg) /\ Len(r) = a + c
      /\ \A i \in 1 .. a + c : r[i] = IF i <= a THEN q[i] ELSE f[i - a]
  BY <1>1, ConcatProperties
<1>4. ClientBuffer \in Nat
  BY BoundsAre
<1>5. q # <<>> => a >= 1 /\ Head(q) = q[1]
  BY <1>2, EmptySeq
<1>6. q = <<>> => a = 0
  OBVIOUS
<1>7. r # <<>> => Head(r) = r[1] /\ a + c >= 1
  BY <1>3, EmptySeq
<1>8. a + c >= 1 => r # <<>>
  BY <1>3
<1> HIDE DEF r, a, c
<1>9. a >= 1 => r[1] = q[1]
  <2>1. a >= 1 => 1 \in 1 .. a + c /\ 1 <= a
    BY <1>2
  <2> QED
    BY <1>3, <2>1
<1>10. a = 0 /\ c >= 1 => r[1] = f[1] /\ 1 \in 1 .. c
  <2>1. a = 0 /\ c >= 1 => 1 \in 1 .. a + c /\ ~(1 <= a) /\ 1 - a = 1
    BY <1>2
  <2> QED
    BY <1>2, <1>3, <2>1
<1>11. (r # <<>> /\ Head(r).type = "snapshot") <=> (q # <<>> /\ Head(q).type = "snapshot")
  <2>1. CASE q # <<>>
    <3>1. a >= 1 /\ a + c >= 1
      BY <1>2, <1>5, <2>1
    <3>2. r # <<>> /\ Head(r) = Head(q)
      BY <1>5, <1>7, <1>8, <1>9, <2>1, <3>1
    <3> QED
      BY <2>1, <3>2
  <2>2. CASE q = <<>>
    <3>1. a = 0
      BY <1>6, <2>2
    <3>2. ASSUME r # <<>> PROVE Head(r).type # "snapshot"
      <4>1. c >= 1 /\ Head(r) = r[1]
        BY <1>2, <1>7, <3>1, <3>2
      <4>2. r[1] = f[1] /\ 1 \in 1 .. c
        BY <1>10, <3>1, <4>1
      <4>3. f[1].type # "snapshot"
        BY <1>1, <4>2 DEF c
      <4> QED
        BY <4>1, <4>2, <4>3
    <3> QED
      BY <2>2, <3>2
  <2> QED
    BY <2>1, <2>2
<1>12. CASE q # <<>> /\ Head(q).type = "snapshot"
  <2>1. Room(q) = ClientBuffer - (a - 1) /\ Room(r) = ClientBuffer - (Len(r) - 1)
    BY <1>11, <1>12, RoomIs DEF a
  <2>2. Len(r) = a + c
    BY <1>3
  <2>3. Room(r) = Room(q) - c
    BY <1>2, <1>4, <2>1, <2>2
  <2> QED
    BY <1>3, <2>3 DEF r, c
<1>13. CASE ~(q # <<>> /\ Head(q).type = "snapshot")
  <2>1. Room(q) = ClientBuffer - a /\ Room(r) = ClientBuffer - Len(r)
    BY <1>11, <1>13, RoomIs DEF a
  <2>2. Len(r) = a + c
    BY <1>3
  <2>3. Room(r) = Room(q) - c
    BY <1>2, <1>4, <2>1, <2>2
  <2> QED
    BY <1>3, <2>3 DEF r, c
<1> QED
  BY <1>12, <1>13

LEMMA RoomType == ASSUME NEW q \in Seq(Msg) PROVE Room(q) \in Int
<1>1. Len(q) \in Nat /\ ClientBuffer \in Nat
  BY LenProperties, BoundsAre
<1> QED
  BY <1>1, RoomIs

LEMMA QueuedIs ==
  ASSUME NEW st \in Link, NEW f \in Seq(Msg)
  PROVE  /\ Queued(st, f) \in Link
         /\ Queued(st, f).state = st.state
         /\ st.state = "open" => Queued(st, f).queue = st.queue \o f
         /\ st.state # "open" => Queued(st, f) = st
<1>1. st.queue \o f \in Seq(Msg)
  BY ConcatProperties DEF Link
<1> DEFINE r == st.queue \o f
<1>2. CASE st.state = "open"
  <2>1. Queued(st, f) = [st EXCEPT !.queue = r]
    BY <1>2 DEF Queued
  <2> HIDE DEF r
  <2>2. r \in Seq(Msg)
    BY <1>1 DEF r
  <2>3. [st EXCEPT !.queue = r] \in Link /\ [st EXCEPT !.queue = r].state = st.state
    BY <2>2 DEF Link
  <2>4. [st EXCEPT !.queue = r].queue = r
    BY DEF Link
  <2>5. Queued(st, f) \in Link /\ Queued(st, f).state = st.state /\ Queued(st, f).queue = r
    BY <2>1, <2>3, <2>4
  <2> QED
    BY <1>2, <2>5 DEF r
<1>3. CASE st.state # "open"
  BY <1>3 DEF Queued
<1> QED
  BY <1>2, <1>3

(* What is sent is what fits; a stream that does not get all of it is no longer open. *)
LEMMA SentIs ==
  ASSUME NEW st \in Link, Room(st.queue) >= 0, NEW f, Frames(f)
  PROVE  /\ Sent(st, f) \in Link /\ Room(Sent(st, f).queue) >= 0
         /\ Sent(st, f).state = "none" => st.state = "none"
         /\ st.state # "open" => Sent(st, f) = st
         /\ st.state = "open" =>
              \E n \in 0 .. Len(f) :
                 /\ SubSeq(f, 1, n) \in Seq(Msg)
                 /\ Sent(st, f).queue = st.queue \o SubSeq(f, 1, n)
         /\ Sent(st, f).state = "open" => st.state = "open" /\ Sent(st, f).queue = st.queue \o f
<1>1. f \in Seq(Msg) /\ Len(f) \in Nat /\ st.queue \in Seq(Msg) /\ Room(st.queue) \in Int
  BY LenProperties, RoomType DEF Frames, Link
<1>2. CASE st.state # "open"
  <2>1. Sent(st, f) = st
    BY <1>2 DEF Sent, Queued
  <2> QED
    BY <1>2, <2>1
<1>3. CASE st.state = "open" /\ Len(f) <= Room(st.queue)
  <2>1. Sent(st, f) = Queued(st, f)
    BY <1>3 DEF Sent
  <2>2. SubSeq(f, 1, Len(f)) = f /\ Len(f) \in 0 .. Len(f)
    BY <1>1, SubSeqFull
  <2>3. Queued(st, f) \in Link /\ Queued(st, f).queue = st.queue \o f /\ Queued(st, f).state = "open"
    BY <1>1, <1>3, QueuedIs
  <2>4. Room(st.queue \o f) >= 0
    BY <1>1, <1>3, RoomAfter
  <2>5. \E n \in 0 .. Len(f) :
          SubSeq(f, 1, n) \in Seq(Msg) /\ Sent(st, f).queue = st.queue \o SubSeq(f, 1, n)
    BY <1>1, <2>1, <2>2, <2>3
  <2> QED
    BY <1>3, <2>1, <2>3, <2>4, <2>5
<1>4. CASE st.state = "open" /\ ~(Len(f) <= Room(st.queue))
  <2> DEFINE k == Room(st.queue)
             g == SubSeq(f, 1, k)
  <2>1. Sent(st, f) = [Queued(st, g) EXCEPT !.state = "closed"]
    BY <1>4 DEF Sent
  <2>2. k \in 0 .. Len(f)
    BY <1>1, <1>4
  <2> HIDE DEF k
  <2>3. \A i \in 1 .. k : f[i] \in Msg /\ f[i].type # "snapshot"
    <3>1. \A i \in 1 .. k : i \in 1 .. Len(f)
      BY <1>1, <2>2
    <3> QED
      BY <1>1, <3>1, ElementOfSeq DEF Frames
  <2>4. /\ g \in Seq(Msg)
        /\ Len(g) = IF 1 <= k THEN k - 1 + 1 ELSE 0
        /\ \A i \in 1 .. k - 1 + 1 : g[i] = f[1 + i - 1]
    BY <2>2, <2>3, SubSeqProperties
  <2> HIDE DEF g
  <2>5. Len(g) = k /\ \A i \in 1 .. k : g[i] = f[i]
    BY <2>2, <2>4
  <2>6. Frames(g)
    BY <2>3, <2>4, <2>5 DEF Frames
  <2> DEFINE u == Queued(st, g)
  <2>7. u \in Link /\ u.queue = st.queue \o g
    BY <1>4, <2>4, QueuedIs
  <2>8. Room(st.queue \o g) = 0
    <3>1. Room(st.queue \o g) = k - Len(g)
      BY <1>1, <2>6, RoomAfter DEF k
    <3> QED
      BY <2>2, <2>5, <3>1
  <2> HIDE DEF u
  <2>9. /\ [u EXCEPT !.state = "closed"] \in Link
        /\ [u EXCEPT !.state = "closed"].queue = u.queue
        /\ [u EXCEPT !.state = "closed"].state = "closed"
    BY <2>7 DEF Link
  <2>10. /\ Sent(st, f) \in Link
         /\ Sent(st, f).queue = st.queue \o g
         /\ Sent(st, f).state = "closed"
    BY <2>1, <2>7, <2>9 DEF u
  <2>11. \E n \in 0 .. Len(f) :
           SubSeq(f, 1, n) \in Seq(Msg) /\ Sent(st, f).queue = st.queue \o SubSeq(f, 1, n)
    BY <2>2, <2>4, <2>10 DEF g
  <2>12. Room(Sent(st, f).queue) >= 0
    BY <2>8, <2>10
  <2> QED
    BY <1>4, <2>10, <2>11, <2>12
<1> QED
  BY <1>2, <1>3, <1>4

-----------------------------------------------------------------------------
(* What is published *)

PictureOK ==
  /\ changes \in 0 .. MaxChanges
  /\ objects \in [Subject -> Version] /\ apps \in [Subject -> Version]
  /\ brokenSince \in Time \cup {Never} /\ cluster \in Connection
  /\ restartedAt \in 0 .. MaxChanges
  /\ feed \in [notes : Seq(Note), nextID : Nat] /\ Len(feed.notes) <= FeedSize

StreamsOK ==
  /\ view \in [Browser -> View]
  /\ stream \in [Browser -> Link]
  /\ \A b \in Browser : Room(stream[b].queue) >= 0

(* w is what a browser shows of the picture. *)
Match(w, a, c, n, r) ==
  /\ w \in View
  /\ \A s \in Subject : Same(w.apps[s], a[s])
  /\ w.cluster = c /\ w.notes = n /\ w.restartedAt = r

AddsUp ==
  \A b \in Browser : stream[b].state = "open" =>
    Match(Fold(view[b], stream[b].queue), apps, cluster, feed.notes, restartedAt)

About == Subject \cup Event \cup {"lost", "seen", "seam"}

LEMMA ViewIs ==
  ASSUME NEW a \in [Subject -> Version], NEW c \in Connection,
         NEW n \in Seq(Note), Len(n) <= FeedSize, NEW r \in 0 .. MaxChanges
  PROVE  /\ Shown(a, c, n, r) \in View
         /\ Shown(a, c, n, r).apps = a /\ Shown(a, c, n, r).cluster = c
         /\ Shown(a, c, n, r).notes = n /\ Shown(a, c, n, r).restartedAt = r
<1>1. Shown(a, c, n, r) \in Picture
  BY DEF Picture, Shown
<1>2. /\ Shown(a, c, n, r).apps = a /\ Shown(a, c, n, r).cluster = c
      /\ Shown(a, c, n, r).notes = n /\ Shown(a, c, n, r).restartedAt = r
  BY DEF Shown
<1> QED
  BY <1>1, <1>2 DEF View

LEMMA NumberedIs ==
  ASSUME PictureOK, NEW abouts \in Seq(About)
  PROVE  /\ Numbered(abouts) \in Seq(Note) /\ Len(Numbered(abouts)) = Len(abouts)
         /\ \A i \in 1 .. Len(abouts) : Numbered(abouts)[i].id = feed.nextID + i
<1> DEFINE k == Len(abouts)
           q == Numbered(abouts)
<1>1. k \in Nat /\ DOMAIN abouts = 1 .. k
  BY LenProperties
<1>2. q = [i \in 1 .. k |-> [id |-> feed.nextID + i, about |-> abouts[i]]]
  BY <1>1 DEF Numbered
<1>3. feed.nextID \in Nat
  BY DEF PictureOK
<1>4. ASSUME NEW i \in 1 .. k PROVE [id |-> feed.nextID + i, about |-> abouts[i]] \in Note
  <2>1. abouts[i] \in About
    BY ElementOfSeq
  <2> DEFINE d == feed.nextID + i
  <2>2. d \in Nat \ {0}
    BY <1>1, <1>3
  <2> HIDE DEF d
  <2>3. [id |-> d, about |-> abouts[i]] \in Note
    BY <2>1, <2>2 DEF Note, About
  <2> QED
    BY <2>3 DEF d
<1> HIDE DEF q, k
<1>5. q \in [1 .. k -> Note]
  BY <1>2, <1>4
<1>6. q \in Seq(Note) /\ Len(q) = k
  BY <1>1, <1>5
<1>7. \A i \in 1 .. k : q[i].id = feed.nextID + i
  BY <1>2
<1> QED
  BY <1>6, <1>7 DEF q, k

LEMMA NoteFramesAre ==
  ASSUME PictureOK, NEW abouts \in Seq(About)
  PROVE  /\ Frames(NoteFrames(abouts)) /\ Len(NoteFrames(abouts)) = Len(abouts)
         /\ DOMAIN NoteFrames(abouts) = DOMAIN Numbered(abouts)
         /\ \A i \in DOMAIN Numbered(abouts) :
              /\ NoteFrames(abouts)[i].type = "note"
              /\ NoteFrames(abouts)[i].note = Numbered(abouts)[i]
<1> DEFINE k == Len(abouts)
           N == Numbered(abouts)
           q == NoteFrames(abouts)
<1>1. k \in Nat /\ DOMAIN abouts = 1 .. k
  BY LenProperties
<1>2. N \in Seq(Note) /\ Len(N) = k
  BY NumberedIs
<1>3. DOMAIN N = 1 .. k /\ \A i \in 1 .. k : N[i] \in Note
  BY <1>2, LenProperties, ElementOfSeq
<1>4. q = [i \in 1 .. k |-> [type |-> "note", note |-> N[i]]]
  BY <1>1 DEF NoteFrames
<1> HIDE DEF q, k, N
<1>5. ASSUME NEW i \in 1 .. k
      PROVE  q[i] \in Msg /\ q[i].type = "note" /\ q[i].note = N[i] /\ q[i].type # "snapshot"
  <2>1. q[i] = [type |-> "note", note |-> N[i]]
    BY <1>4
  <2>2. [type |-> "note", note |-> N[i]] \in Message
    BY <1>3 DEF Message
  <2>3. q[i].type = "note" /\ q[i].note = N[i]
    BY <2>1
  <2> QED
    BY <2>1, <2>2, <2>3 DEF Msg
<1>6. DOMAIN q = 1 .. k
  BY <1>4
<1>7. q \in [1 .. k -> Msg]
  BY <1>4, <1>5
<1>8. q \in Seq(Msg) /\ Len(q) = k
  BY <1>1, <1>7
<1>9. Frames(q)
  BY <1>5, <1>8 DEF Frames
<1> QED
  BY <1>3, <1>5, <1>6, <1>8, <1>9 DEF q, k, N

LEMMA FramesConcat ==
  ASSUME NEW f, Frames(f), NEW g, Frames(g)
  PROVE  Frames(f \o g)
<1> DEFINE a == Len(f)
           c == Len(g)
           h == f \o g
<1>1. /\ f \in Seq(Msg) /\ \A i \in 1 .. a : f[i].type # "snapshot"
      /\ g \in Seq(Msg) /\ \A i \in 1 .. c : g[i].type # "snapshot"
  BY DEF Frames
<1>2. a \in Nat /\ c \in Nat
  BY <1>1, LenProperties
<1>3. /\ h \in Seq(Msg) /\ Len(h) = a + c
      /\ \A i \in 1 .. a + c : h[i] = IF i <= a THEN f[i] ELSE g[i - a]
  BY <1>1, ConcatProperties
<1> HIDE DEF a, c, h
<1>4. ASSUME NEW i \in 1 .. a + c PROVE h[i].type # "snapshot"
  <2>1. CASE i <= a
    <3>1. h[i] = f[i] /\ i \in 1 .. a
      BY <1>2, <1>3, <2>1
    <3> QED
      BY <1>1, <3>1
  <2>2. CASE ~(i <= a)
    <3>1. h[i] = g[i - a] /\ i - a \in 1 .. c
      BY <1>2, <1>3, <2>2
    <3> QED
      BY <1>1, <3>1
  <2> QED
    BY <2>1, <2>2
<1> QED
  BY <1>3, <1>4 DEF Frames, h

LEMMA NoFrames == Frames(<<>>)
BY EmptySeq DEF Frames

LEMMA PublishedFeed ==
  ASSUME PictureOK, NEW frames, NEW abouts \in Seq(About), Publish(frames, abouts)
  PROVE  /\ feed' \in [notes : Seq(Note), nextID : Nat] /\ Len(feed'.notes) <= FeedSize
         /\ feed'.notes = Trimmed(feed.notes \o Numbered(abouts))
         /\ feed'.nextID = feed.nextID + Len(abouts)
<1> DEFINE t == Trimmed(feed.notes \o Numbered(abouts))
           d == feed.nextID + Len(abouts)
<1>1. feed' = [notes |-> t, nextID |-> d]
  BY DEF Publish
<1>2. feed.notes \in Seq(Note) /\ feed.nextID \in Nat
  BY DEF PictureOK
<1>3. feed.notes \o Numbered(abouts) \in Seq(Note)
  BY <1>2, NumberedIs, ConcatProperties
<1>4. t \in Seq(Note) /\ Len(t) <= FeedSize
  BY <1>3, TrimmedIs
<1>5. d \in Nat
  BY <1>2, LenProperties
<1> HIDE DEF t, d
<1>6. feed' \in [notes : Seq(Note), nextID : Nat] /\ feed'.notes = t /\ feed'.nextID = d
  BY <1>1, <1>4, <1>5
<1> QED
  BY <1>4, <1>6 DEF t, d

LEMMA BroadcastStreams ==
  ASSUME StreamsOK, NEW f, Frames(f), Broadcast(f), UNCHANGED view
  PROVE  StreamsOK'
<1>1. stream' = [b \in Browser |-> Sent(stream[b], f)]
  BY DEF Broadcast
<1>2. \A b \in Browser : stream[b] \in Link /\ Room(stream[b].queue) >= 0
  BY DEF StreamsOK
<1>3. \A b \in Browser : Sent(stream[b], f) \in Link /\ Room(Sent(stream[b], f).queue) >= 0
  BY <1>2, SentIs
<1>4. stream' \in [Browser -> Link]
  BY <1>1, <1>3
<1>5. \A b \in Browser : Room(stream'[b].queue) >= 0
  BY <1>1, <1>3
<1>6. view' \in [Browser -> View]
  BY DEF StreamsOK
<1> QED
  BY <1>4, <1>5, <1>6 DEF StreamsOK, Room

(* A picture that the frames bring about, and the notes, are what the streams add up
   to. *)
LEMMA PublishAddsUp ==
  ASSUME PictureOK, StreamsOK, AddsUp, UNCHANGED view,
         NEW frames, Frames(frames), NEW abouts \in Seq(About), Publish(frames, abouts),
         NEW a, NEW c,
         \A w \in View : Match(w, apps, cluster, feed.notes, restartedAt) =>
           Match(Fold(w, frames), a, c, feed.notes, restartedAt)
  PROVE  /\ StreamsOK'
         /\ \A b \in Browser : stream'[b].state = "open" =>
              Match(Fold(view'[b], stream'[b].queue), a, c, feed'.notes, restartedAt)
<1> DEFINE notes == NoteFrames(abouts)
           N == Numbered(abouts)
           f == frames \o notes
<1>1. /\ Frames(notes) /\ DOMAIN notes = DOMAIN N
      /\ \A i \in DOMAIN N : notes[i].type = "note" /\ notes[i].note = N[i]
  BY NoteFramesAre
<1>2. N \in Seq(Note)
  BY NumberedIs
<1>3. feed'.notes = Trimmed(feed.notes \o N) /\ Broadcast(f)
  BY PublishedFeed DEF Publish
<1> HIDE DEF notes, N
<1>4. Frames(f)
  BY <1>1, FramesConcat
<1>5. frames \in Seq(Msg) /\ notes \in Seq(Msg)
  BY <1>1 DEF Frames
<1> HIDE DEF f
<1>6. StreamsOK'
  BY <1>3, <1>4, BroadcastStreams
<1>7. ASSUME NEW b \in Browser, stream'[b].state = "open"
      PROVE  Match(Fold(view'[b], stream'[b].queue), a, c, feed'.notes, restartedAt)
  <2> DEFINE q == stream[b].queue
             w == Fold(view[b], q)
             u == Fold(w, frames)
  <2>1. stream[b] \in Link /\ Room(q) >= 0 /\ q \in Seq(Msg) /\ stream'[b] = Sent(stream[b], f)
    BY <1>3 DEF StreamsOK, Link, Broadcast
  <2>2. stream[b].state = "open" /\ stream'[b].queue = q \o f
    <3> DEFINE st == stream[b]
    <3>1. st \in Link /\ Room(st.queue) >= 0 /\ Sent(st, f).state = "open"
      BY <1>7, <2>1
    <3> HIDE DEF st
    <3>2. st.state = "open" /\ Sent(st, f).queue = st.queue \o f
      BY <1>4, <3>1, SentIs
    <3> QED
      BY <2>1, <3>2 DEF st
  <2>3. Match(w, apps, cluster, feed.notes, restartedAt)
    BY <2>2 DEF AddsUp
  <2>4. f \in Seq(Msg)
    BY <1>4 DEF Frames
  <2>5. Fold(view[b], q \o f) = Fold(w, f)
    BY <2>1, <2>4, FoldConcat
  <2> HIDE DEF q, w
  <2>6. Fold(w, f) = Fold(u, notes)
    BY <1>5, FoldConcat DEF f
  <2>7. w \in View
    BY <2>3 DEF Match
  <2>8. Match(u, a, c, feed.notes, restartedAt)
    BY <2>3, <2>7
  <2> HIDE DEF u
  <2>9. u \in View /\ u \in Picture /\ u.notes = feed.notes /\ Len(u.notes) <= FeedSize
    BY <2>8 DEF Match, View
  <2>10. /\ u = Shown(u.apps, u.cluster, u.notes, u.restartedAt)
         /\ u.apps \in [Subject -> Version] /\ u.cluster \in Connection
         /\ u.notes \in Seq(Note) /\ u.restartedAt \in 0 .. MaxChanges
    BY <2>9, ShownIs
  <2> DEFINE a2 == u.apps
             c2 == u.cluster
             n2 == u.notes
             r2 == u.restartedAt
             t == Trimmed(n2 \o N)
  <2>11. Len(n2) <= FeedSize /\ n2 \in Seq(Note) /\ u = Shown(a2, c2, n2, r2)
    BY <2>9, <2>10
  <2>12. t \in Seq(Note) /\ Len(t) <= FeedSize
    BY <1>2, <2>11, ConcatProperties, TrimmedIs
  <2>13. feed'.notes = t
    BY <1>3, <2>9
  <2>14. a2 \in [Subject -> Version] /\ c2 \in Connection /\ r2 \in 0 .. MaxChanges
    BY <2>10
  <2>15. (\A s \in Subject : Same(a2[s], a[s])) /\ c2 = c /\ r2 = restartedAt
    BY <2>8 DEF Match
  <2> HIDE DEF a2, c2, n2, r2
  <2>16. Fold(Shown(a2, c2, n2, r2), notes) = Shown(a2, c2, t, r2)
    BY <1>1, <1>2, <2>11, FoldNotes
  <2> HIDE DEF t
  <2>17. Match(Shown(a2, c2, t, r2), a, c, t, restartedAt)
    <3>1. /\ Shown(a2, c2, t, r2) \in View
          /\ Shown(a2, c2, t, r2).apps = a2 /\ Shown(a2, c2, t, r2).cluster = c2
          /\ Shown(a2, c2, t, r2).notes = t /\ Shown(a2, c2, t, r2).restartedAt = r2
      BY <2>12, <2>14, ViewIs
    <3> QED
      BY <2>15, <3>1 DEF Match
  <2>18. Fold(view'[b], stream'[b].queue) = Shown(a2, c2, t, r2)
    BY <2>2, <2>5, <2>6, <2>11, <2>16 DEF q
  <2> QED
    BY <2>13, <2>17, <2>18
<1> QED
  BY <1>6, <1>7

-----------------------------------------------------------------------------
(* The streams add up *)

LEMMA ClusterNowIs == ASSUME now \in Time, PictureOK PROVE ClusterNow \in Connection
BY DEF ClusterNow, Connection

LEMMA ClusterFramesAre ==
  ASSUME now \in Time, PictureOK
  PROVE  /\ Frames(ClusterFrames)
         /\ ClusterNow = cluster => ClusterFrames = <<>>
         /\ ClusterNow # cluster =>
              \E m \in Msg : m.type = "cluster" /\ m.state = ClusterNow /\ ClusterFrames = <<m>>
<1>1. CASE ClusterNow = cluster
  <2>1. ClusterFrames = <<>>
    BY <1>1 DEF ClusterFrames
  <2> QED
    BY <1>1, <2>1, NoFrames
<1>2. CASE ClusterNow # cluster
  <2> DEFINE c == ClusterNow
             m == [type |-> "cluster", state |-> c]
  <2>1. ClusterFrames = <<m>>
    BY <1>2 DEF ClusterFrames
  <2>2. c \in Connection
    BY ClusterNowIs
  <2> HIDE DEF c
  <2>3. m.type = "cluster" /\ m.state = c /\ m.type # "snapshot"
    OBVIOUS
  <2>4. m \in Msg
    BY <2>2 DEF Msg, Message
  <2> HIDE DEF m
  <2>5. <<m>> \in Seq(Msg) /\ Len(<<m>>) = 1 /\ <<m>>[1] = m
    BY <2>4
  <2>6. Frames(<<m>>)
    BY <2>3, <2>5 DEF Frames
  <2> QED
    BY <1>2, <2>1, <2>3, <2>4, <2>6 DEF c
<1> QED
  BY <1>1, <1>2

SubjectFrames(order) ==
  [i \in DOMAIN order |->
     [type |-> "subject", name |-> order[i], version |-> objects[order[i]]]]

LEMMA SubjectFramesAre ==
  ASSUME PictureOK, NEW order \in Seq(Subject)
  PROVE  /\ Frames(SubjectFrames(order)) /\ DOMAIN SubjectFrames(order) = DOMAIN order
         /\ \A i \in DOMAIN order :
              /\ SubjectFrames(order)[i].type = "subject"
              /\ SubjectFrames(order)[i].name = order[i]
              /\ SubjectFrames(order)[i].version = objects[order[i]]
<1> DEFINE k == Len(order)
           q == SubjectFrames(order)
<1>1. k \in Nat /\ DOMAIN order = 1 .. k /\ \A i \in 1 .. k : order[i] \in Subject
  BY LenProperties, ElementOfSeq
<1>2. q = [i \in 1 .. k |-> [type |-> "subject", name |-> order[i], version |-> objects[order[i]]]]
  BY <1>1 DEF SubjectFrames
<1>3. \A i \in 1 .. k : objects[order[i]] \in Version
  BY <1>1 DEF PictureOK
<1> HIDE DEF q, k
<1>4. ASSUME NEW i \in 1 .. k
      PROVE  /\ q[i] \in Msg /\ q[i].type = "subject" /\ q[i].type # "snapshot"
             /\ q[i].name = order[i] /\ q[i].version = objects[order[i]]
  <2> DEFINE x == order[i]
             v == objects[x]
  <2>1. q[i] = [type |-> "subject", name |-> x, version |-> v]
    BY <1>2
  <2>2. x \in Subject /\ v \in Version
    BY <1>1, <1>3
  <2> HIDE DEF x, v
  <2>3. [type |-> "subject", name |-> x, version |-> v] \in Message
    BY <2>2 DEF Message
  <2>4. q[i].type = "subject" /\ q[i].name = x /\ q[i].version = v
    BY <2>1
  <2>5. q[i] \in Msg
    BY <2>1, <2>3, <2>4 DEF Msg
  <2> QED
    BY <2>4, <2>5 DEF x, v
<1>5. DOMAIN q = 1 .. k
  BY <1>2
<1>6. q \in [1 .. k -> Msg]
  BY <1>2, <1>4
<1>7. q \in Seq(Msg) /\ Len(q) = k
  BY <1>1, <1>6
<1>8. Frames(q)
  BY <1>4, <1>7 DEF Frames
<1> QED
  BY <1>1, <1>4, <1>5, <1>8 DEF q

LEMMA RecomputedMatch ==
  ASSUME now \in Time, PictureOK, NEW w \in View,
         Match(w, apps, cluster, feed.notes, restartedAt),
         NEW order \in Seq(Subject),
         \A s \in Subject : (\E i \in DOMAIN order : order[i] = s) \/ Same(apps[s], objects[s])
  PROVE  Match(Fold(w, SubjectFrames(order) \o ClusterFrames), objects, ClusterNow,
               feed.notes, restartedAt)
<1> DEFINE f == SubjectFrames(order)
           g == ClusterFrames
           a == w.apps
           c == w.cluster
           n == w.notes
           r == w.restartedAt
           b == Updated(a, order, objects)
<1>1. w = Shown(a, c, n, r) /\ a \in [Subject -> Version] /\ n \in Seq(Note)
      /\ c \in Connection /\ r \in 0 .. MaxChanges
  BY ShownIs DEF View
<1>2. (\A s \in Subject : Same(a[s], apps[s])) /\ c = cluster /\ n = feed.notes /\ r = restartedAt
  BY DEF Match
<1>3. /\ Frames(f) /\ DOMAIN f = DOMAIN order
      /\ \A i \in DOMAIN order :
           f[i].type = "subject" /\ f[i].name = order[i] /\ f[i].version = objects[order[i]]
  BY SubjectFramesAre
<1>4. Len(n) <= FeedSize
  BY DEF View
<1>5. b \in [Subject -> Version]
  BY <1>1 DEF PictureOK, Updated
<1>6. \A s \in Subject : Same(b[s], objects[s])
  <2> SUFFICES ASSUME NEW s \in Subject PROVE Same(b[s], objects[s])
    OBVIOUS
  <2>1. CASE \E j \in DOMAIN order : order[j] = s
    <3>1. b[s] = objects[s]
      BY <2>1 DEF Updated
    <3> QED
      BY <3>1 DEF Same
  <2>2. CASE ~ \E j \in DOMAIN order : order[j] = s
    <3>1. b[s] = a[s] /\ Same(apps[s], objects[s]) /\ Same(a[s], apps[s])
      BY <1>2, <2>2 DEF Updated
    <3> HIDE DEF b, a
    <3> QED
      BY <3>1 DEF Same
  <2> QED
    BY <2>1, <2>2
<1> HIDE DEF a, c, n, r, f, g
<1>7. Fold(Shown(a, c, n, r), f) = Shown(b, c, n, r)
  <2>1. DOMAIN a = Subject /\ a = [s \in Subject |-> a[s]]
    BY <1>1
  <2> QED
    BY <1>3, <2>1, FoldSubjects
<1> HIDE DEF b
<1>8. Frames(g) /\ f \in Seq(Msg) /\ g \in Seq(Msg)
  BY <1>3, ClusterFramesAre DEF g, Frames
<1>9. Fold(w, f \o g) = Fold(Shown(b, c, n, r), g)
  <2>1. Fold(w, f \o g) = Fold(Fold(w, f), g)
    BY <1>8, FoldConcat
  <2> QED
    BY <1>1, <1>7, <2>1
<1>10. Fold(Shown(b, c, n, r), g) = Shown(b, ClusterNow, n, r)
  <2>1. CASE ClusterNow = cluster
    <3>1. g = <<>> /\ c = ClusterNow
      BY <1>2, <2>1, ClusterFramesAre DEF g
    <3> QED
      BY <3>1, FoldNone
  <2>2. CASE ClusterNow # cluster
    <3>1. PICK m \in Msg : m.type = "cluster" /\ m.state = ClusterNow /\ g = <<m>>
      BY <2>2, ClusterFramesAre DEF g
    <3>2. Fold(Shown(b, c, n, r), g) = Replayed(Shown(b, c, n, r), m)
      BY <3>1, FoldOne
    <3>3. Replayed(Shown(b, c, n, r), m) = Shown(b, m.state, n, r)
      BY <3>1, ClusterShown
    <3> QED
      BY <3>1, <3>2, <3>3
  <2> QED
    BY <2>1, <2>2
<1> DEFINE u == Shown(b, ClusterNow, n, r)
<1>11. u \in View /\ u.apps = b /\ u.cluster = ClusterNow /\ u.notes = n /\ u.restartedAt = r
  <2>1. ClusterNow \in Connection
    BY ClusterNowIs
  <2> QED
    BY <1>1, <1>4, <1>5, <2>1, ViewIs
<1> HIDE DEF u
<1>12. Match(u, objects, ClusterNow, feed.notes, restartedAt)
  BY <1>2, <1>6, <1>11 DEF Match
<1> QED
  BY <1>9, <1>10, <1>12 DEF u, f, g

(* A frame for each Subject of order, every Subject that changed being one of them, and
   the notes. *)
Republished(order, abouts) ==
  /\ order \in Seq(Subject) /\ abouts \in Seq(About)
  /\ \A s \in Subject : (\E i \in DOMAIN order : order[i] = s) \/ Same(apps[s], objects[s])
  /\ Publish(SubjectFrames(order) \o ClusterFrames, abouts)

LEMMA RecomputedPublish ==
  ASSUME NEW next, Recomputing(next)
  PROVE  \E order, abouts : Republished(order, abouts)
<1> DEFINE changed == {s \in Subject : ~Same(apps[s], objects[s])}
           order == SetToSeq(changed)
           settled == IF seeded THEN SettledAs("publish") ELSE {}
           frames == SubjectFrames(order) \o ClusterFrames
<1>1. PICK noted \in SUBSET (IF seeded THEN changed ELSE {}) :
        Publish(frames, SetToSeq(noted) \o ClusterNotes \o SetToSeq(settled))
  BY DEF Recomputing, SubjectFrames
<1>3. noted \subseteq Subject /\ changed \subseteq Subject /\ settled \subseteq Probe
  <2>1. noted \subseteq Subject
    BY <1>1
  <2>2. settled \subseteq Probe
    BY DEF SettledAs, Settled
  <2> QED
    BY <2>1, <2>2
<1>4. IsFiniteSet(noted) /\ IsFiniteSet(changed) /\ IsFiniteSet(settled)
  <2>1. IsFiniteSet(Subject) /\ IsFiniteSet(Probe)
    BY ArgusAssumption
  <2> HIDE DEF changed, settled
  <2> QED
    BY <1>3, <2>1, FS_Subset
<1>5. \A s \in Subject : (\E i \in DOMAIN order : order[i] = s) \/ Same(apps[s], objects[s])
  <2>1. \A s \in changed : \E i \in DOMAIN order : order[i] = s
    <3> HIDE DEF changed
    <3> QED
      BY <1>4, SetToSeqIs
  <2> HIDE DEF order
  <2> QED
    BY <2>1
<1> HIDE DEF changed, settled
<1>6. order \in Seq(Subject)
  <2>1. order \in Seq(changed)
    BY <1>4, SetToSeqIs
  <2> HIDE DEF order
  <2> QED
    BY <1>3, <2>1, SeqMonotonic
<1> HIDE DEF order
<1> DEFINE abouts == SetToSeq(noted) \o ClusterNotes \o SetToSeq(settled)
<1>7. abouts \in Seq(About)
  <2>1. SetToSeq(noted) \in Seq(noted) /\ SetToSeq(settled) \in Seq(settled)
    BY <1>4, SetToSeqIs
  <2>2. noted \subseteq About /\ settled \subseteq About /\ {"lost", "seen"} \subseteq About
    BY <1>3 DEF About, Event
  <2>3. ClusterNotes \in Seq({"lost", "seen"})
    BY ClusterNotesAre
  <2>4. SetToSeq(noted) \in Seq(About) /\ SetToSeq(settled) \in Seq(About)
        /\ ClusterNotes \in Seq(About)
    BY <2>1, <2>2, <2>3, SeqMonotonic
  <2> DEFINE x == SetToSeq(noted)
             y == SetToSeq(settled)
             z == ClusterNotes
  <2> HIDE DEF x, y, z
  <2>5. x \o z \in Seq(About)
    BY <2>4, ConcatProperties DEF x, z
  <2>6. (x \o z) \o y \in Seq(About)
    BY <2>4, <2>5, ConcatProperties DEF y
  <2> QED
    BY <2>6 DEF x, y, z
<1>8. Publish(frames, abouts)
  BY <1>1
<1> HIDE DEF abouts
<1>9. Republished(order, abouts)
  BY <1>5, <1>6, <1>7, <1>8 DEF Republished
<1> QED
  BY <1>9

LEMMA RecomputedStreams ==
  ASSUME now \in Time, PictureOK, StreamsOK, AddsUp, NEW next, Recomputing(next),
         UNCHANGED <<changes, objects, brokenSince, restartedAt, view>>
  PROVE  PictureOK' /\ StreamsOK' /\ AddsUp'
<1>1. PICK order, abouts : Republished(order, abouts)
  BY RecomputedPublish
<1>2. apps' = objects /\ cluster' = ClusterNow
  BY DEF Recomputing
<1> DEFINE frames == SubjectFrames(order) \o ClusterFrames
<1>5. \A s \in Subject : (\E i \in DOMAIN order : order[i] = s) \/ Same(apps[s], objects[s])
  BY <1>1 DEF Republished
<1>6. order \in Seq(Subject)
  BY <1>1 DEF Republished
<1>7. abouts \in Seq(About)
  BY <1>1 DEF Republished
<1>8. Publish(frames, abouts)
  BY <1>1 DEF Republished
<1>9. Frames(frames)
  BY <1>6, SubjectFramesAre, ClusterFramesAre, FramesConcat
<1>10. \A w \in View : Match(w, apps, cluster, feed.notes, restartedAt) =>
         Match(Fold(w, frames), objects, ClusterNow, feed.notes, restartedAt)
  BY <1>5, <1>6, RecomputedMatch
<1> HIDE DEF frames
<1>11. /\ StreamsOK'
       /\ \A b \in Browser : stream'[b].state = "open" =>
            Match(Fold(view'[b], stream'[b].queue), objects, ClusterNow, feed'.notes, restartedAt)
  BY <1>7, <1>8, <1>9, <1>10, PublishAddsUp
<1>12. AddsUp'
  BY <1>2, <1>11 DEF AddsUp
<1>13. feed' \in [notes : Seq(Note), nextID : Nat] /\ Len(feed'.notes) <= FeedSize
  BY <1>7, <1>8, PublishedFeed
<1>14. ClusterNow \in Connection
  BY ClusterNowIs
<1>15. PictureOK'
  BY <1>2, <1>13, <1>14 DEF PictureOK
<1> QED
  BY <1>11, <1>12, <1>15

LEMMA QuietStreams ==
  ASSUME PictureOK, StreamsOK, AddsUp,
         changes' \in 0 .. MaxChanges, objects' \in [Subject -> Version],
         brokenSince' \in Time \cup {Never},
         UNCHANGED <<apps, cluster, feed, restartedAt, stream, view>>
  PROVE  PictureOK' /\ StreamsOK' /\ AddsUp'
<1>1. PictureOK'
  BY DEF PictureOK
<1>2. StreamsOK'
  BY DEF StreamsOK, Room
<1>3. AddsUp'
  BY DEF AddsUp
<1> QED
  BY <1>1, <1>2, <1>3

(* Notes alone, of an Event or of the seeded feed. *)
LEMMA NotedStreams ==
  ASSUME PictureOK, StreamsOK, AddsUp, changes' \in 0 .. MaxChanges,
         NEW abouts \in Seq(About), Publish(<<>>, abouts),
         UNCHANGED <<objects, brokenSince, apps, cluster, restartedAt, view>>
  PROVE  PictureOK' /\ StreamsOK' /\ AddsUp'
<1>1. \A w \in View : Match(w, apps, cluster, feed.notes, restartedAt) =>
        Match(Fold(w, <<>>), apps, cluster, feed.notes, restartedAt)
  BY FoldNone
<1>2. /\ StreamsOK'
      /\ \A b \in Browser : stream'[b].state = "open" =>
           Match(Fold(view'[b], stream'[b].queue), apps, cluster, feed'.notes, restartedAt)
  BY <1>1, NoFrames, PublishAddsUp
<1>3. AddsUp'
  BY <1>2 DEF AddsUp
<1>4. feed' \in [notes : Seq(Note), nextID : Nat] /\ Len(feed'.notes) <= FeedSize
  BY PublishedFeed
<1>5. PictureOK'
  BY <1>4 DEF PictureOK
<1> QED
  BY <1>2, <1>3, <1>5

LEMMA NoticedStreams ==
  ASSUME PictureOK, StreamsOK, AddsUp, changes' \in 0 .. MaxChanges,
         NEW e \in Event, NEW t, Noticed(e, t),
         UNCHANGED <<objects, brokenSince, apps, cluster, restartedAt, view>>
  PROVE  PictureOK' /\ StreamsOK' /\ AddsUp'
<1>1. CASE UNCHANGED <<feed, stream>>
  <2>1. objects' \in [Subject -> Version] /\ brokenSince' \in Time \cup {Never}
    BY DEF PictureOK
  <2> QED
    BY <1>1, <2>1, QuietStreams
<1>2. CASE Publish(<<>>, <<e>>)
  <2>1. e \in About
    BY DEF About
  <2>2. <<e>> \in Seq(About)
    BY <2>1
  <2> QED
    BY <1>2, <2>2, NotedStreams
<1> QED
  BY <1>1, <1>2 DEF Noticed

LEMMA SeededPublish ==
  ASSUME SeedEnds
  PROVE  \E abouts \in Seq(About) : Publish(<<>>, abouts)
<1> DEFINE known == {e \in Event : event[e] \in Time}
           fated(fate) == {e \in known : FirstFate(e, event[e]) = fate}
           news == {s \in Subject : There(apps[s])} \cup fated("publish")
           abouts == Append(SetToSeq(news), "seam")
<1>1. Publish(<<>>, abouts)
  BY DEF SeedEnds
<1>3. news \subseteq Subject \cup Event
  OBVIOUS
<1> HIDE DEF news
<1>4. IsFiniteSet(news)
  <2>1. IsFiniteSet(Subject \cup (Warning \cup Probe))
    BY ArgusAssumption, FS_Union
  <2>2. news \subseteq Subject \cup (Warning \cup Probe)
    BY <1>3 DEF Event
  <2> QED
    BY <2>1, <2>2, FS_Subset
<1>5. abouts \in Seq(About)
  <2>1. SetToSeq(news) \in Seq(news)
    BY <1>4, SetToSeqIs
  <2>2. news \subseteq About /\ "seam" \in About
    BY <1>3 DEF About
  <2>3. SetToSeq(news) \in Seq(About)
    BY <2>1, <2>2, SeqMonotonic
  <2> QED
    BY <2>2, <2>3, AppendProperties
<1> HIDE DEF abouts
<1> QED
  BY <1>1, <1>5

LEMMA SeededStreams ==
  ASSUME PictureOK, StreamsOK, AddsUp, SeedEnds
  PROVE  PictureOK' /\ StreamsOK' /\ AddsUp'
<1>1. PICK abouts \in Seq(About) : Publish(<<>>, abouts)
  BY SeededPublish
<1>2. UNCHANGED <<changes, objects, brokenSince, apps, cluster, restartedAt, view>>
  BY DEF SeedEnds, objectVars
<1>3. changes' \in 0 .. MaxChanges
  BY <1>2 DEF PictureOK
<1> QED
  BY <1>1, <1>2, <1>3, NotedStreams

LEMMA SnapshotView == ASSUME PictureOK PROVE Snapshot \in View /\ Match(Snapshot, apps, cluster, feed.notes, restartedAt)
<1>1. Snapshot = Shown(apps, cluster, feed.notes, restartedAt)
  BY DEF Snapshot, Shown
<1>2. /\ apps \in [Subject -> Version] /\ cluster \in Connection /\ restartedAt \in 0 .. MaxChanges
      /\ feed.notes \in Seq(Note) /\ Len(feed.notes) <= FeedSize
  BY DEF PictureOK
<1> DEFINE u == Shown(apps, cluster, feed.notes, restartedAt)
<1>3. /\ u \in View /\ u.apps = apps /\ u.cluster = cluster
      /\ u.notes = feed.notes /\ u.restartedAt = restartedAt
  BY <1>2, ViewIs
<1> HIDE DEF u
<1>4. \A s \in Subject : Same(u.apps[s], apps[s])
  BY <1>3 DEF Same
<1>5. Match(u, apps, cluster, feed.notes, restartedAt)
  BY <1>3, <1>4 DEF Match
<1> QED
  BY <1>1, <1>3, <1>5 DEF u

(* A stream of b that is not open, or adds up. *)
LEMMA LinkChanged ==
  ASSUME PictureOK, StreamsOK, AddsUp, NEW b \in Browser,
         NEW l \in Link, Room(l.queue) >= 0, NEW v \in View,
         stream' = [stream EXCEPT ![b] = l], view' = [view EXCEPT ![b] = v],
         changes' \in 0 .. MaxChanges,
         UNCHANGED <<objects, brokenSince, apps, cluster, feed, restartedAt>>,
         l.state = "open" => Match(Fold(v, l.queue), apps, cluster, feed.notes, restartedAt)
  PROVE  PictureOK' /\ StreamsOK' /\ AddsUp'
<1>1. PictureOK'
  BY DEF PictureOK
<1>2. stream'[b] = l /\ view'[b] = v
  BY DEF StreamsOK
<1>3. \A x \in Browser \ {b} : stream'[x] = stream[x] /\ view'[x] = view[x]
  BY DEF StreamsOK
<1>4. stream' \in [Browser -> Link] /\ view' \in [Browser -> View]
  BY DEF StreamsOK
<1>5. \A x \in Browser : Room(stream'[x].queue) >= 0
  BY <1>2, <1>3 DEF StreamsOK
<1>6. StreamsOK'
  BY <1>4, <1>5 DEF StreamsOK, Room
<1>7. ASSUME NEW x \in Browser, stream'[x].state = "open"
      PROVE  Match(Fold(view'[x], stream'[x].queue), apps, cluster, feed.notes, restartedAt)
  <2>1. CASE x = b
    BY <1>2, <1>7, <2>1
  <2>2. CASE x # b
    BY <1>3, <1>7, <2>2 DEF AddsUp
  <2> QED
    BY <2>1, <2>2
<1>8. AddsUp'
  BY <1>7 DEF AddsUp
<1> QED
  BY <1>1, <1>6, <1>8

LEMMA NoLink == NoStream \in Link /\ Room(NoStream.queue) >= 0 /\ NoStream.state = "none"
                /\ NoStream.queue = <<>>
<1>1. NoStream \in Link
  BY DEF NoStream, Link
<1>2. NoStream.state = "none" /\ NoStream.queue = <<>>
  BY DEF NoStream
<1>3. Room(<<>>) = ClientBuffer - 0
  BY RoomIs, EmptySeq
<1>4. Room(<<>>) >= 0
  BY <1>3, BoundsAre
<1> QED
  BY <1>1, <1>2, <1>4

LEMMA SubscribedStreams ==
  ASSUME PictureOK, StreamsOK, AddsUp, NEW b \in Browser, Subscribe(b)
  PROVE  PictureOK' /\ StreamsOK' /\ AddsUp'
<1> DEFINE p == Snapshot
           m == [type |-> "snapshot", picture |-> p]
           l == [state |-> "open", queue |-> <<m>>]
           v == view[b]
<1>1. stream' = [stream EXCEPT ![b] = l]
  BY DEF Subscribe
<1>2. UNCHANGED <<changes, objects, brokenSince, apps, cluster, feed, restartedAt, view>>
  BY DEF Subscribe, objectVars, pictureVars
<1>3. p \in View /\ Match(p, apps, cluster, feed.notes, restartedAt)
  BY SnapshotView
<1> HIDE DEF p
<1>4. m \in Msg
  BY <1>3 DEF Msg, Message, View
<1>5. m.type = "snapshot" /\ m.picture = p
  OBVIOUS
<1> HIDE DEF m
<1>6. l \in Link
  BY <1>4 DEF Link
<1>7. l.state = "open" /\ l.queue = <<m>>
  OBVIOUS
<1>8. Fold(v, <<m>>) = p
  BY <1>4, <1>5, FoldOne, ReplayedIs
<1>9. Room(<<m>>) >= 0
  <2>1. Len(<<m>>) = 1 /\ <<m>> # <<>> /\ Head(<<m>>) = m
    BY <1>4
  <2>2. Room(<<m>>) = ClientBuffer - (Len(<<m>>) - 1)
    BY <1>5, <2>1, RoomIs
  <2>3. ClientBuffer \in Nat
    BY BoundsAre
  <2> QED
    BY <2>1, <2>2, <2>3
<1> HIDE DEF l
<1>10. v \in View /\ view' = [view EXCEPT ![b] = v]
  BY <1>2 DEF StreamsOK
<1> HIDE DEF v
<1>11. l.state = "open" => Match(Fold(v, l.queue), apps, cluster, feed.notes, restartedAt)
  BY <1>3, <1>7, <1>8
<1>12. changes' \in 0 .. MaxChanges
  BY <1>2 DEF PictureOK
<1>13. Room(l.queue) >= 0
  BY <1>7, <1>9
<1> QED
  BY <1>1, <1>2, <1>6, <1>10, <1>11, <1>12, <1>13, LinkChanged

LEMMA RoomOfTail ==
  ASSUME NEW q \in Seq(Msg), q # <<>>, Room(q) >= 0
  PROVE  Room(Tail(q)) >= 0
<1> DEFINE r == Tail(q)
           a == Len(q)
<1>1. r \in Seq(Msg) /\ Len(r) = a - 1
  BY HeadTailProperties
<1>2. a \in Nat /\ a >= 1 /\ ClientBuffer \in Nat
  BY EmptySeq, LenProperties, BoundsAre
<1>3. Room(q) = ClientBuffer - (a - 1) \/ Room(q) = ClientBuffer - a
  BY RoomIs
<1> HIDE DEF r
<1>4. Room(r) = ClientBuffer - (Len(r) - 1) \/ Room(r) = ClientBuffer - Len(r)
  BY RoomIs
<1> HIDE DEF a
<1>5. Room(r) = ClientBuffer - (a - 2) \/ Room(r) = ClientBuffer - (a - 1)
  <2>1. Len(r) - 1 = a - 2
    BY <1>1, <1>2
  <2> QED
    BY <1>1, <1>4, <2>1
<1>6. ClientBuffer >= a - 1
  BY <1>2, <1>3
<1>7. Room(r) >= 0
  BY <1>2, <1>5, <1>6
<1> QED
  BY <1>7 DEF r

LEMMA DeliveredStreams ==
  ASSUME PictureOK, StreamsOK, AddsUp, NEW b \in Browser, Deliver(b)
  PROVE  PictureOK' /\ StreamsOK' /\ AddsUp'
<1> DEFINE st == stream[b]
           q == st.queue
           r == Tail(q)
           l == [st EXCEPT !.queue = r]
           v == Replayed(view[b], Head(q))
<1>1. /\ q # <<>> /\ stream' = [stream EXCEPT ![b] = l] /\ view' = [view EXCEPT ![b] = v]
      /\ UNCHANGED <<changes, objects, brokenSince, apps, cluster, feed, restartedAt>>
  <2>1. q # <<>> /\ UNCHANGED <<changes, objects, brokenSince, apps, cluster, feed, restartedAt>>
    BY DEF Deliver, objectVars, pictureVars
  <2>2. stream' = [stream EXCEPT ![b] = l]
    BY DEF Deliver
  <2>3. view' = [view EXCEPT ![b] = v]
    BY DEF Deliver
  <2> QED
    BY <2>1, <2>2, <2>3
<1>2. st \in Link /\ q \in Seq(Msg) /\ Room(q) >= 0 /\ view[b] \in View
  BY DEF StreamsOK, Link
<1>3. Head(q) \in Msg /\ r \in Seq(Msg)
  BY <1>1, <1>2, HeadTailProperties
<1>4. v \in View
  BY <1>2, <1>3, ReplayedView
<1>5. Room(r) >= 0
  BY <1>1, <1>2, RoomOfTail
<1>6. Fold(view[b], q) = Fold(v, r)
  BY <1>1, <1>2, FoldHead
<1>7. st.state = "open" => Match(Fold(view[b], q), apps, cluster, feed.notes, restartedAt)
  BY DEF AddsUp
<1> HIDE DEF r, v
<1>8. l \in Link /\ l.queue = r /\ l.state = st.state
  <2> HIDE DEF st, q
  <2> QED
    BY <1>2, <1>3 DEF Link
<1> HIDE DEF l, st, q
<1>9. changes' \in 0 .. MaxChanges
  BY <1>1 DEF PictureOK
<1>10. l.state = "open" => Match(Fold(v, l.queue), apps, cluster, feed.notes, restartedAt)
  BY <1>6, <1>7, <1>8
<1>11. Room(l.queue) >= 0
  BY <1>5, <1>8
<1> QED
  BY <1>1, <1>4, <1>8, <1>9, <1>10, <1>11, LinkChanged

LEMMA EndedStreams ==
  ASSUME PictureOK, StreamsOK, AddsUp, NEW b \in Browser, stream' = [stream EXCEPT ![b] = NoStream],
         changes' \in 0 .. MaxChanges,
         UNCHANGED <<objects, brokenSince, apps, cluster, feed, restartedAt, view>>
  PROVE  PictureOK' /\ StreamsOK' /\ AddsUp'
<1> DEFINE l == NoStream
           v == view[b]
<1>1. l \in Link /\ Room(l.queue) >= 0 /\ l.state # "open"
  BY NoLink
<1>2. stream' = [stream EXCEPT ![b] = l]
  OBVIOUS
<1> HIDE DEF l
<1>3. v \in View /\ view' = [view EXCEPT ![b] = v]
  BY DEF StreamsOK
<1> HIDE DEF v
<1> QED
  BY <1>1, <1>2, <1>3, LinkChanged

LEMMA RestartedStreams ==
  ASSUME PictureOK, StreamsOK, Restart
  PROVE  PictureOK' /\ StreamsOK' /\ AddsUp'
<1>1. /\ changes < MaxChanges /\ changes' = changes + 1
      /\ objects' = [s \in Subject |-> 0] /\ apps' = [s \in Subject |-> 0]
      /\ brokenSince' = Never /\ cluster' = "connected" /\ restartedAt' = changes + 1
      /\ feed' = EmptyFeed
      /\ stream' = [b \in Browser |-> NoStream] /\ view' = view
  BY DEF Restart, Happens
<1>2. changes' \in 0 .. MaxChanges /\ restartedAt' \in 0 .. MaxChanges
  BY <1>1, BoundsAre DEF PictureOK
<1>3. 0 \in Version
  BY BoundsAre DEF Version
<1>4. feed' \in [notes : Seq(Note), nextID : Nat] /\ feed'.notes = <<>>
  BY <1>1 DEF EmptyFeed
<1>5. Len(feed'.notes) <= FeedSize
  BY <1>4, EmptySeq, BoundsAre
<1>6. PictureOK'
  BY <1>1, <1>2, <1>3, <1>4, <1>5 DEF PictureOK, Connection
<1>7. \A b \in Browser : stream'[b] = NoStream
  BY <1>1
<1>8. stream' \in [Browser -> Link]
  BY <1>1, NoLink
<1>9. \A b \in Browser : Room(stream'[b].queue) >= 0
  BY <1>7, NoLink
<1>10. StreamsOK'
  BY <1>1, <1>8, <1>9 DEF StreamsOK, Room
<1>11. AddsUp'
  BY <1>7, NoLink DEF AddsUp
<1> QED
  BY <1>6, <1>10, <1>11

LEMMA StreamsStep ==
  ASSUME EventsOK, PictureOK, StreamsOK, AddsUp, [ArgusNext]_argusVars
  PROVE  PictureOK' /\ StreamsOK' /\ AddsUp'
<1>1. /\ changes \in 0 .. MaxChanges /\ objects \in [Subject -> Version]
      /\ brokenSince \in Time \cup {Never} /\ now \in Time
  BY DEF PictureOK, EventsOK
<1>2. ASSUME Happens PROVE changes' \in 0 .. MaxChanges /\ changes + 1 \in 1 .. MaxChanges
  BY <1>1, <1>2, BoundsAre DEF Happens
<1>3. ASSUME UNCHANGED argusVars PROVE PictureOK' /\ StreamsOK' /\ AddsUp'
  <2>1. UNCHANGED <<changes, objects, brokenSince, apps, cluster, feed, restartedAt, stream, view>>
    BY <1>3 DEF argusVars, objectVars, pictureVars, streamVars
  <2> QED
    BY <1>1, <2>1, QuietStreams
<1>4. ASSUME NEW s \in Subject, Put(s) \/ Delete(s) PROVE PictureOK' /\ StreamsOK' /\ AddsUp'
  <2>1. UNCHANGED <<brokenSince, apps, cluster, feed, restartedAt, stream, view>> /\ Happens
    BY <1>4 DEF Put, Delete, pictureVars, streamVars
  <2>2. changes' \in 0 .. MaxChanges /\ changes + 1 \in 1 .. MaxChanges
    BY <1>2, <2>1
  <2>3. changes + 1 \in Version /\ -(changes + 1) \in Version
    BY <1>1, <2>2, BoundsAre DEF Version
  <2>4. objects' \in [Subject -> Version]
    BY <1>1, <1>4, <2>3 DEF Put, Delete
  <2> QED
    BY <1>1, <2>1, <2>2, <2>4, QuietStreams
<1>5. ASSUME NEW e \in Event, PutNewEvent(e) PROVE PictureOK' /\ StreamsOK' /\ AddsUp'
  <2>1. PICK t \in 0 .. now : Noticed(e, t)
    BY <1>5 DEF PutNewEvent
  <2>2. UNCHANGED <<objects, brokenSince, apps, cluster, restartedAt, view>> /\ Happens
    BY <1>5 DEF PutNewEvent
  <2>3. changes' \in 0 .. MaxChanges
    BY <1>2, <2>2
  <2> QED
    BY <2>1, <2>2, <2>3, NoticedStreams
<1>6. ASSUME NEW e \in Event, UpdateEvent(e) PROVE PictureOK' /\ StreamsOK' /\ AddsUp'
  <2>1. PICK t \in event[e] + 1 .. now :
          \/ e \in dropped /\ Noticed(e, t)
          \/ e \notin dropped /\ UNCHANGED <<feed, stream, held, dropped, told>>
    BY <1>6 DEF UpdateEvent
  <2>2. UNCHANGED <<objects, brokenSince, apps, cluster, restartedAt, view>> /\ Happens
    BY <1>6 DEF UpdateEvent
  <2>3. changes' \in 0 .. MaxChanges
    BY <1>2, <2>2
  <2>4. CASE Noticed(e, t)
    BY <2>2, <2>3, <2>4, NoticedStreams
  <2>5. CASE UNCHANGED <<feed, stream>>
    <3>1. objects' \in [Subject -> Version] /\ brokenSince' \in Time \cup {Never}
      BY <1>1, <2>2
    <3> QED
      BY <2>2, <2>3, <2>5, <3>1, QuietStreams
  <2> QED
    BY <2>1, <2>4, <2>5
<1>7. ASSUME NEW e \in Event, DeleteEvent(e) PROVE PictureOK' /\ StreamsOK' /\ AddsUp'
  <2>1. /\ UNCHANGED <<objects, brokenSince, apps, cluster, feed, restartedAt, stream, view>>
        /\ Happens
    BY <1>7 DEF DeleteEvent, streamVars
  <2>2. changes' \in 0 .. MaxChanges
    BY <1>2, <2>1
  <2> QED
    BY <1>1, <2>1, <2>2, QuietStreams
<1>8. ASSUME NEW p \in Probe, PutPod(p) PROVE PictureOK' /\ StreamsOK' /\ AddsUp'
  <2>1. /\ UNCHANGED <<objects, brokenSince, apps, cluster, feed, restartedAt, stream, view>>
        /\ Happens
    BY <1>8 DEF PutPod, pictureVars, streamVars
  <2>2. changes' \in 0 .. MaxChanges
    BY <1>2, <2>1
  <2> QED
    BY <1>1, <2>1, <2>2, QuietStreams
<1>9. ASSUME SetReachable PROVE PictureOK' /\ StreamsOK' /\ AddsUp'
  <2>1. /\ UNCHANGED <<objects, apps, cluster, feed, restartedAt, stream, view>> /\ Happens
        /\ brokenSince' = IF brokenSince = Never THEN now ELSE Never
    BY <1>9 DEF SetReachable, pictureVars, streamVars
  <2>2. changes' \in 0 .. MaxChanges
    BY <1>2, <2>1
  <2>3. brokenSince' \in Time \cup {Never}
    BY <1>1, <2>1
  <2> QED
    BY <1>1, <2>1, <2>2, <2>3, QuietStreams
<1>10. ASSUME Tick PROVE PictureOK' /\ StreamsOK' /\ AddsUp'
  <2>1. UNCHANGED <<changes, objects, brokenSince, apps, cluster, feed, restartedAt, stream, view>>
    BY <1>10 DEF Tick, objectVars, pictureVars, streamVars
  <2> QED
    BY <1>1, <2>1, QuietStreams
<1>11. ASSUME Recompute PROVE PictureOK' /\ StreamsOK' /\ AddsUp'
  <2>1. Recomputing(seeding) /\ UNCHANGED <<changes, objects, brokenSince, restartedAt, view>>
    BY <1>11 DEF Recompute, objectVars
  <2> QED
    BY <1>1, <2>1, RecomputedStreams
<1>12. ASSUME SeedBegins PROVE PictureOK' /\ StreamsOK' /\ AddsUp'
  <2>1. Recomputing("between") /\ UNCHANGED <<changes, objects, brokenSince, restartedAt, view>>
    BY <1>12 DEF SeedBegins, objectVars
  <2> QED
    BY <1>1, <2>1, RecomputedStreams
<1>13. ASSUME SeedEnds PROVE PictureOK' /\ StreamsOK' /\ AddsUp'
  BY <1>13, SeededStreams
<1>14. ASSUME NEW b \in Browser, Subscribe(b) PROVE PictureOK' /\ StreamsOK' /\ AddsUp'
  BY <1>14, SubscribedStreams
<1>15. ASSUME NEW b \in Browser, Deliver(b) PROVE PictureOK' /\ StreamsOK' /\ AddsUp'
  BY <1>15, DeliveredStreams
<1>16. ASSUME NEW b \in Browser, StreamEnds(b) PROVE PictureOK' /\ StreamsOK' /\ AddsUp'
  <2>1. /\ stream' = [stream EXCEPT ![b] = NoStream]
        /\ UNCHANGED <<changes, objects, brokenSince, apps, cluster, feed, restartedAt, view>>
    BY <1>16 DEF StreamEnds, objectVars, pictureVars
  <2>2. changes' \in 0 .. MaxChanges
    BY <1>1, <2>1
  <2> QED
    BY <2>1, <2>2, EndedStreams
<1>17. ASSUME NEW b \in Browser, Break(b) PROVE PictureOK' /\ StreamsOK' /\ AddsUp'
  <2>1. /\ stream' = [stream EXCEPT ![b] = NoStream] /\ Happens
        /\ UNCHANGED <<objects, brokenSince, apps, cluster, feed, restartedAt, view>>
    BY <1>17 DEF Break, objectVars, pictureVars
  <2>2. changes' \in 0 .. MaxChanges
    BY <1>2, <2>1
  <2> QED
    BY <2>1, <2>2, EndedStreams
<1>18. ASSUME Restart PROVE PictureOK' /\ StreamsOK' /\ AddsUp'
  BY <1>18, RestartedStreams
<1> QED
  BY <1>3, <1>4, <1>5, <1>6, <1>7, <1>8, <1>9, <1>10, <1>11, <1>12, <1>13, <1>14, <1>15,
     <1>16, <1>17, <1>18 DEF ArgusNext

LEMMA StreamsInit == ArgusInit => PictureOK /\ StreamsOK /\ AddsUp
<1> SUFFICES ASSUME ArgusInit PROVE PictureOK /\ StreamsOK /\ AddsUp
  OBVIOUS
<1>1. /\ changes = 0 /\ objects = [s \in Subject |-> 0] /\ apps = [s \in Subject |-> 0]
      /\ brokenSince = Never /\ cluster = "connected" /\ restartedAt = 0 /\ feed = EmptyFeed
      /\ stream = [b \in Browser |-> NoStream] /\ view = [b \in Browser |-> EmptyPicture]
  BY DEF ArgusInit
<1>2. 0 \in Version /\ 0 \in 0 .. MaxChanges
  BY BoundsAre DEF Version
<1>3. feed \in [notes : Seq(Note), nextID : Nat] /\ feed.notes = <<>>
  BY <1>1 DEF EmptyFeed
<1>4. Len(feed.notes) <= FeedSize
  BY <1>3, EmptySeq, BoundsAre
<1>5. PictureOK
  BY <1>1, <1>2, <1>3, <1>4 DEF PictureOK, Connection
<1>6. EmptyPicture \in View
  <2>1. EmptyPicture \in Picture
    BY <1>2 DEF EmptyPicture, Picture, Connection
  <2>2. EmptyPicture.notes = <<>>
    BY DEF EmptyPicture
  <2>3. Len(EmptyPicture.notes) <= FeedSize
    BY <2>2, EmptySeq, BoundsAre
  <2> QED
    BY <2>1, <2>3 DEF View
<1>7. StreamsOK
  BY <1>1, <1>6, NoLink DEF StreamsOK
<1>8. AddsUp
  BY <1>1, NoLink DEF AddsUp
<1> QED
  BY <1>5, <1>7, <1>8

LEMMA StreamsAlways == ArgusSpec => [](EventsOK /\ PictureOK /\ StreamsOK /\ AddsUp)
<1>1. (PictureOK /\ StreamsOK /\ AddsUp) /\ EventsOK /\ [ArgusNext]_argusVars
        => (PictureOK /\ StreamsOK /\ AddsUp)'
  BY StreamsStep
<1> QED
  BY <1>1, StreamsInit, FatesAlways, PTL DEF ArgusSpec

(* Whatever a browser has seen, and however its streams were cut short, filled up or
   opened again (store.go, server.go), a stream that is still open
   carries it to the picture of the store: the snapshot and the channel are taken under
   one lock, and a stream that does not get every frame is closed.  With it, the types
   of all of Argus' state: no queue outgrows its channel, and no feed its size. *)
THEOREM StreamsAddUp == ArgusSpec => []StreamAddsUp
<1>1. EventsOK /\ PictureOK /\ StreamsOK /\ AddsUp => StreamAddsUp
  <2> SUFFICES ASSUME EventsOK, PictureOK, StreamsOK, AddsUp PROVE StreamAddsUp
    OBVIOUS
  <2>1. ASSUME NEW b \in Browser
        PROVE  /\ stream[b].state \in {"none", "open", "closed"}
               /\ stream[b].queue \in Seq(Message) /\ Len(stream[b].queue) <= ClientBuffer + 1
               /\ view[b] \in Picture /\ Len(view[b].notes) <= FeedSize
    <3> DEFINE q == stream[b].queue
    <3>1. stream[b].state \in {"none", "open", "closed"} /\ q \in Seq(Msg) /\ Room(q) >= 0
          /\ view[b] \in View
      BY DEF StreamsOK, Link
    <3> HIDE DEF q
    <3>2. q \in Seq(Message)
      <4>1. Msg \subseteq Message
        BY DEF Msg
      <4> QED
        BY <3>1, <4>1, SeqMonotonic
    <3>3. Len(q) <= ClientBuffer + 1
      <4>1. Len(q) \in Nat /\ ClientBuffer \in Nat
        BY <3>1, LenProperties, BoundsAre
      <4>2. Room(q) = ClientBuffer - (Len(q) - 1) \/ Room(q) = ClientBuffer - Len(q)
        BY RoomIs
      <4> QED
        BY <3>1, <4>1, <4>2
    <3> QED
      BY <3>1, <3>2, <3>3 DEF q, View
  <2>2. feed.notes \in Seq(Note) /\ Len(feed.notes) <= FeedSize /\ feed.nextID \in Nat
    BY DEF PictureOK
  <2>3. dropped \in SUBSET Probe
    BY DEF EventsOK
  <2>4. ArgusTypeOK
    BY <2>1, <2>2, <2>3 DEF EventsOK, PictureOK, ArgusTypeOK
  <2>5. ASSUME NEW b \in Browser, stream[b].state = "open"
        PROVE  LET final == FoldLeft(Replayed, view[b], stream[b].queue)
               IN /\ \A s \in Subject : Same(final.apps[s], apps[s])
                  /\ final.cluster = cluster
                  /\ final.notes = feed.notes
                  /\ final.restartedAt = restartedAt
    <3> DEFINE w == Fold(view[b], stream[b].queue)
    <3>1. Match(w, apps, cluster, feed.notes, restartedAt)
      BY <2>5 DEF AddsUp
    <3>2. FoldLeft(Replayed, view[b], stream[b].queue) = w
      BY DEF Fold
    <3> HIDE DEF w
    <3> QED
      BY <3>1, <3>2, Zenon DEF Match
  <2> QED
    BY <2>4, <2>5, Zenon DEF StreamAddsUp
<1> QED
  BY <1>1, StreamsAlways, PTL

-----------------------------------------------------------------------------
(* The order of what a browser shows *)

(* What a browser goes on to show is no older, until Argus is replaced. *)
Forward(v, w) ==
  w.restartedAt = v.restartedAt =>
    /\ LastID(v) <= LastID(w)
    /\ \A s \in Subject : Revision(v.apps[s]) <= Revision(w.apps[s])

(* w is no newer than the picture that has the Subjects a, the last note l and the
   start r. *)
Behind(w, a, l, r) ==
  /\ w.restartedAt <= r
  /\ w.restartedAt = r =>
       /\ LastID(w) <= l
       /\ \A s \in Subject : Revision(w.apps[s]) <= Revision(a[s])

(* The views a browser goes through with what is on its way. *)
Trail(v, q, G, a, l, r) ==
  /\ Goes(v, Len(q), q, G)
  /\ \A i \in 0 .. Len(q) : G[i] \in View /\ Behind(G[i], a, l, r)
  /\ \A i \in 1 .. Len(q) : Forward(G[i - 1], G[i])

InOrder ==
  \A b \in Browser :
    \E G : Trail(view[b], stream[b].queue, G, apps, LastID(feed), restartedAt)

(* Nothing is numbered ahead. *)
Counted ==
  /\ restartedAt <= changes
  /\ \A s \in Subject : Revision(apps[s]) <= Revision(objects[s]) /\ Revision(objects[s]) <= changes
  /\ LastID(feed) <= feed.nextID

LEMMA RevisionIs ==
  ASSUME NEW v \in Version
  PROVE  /\ Revision(v) \in Nat
         /\ v >= 0 => Revision(v) = v
         /\ v < 0 => Revision(v) = -v
<1>1. v \in Int
  BY BoundsAre DEF Version
<1> QED
  BY <1>1 DEF Revision

LEMMA LastIDIs ==
  ASSUME NEW w, w.notes \in Seq(Note)
  PROVE  /\ LastID(w) \in Nat
         /\ w.notes = <<>> => LastID(w) = 0
         /\ w.notes # <<>> => LastID(w) = w.notes[Len(w.notes)].id
<1> DEFINE n == w.notes
           k == Len(n)
<1>1. CASE n = <<>>
  <2>1. LastID(w) = 0
    BY <1>1 DEF LastID
  <2> QED
    BY <1>1, <2>1
<1>2. CASE n # <<>>
  <2>1. LastID(w) = n[k].id
    BY <1>2 DEF LastID, Last
  <2>2. k \in 1 .. k
    <3>1. k \in Nat \ {0}
      BY <1>2, EmptySeq
    <3> QED
      BY <3>1
  <2>3. n[k] \in Note
    BY <2>2, ElementOfSeq
  <2> HIDE DEF k
  <2>4. n[k].id \in Nat
    BY <2>3 DEF Note
  <2> QED
    BY <1>2, <2>1, <2>4 DEF k
<1> QED
  BY <1>1, <1>2

LEMMA ViewNotes == ASSUME NEW w \in View
                   PROVE  w.notes \in Seq(Note) /\ w.apps \in [Subject -> Version] /\ w.restartedAt \in Nat
<1>1. w.notes \in Seq(Note) /\ w.apps \in [Subject -> Version] /\ w.restartedAt \in 0 .. MaxChanges
  BY DEF View, Picture
<1> QED
  BY <1>1

(* The last of what is kept is the last of what was given. *)
LEMMA LastTrimmed ==
  ASSUME NEW x \in Seq(Note), x # <<>>, NEW w, w.notes = Trimmed(x)
  PROVE  LastID(w) = x[Len(x)].id
<1> DEFINE n == Len(x)
           F == FeedSize
           t == Trimmed(x)
<1>1. n \in Nat /\ n >= 1 /\ F \in Nat /\ F >= 1
  BY EmptySeq, BoundsAre
<1>2. CASE n <= F
  <2>1. w.notes = x
    BY <1>2, TrimmedIs
  <2> QED
    BY <2>1, LastIDIs
<1>3. CASE n > F
  <2>1. t \in Seq(Note) /\ Len(t) = F /\ \A i \in 1 .. F : t[i] = x[n - F + i]
    BY <1>3, TrimmedIs
  <2>2. w.notes = t
    OBVIOUS
  <2> HIDE DEF t, F, n
  <2>3. F \in 1 .. F /\ n - F + F = n
    BY <1>1
  <2>4. t[F] = x[n]
    BY <2>1, <2>3
  <2>5. t # <<>>
    <3>1. Len(<<>>) = 0
      BY EmptySeq
    <3> QED
      BY <1>1, <2>1, <3>1
  <2>6. LastID(w) = w.notes[Len(w.notes)].id
    BY <2>1, <2>2, <2>5, LastIDIs
  <2> QED
    BY <2>1, <2>2, <2>4, <2>6 DEF n
<1> QED
  BY <1>1, <1>2, <1>3

(* One frame takes a view forward: a Subject to the picture's version of it, or a note
   to the next. *)
LEMMA Advances ==
  ASSUME NEW w \in View, NEW m \in Msg, m.type # "snapshot",
         NEW a \in [Subject -> Version], NEW j \in Nat, NEW k \in Nat,
         \A s \in Subject : Revision(w.apps[s]) <= Revision(a[s]), LastID(w) <= j,
         m.type = "subject" => m.version = a[m.name],
         m.type = "note" => j <= m.note.id /\ k = m.note.id,
         m.type # "note" => k = j
  PROVE  /\ Replayed(w, m).restartedAt = w.restartedAt
         /\ \A s \in Subject : Revision(Replayed(w, m).apps[s]) <= Revision(a[s])
         /\ LastID(Replayed(w, m)) <= k
         /\ Forward(w, Replayed(w, m))
<1> DEFINE u == Replayed(w, m)
           x == w.apps
           c == w.cluster
           n == w.notes
           r == w.restartedAt
<1>1. w = Shown(x, c, n, r) /\ x \in [Subject -> Version] /\ n \in Seq(Note)
  BY ShownIs DEF View
<1>2. \A s \in Subject : Revision(x[s]) \in Nat /\ Revision(a[s]) \in Nat /\ Revision(x[s]) <= Revision(a[s])
  BY <1>1, RevisionIs
<1>3. LastID(w) \in Nat /\ LastID(w) <= j
  BY <1>1, LastIDIs
<1>4. r = w.restartedAt /\ x = w.apps /\ n = w.notes
  OBVIOUS
<1>5. CASE m.type = "subject"
  <2> DEFINE y == [x EXCEPT ![m.name] = m.version]
  <2>1. u = Shown(y, c, n, r)
    BY <1>1, <1>5, SubjectShown
  <2>2. m.name \in Subject /\ m.version = a[m.name] /\ k = j
    BY <1>5, MsgIs
  <2>3. \A s \in Subject : y[s] = x[s] \/ y[s] = a[s]
    BY <1>1, <2>2
  <2> HIDE DEF y
  <2>4. u.apps = y /\ u.notes = n /\ u.restartedAt = r
    BY <2>1 DEF Shown
  <2> HIDE DEF u, x, n, r
  <2>5. LastID(u) = LastID(w)
    BY <1>4, <2>4 DEF LastID
  <2>6. \A s \in Subject : Revision(u.apps[s]) <= Revision(a[s]) /\ Revision(x[s]) <= Revision(u.apps[s])
    BY <1>2, <2>3, <2>4
  <2>7. LastID(u) <= k /\ LastID(w) <= LastID(u)
    BY <1>3, <2>2, <2>5
  <2>8. Forward(w, u)
    BY <1>4, <2>6, <2>7 DEF Forward
  <2> QED
    BY <1>4, <2>4, <2>6, <2>7, <2>8 DEF u
<1>6. CASE m.type = "cluster"
  <2>1. u = Shown(x, m.state, n, r)
    BY <1>1, <1>6, ClusterShown
  <2>2. k = j
    BY <1>6
  <2>4. u.apps = x /\ u.notes = n /\ u.restartedAt = r
    BY <2>1 DEF Shown
  <2> HIDE DEF u, x, n, r
  <2>5. LastID(u) = LastID(w)
    BY <1>4, <2>4 DEF LastID
  <2>6. \A s \in Subject : Revision(u.apps[s]) <= Revision(a[s]) /\ Revision(x[s]) <= Revision(u.apps[s])
    BY <1>2, <2>4
  <2>7. LastID(u) <= k /\ LastID(w) <= LastID(u)
    BY <1>3, <2>2, <2>5
  <2>8. Forward(w, u)
    BY <1>4, <2>6, <2>7 DEF Forward
  <2> QED
    BY <1>4, <2>4, <2>6, <2>7, <2>8 DEF u
<1>7. CASE m.type = "note"
  <2> DEFINE z == Append(n, m.note)
             t == Trimmed(z)
  <2>1. u = Shown(x, c, t, r)
    BY <1>1, <1>7, NoteShown
  <2>2. m.note \in Note /\ j <= m.note.id /\ k = m.note.id
    BY <1>7, MsgIs
  <2>3. z \in Seq(Note) /\ z # <<>> /\ z[Len(z)] = m.note
    <3>1. Len(z) = Len(n) + 1 /\ z[Len(n) + 1] = m.note /\ z \in Seq(Note) /\ z # <<>>
      BY <1>1, <2>2, AppendProperties
    <3> HIDE DEF z
    <3> QED
      BY <3>1
  <2> HIDE DEF z
  <2>4. u.apps = x /\ u.notes = t /\ u.restartedAt = r
    BY <2>1 DEF Shown
  <2>5. LastID(u) = m.note.id
    <3> HIDE DEF u
    <3>1. LastID(u) = z[Len(z)].id
      BY <2>3, <2>4, LastTrimmed
    <3> QED
      BY <2>3, <3>1
  <2> HIDE DEF t, u, x, n, r
  <2>6. \A s \in Subject : Revision(u.apps[s]) <= Revision(a[s]) /\ Revision(x[s]) <= Revision(u.apps[s])
    BY <1>2, <2>4
  <2>7. LastID(u) <= k /\ LastID(w) <= LastID(u)
    BY <1>3, <2>2, <2>5
  <2>8. Forward(w, u)
    BY <1>4, <2>6, <2>7 DEF Forward
  <2> QED
    BY <1>4, <2>4, <2>6, <2>7, <2>8 DEF u
<1> QED
  BY <1>5, <1>6, <1>7, MsgIs

At(w, a, r, k) ==
  /\ w \in View /\ w.restartedAt = r /\ LastID(w) <= k
  /\ \A s \in Subject : Revision(w.apps[s]) <= Revision(a[s])

(* The frames f bring the Subjects to a, and the notes to the numbers K. *)
Steps(f, a, K) ==
  \A i \in 1 .. Len(f) :
    /\ f[i].type # "snapshot"
    /\ f[i].type = "subject" => f[i].version = a[f[i].name]
    /\ f[i].type = "note" => K[i - 1] <= f[i].note.id /\ K[i] = f[i].note.id
    /\ f[i].type # "note" => K[i] = K[i - 1]

LEMMA Walk ==
  ASSUME NEW f \in Seq(Msg), NEW n \in 0 .. Len(f), NEW v, NEW H, Goes(v, n, f, H),
         NEW a \in [Subject -> Version], NEW K \in [0 .. Len(f) -> Nat], Steps(f, a, K),
         NEW r, At(v, a, r, K[0])
  PROVE  /\ \A i \in 0 .. n : At(H[i], a, r, K[i])
         /\ \A i \in 1 .. n : Forward(H[i - 1], H[i])
<1>1. H[0] = v /\ \A i \in 1 .. n : H[i] = Replayed(H[i - 1], f[i])
  BY DEF Goes
<1>2. Len(f) \in Nat /\ n \in Nat /\ n <= Len(f)
  BY LenProperties
<1>3. ASSUME NEW i \in 1 .. n, At(H[i - 1], a, r, K[i - 1])
      PROVE  At(H[i], a, r, K[i]) /\ Forward(H[i - 1], H[i])
  <2>1. i \in 1 .. Len(f) /\ i \in 0 .. Len(f) /\ i - 1 \in 0 .. Len(f)
    BY <1>2
  <2> DEFINE w == H[i - 1]
             m == f[i]
             j == K[i - 1]
             k == K[i]
  <2>2. m \in Msg
    BY <2>1, ElementOfSeq
  <2>3. j \in Nat /\ k \in Nat
    BY <2>1
  <2>4. /\ m.type # "snapshot"
        /\ m.type = "subject" => m.version = a[m.name]
        /\ m.type = "note" => j <= m.note.id /\ k = m.note.id
        /\ m.type # "note" => k = j
    BY <2>1 DEF Steps
  <2>5. H[i] = Replayed(w, m)
    BY <1>1
  <2>6. At(w, a, r, j)
    BY <1>3
  <2> HIDE DEF w, m, j, k
  <2>7. w \in View /\ w.restartedAt = r /\ LastID(w) <= j
        /\ \A s \in Subject : Revision(w.apps[s]) <= Revision(a[s])
    BY <2>6 DEF At
  <2>8. m.type = "subject" => m.version = a[m.name]
    BY <2>4
  <2>9. m.type = "note" => j <= m.note.id /\ k = m.note.id
    BY <2>4
  <2>10. m.type # "note" => k = j
    BY <2>4
  <2>11. m.type # "snapshot"
    BY <2>4
  <2> DEFINE u == Replayed(w, m)
  <2>12. /\ u.restartedAt = w.restartedAt
         /\ \A s \in Subject : Revision(u.apps[s]) <= Revision(a[s])
         /\ LastID(u) <= k
         /\ Forward(w, u)
    BY <2>2, <2>3, <2>7, <2>8, <2>9, <2>10, <2>11, Advances
  <2>13. u \in View
    BY <2>2, <2>7, ReplayedView
  <2> HIDE DEF u
  <2>14. At(u, a, r, k) /\ Forward(w, u)
    BY <2>7, <2>12, <2>13 DEF At
  <2> QED
    BY <2>5, <2>14 DEF u, w, k
<1> DEFINE T == {i \in Nat : i <= n => At(H[i], a, r, K[i])}
<1>4. 0 \in T
  BY <1>1
<1>5. ASSUME NEW i \in Nat, i \in T PROVE i + 1 \in T
  <2> SUFFICES ASSUME i + 1 <= n PROVE At(H[i + 1], a, r, K[i + 1])
    OBVIOUS
  <2>1. i <= n /\ i + 1 \in 1 .. n /\ (i + 1) - 1 = i
    BY <1>2
  <2>2. At(H[i], a, r, K[i])
    BY <1>5, <2>1
  <2> DEFINE x == i + 1
  <2>3. x \in 1 .. n /\ x - 1 = i
    BY <2>1
  <2> HIDE DEF x
  <2>4. At(H[x], a, r, K[x])
    BY <1>3, <2>2, <2>3
  <2> QED
    BY <2>4 DEF x
<1> HIDE DEF T
<1>6. \A i \in Nat : i \in T
  BY <1>4, <1>5, NaturalInduction
<1>7. \A i \in 0 .. n : At(H[i], a, r, K[i])
  BY <1>2, <1>6 DEF T
<1>8. \A i \in 1 .. n : Forward(H[i - 1], H[i])
  <2> SUFFICES ASSUME NEW i \in 1 .. n PROVE Forward(H[i - 1], H[i])
    OBVIOUS
  <2>1. i - 1 \in 0 .. n
    BY <1>2
  <2> QED
    BY <1>3, <1>7, <2>1
<1> QED
  BY <1>7, <1>8

LEMMA TrailGrows ==
  ASSUME NEW v, NEW q \in Seq(Msg), NEW G,
         NEW a \in [Subject -> Version], NEW l \in Nat, NEW r, Trail(v, q, G, a, l, r),
         NEW a2 \in [Subject -> Version], NEW l2 \in Nat,
         \A s \in Subject : Revision(a[s]) <= Revision(a2[s]), l <= l2
  PROVE  Trail(v, q, G, a2, l2, r)
<1>1. ASSUME NEW w \in View, Behind(w, a, l, r) PROVE Behind(w, a2, l2, r)
  <2>1. LastID(w) \in Nat /\ \A s \in Subject : Revision(w.apps[s]) \in Nat
    BY ViewNotes, LastIDIs, RevisionIs
  <2>2. \A s \in Subject : Revision(a[s]) \in Nat /\ Revision(a2[s]) \in Nat
    BY RevisionIs
  <2>3. w.restartedAt <= r
    BY <1>1 DEF Behind
  <2>4. ASSUME w.restartedAt = r
        PROVE  LastID(w) <= l2 /\ \A s \in Subject : Revision(w.apps[s]) <= Revision(a2[s])
    <3>1. LastID(w) <= l /\ \A s \in Subject : Revision(w.apps[s]) <= Revision(a[s])
      BY <1>1, <2>4 DEF Behind
    <3>2. LastID(w) <= l2
      BY <2>1, <3>1
    <3>3. \A s \in Subject : Revision(w.apps[s]) <= Revision(a2[s])
      BY <2>1, <2>2, <3>1
    <3> QED
      BY <3>2, <3>3
  <2> QED
    BY <2>3, <2>4 DEF Behind
<1>2. \A i \in 0 .. Len(q) : G[i] \in View /\ Behind(G[i], a, l, r)
  BY DEF Trail
<1>3. \A i \in 0 .. Len(q) : G[i] \in View /\ Behind(G[i], a2, l2, r)
  BY <1>1, <1>2
<1> QED
  BY <1>3 DEF Trail

LEMMA TrailExtended ==
  ASSUME NEW v, NEW q \in Seq(Msg), NEW G, NEW a, NEW l, NEW r, Trail(v, q, G, a, l, r),
         NEW g \in Seq(Msg), NEW H, Goes(G[Len(q)], Len(g), g, H),
         \A i \in 0 .. Len(g) : H[i] \in View /\ Behind(H[i], a, l, r),
         \A i \in 1 .. Len(g) : Forward(H[i - 1], H[i])
  PROVE  \E F : Trail(v, q \o g, F, a, l, r)
<1> DEFINE n == Len(q)
           k == Len(g)
           p == q \o g
           F == [i \in 0 .. n + k |-> IF i <= n THEN G[i] ELSE H[i - n]]
<1>1. n \in Nat /\ k \in Nat
  BY LenProperties
<1>2. /\ p \in Seq(Msg) /\ Len(p) = n + k
      /\ \A i \in 1 .. n + k : p[i] = IF i <= n THEN q[i] ELSE g[i - n]
  BY ConcatProperties
<1>3. G[0] = v /\ \A i \in 1 .. n : G[i] = Replayed(G[i - 1], q[i])
  BY DEF Trail, Goes
<1>4. H[0] = G[n] /\ \A i \in 1 .. k : H[i] = Replayed(H[i - 1], g[i])
  BY DEF Goes
<1>5. /\ \A i \in 0 .. n : G[i] \in View /\ Behind(G[i], a, l, r)
      /\ \A i \in 1 .. n : Forward(G[i - 1], G[i])
  BY DEF Trail
<1>6. /\ \A i \in 0 .. k : H[i] \in View /\ Behind(H[i], a, l, r)
      /\ \A i \in 1 .. k : Forward(H[i - 1], H[i])
  OBVIOUS
<1> HIDE DEF n, k, p
<1>7. \A i \in 0 .. n : F[i] = G[i]
  BY <1>1
<1>8. \A i \in 1 .. k : F[n + i] = H[i]
  <2> SUFFICES ASSUME NEW i \in 1 .. k PROVE F[n + i] = H[i]
    OBVIOUS
  <2>1. n + i \in 0 .. n + k /\ ~(n + i <= n) /\ (n + i) - n = i
    BY <1>1
  <2> QED
    BY <2>1
<1> HIDE DEF F
<1>9. \A i \in 0 .. k : F[n + i] = H[i]
  <2> SUFFICES ASSUME NEW i \in 0 .. k PROVE F[n + i] = H[i]
    OBVIOUS
  <2>1. CASE i = 0
    <3>1. n + i = n /\ n \in 0 .. n
      BY <1>1, <2>1
    <3> QED
      BY <1>4, <1>7, <2>1, <3>1
  <2>2. CASE i # 0
    <3>1. i \in 1 .. k
      BY <1>1, <2>2
    <3> QED
      BY <1>8, <3>1
  <2> QED
    BY <2>1, <2>2
<1>10. \A i \in 0 .. n + k : i \in 0 .. n \/ (i - n \in 1 .. k /\ i = n + (i - n))
  BY <1>1
<1>11. ASSUME NEW i \in 1 .. n + k
       PROVE  F[i] = Replayed(F[i - 1], p[i]) /\ Forward(F[i - 1], F[i])
  <2>1. CASE i <= n
    <3>1. i \in 1 .. n /\ i \in 0 .. n /\ i - 1 \in 0 .. n
      BY <1>1, <2>1
    <3>2. F[i] = G[i] /\ F[i - 1] = G[i - 1] /\ p[i] = q[i]
      BY <1>2, <1>7, <2>1, <3>1
    <3> QED
      BY <1>3, <1>5, <3>1, <3>2
  <2>2. CASE ~(i <= n)
    <3> DEFINE j == i - n
    <3>1. j \in 1 .. k /\ j \in 0 .. k /\ j - 1 \in 0 .. k /\ i = n + j /\ i - 1 = n + (j - 1)
      BY <1>1, <2>2
    <3>2. p[i] = g[j]
      BY <1>2, <2>2
    <3> HIDE DEF j
    <3>3. F[i] = H[j] /\ F[i - 1] = H[j - 1]
      BY <1>9, <3>1
    <3> QED
      BY <1>4, <1>6, <3>1, <3>2, <3>3
  <2> QED
    BY <2>1, <2>2
<1>12. F[0] = v
  <2>1. 0 \in 0 .. n
    BY <1>1
  <2> QED
    BY <1>3, <1>7, <2>1
<1>13. Goes(v, n + k, p, F)
  BY <1>11, <1>12 DEF Goes
<1>14. \A i \in 0 .. n + k : F[i] \in View /\ Behind(F[i], a, l, r)
  <2> SUFFICES ASSUME NEW i \in 0 .. n + k PROVE F[i] \in View /\ Behind(F[i], a, l, r)
    OBVIOUS
  <2>1. CASE i \in 0 .. n
    BY <1>5, <1>7, <2>1
  <2>2. CASE i - n \in 1 .. k /\ i = n + (i - n)
    <3>1. F[i] = H[i - n] /\ i - n \in 0 .. k
      BY <1>1, <1>8, <2>2
    <3> QED
      BY <1>6, <3>1
  <2> QED
    BY <1>10, <2>1, <2>2
<1>15. Trail(v, p, F, a, l, r)
  BY <1>2, <1>11, <1>13, <1>14 DEF Trail
<1> QED
  BY <1>15 DEF p

LEMMA TrailHead ==
  ASSUME NEW v, NEW q \in Seq(Msg), q # <<>>, NEW G, NEW a, NEW l, NEW r,
         Trail(v, q, G, a, l, r)
  PROVE  /\ Forward(v, Replayed(v, Head(q)))
         /\ \E F : Trail(Replayed(v, Head(q)), Tail(q), F, a, l, r)
<1> DEFINE k == Len(q)
           p == Tail(q)
           F == [i \in 0 .. k - 1 |-> G[i + 1]]
<1>1. k \in Nat /\ k >= 1 /\ Head(q) = q[1]
  BY EmptySeq
<1>2. p \in Seq(Msg) /\ Len(p) = k - 1 /\ \A i \in 1 .. k - 1 : p[i] = q[i + 1]
  BY HeadTailProperties
<1>3. G[0] = v /\ \A i \in 1 .. k : G[i] = Replayed(G[i - 1], q[i])
  BY DEF Trail, Goes
<1>4. /\ \A i \in 0 .. k : G[i] \in View /\ Behind(G[i], a, l, r)
      /\ \A i \in 1 .. k : Forward(G[i - 1], G[i])
  BY DEF Trail
<1> HIDE DEF k, p
<1>5. 1 \in 1 .. k /\ 1 - 1 = 0
  BY <1>1
<1>6. G[1] = Replayed(v, Head(q)) /\ Forward(v, G[1])
  BY <1>1, <1>3, <1>4, <1>5
<1>7. \A i \in 0 .. k - 1 : F[i] = G[i + 1] /\ i + 1 \in 0 .. k
  BY <1>1
<1>8. F[0] = G[1]
  <2>1. 0 \in 0 .. k - 1 /\ 0 + 1 = 1
    BY <1>1
  <2> QED
    BY <1>7, <2>1
<1> HIDE DEF F
<1>9. ASSUME NEW i \in 1 .. k - 1
      PROVE  F[i] = Replayed(F[i - 1], p[i]) /\ Forward(F[i - 1], F[i])
  <2>1. /\ i \in 0 .. k - 1 /\ i - 1 \in 0 .. k - 1 /\ (i - 1) + 1 = i
        /\ i + 1 \in 1 .. k /\ (i + 1) - 1 = i
    BY <1>1
  <2>2. F[i] = G[i + 1] /\ F[i - 1] = G[i] /\ p[i] = q[i + 1]
    BY <1>2, <1>7, <2>1
  <2>3. G[i + 1] = Replayed(G[i], q[i + 1]) /\ Forward(G[i], G[i + 1])
    BY <1>3, <1>4, <2>1
  <2> QED
    BY <2>2, <2>3
<1>10. Goes(G[1], k - 1, p, F)
  BY <1>8, <1>9 DEF Goes
<1>11. \A i \in 0 .. k - 1 : F[i] \in View /\ Behind(F[i], a, l, r)
  BY <1>4, <1>7
<1>12. Trail(G[1], p, F, a, l, r)
  BY <1>2, <1>9, <1>10, <1>11 DEF Trail
<1> QED
  BY <1>6, <1>12 DEF p

LEMMA TrailNone ==
  ASSUME NEW v \in View, NEW a, NEW l, NEW r, Behind(v, a, l, r)
  PROVE  \E G : Trail(v, <<>>, G, a, l, r)
<1> DEFINE G == [i \in 0 .. 0 |-> v]
<1>1. Len(<<>>) = 0
  BY EmptySeq
<1>2. \A i \in 0 .. 0 : G[i] = v
  OBVIOUS
<1> HIDE DEF G
<1>3. Goes(v, 0, <<>>, G)
  <2>1. 0 \in 0 .. 0 /\ 1 .. 0 = {}
    OBVIOUS
  <2> QED
    BY <1>2, <2>1 DEF Goes
<1>4. 1 .. 0 = {}
  OBVIOUS
<1>5. Trail(v, <<>>, G, a, l, r)
  BY <1>1, <1>2, <1>3, <1>4 DEF Trail
<1> QED
  BY <1>5

LEMMA TrailOne ==
  ASSUME NEW v \in View, NEW a \in [Subject -> Version], NEW l \in Nat, NEW r \in Nat,
         Behind(v, a, l, r),
         NEW m \in Msg, m.type = "snapshot", m.picture.apps = a, LastID(m.picture) = l,
         m.picture.restartedAt = r
  PROVE  \E G : Trail(v, <<m>>, G, a, l, r)
<1> DEFINE p == m.picture
           G == [i \in 0 .. 1 |-> IF i = 0 THEN v ELSE p]
           q == <<m>>
<1>1. p \in View /\ p.apps = a /\ LastID(p) = l /\ p.restartedAt = r
  BY MsgIs
<1>2. Replayed(v, m) = p
  BY ReplayedIs
<1> HIDE DEF p
<1>3. \A s \in Subject : Revision(a[s]) \in Nat
  BY RevisionIs
<1>4. Behind(p, a, l, r)
  BY <1>1, <1>3 DEF Behind
<1>5. Forward(v, p)
  BY <1>1 DEF Forward, Behind
<1>6. Len(q) = 1 /\ q[1] = m
  OBVIOUS
<1> HIDE DEF q
<1>7. G[0] = v /\ G[1] = p
  OBVIOUS
<1> HIDE DEF G
<1>8. \A i \in 1 .. 1 : i = 1 /\ i - 1 = 0
  OBVIOUS
<1>9. \A i \in 0 .. 1 : i = 0 \/ i = 1
  OBVIOUS
<1>10. Goes(v, 1, q, G)
  BY <1>2, <1>6, <1>7, <1>8 DEF Goes
<1>11. \A i \in 0 .. 1 : G[i] \in View /\ Behind(G[i], a, l, r)
  BY <1>1, <1>4, <1>7, <1>9
<1>12. \A i \in 1 .. 1 : Forward(G[i - 1], G[i])
  BY <1>5, <1>7, <1>8
<1>13. Trail(v, q, G, a, l, r)
  BY <1>6, <1>10, <1>11, <1>12 DEF Trail
<1> QED
  BY <1>13 DEF q

(* Frames that bring a picture about: no notes among them, and its versions. *)
Bring(frames, a) ==
  \A i \in 1 .. Len(frames) :
    /\ frames[i].type # "note"
    /\ frames[i].type = "subject" => frames[i].version = a[frames[i].name]

LEMMA FeedLast == ASSUME PictureOK PROVE LastID(feed) \in Nat /\ feed.notes \in Seq(Note) /\ feed.nextID \in Nat
<1>1. feed.notes \in Seq(Note) /\ feed.nextID \in Nat
  BY DEF PictureOK
<1> QED
  BY <1>1, LastIDIs

LEMMA PublishedLast ==
  ASSUME PictureOK, Counted, NEW frames, NEW abouts \in Seq(About), Publish(frames, abouts)
  PROVE  /\ Len(abouts) = 0 => LastID(feed') = LastID(feed)
         /\ Len(abouts) # 0 => LastID(feed') = feed.nextID + Len(abouts)
         /\ LastID(feed) <= LastID(feed') /\ LastID(feed') <= feed'.nextID
<1> DEFINE n == feed.notes
           N == Numbered(abouts)
           x == n \o N
           k == Len(abouts)
           z == feed'
<1>1. /\ n \in Seq(Note) /\ feed.nextID \in Nat /\ LastID(feed) \in Nat
      /\ LastID(feed) <= feed.nextID /\ Len(n) <= FeedSize
  BY FeedLast DEF PictureOK, Counted
<1>2. k \in Nat /\ N \in Seq(Note) /\ Len(N) = k /\ \A i \in 1 .. k : N[i].id = feed.nextID + i
  BY NumberedIs, LenProperties
<1>3. z.notes = Trimmed(x) /\ z.nextID = feed.nextID + k
  BY PublishedFeed
<1> HIDE DEF z, N, k
<1>4. CASE k = 0
  <2>1. N = <<>>
    BY <1>2, <1>4, EmptySeq
  <2>2. x = n
    BY <1>1, <2>1, ConcatEmptySeq
  <2>3. z.notes = n
    BY <1>1, <1>3, <2>2, TrimmedIs
  <2>4. LastID(z) = LastID(feed)
    BY <2>3 DEF LastID
  <2> HIDE DEF n, x
  <2>5. LastID(feed) <= LastID(z) /\ LastID(z) <= z.nextID
    BY <1>1, <1>3, <1>4, <2>4
  <2> QED
    BY <1>4, <2>4, <2>5 DEF z, k
<1>5. CASE k # 0
  <2> DEFINE m == Len(n)
  <2>1. m \in Nat
    BY <1>1, LenProperties
  <2>2. /\ x \in Seq(Note) /\ Len(x) = m + k
        /\ \A i \in 1 .. m + k : x[i] = IF i <= m THEN n[i] ELSE N[i - m]
    BY <1>1, <1>2, ConcatProperties
  <2> HIDE DEF x, m, n
  <2>3. m + k \in 1 .. m + k /\ ~(m + k <= m) /\ (m + k) - m = k /\ k \in 1 .. k
    BY <1>2, <1>5, <2>1
  <2>4. x[Len(x)] = N[k]
    BY <2>2, <2>3
  <2>5. x # <<>>
    <3>1. Len(<<>>) = 0
      BY EmptySeq
    <3>2. m + k # 0
      BY <1>2, <1>5, <2>1
    <3> QED
      BY <2>2, <3>1, <3>2
  <2>6. LastID(z) = x[Len(x)].id
    BY <1>3, <2>2, <2>5, LastTrimmed
  <2>7. LastID(z) = feed.nextID + k
    BY <1>2, <2>3, <2>4, <2>6
  <2>8. LastID(feed) <= LastID(z) /\ LastID(z) <= z.nextID
    BY <1>1, <1>2, <1>3, <2>7
  <2> QED
    BY <1>5, <2>7, <2>8 DEF z, k
<1> QED
  BY <1>4, <1>5

StepsTo(f, a, K, t, u) ==
  /\ K \in [0 .. Len(f) -> Nat] /\ K[0] = t
  /\ \A i \in 0 .. Len(f) : K[i] <= u
  /\ Steps(f, a, K)

LEMMA PublishedSteps ==
  ASSUME PictureOK, Counted, NEW frames, Frames(frames), NEW a, Bring(frames, a),
         NEW abouts \in Seq(About), Publish(frames, abouts)
  PROVE  \E K : StepsTo(frames \o NoteFrames(abouts), a, K, LastID(feed), LastID(feed'))
<1> DEFINE g == NoteFrames(abouts)
           f == frames \o g
           L == Len(frames)
           M == Len(abouts)
           d == feed.nextID
           t == LastID(feed)
           u == LastID(feed')
           K == [i \in 0 .. L + M |-> IF i <= L THEN t ELSE d + (i - L)]
<1>1. d \in Nat /\ t \in Nat /\ t <= d
  BY FeedLast DEF Counted
<1>2. /\ Frames(g) /\ Len(g) = M /\ DOMAIN g = DOMAIN Numbered(abouts)
      /\ \A i \in DOMAIN Numbered(abouts) : g[i].type = "note" /\ g[i].note = Numbered(abouts)[i]
  BY NoteFramesAre
<1>3. M \in Nat /\ Numbered(abouts) \in Seq(Note) /\ Len(Numbered(abouts)) = M
      /\ \A i \in 1 .. M : Numbered(abouts)[i].id = d + i
  BY NumberedIs, LenProperties
<1>4. \A i \in 1 .. M : g[i].type = "note" /\ g[i].note.id = d + i
  <2>1. DOMAIN Numbered(abouts) = 1 .. M
    BY <1>3, LenProperties
  <2> HIDE DEF g, d, M
  <2> QED
    BY <1>2, <1>3, <2>1
<1>5. /\ M = 0 => u = t
      /\ M # 0 => u = d + M
      /\ t <= u
  BY PublishedLast
<1>6. frames \in Seq(Msg) /\ g \in Seq(Msg) /\ L \in Nat
      /\ \A i \in 1 .. L : frames[i].type # "snapshot"
  BY <1>2, LenProperties DEF Frames
<1>7. \A i \in 1 .. L : frames[i].type # "note" /\ (frames[i].type = "subject" => frames[i].version = a[frames[i].name])
  BY DEF Bring
<1> HIDE DEF g
<1>8. /\ f \in Seq(Msg) /\ Len(f) = L + M
      /\ \A i \in 1 .. L + M : f[i] = IF i <= L THEN frames[i] ELSE g[i - L]
  <2> DEFINE k == Len(g)
  <2>1. /\ f \in Seq(Msg) /\ Len(f) = L + k
        /\ \A i \in 1 .. L + k : f[i] = IF i <= L THEN frames[i] ELSE g[i - L]
    BY <1>6, ConcatProperties
  <2>2. k = M
    BY <1>2
  <2> HIDE DEF f, L, k, M
  <2> QED
    BY <2>1, <2>2
<1> HIDE DEF f, L, M, d, t, u
<1>9. K \in [0 .. L + M -> Nat]
  <2>1. \A i \in 0 .. L + M : ~(i <= L) => d + (i - L) \in Nat
    BY <1>1, <1>3, <1>6
  <2> QED
    BY <1>1, <2>1
<1>10. \A i \in 0 .. L : i \in 0 .. L + M /\ i <= L
  BY <1>3, <1>6
<1>11. \A i \in 0 .. L : K[i] = t
  BY <1>10
<1>12. \A i \in 1 .. M : K[L + i] = d + i
  <2> SUFFICES ASSUME NEW i \in 1 .. M PROVE K[L + i] = d + i
    OBVIOUS
  <2>1. L + i \in 0 .. L + M /\ ~(L + i <= L) /\ (L + i) - L = i
    BY <1>3, <1>6
  <2> QED
    BY <2>1
<1> HIDE DEF K
<1>13. \A i \in 0 .. L + M : i \in 0 .. L \/ (i - L \in 1 .. M /\ i = L + (i - L))
  BY <1>3, <1>6
<1>14. K[0] = t
  <2>1. 0 \in 0 .. L
    BY <1>6
  <2> QED
    BY <1>11, <2>1
<1>15. \A i \in 0 .. L + M : K[i] <= u
  <2> SUFFICES ASSUME NEW i \in 0 .. L + M PROVE K[i] <= u
    OBVIOUS
  <2>1. CASE i \in 0 .. L
    BY <1>5, <1>11, <2>1
  <2>2. CASE i - L \in 1 .. M /\ i = L + (i - L)
    <3> DEFINE j == i - L
    <3>1. K[i] = d + j /\ j \in 1 .. M
      BY <1>12, <2>2
    <3> HIDE DEF j
    <3>2. M # 0 /\ d + j <= d + M
      BY <1>1, <1>3, <3>1
    <3> QED
      BY <1>5, <3>1, <3>2
  <2> QED
    BY <1>13, <2>1, <2>2
<1>16. ASSUME NEW i \in 1 .. L + M
       PROVE  /\ f[i].type # "snapshot"
              /\ f[i].type = "subject" => f[i].version = a[f[i].name]
              /\ f[i].type = "note" => K[i - 1] <= f[i].note.id /\ K[i] = f[i].note.id
              /\ f[i].type # "note" => K[i] = K[i - 1]
  <2>1. CASE i <= L
    <3>1. i \in 1 .. L /\ i \in 0 .. L /\ i - 1 \in 0 .. L
      BY <1>6, <2>1
    <3>2. f[i] = frames[i]
      BY <1>8, <2>1
    <3>3. K[i] = K[i - 1]
      BY <1>11, <3>1
    <3> QED
      BY <1>6, <1>7, <3>1, <3>2, <3>3
  <2>2. CASE ~(i <= L)
    <3> DEFINE j == i - L
    <3>1. j \in 1 .. M /\ i = L + j
      BY <1>3, <1>6, <2>2
    <3>2. f[i] = g[j]
      BY <1>8, <2>2
    <3> HIDE DEF j
    <3>3. f[i].type = "note" /\ f[i].note.id = d + j /\ K[i] = d + j
      BY <1>4, <1>12, <3>1, <3>2
    <3>4. K[i - 1] <= d + j
      <4>1. CASE j = 1
        <5>1. i - 1 = L /\ L \in 0 .. L
          BY <1>6, <3>1, <4>1
        <5>2. K[i - 1] = t
          BY <1>11, <5>1
        <5> QED
          BY <1>1, <4>1, <5>2
      <4>2. CASE j # 1
        <5> DEFINE h == j - 1
        <5>1. h \in 1 .. M /\ i - 1 = L + h /\ h <= j
          BY <1>3, <1>6, <3>1, <4>2
        <5> HIDE DEF h
        <5>2. K[i - 1] = d + h
          BY <1>12, <5>1
        <5> QED
          BY <1>1, <1>3, <3>1, <5>1, <5>2
      <4> QED
        BY <4>1, <4>2
    <3> QED
      BY <3>3, <3>4
  <2> QED
    BY <2>1, <2>2
<1>17. Steps(f, a, K)
  BY <1>8, <1>16 DEF Steps
<1>18. K \in [0 .. Len(f) -> Nat] /\ K[0] = t /\ (\A i \in 0 .. Len(f) : K[i] <= u) /\ Steps(f, a, K)
  BY <1>8, <1>9, <1>14, <1>15, <1>17
<1> HIDE DEF K
<1>19. StepsTo(f, a, K, t, u)
  BY <1>18 DEF StepsTo
<1>20. \E X : StepsTo(f, a, X, t, u)
  BY <1>19
<1> QED
  BY <1>20 DEF f, g, t, u

LEMMA PublishedOrder ==
  ASSUME PictureOK, StreamsOK, AddsUp, InOrder, Counted,
         NEW frames, Frames(frames), NEW a \in [Subject -> Version], Bring(frames, a),
         \A s \in Subject : Revision(apps[s]) <= Revision(a[s]),
         NEW abouts \in Seq(About), Publish(frames, abouts), NEW b \in Browser
  PROVE  \E G : Trail(view[b], stream'[b].queue, G, a, LastID(feed'), restartedAt)
<1> DEFINE st == stream[b]
           q == st.queue
           v == view[b]
           f == frames \o NoteFrames(abouts)
           l == LastID(feed)
           l2 == LastID(feed')
           r == restartedAt
<1>1. /\ st \in Link /\ q \in Seq(Msg) /\ Room(q) >= 0 /\ v \in View
      /\ apps \in [Subject -> Version] /\ r \in Nat
  <2>1. r \in 0 .. MaxChanges
    BY DEF PictureOK
  <2>2. r \in Nat
    BY <2>1
  <2> QED
    BY <2>2 DEF StreamsOK, Link, PictureOK
<1>2. l \in Nat /\ l2 \in Nat /\ l <= l2
  <2>1. feed'.notes \in Seq(Note)
    BY PublishedFeed
  <2> QED
    BY <2>1, FeedLast, PublishedLast, LastIDIs
<1>3. PICK G : Trail(v, q, G, apps, l, r)
  BY DEF InOrder
<1>4. Frames(f) /\ f \in Seq(Msg)
  BY NoteFramesAre, FramesConcat DEF Frames
<1>5. stream'[b] = Sent(st, f)
  BY DEF Publish, Broadcast
<1>6. PICK K : StepsTo(f, a, K, l, l2)
  BY PublishedSteps
<1>7. K \in [0 .. Len(f) -> Nat] /\ K[0] = l /\ (\A i \in 0 .. Len(f) : K[i] <= l2) /\ Steps(f, a, K)
  BY <1>6 DEF StepsTo
<1>8. st.state = "open" => Match(Fold(v, q), apps, cluster, feed.notes, r)
  BY DEF AddsUp
<1> HIDE DEF st, f, l, l2, v, r
<1>9. Trail(v, q, G, a, l2, r)
  BY <1>1, <1>2, <1>3, TrailGrows
<1>10. CASE st.state # "open"
  <2>1. Sent(st, f) = st
    BY <1>1, <1>4, <1>10, SentIs
  <2> QED
    BY <1>5, <1>9, <2>1 DEF v, l2, r
<1>11. CASE st.state = "open"
  <2>1. PICK n \in 0 .. Len(f) :
          SubSeq(f, 1, n) \in Seq(Msg) /\ Sent(st, f).queue = q \o SubSeq(f, 1, n)
    BY <1>1, <1>4, <1>11, SentIs
  <2> DEFINE g == SubSeq(f, 1, n)
             w == G[Len(q)]
  <2>2. n \in Nat /\ n <= Len(f) /\ Len(f) \in Nat /\ Len(q) \in Nat
    BY <1>1, <1>4, LenProperties
  <2>3. Len(g) = n /\ \A i \in 1 .. n : g[i] = f[i]
    <3>1. \A i \in 1 .. n : f[i] \in Msg
      <4>1. \A i \in 1 .. n : i \in 1 .. Len(f)
        BY <2>2
      <4> QED
        BY <1>4, <4>1, ElementOfSeq
    <3>2. /\ Len(g) = IF 1 <= n THEN n - 1 + 1 ELSE 0
          /\ \A i \in 1 .. n - 1 + 1 : g[i] = f[1 + i - 1]
      BY <2>2, <3>1, SubSeqProperties
    <3> HIDE DEF g
    <3> QED
      BY <2>2, <3>2
  <2>4. g \in Seq(Msg)
    BY <2>1
  <2> HIDE DEF g
  <2>5. Goes(v, Len(q), q, G)
    BY <1>3 DEF Trail
  <2>6. w = Fold(v, q)
    <3>1. DOMAIN q = 1 .. Len(q)
      BY <1>1, LenProperties
    <3> QED
      BY <2>2, <2>5, <3>1, FoldIs
  <2>7. Match(w, apps, cluster, feed.notes, r)
    BY <1>8, <1>11, <2>6
  <2>8. w \in View /\ Behind(w, apps, l, r)
    <3>1. Len(q) \in 0 .. Len(q)
      BY <2>2
    <3> QED
      BY <1>3, <3>1 DEF Trail
  <2> HIDE DEF w
  <2>9. w.restartedAt = r /\ LastID(w) <= l /\ \A s \in Subject : Revision(w.apps[s]) <= Revision(apps[s])
    BY <2>7, <2>8 DEF Match, Behind
  <2>10. \A s \in Subject : Revision(w.apps[s]) <= Revision(a[s])
    <3>1. w.apps \in [Subject -> Version]
      BY <2>8, ViewNotes
    <3>2. \A s \in Subject : /\ Revision(w.apps[s]) \in Nat /\ Revision(apps[s]) \in Nat
                             /\ Revision(a[s]) \in Nat
      BY <1>1, <3>1, RevisionIs
    <3> QED
      BY <2>9, <3>2
  <2>11. At(w, a, r, K[0])
    BY <1>7, <2>8, <2>9, <2>10 DEF At
  <2>12. PICK H : Goes(w, n, f, H)
    BY <2>2, FoldGoes
  <2>13. /\ \A i \in 0 .. n : At(H[i], a, r, K[i])
         /\ \A i \in 1 .. n : Forward(H[i - 1], H[i])
    BY <1>4, <1>7, <2>11, <2>12, Walk
  <2>14. Goes(w, n, g, H)
    BY <2>3, <2>12 DEF Goes
  <2>15. ASSUME NEW i \in 0 .. n PROVE H[i] \in View /\ Behind(H[i], a, l2, r)
    <3> DEFINE x == H[i]
               k == K[i]
    <3>1. At(x, a, r, k)
      BY <2>13
    <3>2. i \in 0 .. Len(f)
      BY <2>2
    <3>3. k \in Nat /\ k <= l2
      BY <1>7, <3>2
    <3> HIDE DEF x, k
    <3>4. x \in View /\ x.restartedAt = r /\ LastID(x) <= k
          /\ \A s \in Subject : Revision(x.apps[s]) <= Revision(a[s])
      BY <3>1 DEF At
    <3>5. LastID(x) \in Nat
      BY <3>4, ViewNotes, LastIDIs
    <3>6. LastID(x) <= l2 /\ x.restartedAt <= r
      BY <1>1, <1>2, <3>3, <3>4, <3>5
    <3>7. Behind(x, a, l2, r)
      BY <3>4, <3>6 DEF Behind
    <3> QED
      BY <3>4, <3>7 DEF x
  <2>16. Goes(G[Len(q)], Len(g), g, H)
    BY <2>3, <2>14 DEF w
  <2>17. /\ \A i \in 0 .. Len(g) : H[i] \in View /\ Behind(H[i], a, l2, r)
         /\ \A i \in 1 .. Len(g) : Forward(H[i - 1], H[i])
    BY <2>3, <2>13, <2>15
  <2>18. \E F : Trail(v, q \o g, F, a, l2, r)
    <3> HIDE DEF q
    <3> QED
      BY <1>1, <1>9, <2>4, <2>16, <2>17, TrailExtended
  <2>19. stream'[b].queue = q \o g
    BY <1>5, <2>1 DEF g
  <2> QED
    BY <2>18, <2>19 DEF v, l2, r
<1> QED
  BY <1>10, <1>11

LEMMA QuietOrder ==
  ASSUME PictureOK, StreamsOK, InOrder, Counted,
         UNCHANGED <<apps, feed, restartedAt, stream, view>>, changes' \in Nat, changes <= changes',
         \A s \in Subject : /\ Revision(objects[s]) <= Revision(objects'[s])
                            /\ Revision(objects'[s]) <= changes',
         objects' \in [Subject -> Version]
  PROVE  InOrder' /\ Counted'
<1>1. InOrder'
  BY DEF InOrder
<1>2. changes \in Nat /\ restartedAt \in Nat /\ restartedAt <= changes
  <2>1. changes \in 0 .. MaxChanges /\ restartedAt \in 0 .. MaxChanges
    BY DEF PictureOK
  <2> QED
    BY <2>1 DEF Counted
<1>3. \A s \in Subject : /\ Revision(apps[s]) \in Nat /\ Revision(objects[s]) \in Nat
                         /\ Revision(objects'[s]) \in Nat /\ Revision(apps[s]) <= Revision(objects[s])
  <2>1. \A s \in Subject : apps[s] \in Version /\ objects[s] \in Version /\ objects'[s] \in Version
    BY DEF PictureOK
  <2> QED
    BY <2>1, RevisionIs DEF Counted
<1>4. restartedAt' <= changes'
  BY <1>2
<1>5. \A s \in Subject : Revision(apps'[s]) <= Revision(objects'[s]) /\ Revision(objects'[s]) <= changes'
  BY <1>3
<1>6. LastID(feed') <= feed'.nextID
  BY DEF Counted
<1>7. Counted'
  <2>1. \A s \in Subject : /\ Revision(apps[s])' <= Revision(objects[s])'
                           /\ Revision(objects[s])' <= changes'
    BY <1>5 DEF Revision
  <2>2. LastID(feed)' <= feed'.nextID
    BY <1>6 DEF LastID
  <2> QED
    BY <1>4, <2>1, <2>2 DEF Counted
<1> QED
  BY <1>1, <1>7

LEMMA SameObjects ==
  ASSUME PictureOK, Counted, UNCHANGED objects, changes' \in Nat, changes <= changes'
  PROVE  /\ objects' \in [Subject -> Version]
         /\ \A s \in Subject : /\ Revision(objects[s]) <= Revision(objects'[s])
                               /\ Revision(objects'[s]) <= changes'
<1>1. changes \in Nat
  <2>1. changes \in 0 .. MaxChanges
    BY DEF PictureOK
  <2> QED
    BY <2>1
<1>2. \A s \in Subject : objects[s] \in Version /\ Revision(objects[s]) <= changes
  BY DEF PictureOK, Counted
<1>3. \A s \in Subject : Revision(objects[s]) \in Nat
  BY <1>2, RevisionIs
<1>4. objects' \in [Subject -> Version]
  BY DEF PictureOK
<1> QED
  BY <1>1, <1>2, <1>3, <1>4

LEMMA NotedOrder ==
  ASSUME PictureOK, StreamsOK, AddsUp, InOrder, Counted, NEW abouts \in Seq(About),
         Publish(<<>>, abouts), changes' \in Nat, changes <= changes',
         UNCHANGED <<objects, apps, restartedAt, view>>
  PROVE  InOrder' /\ Counted'
<1>1. Bring(<<>>, apps) /\ Frames(<<>>)
  BY NoFrames, EmptySeq DEF Bring
<1>2. apps \in [Subject -> Version] /\ changes \in Nat /\ restartedAt \in Nat /\ restartedAt <= changes
  <2>1. changes \in 0 .. MaxChanges /\ restartedAt \in 0 .. MaxChanges /\ apps \in [Subject -> Version]
    BY DEF PictureOK
  <2> QED
    BY <2>1 DEF Counted
<1>3. \A s \in Subject : Revision(apps[s]) <= Revision(apps[s])
  BY <1>2, RevisionIs
<1>4. \A b \in Browser : \E G : Trail(view[b], stream'[b].queue, G, apps, LastID(feed'), restartedAt)
  BY <1>1, <1>2, <1>3, PublishedOrder
<1>5. InOrder'
  BY <1>4 DEF InOrder
<1>6. LastID(feed') <= feed'.nextID
  BY PublishedLast
<1>7. \A s \in Subject : Revision(apps'[s]) <= Revision(objects'[s]) /\ Revision(objects'[s]) <= changes'
  <2>1. \A s \in Subject : Revision(apps[s]) <= Revision(objects[s])
    BY DEF Counted
  <2> QED
    BY <2>1, SameObjects
<1>8. Counted'
  <2>1. restartedAt' <= changes'
    BY <1>2
  <2>2. \A s \in Subject : /\ Revision(apps[s])' <= Revision(objects[s])'
                           /\ Revision(objects[s])' <= changes'
    BY <1>7 DEF Revision
  <2>3. LastID(feed)' <= feed'.nextID
    BY <1>6 DEF LastID
  <2> QED
    BY <2>1, <2>2, <2>3 DEF Counted
<1> QED
  BY <1>5, <1>8

LEMMA NoticedOrder ==
  ASSUME PictureOK, StreamsOK, AddsUp, InOrder, Counted, NEW e \in Event, NEW t, Noticed(e, t),
         changes' \in Nat, changes <= changes',
         UNCHANGED <<objects, apps, restartedAt, view>>
  PROVE  InOrder' /\ Counted'
<1>1. CASE UNCHANGED <<feed, stream>>
  BY <1>1, SameObjects, QuietOrder
<1>2. CASE Publish(<<>>, <<e>>)
  <2>1. e \in About
    BY DEF About
  <2>2. <<e>> \in Seq(About)
    BY <2>1
  <2> QED
    BY <1>2, <2>2, NotedOrder
<1> QED
  BY <1>1, <1>2 DEF Noticed

LEMMA BringConcat ==
  ASSUME NEW f \in Seq(Msg), NEW g \in Seq(Msg), NEW a, Bring(f, a), Bring(g, a)
  PROVE  Bring(f \o g, a)
<1> DEFINE x == Len(f)
           y == Len(g)
           h == f \o g
<1>1. x \in Nat /\ y \in Nat
  BY LenProperties
<1>2. Len(h) = x + y /\ \A i \in 1 .. x + y : h[i] = IF i <= x THEN f[i] ELSE g[i - x]
  BY ConcatProperties
<1>3. /\ \A i \in 1 .. x : f[i].type # "note" /\ (f[i].type = "subject" => f[i].version = a[f[i].name])
      /\ \A i \in 1 .. y : g[i].type # "note" /\ (g[i].type = "subject" => g[i].version = a[g[i].name])
  BY DEF Bring
<1> HIDE DEF x, y, h
<1>4. ASSUME NEW i \in 1 .. x + y
      PROVE  h[i].type # "note" /\ (h[i].type = "subject" => h[i].version = a[h[i].name])
  <2>1. CASE i <= x
    <3>1. h[i] = f[i] /\ i \in 1 .. x
      BY <1>1, <1>2, <2>1
    <3> QED
      BY <1>3, <3>1
  <2>2. CASE ~(i <= x)
    <3>1. h[i] = g[i - x] /\ i - x \in 1 .. y
      BY <1>1, <1>2, <2>2
    <3> QED
      BY <1>3, <3>1
  <2> QED
    BY <2>1, <2>2
<1> QED
  BY <1>2, <1>4 DEF Bring, h

LEMMA RecomputedOrder ==
  ASSUME now \in Time, PictureOK, StreamsOK, AddsUp, InOrder, Counted, NEW next, Recomputing(next),
         UNCHANGED <<changes, objects, restartedAt, view>>
  PROVE  InOrder' /\ Counted'
<1>1. PICK order, abouts : Republished(order, abouts)
  BY RecomputedPublish
<1>2. apps' = objects
  BY DEF Recomputing
<1> DEFINE f == SubjectFrames(order)
           g == ClusterFrames
           frames == f \o g
<1>3. order \in Seq(Subject) /\ abouts \in Seq(About) /\ Publish(frames, abouts)
  BY <1>1 DEF Republished
<1>4. Frames(f) /\ Frames(g) /\ Frames(frames) /\ f \in Seq(Msg) /\ g \in Seq(Msg)
  BY <1>3, SubjectFramesAre, ClusterFramesAre, FramesConcat DEF Frames
<1>5. Bring(f, objects)
  <2>1. /\ DOMAIN f = DOMAIN order
        /\ \A i \in DOMAIN order :
             f[i].type = "subject" /\ f[i].name = order[i] /\ f[i].version = objects[order[i]]
    BY <1>3, SubjectFramesAre
  <2>2. DOMAIN f = 1 .. Len(f)
    BY <1>4, LenProperties
  <2> HIDE DEF f
  <2> QED
    BY <2>1, <2>2 DEF Bring
<1>6. Bring(g, objects)
  <2>1. CASE g = <<>>
    BY <2>1, EmptySeq DEF Bring
  <2>2. CASE \E m \in Msg : m.type = "cluster" /\ m.state = ClusterNow /\ g = <<m>>
    <3>1. PICK m \in Msg : m.type = "cluster" /\ g = <<m>>
      BY <2>2
    <3>2. Len(<<m>>) = 1 /\ <<m>>[1] = m
      OBVIOUS
    <3>3. m.type # "note" /\ m.type # "subject"
      BY <3>1
    <3> HIDE DEF g
    <3> QED
      BY <3>1, <3>2, <3>3 DEF Bring
  <2> QED
    BY <2>1, <2>2, ClusterFramesAre
<1>7. Bring(frames, objects)
  <2> HIDE DEF f, g
  <2> QED
    BY <1>4, <1>5, <1>6, BringConcat
<1> HIDE DEF f, g, frames
<1>8. objects \in [Subject -> Version] /\ \A s \in Subject : Revision(apps[s]) <= Revision(objects[s])
  BY DEF PictureOK, Counted
<1>9. \A b \in Browser : \E G : Trail(view[b], stream'[b].queue, G, objects, LastID(feed'), restartedAt)
  BY <1>3, <1>4, <1>7, <1>8, PublishedOrder
<1>10. InOrder'
  BY <1>2, <1>9 DEF InOrder
<1>11. LastID(feed') <= feed'.nextID
  BY <1>3, PublishedLast
<1>12. Counted'
  <2>1. restartedAt' <= changes'
    BY DEF Counted
  <2>2. \A s \in Subject : /\ Revision(apps'[s]) <= Revision(objects'[s])
                           /\ Revision(objects'[s]) <= changes'
    <3>1. \A s \in Subject : Revision(objects[s]) \in Nat /\ Revision(objects[s]) <= changes
      BY <1>8, RevisionIs DEF Counted
    <3> QED
      BY <1>2, <3>1
  <2>3. \A s \in Subject : /\ Revision(apps[s])' <= Revision(objects[s])'
                           /\ Revision(objects[s])' <= changes'
    BY <2>2 DEF Revision
  <2>4. LastID(feed)' <= feed'.nextID
    BY <1>11 DEF LastID
  <2> QED
    BY <2>1, <2>3, <2>4 DEF Counted
<1> QED
  BY <1>10, <1>12

LEMMA LinkOrder ==
  ASSUME PictureOK, StreamsOK, InOrder, Counted, NEW b \in Browser, NEW v, NEW l,
         stream' = [stream EXCEPT ![b] = l], view' = [view EXCEPT ![b] = v],
         changes' \in Nat, changes <= changes',
         UNCHANGED <<objects, apps, feed, restartedAt>>,
         \E G : Trail(v, l.queue, G, apps, LastID(feed), restartedAt)
  PROVE  InOrder' /\ Counted'
<1>1. stream'[b] = l /\ view'[b] = v
  BY DEF StreamsOK
<1>2. \A x \in Browser \ {b} : stream'[x] = stream[x] /\ view'[x] = view[x]
  BY DEF StreamsOK
<1>3. \A x \in Browser : \E G : Trail(view'[x], stream'[x].queue, G, apps, LastID(feed), restartedAt)
  <2> SUFFICES ASSUME NEW x \in Browser
               PROVE  \E G : Trail(view'[x], stream'[x].queue, G, apps, LastID(feed), restartedAt)
    OBVIOUS
  <2>1. CASE x = b
    BY <1>1, <2>1
  <2>2. CASE x # b
    BY <1>2, <2>2 DEF InOrder
  <2> QED
    BY <2>1, <2>2
<1>4. InOrder'
  BY <1>3 DEF InOrder
<1>5. changes \in Nat /\ restartedAt \in Nat /\ restartedAt <= changes
  <2>1. changes \in 0 .. MaxChanges /\ restartedAt \in 0 .. MaxChanges
    BY DEF PictureOK
  <2> QED
    BY <2>1 DEF Counted
<1>6. \A s \in Subject : /\ Revision(apps[s])' <= Revision(objects[s])'
                         /\ Revision(objects[s])' <= changes'
  <2>1. \A s \in Subject : Revision(apps[s]) <= Revision(objects[s])
    BY DEF Counted
  <2>2. \A s \in Subject : Revision(apps'[s]) <= Revision(objects'[s]) /\ Revision(objects'[s]) <= changes'
    BY <2>1, SameObjects
  <2> QED
    BY <2>2 DEF Revision
<1>7. Counted'
  <2>1. restartedAt' <= changes'
    BY <1>5
  <2>2. LastID(feed)' <= feed'.nextID
    BY DEF Counted, LastID
  <2> QED
    BY <1>6, <2>1, <2>2 DEF Counted
<1> QED
  BY <1>4, <1>7

LEMMA ViewBehind ==
  ASSUME StreamsOK, InOrder, NEW b \in Browser
  PROVE  view[b] \in View /\ Behind(view[b], apps, LastID(feed), restartedAt)
<1> DEFINE q == stream[b].queue
           v == view[b]
           l == LastID(feed)
<1>1. PICK G : Trail(v, q, G, apps, l, restartedAt)
  BY DEF InOrder
<1>2. Len(q) \in Nat /\ v \in View
  <2>1. q \in Seq(Msg)
    BY DEF StreamsOK, Link
  <2> QED
    BY <2>1, LenProperties DEF StreamsOK
<1> HIDE DEF q, v, l
<1>3. G[0] = v
  BY <1>1 DEF Trail, Goes
<1>4. 0 \in 0 .. Len(q)
  BY <1>2
<1>5. Behind(G[0], apps, l, restartedAt)
  BY <1>1, <1>4 DEF Trail
<1> QED
  BY <1>2, <1>3, <1>5 DEF v, l

LEMMA SubscribedOrder ==
  ASSUME PictureOK, StreamsOK, InOrder, Counted, NEW b \in Browser, Subscribe(b)
  PROVE  InOrder' /\ Counted'
<1> DEFINE p == Snapshot
           m == [type |-> "snapshot", picture |-> p]
           l == [state |-> "open", queue |-> <<m>>]
           v == view[b]
           t == LastID(feed)
<1>1. stream' = [stream EXCEPT ![b] = l]
  BY DEF Subscribe
<1>2. UNCHANGED <<changes, objects, apps, feed, restartedAt, view>>
  BY DEF Subscribe, objectVars, pictureVars
<1>3. p \in View /\ p.apps = apps /\ p.restartedAt = restartedAt /\ p.notes = feed.notes
  BY SnapshotView DEF Snapshot
<1>4. LastID(p) = t
  BY <1>3 DEF LastID
<1>5. v \in View /\ Behind(v, apps, t, restartedAt)
  BY ViewBehind
<1>6. apps \in [Subject -> Version] /\ restartedAt \in Nat /\ t \in Nat /\ changes \in Nat
  <2>1. apps \in [Subject -> Version] /\ restartedAt \in 0 .. MaxChanges /\ changes \in 0 .. MaxChanges
    BY DEF PictureOK
  <2> QED
    BY <2>1, FeedLast
<1>7. view' = [view EXCEPT ![b] = v]
  BY <1>2 DEF StreamsOK
<1> HIDE DEF p
<1>8. m \in Msg
  BY <1>3 DEF Msg, Message, View
<1>9. m.type = "snapshot" /\ m.picture = p
  OBVIOUS
<1> HIDE DEF m
<1>10. l.queue = <<m>>
  OBVIOUS
<1> HIDE DEF l, v, t
<1>11. m.picture.apps = apps /\ LastID(m.picture) = t /\ m.picture.restartedAt = restartedAt
  BY <1>3, <1>4, <1>9
<1>12. \E G : Trail(v, <<m>>, G, apps, t, restartedAt)
  BY <1>5, <1>6, <1>8, <1>9, <1>11, TrailOne
<1>13. \E G : Trail(v, l.queue, G, apps, LastID(feed), restartedAt)
  BY <1>10, <1>12 DEF t
<1>14. changes' \in Nat /\ changes <= changes'
  BY <1>2, <1>6
<1> QED
  BY <1>1, <1>2, <1>7, <1>13, <1>14, LinkOrder

LEMMA DeliveredOrder ==
  ASSUME PictureOK, StreamsOK, InOrder, Counted, NEW b \in Browser, Deliver(b)
  PROVE  /\ InOrder' /\ Counted'
         /\ Forward(view[b], view'[b]) /\ \A x \in Browser \ {b} : view'[x] = view[x]
<1> DEFINE st == stream[b]
           q == st.queue
           l == [st EXCEPT !.queue = Tail(q)]
           u == view[b]
           v == Replayed(u, Head(q))
           t == LastID(feed)
<1>1. q # <<>> /\ UNCHANGED <<changes, objects, apps, feed, restartedAt>>
  BY DEF Deliver, objectVars, pictureVars
<1>2. stream' = [stream EXCEPT ![b] = l]
  BY DEF Deliver
<1>3. view' = [view EXCEPT ![b] = v]
  BY DEF Deliver
<1>4. st \in Link /\ q \in Seq(Msg)
  BY DEF StreamsOK, Link
<1>5. PICK G : Trail(u, q, G, apps, t, restartedAt)
  BY DEF InOrder
<1>6. l.queue = Tail(q)
  BY <1>4 DEF Link
<1>7. view'[b] = v /\ \A x \in Browser \ {b} : view'[x] = view[x]
  <2> HIDE DEF v
  <2> QED
    BY <1>3 DEF StreamsOK
<1>8. changes' \in Nat /\ changes <= changes'
  <2>1. changes \in 0 .. MaxChanges
    BY DEF PictureOK
  <2> QED
    BY <1>1, <2>1
<1> HIDE DEF l, u, t, q
<1>9. Forward(u, v) /\ \E F : Trail(v, Tail(q), F, apps, t, restartedAt)
  BY <1>1, <1>4, <1>5, TrailHead
<1> HIDE DEF v
<1>10. \E F : Trail(v, l.queue, F, apps, LastID(feed), restartedAt)
  BY <1>6, <1>9 DEF t
<1>11. InOrder' /\ Counted'
  BY <1>1, <1>2, <1>3, <1>8, <1>10, LinkOrder
<1> QED
  BY <1>7, <1>9, <1>11 DEF u

LEMMA EndedOrder ==
  ASSUME PictureOK, StreamsOK, InOrder, Counted, NEW b \in Browser,
         stream' = [stream EXCEPT ![b] = NoStream],
         changes' \in Nat, changes <= changes',
         UNCHANGED <<objects, apps, feed, restartedAt, view>>
  PROVE  InOrder' /\ Counted'
<1> DEFINE l == NoStream
           v == view[b]
           t == LastID(feed)
<1>1. l.queue = <<>>
  BY NoLink
<1>2. v \in View /\ Behind(v, apps, t, restartedAt)
  BY ViewBehind
<1>3. view' = [view EXCEPT ![b] = v]
  BY DEF StreamsOK
<1>4. stream' = [stream EXCEPT ![b] = l]
  OBVIOUS
<1> HIDE DEF l, v, t
<1>5. \E G : Trail(v, <<>>, G, apps, t, restartedAt)
  BY <1>2, TrailNone
<1>6. \E G : Trail(v, l.queue, G, apps, LastID(feed), restartedAt)
  BY <1>1, <1>5 DEF t
<1> QED
  BY <1>3, <1>4, <1>6, LinkOrder

LEMMA RestartedOrder ==
  ASSUME PictureOK, StreamsOK, InOrder, Counted, Restart
  PROVE  InOrder' /\ Counted'
<1>1. /\ changes' = changes + 1 /\ restartedAt' = changes + 1 /\ feed' = EmptyFeed
      /\ objects' = [s \in Subject |-> 0] /\ apps' = [s \in Subject |-> 0]
      /\ stream' = [b \in Browser |-> NoStream] /\ view' = view
  BY DEF Restart, Happens
<1>2. changes \in Nat /\ restartedAt \in Nat /\ restartedAt <= changes
  <2>1. changes \in 0 .. MaxChanges /\ restartedAt \in 0 .. MaxChanges
    BY DEF PictureOK
  <2> QED
    BY <2>1 DEF Counted
<1>3. LastID(feed') = 0 /\ feed'.nextID = 0
  BY <1>1 DEF EmptyFeed, LastID
<1>4. ASSUME NEW b \in Browser
      PROVE  \E G : Trail(view'[b], stream'[b].queue, G, apps', LastID(feed'), restartedAt')
  <2> DEFINE v == view[b]
             r == changes + 1
             t == LastID(feed')
  <2>1. v \in View /\ v.restartedAt <= restartedAt
    BY ViewBehind DEF Behind
  <2>2. v.restartedAt \in Nat
    BY <2>1, ViewNotes
  <2>3. v.restartedAt <= r /\ v.restartedAt # r
    BY <1>2, <2>1, <2>2
  <2>4. view'[b] = v /\ stream'[b].queue = <<>> /\ restartedAt' = r
    BY <1>1, NoLink
  <2> HIDE DEF v, r, t
  <2>5. Behind(v, apps', t, r)
    BY <2>3 DEF Behind
  <2>6. \E G : Trail(v, <<>>, G, apps', t, r)
    BY <2>1, <2>5, TrailNone
  <2> QED
    BY <2>4, <2>6 DEF t
<1>5. InOrder'
  BY <1>4 DEF InOrder
<1>6. Counted'
  <2>1. restartedAt' <= changes'
    BY <1>1, <1>2
  <2>2. \A s \in Subject : /\ Revision(apps[s])' <= Revision(objects[s])'
                           /\ Revision(objects[s])' <= changes'
    BY <1>1, <1>2 DEF Revision
  <2>3. LastID(feed)' <= feed'.nextID
    BY <1>3 DEF LastID
  <2> QED
    BY <2>1, <2>2, <2>3 DEF Counted
<1> QED
  BY <1>5, <1>6

LEMMA OrderStep ==
  ASSUME EventsOK, PictureOK, StreamsOK, AddsUp, InOrder, Counted, [ArgusNext]_argusVars
  PROVE  InOrder' /\ Counted'
<1>1. now \in Time /\ changes \in Nat /\ objects \in [Subject -> Version]
  <2>1. changes \in 0 .. MaxChanges /\ objects \in [Subject -> Version]
    BY DEF PictureOK
  <2> QED
    BY <2>1 DEF EventsOK
<1>2. ASSUME Happens PROVE changes' = changes + 1 /\ changes' \in Nat /\ changes <= changes' /\ changes + 1 \in 1 .. MaxChanges
  BY <1>1, <1>2, BoundsAre DEF Happens
<1>3. ASSUME changes' = changes PROVE changes' \in Nat /\ changes <= changes'
  BY <1>1, <1>3
<1>4. ASSUME UNCHANGED <<objects, apps, feed, restartedAt, stream, view>>,
             changes' = changes \/ Happens
      PROVE  InOrder' /\ Counted'
  <2>1. changes' \in Nat /\ changes <= changes'
    BY <1>2, <1>3, <1>4
  <2> QED
    BY <1>4, <2>1, SameObjects, QuietOrder
<1>5. ASSUME UNCHANGED argusVars PROVE InOrder' /\ Counted'
  <2>1. UNCHANGED <<changes, objects, apps, feed, restartedAt, stream, view>>
    BY <1>5 DEF argusVars, objectVars, pictureVars, streamVars
  <2> QED
    BY <1>4, <2>1
<1>6. ASSUME NEW s \in Subject, Put(s) \/ Delete(s) PROVE InOrder' /\ Counted'
  <2>1. UNCHANGED <<apps, feed, restartedAt, stream, view>> /\ Happens
    BY <1>6 DEF Put, Delete, pictureVars, streamVars
  <2>2. changes' = changes + 1 /\ changes' \in Nat /\ changes <= changes' /\ changes + 1 \in 1 .. MaxChanges
    BY <1>2, <2>1
  <2>3. changes + 1 \in Version /\ -(changes + 1) \in Version
    BY <1>1, <2>2, BoundsAre DEF Version
  <2>4. PICK v : (v = changes + 1 \/ v = -(changes + 1)) /\ objects' = [objects EXCEPT ![s] = v]
    BY <1>6 DEF Put, Delete
  <2>5. v \in Version /\ Revision(v) = changes + 1
    <3>1. Revision(changes + 1) = changes + 1 /\ Revision(-(changes + 1)) = changes + 1
      BY <1>1 DEF Revision
    <3> QED
      BY <2>3, <2>4, <3>1
  <2>6. objects' \in [Subject -> Version]
    BY <1>1, <2>4, <2>5
  <2>7. \A x \in Subject : Revision(objects[x]) \in Nat /\ Revision(objects[x]) <= changes
    BY <1>1, RevisionIs DEF Counted
  <2>8. \A x \in Subject : objects'[x] = objects[x] \/ objects'[x] = v
    BY <1>1, <2>4
  <2>9. \A x \in Subject : /\ Revision(objects[x]) <= Revision(objects'[x])
                           /\ Revision(objects'[x]) <= changes'
    BY <1>1, <2>2, <2>5, <2>7, <2>8
  <2> QED
    BY <2>1, <2>2, <2>6, <2>9, QuietOrder
<1>7. ASSUME NEW e \in Event, PutNewEvent(e) PROVE InOrder' /\ Counted'
  <2>1. PICK t \in 0 .. now : Noticed(e, t)
    BY <1>7 DEF PutNewEvent
  <2>2. UNCHANGED <<objects, apps, restartedAt, view>> /\ Happens
    BY <1>7 DEF PutNewEvent
  <2>3. changes' \in Nat /\ changes <= changes'
    BY <1>2, <2>2
  <2> QED
    BY <2>1, <2>2, <2>3, NoticedOrder
<1>8. ASSUME NEW e \in Event, UpdateEvent(e) PROVE InOrder' /\ Counted'
  <2>1. PICK t \in event[e] + 1 .. now :
          \/ e \in dropped /\ Noticed(e, t)
          \/ e \notin dropped /\ UNCHANGED <<feed, stream, held, dropped, told>>
    BY <1>8 DEF UpdateEvent
  <2>2. UNCHANGED <<objects, apps, restartedAt, view>> /\ Happens
    BY <1>8 DEF UpdateEvent
  <2>3. changes' \in Nat /\ changes <= changes'
    BY <1>2, <2>2
  <2>4. CASE Noticed(e, t)
    BY <2>2, <2>3, <2>4, NoticedOrder
  <2>5. CASE UNCHANGED <<feed, stream>>
    BY <1>4, <2>2, <2>5
  <2> QED
    BY <2>1, <2>4, <2>5
<1>9. ASSUME NEW e \in Event, DeleteEvent(e) PROVE InOrder' /\ Counted'
  <2>1. UNCHANGED <<objects, apps, feed, restartedAt, stream, view>> /\ Happens
    BY <1>9 DEF DeleteEvent, streamVars
  <2> QED
    BY <1>4, <2>1
<1>10. ASSUME NEW p \in Probe, PutPod(p) PROVE InOrder' /\ Counted'
  <2>1. UNCHANGED <<objects, apps, feed, restartedAt, stream, view>> /\ Happens
    BY <1>10 DEF PutPod, pictureVars, streamVars
  <2> QED
    BY <1>4, <2>1
<1>11. ASSUME SetReachable PROVE InOrder' /\ Counted'
  <2>1. UNCHANGED <<objects, apps, feed, restartedAt, stream, view>> /\ Happens
    BY <1>11 DEF SetReachable, pictureVars, streamVars
  <2> QED
    BY <1>4, <2>1
<1>12. ASSUME Tick PROVE InOrder' /\ Counted'
  <2>1. UNCHANGED <<changes, objects, apps, feed, restartedAt, stream, view>>
    BY <1>12 DEF Tick, objectVars, pictureVars, streamVars
  <2> QED
    BY <1>4, <2>1
<1>13. ASSUME Recompute PROVE InOrder' /\ Counted'
  <2>1. Recomputing(seeding) /\ UNCHANGED <<changes, objects, restartedAt, view>>
    BY <1>13 DEF Recompute, objectVars
  <2> QED
    BY <1>1, <2>1, RecomputedOrder
<1>14. ASSUME SeedBegins PROVE InOrder' /\ Counted'
  <2>1. Recomputing("between") /\ UNCHANGED <<changes, objects, restartedAt, view>>
    BY <1>14 DEF SeedBegins, objectVars
  <2> QED
    BY <1>1, <2>1, RecomputedOrder
<1>15. ASSUME SeedEnds PROVE InOrder' /\ Counted'
  <2>1. PICK abouts \in Seq(About) : Publish(<<>>, abouts)
    BY <1>15, SeededPublish
  <2>2. UNCHANGED <<changes, objects, apps, restartedAt, view>>
    BY <1>15 DEF SeedEnds, objectVars
  <2>3. changes' \in Nat /\ changes <= changes'
    BY <1>3, <2>2
  <2> QED
    BY <2>1, <2>2, <2>3, NotedOrder
<1>16. ASSUME NEW b \in Browser, Subscribe(b) PROVE InOrder' /\ Counted'
  BY <1>16, SubscribedOrder
<1>17. ASSUME NEW b \in Browser, Deliver(b) PROVE InOrder' /\ Counted'
  BY <1>17, DeliveredOrder
<1>18. ASSUME NEW b \in Browser, StreamEnds(b) PROVE InOrder' /\ Counted'
  <2>1. /\ stream' = [stream EXCEPT ![b] = NoStream]
        /\ UNCHANGED <<changes, objects, apps, feed, restartedAt, view>>
    BY <1>18 DEF StreamEnds, objectVars, pictureVars
  <2>2. changes' \in Nat /\ changes <= changes'
    BY <1>3, <2>1
  <2> QED
    BY <2>1, <2>2, EndedOrder
<1>19. ASSUME NEW b \in Browser, Break(b) PROVE InOrder' /\ Counted'
  <2>1. /\ stream' = [stream EXCEPT ![b] = NoStream] /\ Happens
        /\ UNCHANGED <<objects, apps, feed, restartedAt, view>>
    BY <1>19 DEF Break, objectVars, pictureVars
  <2>2. changes' \in Nat /\ changes <= changes'
    BY <1>2, <2>1
  <2> QED
    BY <2>1, <2>2, EndedOrder
<1>20. ASSUME Restart PROVE InOrder' /\ Counted'
  BY <1>20, RestartedOrder
<1> QED
  BY <1>5, <1>6, <1>7, <1>8, <1>9, <1>10, <1>11, <1>12, <1>13, <1>14, <1>15,
     <1>16, <1>17, <1>18, <1>19, <1>20 DEF ArgusNext

LEMMA OrderInit == ArgusInit => InOrder /\ Counted
<1> SUFFICES ASSUME ArgusInit PROVE InOrder /\ Counted
  OBVIOUS
<1>1. /\ changes = 0 /\ restartedAt = 0 /\ feed = EmptyFeed
      /\ objects = [s \in Subject |-> 0] /\ apps = [s \in Subject |-> 0]
      /\ stream = [b \in Browser |-> NoStream] /\ view = [b \in Browser |-> EmptyPicture]
  BY DEF ArgusInit
<1>2. LastID(feed) = 0 /\ feed.nextID = 0
  BY <1>1 DEF EmptyFeed, LastID
<1>3. Counted
  BY <1>1, <1>2 DEF Counted, Revision
<1>4. ASSUME NEW b \in Browser
      PROVE  \E G : Trail(view[b], stream[b].queue, G, apps, LastID(feed), restartedAt)
  <2> DEFINE v == EmptyPicture
             t == LastID(feed)
  <2>1. view[b] = v /\ stream[b].queue = <<>>
    BY <1>1, NoLink
  <2>2. v \in View
    BY <2>1, StreamsInit DEF StreamsOK
  <2>3. v.restartedAt = 0 /\ v.notes = <<>> /\ v.apps = [s \in Subject |-> 0]
    BY DEF EmptyPicture
  <2> HIDE DEF v
  <2>4. LastID(v) = 0
    BY <2>3 DEF LastID
  <2>5. \A s \in Subject : Revision(v.apps[s]) = 0 /\ Revision(apps[s]) = 0
    BY <1>1, <2>3 DEF Revision
  <2> HIDE DEF t
  <2>6. Behind(v, apps, t, restartedAt)
    BY <1>1, <1>2, <2>3, <2>4, <2>5 DEF Behind, t
  <2>7. \E G : Trail(v, <<>>, G, apps, t, restartedAt)
    BY <2>2, <2>6, TrailNone
  <2> QED
    BY <2>1, <2>7 DEF t
<1>5. InOrder
  BY <1>4 DEF InOrder
<1> QED
  BY <1>3, <1>5

(* A step either changes no view, or delivers to one browser. *)
LEMMA ViewStep ==
  ASSUME StreamsOK, [ArgusNext]_argusVars
  PROVE  UNCHANGED view \/ \E b \in Browser : Deliver(b)
<1>1. ASSUME UNCHANGED argusVars PROVE UNCHANGED view
  BY <1>1 DEF argusVars, streamVars
<1>2. ASSUME NEW s \in Subject, Put(s) \/ Delete(s) PROVE UNCHANGED view
  BY <1>2 DEF Put, Delete, streamVars
<1>3. ASSUME NEW e \in Event, PutNewEvent(e) \/ UpdateEvent(e) \/ DeleteEvent(e) PROVE UNCHANGED view
  BY <1>3 DEF PutNewEvent, UpdateEvent, DeleteEvent, streamVars
<1>4. ASSUME NEW p \in Probe, PutPod(p) PROVE UNCHANGED view
  BY <1>4 DEF PutPod, streamVars
<1>5. ASSUME SetReachable \/ Tick PROVE UNCHANGED view
  BY <1>5 DEF SetReachable, Tick, streamVars
<1>6. ASSUME Recompute \/ SeedBegins \/ SeedEnds PROVE UNCHANGED view
  BY <1>6 DEF Recompute, SeedBegins, SeedEnds
<1>7. ASSUME NEW b \in Browser, Subscribe(b) \/ StreamEnds(b) \/ Break(b) PROVE UNCHANGED view
  BY <1>7 DEF Subscribe, StreamEnds, Break
<1>8. ASSUME Restart PROVE UNCHANGED view
  BY <1>8 DEF Restart
<1> QED
  BY <1>1, <1>2, <1>3, <1>4, <1>5, <1>6, <1>7, <1>8 DEF ArgusNext

(* A browser, over streams that end, break and are taken up again with a snapshot, never
   shows a Subject as it was before what it has shown, nor takes back a note, as long as
   it is the same run of Argus that it follows (store.go, server.go and the page's own
   replay). *)
THEOREM NeverShownBackwards == ArgusSpec => NeverBackwards
<1> DEFINE OrderInv == EventsOK /\ PictureOK /\ StreamsOK /\ AddsUp /\ InOrder /\ Counted
           Step == \A b \in Browser : view'[b].restartedAt = view[b].restartedAt =>
                     /\ LastID(view[b]) <= LastID(view'[b])
                     /\ \A s \in Subject :
                          Revision(view[b].apps[s]) <= Revision(view'[b].apps[s])
<1>1. OrderInv /\ [ArgusNext]_argusVars => [Step]_argusVars
  <2> SUFFICES ASSUME OrderInv, [ArgusNext]_argusVars PROVE Step
    OBVIOUS
  <2>1. \A b \in Browser : Forward(view[b], view'[b])
    <3>1. ASSUME NEW w \in View PROVE Forward(w, w)
      <4>1. LastID(w) \in Nat /\ \A s \in Subject : Revision(w.apps[s]) \in Nat
        BY ViewNotes, LastIDIs, RevisionIs
      <4> QED
        BY <4>1 DEF Forward
    <3>2. \A b \in Browser : view[b] \in View
      BY DEF StreamsOK
    <3>3. CASE UNCHANGED view
      BY <3>1, <3>2, <3>3
    <3>4. ASSUME NEW x \in Browser, Deliver(x) PROVE \A b \in Browser : Forward(view[b], view'[b])
      <4>1. Forward(view[x], view'[x]) /\ \A b \in Browser \ {x} : view'[b] = view[b]
        BY <3>4, DeliveredOrder
      <4> QED
        BY <3>1, <3>2, <4>1
    <3> QED
      BY <3>3, <3>4, ViewStep
  <2> QED
    BY <2>1 DEF Forward
<1>2. ArgusInit => OrderInv
  <2>1. ArgusInit => EventsOK
    BY FatesInit
  <2> QED
    BY <2>1, StreamsInit, OrderInit
<1>3. OrderInv /\ FatesOK /\ [ArgusNext]_argusVars => OrderInv'
  BY FatesStep, StreamsStep, OrderStep
<1>4. ArgusSpec => []OrderInv
  BY <1>2, <1>3, FatesAlways, PTL DEF ArgusSpec
<1> QED
  BY <1>1, <1>4, PTL DEF ArgusSpec, NeverBackwards
=============================================================================
