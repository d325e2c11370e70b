---------------------------- MODULE SequenceLemmas ----------------------------
(***************************************************************************)
(* Induction over the naturals for a set, and what the operators on        *)
(* sequences of the models build, whatever the length.                     *)
(***************************************************************************)
EXTENDS Integers, SequencesExt, FiniteSetsExt, FiniteSetTheorems, WellFoundedInduction, TLAPS

LEMMA LeastElement ==
    ASSUME NEW T \in SUBSET Nat, T # {}
    PROVE  \E x \in T : \A y \in T : ~ (y < x)
<1>1. \E x \in T : \A y \in T : <<y, x>> \notin OpToRel(<, Nat)
    BY WFMin, NatLessThanWellFounded, Zenon
<1> QED BY <1>1 DEF OpToRel

LEMMA SetInduction ==
    ASSUME NEW P, 0 \in P, \A n \in Nat : n \in P => n + 1 \in P
    PROVE  Nat \subseteq P
<1> DEFINE C == {n \in Nat : n \notin P}
<1> SUFFICES ASSUME C # {} PROVE FALSE
    OBVIOUS
<1>1. PICK x \in C : \A y \in C : ~ (y < x)
    BY LeastElement
<1>2. x # 0 /\ x \in Nat
    OBVIOUS
<1>3. x - 1 \in Nat /\ x - 1 \notin C
    BY <1>1, <1>2
<1> QED BY <1>2, <1>3

(* f joins the first i of the sequences, for each i up to k.               *)
Joins(f, seqs, k) ==
    \A i \in 1 .. k : f[i] = IF i = 1 THEN seqs[i] ELSE f[i - 1] \o seqs[i]

LEMMA JoinsExtend ==
    ASSUME NEW S, NEW B \in SUBSET Seq(S), \A a, b \in B : a \o b \in B,
           NEW seqs \in Seq(B), NEW k \in Nat, k + 1 <= Len(seqs),
           NEW f \in [1 .. k -> B], Joins(f, seqs, k)
    PROVE  \E g \in [1 .. k + 1 -> B] : Joins(g, seqs, k + 1)
<1> DEFINE last == IF k = 0 THEN seqs[1] ELSE f[k] \o seqs[k + 1]
           g == [i \in 1 .. k + 1 |-> IF i = k + 1 THEN last ELSE f[i]]
<1>1. last \in B
  <2>1. seqs[k + 1] \in B
    OBVIOUS
  <2>2. CASE k = 0
    BY <2>1, <2>2
  <2>3. CASE k # 0
    <3>1. f[k] \in B
      BY <2>3
    <3> QED BY <3>1, <2>1, <2>3
  <2> QED BY <2>2, <2>3
<1>2. g \in [1 .. k + 1 -> B]
    BY <1>1
<1>3. ASSUME NEW i \in 1 .. k + 1
      PROVE  g[i] = IF i = 1 THEN seqs[i] ELSE g[i - 1] \o seqs[i]
  <2>1. CASE i = k + 1
    <3>1. k # 0 => g[i - 1] = f[k]
      BY <2>1
    <3> QED BY <2>1, <3>1
  <2>2. CASE i # k + 1
    <3>1. i \in 1 .. k /\ g[i] = f[i]
      BY <2>2
    <3>2. i # 1 => g[i - 1] = f[i - 1]
      BY <3>1
    <3> QED BY <3>1, <3>2 DEF Joins
  <2> QED BY <2>1, <2>2
<1> HIDE DEF g
<1> QED BY <1>2, <1>3 DEF Joins

LEMMA JoinsExist ==
    ASSUME NEW S, NEW B \in SUBSET Seq(S), \A a, b \in B : a \o b \in B,
           NEW seqs \in Seq(B)
    PROVE  \E f \in [1 .. Len(seqs) -> B] : Joins(f, seqs, Len(seqs))
<1> DEFINE P == {k \in Nat : k <= Len(seqs) => \E f \in [1 .. k -> B] : Joins(f, seqs, k)}
<1>1. 0 \in P
  <2> DEFINE f == [i \in 1 .. 0 |-> seqs[i]]
  <2>1. f \in [1 .. 0 -> B] /\ Joins(f, seqs, 0)
    BY DEF Joins
  <2> QED BY <2>1
<1>2. ASSUME NEW k \in Nat, k \in P
      PROVE  k + 1 \in P
  <2> SUFFICES ASSUME k + 1 <= Len(seqs)
               PROVE  \E f \in [1 .. k + 1 -> B] : Joins(f, seqs, k + 1)
    OBVIOUS
  <2>1. PICK f \in [1 .. k -> B] : Joins(f, seqs, k)
    BY <1>2
  <2> QED BY <2>1, JoinsExtend
<1> HIDE DEF P
<1>3. Nat \subseteq P
    BY <1>1, <1>2, SetInduction
<1>4. Len(seqs) \in P
    BY <1>3
<1> QED BY <1>4 DEF P

LEMMA JoinsType ==
    ASSUME NEW S, NEW B \in SUBSET Seq(S), \A a, b \in B : a \o b \in B,
           NEW seqs \in Seq(B), NEW f, Joins(f, seqs, Len(seqs))
    PROVE  \A i \in 1 .. Len(seqs) : f[i] \in B
<1> DEFINE Q == {k \in Nat : k \in 1 .. Len(seqs) => f[k] \in B}
<1>1. 0 \in Q
    OBVIOUS
<1>2. ASSUME NEW k \in Nat, k \in Q
      PROVE  k + 1 \in Q
  <2> SUFFICES ASSUME NEW i \in 1 .. Len(seqs), i = k + 1
               PROVE  f[i] \in B
    OBVIOUS
  <2>1. seqs[i] \in B
    OBVIOUS
  <2>2. f[i] = IF i = 1 THEN seqs[i] ELSE f[i - 1] \o seqs[i]
    BY DEF Joins
  <2>3. i # 1 => f[i - 1] \in B
    BY <1>2
  <2> QED BY <2>1, <2>2, <2>3
<1> HIDE DEF Q
<1>3. Nat \subseteq Q
    BY <1>1, <1>2, SetInduction
<1> QED BY <1>3 DEF Q

(* What the recursive function of FlattenSeq computes.                     *)
LEMMA FlattenSeqJoins ==
    ASSUME NEW S, NEW B \in SUBSET Seq(S),
           \A a, b \in B : a \o b \in B,
           NEW seqs \in Seq(B), Len(seqs) # 0
    PROVE  \E f \in [1 .. Len(seqs) -> B] :
               Joins(f, seqs, Len(seqs)) /\ FlattenSeq(seqs) = f[Len(seqs)]
<1> DEFINE n == Len(seqs)
           Step(f) == [i \in 1 .. n |-> IF i = 1 THEN seqs[i] ELSE f[i - 1] \o seqs[i]]
           F == CHOOSE f : f = Step(f)
<1>1. PICK f \in [1 .. n -> B] : Joins(f, seqs, n)
    BY JoinsExist
<1>2. f = Step(f)
    BY <1>1 DEF Joins
<1>3. F = Step(F)
    BY <1>2
<1>4. Joins(F, seqs, n)
    BY <1>3 DEF Joins
<1>6. FlattenSeq(seqs) = F[n]
    BY DEF FlattenSeq
<1>7. DOMAIN F = 1 .. n /\ F = [i \in 1 .. n |-> F[i]]
    BY ZenonT(40), <1>3
<1> HIDE DEF F
<1>5. \A i \in 1 .. n : F[i] \in B
    BY <1>4, JoinsType
<1>8. F \in [1 .. n -> B]
    BY <1>5, <1>7
<1> QED BY <1>4, <1>6, <1>8

(* Sequences of a set that contains what any two of its elements make      *)
(* together are joined to one of that set.                                 *)
LEMMA FlattenSeqType ==
    ASSUME NEW S, NEW B \in SUBSET Seq(S), <<>> \in B,
           \A a, b \in B : a \o b \in B,
           NEW seqs \in Seq(B)
    PROVE  FlattenSeq(seqs) \in B
<1>1. CASE Len(seqs) = 0
    BY <1>1 DEF FlattenSeq
<1>2. CASE Len(seqs) # 0
  <2>1. PICK f \in [1 .. Len(seqs) -> B] : FlattenSeq(seqs) = f[Len(seqs)]
    BY <1>2, FlattenSeqJoins
  <2>2. Len(seqs) \in 1 .. Len(seqs)
    BY <1>2
  <2> QED BY <2>1, <2>2
<1> QED BY <1>1, <1>2

LEMMA FlattenFunctionType ==
    ASSUME NEW S, NEW X, NEW s \in Seq(X), NEW f \in [DOMAIN s -> Seq(S)]
    PROVE  FlattenSeq(f) \in Seq(S)
<1>1. DOMAIN s = 1 .. Len(s) /\ Len(s) \in Nat
    OBVIOUS
<1>2. PICK B : B = Seq(S)
    OBVIOUS
<1>3. f \in Seq(B)
    BY <1>1, <1>2
<1>4. <<>> \in B /\ B \in SUBSET Seq(S)
    BY <1>2
<1>5. \A a, b \in B : a \o b \in B
    BY <1>2
<1>6. FlattenSeq(f) \in B
    BY <1>3, <1>4, <1>5, FlattenSeqType
<1> QED BY <1>2, <1>6

(* The elements of a finite set in a row, each of them once.               *)
LEMMA SetToSeqIs ==
    ASSUME NEW S, IsFiniteSet(S)
    PROVE  /\ SetToSeq(S) \in Seq(S) /\ Len(SetToSeq(S)) = Cardinality(S)
           /\ IsInjective(SetToSeq(S)) /\ ToSet(SetToSeq(S)) = S
           /\ (SetToSeq(S) = <<>>) <=> (S = {})
<1> DEFINE n == Cardinality(S)
           s == SetToSeq(S)
<1>1. n \in Nat /\ ExistsBijection(1 .. n, S)
    BY FS_CardinalityType
<1>2. \E f \in [1 .. n -> S] : IsInjective(f)
    BY <1>1 DEF ExistsBijection, Bijection, Injection
<1>3. s \in [1 .. n -> S] /\ IsInjective(s)
    BY <1>2 DEF SetToSeq
<1>4. IsFiniteSet(1 .. n) /\ Cardinality(1 .. n) = n
    BY <1>1, FS_Interval
<1>5. s \in Injection(1 .. n, S)
    BY <1>3 DEF Injection
<1>6. s \in Surjection(1 .. n, S)
    BY <1>4, <1>5, FS_Injection
<1> HIDE DEF s
<1>7. s \in Seq(S) /\ Len(s) = n /\ DOMAIN s = 1 .. n
    BY <1>1, <1>3
<1>8. ToSet(s) = S
    BY <1>6, <1>7 DEF ToSet, Surjection
<1>9. (s = <<>>) <=> (S = {})
    BY <1>1, <1>7, FS_EmptySet
<1> QED BY <1>3, <1>7, <1>8, <1>9 DEF s

LEMMA MinIs ==
    ASSUME NEW T \in SUBSET Nat, T # {}
    PROVE  Min(T) \in T /\ \A y \in T : Min(T) <= y
<1>1. PICK x \in T : \A y \in T : ~ (y < x)
    BY LeastElement
<1>2. \A y \in T : x <= y
    BY <1>1
<1> QED BY <1>2 DEF Min

(* f[i] comes of start by i applications of next, for each i up to n.      *)
Iterates(f, S, next, start, n) ==
    /\ f \in [0 .. n -> S] /\ f[0] = start
    /\ \A i \in 1 .. n : f[i] = next[f[i - 1]]

LEMMA IterateExists ==
    ASSUME NEW S, NEW next \in [S -> S], NEW start \in S, NEW n \in Nat
    PROVE  \E f : Iterates(f, S, next, start, n)
<1> DEFINE Good(f, k) == f[0] = start /\ \A i \in 1 .. k : f[i] = next[f[i - 1]]
           P == {k \in Nat : \E f \in [0 .. k -> S] : Good(f, k)}
<1>1. 0 \in P
  <2> DEFINE f == [i \in 0 .. 0 |-> start]
  <2>1. f \in [0 .. 0 -> S] /\ Good(f, 0)
    OBVIOUS
  <2> QED BY <2>1
<1>2. ASSUME NEW k \in Nat, k \in P
      PROVE  k + 1 \in P
  <2>1. PICK f \in [0 .. k -> S] : Good(f, k)
    BY <1>2
  <2> DEFINE g == [i \in 0 .. k + 1 |-> IF i = k + 1 THEN next[f[k]] ELSE f[i]]
  <2>2. g \in [0 .. k + 1 -> S]
    OBVIOUS
  <2>3. ASSUME NEW i \in 1 .. k + 1
        PROVE  g[i] = next[g[i - 1]]
    <3>1. g[i - 1] = f[i - 1]
      OBVIOUS
    <3>2. CASE i = k + 1
      BY <3>1, <3>2
    <3>3. CASE i # k + 1
      BY <2>1, <3>1, <3>3
    <3> QED BY <3>2, <3>3
  <2>4. g[0] = start
    BY <2>1
  <2> HIDE DEF g
  <2> QED BY <2>2, <2>3, <2>4
<1> HIDE DEF P
<1>3. Nat \subseteq P
    BY <1>1, <1>2, SetInduction
<1>4. n \in P
    BY <1>3
<1>5. PICK f \in [0 .. n -> S] : Good(f, n)
    BY <1>4 DEF P
<1>6. Iterates(f, S, next, start, n)
    BY <1>5 DEF Iterates
<1> QED BY <1>6

LEMMA ToSetConcat ==
    ASSUME NEW S, NEW a \in Seq(S), NEW b \in Seq(S)
    PROVE  ToSet(a \o b) = ToSet(a) \cup ToSet(b)
<1>1. /\ DOMAIN a = 1 .. Len(a) /\ DOMAIN b = 1 .. Len(b) /\ Len(a) \in Nat /\ Len(b) \in Nat
      /\ DOMAIN (a \o b) = 1 .. Len(a) + Len(b)
      /\ \A i \in DOMAIN a : (a \o b)[i] = a[i]
      /\ \A i \in DOMAIN b : (a \o b)[Len(a) + i] = b[i]
    OBVIOUS
<1>2. ASSUME NEW x \in ToSet(a \o b)
      PROVE  x \in ToSet(a) \cup ToSet(b)
  <2>1. PICK i \in DOMAIN (a \o b) : (a \o b)[i] = x
    BY DEF ToSet
  <2>2. CASE i <= Len(a)
    BY <1>1, <2>1, <2>2 DEF ToSet
  <2>3. CASE i > Len(a)
    <3>1. i - Len(a) \in DOMAIN b /\ i = Len(a) + (i - Len(a))
      BY <1>1, <2>1, <2>3
    <3>2. b[i - Len(a)] = x
      BY <1>1, <2>1, <3>1
    <3> QED BY <3>1, <3>2 DEF ToSet
  <2> QED BY <1>1, <2>1, <2>2, <2>3
<1>3. ToSet(a) \subseteq ToSet(a \o b)
    BY <1>1 DEF ToSet
<1>4. ASSUME NEW x \in ToSet(b)
      PROVE  x \in ToSet(a \o b)
  <2>1. PICK i \in DOMAIN b : b[i] = x
    BY DEF ToSet
  <2>2. Len(a) + i \in DOMAIN (a \o b) /\ (a \o b)[Len(a) + i] = x
    BY <1>1, <2>1
  <2> QED BY <2>2 DEF ToSet
<1> QED BY <1>2, <1>3, <1>4

LEMMA AppendKeepsInjective ==
    ASSUME NEW S, NEW s \in Seq(S), NEW x \in S, IsInjective(s), x \notin ToSet(s)
    PROVE  /\ Append(s, x) \in Seq(S) /\ IsInjective(Append(s, x))
           /\ ToSet(Append(s, x)) = ToSet(s) \cup {x}
<1>1. /\ DOMAIN s = 1 .. Len(s) /\ Len(s) \in Nat /\ Append(s, x) \in Seq(S)
      /\ DOMAIN Append(s, x) = 1 .. Len(s) + 1 /\ Append(s, x)[Len(s) + 1] = x
      /\ \A i \in 1 .. Len(s) : Append(s, x)[i] = s[i]
    OBVIOUS
<1>2. \A i \in 1 .. Len(s) : s[i] # x
    BY <1>1 DEF ToSet
<1>3. IsInjective(Append(s, x))
  <2> SUFFICES ASSUME NEW i \in 1 .. Len(s) + 1, NEW j \in 1 .. Len(s) + 1,
                      Append(s, x)[i] = Append(s, x)[j]
               PROVE  i = j
    BY <1>1 DEF IsInjective
  <2>1. CASE i \in 1 .. Len(s) /\ j \in 1 .. Len(s)
    BY <1>1, <2>1 DEF IsInjective
  <2>2. CASE i = Len(s) + 1 \/ j = Len(s) + 1
    BY <1>1, <1>2, <2>2
  <2> QED BY <1>1, <2>1, <2>2
<1>4. ToSet(Append(s, x)) \subseteq ToSet(s) \cup {x}
    BY <1>1 DEF ToSet
<1>5. ToSet(s) \cup {x} \subseteq ToSet(Append(s, x))
    BY <1>1 DEF ToSet
<1>6. ToSet(Append(s, x)) = ToSet(s) \cup {x}
    BY <1>4, <1>5
<1>7. Append(s, x) \in Seq(S)
    BY <1>1
<1> QED BY <1>3, <1>6, <1>7, Zenon

(* The i-th element goes, and the last takes its place.                    *)
Dropped(s, i) == Front([s EXCEPT ![i] = Last(s)])

LEMMA DroppedIs ==
    ASSUME NEW S, NEW s \in Seq(S), NEW i \in DOMAIN s, IsInjective(s)
    PROVE  /\ Dropped(s, i) \in Seq(S) /\ IsInjective(Dropped(s, i))
           /\ ToSet(Dropped(s, i)) = ToSet(s) \ {s[i]}
<1> DEFINE n == Len(s)
           t == [j \in 1 .. n - 1 |-> IF j = i THEN s[n] ELSE s[j]]
<1>1. n \in Nat /\ DOMAIN s = 1 .. n /\ i \in 1 .. n /\ \A j \in 1 .. n : s[j] \in S
    OBVIOUS
<1>2. n - 1 \in Nat /\ n \in 1 .. n
    BY <1>1
<1>3. Dropped(s, i) = t
  <2>1. PICK u : u = [s EXCEPT ![i] = s[n]]
    OBVIOUS
  <2>2. u \in Seq(S) /\ Len(u) = n /\ \A j \in 1 .. n : u[j] = IF j = i THEN s[n] ELSE s[j]
    BY <1>1, <1>2, <2>1
  <2>3. Front(u) = t
    BY <2>2 DEF Front
  <2> QED BY <2>1, <2>3 DEF Dropped, Last
<1>4. t \in Seq(S) /\ DOMAIN t = 1 .. n - 1
    BY <1>1, <1>2
<1>5. \A j \in 1 .. n - 1 : t[j] = IF j = i THEN s[n] ELSE s[j]
    OBVIOUS
<1>6. \A j, k \in 1 .. n : s[j] = s[k] => j = k
    BY <1>1 DEF IsInjective
<1> HIDE DEF t
<1>7. IsInjective(t)
    BY <1>1, <1>2, <1>4, <1>5, <1>6 DEF IsInjective
<1>8. ASSUME NEW x \in ToSet(t)
      PROVE  x \in ToSet(s) \ {s[i]}
  <2>1. PICK j \in 1 .. n - 1 : t[j] = x
    BY <1>4 DEF ToSet
  <2>2. PICK k \in 1 .. n : x = s[k] /\ k # i
    BY <1>1, <1>2, <1>5, <2>1
  <2> QED BY <1>1, <1>6, <2>2 DEF ToSet
<1>9. ASSUME NEW x \in ToSet(s), x # s[i]
      PROVE  x \in ToSet(t)
  <2>1. PICK k \in 1 .. n : s[k] = x /\ k # i
    BY <1>1, <1>9 DEF ToSet
  <2>2. PICK j \in 1 .. n - 1 : t[j] = x
    <3>1. CASE k = n
      <4>1. i \in 1 .. n - 1
        BY <1>1, <2>1, <3>1
      <4>2. t[i] = x
        BY <1>5, <2>1, <3>1, <4>1
      <4> QED BY <4>1, <4>2
    <3>2. CASE k # n
      <4>1. k \in 1 .. n - 1
        <5> HIDE DEF n
        <5> QED BY <1>1, <2>1, <3>2
      <4>2. t[k] = x
        BY <1>5, <2>1, <4>1
      <4> QED BY <4>1, <4>2
    <3> QED BY <3>1, <3>2
  <2> QED BY <1>4, <2>2 DEF ToSet
<1>10. ToSet(t) = ToSet(s) \ {s[i]}
    BY <1>8, <1>9
<1> QED BY <1>3, <1>4, <1>7, <1>10, Zenon

(* The elements of s that are in T, in their order.                        *)
Picked(s, T) == FlattenSeq([i \in DOMAIN s |-> IF s[i] \in T THEN <<s[i]>> ELSE <<>>])

LEMMA PickedIs ==
    ASSUME NEW S, NEW s \in Seq(S), NEW T
    PROVE  /\ Picked(s, T) \in Seq(S) /\ ToSet(Picked(s, T)) = ToSet(s) \cap T
           /\ IsInjective(s) => IsInjective(Picked(s, T))
<1> DEFINE n == Len(s)
           seqs == [i \in DOMAIN s |-> IF s[i] \in T THEN <<s[i]>> ELSE <<>>]
           First(k) == {s[i] : i \in {j \in 1 .. k : s[j] \in T}}
           Good(a, k) == /\ a \in Seq(S) /\ ToSet(a) = First(k)
                         /\ IsInjective(s) => IsInjective(a)
<1>1. DOMAIN s = 1 .. n /\ n \in Nat /\ \A i \in 1 .. n : s[i] \in S
    OBVIOUS
<1>2. <<>> \in Seq(S) /\ \A x \in S : <<x>> \in Seq(S)
    OBVIOUS
<1>3. seqs \in [1 .. n -> Seq(S)] /\ Len(seqs) = n
    BY <1>1, <1>2
<1>4. seqs \in Seq(Seq(S))
    BY <1>1, <1>3
<1>5. \A a, b \in Seq(S) : a \o b \in Seq(S)
    OBVIOUS
<1>6. CASE n = 0
  <2>1. seqs = <<>> /\ s = <<>>
    BY <1>1, <1>3, <1>6
  <2>2. Picked(s, T) = <<>>
    BY <2>1 DEF Picked, FlattenSeq
  <2>3. DOMAIN <<>> = {}
    OBVIOUS
  <2>4. ToSet(s) = {} /\ ToSet(Picked(s, T)) = {}
    BY <2>1, <2>2, <2>3 DEF ToSet
  <2>5. IsInjective(Picked(s, T))
    BY <2>2, <2>3 DEF IsInjective
  <2> QED BY <2>2, <2>4, <2>5, <1>2
<1>7. CASE n # 0
  <2>1. PICK f \in [1 .. n -> Seq(S)] : Joins(f, seqs, n) /\ FlattenSeq(seqs) = f[n]
    BY <1>2, <1>3, <1>4, <1>5, <1>7, FlattenSeqJoins
  <2> DEFINE P == {k \in Nat : k \in 1 .. n => Good(f[k], k)}
  <2>2. 0 \in P
    OBVIOUS
  <2>3. ASSUME NEW k \in Nat, k \in P
        PROVE  k + 1 \in P
    <3> SUFFICES ASSUME k + 1 \in 1 .. n
                 PROVE  Good(f[k + 1], k + 1)
      OBVIOUS
    <3> DEFINE a == IF k = 0 THEN <<>> ELSE f[k]
               x == s[k + 1]
    <3>1. Good(a, k)
      <4>1. CASE k = 0
        BY <1>2, <4>1 DEF ToSet, IsInjective
      <4>2. CASE k # 0
        BY <2>3, <4>2
      <4> QED BY <4>1, <4>2
    <3>2. f[k + 1] = a \o seqs[k + 1]
      <4>0. k + 1 \in 1 .. n /\ (k + 1) - 1 = k
        OBVIOUS
      <4> HIDE DEF seqs, n
      <4>1. f[k + 1] = IF k + 1 = 1 THEN seqs[k + 1] ELSE f[k] \o seqs[k + 1]
        BY <2>1, <4>0 DEF Joins
      <4>2. \A b \in Seq(S) : <<>> \o b = b
        OBVIOUS
      <4>3. seqs[k + 1] \in Seq(S)
        BY <1>3, <4>0
      <4>4. CASE k = 0
        <5>1. k + 1 = 1 /\ a = <<>>
          BY <4>4
        <5>2. f[k + 1] = seqs[k + 1] /\ <<>> \o seqs[k + 1] = seqs[k + 1]
          BY <4>1, <4>2, <4>3, <5>1
        <5> QED BY <5>1, <5>2
      <4>5. CASE k # 0
        <5>1. k + 1 # 1 /\ a = f[k]
          BY <4>5
        <5> QED BY <4>1, <5>1
      <4> QED BY <4>4, <4>5
    <3>3. x \in S /\ seqs[k + 1] = IF x \in T THEN <<x>> ELSE <<>>
      BY <1>1
    <3>4. First(k + 1) = IF x \in T THEN First(k) \cup {x} ELSE First(k)
      <4>1. \A j : j \in 1 .. k + 1 <=> j \in 1 .. k \/ j = k + 1
        OBVIOUS
      <4> QED BY <4>1
    <3>5. IsInjective(s) => x \notin First(k)
      BY <1>1 DEF IsInjective
    <3>6. a \in Seq(S)
      BY <3>1
    <3> HIDE DEF a, x, seqs
    <3>7. CASE x \notin T
      <4>1. \A b \in Seq(S) : b \o <<>> = b
        OBVIOUS
      <4> QED BY <3>1, <3>2, <3>3, <3>4, <3>6, <3>7, <4>1
    <3>8. CASE x \in T
      <4>1. a \o <<x>> = Append(a, x) /\ Append(a, x) \in Seq(S)
        BY <3>3, <3>6
      <4>2. ToSet(a \o <<x>>) = ToSet(a) \cup ToSet(<<x>>)
        <5>1. PICK b \in Seq(S) : b = <<x>>
          BY <3>3, <1>2
        <5>2. ToSet(a \o b) = ToSet(a) \cup ToSet(b)
          BY <3>6, ToSetConcat
        <5> QED BY <5>1, <5>2
      <4>3. ToSet(<<x>>) = {x}
        BY DEF ToSet
      <4>4. IsInjective(s) => IsInjective(Append(a, x))
        <5>1. PICK b \in Seq(S), y \in S : b = a /\ y = x
          BY <3>3, <3>6
        <5>2. IsInjective(b) /\ y \notin ToSet(b) => IsInjective(Append(b, y))
          BY AppendKeepsInjective, Zenon
        <5> QED BY <3>1, <3>5, <5>1, <5>2
      <4> QED BY <3>1, <3>2, <3>3, <3>4, <3>8, <4>1, <4>2, <4>3, <4>4
    <3> QED BY <3>7, <3>8
  <2> HIDE DEF P
  <2>4. Nat \subseteq P
    BY <2>2, <2>3, SetInduction
  <2>5. n \in P /\ n \in 1 .. n
    BY <1>1, <1>7, <2>4
  <2>6. Good(f[n], n) /\ Picked(s, T) = f[n]
    BY <2>1, <2>5 DEF P, Picked
  <2>7. First(n) = ToSet(s) \cap T
    BY <1>1 DEF ToSet
  <2> QED BY <2>6, <2>7
<1> QED BY <1>1, <1>6, <1>7

LEMMA SetToSeqsType ==
    ASSUME NEW S, IsFiniteSet(S), NEW s \in SetToSeqs(S)
    PROVE  s \in Seq(S)
<1>1. Cardinality(S) \in Nat
    BY FS_CardinalityType
<1> QED BY <1>1 DEF SetToSeqs

(* Nothing of the parts is lost when they are joined.                      *)
LEMMA FlattenSeqKeeps ==
    ASSUME NEW S, NEW X, NEW s \in Seq(X), NEW f \in [DOMAIN s -> Seq(S)],
           NEW i \in DOMAIN s, NEW x \in ToSet(f[i])
    PROVE  x \in ToSet(FlattenSeq(f))
<1>1. PICK B : B = Seq(S)
    OBVIOUS
<1>2. f \in Seq(B) /\ DOMAIN s = 1 .. Len(s) /\ Len(s) \in Nat /\ Len(f) = Len(s)
    BY <1>1
<1>3. B \in SUBSET Seq(S) /\ \A a, b \in B : a \o b \in B
    BY <1>1
<1>4. PICK n \in Nat : n = Len(f) /\ i \in 1 .. n
    BY <1>2
<1>5. PICK g \in [1 .. n -> B] : Joins(g, f, n) /\ FlattenSeq(f) = g[n]
  <2>1. Len(f) # 0
    BY <1>4
  <2>2. \E g \in [1 .. Len(f) -> B] : Joins(g, f, Len(f)) /\ FlattenSeq(f) = g[Len(f)]
    BY <1>2, <1>3, <2>1, FlattenSeqJoins
  <2> QED BY <1>4, <2>2, Zenon
<1>5a. \A k \in 1 .. n : g[k] = IF k = 1 THEN f[k] ELSE g[k - 1] \o f[k]
    BY <1>5, Zenon DEF Joins
<1>6. \A k \in 1 .. n : g[k] \in Seq(S) /\ f[k] \in Seq(S)
    BY <1>1, <1>2, <1>4, <1>5
<1>7. \A k \in 1 .. n : k # 1 => ToSet(g[k]) = ToSet(g[k - 1]) \cup ToSet(f[k])
  <2> SUFFICES ASSUME NEW k \in 1 .. n, k # 1
               PROVE  ToSet(g[k]) = ToSet(g[k - 1]) \cup ToSet(f[k])
    OBVIOUS
  <2>1. k - 1 \in 1 .. n
    BY <1>4
  <2>1a. g[k] = g[k - 1] \o f[k]
    BY <1>5a, Zenon
  <2>2. PICK a \in Seq(S), b \in Seq(S) : a = g[k - 1] /\ b = f[k]
    BY <1>6, <2>1
  <2>3. ToSet(a \o b) = ToSet(a) \cup ToSet(b)
    BY ToSetConcat
  <2> QED BY <2>1a, <2>2, <2>3
<1>8. g[1] = f[1]
  <2>1. 1 \in 1 .. n
    BY <1>4
  <2> QED BY <1>5a, <2>1, Zenon
<1> DEFINE P == {k \in Nat : k \in i .. n => x \in ToSet(g[k])}
<1>9. x \in ToSet(g[i])
    BY <1>4, <1>7, <1>8
<1>10. 0 \in P
    BY <1>4
<1>11. ASSUME NEW k \in Nat, k \in P
       PROVE  k + 1 \in P
  <2>1. CASE k + 1 \notin i .. n
    BY <2>1
  <2>2. CASE k + 1 = i
    BY <1>9, <2>2
  <2>3. CASE k + 1 \in i .. n /\ k + 1 # i
    <3>1. k \in i .. n /\ k + 1 \in 1 .. n /\ k + 1 # 1 /\ (k + 1) - 1 = k
      BY <1>4, <2>3
    <3>2. x \in ToSet(g[k])
      BY <1>11, <3>1
    <3>3. x \in ToSet(g[k + 1])
      BY <1>7, <3>1, <3>2
    <3> QED BY <3>3
  <2> QED BY <2>1, <2>2, <2>3
<1> HIDE DEF P
<1>12. Nat \subseteq P
    BY <1>10, <1>11, SetInduction
<1>13. n \in P /\ n \in i .. n
    BY <1>4, <1>12
<1>14. x \in ToSet(g[n])
    BY <1>13 DEF P
<1> QED BY <1>5, <1>14
==============================================================================
