---------------------------- MODULE Storage_proofs ----------------------------
(***************************************************************************)
(* Proofs about Drive, for every set of groups, names and contents, and    *)
(* about BigTable, for every set of files, sizes and bounds.  The two      *)
(* modules share no state: what the proofs share is what joining sequences *)
(* gives (FlattenSeq), which comes first.                                  *)
(***************************************************************************)
EXTENDS Drive, BigTable, TLAPS, FiniteSetTheorems, WellFoundedInduction

(* A set of numbers has a least one.                                       *)
LEMMA SmallestNumber ==
    ASSUME NEW T \in SUBSET Nat, T # {}
    PROVE  \E x \in T : \A y \in T : x <= y
<1>1. PICK x \in T : \A y \in T : ~ (<<y, x>> \in OpToRel(<, Nat))
  <2>1. \E x \in T : \A y \in T : ~ (<<y, x>> \in OpToRel(<, Nat))
    BY NatLessThanWellFounded, WFMin, Zenon
  <2> QED
    BY <2>1, Zenon
<1>2. \A y \in T : ~ (y < x)
  BY <1>1, Zenon DEF OpToRel
<1> QED
  BY <1>2

(* What FlattenSeq computes is defined by a recursive function, too.       *)
FlattenOf(f, q) ==
    f = [i \in 1..Len(q) |-> IF i = 1 THEN q[i] ELSE f[i - 1] \o q[i]]

LEMMA FlattenUnique ==
    ASSUME NEW q, Len(q) \in Nat, NEW a, NEW b, FlattenOf(a, q), FlattenOf(b, q)
    PROVE  a = b
<1> DEFINE D == {i \in 1..Len(q) : a[i] # b[i]}
<1>1. D = {}
  <2> SUFFICES ASSUME D # {} PROVE FALSE
    OBVIOUS
  <2>1. D \in SUBSET Nat
    OBVIOUS
  <2>2. PICK i \in D : \A j \in D : i <= j
    <3> HIDE DEF D
    <3> QED
      BY <2>1, SmallestNumber
  <2>3. /\ a[i] = IF i = 1 THEN q[i] ELSE a[i - 1] \o q[i]
        /\ b[i] = IF i = 1 THEN q[i] ELSE b[i - 1] \o q[i]
    BY DEF FlattenOf
  <2>4. i # 1 => i - 1 \in 1..Len(q) /\ i - 1 \notin D
    BY <2>2
  <2>5. i # 1 => a[i - 1] = b[i - 1]
    BY <2>4
  <2> QED
    BY <2>3, <2>5
<1>2. a = [i \in 1..Len(q) |-> a[i]] /\ b = [i \in 1..Len(q) |-> b[i]]
  BY DEF FlattenOf
<1> QED
  BY <1>1, <1>2

LEMMA FlattenExists ==
    ASSUME NEW S, NEW q \in Seq(Seq(S))
    PROVE  \E f \in [1..Len(q) -> Seq(S)] : FlattenOf(f, q)
<1> DEFINE Step(f, i) == IF i = 1 THEN q[i] ELSE f[i - 1] \o q[i]
           Good(n) == \E f \in [1..n -> Seq(S)] : \A i \in 1..n : f[i] = Step(f, i)
           Bad == {n \in 0..Len(q) : ~ Good(n)}
<1>1. Len(q) \in Nat /\ \A i \in 1..Len(q) : q[i] \in Seq(S)
  OBVIOUS
<1>2. Good(0)
  <2>1. 1..0 = {}
    OBVIOUS
  <2>2. [i \in 1..0 |-> <<>>] \in [1..0 -> Seq(S)]
    BY <2>1
  <2> QED
    BY <2>1, <2>2
<1>3. ASSUME NEW n \in Nat, n < Len(q), Good(n) PROVE Good(n + 1)
  <2>1. PICK f \in [1..n -> Seq(S)] : \A i \in 1..n : f[i] = Step(f, i)
    BY <1>3
  <2> DEFINE g == [i \in 1..(n + 1) |-> IF i <= n THEN f[i] ELSE Step(f, n + 1)]
  <2>2. Step(f, n + 1) \in Seq(S)
    <3>1. q[n + 1] \in Seq(S)
      BY <1>1, <1>3
    <3>2. n # 0 => f[(n + 1) - 1] \in Seq(S)
      BY <2>1
    <3> QED
      BY <3>1, <3>2
  <2>3. g \in [1..(n + 1) -> Seq(S)]
    BY <2>1, <2>2
  <2>4. \A i \in 1..n : g[i] = f[i]
    OBVIOUS
  <2>5. g[n + 1] = Step(f, n + 1)
    OBVIOUS
  <2> HIDE DEF g
  <2>6. ASSUME NEW i \in 1..(n + 1) PROVE g[i] = Step(g, i)
    <3>1. CASE i <= n
      <4>1. i \in 1..n
        BY <3>1
      <4>2. g[i] = Step(f, i)
        BY <2>1, <2>4, <4>1
      <4>3. i # 1 => i - 1 \in 1..n
        BY <4>1
      <4> QED
        BY <2>4, <4>3, <4>2
    <3>2. CASE i = n + 1
      <4>1. i # 1 => i - 1 \in 1..n
        BY <3>2
      <4> QED
        BY <2>4, <2>5, <3>2, <4>1
    <3> QED
      BY <3>1, <3>2
  <2> QED
    BY <2>3, <2>6
<1> HIDE DEF Good
<1>4. Bad = {}
  <2> SUFFICES ASSUME Bad # {} PROVE FALSE
    OBVIOUS
  <2>1. Bad \in SUBSET Nat
    BY <1>1
  <2>2. PICK n \in Bad : \A m \in Bad : n <= m
    <3> HIDE DEF Bad
    <3> QED
      BY <2>1, SmallestNumber
  <2>3. n \in Nat /\ n # 0 /\ n <= Len(q)
    BY <1>1, <1>2
  <2>4. n - 1 \in 0..Len(q) /\ n - 1 \notin Bad
    BY <1>1, <2>2, <2>3
  <2>5. Good((n - 1) + 1)
    BY <1>1, <1>3, <2>3, <2>4
  <2>6. (n - 1) + 1 = n
    BY <2>3
  <2>7. Good(n)
    BY <2>5, <2>6
  <2> QED
    BY <2>7
<1>5. Good(Len(q))
  BY <1>1, <1>4
<1>6. PICK f \in [1..Len(q) -> Seq(S)] : \A i \in 1..Len(q) : f[i] = Step(f, i)
  BY <1>5 DEF Good
<1>7. FlattenOf(f, q)
  BY <1>6 DEF FlattenOf
<1> QED
  BY <1>7

LEMMA FlattenIs ==
    ASSUME NEW q, Len(q) \in Nat, Len(q) # 0, NEW f, FlattenOf(f, q)
    PROVE  FlattenSeq(q) = f[Len(q)]
<1>1. \A g : FlattenOf(g, q) => g = f
  BY FlattenUnique
<1> QED
  BY <1>1, Zenon DEF FlattenSeq, FlattenOf

(* The elements of two sequences joined, and of one with an element more.  *)
LEMMA JoinedMembers ==
    ASSUME NEW S, NEW a \in Seq(S), NEW b \in Seq(S)
    PROVE  a \o b \in Seq(S) /\ ToSet(a \o b) = ToSet(a) \cup ToSet(b)
<1>1. /\ Len(a) \in Nat /\ Len(b) \in Nat /\ a \o b \in Seq(S)
      /\ Len(a \o b) = Len(a) + Len(b)
  OBVIOUS
<1>2. /\ DOMAIN a = 1..Len(a) /\ DOMAIN b = 1..Len(b)
      /\ DOMAIN (a \o b) = 1..(Len(a) + Len(b))
  BY <1>1
<1>3. /\ \A i \in 1..Len(a) : (a \o b)[i] = a[i]
      /\ \A i \in 1..Len(b) : (a \o b)[Len(a) + i] = b[i]
  OBVIOUS
<1>4. ASSUME NEW i \in 1..(Len(a) + Len(b))
      PROVE  i \in 1..Len(a) \/ \E j \in 1..Len(b) : i = Len(a) + j
  <2>1. CASE i <= Len(a)
    BY <1>1, <2>1
  <2>2. CASE i > Len(a)
    <3>1. i - Len(a) \in 1..Len(b) /\ i = Len(a) + (i - Len(a))
      BY <1>1, <2>2
    <3> QED
      BY <3>1
  <2> QED
    BY <1>1, <2>1, <2>2
<1>5. /\ \A i \in 1..Len(a) : i \in 1..(Len(a) + Len(b))
      /\ \A i \in 1..Len(b) : Len(a) + i \in 1..(Len(a) + Len(b))
  BY <1>1
<1> DEFINE c == a \o b
<1>6. c \in Seq(S) /\ DOMAIN c = 1..(Len(a) + Len(b))
  BY <1>1, <1>2
<1>7. /\ \A i \in 1..Len(a) : c[i] = a[i]
      /\ \A i \in 1..Len(b) : c[Len(a) + i] = b[i]
  BY <1>3
<1> HIDE DEF c
<1>8. ToSet(c) = ToSet(a) \cup ToSet(b)
  <2>1. /\ ToSet(c) = {c[i] : i \in 1..(Len(a) + Len(b))}
        /\ ToSet(a) = {a[i] : i \in 1..Len(a)} /\ ToSet(b) = {b[i] : i \in 1..Len(b)}
    BY <1>2, <1>6 DEF ToSet
  <2>2. ASSUME NEW e \in ToSet(c) PROVE e \in ToSet(a) \cup ToSet(b)
    <3>1. PICK i \in 1..(Len(a) + Len(b)) : e = c[i]
      BY <2>1
    <3>2. CASE i \in 1..Len(a)
      BY <1>7, <2>1, <3>1, <3>2
    <3>3. CASE \E j \in 1..Len(b) : i = Len(a) + j
      BY <1>7, <2>1, <3>1, <3>3
    <3> QED
      BY <1>4, <3>2, <3>3
  <2>3. ASSUME NEW e \in ToSet(a) PROVE e \in ToSet(c)
    BY <1>5, <1>7, <2>1
  <2>4. ASSUME NEW e \in ToSet(b) PROVE e \in ToSet(c)
    <3>1. PICK i \in 1..Len(b) : e = b[i]
      BY <2>1
    <3>2. e = c[Len(a) + i] /\ Len(a) + i \in 1..(Len(a) + Len(b))
      BY <1>5, <1>7, <3>1
    <3> QED
      BY <2>1, <3>2
  <2> QED
    BY <2>2, <2>3, <2>4
<1> QED
  BY <1>6, <1>8 DEF c

LEMMA AppendedMembers ==
    ASSUME NEW S, NEW a \in Seq(S), NEW e \in S
    PROVE  Append(a, e) \in Seq(S) /\ ToSet(Append(a, e)) = ToSet(a) \cup {e}
<1>1. PICK u : u = <<e>>
  OBVIOUS
<1>2. PICK b : b = Append(a, e)
  OBVIOUS
<1>3. u \in Seq(S) /\ b = a \o u
  BY <1>1, <1>2
<1>4. ToSet(u) = {e}
  BY <1>1 DEF ToSet
<1>5. b \in Seq(S) /\ ToSet(b) = ToSet(a) \cup ToSet(u)
  BY <1>3, JoinedMembers
<1> QED
  BY <1>2, <1>4, <1>5

(* What joining sequences gives: their elements, and no others.            *)
LEMMA FlattenMembers ==
    ASSUME NEW S, NEW q \in Seq(Seq(S))
    PROVE  /\ FlattenSeq(q) \in Seq(S)
           /\ ToSet(FlattenSeq(q)) = UNION {ToSet(q[i]) : i \in 1..Len(q)}
<1> DEFINE n == Len(q)
<1>1. n \in Nat /\ \A i \in 1..n : q[i] \in Seq(S)
  OBVIOUS
<1>2. CASE n = 0
  <2>1. FlattenSeq(q) = q
    BY <1>1, <1>2 DEF FlattenSeq
  <2>2. q = <<>>
    BY <1>2
  <2> QED
    BY <2>1, <2>2 DEF ToSet
<1>3. CASE n # 0
  <2>1. PICK f \in [1..n -> Seq(S)] : FlattenOf(f, q)
    BY FlattenExists
  <2>2. FlattenSeq(q) = f[n]
    BY <1>1, <1>3, <2>1, FlattenIs
  <2>3. \A i \in 1..n : f[i] = IF i = 1 THEN q[i] ELSE f[i - 1] \o q[i]
    BY <2>1 DEF FlattenOf
  <2>4. n \in Nat /\ n # 0
    BY <1>1, <1>3
  <2> HIDE DEF n
  <2> DEFINE Right(i) == ToSet(f[i]) = UNION {ToSet(q[j]) : j \in 1..i}
             Bad == {i \in 1..n : ~ Right(i)}
  <2>5. Right(1)
    <3>1. 1 \in 1..n
      BY <2>4
    <3>2. f[1] = q[1]
      BY <2>3, <3>1
    <3>3. 1..1 = {1}
      OBVIOUS
    <3> QED
      BY <3>1, <3>2, <3>3
  <2>6. ASSUME NEW i \in 2..n, Right(i - 1) PROVE Right(i)
    <3>1. i - 1 \in 1..n /\ i \in 1..n /\ i # 1
      BY <1>1
    <3>2. f[i] = f[i - 1] \o q[i]
      BY <2>3, <3>1
    <3>3. f[i - 1] \in Seq(S) /\ q[i] \in Seq(S)
      BY <1>1, <2>1, <3>1
    <3>4. ToSet(f[i]) = ToSet(f[i - 1]) \cup ToSet(q[i])
      BY <3>2, <3>3, JoinedMembers
    <3>5. 1..i = (1..(i - 1)) \cup {i}
      BY <3>1
    <3> QED
      BY <2>6, <3>4, <3>5
  <2> HIDE DEF Right
  <2>7. Bad = {}
    <3> SUFFICES ASSUME Bad # {} PROVE FALSE
      OBVIOUS
    <3>1. Bad \in SUBSET Nat
      BY <1>1
    <3>2. PICK i \in Bad : \A j \in Bad : i <= j
      <4> HIDE DEF Bad
      <4> QED
        BY <3>1, SmallestNumber
    <3>3. i \in 2..n
      BY <1>1, <2>5
    <3>4. i - 1 \in 1..n /\ i - 1 \notin Bad
      BY <1>1, <3>2, <3>3
    <3>5. Right(i)
      BY <2>6, <3>3, <3>4
    <3> QED
      BY <3>5
  <2>8. n \in 1..n
    BY <2>4
  <2>9. Right(n)
    BY <2>7, <2>8
  <2>10. f[n] \in Seq(S)
    BY <2>1, <2>8
  <2> QED
    BY <2>2, <2>9, <2>10 DEF Right, n
<1> QED
  BY <1>2, <1>3

LEMMA MembersTyped ==
    ASSUME NEW S, NEW a \in Seq(S)
    PROVE  ToSet(a) \subseteq S
<1>1. DOMAIN a = 1..Len(a) /\ \A i \in 1..Len(a) : a[i] \in S
  OBVIOUS
<1> QED
  BY <1>1 DEF ToSet

(* A part of a sequence that has the elements of another.                  *)
LEMMA PartIs ==
    ASSUME NEW S, NEW u \in Seq(S), NEW w \in Seq(S), NEW L \in Nat,
           L + Len(w) <= Len(u), \A x \in 1..Len(w) : u[L + x] = w[x]
    PROVE  SubSeq(u, L + 1, L + Len(w)) = w
<1>1. Len(u) \in Nat /\ Len(w) \in Nat
  OBVIOUS
<1>2. PICK p : p = SubSeq(u, L + 1, L + Len(w))
  OBVIOUS
<1>3. p \in Seq(S) /\ Len(p) = Len(w)
  BY <1>1, <1>2
<1>4. ASSUME NEW x \in 1..Len(w) PROVE p[x] = w[x]
  <2>1. p[x] = u[L + x]
    BY <1>1, <1>2
  <2> QED
    BY <2>1
<1>5. p = w
  BY <1>3, <1>4
<1> QED
  BY <1>2, <1>5

(* What the first sequences of several join to.                            *)
LEMMA FlattenFirst ==
    ASSUME NEW S, NEW q \in Seq(Seq(S)), NEW f, FlattenOf(f, q), NEW m \in 0..Len(q)
    PROVE  FlattenSeq(SubSeq(q, 1, m)) = IF m = 0 THEN <<>> ELSE f[m]
<1>1. PICK r : r = SubSeq(q, 1, m)
  OBVIOUS
<1>2. Len(q) \in Nat /\ m \in Nat /\ m <= Len(q)
  OBVIOUS
<1>3. r \in Seq(Seq(S)) /\ Len(r) = m /\ \A i \in 1..m : r[i] = q[i]
  BY <1>1, <1>2
<1>4. CASE m = 0
  <2>1. FlattenSeq(r) = r
    BY <1>3, <1>4 DEF FlattenSeq
  <2>2. r = <<>>
    BY <1>3, <1>4
  <2> QED
    BY <1>1, <1>4, <2>1, <2>2
<1>5. CASE m # 0
  <2>1. PICK g : g = [i \in 1..m |-> f[i]]
    OBVIOUS
  <2>2. \A i \in 1..Len(q) : f[i] = IF i = 1 THEN q[i] ELSE f[i - 1] \o q[i]
    BY DEF FlattenOf
  <2>3. ASSUME NEW i \in 1..m PROVE g[i] = IF i = 1 THEN r[i] ELSE g[i - 1] \o r[i]
    <3>1. i \in 1..Len(q) /\ g[i] = f[i] /\ r[i] = q[i]
      BY <1>2, <1>3, <2>1
    <3>2. i # 1 => i - 1 \in 1..m
      BY <1>2
    <3> QED
      BY <2>1, <2>2, <3>1, <3>2
  <2>4. FlattenOf(g, r)
    <3>1. g = [i \in 1..m |-> g[i]]
      BY <2>1
    <3>2. g = [i \in 1..m |-> IF i = 1 THEN r[i] ELSE g[i - 1] \o r[i]]
      BY <2>3, <3>1
    <3> QED
      BY <1>3, <3>2 DEF FlattenOf
  <2>5. m \in 1..m
    BY <1>2, <1>5
  <2>6. Len(r) \in Nat /\ Len(r) # 0
    BY <1>2, <1>3, <1>5
  <2>7. FlattenSeq(r) = g[Len(r)]
    BY <2>4, <2>6, FlattenIs
  <2>8. FlattenSeq(r) = f[m]
    BY <1>3, <2>1, <2>5, <2>7
  <2> QED
    BY <1>1, <1>5, <2>8
<1> QED
  BY <1>4, <1>5

(* Where one of several sequences is when they are joined.                 *)
LEMMA FlattenPlace ==
    ASSUME NEW S, NEW q \in Seq(Seq(S)), NEW k \in 1..Len(q),
           NEW L, L = Len(FlattenSeq(SubSeq(q, 1, k - 1)))
    PROVE  /\ L \in Nat /\ L + Len(q[k]) <= Len(FlattenSeq(q))
           /\ SubSeq(FlattenSeq(q), L + 1, L + Len(q[k])) = q[k]
<1>1. PICK n \in Nat : n = Len(q)
  OBVIOUS
<1>2. \A i \in 1..n : q[i] \in Seq(S)
  BY <1>1
<1>3. k \in 1..n /\ k - 1 \in 0..n /\ n # 0
  BY <1>1
<1>4. PICK f \in [1..n -> Seq(S)] : FlattenOf(f, q)
  BY <1>1, FlattenExists
<1>5. FlattenSeq(q) = f[n]
  BY <1>1, <1>3, <1>4, FlattenIs
<1>6. FlattenSeq(SubSeq(q, 1, k - 1)) = IF k - 1 = 0 THEN <<>> ELSE f[k - 1]
  BY <1>1, <1>3, <1>4, FlattenFirst
<1>7. \A i \in 1..n : f[i] = IF i = 1 THEN q[i] ELSE f[i - 1] \o q[i]
  BY <1>1, <1>4 DEF FlattenOf
<1>8. PICK w \in Seq(S) : w = q[k]
  BY <1>2, <1>3
<1>9. Len(w) \in Nat
  BY <1>8
<1>10. L \in Nat
  <2>1. k # 1 => f[k - 1] \in Seq(S)
    BY <1>3, <1>4
  <2>2. k # 1 => L = Len(f[k - 1])
    BY <1>3, <1>6
  <2>3. k = 1 => L = 0
    BY <1>6
  <2> QED
    BY <2>1, <2>2, <2>3
<1> DEFINE Right(i) == /\ L + Len(w) <= Len(f[i])
                       /\ \A x \in 1..Len(w) : f[i][L + x] = w[x]
           Bad == {i \in k..n : ~ Right(i)}
<1>11. Right(k)
  <2>1. CASE k = 1
    <3>1. f[k] = w
      BY <1>3, <1>7, <1>8, <2>1
    <3>2. L = 0
      BY <1>6, <2>1
    <3> QED
      BY <1>9, <3>1, <3>2
  <2>2. CASE k # 1
    <3>1. PICK u \in Seq(S) : u = f[k - 1]
      BY <1>3, <1>4, <2>2
    <3>2. f[k] = u \o w
      BY <1>3, <1>7, <1>8, <2>2, <3>1
    <3>3. L = Len(u)
      BY <1>3, <1>6, <2>2, <3>1
    <3>4. Len(u \o w) = Len(u) + Len(w) /\ \A x \in 1..Len(w) : (u \o w)[Len(u) + x] = w[x]
      OBVIOUS
    <3> QED
      BY <1>9, <1>10, <3>2, <3>4, <3>3
  <2> QED
    BY <2>1, <2>2
<1>12. ASSUME NEW i \in (k + 1)..n, Right(i - 1) PROVE Right(i)
  <2>1. i \in 1..n /\ i - 1 \in 1..n /\ i # 1
    BY <1>3
  <2>2. PICK u \in Seq(S) : u = f[i - 1]
    BY <1>4, <2>1
  <2>3. PICK v \in Seq(S) : v = q[i]
    BY <1>2, <2>1
  <2>4. f[i] = u \o v
    BY <1>7, <2>1, <2>2, <2>3
  <2>5. /\ Len(u) \in Nat /\ Len(v) \in Nat /\ Len(u \o v) = Len(u) + Len(v)
        /\ \A x \in 1..Len(u) : (u \o v)[x] = u[x]
    OBVIOUS
  <2>6. L + Len(w) <= Len(u) /\ \A x \in 1..Len(w) : u[L + x] = w[x]
    BY <1>12, <2>2
  <2>7. \A x \in 1..Len(w) : L + x \in 1..Len(u)
    BY <1>9, <1>10, <2>5, <2>6
  <2>8. L + Len(w) <= Len(u) + Len(v)
    BY <1>9, <1>10, <2>5, <2>6
  <2> QED
    BY <2>4, <2>5, <2>6, <2>7, <2>8
<1> HIDE DEF Right
<1>13. Bad = {}
  <2> SUFFICES ASSUME Bad # {} PROVE FALSE
    OBVIOUS
  <2>1. Bad \in SUBSET Nat
    BY <1>3
  <2>2. PICK i \in Bad : \A j \in Bad : i <= j
    <3> HIDE DEF Bad
    <3> QED
      BY <2>1, SmallestNumber
  <2>3. i \in (k + 1)..n
    BY <1>3, <1>11
  <2>4. i - 1 \in k..n /\ i - 1 \notin Bad
    BY <1>3, <2>2, <2>3
  <2>5. Right(i)
    BY <1>12, <2>3, <2>4
  <2> QED
    BY <2>5
<1>14. Right(n)
  <2>1. n \in k..n
    BY <1>3
  <2> QED
    BY <1>13, <2>1
<1>15. PICK u \in Seq(S) : u = f[n]
  BY <1>3, <1>4
<1>16. L + Len(w) <= Len(u) /\ \A x \in 1..Len(w) : u[L + x] = w[x]
  BY <1>14, <1>15 DEF Right
<1>17. SubSeq(u, L + 1, L + Len(w)) = w
  BY <1>10, <1>16, PartIs
<1> QED
  BY <1>5, <1>8, <1>10, <1>15, <1>16, <1>17

-----------------------------------------------------------------------------
(* The greatest and the least of a set of numbers.                        *)
LEMMA MaxIs ==
    ASSUME NEW T \in SUBSET Int, NEW x \in T, \A y \in T : x >= y
    PROVE  Max(T) = x
<1>1. \E m \in T : \A y \in T : m >= y
  OBVIOUS
<1>2. Max(T) \in T /\ \A y \in T : Max(T) >= y
  BY <1>1 DEF Max
<1>3. PICK z \in T : z = Max(T)
  BY <1>2
<1>4. z >= x /\ x >= z
  BY <1>2, <1>3
<1> QED
  BY <1>3, <1>4

LEMMA MinIs ==
    ASSUME NEW T \in SUBSET Int, NEW x \in T, \A y \in T : x <= y
    PROVE  Min(T) = x
<1>1. \E m \in T : \A y \in T : m <= y
  OBVIOUS
<1>2. Min(T) \in T /\ \A y \in T : Min(T) <= y
  BY <1>1 DEF Min
<1>3. PICK z \in T : z = Min(T)
  BY <1>2
<1>4. z <= x /\ x <= z
  BY <1>2, <1>3
<1> QED
  BY <1>3, <1>4

LEMMA LargestNumber ==
    ASSUME NEW n \in Nat, NEW T \in SUBSET (1..n), T # {}
    PROVE  Max(T) \in T
<1> DEFINE U == {n - x : x \in T}
<1>1. \A x \in T : n - x \in Nat
  OBVIOUS
<1>2. U \in SUBSET Nat /\ U # {}
  BY <1>1
<1>3. PICK u \in U : \A v \in U : u <= v
  BY <1>2, SmallestNumber
<1>4. PICK x \in T : u = n - x
  OBVIOUS
<1>5. \A y \in T : x >= y
  <2> SUFFICES ASSUME NEW y \in T PROVE x >= y
    OBVIOUS
  <2>1. n - x <= n - y
    BY <1>3, <1>4
  <2> QED
    BY <2>1
<1>6. Max(T) = x
  BY <1>5, MaxIs
<1> QED
  BY <1>6

-----------------------------------------------------------------------------
(* Drive.                                                                  *)
(*                                                                         *)
(* What the user can ask for: the page names a file by its uid, or a file  *)
(* or folder by its name.                                                  *)
Requests ==
    [op : {"upload"}, name : FileNames, uid : Contents]
        \cup {r \in [op : {"cfolder", "delete"}, name : Names, uid : Names] :
                r.uid = r.name /\ (r.op = "cfolder" => r.name \in FolderNames)}
        \cup [op : {"rename"}, name : Names, to : FileNames, uid : Contents \cup {NoUid}]

Line == [name |-> request.name, uid |-> request.uid]

(* Where the handler of a request stands, and what is true there.          *)
Handling ==
    /\ pc = "idle" \/ request \in Requests
    /\ pc \in {"content", "list"} => request.op = "upload"
    /\ pc = "delete" => request.op = "delete"

(* Since the master has chosen the group, it knows of no other.            *)
Routed ==
    pc \notin {"idle", "route"} /\ request.uid \in DOMAIN metadata =>
        group = metadata[request.uid].group

(* The lines kept are those of the list that do not match.                 *)
Keeping ==
    pc \in {"content", "list"} =>
        /\ ToSet(unmatched) \subseteq ToSet(filelist[group])
        /\ \A l \in ToSet(filelist[group]) :
             l \in ToSet(unmatched) \/ Matches(request.name, l)

(* An upload has put its content, then its line.                           *)
Putting ==
    /\ pc = "list" => request.uid \in files[group]
    /\ pc = "record" /\ request.op = "upload" =>
         Line \in ToSet(filelist[group]) /\ request.uid \in files[group]

(* What is still to be deleted was served when the request was made.       *)
Deleting ==
    /\ pc \in {"route", "handle"} => before = Served
    /\ pc = "delete" =>
         \A u \in matched : u \in files[group] =>
             \E m \in before : m.uid = u /\ Matches(request.name, m)

DriveInv ==
    /\ TypeOK /\ WhereRecorded /\ UploadServed
    /\ Handling /\ Routed /\ Keeping /\ Putting /\ Deleting

-----------------------------------------------------------------------------
LEMMA MatchingLines ==
    ASSUME TypeOK, NEW match \in BOOLEAN
    PROVE  /\ Selected(match) \in Seq(Lines)
           /\ ToSet(Selected(match)) =
                {l \in ToSet(filelist[group]) : Matches(request.name, l) = match}
<1> DEFINE list == filelist[group]
           q == [i \in DOMAIN list |->
                    IF Matches(request.name, list[i]) = match THEN <<list[i]>> ELSE <<>>]
<1>1. list \in Seq(Lines)
  BY DEF TypeOK
<1>2. DOMAIN list = 1..Len(list) /\ \A i \in 1..Len(list) : list[i] \in Lines
  BY <1>1
<1>3. q \in Seq(Seq(Lines)) /\ Len(q) = Len(list)
  <2>1. ASSUME NEW i \in 1..Len(list)
        PROVE  (IF Matches(request.name, list[i]) = match THEN <<list[i]>> ELSE <<>>) \in Seq(Lines)
    <3>1. list[i] \in Lines
      BY <1>2
    <3> HIDE DEF list
    <3>2. <<list[i]>> \in Seq(Lines) /\ <<>> \in Seq(Lines)
      BY <3>1
    <3> QED
      BY <3>2
  <2> QED
    BY <1>1, <1>2, <2>1
<1>4. Selected(match) = FlattenSeq(q)
  BY DEF Selected
<1>5. \A i \in 1..Len(list) :
        q[i] = IF Matches(request.name, list[i]) = match THEN <<list[i]>> ELSE <<>>
  BY <1>2
<1>6. ToSet(list) = {list[i] : i \in 1..Len(list)}
  BY <1>2 DEF ToSet
<1> HIDE DEF q
<1>7. /\ Selected(match) \in Seq(Lines)
      /\ ToSet(Selected(match)) = UNION {ToSet(q[i]) : i \in 1..Len(list)}
  BY <1>3, <1>4, FlattenMembers
<1> HIDE DEF list
<1>8. \A i \in 1..Len(list) :
        ToSet(q[i]) = IF Matches(request.name, list[i]) = match THEN {list[i]} ELSE {}
  <2>1. ToSet(<<>>) = {} /\ \A e : ToSet(<<e>>) = {e}
    BY DEF ToSet
  <2> QED
    BY <1>5, <2>1
<1>9. ToSet(Selected(match)) = {l \in ToSet(list) : Matches(request.name, l) = match}
  <2>1. ASSUME NEW l \in ToSet(Selected(match))
        PROVE  l \in ToSet(list) /\ Matches(request.name, l) = match
    <3>1. PICK i \in 1..Len(list) : l \in ToSet(q[i])
      BY <1>7
    <3>2. Matches(request.name, list[i]) = match /\ l = list[i]
      BY <1>8, <3>1
    <3> QED
      BY <1>6, <3>2
  <2>2. ASSUME NEW l \in ToSet(list), Matches(request.name, l) = match
        PROVE  l \in ToSet(Selected(match))
    <3>1. PICK i \in 1..Len(list) : l = list[i]
      BY <1>6
    <3>2. l \in ToSet(q[i])
      BY <1>8, <2>2, <3>1
    <3> QED
      BY <1>7, <3>2
  <2> QED
    BY <2>1, <2>2
<1> QED
  BY <1>7, <1>9 DEF list

LEMMA MatchedIs ==
    ASSUME TypeOK
    PROVE  /\ Matched \in Seq(Lines)
           /\ ToSet(Matched) = {l \in ToSet(filelist[group]) : Matches(request.name, l)}
<1>1. \A l : Matches(request.name, l) \in BOOLEAN
  BY DEF Matches, IsPrefix
<1>2. /\ Matched \in Seq(Lines)
      /\ ToSet(Matched) = {l \in ToSet(filelist[group]) : Matches(request.name, l) = TRUE}
  BY MatchingLines DEF Matched
<1> QED
  BY <1>1, <1>2

LEMMA UnmatchedIs ==
    ASSUME TypeOK
    PROVE  /\ Unmatched \in Seq(Lines)
           /\ ToSet(Unmatched) = {l \in ToSet(filelist[group]) : ~ Matches(request.name, l)}
<1>1. \A l : Matches(request.name, l) \in BOOLEAN
  BY DEF Matches, IsPrefix
<1>2. /\ Unmatched \in Seq(Lines)
      /\ ToSet(Unmatched) = {l \in ToSet(filelist[group]) : Matches(request.name, l) = FALSE}
  BY MatchingLines DEF Unmatched
<1> QED
  BY <1>1, <1>2

-----------------------------------------------------------------------------
LEMMA NoEqualMarks ==
    /\ NoUid \notin Contents /\ Folder \notin Contents /\ NoUid # Folder
    /\ \A c \in Contents : c \notin Names
    /\ FolderNames \subseteq Names /\ FileNames \subseteq Names
BY DriveAssumption DEF Names

LEMMA LineTyped ==
    ASSUME NEW n \in Names, NEW u \in Contents \cup {NoUid, Folder}
    PROVE  /\ [name |-> n, uid |-> u] \in Lines
           /\ [name |-> n, uid |-> u].name = n /\ [name |-> n, uid |-> u].uid = u
BY DEF Lines

LEMMA LineParts ==
    ASSUME NEW l \in Lines
    PROVE  /\ l = [name |-> l.name, uid |-> l.uid]
           /\ l.name \in Names /\ l.uid \in Contents \cup {NoUid, Folder}
BY DEF Lines

LEMMA ListTyped ==
    ASSUME TypeOK, NEW g \in Groups
    PROVE  filelist[g] \in Seq(Lines) /\ ToSet(filelist[g]) \subseteq Lines
<1>1. filelist[g] \in Seq(Lines)
  BY DEF TypeOK
<1> QED
  BY <1>1, MembersTyped

LEMMA ListedTyped ==
    ASSUME TypeOK
    PROVE  Listed \subseteq Lines
<1>1. \A u \in DOMAIN metadata : metadata[u].group \in Groups
  BY DEF TypeOK
<1>2. Asked \subseteq Groups
  BY <1>1 DEF Asked
<1> QED
  BY <1>2, ListTyped DEF Listed

LEMMA RequestIs ==
    ASSUME request \in Requests
    PROVE  /\ request.op \in {"upload", "cfolder", "delete", "rename"}
           /\ request.name \in Names
           /\ request.op = "upload" =>
                request.name \in FileNames /\ request.uid \in Contents
           /\ request.op = "cfolder" => request.name \in FolderNames
           /\ request.op \in {"cfolder", "delete"} => request.uid = request.name
           /\ request.op = "rename" => request.to \in FileNames
           /\ request.uid \in Contents \cup Names \cup {NoUid}
BY DEF Requests, Names

LEMMA ServedIs ==
    \A l : l \in Served <=>
             \E g \in Groups : l \in ToSet(filelist[g]) /\ l.uid \in files[g]
BY DEF Served, Stored

-----------------------------------------------------------------------------
LEMMA DriveInitInv == Init => DriveInv
<1> SUFFICES ASSUME Init PROVE DriveInv
  OBVIOUS
<1>1. \A g \in Groups : filelist[g] = <<>>
  BY DEF Init
<1>2. ToSet(<<>>) = {}
  BY DEF ToSet
<1>3. DOMAIN metadata = {}
  BY DEF Init
<1>4. TypeOK
  <2>1. filelist \in [Groups -> Seq(Lines)]
    BY DEF Init
  <2>2. files \in [Groups -> SUBSET Contents]
    BY DEF Init
  <2>3. unmatched \in Seq(Lines)
    BY DEF Init
  <2> QED
    BY <1>1, <1>2, <1>3, <2>1, <2>2, <2>3 DEF Init, TypeOK
<1>5. WhereRecorded
  BY <1>1, <1>2 DEF WhereRecorded
<1>6. UploadServed
  BY DEF Init, UploadServed
<1>7. Handling /\ Routed /\ Keeping /\ Putting /\ Deleting
  BY DEF Init, Handling, Routed, Keeping, Putting, Deleting
<1> QED
  BY <1>4, <1>5, <1>6, <1>7 DEF DriveInv

(* A request made; nothing but the request changes.                        *)
LEMMA AskInv ==
    ASSUME DriveInv, NEW r \in Requests, Ask(r)
    PROVE  DriveInv'
<1>1. /\ pc = "idle" /\ pc' = "route" /\ request' = r /\ before' = Served
      /\ UNCHANGED <<filelist, files, metadata, group, unmatched, matched, page, lost>>
  BY DEF Ask, handler
<1>2. Served \subseteq Lines
  BY ListTyped, ServedIs DEF DriveInv
<1>3. TypeOK'
  BY <1>1, <1>2 DEF DriveInv, TypeOK
<1>4. WhereRecorded'
  BY <1>1 DEF DriveInv, WhereRecorded
<1>5. UploadServed' /\ Handling' /\ Routed' /\ Keeping' /\ Putting'
  BY <1>1 DEF UploadServed, Handling, Routed, Keeping, Putting
<1>6. Deleting'
  BY <1>1 DEF Deleting, Served, Stored
<1> QED
  BY <1>3, <1>4, <1>5, <1>6 DEF DriveInv

LEMMA PageInv ==
    ASSUME DriveInv,
           \/ \E n \in FileNames, c \in Contents : HandleUpload(n, c)
           \/ \E n \in FolderNames : HandleCFolder(n)
           \/ \E n \in Names : HandleDELETE(n)
           \/ \E l \in Listed, n \in FileNames : HandleRename(l, n)
    PROVE  DriveInv'
<1>1. ASSUME NEW n \in FileNames, NEW c \in Contents, HandleUpload(n, c) PROVE DriveInv'
  <2>1. [op |-> "upload", name |-> n, uid |-> c] \in Requests
    BY DEF Requests
  <2> QED
    BY <1>1, <2>1, AskInv DEF HandleUpload
<1>2. ASSUME NEW n \in FolderNames, HandleCFolder(n) PROVE DriveInv'
  <2>1. [op |-> "cfolder", name |-> n, uid |-> n] \in Requests
    BY DEF Requests, Names
  <2> QED
    BY <1>2, <2>1, AskInv DEF HandleCFolder
<1>3. ASSUME NEW n \in Names, HandleDELETE(n) PROVE DriveInv'
  <2>1. [op |-> "delete", name |-> n, uid |-> n] \in Requests
    BY DEF Requests
  <2> QED
    BY <1>3, <2>1, AskInv DEF HandleDELETE
<1>4. ASSUME NEW l \in Listed, NEW n \in FileNames, HandleRename(l, n) PROVE DriveInv'
  <2>1. l.name \in Names /\ l.uid \in Contents \cup {NoUid}
    BY <1>4, ListedTyped, LineParts DEF HandleRename, DriveInv
  <2>2. [op |-> "rename", name |-> l.name, to |-> n, uid |-> l.uid] \in Requests
    BY <2>1 DEF Requests
  <2> QED
    BY <1>4, <2>2, AskInv DEF HandleRename
<1> QED
  BY <1>1, <1>2, <1>3, <1>4

(* The master sends what it knows where it knows it to be.                 *)
LEMMA RequestWriteInv ==
    ASSUME DriveInv, RequestWrite
    PROVE  DriveInv'
<1>1. /\ pc = "route" /\ pc' = "handle" /\ group' \in chooseServerGroup(request.uid)
      /\ UNCHANGED <<filelist, files, metadata, request, unmatched, matched, page, before, lost>>
  BY DEF RequestWrite, handler, history
<1>2. group' \in Groups
  BY <1>1 DEF chooseServerGroup, DriveInv, TypeOK
<1>3. TypeOK'
  BY <1>1, <1>2 DEF DriveInv, TypeOK
<1>4. WhereRecorded'
  BY <1>1 DEF DriveInv, WhereRecorded
<1>5. Routed'
  BY <1>1 DEF Routed, chooseServerGroup
<1>6. UploadServed' /\ Handling' /\ Keeping' /\ Putting'
  BY <1>1 DEF UploadServed, Handling, Keeping, Putting, DriveInv
<1>7. Deleting'
  BY <1>1 DEF Deleting, Served, Stored, DriveInv
<1> QED
  BY <1>3, <1>4, <1>5, <1>6, <1>7 DEF DriveInv

LEMMA UnreachableInv ==
    ASSUME DriveInv, Unreachable
    PROVE  DriveInv'
<1>1. /\ pc = "handle" /\ pc' = "idle" /\ page' = Refused /\ before' = {}
      /\ UNCHANGED <<filelist, files, metadata, request, group, unmatched, matched, lost>>
  BY DEF Unreachable, Answer, handler
<1>2. page' \in {"drive", "success", "failed"} /\ (request.op = "upload" => page' = "failed")
  BY <1>1 DEF Refused
<1>3. TypeOK'
  BY <1>1, <1>2 DEF DriveInv, TypeOK
<1>4. WhereRecorded'
  BY <1>1 DEF DriveInv, WhereRecorded
<1>5. UploadServed' /\ Handling' /\ Routed' /\ Keeping' /\ Putting' /\ Deleting'
  BY <1>1, <1>2 DEF UploadServed, Handling, Routed, Keeping, Putting, Deleting
<1> QED
  BY <1>3, <1>4, <1>5 DEF DriveInv

(* A content whose upload the master does not hear of is among the lost.   *)
LEMMA AnswerLostInv ==
    ASSUME DriveInv, AnswerLost
    PROVE  DriveInv'
<1>1. /\ pc = "record" /\ pc' = "idle" /\ page' = Refused /\ before' = {}
      /\ lost' = IF request.op = "upload" THEN lost \cup {request.uid} ELSE lost
      /\ UNCHANGED <<filelist, files, metadata, request, group, unmatched, matched>>
  BY DEF AnswerLost, Answer, handler
<1>2. page' \in {"drive", "success", "failed"} /\ (request.op = "upload" => page' = "failed")
  BY <1>1 DEF Refused
<1>3. request.op = "upload" => request.uid \in Contents
  BY <1>1, RequestIs DEF DriveInv, Handling
<1>4. TypeOK'
  BY <1>1, <1>2, <1>3 DEF DriveInv, TypeOK
<1>5. WhereRecorded'
  BY <1>1 DEF DriveInv, WhereRecorded
<1>6. UploadServed' /\ Handling' /\ Routed' /\ Keeping' /\ Putting' /\ Deleting'
  BY <1>1, <1>2 DEF UploadServed, Handling, Routed, Keeping, Putting, Deleting
<1> QED
  BY <1>4, <1>5, <1>6 DEF DriveInv

(* The master hears of the outcome.                                        *)
LEMMA RecordPutIs ==
    ASSUME NEW t
    PROVE  /\ DOMAIN RecordPut(t) = DOMAIN metadata \cup {request.uid}
           /\ RecordPut(t)[request.uid] = [group |-> group, ftype |-> t]
           /\ \A u \in DOMAIN metadata : u # request.uid => RecordPut(t)[u] = metadata[u]
BY DEF RecordPut

LEMMA RecordTyped ==
    ASSUME DriveInv, Record
    PROVE  /\ DOMAIN metadata' \subseteq Contents \cup Names
           /\ \A u \in DOMAIN metadata' :
                metadata'[u] \in [group : Groups, ftype : {"FILE", "FOLDER"}]
<1>1. pc = "record" /\ request \in Requests
  BY DEF Record, DriveInv, Handling
<1>2. /\ request.op \in {"upload", "cfolder", "delete", "rename"}
      /\ request.op \in {"upload", "cfolder"} => request.uid \in Contents \cup Names
  BY <1>1, RequestIs
<1>3. /\ DOMAIN metadata \subseteq Contents \cup Names /\ group \in Groups
      /\ \A u \in DOMAIN metadata : metadata[u] \in [group : Groups, ftype : {"FILE", "FOLDER"}]
  BY DEF DriveInv, TypeOK
<1>4. ASSUME NEW t \in {"FILE", "FOLDER"}, metadata' = RecordPut(t),
             request.op \in {"upload", "cfolder"}
      PROVE  /\ DOMAIN metadata' \subseteq Contents \cup Names
             /\ \A u \in DOMAIN metadata' :
                  metadata'[u] \in [group : Groups, ftype : {"FILE", "FOLDER"}]
  <2>1. [group |-> group, ftype |-> t] \in [group : Groups, ftype : {"FILE", "FOLDER"}]
    BY <1>3
  <2>2. /\ DOMAIN metadata' = DOMAIN metadata \cup {request.uid}
        /\ metadata'[request.uid] = [group |-> group, ftype |-> t]
        /\ \A u \in DOMAIN metadata : u # request.uid => metadata'[u] = metadata[u]
    BY <1>4, RecordPutIs
  <2>3. DOMAIN metadata' \subseteq Contents \cup Names
    BY <1>2, <1>3, <1>4, <2>2
  <2>4. ASSUME NEW u \in DOMAIN metadata'
        PROVE  metadata'[u] \in [group : Groups, ftype : {"FILE", "FOLDER"}]
    <3>1. CASE u = request.uid
      BY <2>1, <2>2, <3>1
    <3>2. CASE u # request.uid
      BY <1>3, <2>2, <3>2
    <3> QED
      BY <3>1, <3>2
  <2> QED
    BY <2>3, <2>4
<1>5. CASE request.op = "upload"
  <2>1. metadata' = RecordPut("FILE")
    BY <1>5 DEF Record
  <2> QED
    BY <1>4, <1>5, <2>1
<1>6. CASE request.op = "cfolder"
  <2>1. metadata' = RecordPut("FOLDER")
    BY <1>6 DEF Record
  <2> QED
    BY <1>4, <1>6, <2>1
<1>7. CASE request.op = "delete"
  <2>1. metadata' = [u \in DOMAIN metadata \ {request.uid} |-> metadata[u]]
    BY <1>7 DEF Record
  <2> QED
    BY <1>3, <2>1
<1>8. CASE request.op = "rename"
  BY <1>3, <1>8 DEF Record
<1> QED
  BY <1>2, <1>5, <1>6, <1>7, <1>8

(* Of the contents, only the one uploaded is recorded anew.                *)
LEMMA RecordKeeps ==
    ASSUME DriveInv, Record, NEW u \in Contents,
           ~ (request.op = "upload" /\ request.uid = u), u \in DOMAIN metadata
    PROVE  u \in DOMAIN metadata' /\ metadata'[u] = metadata[u]
<1>1. pc = "record" /\ request \in Requests
  BY DEF Record, DriveInv, Handling
<1>2. /\ request.op \in {"upload", "cfolder", "delete", "rename"}
      /\ request.op \in {"cfolder", "delete"} => request.uid \in Names
  BY <1>1, RequestIs
<1>3. request.op # "rename" => u # request.uid
  BY <1>2, NoEqualMarks
<1>4. ASSUME NEW t, metadata' = RecordPut(t), request.op # "rename"
      PROVE  u \in DOMAIN metadata' /\ metadata'[u] = metadata[u]
  BY <1>3, <1>4, RecordPutIs
<1>5. CASE request.op = "upload"
  <2>1. metadata' = RecordPut("FILE")
    BY <1>5 DEF Record
  <2> QED
    BY <1>4, <1>5, <2>1
<1>6. CASE request.op = "cfolder"
  <2>1. metadata' = RecordPut("FOLDER")
    BY <1>6 DEF Record
  <2> QED
    BY <1>4, <1>6, <2>1
<1>7. CASE request.op = "delete"
  <2>1. metadata' = [v \in DOMAIN metadata \ {request.uid} |-> metadata[v]]
    BY <1>7 DEF Record
  <2> QED
    BY <1>3, <1>7, <2>1
<1>8. CASE request.op = "rename"
  BY <1>8 DEF Record
<1> QED
  BY <1>2, <1>5, <1>6, <1>7, <1>8

LEMMA RecordInv ==
    ASSUME DriveInv, Record
    PROVE  DriveInv'
<1>1. /\ pc = "record" /\ pc' = "idle" /\ before' = {}
      /\ page' = IF request.op = "delete" THEN "drive" ELSE "success"
      /\ UNCHANGED <<filelist, files, request, group, unmatched, matched, lost>>
  BY DEF Record, Answer, handler
<1>2. TypeOK'
  BY <1>1, RecordTyped DEF DriveInv, TypeOK
<1>3. request.op = "upload" =>
        /\ request.uid \in DOMAIN metadata' /\ request.uid \in Contents
        /\ metadata'[request.uid] = [group |-> group, ftype |-> "FILE"]
  <2>1. request.op = "upload" => metadata' = RecordPut("FILE")
    BY DEF Record
  <2>2. request.op = "upload" => request.uid \in Contents
    BY <1>1, RequestIs DEF DriveInv, Handling
  <2> QED
    BY <2>1, <2>2, RecordPutIs
<1>4. WhereRecorded'
  <2> SUFFICES ASSUME NEW g \in Groups, NEW l \in ToSet(filelist[g]), l.uid \in Contents
               PROVE  \/ l.uid \in DOMAIN metadata'
                         /\ metadata'[l.uid] = [group |-> g, ftype |-> "FILE"]
                      \/ l.uid \in lost
    BY <1>1 DEF WhereRecorded
  <2>1. \/ l.uid \in DOMAIN metadata /\ metadata[l.uid] = [group |-> g, ftype |-> "FILE"]
        \/ request.op = "upload" /\ request.uid = l.uid /\ group = g
        \/ l.uid \in lost
    BY DEF DriveInv, WhereRecorded
  <2>2. CASE request.op = "upload" /\ request.uid = l.uid
    <3>1. l.uid \in DOMAIN metadata /\ metadata[l.uid] = [group |-> g, ftype |-> "FILE"] =>
            group = g
      BY <1>1, <2>2 DEF DriveInv, Routed
    <3> QED
      BY <1>3, <2>1, <2>2, <3>1
  <2>3. CASE ~ (request.op = "upload" /\ request.uid = l.uid)
    BY <2>1, <2>3, RecordKeeps
  <2> QED
    BY <2>2, <2>3
<1>5. UploadServed'
  <2> SUFFICES ASSUME request.op = "upload"
               PROVE  Line \in Listed' /\ Line \in Stored(metadata[request.uid].group)'
    BY <1>1 DEF UploadServed, Line
  <2>1. /\ Line \in ToSet(filelist[group]) /\ request.uid \in files[group]
        /\ Line.uid = request.uid
    BY <1>1 DEF DriveInv, Putting, Line
  <2>2. /\ metadata'[request.uid].group = group /\ metadata'[request.uid].ftype = "FILE"
        /\ request.uid \in DOMAIN metadata'
    BY <1>3
  <2>3. Line \in Stored(metadata[request.uid].group)'
    BY <1>1, <2>1, <2>2 DEF Stored
  <2>4. group \in Asked'
    BY <2>2 DEF Asked
  <2> QED
    BY <1>1, <2>1, <2>3, <2>4 DEF Listed
<1>6. Handling' /\ Routed' /\ Keeping' /\ Putting' /\ Deleting'
  BY <1>1 DEF Handling, Routed, Keeping, Putting, Deleting
<1> QED
  BY <1>2, <1>4, <1>5, <1>6 DEF DriveInv

-----------------------------------------------------------------------------
(* The handlers of the back end.                                           *)
LEMMA PutFileInv ==
    ASSUME DriveInv, PutFile
    PROVE  DriveInv'
<1>1. /\ pc = "handle" /\ pc' = "content" /\ unmatched' = Unmatched /\ request.op = "upload"
      /\ UNCHANGED <<filelist, metadata, request, group, matched, page, before, lost>>
  BY DEF PutFile, history
<1>2. files' \in [Groups -> SUBSET Contents]
  <2>1. files \in [Groups -> SUBSET Contents]
    BY DEF DriveInv, TypeOK
  <2> QED
    BY <2>1 DEF PutFile
<1>3. /\ Unmatched \in Seq(Lines)
      /\ ToSet(Unmatched) = {l \in ToSet(filelist[group]) : ~ Matches(request.name, l)}
  BY UnmatchedIs DEF DriveInv
<1>4. TypeOK'
  BY <1>1, <1>2, <1>3 DEF DriveInv, TypeOK
<1>5. Keeping'
  BY <1>1, <1>3 DEF Keeping, Matches
<1>6. WhereRecorded' /\ Routed'
  BY <1>1 DEF DriveInv, WhereRecorded, Routed
<1>7. UploadServed' /\ Handling' /\ Putting' /\ Deleting'
  BY <1>1 DEF DriveInv, UploadServed, Handling, Putting, Deleting
<1> QED
  BY <1>4, <1>5, <1>6, <1>7 DEF DriveInv

LEMMA PutContentInv ==
    ASSUME DriveInv, PutContent
    PROVE  DriveInv'
<1>1. /\ pc = "content" /\ pc' = "list" /\ request.op = "upload"
      /\ files' = [files EXCEPT ![group] = @ \cup {request.uid}]
      /\ UNCHANGED <<filelist, metadata, request, group, unmatched, matched, page, before, lost>>
  BY DEF PutContent, handler, history, DriveInv, Handling
<1>2. files \in [Groups -> SUBSET Contents] /\ group \in Groups
  BY DEF DriveInv, TypeOK
<1>3. request.uid \in Contents
  BY <1>1, RequestIs DEF DriveInv, Handling
<1>4. files' \in [Groups -> SUBSET Contents] /\ request.uid \in files'[group]
  BY <1>1, <1>2, <1>3
<1>5. TypeOK'
  BY <1>1, <1>4 DEF DriveInv, TypeOK
<1>6. Keeping'
  BY <1>1 DEF DriveInv, Keeping, Matches
<1>7. WhereRecorded' /\ Routed'
  BY <1>1 DEF DriveInv, WhereRecorded, Routed
<1>8. UploadServed' /\ Handling' /\ Putting' /\ Deleting'
  BY <1>1, <1>4 DEF DriveInv, UploadServed, Handling, Putting, Deleting
<1> QED
  BY <1>5, <1>6, <1>7, <1>8 DEF DriveInv

(* A list put in the place of a group's list.                              *)
LEMMA ListPut ==
    ASSUME TypeOK, NEW q \in Seq(Lines), filelist' = [filelist EXCEPT ![group] = q],
           \A l \in ToSet(q) : l.uid = Folder => l.name \in FolderNames
    PROVE  /\ filelist' \in [Groups -> Seq(Lines)]
           /\ filelist'[group] = q /\ \A g \in Groups \ {group} : filelist'[g] = filelist[g]
           /\ \A g \in Groups : \A l \in ToSet(filelist'[g]) :
                l.uid = Folder => l.name \in FolderNames
<1>1. /\ filelist \in [Groups -> Seq(Lines)] /\ group \in Groups
      /\ \A g \in Groups : \A l \in ToSet(filelist[g]) :
            l.uid = Folder => l.name \in FolderNames
  BY DEF TypeOK
<1>2. \A g \in Groups : filelist'[g] = IF g = group THEN q ELSE filelist[g]
  BY <1>1
<1> QED
  BY <1>1, <1>2

(* Lines that were listed in the group, or hold no content, are recorded.  *)
LEMMA ListRecorded ==
    ASSUME DriveInv, NEW q, \A g \in Groups \ {group} : filelist'[g] = filelist[g],
           filelist'[group] = q, pc # "record",
           UNCHANGED <<metadata, request, group, lost>>,
           \A l \in ToSet(q) : l.uid \in Contents =>
              \/ \E m \in ToSet(filelist[group]) : m.uid = l.uid
              \/ pc' = "record" /\ request.op = "upload" /\ request.uid = l.uid
    PROVE  WhereRecorded'
<1> SUFFICES ASSUME NEW g \in Groups, NEW l \in ToSet(filelist'[g]), l.uid \in Contents
             PROVE  \/ l.uid \in DOMAIN metadata
                       /\ metadata[l.uid] = [group |-> g, ftype |-> "FILE"]
                    \/ pc' = "record" /\ request.op = "upload" /\ request.uid = l.uid /\ group = g
                    \/ l.uid \in lost
  BY DEF WhereRecorded
<1>1. \A h \in Groups : \A m \in ToSet(filelist[h]) : m.uid \in Contents =>
        \/ m.uid \in DOMAIN metadata /\ metadata[m.uid] = [group |-> h, ftype |-> "FILE"]
        \/ m.uid \in lost
  BY DEF DriveInv, WhereRecorded
<1>2. CASE g # group
  BY <1>1, <1>2
<1>3. CASE g = group
  <2>1. CASE \E m \in ToSet(filelist[group]) : m.uid = l.uid
    BY <1>1, <1>3, <2>1
  <2>2. CASE pc' = "record" /\ request.op = "upload" /\ request.uid = l.uid
    BY <1>3, <2>2
  <2> QED
    BY <1>3, <2>1, <2>2
<1> QED
  BY <1>2, <1>3

LEMMA PutListInv ==
    ASSUME DriveInv, PutList
    PROVE  DriveInv'
<1>1. /\ pc = "list" /\ pc' = "record" /\ request.op = "upload" /\ unmatched' = <<>>
      /\ filelist' = [filelist EXCEPT ![group] = Append(unmatched, Line)]
      /\ UNCHANGED <<files, metadata, request, group, matched, page, before, lost>>
  BY DEF PutList, history, DriveInv, Handling, Line
<1>2. /\ Line \in Lines /\ Line.uid = request.uid /\ request.uid \in Contents
      /\ request.uid \in files[group]
  <2>1. request.name \in Names /\ request.uid \in Contents
    BY <1>1, RequestIs DEF DriveInv, Handling
  <2> QED
    BY <1>1, <2>1, LineTyped DEF Line, DriveInv, Putting
<1>3. PICK q \in Seq(Lines) :
        q = Append(unmatched, Line) /\ ToSet(q) = ToSet(unmatched) \cup {Line}
  <2>1. unmatched \in Seq(Lines)
    BY DEF DriveInv, TypeOK
  <2>2. /\ Append(unmatched, Line) \in Seq(Lines)
        /\ ToSet(Append(unmatched, Line)) = ToSet(unmatched) \cup {Line}
    BY <1>2, <2>1, AppendedMembers
  <2> QED
    BY <2>2
<1>4. TypeOK /\ ToSet(unmatched) \subseteq ToSet(filelist[group]) /\ group \in Groups
  BY <1>1 DEF DriveInv, Keeping, TypeOK
<1>5. \A l \in ToSet(q) : l.uid = Folder => l.name \in FolderNames
  BY <1>2, <1>3, <1>4, NoEqualMarks DEF TypeOK
<1>6. /\ filelist' \in [Groups -> Seq(Lines)]
      /\ filelist'[group] = q /\ \A g \in Groups \ {group} : filelist'[g] = filelist[g]
      /\ \A g \in Groups : \A l \in ToSet(filelist'[g]) :
            l.uid = Folder => l.name \in FolderNames
  BY <1>1, <1>3, <1>4, <1>5, ListPut
<1>7. TypeOK'
  BY <1>1, <1>6 DEF DriveInv, TypeOK
<1>8. WhereRecorded'
  BY <1>1, <1>2, <1>3, <1>4, <1>6, ListRecorded
<1>9. Putting'
  BY <1>1, <1>2, <1>3, <1>6 DEF Putting, Line
<1>10. UploadServed' /\ Handling' /\ Routed' /\ Keeping' /\ Deleting'
  BY <1>1 DEF DriveInv, UploadServed, Handling, Routed, Keeping, Deleting
<1> QED
  BY <1>7, <1>8, <1>9, <1>10 DEF DriveInv

LEMMA PutFolderInv ==
    ASSUME DriveInv, PutFolder
    PROVE  DriveInv'
<1>1. /\ pc = "handle" /\ request.op = "cfolder"
      /\ UNCHANGED <<files, metadata, request, group, unmatched, matched, lost>>
  BY DEF PutFolder, handler
<1>2. request.name \in FolderNames
  BY <1>1, RequestIs DEF DriveInv, Handling
<1>3. CASE Matched = <<>>
  <2> DEFINE l == [name |-> request.name, uid |-> Folder]
  <2>1. /\ filelist' = [filelist EXCEPT ![group] = Append(@, l)]
        /\ pc' = "record" /\ UNCHANGED <<page, before>>
    BY <1>3 DEF PutFolder
  <2>2. l \in Lines /\ l.uid = Folder /\ l.name \in FolderNames
    BY <1>2, LineTyped, NoEqualMarks
  <2>3. TypeOK /\ group \in Groups /\ filelist[group] \in Seq(Lines)
    BY DEF DriveInv, TypeOK
  <2> HIDE DEF l
  <2>4. PICK q \in Seq(Lines) :
          q = Append(filelist[group], l) /\ ToSet(q) = ToSet(filelist[group]) \cup {l}
    <3>1. /\ Append(filelist[group], l) \in Seq(Lines)
          /\ ToSet(Append(filelist[group], l)) = ToSet(filelist[group]) \cup {l}
      BY <2>2, <2>3, AppendedMembers
    <3> QED
      BY <3>1
  <2>5. filelist' = [filelist EXCEPT ![group] = q]
    BY <2>1, <2>4
  <2>6. \A m \in ToSet(q) : m.uid = Folder => m.name \in FolderNames
    BY <2>2, <2>3, <2>4 DEF TypeOK
  <2>7. /\ filelist' \in [Groups -> Seq(Lines)]
        /\ filelist'[group] = q /\ \A g \in Groups \ {group} : filelist'[g] = filelist[g]
        /\ \A g \in Groups : \A m \in ToSet(filelist'[g]) :
              m.uid = Folder => m.name \in FolderNames
    BY <2>3, <2>5, <2>6, ListPut
  <2>8. TypeOK'
    BY <1>1, <2>1, <2>7 DEF DriveInv, TypeOK
  <2>9. WhereRecorded'
    BY <1>1, <2>2, <2>4, <2>7, ListRecorded, NoEqualMarks
  <2>10. UploadServed' /\ Handling' /\ Routed' /\ Keeping' /\ Putting' /\ Deleting'
    BY <1>1, <2>1 DEF DriveInv, UploadServed, Handling, Routed, Keeping, Putting, Deleting
  <2> QED
    BY <2>8, <2>9, <2>10 DEF DriveInv
<1>4. CASE Matched # <<>>
  <2>1. pc' = "idle" /\ page' = "success" /\ before' = {} /\ UNCHANGED filelist
    BY <1>1, <1>4 DEF PutFolder, Answer, Refused
  <2>2. TypeOK'
    BY <1>1, <2>1 DEF DriveInv, TypeOK
  <2>3. WhereRecorded'
    BY <1>1, <2>1 DEF DriveInv, WhereRecorded
  <2>4. UploadServed' /\ Handling' /\ Routed' /\ Keeping' /\ Putting' /\ Deleting'
    BY <1>1, <2>1 DEF UploadServed, Handling, Routed, Keeping, Putting, Deleting
  <2> QED
    BY <2>2, <2>3, <2>4 DEF DriveInv
<1> QED
  BY <1>3, <1>4

LEMMA DeleteInv ==
    ASSUME DriveInv, Delete
    PROVE  DriveInv'
<1>1. /\ pc = "handle" /\ pc' = "delete" /\ request.op = "delete"
      /\ filelist' = [filelist EXCEPT ![group] = Unmatched]
      /\ matched' = {l.uid : l \in ToSet(Matched)} \ {Folder, NoUid}
      /\ UNCHANGED <<files, metadata, request, group, unmatched, page, before, lost>>
  BY DEF Delete, history
<1>2. TypeOK /\ group \in Groups
  BY DEF DriveInv, TypeOK
<1>3. PICK q \in Seq(Lines) :
        /\ q = Unmatched
        /\ ToSet(q) = {l \in ToSet(filelist[group]) : ~ Matches(request.name, l)}
  BY <1>2, UnmatchedIs
<1>4. ToSet(Matched) = {l \in ToSet(filelist[group]) : Matches(request.name, l)}
  BY <1>2, MatchedIs
<1>5. ToSet(filelist[group]) \subseteq Lines
  BY <1>2, ListTyped
<1>6. \A l \in ToSet(q) : l.uid = Folder => l.name \in FolderNames
  BY <1>2, <1>3 DEF TypeOK
<1>7. /\ filelist' \in [Groups -> Seq(Lines)]
      /\ filelist'[group] = q /\ \A g \in Groups \ {group} : filelist'[g] = filelist[g]
      /\ \A g \in Groups : \A l \in ToSet(filelist'[g]) :
            l.uid = Folder => l.name \in FolderNames
  BY <1>1, <1>2, <1>3, <1>6, ListPut
<1>8. matched' \subseteq Contents
  BY <1>1, <1>4, <1>5, LineParts
<1>9. TypeOK'
  BY <1>1, <1>7, <1>8 DEF DriveInv, TypeOK
<1>10. WhereRecorded'
  BY <1>1, <1>3, <1>7, ListRecorded
<1>11. Deleting'
  <2>1. ASSUME NEW u \in matched', u \in files[group]
        PROVE  \E m \in before : m.uid = u /\ Matches(request.name, m)
    <3>1. PICK m \in ToSet(filelist[group]) : m.uid = u /\ Matches(request.name, m)
      BY <1>1, <1>4
    <3>2. m \in Served
      BY <1>2, <2>1, <3>1, ServedIs
    <3>3. before = Served
      BY <1>1 DEF DriveInv, Deleting
    <3> QED
      BY <3>1, <3>2, <3>3
  <2> QED
    BY <1>1, <2>1 DEF Deleting, Matches
<1>12. UploadServed' /\ Handling' /\ Routed' /\ Keeping' /\ Putting'
  BY <1>1 DEF DriveInv, UploadServed, Handling, Routed, Keeping, Putting
<1> QED
  BY <1>9, <1>10, <1>11, <1>12 DEF DriveInv

LEMMA DeleteContentInv ==
    ASSUME DriveInv, DeleteContent
    PROVE  DriveInv'
<1>1. /\ pc = "delete" /\ request.op = "delete"
      /\ UNCHANGED <<filelist, metadata, request, group, unmatched, page, before, lost>>
  BY DEF DeleteContent, history, DriveInv, Handling
<1>2. files \in [Groups -> SUBSET Contents] /\ group \in Groups
  BY DEF DriveInv, TypeOK
<1>3. ASSUME NEW u \in matched, files' = [files EXCEPT ![group] = @ \ {u}],
             matched' = matched \ {u}, pc' = pc
      PROVE  DriveInv'
  <2>1. files' \in [Groups -> SUBSET Contents] /\ files'[group] \subseteq files[group]
    BY <1>2, <1>3
  <2>2. TypeOK'
    BY <1>1, <1>3, <2>1 DEF DriveInv, TypeOK
  <2>3. WhereRecorded' /\ Routed'
    BY <1>1, <1>3 DEF DriveInv, WhereRecorded, Routed
  <2>4. Deleting'
    BY <1>1, <1>3, <2>1 DEF DriveInv, Deleting, Matches
  <2>5. UploadServed' /\ Handling' /\ Keeping' /\ Putting'
    BY <1>1, <1>3 DEF DriveInv, UploadServed, Handling, Keeping, Putting
  <2> QED
    BY <2>2, <2>3, <2>4, <2>5 DEF DriveInv
<1>4. CASE pc' = "record" /\ UNCHANGED <<files, matched>>
  <2>1. TypeOK'
    BY <1>1, <1>4 DEF DriveInv, TypeOK
  <2>2. WhereRecorded' /\ Routed'
    BY <1>1, <1>4 DEF DriveInv, WhereRecorded, Routed
  <2>3. UploadServed' /\ Handling' /\ Keeping' /\ Putting' /\ Deleting'
    BY <1>1, <1>4 DEF DriveInv, UploadServed, Handling, Keeping, Putting, Deleting
  <2> QED
    BY <2>1, <2>2, <2>3 DEF DriveInv
<1> QED
  BY <1>3, <1>4 DEF DeleteContent

(* Each match keeps its content under the new name.                        *)
LEMMA RenamedIs ==
    ASSUME TypeOK, request.to \in FileNames, NEW q,
           q = [i \in DOMAIN Matched |-> Renamed(Matched[i])]
    PROVE  /\ q \in Seq(Lines)
           /\ \A l \in ToSet(q) : /\ l.uid # Folder
                                  /\ l.uid \in Contents =>
                                        \E m \in ToSet(filelist[group]) : m.uid = l.uid
<1>1. PICK s \in Seq(Lines) :
        s = Matched /\ ToSet(s) = {l \in ToSet(filelist[group]) : Matches(request.name, l)}
  BY MatchedIs
<1>2. DOMAIN s = 1..Len(s) /\ Len(s) \in Nat /\ \A i \in 1..Len(s) : s[i] \in Lines
  OBVIOUS
<1>3. ASSUME NEW l \in Lines
      PROVE  /\ Renamed(l) \in Lines /\ Renamed(l).uid # Folder
             /\ Renamed(l).uid \in Contents => Renamed(l).uid = l.uid
  <2>1. request.to \in Names /\ l.uid \in Contents \cup {NoUid, Folder}
    BY NoEqualMarks, LineParts
  <2>2. (IF l.uid = Folder THEN NoUid ELSE l.uid) \in Contents \cup {NoUid, Folder}
    BY <2>1
  <2>3. /\ Renamed(l) \in Lines
        /\ Renamed(l).uid = IF l.uid = Folder THEN NoUid ELSE l.uid
    BY <2>1, <2>2, LineTyped DEF Renamed
  <2> QED
    BY <2>3, NoEqualMarks
<1>4. q = [i \in 1..Len(s) |-> Renamed(s[i])]
  BY <1>1, <1>2
<1>5. q \in Seq(Lines)
  BY <1>2, <1>3, <1>4
<1>6. DOMAIN q = 1..Len(s)
  BY <1>4
<1>7. ASSUME NEW l \in ToSet(q)
      PROVE  l.uid # Folder /\ (l.uid \in Contents =>
                                  \E m \in ToSet(filelist[group]) : m.uid = l.uid)
  <2>1. PICK i \in 1..Len(s) : l = Renamed(s[i])
    BY <1>4, <1>6 DEF ToSet
  <2>2. s[i] \in ToSet(s)
    BY <1>2 DEF ToSet
  <2>3. s[i] \in Lines /\ s[i] \in ToSet(filelist[group])
    BY <1>1, <1>2, <2>2
  <2> QED
    BY <1>3, <2>1, <2>3
<1> QED
  BY <1>5, <1>7

LEMMA RenameFileInv ==
    ASSUME DriveInv, RenameFile
    PROVE  DriveInv'
<1>1. /\ pc = "handle" /\ request.op = "rename"
      /\ UNCHANGED <<files, metadata, request, group, unmatched, matched, lost>>
  BY DEF RenameFile, handler
<1>2. TypeOK /\ group \in Groups /\ request.to \in FileNames
  BY <1>1, RequestIs DEF DriveInv, Handling, TypeOK
<1>3. CASE Matched = <<>> \/ \E l \in ToSet(filelist[group]) : IsPrefix(request.to, l.name)
  <2>1. pc' = "idle" /\ page' = "failed" /\ before' = {} /\ UNCHANGED filelist
    BY <1>1, <1>3 DEF RenameFile, Answer, Refused
  <2>2. TypeOK'
    BY <1>1, <2>1 DEF DriveInv, TypeOK
  <2>3. WhereRecorded'
    BY <1>1, <2>1 DEF DriveInv, WhereRecorded
  <2>4. UploadServed' /\ Handling' /\ Routed' /\ Keeping' /\ Putting' /\ Deleting'
    BY <1>1, <2>1 DEF UploadServed, Handling, Routed, Keeping, Putting, Deleting
  <2> QED
    BY <2>2, <2>3, <2>4 DEF DriveInv
<1>4. CASE ~ (Matched = <<>> \/ \E l \in ToSet(filelist[group]) : IsPrefix(request.to, l.name))
  <2>1. PICK r : r = [i \in DOMAIN Matched |-> Renamed(Matched[i])]
    OBVIOUS
  <2>2. /\ r \in Seq(Lines)
        /\ \A l \in ToSet(r) : /\ l.uid # Folder
                               /\ l.uid \in Contents =>
                                     \E m \in ToSet(filelist[group]) : m.uid = l.uid
    BY <1>2, <2>1, RenamedIs
  <2>3. PICK s \in Seq(Lines) :
          /\ s = Unmatched
          /\ ToSet(s) = {l \in ToSet(filelist[group]) : ~ Matches(request.name, l)}
    BY <1>2, UnmatchedIs
  <2>4. PICK q \in Seq(Lines) : q = s \o r /\ ToSet(q) = ToSet(s) \cup ToSet(r)
    <3>1. s \o r \in Seq(Lines) /\ ToSet(s \o r) = ToSet(s) \cup ToSet(r)
      BY <2>2, JoinedMembers
    <3> QED
      BY <3>1
  <2>5. /\ filelist' = [filelist EXCEPT ![group] = q]
        /\ pc' = "record" /\ UNCHANGED <<page, before>>
    BY <1>4, <2>1, <2>3, <2>4 DEF RenameFile
  <2>6. \A l \in ToSet(q) : l.uid = Folder => l.name \in FolderNames
    BY <1>2, <2>2, <2>3, <2>4 DEF TypeOK
  <2>7. /\ filelist' \in [Groups -> Seq(Lines)]
        /\ filelist'[group] = q /\ \A g \in Groups \ {group} : filelist'[g] = filelist[g]
        /\ \A g \in Groups : \A l \in ToSet(filelist'[g]) :
              l.uid = Folder => l.name \in FolderNames
    BY <1>2, <2>5, <2>6, ListPut
  <2>8. TypeOK'
    BY <1>1, <2>5, <2>7 DEF DriveInv, TypeOK
  <2>9. WhereRecorded'
    BY <1>1, <2>2, <2>3, <2>4, <2>7, ListRecorded
  <2>10. UploadServed' /\ Handling' /\ Routed' /\ Keeping' /\ Putting' /\ Deleting'
    BY <1>1, <2>5 DEF DriveInv, UploadServed, Handling, Routed, Keeping, Putting, Deleting
  <2> QED
    BY <2>8, <2>9, <2>10 DEF DriveInv
<1> QED
  BY <1>3, <1>4

-----------------------------------------------------------------------------
LEMMA DriveStepInv == DriveInv /\ [Next]_vars => DriveInv'
<1> SUFFICES ASSUME DriveInv, [Next]_vars PROVE DriveInv'
  OBVIOUS
<1>1. CASE \/ \E n \in FileNames, c \in Contents : HandleUpload(n, c)
           \/ \E n \in FolderNames : HandleCFolder(n)
           \/ \E n \in Names : HandleDELETE(n)
           \/ \E l \in Listed, n \in FileNames : HandleRename(l, n)
  BY <1>1, PageInv
<1>2. CASE RequestWrite \/ Unreachable \/ AnswerLost \/ Record
  BY <1>2, RequestWriteInv, UnreachableInv, AnswerLostInv, RecordInv
<1>3. CASE PutFile \/ PutContent \/ PutList \/ PutFolder
  BY <1>3, PutFileInv, PutContentInv, PutListInv, PutFolderInv
<1>4. CASE Delete \/ DeleteContent \/ RenameFile
  BY <1>4, DeleteInv, DeleteContentInv, RenameFileInv
<1>5. CASE UNCHANGED vars
  <2>1. UNCHANGED <<filelist, files, metadata, request, pc, group, unmatched, matched, page,
                    before, lost>>
    BY <1>5 DEF vars, handler, history
  <2>2. TypeOK'
    BY <2>1 DEF DriveInv, TypeOK
  <2>3. WhereRecorded' /\ UploadServed'
    BY <2>1 DEF DriveInv, WhereRecorded, UploadServed, Listed, Asked, Stored
  <2>4. Handling' /\ Routed' /\ Keeping' /\ Putting' /\ Deleting'
    BY <2>1 DEF DriveInv, Handling, Routed, Keeping, Putting, Line, Deleting, Served, Stored,
        Matches
  <2> QED
    BY <2>2, <2>3, <2>4 DEF DriveInv
<1> QED
  BY <1>1, <1>2, <1>3, <1>4, <1>5 DEF Next

LEMMA DriveInvHolds == Spec => []DriveInv
  BY DriveInitInv, DriveStepInv, PTL DEF Spec

(* What the drive's groups, the master and the front end keep has its      *)
(* type, and a line without a tab is that of a folder (StorageServiceImpl, *)
(* MasterServiceImpl, httpservice.cc).                                     *)
THEOREM DriveTyped == Spec => []TypeOK
<1>1. DriveInv => TypeOK
  BY DEF DriveInv
<1> QED
  BY <1>1, DriveInvHolds, PTL

(* Every content that a list names is listed in one group, the one the     *)
(* master's metadata sends its download to, unless the master was not told *)
(* that it had been uploaded (MasterServiceImpl.cc chooseServerGroup).     *)
THEOREM WhereRecordedHolds == Spec => []WhereRecorded
<1>1. DriveInv => WhereRecorded
  BY DEF DriveInv
<1> QED
  BY <1>1, DriveInvHolds, PTL

(* An upload the page reported as a success is listed, and the content is  *)
(* where the master sends the download (WriteServiceImpl.cc put, after     *)
(* the first match and its content have been replaced).                    *)
THEOREM UploadServedHolds == Spec => []UploadServed
<1>1. DriveInv => UploadServed
  BY DEF DriveInv
<1> QED
  BY <1>1, DriveInvHolds, PTL

-----------------------------------------------------------------------------
LEMMA Taken ==
    ASSUME DriveInv, Next, NEW l \in Served \ Served'
    PROVE  \/ IsPrefix(request.name, l.name)
           \/ \E m \in before : m.uid = l.uid /\ IsPrefix(request.name, m.name)
<1> SUFFICES \/ Matches(request.name, l)
             \/ \E m \in before : m.uid = l.uid /\ Matches(request.name, m)
  BY DEF Matches
<1>1. PICK g \in Groups : l \in ToSet(filelist[g]) /\ l.uid \in files[g]
  BY ServedIs
<1>2. l \notin ToSet(filelist'[g]) \/ l.uid \notin files'[g]
  BY <1>1 DEF Served, Stored
<1>3. /\ filelist \in [Groups -> Seq(Lines)] /\ files \in [Groups -> SUBSET Contents]
      /\ group \in Groups /\ TypeOK
  BY DEF DriveInv, TypeOK
<1>4. ~ UNCHANGED <<filelist, files>>
  BY <1>2, <1>1
<1>5. CASE PutFile
  <2>1. /\ files' = [files EXCEPT ![group] =
                        IF Matched = <<>> THEN @ ELSE @ \ {UidOf(Head(Matched))}]
        /\ filelist' = filelist /\ pc = "handle"
    BY <1>5 DEF PutFile
  <2>2. l.uid \notin files'[g]
    BY <1>1, <1>2, <2>1
  <2>3. g = group /\ Matched # <<>> /\ l.uid = UidOf(Head(Matched))
    BY <1>1, <1>3, <2>1, <2>2
  <2>4. PICK s \in Seq(Lines) :
          s = Matched /\ ToSet(s) = {k \in ToSet(filelist[group]) : Matches(request.name, k)}
    BY <1>3, MatchedIs
  <2>5. Head(s) \in ToSet(s)
    <3>1. s # <<>>
      BY <2>3, <2>4
    <3>2. Head(s) = s[1] /\ 1 \in DOMAIN s
      BY <3>1
    <3> QED
      BY <3>2 DEF ToSet
  <2>6. PICK m : m = Head(s)
    OBVIOUS
  <2>7. m \in ToSet(filelist[group]) /\ Matches(request.name, m)
    BY <2>4, <2>5, <2>6
  <2>8. l.uid # NoUid
    BY <1>1, <1>3, NoEqualMarks
  <2>9. l.uid = m.uid
    BY <2>3, <2>4, <2>6, <2>8 DEF UidOf
  <2>10. m \in Served
    BY <1>1, <1>3, <2>3, <2>7, <2>9, ServedIs
  <2>11. before = Served
    BY <2>1 DEF DriveInv, Deleting
  <2> QED
    BY <2>7, <2>9, <2>10, <2>11
<1>6. CASE PutContent
  BY <1>1, <1>2, <1>3, <1>6 DEF PutContent
<1>7. CASE PutList
  <2>1. /\ pc = "list" /\ files' = files
        /\ filelist' = [filelist EXCEPT ![group] = Append(unmatched, Line)]
    BY <1>7 DEF PutList, Line
  <2>2. g = group /\ l \notin ToSet(Append(unmatched, Line))
    BY <1>1, <1>2, <1>3, <2>1
  <2>3. l \notin ToSet(unmatched)
    <3>1. unmatched \in Seq(Lines) /\ Line \in Lines
      <4>1. request.op = "upload" /\ request \in Requests
        BY <2>1 DEF DriveInv, Handling
      <4> QED
        BY <1>3, <4>1, RequestIs, LineTyped DEF TypeOK, Line
    <3>2. ToSet(Append(unmatched, Line)) = ToSet(unmatched) \cup {Line}
      BY <3>1, AppendedMembers
    <3> QED
      BY <2>2, <3>2
  <2> QED
    BY <1>1, <2>1, <2>2, <2>3 DEF DriveInv, Keeping
<1>8. CASE PutFolder
  <2>1. files' = files
    BY <1>8 DEF PutFolder
  <2>2. filelist' = [filelist EXCEPT ![group] =
                        Append(@, [name |-> request.name, uid |-> Folder])]
    BY <1>4, <1>8, <2>1 DEF PutFolder
  <2>3. g = group /\ l \notin ToSet(filelist'[group])
    BY <1>1, <1>2, <1>3, <2>1, <2>2
  <2>4. [name |-> request.name, uid |-> Folder] \in Lines
    BY <1>8, RequestIs, LineTyped DEF PutFolder, DriveInv, Handling
  <2>5. ToSet(filelist[group]) \subseteq ToSet(filelist'[group])
    <3>1. filelist'[group] = Append(filelist[group], [name |-> request.name, uid |-> Folder])
      BY <1>3, <2>2
    <3>2. filelist[group] \in Seq(Lines)
      BY <1>3
    <3> QED
      BY <2>4, <3>1, <3>2, AppendedMembers
  <2> QED
    BY <1>1, <2>3, <2>5
<1>9. CASE Delete
  <2>1. files' = files /\ filelist' = [filelist EXCEPT ![group] = Unmatched]
    BY <1>9 DEF Delete
  <2>2. g = group /\ l \notin ToSet(Unmatched)
    BY <1>1, <1>2, <1>3, <2>1
  <2> QED
    BY <1>1, <1>3, <2>2, UnmatchedIs
<1>10. CASE DeleteContent
  <2>1. pc = "delete" /\ filelist' = filelist
    BY <1>10 DEF DeleteContent
  <2>2. PICK u \in matched : files' = [files EXCEPT ![group] = @ \ {u}]
    BY <1>4, <1>10, <2>1 DEF DeleteContent
  <2>3. l.uid = u /\ g = group
    BY <1>1, <1>2, <1>3, <2>1, <2>2
  <2> QED
    BY <1>1, <2>1, <2>3 DEF DriveInv, Deleting
<1>11. CASE RenameFile
  <2>1. files' = files
    BY <1>11 DEF RenameFile
  <2>2. PICK r : /\ r = [i \in DOMAIN Matched |-> Renamed(Matched[i])]
                 /\ filelist' = [filelist EXCEPT ![group] = Unmatched \o r]
    BY <1>4, <1>11, <2>1 DEF RenameFile
  <2>3. r \in Seq(Lines)
    <3>1. request.to \in FileNames
      BY <1>11, RequestIs DEF RenameFile, DriveInv, Handling
    <3> QED
      BY <1>3, <2>2, <3>1, RenamedIs
  <2>4. g = group /\ l \notin ToSet(Unmatched \o r)
    BY <1>1, <1>2, <1>3, <2>1, <2>2
  <2>5. /\ Unmatched \in Seq(Lines)
        /\ ToSet(Unmatched) = {k \in ToSet(filelist[group]) : ~ Matches(request.name, k)}
    BY <1>3, UnmatchedIs
  <2>6. ToSet(Unmatched \o r) = ToSet(Unmatched) \cup ToSet(r)
    BY <2>3, <2>5, JoinedMembers
  <2> QED
    BY <1>1, <2>4, <2>5, <2>6
<1> QED
  BY <1>4, <1>5, <1>6, <1>7, <1>8, <1>9, <1>10, <1>11
     DEF Next, HandleUpload, HandleCFolder, HandleDELETE, HandleRename, Ask, RequestWrite,
         Unreachable, AnswerLost, Record

(* A file that can be downloaded stays so at every step, unless its name   *)
(* begins with that of the request under way, or such a name had its       *)
(* content when the request was made (WriteServiceImpl.cc put, remove,     *)
(* rename).                                                                *)
THEOREM OnlyMatchedLostHolds == Spec => OnlyMatchedLost
<1>1. ASSUME DriveInv, [Next]_vars
      PROVE  [\A l \in Served \ Served' :
                 \/ IsPrefix(request.name, l.name)
                 \/ \E m \in before : m.uid = l.uid /\ IsPrefix(request.name, m.name)]_vars
  BY <1>1, Taken
<1> QED
  BY <1>1, DriveInvHolds, PTL DEF Spec, OnlyMatchedLost

-----------------------------------------------------------------------------
(* BigTable.                                                               *)
(*                                                                         *)
(* The file's metadata says where its bytes are: those put last.           *)
LastPut(f) == Max({k \in DOMAIN puts : puts[k] = f})

BytesOf(f) == IF bigtable[f].is_flushed THEN disk[bigtable[f].disk_filename] ELSE memspace

Holds(bytes, md, c) ==
    /\ md.start + md.filesize <= Len(bytes)
    /\ SubSeq(bytes, md.start + 1, md.start + md.filesize) = c

HasBytes(f) == Holds(BytesOf(f), bigtable[f], Content(LastPut(f), bigtable[f].filesize))

Placed == \A f \in Files : exists(f) => HasBytes(f)

(* A file that exists is in the buffer, or in a disk file and not in the   *)
(* buffer.                                                                 *)
Named ==
    \A f \in Files : exists(f) =>
        IF bigtable[f].is_flushed
        THEN /\ bigtable[f].disk_filename < disk_file_index
             /\ f \in ToSet(disk_files[bigtable[f].disk_filename])
             /\ f \notin ToSet(mem_files)
        ELSE /\ bigtable[f].disk_filename = disk_file_index
             /\ f \in ToSet(mem_files)

NamesIn(d)      == IF d = disk_file_index THEN mem_files ELSE disk_files[d]
LiveIn(d, f)    == exists(f) /\ bigtable[f].disk_filename = d
DeletedIn(d, f) == \E k \in DOMAIN deleted_files[d] : deleted_files[d][k].file = f

(* What has been deleted is still listed, and a name that is listed once   *)
(* is that of a file there, or of one deleted.                             *)
Accounted ==
    \A d \in Indexes, f \in Files :
        /\ DeletedIn(d, f) => f \in ToSet(NamesIn(d))
        /\ IsInjective(NamesIn(d)) /\ f \in ToSet(NamesIn(d)) =>
             (LiveIn(d, f) <=> ~ DeletedIn(d, f))

Unused ==
    \A d \in Indexes : d > disk_file_index => deleted_files[d] = <<>> /\ disk_files[d] = <<>>

Counted == disk_file_index <= Len(puts) /\ Len(puts) <= MaxPuts

TableInv ==
    /\ TableTypeOK /\ Counted
    /\ process = "runs" => Placed /\ Named /\ Accounted /\ Unused

-----------------------------------------------------------------------------
LEMMA MetadataTyped ==
    ASSUME TableTypeOK, NEW f \in Files, exists(f)
    PROVE  /\ bigtable[f] \in Metadata
           /\ bigtable[f].file = f
           /\ bigtable[f].disk_filename \in Indexes
           /\ bigtable[f].start \in Nat
           /\ bigtable[f].filesize \in Sizes
           /\ bigtable[f].filesize \in Nat \ {0}
           /\ bigtable[f].is_flushed \in BOOLEAN
           /\ BytesOf(f) \in Seq(Bytes)
<1>1. bigtable[f] \in Metadata /\ bigtable[f].file = f
  BY DEF TableTypeOK, exists
<1>2. /\ bigtable[f].disk_filename \in Indexes
      /\ bigtable[f].start \in Nat
      /\ bigtable[f].filesize \in Sizes
      /\ bigtable[f].is_flushed \in BOOLEAN
  BY <1>1 DEF Metadata
<1>3. bigtable[f].filesize \in Nat \ {0}
  BY <1>2, BigTableAssumption
<1>4. BytesOf(f) \in Seq(Bytes)
  BY <1>2 DEF BytesOf, TableTypeOK
<1> QED
  BY <1>1, <1>2, <1>3, <1>4

LEMMA ContentTyped ==
    ASSUME NEW p, NEW n \in Nat
    PROVE  /\ Len(Content(p, n)) = n
           /\ \A x \in 1..n : Content(p, n)[x] = <<p, x>>
           /\ p \in 1..MaxPuts => Content(p, n) \in Seq(Bytes)
<1>1. Len(Content(p, n)) = n /\ \A x \in 1..n : Content(p, n)[x] = <<p, x>>
  BY DEF Content
<1>2. ASSUME p \in 1..MaxPuts PROVE Content(p, n) \in Seq(Bytes)
  <2>1. \A x \in 1..n : <<p, x>> \in Bytes
    BY <1>2 DEF Bytes
  <2> QED
    BY <2>1 DEF Content
<1> QED
  BY <1>1, <1>2

(* A slice that is all there is not cut short.                             *)
LEMMA SliceIs ==
    ASSUME NEW b, Len(b) \in Nat, NEW s \in Nat, NEW n \in Nat, s + n <= Len(b)
    PROVE  Slice(b, s, n) = SubSeq(b, s + 1, s + n)
<1> DEFINE T == {s + n, Len(b)}
<1>1. T \in SUBSET Int /\ s + n \in T /\ \A y \in T : s + n <= y
  OBVIOUS
<1>2. Min(T) = s + n
  <2> HIDE DEF T
  <2> QED
    BY <1>1, MinIs
<1> QED
  BY <1>2 DEF Slice

(* A file that is where its metadata says reads as it was put last, and    *)
(* it has been put.                                                        *)
LEMMA GetIs ==
    ASSUME TableTypeOK, NEW f \in Files, exists(f), HasBytes(f)
    PROVE  /\ get(f) = Content(LastPut(f), bigtable[f].filesize)
           /\ get(f) \in Seq(Bytes)
           /\ Len(get(f)) = bigtable[f].filesize
<1>1. PICK b \in Seq(Bytes) : b = BytesOf(f)
  BY MetadataTyped
<1>2. PICK s \in Nat : s = bigtable[f].start
  BY MetadataTyped
<1>3. PICK n \in Nat : n = bigtable[f].filesize
  BY MetadataTyped
<1>4. s + n <= Len(b) /\ SubSeq(b, s + 1, s + n) = Content(LastPut(f), n)
  BY <1>1, <1>2, <1>3 DEF HasBytes, Holds
<1>5. Slice(b, s, n) = Content(LastPut(f), n)
  <2>1. Len(b) \in Nat
    OBVIOUS
  <2> QED
    BY <1>4, <2>1, SliceIs
<1>6. get(f) = Slice(b, s, n)
  BY <1>1, <1>2, <1>3 DEF get, BytesOf
<1>7. SubSeq(b, s + 1, s + n) \in Seq(Bytes)
  BY <1>4
<1>8. Len(Content(LastPut(f), n)) = n
  BY ContentTyped
<1>9. get(f) = Content(LastPut(f), n)
  BY <1>5, <1>6
<1> QED
  BY <1>3, <1>4, <1>7, <1>8, <1>9

(* What is read after a step.                                              *)
LEMMA GetIsNext ==
    ASSUME TableTypeOK', NEW f \in Files, exists(f)', HasBytes(f)'
    PROVE  get(f)' = Content(LastPut(f)', bigtable'[f].filesize)
<1>1. bigtable'[f] \in Metadata
  BY DEF TableTypeOK, exists
<1>2. PICK b \in Seq(Bytes) : b = BytesOf(f)'
  <2>1. bigtable'[f].disk_filename \in Indexes /\ bigtable'[f].is_flushed \in BOOLEAN
    BY <1>1 DEF Metadata
  <2> QED
    BY <2>1 DEF BytesOf, TableTypeOK
<1>3. PICK s \in Nat : s = bigtable'[f].start
  BY <1>1 DEF Metadata
<1>4. PICK n \in Nat : n = bigtable'[f].filesize
  BY <1>1, BigTableAssumption DEF Metadata
<1>5. s + n <= Len(b) /\ SubSeq(b, s + 1, s + n) = Content(LastPut(f)', n)
  BY <1>2, <1>3, <1>4 DEF HasBytes, Holds
<1>6. Slice(b, s, n) = Content(LastPut(f)', n)
  <2>1. Len(b) \in Nat
    OBVIOUS
  <2> QED
    BY <1>5, <2>1, SliceIs
<1>7. get(f)' = Slice(b, s, n)
  BY <1>2, <1>3, <1>4 DEF get, BytesOf, exists
<1> QED
  BY <1>4, <1>6, <1>7

(* The put that a file is read from, after one more.                       *)
LEMMA LastPutNew ==
    ASSUME TableTypeOK, NEW f \in Files, puts' = Append(puts, f)
    PROVE  /\ LastPut(f)' = Len(puts) + 1
           /\ \A g \in Files \ {f} : LastPut(g)' = LastPut(g)
<1>1. puts \in Seq(Files)
  BY DEF TableTypeOK
<1>2. PICK n \in Nat : n = Len(puts)
  BY <1>1
<1>3. /\ DOMAIN puts = 1..n /\ DOMAIN puts' = 1..(n + 1) /\ puts'[n + 1] = f
      /\ \A k \in 1..n : puts'[k] = puts[k]
  BY <1>1, <1>2
<1>4. LastPut(f)' = n + 1
  <2>1. PICK T : T = {k \in DOMAIN puts' : puts'[k] = f}
    OBVIOUS
  <2>2. T \in SUBSET Int /\ n + 1 \in T /\ \A y \in T : n + 1 >= y
    BY <1>3, <2>1
  <2>3. Max(T) = n + 1
    BY <2>2, MaxIs
  <2> QED
    BY <2>1, <2>3 DEF LastPut
<1>5. ASSUME NEW g \in Files \ {f} PROVE LastPut(g)' = LastPut(g)
  <2>1. {k \in DOMAIN puts' : puts'[k] = g} = {k \in DOMAIN puts : puts[k] = g}
    BY <1>3
  <2> QED
    BY <2>1 DEF LastPut
<1> QED
  BY <1>2, <1>4, <1>5

(* What was in a sequence is in a longer one.                              *)
LEMMA JoinKeeps ==
    ASSUME NEW S, NEW a \in Seq(S), NEW b \in Seq(S), NEW s \in Nat, NEW n \in Nat,
           s + n <= Len(a)
    PROVE  s + n <= Len(a \o b) /\ SubSeq(a \o b, s + 1, s + n) = SubSeq(a, s + 1, s + n)
<1>1. a \o b \in Seq(S)
  OBVIOUS
<1>2. PICK u \in Seq(S) : u = a \o b
  BY <1>1
<1>3. Len(u) = Len(a) + Len(b) /\ \A x \in 1..Len(a) : u[x] = a[x]
  BY <1>2
<1>4. SubSeq(a, s + 1, s + n) \in Seq(S)
  OBVIOUS
<1>5. PICK w \in Seq(S) : w = SubSeq(a, s + 1, s + n)
  BY <1>4
<1>6. Len(w) = n /\ \A x \in 1..n : w[x] = a[s + x]
  BY <1>5
<1>7. Len(a) \in Nat /\ Len(b) \in Nat
  OBVIOUS
<1>8. s + n <= Len(u)
  BY <1>3, <1>7
<1>9. \A x \in 1..n : s + x \in 1..Len(a)
  BY <1>7
<1>10. \A x \in 1..n : u[s + x] = w[x]
  BY <1>3, <1>6, <1>9
<1>11. SubSeq(u, s + 1, s + n) = w
  BY <1>6, <1>8, <1>10, PartIs
<1> QED
  BY <1>2, <1>5, <1>8, <1>11

LEMMA JoinEnds ==
    ASSUME NEW S, NEW a \in Seq(S), NEW b \in Seq(S)
    PROVE  /\ Len(a) + Len(b) <= Len(a \o b)
           /\ SubSeq(a \o b, Len(a) + 1, Len(a) + Len(b)) = b
<1>1. a \o b \in Seq(S)
  OBVIOUS
<1>2. PICK u \in Seq(S) : u = a \o b
  BY <1>1
<1>3. Len(u) = Len(a) + Len(b) /\ \A x \in 1..Len(b) : u[Len(a) + x] = b[x]
  BY <1>2
<1>4. Len(a) \in Nat /\ Len(b) \in Nat
  OBVIOUS
<1>5. Len(a) + Len(b) <= Len(u)
  BY <1>3, <1>4
<1>6. SubSeq(u, Len(a) + 1, Len(a) + Len(b)) = b
  BY <1>3, <1>4, <1>5, PartIs
<1> QED
  BY <1>2, <1>5, <1>6

-----------------------------------------------------------------------------
(* A file deleted is remembered with the disk file it is in.               *)
LEMMA RememberIs ==
    ASSUME TableTypeOK, NEW f \in Files, exists(f), deleted_files' = Remember(bigtable[f])
    PROVE  /\ deleted_files' \in [Indexes -> Seq(Metadata)]
           /\ \A d \in Indexes, g \in Files :
                DeletedIn(d, g)' <=> DeletedIn(d, g) \/ (g = f /\ LiveIn(d, f))
           /\ \A d \in Indexes : ~ LiveIn(d, f) => deleted_files'[d] = deleted_files[d]
<1>1. PICK md \in Metadata : md = bigtable[f]
  BY MetadataTyped
<1>2. PICK c \in Indexes : c = md.disk_filename
  BY <1>1, MetadataTyped
<1>3. md.file = f
  BY <1>1, MetadataTyped
<1>4. PICK q \in Seq(Metadata) : q = deleted_files[c]
  BY DEF TableTypeOK
<1>5. deleted_files \in [Indexes -> Seq(Metadata)]
  BY DEF TableTypeOK
<1>6. Append(q, md) \in Seq(Metadata)
  OBVIOUS
<1>7. PICK r \in Seq(Metadata) : r = Append(q, md)
  BY <1>6
<1>8. deleted_files' = [deleted_files EXCEPT ![c] = r]
  BY <1>1, <1>2, <1>4, <1>7 DEF Remember
<1>9. deleted_files' \in [Indexes -> Seq(Metadata)]
  BY <1>5, <1>8
<1>10. /\ deleted_files'[c] = r
       /\ \A d \in Indexes \ {c} : deleted_files'[d] = deleted_files[d]
  BY <1>5, <1>8
<1>11. \A d \in Indexes : LiveIn(d, f) <=> d = c
  BY <1>1, <1>2 DEF LiveIn
<1>12. ASSUME NEW g \in Files
       PROVE  DeletedIn(c, g)' <=> DeletedIn(c, g) \/ g = f
  <2>1. PICK n \in Nat : n = Len(q)
    OBVIOUS
  <2>2. /\ DOMAIN q = 1..n /\ DOMAIN r = 1..(n + 1) /\ r[n + 1] = md
        /\ \A k \in 1..n : r[k] = q[k]
    BY <1>7, <2>1
  <2>3. DeletedIn(c, g)' <=> \E k \in 1..(n + 1) : r[k].file = g
    BY <1>10, <2>2 DEF DeletedIn
  <2>4. DeletedIn(c, g) <=> \E k \in 1..n : q[k].file = g
    BY <1>4, <2>2 DEF DeletedIn
  <2>5. \A k : k \in 1..(n + 1) <=> k \in 1..n \/ k = n + 1
    BY <2>1
  <2> QED
    BY <1>3, <2>2, <2>3, <2>4, <2>5, Zenon
<1>13. ASSUME NEW g \in Files, NEW d \in Indexes \ {c}
       PROVE  DeletedIn(d, g)' <=> DeletedIn(d, g)
  BY <1>10 DEF DeletedIn
<1> QED
  BY <1>9, <1>10, <1>11, <1>12, <1>13, Zenon

(* What a put does to the files deleted.                                   *)
LEMMA PutRemembers ==
    ASSUME TableTypeOK, NEW f \in Files,
           deleted_files' = IF exists(f) THEN Remember(bigtable[f]) ELSE deleted_files
    PROVE  /\ deleted_files' \in [Indexes -> Seq(Metadata)]
           /\ \A d \in Indexes, g \in Files :
                DeletedIn(d, g)' <=> DeletedIn(d, g) \/ (g = f /\ LiveIn(d, f))
           /\ \A d \in Indexes : ~ LiveIn(d, f) => deleted_files'[d] = deleted_files[d]
<1>1. CASE exists(f)
  BY <1>1, RememberIs
<1>2. CASE ~ exists(f)
  <2>1. deleted_files' = deleted_files
    BY <1>2
  <2>2. \A d \in Indexes : ~ LiveIn(d, f)
    BY <1>2 DEF LiveIn
  <2>3. \A d \in Indexes, g \in Files : DeletedIn(d, g)' <=> DeletedIn(d, g)
    BY <2>1 DEF DeletedIn
  <2> QED
    BY <2>1, <2>2, <2>3 DEF TableTypeOK
<1> QED
  BY <1>1, <1>2

(* Where a file that exists is listed.                                     *)
LEMMA LiveListed ==
    ASSUME TableTypeOK, Named, NEW d \in Indexes, NEW f \in Files, LiveIn(d, f)
    PROVE  /\ f \in ToSet(NamesIn(d)) /\ d <= disk_file_index
           /\ bigtable[f].is_flushed <=> d # disk_file_index
<1>1. exists(f) /\ bigtable[f].disk_filename = d /\ d \in Nat /\ disk_file_index \in Nat
  BY BigTableAssumption DEF LiveIn, TableTypeOK, Indexes
<1>2. IF bigtable[f].is_flushed
      THEN /\ d < disk_file_index
           /\ f \in ToSet(disk_files[d])
           /\ f \notin ToSet(mem_files)
      ELSE /\ d = disk_file_index
           /\ f \in ToSet(mem_files)
  BY <1>1 DEF Named
<1>3. CASE bigtable[f].is_flushed
  <2>1. d < disk_file_index /\ f \in ToSet(disk_files[d])
    BY <1>2, <1>3
  <2>2. d # disk_file_index
    BY <1>1, <2>1
  <2> QED
    BY <1>1, <1>3, <2>1, <2>2 DEF NamesIn
<1>4. CASE ~ bigtable[f].is_flushed
  <2>1. d = disk_file_index /\ f \in ToSet(mem_files)
    BY <1>2, <1>4
  <2> QED
    BY <1>1, <1>4, <2>1 DEF NamesIn
<1> QED
  BY <1>3, <1>4

(* A name appended: the sequence lists it once only if it was not there.   *)
LEMMA AppendedOnce ==
    ASSUME NEW S, NEW a \in Seq(S), NEW e \in S, IsInjective(Append(a, e))
    PROVE  IsInjective(a) /\ e \notin ToSet(a)
<1>1. PICK n \in Nat : n = Len(a)
  OBVIOUS
<1>2. PICK b : b = Append(a, e)
  OBVIOUS
<1>3. /\ DOMAIN a = 1..n /\ DOMAIN b = 1..(n + 1) /\ b[n + 1] = e
      /\ \A k \in 1..n : b[k] = a[k]
  BY <1>1, <1>2
<1>4. \A i, j \in 1..(n + 1) : b[i] = b[j] => i = j
  BY <1>2, <1>3 DEF IsInjective
<1>5. /\ \A k \in 1..n : k \in 1..(n + 1) /\ k # n + 1
      /\ n + 1 \in 1..(n + 1)
  OBVIOUS
<1>6. IsInjective(a)
  BY <1>3, <1>4, <1>5 DEF IsInjective
<1>7. e \notin ToSet(a)
  BY <1>3, <1>4, <1>5 DEF ToSet
<1> QED
  BY <1>6, <1>7

(* What a put does to the names listed and deleted.                        *)
LEMMA PutAccounts ==
    ASSUME TableTypeOK, Named, Accounted, NEW f \in Files, NEW d \in Indexes,
           \A g \in Files : DeletedIn(d, g)' <=> DeletedIn(d, g) \/ (g = f /\ LiveIn(d, f)),
           \A g \in Files : LiveIn(d, g)' <=> IF g = f THEN d = disk_file_index ELSE LiveIn(d, g),
           NEW N, N = IF d = disk_file_index THEN Append(mem_files, f) ELSE NamesIn(d),
           NEW g \in Files
    PROVE  /\ DeletedIn(d, g)' => g \in ToSet(N)
           /\ IsInjective(N) /\ g \in ToSet(N) => (LiveIn(d, g)' <=> ~ DeletedIn(d, g)')
<1>1. mem_files \in Seq(Files)
  BY DEF TableTypeOK
<1>2. /\ DeletedIn(d, g) => g \in ToSet(NamesIn(d))
      /\ IsInjective(NamesIn(d)) /\ g \in ToSet(NamesIn(d)) =>
           (LiveIn(d, g) <=> ~ DeletedIn(d, g))
  BY DEF Accounted
<1>3. LiveIn(d, f) => f \in ToSet(NamesIn(d))
  BY LiveListed
<1>4. CASE d # disk_file_index
  BY <1>2, <1>3, <1>4
<1>5. CASE d = disk_file_index
  <2>1. NamesIn(d) = mem_files /\ N = Append(mem_files, f)
    BY <1>5 DEF NamesIn
  <2>2. ToSet(N) = ToSet(mem_files) \cup {f}
    BY <1>1, <2>1, AppendedMembers
  <2>3. IsInjective(N) => IsInjective(mem_files) /\ f \notin ToSet(mem_files)
    BY <1>1, <2>1, AppendedOnce
  <2> QED
    BY <1>2, <1>3, <1>5, <2>1, <2>2, <2>3
<1> QED
  BY <1>4, <1>5

-----------------------------------------------------------------------------
(* The buffer, the metadata and the counters after a put.                  *)
Whole(n) == memspace \o Content(Len(puts) + 1, n)

LEMMA WholeTyped ==
    ASSUME TableTypeOK, NEW n \in Sizes, Len(puts) < MaxPuts
    PROVE  /\ Whole(n) \in Seq(Bytes)
           /\ Content(Len(puts) + 1, n) \in Seq(Bytes)
           /\ Len(Content(Len(puts) + 1, n)) = n
<1>1. memspace \in Seq(Bytes) /\ puts \in Seq(Files) /\ n \in Nat /\ MaxPuts \in Nat
  BY BigTableAssumption DEF TableTypeOK
<1>2. Len(puts) + 1 \in 1..MaxPuts
  <2>1. Len(puts) \in Nat
    BY <1>1
  <2> QED
    BY <1>1, <2>1
<1>3. Content(Len(puts) + 1, n) \in Seq(Bytes) /\ Len(Content(Len(puts) + 1, n)) = n
  BY <1>1, <1>2, ContentTyped
<1>4. Whole(n) \in Seq(Bytes)
  BY <1>1, <1>3, JoinedMembers, Zenon DEF Whole
<1> QED
  BY <1>3, <1>4

LEMMA NewMetadataIs ==
    ASSUME TableTypeOK, NEW f \in Files, NEW n \in Sizes
    PROVE  /\ NewMetadata(f, n) \in Metadata
           /\ NewMetadata(f, n).file = f /\ NewMetadata(f, n).disk_filename = disk_file_index
           /\ NewMetadata(f, n).start = Len(memspace) /\ NewMetadata(f, n).filesize = n
           /\ NewMetadata(f, n).is_flushed = FALSE /\ NewMetadata(f, n) # Absent
<1>1. Len(memspace) \in Nat /\ disk_file_index \in Indexes
  BY DEF TableTypeOK
<1>2. NewMetadata(f, n) \in Metadata
  BY <1>1 DEF NewMetadata, Metadata
<1> QED
  BY <1>2, BigTableAssumption DEF NewMetadata

(* The number of puts stays in its bound.                                  *)
LEMMA PutCounts ==
    ASSUME TableTypeOK, Counted, NEW f \in Files, puts' = Append(puts, f), Len(puts) < MaxPuts
    PROVE  /\ puts' \in Seq(Files) /\ Len(puts') = Len(puts) + 1
           /\ Len(puts) \in Nat /\ Len(puts') <= MaxPuts
           /\ disk_file_index \in Nat /\ disk_file_index + 1 <= Len(puts')
           /\ disk_file_index + 1 \in Indexes
<1>1. /\ puts \in Seq(Files) /\ MaxPuts \in Nat
      /\ disk_file_index \in Nat /\ disk_file_index <= Len(puts)
  BY BigTableAssumption DEF TableTypeOK, Counted, Indexes
<1>2. PICK m \in Nat : m = Len(puts)
  BY <1>1
<1>3. puts' \in Seq(Files) /\ Len(puts') = m + 1
  BY <1>1, <1>2
<1>4. m + 1 <= MaxPuts /\ disk_file_index + 1 <= m + 1 /\ disk_file_index + 1 \in Indexes
  BY <1>1, <1>2 DEF Indexes
<1> QED
  BY <1>1, <1>2, <1>3, <1>4

-----------------------------------------------------------------------------
(* Types.  They hold whatever a compaction drops: see TableTyped.          *)
LEMMA DeleTypes ==
    ASSUME TableTypeOK, Counted, NEW f \in Files, dele(f)
    PROVE  TableTypeOK' /\ Counted'
<1>1. /\ exists(f) /\ deleted_files' = Remember(bigtable[f])
      /\ bigtable' = [bigtable EXCEPT ![f] = Absent]
      /\ memspace' = memspace /\ mem_files' = mem_files /\ disk' = disk
      /\ disk_files' = disk_files /\ disk_file_index' = disk_file_index
      /\ process' = process /\ puts' = puts
  BY DEF dele
<1>2. deleted_files' \in [Indexes -> Seq(Metadata)]
  BY <1>1, RememberIs
<1>3. /\ bigtable' \in [Files -> Metadata \cup {Absent}] /\ bigtable'[f] = Absent
      /\ \A g \in Files \ {f} : bigtable'[g] = bigtable[g]
  BY <1>1 DEF TableTypeOK
<1>4. \A g \in Files : exists(g)' => bigtable'[g].file = g
  BY <1>3 DEF TableTypeOK, exists
<1>5. TableTypeOK'
  BY <1>1, <1>2, <1>3, <1>4 DEF TableTypeOK
<1>6. Counted'
  BY <1>1 DEF Counted
<1> QED
  BY <1>5, <1>6

LEMMA PutTypes ==
    ASSUME TableTypeOK, Counted, NEW f \in Files, NEW n \in Sizes, put(f, n)
    PROVE  TableTypeOK' /\ Counted'
<1>1. /\ process = "runs" /\ Len(puts) < MaxPuts /\ puts' = Append(puts, f)
      /\ deleted_files' = IF exists(f) THEN Remember(bigtable[f]) ELSE deleted_files
      /\ PutMemory(f, n) \/ PutDisk(f, n)
  BY DEF put
<1>2. /\ puts' \in Seq(Files) /\ Len(puts') <= MaxPuts
      /\ disk_file_index <= Len(puts') /\ disk_file_index + 1 <= Len(puts')
      /\ disk_file_index + 1 \in Indexes
  <2>1. /\ puts' \in Seq(Files) /\ Len(puts') \in Nat /\ Len(puts') <= MaxPuts
        /\ disk_file_index \in Nat /\ disk_file_index + 1 <= Len(puts')
        /\ disk_file_index + 1 \in Indexes
    BY <1>1, PutCounts
  <2> QED
    BY <2>1
<1>3. deleted_files' \in [Indexes -> Seq(Metadata)]
  BY <1>1, PutRemembers
<1>4. PICK md \in Metadata : md = NewMetadata(f, n)
  BY NewMetadataIs
<1>5. md.file = f
  BY <1>4, NewMetadataIs
<1>6. PICK T : T = [bigtable EXCEPT ![f] = NewMetadata(f, n)]
  OBVIOUS
<1>7. /\ T \in [Files -> Metadata \cup {Absent}] /\ T[f] = md
      /\ \A g \in Files \ {f} : T[g] = bigtable[g]
  BY <1>4, <1>6 DEF TableTypeOK
<1>8. \A g \in Files : T[g] # Absent => T[g] \in Metadata /\ T[g].file = g
  BY <1>5, <1>7, BigTableAssumption DEF TableTypeOK, exists
<1>9. Whole(n) \in Seq(Bytes)
  BY <1>1, WholeTyped
<1>10. PICK N \in Seq(Files) : N = Append(mem_files, f)
  <2>1. Append(mem_files, f) \in Seq(Files)
    BY AppendedMembers DEF TableTypeOK
  <2> QED
    BY <2>1
<1>11. CASE PutMemory(f, n)
  <2>1. /\ bigtable' = T /\ memspace' = Whole(n) /\ mem_files' = N
        /\ disk' = disk /\ disk_files' = disk_files
        /\ disk_file_index' = disk_file_index /\ process' = process
    BY <1>6, <1>10, <1>11 DEF PutMemory, Whole
  <2>2. \A g \in Files : exists(g)' => bigtable'[g].file = g
    BY <1>8, <2>1 DEF exists
  <2>3. TableTypeOK'
    BY <1>2, <1>3, <1>7, <1>9, <2>1, <2>2 DEF TableTypeOK
  <2> QED
    BY <1>2, <2>1, <2>3 DEF Counted
<1>12. CASE PutDisk(f, n)
  <2>1. disk' = [disk EXCEPT ![disk_file_index] = Whole(n)]
    BY <1>12 DEF PutDisk, Whole
  <2>2. disk' \in [Indexes -> Seq(Bytes)]
    BY <1>9, <2>1 DEF TableTypeOK
  <2>3. CASE \E g \in ToSet(N) : T[g] = Absent
    <3>1. /\ process' = "aborted" /\ bigtable' = bigtable /\ memspace' = memspace
          /\ mem_files' = mem_files /\ disk_files' = disk_files
          /\ disk_file_index' = disk_file_index
      BY <1>6, <1>10, <1>12, <2>3 DEF PutDisk
    <3>2. \A g \in Files : exists(g)' => bigtable'[g].file = g
      BY <3>1 DEF TableTypeOK, exists
    <3>3. TableTypeOK'
      BY <1>2, <1>3, <2>2, <3>1, <3>2 DEF TableTypeOK
    <3> QED
      BY <1>2, <3>1, <3>3 DEF Counted
  <2>4. CASE ~ \E g \in ToSet(N) : T[g] = Absent
    <3>1. /\ bigtable' = MarkFlushed(T, N)
          /\ disk_files' = [disk_files EXCEPT ![disk_file_index] = N]
          /\ memspace' = <<>> /\ mem_files' = <<>>
          /\ disk_file_index' = disk_file_index + 1 /\ process' = process
      BY <1>6, <1>10, <1>12, <2>4 DEF PutDisk
    <3>2. disk_files' \in [Indexes -> Seq(Files)]
      BY <3>1 DEF TableTypeOK
    <3>3. ASSUME NEW g \in Files
          PROVE  /\ bigtable'[g] \in Metadata \cup {Absent}
                 /\ bigtable'[g] # Absent => bigtable'[g].file = g
      <4>1. CASE g \in ToSet(N)
        <5>1. PICK m \in Metadata : m = T[g] /\ m.file = g
          BY <1>8, <2>4, <4>1
        <5>2. bigtable'[g] = [m EXCEPT !.is_flushed = TRUE]
          BY <3>1, <4>1, <5>1 DEF MarkFlushed
        <5> QED
          BY <5>1, <5>2 DEF Metadata
      <4>2. CASE g \notin ToSet(N)
        <5>1. bigtable'[g] = T[g]
          BY <3>1, <4>2 DEF MarkFlushed
        <5> QED
          BY <1>7, <1>8, <5>1
      <4> QED
        BY <4>1, <4>2
    <3>4. bigtable' \in [Files -> Metadata \cup {Absent}]
      BY <3>1, <3>3 DEF MarkFlushed
    <3>5. \A g \in Files : exists(g)' => bigtable'[g].file = g
      BY <3>3 DEF exists
    <3>6. memspace' \in Seq(Bytes) /\ mem_files' \in Seq(Files)
      BY <3>1
    <3>7. TableTypeOK'
      BY <1>1, <1>2, <1>3, <2>2, <3>1, <3>2, <3>4, <3>5, <3>6 DEF TableTypeOK
    <3>8. Counted'
      BY <1>2, <3>1 DEF Counted
    <3> QED
      BY <3>7, <3>8
  <2> QED
    BY <2>3, <2>4
<1> QED
  BY <1>1, <1>11, <1>12

(* What is read of a file, even one cut short.                             *)
LEMMA GetTyped ==
    ASSUME TableTypeOK, NEW f \in Files
    PROVE  get(f) \in Seq(Bytes)
<1>1. CASE ~ exists(f)
  BY <1>1 DEF get
<1>2. CASE exists(f)
  <2>1. PICK b \in Seq(Bytes) : b = BytesOf(f)
    BY <1>2, MetadataTyped
  <2>2. PICK s \in Nat : s = bigtable[f].start
    BY <1>2, MetadataTyped
  <2>3. PICK n \in Nat : n = bigtable[f].filesize
    BY <1>2, MetadataTyped
  <2>4. PICK e : e = Min({s + n, Len(b)})
    OBVIOUS
  <2>5. e \in Nat /\ e <= Len(b)
    <3>1. PICK l \in Nat : l = Len(b)
      OBVIOUS
    <3>2. PICK T : T = {s + n, l}
      OBVIOUS
    <3>3. T \in SUBSET Int
      BY <3>2
    <3>4. PICK x \in T : \A y \in T : x <= y
      <4>1. s + n <= l \/ l <= s + n
        OBVIOUS
      <4> QED
        BY <3>2, <4>1
    <3>5. Min(T) = x
      BY <3>3, <3>4, MinIs
    <3>6. x \in Nat /\ x <= l
      BY <3>2, <3>4
    <3> QED
      BY <2>4, <3>1, <3>2, <3>5, <3>6
  <2>6. get(f) = SubSeq(b, s + 1, e)
    BY <1>2, <2>1, <2>2, <2>3, <2>4 DEF get, BytesOf, Slice
  <2>7. SubSeq(b, s + 1, e) \in Seq(Bytes)
    BY <2>5
  <2> QED
    BY <2>6, <2>7
<1> QED
  BY <1>1, <1>2

(* A disk file rewritten, whatever is kept of it.                          *)
LEMMA KeptTypes ==
    ASSUME TableTypeOK, NEW d \in Indexes, NEW K \in SUBSET DOMAIN disk_files[d]
    PROVE  /\ FlattenSeq(KeptContents(d, K)) \in Seq(Bytes)
           /\ KeptNames(d, K) \in Seq(Files)
           /\ \A f \in Files : exists(f) => \E s \in Nat :
                Moved(f, d, K) = [bigtable[f] EXCEPT !.start = s]
<1>1. PICK q \in Seq(Files) : q = disk_files[d]
  BY DEF TableTypeOK
<1>2. PICK n \in Nat : n = Len(q) /\ DOMAIN q = 1..n
  OBVIOUS
<1>3. \A k \in 1..n : q[k] \in Files
  BY <1>2
<1>4. PICK C : C = KeptContents(d, K)
  OBVIOUS
<1>5. C = [k \in 1..n |-> IF k \in K THEN get(q[k]) ELSE <<>>]
  BY <1>1, <1>2, <1>4 DEF KeptContents
<1>6. C \in Seq(Seq(Bytes)) /\ Len(C) = n
  <2>1. ASSUME NEW k \in 1..n PROVE (IF k \in K THEN get(q[k]) ELSE <<>>) \in Seq(Bytes)
    <3>1. get(q[k]) \in Seq(Bytes)
      BY <1>3, GetTyped
    <3> QED
      BY <3>1
  <2> QED
    BY <1>5, <2>1
<1>7. FlattenSeq(C) \in Seq(Bytes)
  BY <1>6, FlattenMembers
<1>8. PICK N : N = [k \in 1..n |-> IF k \in K THEN <<q[k]>> ELSE <<>>]
  OBVIOUS
<1>9. N \in Seq(Seq(Files))
  <2>1. ASSUME NEW k \in 1..n PROVE (IF k \in K THEN <<q[k]>> ELSE <<>>) \in Seq(Files)
    BY <1>3
  <2>2. N \in [1..n -> Seq(Files)]
    BY <1>8, <2>1
  <2> QED
    BY <2>2
<1>10. KeptNames(d, K) \in Seq(Files)
  <2>1. KeptNames(d, K) = FlattenSeq(N)
    BY <1>1, <1>2, <1>8 DEF KeptNames
  <2> QED
    BY <1>9, <2>1, FlattenMembers
<1>11. ASSUME NEW f \in Files, exists(f)
       PROVE  \E s \in Nat : Moved(f, d, K) = [bigtable[f] EXCEPT !.start = s]
  <2>1. PICK at : at = {k \in K : q[k] = f}
    OBVIOUS
  <2>2. CASE at = {}
    <3>1. Moved(f, d, K) = bigtable[f]
      BY <1>1, <2>1, <2>2 DEF Moved
    <3>2. PICK md \in Metadata : md = bigtable[f]
      BY <1>11, MetadataTyped
    <3>3. md.start \in Nat /\ md = [md EXCEPT !.start = md.start]
      BY DEF Metadata
    <3> QED
      BY <3>1, <3>2, <3>3
  <2>3. CASE at # {}
    <3>1. at \in SUBSET Nat /\ at \subseteq 1..n
      BY <1>1, <1>2, <2>1
    <3>2. PICK k \in at : \A j \in at : k <= j
      BY <2>3, <3>1, SmallestNumber
    <3>3. Min(at) = k
      <4>1. at \in SUBSET Int
        BY <3>1
      <4> QED
        BY <3>2, <4>1, MinIs
    <3>4. k - 1 \in Nat /\ k - 1 <= n
      BY <3>1
    <3>5. PICK r : r = SubSeq(C, 1, k - 1)
      OBVIOUS
    <3>6. r \in Seq(Seq(Bytes))
      BY <1>6, <3>4, <3>5
    <3>7. FlattenSeq(r) \in Seq(Bytes)
      BY <3>6, FlattenMembers
    <3>8. Len(FlattenSeq(r)) \in Nat
      BY <3>7
    <3>9. Moved(f, d, K) = [bigtable[f] EXCEPT !.start = Len(FlattenSeq(r))]
      BY <1>1, <1>4, <2>1, <2>3, <3>3, <3>5 DEF Moved
    <3> QED
      BY <3>8, <3>9
  <2> QED
    BY <2>2, <2>3
<1> QED
  BY <1>4, <1>7, <1>10, <1>11

LEMMA CompactTypes ==
    ASSUME TableTypeOK, Counted, dele_disk
    PROVE  TableTypeOK' /\ Counted'
<1> DEFINE D == {d \in Indexes : deleted_files[d] # <<>>}
<1>1. /\ process = "runs"
      /\ memspace' = memspace /\ mem_files' = mem_files
      /\ disk_file_index' = disk_file_index /\ puts' = puts
  BY DEF dele_disk
<1>2. Counted'
  BY <1>1 DEF Counted
<1>3. CASE process' = "hangs"
  <2>1. /\ bigtable' = bigtable /\ disk' = disk /\ disk_files' = disk_files
        /\ deleted_files' = deleted_files
    BY <1>1, <1>3 DEF dele_disk
  <2>2. TableTypeOK'
    BY <1>1, <1>3, <2>1 DEF TableTypeOK, exists
  <2> QED
    BY <1>2, <2>2
<1>4. CASE process' # "hangs"
  <2>1. process' = process /\ deleted_files' = [d \in Indexes |-> <<>>]
    BY <1>4 DEF dele_disk
  <2>2. PICK stray \in SUBSET UNION {{d} \X MayDrop(d) : d \in D} :
           LET kept == [d \in D |-> {k \in DOMAIN disk_files[d] :
                                       k \notin Dropped(d) /\ <<d, k>> \notin stray}]
           IN  /\ disk' = [d \in Indexes |->
                    IF d \in D THEN FlattenSeq(KeptContents(d, kept[d])) ELSE disk[d]]
               /\ disk_files' = [d \in Indexes |->
                    IF d \in D THEN KeptNames(d, kept[d]) ELSE disk_files[d]]
               /\ bigtable' = [f \in Files |->
                    IF exists(f) /\ bigtable[f].disk_filename \in D
                    THEN LET d == bigtable[f].disk_filename IN Moved(f, d, kept[d])
                    ELSE bigtable[f]]
    BY <1>4 DEF dele_disk
  <2>3. PICK kept : kept = [d \in D |-> {k \in DOMAIN disk_files[d] :
                                           k \notin Dropped(d) /\ <<d, k>> \notin stray}]
    OBVIOUS
  <2>4. /\ disk' = [d \in Indexes |->
              IF d \in D THEN FlattenSeq(KeptContents(d, kept[d])) ELSE disk[d]]
        /\ disk_files' = [d \in Indexes |->
              IF d \in D THEN KeptNames(d, kept[d]) ELSE disk_files[d]]
        /\ bigtable' = [f \in Files |->
              IF exists(f) /\ bigtable[f].disk_filename \in D
              THEN Moved(f, bigtable[f].disk_filename, kept[bigtable[f].disk_filename])
              ELSE bigtable[f]]
    BY <2>2, <2>3, Zenon
  <2>5. \A d \in D : d \in Indexes /\ kept[d] \in SUBSET DOMAIN disk_files[d]
    BY <2>3
  <2> HIDE DEF D
  <2>6. \A d \in D : /\ FlattenSeq(KeptContents(d, kept[d])) \in Seq(Bytes)
                     /\ KeptNames(d, kept[d]) \in Seq(Files)
    BY <2>5, KeptTypes
  <2>7. disk' \in [Indexes -> Seq(Bytes)] /\ disk_files' \in [Indexes -> Seq(Files)]
    BY <2>4, <2>6 DEF TableTypeOK
  <2>8. ASSUME NEW f \in Files
        PROVE  /\ bigtable'[f] \in Metadata \cup {Absent}
               /\ bigtable'[f] # Absent => bigtable'[f].file = f
    <3>1. CASE exists(f) /\ bigtable[f].disk_filename \in D
      <4>1. PICK d \in D : d = bigtable[f].disk_filename
        BY <3>1
      <4>2. bigtable'[f] = Moved(f, d, kept[d])
        BY <2>4, <3>1, <4>1
      <4>3. PICK s \in Nat : Moved(f, d, kept[d]) = [bigtable[f] EXCEPT !.start = s]
        <5>1. PICK K : K = kept[d]
          OBVIOUS
        <5>2. d \in Indexes /\ K \in SUBSET DOMAIN disk_files[d]
          BY <2>5, <5>1
        <5>3. \A g \in Files : exists(g) => \E s \in Nat :
                 Moved(g, d, K) = [bigtable[g] EXCEPT !.start = s]
          BY <5>2, KeptTypes
        <5> QED
          BY <3>1, <5>1, <5>3
      <4>4. PICK md \in Metadata : md = bigtable[f] /\ md.file = f
        BY <3>1, MetadataTyped
      <4>5. bigtable'[f] = [md EXCEPT !.start = s]
        BY <4>2, <4>3, <4>4
      <4> QED
        BY <4>4, <4>5 DEF Metadata
    <3>2. CASE ~ (exists(f) /\ bigtable[f].disk_filename \in D)
      <4>1. bigtable'[f] = bigtable[f]
        BY <2>4, <3>2
      <4> QED
        BY <4>1 DEF TableTypeOK, exists
    <3> QED
      BY <3>1, <3>2
  <2>9. bigtable' \in [Files -> Metadata \cup {Absent}]
    BY <2>4, <2>8
  <2>10. \A f \in Files : exists(f)' => bigtable'[f].file = f
    BY <2>8 DEF exists
  <2>11. deleted_files' \in [Indexes -> Seq(Metadata)]
    BY <2>1
  <2>12. TableTypeOK'
    BY <1>1, <2>1, <2>7, <2>9, <2>10, <2>11 DEF TableTypeOK
  <2> QED
    BY <1>2, <2>12
<1> QED
  BY <1>3, <1>4

-----------------------------------------------------------------------------
(* The inductive invariant holds at first.                                 *)
LEMMA TableStarts == TableInit => TableInv
<1> SUFFICES ASSUME TableInit PROVE TableInv
  OBVIOUS
<1>1. 0 \in Indexes /\ MaxPuts \in Nat
  BY BigTableAssumption DEF Indexes
<1>2. /\ bigtable = [f \in Files |-> Absent] /\ memspace = <<>> /\ mem_files = <<>>
      /\ disk = [d \in Indexes |-> <<>>] /\ disk_files = [d \in Indexes |-> <<>>]
      /\ deleted_files = [d \in Indexes |-> <<>>]
      /\ disk_file_index = 0 /\ process = "runs" /\ puts = <<>>
  BY DEF TableInit
<1>3. TableTypeOK
  <2>1. /\ bigtable \in [Files -> Metadata \cup {Absent}]
        /\ \A f \in Files : exists(f) => bigtable[f].file = f
    BY <1>2 DEF exists
  <2>2. /\ memspace \in Seq(Bytes) /\ mem_files \in Seq(Files) /\ puts \in Seq(Files)
        /\ disk \in [Indexes -> Seq(Bytes)] /\ disk_files \in [Indexes -> Seq(Files)]
        /\ deleted_files \in [Indexes -> Seq(Metadata)]
    BY <1>2
  <2> QED
    BY <1>1, <1>2, <2>1, <2>2 DEF TableTypeOK
<1>4. Counted
  BY <1>1, <1>2 DEF Counted
<1>5. Placed /\ Named
  BY <1>2 DEF Placed, Named, exists
<1>6. Accounted
  <2>1. \A d \in Indexes, f \in Files : f \notin ToSet(NamesIn(d))
    BY <1>2 DEF NamesIn, ToSet
  <2>2. \A d \in Indexes, f \in Files : ~ DeletedIn(d, f)
    BY <1>2 DEF DeletedIn
  <2> QED
    BY <2>1, <2>2 DEF Accounted
<1>7. Unused
  BY <1>2 DEF Unused
<1> QED
  BY <1>3, <1>4, <1>5, <1>6, <1>7 DEF TableInv

(* A step that leaves a file's metadata, its bytes and the puts alone.     *)
LEMMA HasBytesStays ==
    ASSUME NEW f \in Files, HasBytes(f), bigtable'[f] = bigtable[f],
           BytesOf(f)' = BytesOf(f), LastPut(f)' = LastPut(f)
    PROVE  HasBytes(f)'
BY DEF HasBytes, Holds

(* dele takes a file out of the table and remembers it.                    *)
LEMMA DeleKeeps ==
    ASSUME TableInv, NEW f \in Files, dele(f)
    PROVE  TableInv'
<1>1. /\ process = "runs" /\ exists(f) /\ deleted_files' = Remember(bigtable[f])
      /\ bigtable' = [bigtable EXCEPT ![f] = Absent]
      /\ memspace' = memspace /\ mem_files' = mem_files /\ disk' = disk
      /\ disk_files' = disk_files /\ disk_file_index' = disk_file_index
      /\ process' = process /\ puts' = puts
  BY DEF dele
<1>2. TableTypeOK /\ Counted /\ Placed /\ Named /\ Accounted /\ Unused
  BY <1>1 DEF TableInv
<1>3. /\ deleted_files' \in [Indexes -> Seq(Metadata)]
      /\ \A d \in Indexes, g \in Files :
           DeletedIn(d, g)' <=> DeletedIn(d, g) \/ (g = f /\ LiveIn(d, f))
      /\ \A d \in Indexes : ~ LiveIn(d, f) => deleted_files'[d] = deleted_files[d]
  BY <1>1, <1>2, RememberIs
<1>4. /\ bigtable' \in [Files -> Metadata \cup {Absent}] /\ bigtable'[f] = Absent
      /\ \A g \in Files \ {f} : bigtable'[g] = bigtable[g]
  BY <1>1, <1>2 DEF TableTypeOK
<1>5. ~ exists(f)' /\ \A g \in Files \ {f} : exists(g)' <=> exists(g)
  BY <1>4 DEF exists
<1>6. TableTypeOK' /\ Counted'
  BY <1>2, DeleTypes
<1>7. Placed'
  <2> SUFFICES ASSUME NEW g \in Files, exists(g)' PROVE HasBytes(g)'
    BY DEF Placed
  <2>1. g # f /\ exists(g) /\ bigtable'[g] = bigtable[g]
    BY <1>4, <1>5
  <2>2. BytesOf(g)' = BytesOf(g) /\ LastPut(g)' = LastPut(g)
    BY <1>1, <2>1 DEF BytesOf, LastPut
  <2> QED
    BY <1>2, <2>1, <2>2, HasBytesStays DEF Placed
<1>8. Named'
  BY <1>1, <1>2, <1>4, <1>5 DEF Named
<1>9. Accounted'
  <2> SUFFICES ASSUME NEW d \in Indexes, NEW g \in Files
               PROVE  /\ DeletedIn(d, g)' => g \in ToSet(NamesIn(d))'
                      /\ IsInjective(NamesIn(d)') /\ g \in ToSet(NamesIn(d))' =>
                           (LiveIn(d, g)' <=> ~ DeletedIn(d, g)')
    BY DEF Accounted
  <2>1. NamesIn(d)' = NamesIn(d)
    BY <1>1 DEF NamesIn
  <2>2. ToSet(NamesIn(d))' = ToSet(NamesIn(d))
    BY <2>1 DEF ToSet
  <2>3. LiveIn(d, g)' <=> LiveIn(d, g) /\ g # f
    BY <1>4, <1>5 DEF LiveIn
  <2>4. /\ DeletedIn(d, g) => g \in ToSet(NamesIn(d))
        /\ IsInjective(NamesIn(d)) /\ g \in ToSet(NamesIn(d)) =>
             (LiveIn(d, g) <=> ~ DeletedIn(d, g))
    BY <1>2 DEF Accounted
  <2>5. LiveIn(d, f) => f \in ToSet(NamesIn(d))
    BY <1>2, LiveListed
  <2> QED
    BY <1>3, <2>1, <2>2, <2>3, <2>4, <2>5
<1>10. Unused'
  <2> SUFFICES ASSUME NEW d \in Indexes, d > disk_file_index
               PROVE  deleted_files'[d] = <<>> /\ disk_files'[d] = <<>>
    BY <1>1 DEF Unused
  <2>1. ~ LiveIn(d, f)
    <3>1. d \in Nat /\ disk_file_index \in Nat
      BY <1>2, BigTableAssumption DEF TableTypeOK, Indexes
    <3> QED
      BY <1>2, <3>1, LiveListed
  <2> QED
    BY <1>1, <1>2, <1>3, <2>1 DEF Unused
<1> QED
  BY <1>6, <1>7, <1>8, <1>9, <1>10 DEF TableInv

-----------------------------------------------------------------------------
(* The buffer with the content put: the file is at its end, and the files  *)
(* that were in the buffer are where they were.                            *)
LEMMA WholeBuffer ==
    ASSUME TableTypeOK, Placed, NEW f \in Files, NEW n \in Sizes, Len(puts) < MaxPuts,
           puts' = Append(puts, f)
    PROVE  /\ Whole(n) \in Seq(Bytes)
           /\ Holds(Whole(n), NewMetadata(f, n), Content(LastPut(f)', n))
           /\ \A g \in Files \ {f} : exists(g) /\ ~ bigtable[g].is_flushed =>
                Holds(Whole(n), bigtable[g], Content(LastPut(g)', bigtable[g].filesize))
<1>1. PICK W : W = Whole(n)
  OBVIOUS
<1>2. memspace \in Seq(Bytes) /\ Whole(n) \in Seq(Bytes)
  BY WholeTyped DEF TableTypeOK
<1>3. Content(Len(puts) + 1, n) \in Seq(Bytes) /\ Len(Content(Len(puts) + 1, n)) = n
  BY WholeTyped
<1>4. PICK c \in Seq(Bytes) : c = Content(Len(puts) + 1, n)
  BY <1>3
<1>5. W = memspace \o c /\ Len(c) = n
  BY <1>1, <1>3, <1>4 DEF Whole
<1>6. W \in Seq(Bytes)
  BY <1>1, <1>2
<1>7. LastPut(f)' = Len(puts) + 1 /\ \A g \in Files \ {f} : LastPut(g)' = LastPut(g)
  BY LastPutNew
<1>8. Len(memspace) + n <= Len(W) /\ SubSeq(W, Len(memspace) + 1, Len(memspace) + n) = c
  BY <1>2, <1>5, JoinEnds
<1>9. ASSUME NEW g \in Files \ {f}, exists(g), ~ bigtable[g].is_flushed
      PROVE  Holds(W, bigtable[g], Content(LastPut(g)', bigtable[g].filesize))
  <2>1. PICK s \in Nat : s = bigtable[g].start
    BY <1>9, MetadataTyped
  <2>2. PICK z \in Nat : z = bigtable[g].filesize
    BY <1>9, MetadataTyped
  <2>3. s + z <= Len(memspace) /\ SubSeq(memspace, s + 1, s + z) = Content(LastPut(g), z)
    BY <1>9, <2>1, <2>2 DEF Placed, HasBytes, Holds, BytesOf
  <2>4. s + z <= Len(W) /\ SubSeq(W, s + 1, s + z) = SubSeq(memspace, s + 1, s + z)
    BY <1>2, <1>5, <2>3, JoinKeeps
  <2> QED
    BY <1>7, <2>1, <2>2, <2>3, <2>4 DEF Holds
<1>10. Holds(W, NewMetadata(f, n), Content(LastPut(f)', n))
  BY <1>4, <1>7, <1>8 DEF Holds, NewMetadata
<1> QED
  BY <1>1, <1>6, <1>9, <1>10

(* A put that the buffer has room for.                                     *)
LEMMA PutMemoryKeeps ==
    ASSUME TableInv, NEW f \in Files, NEW n \in Sizes, put(f, n), PutMemory(f, n)
    PROVE  /\ TableInv'
           /\ exists(f)' /\ bigtable'[f].filesize = n
           /\ \A g \in Files \ {f} : exists(g)' <=> exists(g)
           /\ \A g \in Files \ {f} : exists(g) => bigtable'[g].filesize = bigtable[g].filesize
<1>1. /\ process = "runs" /\ Len(puts) < MaxPuts /\ puts' = Append(puts, f)
      /\ deleted_files' = IF exists(f) THEN Remember(bigtable[f]) ELSE deleted_files
  BY DEF put
<1>2. /\ bigtable' = [bigtable EXCEPT ![f] = NewMetadata(f, n)]
      /\ memspace' = memspace \o Content(Len(puts) + 1, n)
      /\ mem_files' = Append(mem_files, f)
      /\ disk' = disk /\ disk_files' = disk_files
      /\ disk_file_index' = disk_file_index /\ process' = process
  BY DEF PutMemory
<1>3. TableTypeOK /\ Counted /\ Placed /\ Named /\ Accounted /\ Unused
  BY <1>1 DEF TableInv
<1>4. /\ deleted_files' \in [Indexes -> Seq(Metadata)]
      /\ \A d \in Indexes, g \in Files :
           DeletedIn(d, g)' <=> DeletedIn(d, g) \/ (g = f /\ LiveIn(d, f))
      /\ \A d \in Indexes : ~ LiveIn(d, f) => deleted_files'[d] = deleted_files[d]
  BY <1>1, <1>3, PutRemembers
<1>5. PICK md \in Metadata : md = NewMetadata(f, n)
  BY <1>3, NewMetadataIs
<1>6. /\ md.file = f /\ md.disk_filename = disk_file_index
      /\ md.start = Len(memspace) /\ md.filesize = n
      /\ ~ md.is_flushed /\ md # Absent
  BY <1>3, <1>5, NewMetadataIs
<1>7. /\ bigtable' \in [Files -> Metadata \cup {Absent}] /\ bigtable'[f] = md
      /\ \A g \in Files \ {f} : bigtable'[g] = bigtable[g]
  BY <1>2, <1>3, <1>5 DEF TableTypeOK
<1>8. exists(f)' /\ \A g \in Files \ {f} : exists(g)' <=> exists(g)
  BY <1>6, <1>7 DEF exists
<1>9. PICK W : W = Whole(n)
  OBVIOUS
<1>10. /\ W \in Seq(Bytes)
       /\ Holds(W, md, Content(LastPut(f)', n))
       /\ \A g \in Files \ {f} : exists(g) /\ ~ bigtable[g].is_flushed =>
            Holds(W, bigtable[g], Content(LastPut(g)', bigtable[g].filesize))
  BY <1>1, <1>3, <1>5, <1>9, WholeBuffer
<1>11. memspace' = W
  BY <1>2, <1>9 DEF Whole
<1>12. /\ mem_files' \in Seq(Files)
       /\ ToSet(mem_files') = ToSet(mem_files) \cup {f}
  BY <1>2, <1>3, AppendedMembers DEF TableTypeOK
<1>13. TableTypeOK' /\ Counted'
  BY <1>3, PutTypes
<1>14. Placed'
  <2> SUFFICES ASSUME NEW g \in Files, exists(g)' PROVE HasBytes(g)'
    BY DEF Placed
  <2>1. CASE g = f
    <3>1. BytesOf(f)' = W
      BY <1>6, <1>7, <1>11 DEF BytesOf
    <3> QED
      BY <1>6, <1>7, <1>10, <2>1, <3>1 DEF HasBytes, Holds
  <2>2. CASE g # f
    <3>1. exists(g) /\ bigtable'[g] = bigtable[g] /\ HasBytes(g)
      BY <1>3, <1>7, <1>8, <2>2 DEF Placed
    <3>2. CASE bigtable[g].is_flushed
      <4>1. BytesOf(g)' = BytesOf(g)
        BY <1>2, <3>1, <3>2 DEF BytesOf
      <4>2. LastPut(g)' = LastPut(g)
        BY <1>1, <1>3, <2>2, LastPutNew
      <4> QED
        BY <3>1, <4>1, <4>2, HasBytesStays
    <3>3. CASE ~ bigtable[g].is_flushed
      <4>1. BytesOf(g)' = W
        BY <1>11, <3>1, <3>3 DEF BytesOf
      <4> QED
        BY <1>10, <2>2, <3>1, <3>3, <4>1 DEF HasBytes, Holds
    <3> QED
      BY <3>2, <3>3
  <2> QED
    BY <2>1, <2>2
<1>15. Named'
  <2> SUFFICES ASSUME NEW g \in Files, exists(g)'
               PROVE  IF bigtable'[g].is_flushed
                      THEN /\ bigtable'[g].disk_filename < disk_file_index
                           /\ g \in ToSet(disk_files[bigtable'[g].disk_filename])
                           /\ g \notin ToSet(mem_files')
                      ELSE /\ bigtable'[g].disk_filename = disk_file_index
                           /\ g \in ToSet(mem_files')
    BY <1>2 DEF Named
  <2>1. CASE g = f
    BY <1>6, <1>7, <1>12, <2>1
  <2>2. CASE g # f
    <3>1. exists(g) /\ bigtable'[g] = bigtable[g]
      BY <1>7, <1>8, <2>2
    <3> QED
      BY <1>3, <1>12, <2>2, <3>1 DEF Named
  <2> QED
    BY <2>1, <2>2
<1>16. Accounted'
  <2> SUFFICES ASSUME NEW d \in Indexes, NEW g \in Files
               PROVE  /\ DeletedIn(d, g)' => g \in ToSet(NamesIn(d)')
                      /\ IsInjective(NamesIn(d)') /\ g \in ToSet(NamesIn(d)') =>
                           (LiveIn(d, g)' <=> ~ DeletedIn(d, g)')
    BY DEF Accounted, ToSet
  <2>1. NamesIn(d)' = IF d = disk_file_index THEN Append(mem_files, f) ELSE NamesIn(d)
    BY <1>2 DEF NamesIn
  <2>2. \A h \in Files : LiveIn(d, h)' <=> IF h = f THEN d = disk_file_index ELSE LiveIn(d, h)
    BY <1>6, <1>7, <1>8 DEF LiveIn
  <2>3. \A h \in Files : DeletedIn(d, h)' <=> DeletedIn(d, h) \/ (h = f /\ LiveIn(d, f))
    BY <1>4
  <2> QED
    BY <1>3, <2>1, <2>2, <2>3, PutAccounts
<1>17. Unused'
  <2> SUFFICES ASSUME NEW d \in Indexes, d > disk_file_index
               PROVE  deleted_files'[d] = <<>> /\ disk_files'[d] = <<>>
    BY <1>2 DEF Unused
  <2>1. ~ LiveIn(d, f)
    <3>1. d \in Nat /\ disk_file_index \in Nat
      BY <1>3, BigTableAssumption DEF TableTypeOK, Indexes
    <3> QED
      BY <1>3, <3>1, LiveListed
  <2> QED
    BY <1>2, <1>3, <1>4, <2>1 DEF Unused
<1>18. TableInv'
  BY <1>13, <1>14, <1>15, <1>16, <1>17 DEF TableInv
<1> QED
  BY <1>6, <1>7, <1>8, <1>18

-----------------------------------------------------------------------------
(* A put that the buffer has no room for, and a name in the buffer is not  *)
(* in the table: the server dies.                                          *)
LEMMA AbortKeeps ==
    ASSUME TableInv, NEW f \in Files, NEW n \in Sizes, put(f, n), PutDisk(f, n),
           process' = "aborted"
    PROVE  /\ TableInv'
           /\ bigtable' = bigtable /\ memspace' = memspace
           /\ \A g \in Files : exists(g) => BytesOf(g)' = BytesOf(g)
<1>1. /\ process = "runs" /\ Len(puts) < MaxPuts /\ puts' = Append(puts, f)
      /\ deleted_files' = IF exists(f) THEN Remember(bigtable[f]) ELSE deleted_files
  BY DEF put
<1>2. /\ disk' = [disk EXCEPT ![disk_file_index] = Whole(n)]
      /\ bigtable' = bigtable /\ memspace' = memspace /\ mem_files' = mem_files
      /\ disk_files' = disk_files /\ disk_file_index' = disk_file_index
  BY <1>1 DEF PutDisk, Whole
<1>3. TableTypeOK /\ Counted /\ Placed /\ Named
  BY <1>1 DEF TableInv
<1>4. Whole(n) \in Seq(Bytes)
  BY <1>1, <1>3, WholeBuffer
<1>5. /\ disk' \in [Indexes -> Seq(Bytes)]
      /\ \A d \in Indexes \ {disk_file_index} : disk'[d] = disk[d]
  BY <1>2, <1>3, <1>4 DEF TableTypeOK
<1>6. TableTypeOK' /\ Counted'
  BY <1>3, PutTypes
<1>7. ASSUME NEW g \in Files, exists(g) PROVE BytesOf(g)' = BytesOf(g)
  <2>1. bigtable[g].disk_filename \in Indexes
    BY <1>3, <1>7, MetadataTyped
  <2>2. CASE bigtable[g].is_flushed
    <3>1. bigtable[g].disk_filename # disk_file_index
      <4>1. bigtable[g].disk_filename < disk_file_index
        BY <1>3, <1>7, <2>2 DEF Named
      <4>2. bigtable[g].disk_filename \in Nat /\ disk_file_index \in Nat
        BY <1>3, <2>1, BigTableAssumption DEF Indexes, TableTypeOK
      <4> QED
        BY <4>1, <4>2
    <3> QED
      BY <1>2, <1>5, <2>1, <2>2, <3>1 DEF BytesOf
  <2>3. CASE ~ bigtable[g].is_flushed
    BY <1>2, <2>3 DEF BytesOf
  <2> QED
    BY <2>2, <2>3
<1> QED
  BY <1>2, <1>6, <1>7 DEF TableInv

(* A put that the buffer has no room for: the buffer and the content are a *)
(* new disk file.                                                          *)
LEMMA FlushKeeps ==
    ASSUME TableInv, NEW f \in Files, NEW n \in Sizes, put(f, n), PutDisk(f, n),
           process' # "aborted"
    PROVE  /\ TableInv'
           /\ exists(f)' /\ bigtable'[f].filesize = n
           /\ \A g \in Files \ {f} : exists(g)' <=> exists(g)
           /\ \A g \in Files \ {f} : exists(g) => bigtable'[g].filesize = bigtable[g].filesize
<1> DEFINE names == Append(mem_files, f)
           table == [bigtable EXCEPT ![f] = NewMetadata(f, n)]
<1>1. /\ process = "runs" /\ Len(puts) < MaxPuts /\ puts' = Append(puts, f)
      /\ deleted_files' = IF exists(f) THEN Remember(bigtable[f]) ELSE deleted_files
  BY DEF put
<1>2. /\ disk' = [disk EXCEPT ![disk_file_index] = Whole(n)]
      /\ \A g \in ToSet(names) : table[g] # Absent
      /\ bigtable' = MarkFlushed(table, names)
      /\ disk_files' = [disk_files EXCEPT ![disk_file_index] = names]
      /\ memspace' = <<>> /\ mem_files' = <<>>
      /\ disk_file_index' = disk_file_index + 1 /\ process' = process
  BY DEF PutDisk, Whole
<1>3. TableTypeOK /\ Counted /\ Placed /\ Named /\ Accounted /\ Unused
  BY <1>1 DEF TableInv
<1>4. /\ deleted_files' \in [Indexes -> Seq(Metadata)]
      /\ \A d \in Indexes, g \in Files :
           DeletedIn(d, g)' <=> DeletedIn(d, g) \/ (g = f /\ LiveIn(d, f))
      /\ \A d \in Indexes : ~ LiveIn(d, f) => deleted_files'[d] = deleted_files[d]
  BY <1>1, <1>3, PutRemembers
<1>5. PICK md \in Metadata : md = NewMetadata(f, n)
  BY <1>3, NewMetadataIs
<1>6. /\ md.file = f /\ md.disk_filename = disk_file_index
      /\ md.start = Len(memspace) /\ md.filesize = n
      /\ ~ md.is_flushed /\ md # Absent
  BY <1>3, <1>5, NewMetadataIs
<1>7. PICK W : W = Whole(n)
  OBVIOUS
<1>8. /\ W \in Seq(Bytes)
      /\ Holds(W, md, Content(LastPut(f)', n))
      /\ \A g \in Files \ {f} : exists(g) /\ ~ bigtable[g].is_flushed =>
           Holds(W, bigtable[g], Content(LastPut(g)', bigtable[g].filesize))
  BY <1>1, <1>3, <1>5, <1>7, WholeBuffer
<1>9. /\ names \in Seq(Files)
      /\ ToSet(names) = ToSet(mem_files) \cup {f}
  BY <1>3, AppendedMembers DEF TableTypeOK
<1>10. /\ table \in [Files -> Metadata \cup {Absent}] /\ table[f] = md
       /\ \A g \in Files \ {f} : table[g] = bigtable[g]
  BY <1>3, <1>5 DEF TableTypeOK
<1>11. PICK L : L = ToSet(names)
  OBVIOUS
<1>12. bigtable' = [g \in Files |-> IF g \in L THEN [table[g] EXCEPT !.is_flushed = TRUE]
                                               ELSE table[g]]
  BY <1>2, <1>11 DEF MarkFlushed
<1>13. L = ToSet(mem_files) \cup {f} /\ \A g \in L : table[g] # Absent
  BY <1>2, <1>9, <1>11
<1>14. PICK T : T = table
  OBVIOUS
<1> HIDE DEF names, table
(* The names in the buffer are of files in the buffer, all of them.        *)
<1>15. disk_file_index \in Indexes /\ disk_file_index \in Nat /\ Indexes \subseteq Nat
  BY <1>3, BigTableAssumption DEF TableTypeOK, Indexes
<1>16. ASSUME NEW g \in Files, g # f, exists(g)
       PROVE  /\ g \in L <=> ~ bigtable[g].is_flushed
              /\ bigtable[g].is_flushed => /\ bigtable[g].disk_filename < disk_file_index
                                           /\ bigtable[g].disk_filename # disk_file_index
                                           /\ bigtable[g].disk_filename \in Indexes
              /\ ~ bigtable[g].is_flushed => bigtable[g].disk_filename = disk_file_index
  <2>1. bigtable[g].disk_filename \in Indexes
    BY <1>3, <1>16, MetadataTyped
  <2>2. bigtable[g].disk_filename < disk_file_index =>
            bigtable[g].disk_filename # disk_file_index
    BY <1>15, <2>1
  <2> QED
    BY <1>3, <1>13, <1>16, <2>1, <2>2 DEF Named
<1>17. ASSUME NEW g \in Files, g \in L
       PROVE  /\ bigtable'[g] = [T[g] EXCEPT !.is_flushed = TRUE]
              /\ bigtable'[g] \in Metadata
              /\ T[g] \in Metadata
              /\ bigtable'[g].file = T[g].file
              /\ bigtable'[g].disk_filename = T[g].disk_filename
              /\ bigtable'[g].start = T[g].start
              /\ bigtable'[g].filesize = T[g].filesize
              /\ bigtable'[g].is_flushed = TRUE
  <2>1. T[g] \in Metadata
    BY <1>10, <1>13, <1>14, <1>17
  <2>2. PICK m \in Metadata : m = T[g]
    BY <2>1
  <2>3. PICK r : r = [m EXCEPT !.is_flushed = TRUE]
    OBVIOUS
  <2>4. /\ r \in Metadata /\ r.file = m.file /\ r.disk_filename = m.disk_filename
        /\ r.start = m.start /\ r.filesize = m.filesize /\ r.is_flushed = TRUE
    BY <2>3 DEF Metadata
  <2>5. bigtable'[g] = r
    BY <1>12, <1>14, <1>17, <2>2, <2>3
  <2> QED
    BY <2>1, <2>2, <2>3, <2>4, <2>5
<1>18. ASSUME NEW g \in Files, g \notin L
       PROVE  g # f /\ bigtable'[g] = bigtable[g]
  BY <1>10, <1>12, <1>13, <1>18
<1>19. \A g \in Files \ {f} : T[g] = bigtable[g]
  BY <1>10, <1>14
<1>20. T[f] = md /\ f \in L
  BY <1>10, <1>13, <1>14
<1>21. \A g \in Files \ {f} : exists(g)' <=> exists(g)
  <2> SUFFICES ASSUME NEW g \in Files, g # f PROVE exists(g)' <=> exists(g)
    OBVIOUS
  <2>1. CASE g \in L
    <3>1. bigtable'[g] # Absent
      BY <1>17, <2>1, BigTableAssumption
    <3>2. bigtable[g] # Absent
      BY <1>17, <1>19, <2>1, BigTableAssumption
    <3> QED
      BY <3>1, <3>2 DEF exists
  <2>2. CASE g \notin L
    BY <1>18, <2>2 DEF exists
  <2> QED
    BY <2>1, <2>2
(* The metadata after the step.                                            *)
<1>22. /\ bigtable'[f] = [md EXCEPT !.is_flushed = TRUE]
       /\ bigtable'[f] \in Metadata
       /\ bigtable'[f].file = f /\ bigtable'[f].disk_filename = disk_file_index
       /\ bigtable'[f].start = md.start /\ bigtable'[f].filesize = n
       /\ bigtable'[f].is_flushed /\ exists(f)'
  BY <1>6, <1>17, <1>20, BigTableAssumption DEF exists
<1>23. ASSUME NEW g \in Files, g # f, exists(g)
       PROVE  /\ bigtable'[g] \in Metadata
              /\ bigtable'[g].file = g
              /\ bigtable'[g].disk_filename = bigtable[g].disk_filename
              /\ bigtable'[g].start = bigtable[g].start
              /\ bigtable'[g].filesize = bigtable[g].filesize
              /\ bigtable'[g].is_flushed = TRUE
  <2>1. bigtable[g] \in Metadata /\ bigtable[g].file = g
    BY <1>3, <1>23, MetadataTyped
  <2>2. CASE g \in L
    BY <1>17, <1>19, <1>23, <2>1, <2>2
  <2>3. CASE g \notin L
    <3>1. bigtable[g].is_flushed /\ bigtable[g].is_flushed \in BOOLEAN
      BY <1>16, <1>23, <2>1, <2>3 DEF Metadata
    <3> QED
      BY <1>18, <2>1, <2>3, <3>1
  <2> QED
    BY <2>2, <2>3
<1>24. TableTypeOK' /\ Counted'
  BY <1>3, PutTypes
<1>25. /\ disk'[disk_file_index] = W /\ disk_files'[disk_file_index] = names
       /\ \A d \in Indexes \ {disk_file_index} : /\ disk'[d] = disk[d]
                                                /\ disk_files'[d] = disk_files[d]
  BY <1>2, <1>3, <1>7 DEF TableTypeOK
<1>26. Placed'
  <2> SUFFICES ASSUME NEW g \in Files, exists(g)' PROVE HasBytes(g)'
    BY DEF Placed
  <2>1. CASE g = f
    <3>1. BytesOf(f)' = W
      BY <1>22, <1>25 DEF BytesOf
    <3> QED
      BY <1>6, <1>8, <1>22, <2>1, <3>1 DEF HasBytes, Holds
  <2>2. CASE g # f
    <3>1. exists(g) /\ HasBytes(g)
      BY <1>3, <1>21, <2>2 DEF Placed
    <3>2. /\ bigtable'[g].disk_filename = bigtable[g].disk_filename
          /\ bigtable'[g].start = bigtable[g].start
          /\ bigtable'[g].filesize = bigtable[g].filesize
          /\ bigtable'[g].is_flushed
      BY <1>23, <2>2, <3>1
    <3>3. CASE bigtable[g].is_flushed
      <4>1. BytesOf(g)' = BytesOf(g)
        BY <1>16, <1>25, <2>2, <3>1, <3>2, <3>3 DEF BytesOf
      <4>2. LastPut(g)' = LastPut(g)
        BY <1>1, <1>3, <2>2, LastPutNew
      <4> QED
        BY <3>1, <3>2, <4>1, <4>2 DEF HasBytes, Holds
    <3>4. CASE ~ bigtable[g].is_flushed
      <4>1. BytesOf(g)' = W
        BY <1>16, <1>25, <2>2, <3>1, <3>2, <3>4 DEF BytesOf
      <4>2. Holds(W, bigtable[g], Content(LastPut(g)', bigtable[g].filesize))
        BY <1>8, <2>2, <3>1, <3>4
      <4> QED
        BY <3>2, <4>1, <4>2 DEF HasBytes, Holds
    <3> QED
      BY <3>3, <3>4
  <2> QED
    BY <2>1, <2>2
<1>27. Named'
  <2> SUFFICES ASSUME NEW g \in Files, exists(g)'
               PROVE  /\ bigtable'[g].is_flushed
                      /\ bigtable'[g].disk_filename < disk_file_index'
                      /\ g \in ToSet(disk_files'[bigtable'[g].disk_filename])
                      /\ g \notin ToSet(mem_files')
    BY DEF Named, ToSet
  <2>1. g \notin ToSet(mem_files')
    BY <1>2 DEF ToSet
  <2>2. disk_file_index < disk_file_index'
    BY <1>2, <1>15
  <2>3. CASE g = f
    BY <1>11, <1>20, <1>22, <1>25, <2>1, <2>2, <2>3
  <2>4. CASE g # f
    <3>1. exists(g)
      BY <1>21, <2>4
    <3>2. /\ bigtable'[g].disk_filename = bigtable[g].disk_filename
          /\ bigtable'[g].is_flushed
      BY <1>23, <2>4, <3>1
    <3>3. CASE bigtable[g].is_flushed
      <4>1. /\ bigtable[g].disk_filename < disk_file_index
            /\ bigtable[g].disk_filename \in Indexes \ {disk_file_index}
        BY <1>16, <2>4, <3>1, <3>3
      <4>2. bigtable[g].disk_filename \in Nat
        BY <1>15, <4>1
      <4>3. disk_file_index' = disk_file_index + 1
        BY <1>2
      <4>4. bigtable[g].disk_filename < disk_file_index'
        BY <1>15, <4>1, <4>2, <4>3
      <4>5. g \in ToSet(disk_files[bigtable[g].disk_filename])
        BY <1>3, <3>1, <3>3 DEF Named
      <4>6. g \in ToSet(disk_files'[bigtable[g].disk_filename])
        <5>1. disk_files'[bigtable[g].disk_filename] = disk_files[bigtable[g].disk_filename]
          BY <1>25, <4>1
        <5> QED
          BY <4>5, <5>1
      <4> QED
        BY <2>1, <3>2, <4>4, <4>6
    <3>4. CASE ~ bigtable[g].is_flushed
      <4>1. bigtable[g].disk_filename = disk_file_index /\ g \in L
        BY <1>16, <2>4, <3>1, <3>4
      <4> QED
        BY <1>11, <1>25, <2>1, <2>2, <3>2, <4>1
    <3> QED
      BY <3>3, <3>4
  <2> QED
    BY <2>3, <2>4
<1>28. ASSUME NEW d \in Indexes, d > disk_file_index
       PROVE  /\ deleted_files'[d] = <<>> /\ disk_files'[d] = <<>>
              /\ \A g \in Files : ~ DeletedIn(d, g)'
  <2>1. d \in Nat /\ ~ d <= disk_file_index /\ d # disk_file_index
    BY <1>15, <1>28
  <2>2. ~ LiveIn(d, f)
    BY <1>3, <2>1, LiveListed
  <2>3. deleted_files'[d] = <<>> /\ disk_files'[d] = <<>>
    BY <1>3, <1>4, <1>25, <1>28, <2>1, <2>2 DEF Unused
  <2>4. \A g \in Files : ~ DeletedIn(d, g)'
    BY <2>3 DEF DeletedIn
  <2> QED
    BY <2>3, <2>4
<1>29. Accounted'
  <2> SUFFICES ASSUME NEW d \in Indexes, NEW g \in Files
               PROVE  /\ DeletedIn(d, g)' => g \in ToSet(NamesIn(d)')
                      /\ IsInjective(NamesIn(d)') /\ g \in ToSet(NamesIn(d)') =>
                           (LiveIn(d, g)' <=> ~ DeletedIn(d, g)')
    BY DEF Accounted, ToSet
  <2>1. CASE d > disk_file_index
    <3>1. NamesIn(d)' = <<>>
      BY <1>2, <1>28, <2>1 DEF NamesIn
    <3>2. g \notin ToSet(NamesIn(d)')
      BY <3>1 DEF ToSet
    <3> QED
      BY <1>28, <2>1, <3>2
  <2>2. CASE d <= disk_file_index
    <3>1. d # disk_file_index'
      BY <1>2, <1>15, <2>2
    <3>2. NamesIn(d)' = IF d = disk_file_index THEN Append(mem_files, f) ELSE NamesIn(d)
      BY <1>25, <3>1 DEF NamesIn, names
    <3>3. ASSUME NEW h \in Files
          PROVE  LiveIn(d, h)' <=> IF h = f THEN d = disk_file_index ELSE LiveIn(d, h)
      <4>1. CASE h = f
        BY <1>22, <4>1 DEF LiveIn
      <4>2. CASE h # f
        BY <1>21, <1>23, <4>2 DEF LiveIn
      <4> QED
        BY <4>1, <4>2
    <3>4. \A h \in Files : DeletedIn(d, h)' <=> DeletedIn(d, h) \/ (h = f /\ LiveIn(d, f))
      BY <1>4
    <3> QED
      BY <1>3, <3>2, <3>3, <3>4, PutAccounts
  <2> QED
    BY <1>15, <2>1, <2>2
<1>30. Unused'
  <2> SUFFICES ASSUME NEW d \in Indexes, d > disk_file_index'
               PROVE  deleted_files'[d] = <<>> /\ disk_files'[d] = <<>>
    BY DEF Unused
  <2>1. d > disk_file_index
    BY <1>2, <1>15
  <2> QED
    BY <1>28, <2>1
<1>31. TableInv'
  BY <1>24, <1>26, <1>27, <1>29, <1>30 DEF TableInv
<1> QED
  BY <1>5, <1>21, <1>22, <1>23, <1>31

-----------------------------------------------------------------------------
(* In a disk file that lists its names once, dele_file drops the names     *)
(* that were deleted, and keeps those of the files that are there.         *)
LEMMA DroppedAre ==
    ASSUME TableTypeOK, Accounted, NEW d \in Indexes, d # disk_file_index,
           deleted_files[d] # <<>>, IsInjective(disk_files[d])
    PROVE  /\ Dropped(d) = {k \in DOMAIN disk_files[d] : ~ LiveIn(d, disk_files[d][k])}
           /\ MayDrop(d) = {}
<1>1. PICK q \in Seq(Files) : q = disk_files[d]
  BY DEF TableTypeOK
<1>2. PICK n \in Nat : n = Len(q) /\ DOMAIN q = 1..n
  OBVIOUS
<1>3. PICK x \in Seq(Metadata) : x = deleted_files[d]
  BY DEF TableTypeOK
<1>4. PICK m \in Nat : m = Len(x) /\ DOMAIN x = 1..m
  OBVIOUS
<1>5. \A k \in 1..n : q[k] \in Files /\ q[k] \in ToSet(NamesIn(d))
  BY <1>1, <1>2 DEF NamesIn, ToSet
<1>6. \A f \in Files : DeletedIn(d, f) <=> \E k \in 1..m : x[k].file = f
  BY <1>3, <1>4 DEF DeletedIn
<1>7. \A k \in 1..n : LiveIn(d, q[k]) <=> ~ DeletedIn(d, q[k])
  BY <1>1, <1>5 DEF Accounted, NamesIn
<1>8. \A i, j \in 1..n : q[i] = q[j] => i = j
  BY <1>1, <1>2 DEF IsInjective
<1>9. ASSUME NEW k \in 1..n
      PROVE  Cardinality({j \in 1..(k - 1) : q[j] = q[k]}) = 0
  <2>1. {j \in 1..(k - 1) : q[j] = q[k]} = {}
    BY <1>8
  <2> QED
    BY <2>1, FS_EmptySet
<1>10. ASSUME NEW k \in 1..n
       PROVE  /\ Deleted(d, q[k]) \in Nat
              /\ 0 < Deleted(d, q[k]) <=> DeletedIn(d, q[k])
  <2>1. PICK T : T = {i \in 1..m : x[i].file = q[k]}
    OBVIOUS
  <2>2. Deleted(d, q[k]) = Cardinality(T)
    BY <1>3, <1>4, <2>1 DEF Deleted
  <2>3. T \subseteq 1..m
    BY <2>1
  <2>4. IsFiniteSet(1..m)
    BY FS_Interval
  <2>5. IsFiniteSet(T)
    BY <2>3, <2>4, FS_Subset
  <2>6. Cardinality(T) \in Nat /\ (Cardinality(T) = 0 <=> T = {})
    BY <2>5, FS_CardinalityType, FS_EmptySet
  <2>7. DeletedIn(d, q[k]) <=> T # {}
    BY <1>5, <1>6, <2>1
  <2> QED
    BY <2>2, <2>6, <2>7
<1>11. PICK G : G = Dropped(d)
  OBVIOUS
<1>12. G = {k \in 1..n : DeletedIn(d, q[k])}
  <2>1. G = {k \in 1..n :
               Cardinality({j \in 1..(k - 1) : q[j] = q[k]}) < Deleted(d, q[k])}
    BY <1>1, <1>2, <1>11 DEF Dropped
  <2>2. \A k \in 1..n :
            Cardinality({j \in 1..(k - 1) : q[j] = q[k]}) < Deleted(d, q[k]) <=>
              DeletedIn(d, q[k])
    BY <1>9, <1>10
  <2> QED
    BY <2>1, <2>2
<1>13. G = {k \in 1..n : ~ LiveIn(d, q[k])}
  BY <1>7, <1>12
(* Something was deleted, and it is listed.                                *)
<1>14. G # {}
  <2>1. 1 \in 1..m
    <3>1. m # 0
      BY <1>3, <1>4
    <3> QED
      BY <3>1
  <2>2. x[1].file \in Files
    <3>1. x[1] \in Metadata
      BY <1>4, <2>1
    <3> QED
      BY <3>1 DEF Metadata
  <2>3. DeletedIn(d, x[1].file)
    BY <1>6, <2>1, <2>2
  <2>4. x[1].file \in ToSet(NamesIn(d))
    BY <2>2, <2>3 DEF Accounted
  <2>5. PICK k \in 1..n : q[k] = x[1].file
    BY <1>1, <1>2, <2>4 DEF NamesIn, ToSet
  <2>6. k \in G
    BY <1>12, <2>3, <2>5
  <2> QED
    BY <2>6
<1>15. Max(G) \in G
  <2>1. G \subseteq 1..n
    BY <1>13
  <2> QED
    BY <1>14, <2>1, LargestNumber
<1>16. MayDrop(d) = {}
  <2>1. PICK last \in 1..n : last = Max(G)
    BY <1>13, <1>15
  <2>2. MayDrop(d) = {k \in 1..n : k > last /\ q[k] = q[last]}
    BY <1>1, <1>2, <1>11, <2>1 DEF MayDrop
  <2>3. \A k \in 1..n : ~ (k > last /\ q[k] = q[last])
    BY <1>8
  <2> QED
    BY <2>2, <2>3
<1> QED
  BY <1>1, <1>2, <1>11, <1>13, <1>16

(* A disk file rewritten: the names of the files that are there, and the   *)
(* content of each, at the place its metadata is moved to.                 *)
LEMMA RewrittenAre ==
    ASSUME TableTypeOK, Placed, Named, Accounted, NEW d \in Indexes, d # disk_file_index,
           deleted_files[d] # <<>>, IsInjective(disk_files[d]),
           NEW K, K = {k \in DOMAIN disk_files[d] : k \notin Dropped(d)}
    PROVE  /\ FlattenSeq(KeptContents(d, K)) \in Seq(Bytes)
           /\ KeptNames(d, K) \in Seq(Files)
           /\ \A f \in Files : f \in ToSet(KeptNames(d, K)) <=> LiveIn(d, f)
           /\ \A f \in Files : LiveIn(d, f) =>
                \E s \in Nat :
                  /\ Moved(f, d, K) = [bigtable[f] EXCEPT !.start = s]
                  /\ Holds(FlattenSeq(KeptContents(d, K)), Moved(f, d, K),
                           Content(LastPut(f), bigtable[f].filesize))
<1>1. PICK q \in Seq(Files) : q = disk_files[d]
  BY DEF TableTypeOK
<1>2. PICK n \in Nat : n = Len(q) /\ DOMAIN q = 1..n
  OBVIOUS
<1>3. \A k \in 1..n : q[k] \in Files
  BY <1>2
<1>4. \A i, j \in 1..n : q[i] = q[j] => i = j
  BY <1>1, <1>2 DEF IsInjective
<1>5. K = {k \in 1..n : LiveIn(d, q[k])}
  BY <1>1, <1>2, DroppedAre
<1>6. \A f \in Files : LiveIn(d, f) => \E k \in 1..n : q[k] = f
  <2> SUFFICES ASSUME NEW f \in Files, LiveIn(d, f) PROVE \E k \in 1..n : q[k] = f
    OBVIOUS
  <2>1. f \in ToSet(NamesIn(d))
    BY LiveListed
  <2> QED
    BY <1>1, <1>2, <2>1 DEF NamesIn, ToSet
<1>7. ASSUME NEW f \in Files, LiveIn(d, f)
      PROVE  /\ get(f) = Content(LastPut(f), bigtable[f].filesize)
             /\ get(f) \in Seq(Bytes) /\ Len(get(f)) = bigtable[f].filesize
             /\ bigtable[f] \in Metadata
  <2>1. exists(f) /\ HasBytes(f)
    BY <1>7 DEF LiveIn, Placed
  <2> QED
    BY <2>1, GetIs, MetadataTyped
(* The contents.                                                           *)
<1>8. PICK C : C = KeptContents(d, K)
  OBVIOUS
<1>9. C = [k \in 1..n |-> IF k \in K THEN get(q[k]) ELSE <<>>]
  BY <1>1, <1>2, <1>8 DEF KeptContents
<1>10. C \in Seq(Seq(Bytes)) /\ Len(C) = n
  <2>1. ASSUME NEW k \in 1..n PROVE (IF k \in K THEN get(q[k]) ELSE <<>>) \in Seq(Bytes)
    <3>1. CASE k \in K
      BY <1>3, <1>5, <1>7, <3>1
    <3>2. CASE k \notin K
      BY <3>2
    <3> QED
      BY <3>1, <3>2
  <2> QED
    BY <1>9, <2>1
<1>11. FlattenSeq(C) \in Seq(Bytes)
  BY <1>10, FlattenMembers
(* The names.                                                              *)
<1>12. PICK N : N = [k \in 1..n |-> IF k \in K THEN <<q[k]>> ELSE <<>>]
  OBVIOUS
<1>13. KeptNames(d, K) = FlattenSeq(N)
  BY <1>1, <1>2, <1>12 DEF KeptNames
<1>14. N \in Seq(Seq(Files)) /\ Len(N) = n
  BY <1>3, <1>12
<1>15. KeptNames(d, K) \in Seq(Files)
  BY <1>13, <1>14, FlattenMembers
<1>16. ToSet(KeptNames(d, K)) = UNION {ToSet(N[k]) : k \in 1..n}
  BY <1>13, <1>14, FlattenMembers
<1>17. ASSUME NEW k \in 1..n PROVE ToSet(N[k]) = IF k \in K THEN {q[k]} ELSE {}
  BY <1>12 DEF ToSet
<1>18. ASSUME NEW f \in Files
       PROVE  f \in ToSet(KeptNames(d, K)) <=> LiveIn(d, f)
  <2>1. f \in ToSet(KeptNames(d, K)) <=> \E k \in 1..n : k \in K /\ q[k] = f
    BY <1>16, <1>17
  <2> QED
    BY <1>5, <1>6, <2>1
(* The places.                                                             *)
<1>19. ASSUME NEW f \in Files, LiveIn(d, f)
       PROVE  \E s \in Nat :
                  /\ Moved(f, d, K) = [bigtable[f] EXCEPT !.start = s]
                  /\ Holds(FlattenSeq(C), Moved(f, d, K),
                           Content(LastPut(f), bigtable[f].filesize))
  <2>1. PICK k \in 1..n : q[k] = f
    BY <1>6, <1>19
  <2>2. k \in K
    BY <1>5, <1>19, <2>1
  <2>3. {j \in K : q[j] = f} = {k}
    BY <1>4, <1>5, <2>1, <2>2
  <2>4. Min({k}) = k
    <3>1. {k} \in SUBSET Int /\ k \in {k} /\ \A y \in {k} : k <= y
      OBVIOUS
    <3> QED
      BY <3>1, MinIs
  <2>5. PICK s : s = Len(FlattenSeq(SubSeq(C, 1, k - 1)))
    OBVIOUS
  <2>6. Moved(f, d, K) = [bigtable[f] EXCEPT !.start = s]
    BY <1>1, <1>8, <2>3, <2>4, <2>5 DEF Moved
  <2>7. PICK c \in Seq(Bytes) : c = get(f)
    BY <1>7, <1>19
  <2>8. C[k] = c
    BY <1>9, <2>1, <2>2, <2>7
  <2>9. /\ s \in Nat /\ s + Len(c) <= Len(FlattenSeq(C))
        /\ SubSeq(FlattenSeq(C), s + 1, s + Len(c)) = c
    BY <1>10, <2>5, <2>8, FlattenPlace
  <2>10. PICK md \in Metadata : md = bigtable[f]
    BY <1>7, <1>19
  <2>11. PICK r : r = [md EXCEPT !.start = s]
    OBVIOUS
  <2>12. r.start = s /\ r.filesize = md.filesize
    BY <2>11 DEF Metadata
  <2>13. c = Content(LastPut(f), md.filesize) /\ Len(c) = md.filesize
    BY <1>7, <1>19, <2>7, <2>10
  <2>14. Holds(FlattenSeq(C), r, Content(LastPut(f), md.filesize))
    BY <2>9, <2>12, <2>13 DEF Holds
  <2> QED
    BY <2>6, <2>9, <2>10, <2>11, <2>14
<1> QED
  BY <1>8, <1>11, <1>15, <1>18, <1>19

(* A compaction keeps the files that are there, with their contents.       *)
LEMMA CompactKeeps ==
    ASSUME Repeated = FALSE, TableInv, dele_disk, process' # "hangs"
    PROVE  /\ TableInv'
           /\ process = "runs" /\ puts' = puts
           /\ \A f \in Files : exists(f)' <=> exists(f)
           /\ \A f \in Files : exists(f) => bigtable'[f].filesize = bigtable[f].filesize
<1> DEFINE D == {d \in Indexes : deleted_files[d] # <<>>}
           K(d) == {k \in DOMAIN disk_files[d] : k \notin Dropped(d)}
<1>1. /\ process = "runs"
      /\ \A d \in Indexes : deleted_files[d] # <<>> => IsInjective(disk_files[d])
      /\ memspace' = memspace /\ mem_files' = mem_files
      /\ disk_file_index' = disk_file_index /\ puts' = puts /\ process' = process
      /\ deleted_files' = [d \in Indexes |-> <<>>]
  BY DEF dele_disk
<1>2. TableTypeOK /\ Counted /\ Placed /\ Named /\ Accounted /\ Unused
  BY <1>1 DEF TableInv
<1>3. PICK stray \in SUBSET UNION {{d} \X MayDrop(d) : d \in D} :
         LET kept == [d \in D |-> {k \in DOMAIN disk_files[d] :
                                     k \notin Dropped(d) /\ <<d, k>> \notin stray}]
         IN  /\ disk' = [d \in Indexes |->
                  IF d \in D THEN FlattenSeq(KeptContents(d, kept[d])) ELSE disk[d]]
             /\ disk_files' = [d \in Indexes |->
                  IF d \in D THEN KeptNames(d, kept[d]) ELSE disk_files[d]]
             /\ bigtable' = [f \in Files |->
                  IF exists(f) /\ bigtable[f].disk_filename \in D
                  THEN LET d == bigtable[f].disk_filename IN Moved(f, d, kept[d])
                  ELSE bigtable[f]]
  BY <1>1 DEF dele_disk
<1>4. \A d \in D : d \in Indexes /\ d # disk_file_index /\ deleted_files[d] # <<>>
                   /\ IsInjective(disk_files[d])
  BY <1>1 DEF dele_disk
<1>5. stray = {}
  <2>1. \A d \in D : MayDrop(d) = {}
    BY <1>2, <1>4, DroppedAre
  <2> QED
    BY <2>1
<1>6. /\ disk' = [d \in Indexes |->
            IF d \in D THEN FlattenSeq(KeptContents(d, K(d))) ELSE disk[d]]
      /\ disk_files' = [d \in Indexes |->
            IF d \in D THEN KeptNames(d, K(d)) ELSE disk_files[d]]
      /\ bigtable' = [f \in Files |->
            IF exists(f) /\ bigtable[f].disk_filename \in D
            THEN Moved(f, bigtable[f].disk_filename, K(bigtable[f].disk_filename))
            ELSE bigtable[f]]
  <2>1. PICK kept : kept = [d \in D |-> {k \in DOMAIN disk_files[d] :
                                           k \notin Dropped(d) /\ <<d, k>> \notin stray}]
    OBVIOUS
  <2>2. \A d \in D : kept[d] = K(d)
    BY <1>5, <2>1
  <2>3. /\ disk' = [d \in Indexes |->
              IF d \in D THEN FlattenSeq(KeptContents(d, kept[d])) ELSE disk[d]]
        /\ disk_files' = [d \in Indexes |->
              IF d \in D THEN KeptNames(d, kept[d]) ELSE disk_files[d]]
        /\ bigtable' = [f \in Files |->
              IF exists(f) /\ bigtable[f].disk_filename \in D
              THEN Moved(f, bigtable[f].disk_filename, kept[bigtable[f].disk_filename])
              ELSE bigtable[f]]
    BY <1>3, <2>1, Zenon
  <2> HIDE DEF D, K
  <2> QED
    BY <2>2, <2>3
<1>7. \A d \in D :
        /\ FlattenSeq(KeptContents(d, K(d))) \in Seq(Bytes)
        /\ KeptNames(d, K(d)) \in Seq(Files)
        /\ \A f \in Files : f \in ToSet(KeptNames(d, K(d))) <=> LiveIn(d, f)
        /\ \A f \in Files : LiveIn(d, f) =>
             \E s \in Nat :
               /\ Moved(f, d, K(d)) = [bigtable[f] EXCEPT !.start = s]
               /\ Holds(FlattenSeq(KeptContents(d, K(d))), Moved(f, d, K(d)),
                        Content(LastPut(f), bigtable[f].filesize))
  <2> SUFFICES ASSUME NEW d \in D
               PROVE  /\ FlattenSeq(KeptContents(d, K(d))) \in Seq(Bytes)
                      /\ KeptNames(d, K(d)) \in Seq(Files)
                      /\ \A f \in Files : f \in ToSet(KeptNames(d, K(d))) <=> LiveIn(d, f)
                      /\ \A f \in Files : LiveIn(d, f) =>
                           \E s \in Nat :
                             /\ Moved(f, d, K(d)) = [bigtable[f] EXCEPT !.start = s]
                             /\ Holds(FlattenSeq(KeptContents(d, K(d))), Moved(f, d, K(d)),
                                      Content(LastPut(f), bigtable[f].filesize))
    OBVIOUS
  <2>1. PICK k : k = K(d)
    OBVIOUS
  <2> QED
    BY <1>2, <1>4, <2>1, RewrittenAre
<1> HIDE DEF K
<1>8. \A d \in Indexes : d \notin D => deleted_files[d] = <<>>
  OBVIOUS
<1> HIDE DEF D
(* A file in a disk file that is rewritten.                                *)
<1>9. ASSUME NEW f \in Files, exists(f), NEW d \in D, bigtable[f].disk_filename = d
      PROVE  /\ bigtable'[f] \in Metadata
             /\ bigtable'[f].file = f /\ bigtable'[f].disk_filename = d
             /\ bigtable'[f].filesize = bigtable[f].filesize
             /\ bigtable[f].is_flushed /\ bigtable'[f].is_flushed = bigtable[f].is_flushed
             /\ Holds(disk'[d], bigtable'[f], Content(LastPut(f), bigtable[f].filesize))
  <2>1. LiveIn(d, f)
    BY <1>9 DEF LiveIn
  <2>2. bigtable'[f] = Moved(f, d, K(d)) /\ disk'[d] = FlattenSeq(KeptContents(d, K(d)))
    BY <1>4, <1>6, <1>9
  <2>3. PICK s \in Nat :
            /\ Moved(f, d, K(d)) = [bigtable[f] EXCEPT !.start = s]
            /\ Holds(FlattenSeq(KeptContents(d, K(d))), Moved(f, d, K(d)),
                     Content(LastPut(f), bigtable[f].filesize))
    BY <1>7, <2>1
  <2>4. PICK md \in Metadata : md = bigtable[f]
    BY <1>2, <1>9, MetadataTyped
  <2>5. md.file = f /\ md.disk_filename = d
    BY <1>2, <1>9, <2>4, MetadataTyped
  <2>6. PICK r : r = [md EXCEPT !.start = s]
    OBVIOUS
  <2>7. /\ r \in Metadata /\ r.file = md.file /\ r.disk_filename = md.disk_filename
        /\ r.filesize = md.filesize /\ r.is_flushed = md.is_flushed
    BY <2>6 DEF Metadata
  <2>8. bigtable'[f] = r
    BY <2>2, <2>3, <2>4, <2>6
  <2>9. bigtable[f].is_flushed
    BY <1>2, <1>4, <2>1, LiveListed
  <2>10. Holds(disk'[d], bigtable'[f], Content(LastPut(f), bigtable[f].filesize))
    BY <2>2, <2>3
  <2> QED
    BY <2>4, <2>5, <2>7, <2>8, <2>9, <2>10
(* A file that is anywhere else.                                           *)
<1>10. ASSUME NEW f \in Files, exists(f), bigtable[f].disk_filename \notin D
       PROVE  bigtable'[f] = bigtable[f] /\ BytesOf(f)' = BytesOf(f)
  <2>1. bigtable'[f] = bigtable[f]
    BY <1>6, <1>10
  <2>2. bigtable[f].disk_filename \in Indexes
    BY <1>2, <1>10, MetadataTyped
  <2>3. disk'[bigtable[f].disk_filename] = disk[bigtable[f].disk_filename]
    BY <1>6, <1>10, <2>2
  <2> QED
    BY <1>1, <2>1, <2>3 DEF BytesOf
<1>11. ASSUME NEW f \in Files PROVE exists(f)' <=> exists(f)
  <2>1. CASE exists(f) /\ bigtable[f].disk_filename \in D
    BY <1>9, <2>1, BigTableAssumption DEF exists
  <2>2. CASE exists(f) /\ bigtable[f].disk_filename \notin D
    BY <1>10, <2>2 DEF exists
  <2>3. CASE ~ exists(f)
    <3>1. bigtable'[f] = bigtable[f]
      BY <1>6, <2>3
    <3> QED
      BY <2>3, <3>1 DEF exists
  <2> QED
    BY <2>1, <2>2, <2>3
<1>12. ASSUME NEW f \in Files, exists(f)
       PROVE  /\ bigtable'[f] \in Metadata
              /\ bigtable'[f].file = f
              /\ bigtable'[f].disk_filename = bigtable[f].disk_filename
              /\ bigtable'[f].filesize = bigtable[f].filesize
              /\ bigtable'[f].is_flushed = bigtable[f].is_flushed
  <2>1. CASE bigtable[f].disk_filename \in D
    BY <1>9, <1>12, <2>1
  <2>2. CASE bigtable[f].disk_filename \notin D
    BY <1>2, <1>10, <1>12, <2>2, MetadataTyped
  <2> QED
    BY <2>1, <2>2
<1>13. TableTypeOK' /\ Counted'
  BY <1>2, CompactTypes
<1>14. \A f \in Files : LastPut(f)' = LastPut(f)
  BY <1>1 DEF LastPut
<1>15. Placed'
  <2> SUFFICES ASSUME NEW f \in Files, exists(f)' PROVE HasBytes(f)'
    BY DEF Placed
  <2>1. exists(f) /\ HasBytes(f)
    BY <1>2, <1>11 DEF Placed
  <2>2. CASE bigtable[f].disk_filename \in D
    <3>1. BytesOf(f)' = disk'[bigtable[f].disk_filename]
      BY <1>9, <2>1, <2>2 DEF BytesOf
    <3>2. Holds(disk'[bigtable[f].disk_filename], bigtable'[f],
                Content(LastPut(f), bigtable[f].filesize))
      BY <1>9, <2>1, <2>2
    <3>3. LastPut(f)' = LastPut(f) /\ bigtable'[f].filesize = bigtable[f].filesize
      BY <1>12, <1>14, <2>1
    <3> QED
      BY <3>1, <3>2, <3>3 DEF HasBytes
  <2>3. CASE bigtable[f].disk_filename \notin D
    BY <1>10, <1>14, <2>1, <2>3, HasBytesStays
  <2> QED
    BY <2>2, <2>3
(* The names listed in a disk file.                                        *)
<1>16. ASSUME NEW d \in Indexes, NEW f \in Files
       PROVE  /\ LiveIn(d, f)' <=> LiveIn(d, f)
              /\ d \in D => (f \in ToSet(disk_files'[d]) <=> LiveIn(d, f))
              /\ d \notin D => disk_files'[d] = disk_files[d]
  <2>1. LiveIn(d, f)' <=> LiveIn(d, f)
    BY <1>11, <1>12 DEF LiveIn
  <2>2. ASSUME d \in D PROVE f \in ToSet(disk_files'[d]) <=> LiveIn(d, f)
    <3>1. disk_files'[d] = KeptNames(d, K(d))
      BY <1>6, <2>2
    <3> QED
      BY <1>7, <2>2, <3>1
  <2>3. d \notin D => disk_files'[d] = disk_files[d]
    BY <1>6
  <2> QED
    BY <2>1, <2>2, <2>3
<1>17. Named'
  <2> SUFFICES ASSUME NEW f \in Files, exists(f)'
               PROVE  IF bigtable'[f].is_flushed
                      THEN /\ bigtable'[f].disk_filename < disk_file_index
                           /\ f \in ToSet(disk_files'[bigtable'[f].disk_filename])
                           /\ f \notin ToSet(mem_files)
                      ELSE /\ bigtable'[f].disk_filename = disk_file_index
                           /\ f \in ToSet(mem_files)
    BY <1>1 DEF Named
  <2>1. exists(f)
    BY <1>11
  <2>2. PICK d \in Indexes : d = bigtable[f].disk_filename
    BY <1>2, <2>1, MetadataTyped
  <2>3. bigtable'[f].disk_filename = d /\ bigtable'[f].is_flushed = bigtable[f].is_flushed
    BY <1>12, <2>1, <2>2
  <2>4. IF bigtable[f].is_flushed
        THEN /\ d < disk_file_index
             /\ f \in ToSet(disk_files[d])
             /\ f \notin ToSet(mem_files)
        ELSE /\ d = disk_file_index
             /\ f \in ToSet(mem_files)
    BY <1>2, <2>1, <2>2 DEF Named
  <2>5. bigtable[f].is_flushed => f \in ToSet(disk_files'[d])
    <3>1. LiveIn(d, f)
      BY <2>1, <2>2 DEF LiveIn
    <3> QED
      BY <1>16, <2>4, <3>1
  <2> QED
    BY <2>3, <2>4, <2>5
<1>18. Accounted'
  <2> SUFFICES ASSUME NEW d \in Indexes, NEW f \in Files
               PROVE  /\ DeletedIn(d, f)' => f \in ToSet(NamesIn(d)')
                      /\ IsInjective(NamesIn(d)') /\ f \in ToSet(NamesIn(d)') =>
                           (LiveIn(d, f)' <=> ~ DeletedIn(d, f)')
    BY DEF Accounted, ToSet
  <2>1. ~ DeletedIn(d, f)'
    BY <1>1 DEF DeletedIn
  <2>2. CASE d \in D
    <3>1. NamesIn(d)' = disk_files'[d]
      BY <1>1, <1>4, <2>2 DEF NamesIn
    <3> QED
      BY <1>16, <2>1, <2>2, <3>1
  <2>3. CASE d \notin D
    <3>1. NamesIn(d)' = NamesIn(d)
      BY <1>1, <1>16, <2>3 DEF NamesIn
    <3>2. ~ DeletedIn(d, f)
      BY <1>8, <2>3 DEF DeletedIn
    <3>3. IsInjective(NamesIn(d)) /\ f \in ToSet(NamesIn(d)) => LiveIn(d, f)
      BY <1>2, <3>2 DEF Accounted
    <3> QED
      BY <1>16, <2>1, <3>1, <3>3
  <2> QED
    BY <2>2, <2>3
<1>19. Unused'
  <2> SUFFICES ASSUME NEW d \in Indexes, d > disk_file_index
               PROVE  deleted_files'[d] = <<>> /\ disk_files'[d] = <<>>
    BY <1>1 DEF Unused
  <2>1. deleted_files[d] = <<>> /\ disk_files[d] = <<>>
    BY <1>2 DEF Unused
  <2>2. d \notin D
    BY <1>4, <2>1
  <2>3. disk_files'[d] = disk_files[d]
    BY <1>6, <2>2
  <2> QED
    BY <1>1, <2>1, <2>3
<1>20. TableInv'
  BY <1>13, <1>15, <1>17, <1>18, <1>19 DEF TableInv
<1> QED
  BY <1>1, <1>11, <1>12, <1>20

(* A compaction that hangs changes nothing but that.                       *)
LEMMA HangKeeps ==
    ASSUME TableInv, dele_disk, process' = "hangs"
    PROVE  /\ TableInv'
           /\ bigtable' = bigtable /\ disk' = disk /\ memspace' = memspace
<1>1. process = "runs"
  BY DEF dele_disk
<1>2. /\ bigtable' = bigtable /\ disk' = disk /\ disk_files' = disk_files
      /\ deleted_files' = deleted_files /\ memspace' = memspace
      /\ mem_files' = mem_files /\ disk_file_index' = disk_file_index /\ puts' = puts
  BY <1>1 DEF dele_disk
<1>3. TableTypeOK' /\ Counted'
  BY CompactTypes DEF TableInv
<1> QED
  BY <1>2, <1>3 DEF TableInv

-----------------------------------------------------------------------------
(* Every file's metadata is its own and of the right form, and the disk    *)
(* files never run out of numbers, whatever a compaction does with a disk  *)
(* file that lists a name twice (put_helper, dele_file).                   *)
THEOREM TableTyped == TableSpec => []TableTypeOK
<1>1. TableInit => TableTypeOK /\ Counted
  BY TableStarts DEF TableInv
<1>2. TableTypeOK /\ Counted /\ [TableNext]_tableVars => TableTypeOK' /\ Counted'
  <2> SUFFICES ASSUME TableTypeOK, Counted, [TableNext]_tableVars
               PROVE  TableTypeOK' /\ Counted'
    OBVIOUS
  <2>1. ASSUME UNCHANGED tableVars PROVE TableTypeOK' /\ Counted'
    BY <2>1 DEF tableVars, TableTypeOK, Counted, exists
  <2> QED
    BY <2>1, DeleTypes, PutTypes, CompactTypes DEF TableNext
<1> QED
  BY <1>1, <1>2, PTL DEF TableSpec

LEMMA TableKeeps ==
    ASSUME Repeated = FALSE, TableInv, [TableNext]_tableVars
    PROVE  TableInv'
<1>1. ASSUME NEW f \in Files, dele(f) PROVE TableInv'
  BY <1>1, DeleKeeps
<1>2. ASSUME NEW f \in Files, NEW n \in Sizes, put(f, n) PROVE TableInv'
  <2>1. PutMemory(f, n) \/ PutDisk(f, n)
    BY <1>2 DEF put
  <2>2. CASE PutMemory(f, n)
    BY <1>2, <2>2, PutMemoryKeeps
  <2>3. CASE PutDisk(f, n) /\ process' = "aborted"
    BY <1>2, <2>3, AbortKeeps
  <2>4. CASE PutDisk(f, n) /\ process' # "aborted"
    BY <1>2, <2>4, FlushKeeps
  <2> QED
    BY <2>1, <2>2, <2>3, <2>4
<1>3. CASE dele_disk
  <2>1. CASE process' = "hangs"
    BY <1>3, <2>1, HangKeeps
  <2>2. CASE process' # "hangs"
    BY <1>3, <2>2, CompactKeeps
  <2> QED
    BY <2>1, <2>2
<1>4. CASE UNCHANGED tableVars
  <2>1. /\ bigtable' = bigtable /\ memspace' = memspace /\ mem_files' = mem_files
        /\ disk' = disk /\ disk_files' = disk_files /\ deleted_files' = deleted_files
        /\ disk_file_index' = disk_file_index /\ process' = process /\ puts' = puts
    BY <1>4 DEF tableVars
  <2> QED
    <3>1. TableTypeOK => TableTypeOK'
      BY <2>1 DEF TableTypeOK, exists
    <3>2. Counted => Counted'
      BY <2>1 DEF Counted
    <3>3. Placed => Placed'
      BY <2>1 DEF Placed, HasBytes, Holds, BytesOf, LastPut, exists
    <3>4. Named => Named'
      BY <2>1 DEF Named, exists
    <3>5. Accounted => Accounted'
      BY <2>1 DEF Accounted, NamesIn, LiveIn, DeletedIn, exists
    <3>6. Unused => Unused'
      BY <2>1 DEF Unused
    <3> QED
      BY <2>1, <3>1, <3>2, <3>3, <3>4, <3>5, <3>6 DEF TableInv
<1> QED
  BY <1>1, <1>2, <1>3, <1>4 DEF TableNext

(* The inductive invariant, when no disk file that lists a name twice is   *)
(* compacted: what the code does then is undefined (dele_file).            *)
THEOREM TableInvariant ==
    ASSUME Repeated = FALSE
    PROVE  TableSpec => []TableInv
<1>1. TableInv /\ [TableNext]_tableVars => TableInv'
  BY TableKeeps
<1> QED
  BY <1>1, TableStarts, PTL DEF TableSpec

LEMMA Reads ==
    ASSUME TableInv, process = "runs"
    PROVE  \A f \in Files : exists(f) => get(f) = Content(LastPut(f), bigtable[f].filesize)
BY GetIs DEF TableInv, Placed

(* While the server runs, a file reads as it was put last, in memory, on   *)
(* disk or moved by a compaction (get, put_helper, dele_file).             *)
THEOREM ReadableHolds ==
    ASSUME Repeated = FALSE
    PROVE  TableSpec => []Readable
<1>1. TableInv => Readable
  BY Reads DEF Readable, LastPut
<1> QED
  BY <1>1, TableInvariant, PTL

-----------------------------------------------------------------------------
(* The cell of a file, as the abstract table has it.                       *)
Cell(f) == IF exists(f) THEN get(f) ELSE Absent

LEMMA CellStays ==
    ASSUME bigtable' = bigtable, memspace' = memspace, NEW f \in Files,
           exists(f) => BytesOf(f)' = BytesOf(f)
    PROVE  Cell(f)' = Cell(f)
BY DEF Cell, get, exists, BytesOf

LEMMA ReadsNext ==
    ASSUME TableInv', process' = "runs"
    PROVE  \A f \in Files : exists(f)' => get(f)' = Content(LastPut(f)', bigtable'[f].filesize)
BY GetIsNext DEF TableInv, Placed

(* What a put that succeeds does to the cells.                             *)
LEMMA PutCells ==
    ASSUME TableInv, TableInv', process = "runs", process' = "runs",
           NEW f \in Files, NEW n \in Sizes, puts' = Append(puts, f),
           exists(f)', bigtable'[f].filesize = n,
           \A g \in Files \ {f} : exists(g)' <=> exists(g),
           \A g \in Files \ {f} : exists(g) => bigtable'[g].filesize = bigtable[g].filesize
    PROVE  /\ Cell(f)' = Content(Len(puts) + 1, n)
           /\ \A g \in Files \ {f} : Cell(g)' = Cell(g)
<1>1. TableTypeOK
  BY DEF TableInv
<1>2. LastPut(f)' = Len(puts) + 1 /\ \A g \in Files \ {f} : LastPut(g)' = LastPut(g)
  BY <1>1, LastPutNew
<1>3. Cell(f)' = Content(Len(puts) + 1, n)
  BY <1>2, ReadsNext DEF Cell
<1>4. ASSUME NEW g \in Files \ {f} PROVE Cell(g)' = Cell(g)
  <2>1. CASE exists(g)
    BY <1>2, <2>1, Reads, ReadsNext DEF Cell
  <2>2. CASE ~ exists(g)
    BY <2>2 DEF Cell
  <2> QED
    BY <2>1, <2>2
<1> QED
  BY <1>3, <1>4

(* Each step puts into one cell, deletes one or changes none.              *)
LEMMA CellsStep ==
    ASSUME Repeated = FALSE, TableInv, TableInv', [TableNext]_tableVars
    PROVE  \/ \E f \in Files : /\ Cell(f)' = Absent
                               /\ \A g \in Files \ {f} : Cell(g)' = Cell(g)
           \/ \E f \in Files, c \in TableContents :
                /\ Cell(f)' = c
                /\ \A g \in Files \ {f} : Cell(g)' = Cell(g)
           \/ \A g \in Files : Cell(g)' = Cell(g)
<1>1. ASSUME NEW f \in Files, dele(f)
      PROVE  /\ Cell(f)' = Absent
             /\ \A g \in Files \ {f} : Cell(g)' = Cell(g)
  <2>1. /\ bigtable' = [bigtable EXCEPT ![f] = Absent]
        /\ disk' = disk /\ memspace' = memspace
    BY <1>1 DEF dele
  <2>2. bigtable'[f] = Absent /\ \A g \in Files \ {f} : bigtable'[g] = bigtable[g]
    BY <2>1 DEF TableInv, TableTypeOK
  <2> QED
    BY <2>1, <2>2 DEF Cell, get, exists
<1>2. ASSUME NEW f \in Files, NEW n \in Sizes, put(f, n)
      PROVE  \/ /\ Cell(f)' = Content(Len(puts) + 1, n)
                /\ \A g \in Files \ {f} : Cell(g)' = Cell(g)
             \/ \A g \in Files : Cell(g)' = Cell(g)
  <2>1. /\ process = "runs" /\ puts' = Append(puts, f)
        /\ PutMemory(f, n) \/ PutDisk(f, n)
    BY <1>2 DEF put
  <2>2. CASE PutMemory(f, n)
    <3>1. process' = "runs"
      BY <2>1, <2>2 DEF PutMemory
    <3>2. /\ exists(f)' /\ bigtable'[f].filesize = n
          /\ \A g \in Files \ {f} : exists(g)' <=> exists(g)
          /\ \A g \in Files \ {f} : exists(g) => bigtable'[g].filesize = bigtable[g].filesize
      BY <1>2, <2>2, PutMemoryKeeps
    <3> QED
      BY <2>1, <3>1, <3>2, PutCells
  <2>3. CASE PutDisk(f, n) /\ process' = "aborted"
    <3>1. /\ bigtable' = bigtable /\ memspace' = memspace
          /\ \A g \in Files : exists(g) => BytesOf(g)' = BytesOf(g)
      BY <1>2, <2>3, AbortKeeps
    <3> QED
      BY <3>1, CellStays
  <2>4. CASE PutDisk(f, n) /\ process' # "aborted"
    <3>1. process' = "runs"
      BY <2>1, <2>4 DEF PutDisk
    <3>2. /\ exists(f)' /\ bigtable'[f].filesize = n
          /\ \A g \in Files \ {f} : exists(g)' <=> exists(g)
          /\ \A g \in Files \ {f} : exists(g) => bigtable'[g].filesize = bigtable[g].filesize
      BY <1>2, <2>4, FlushKeeps
    <3> QED
      BY <2>1, <3>1, <3>2, PutCells
  <2> QED
    BY <2>1, <2>2, <2>3, <2>4
<1>3. ASSUME NEW f \in Files, NEW n \in Sizes, put(f, n)
      PROVE  Content(Len(puts) + 1, n) \in TableContents
  <2>1. Len(puts) < MaxPuts /\ puts \in Seq(Files) /\ MaxPuts \in Nat
    BY <1>3, BigTableAssumption DEF put, TableInv, TableTypeOK
  <2>2. Len(puts) \in Nat
    BY <2>1
  <2>3. Len(puts) + 1 \in 1..MaxPuts
    BY <2>1, <2>2
  <2> QED
    BY <2>3 DEF TableContents
<1>4. ASSUME dele_disk PROVE \A g \in Files : Cell(g)' = Cell(g)
  <2>1. CASE process' = "hangs"
    <3>1. bigtable' = bigtable /\ disk' = disk /\ memspace' = memspace
      BY <1>4, <2>1, HangKeeps
    <3> QED
      BY <3>1, CellStays DEF BytesOf
  <2>2. CASE process' # "hangs"
    <3>1. /\ process = "runs" /\ puts' = puts
          /\ \A f \in Files : exists(f)' <=> exists(f)
          /\ \A f \in Files : exists(f) => bigtable'[f].filesize = bigtable[f].filesize
      BY <1>4, <2>2, CompactKeeps
    <3>2. process' = "runs"
      BY <1>4, <2>2, <3>1 DEF dele_disk
    <3>3. \A f \in Files : LastPut(f)' = LastPut(f)
      BY <3>1 DEF LastPut
    <3>4. ASSUME NEW g \in Files PROVE Cell(g)' = Cell(g)
      <4>1. CASE exists(g)
        BY <3>1, <3>2, <3>3, <4>1, Reads, ReadsNext DEF Cell
      <4>2. CASE ~ exists(g)
        BY <3>1, <4>2 DEF Cell
      <4> QED
        BY <4>1, <4>2
    <3> QED
      BY <3>4
  <2> QED
    BY <2>1, <2>2
<1>5. CASE UNCHANGED tableVars
  BY <1>5 DEF tableVars, Cell, get, exists
<1> QED
  BY <1>1, <1>2, <1>3, <1>4, <1>5 DEF TableNext

(* The big table is a table of cells: whether a file is in the buffer, on  *)
(* disk or moved there by a compaction, a reader sees what was put, and a  *)
(* server that dies of a put changes nothing (get, put_helper, dele,       *)
(* dele_disk).                                                             *)
THEOREM TableRefines ==
    ASSUME Repeated = FALSE
    PROVE  TableSpec => ImplementsKeyValue
<1>1. TableInit => Table!Init
  BY DEF TableInit, Table!Init, exists
<1>2. TableInv /\ TableInv' /\ [TableNext]_tableVars =>
          [Table!Next]_([f \in Files |-> IF exists(f) THEN get(f) ELSE Absent])
  <2> SUFFICES ASSUME TableInv, TableInv', [TableNext]_tableVars
               PROVE  [Table!Next]_([f \in Files |-> IF exists(f) THEN get(f) ELSE Absent])
    OBVIOUS
  <2>1. PICK x : x = [f \in Files |-> Cell(f)]
    OBVIOUS
  <2>2. PICK y : y = [f \in Files |-> Cell(f)']
    OBVIOUS
  <2>3. \/ \E f \in Files : y = [x EXCEPT ![f] = Absent]
        \/ \E f \in Files, c \in TableContents : y = [x EXCEPT ![f] = c]
        \/ y = x
    <3>1. ASSUME NEW f \in Files, NEW c, Cell(f)' = c,
                 \A g \in Files \ {f} : Cell(g)' = Cell(g)
          PROVE  y = [x EXCEPT ![f] = c]
      BY <2>1, <2>2, <3>1
    <3>2. ASSUME \A g \in Files : Cell(g)' = Cell(g) PROVE y = x
      BY <2>1, <2>2, <3>2
    <3>3. CASE \E f \in Files : /\ Cell(f)' = Absent
                               /\ \A g \in Files \ {f} : Cell(g)' = Cell(g)
      BY <3>1, <3>3
    <3>4. CASE \E f \in Files, c \in TableContents :
                  /\ Cell(f)' = c
                  /\ \A g \in Files \ {f} : Cell(g)' = Cell(g)
      BY <3>1, <3>4
    <3> QED
      BY <3>2, <3>3, <3>4, CellsStep
  <2>4. /\ x = [f \in Files |-> IF exists(f) THEN get(f) ELSE Absent]
        /\ y = [f \in Files |-> IF exists(f) THEN get(f) ELSE Absent]'
    BY <2>1, <2>2 DEF Cell
  <2> QED
    BY <2>3, <2>4 DEF Table!Next, Table!Put, Table!Dele
<1> QED
  BY <1>1, <1>2, TableInvariant, PTL DEF TableSpec, ImplementsKeyValue, Table!Spec

===============================================================================
