----------------------------- MODULE ListLemmas -----------------------------
(***************************************************************************)
(* What the lists of the program keep under its operations on them: append *)
(* and pop(0), list.remove and dict.pop, and comprehensions over lists,    *)
(* for lists of any length.                                                *)
(***************************************************************************)
EXTENDS SequencesExt, Integers, SequenceTheorems, FiniteSetTheorems, WellFoundedInduction,
        TLAPS

\* A set of numbers has a least one.
LEMMA LeastOf ==
  ASSUME NEW S, S \subseteq Nat, S # {}
  PROVE  Min(S) \in S /\ \A x \in S : Min(S) <= x
  <1> DEFINE R == OpToRel(<, Nat)
  <1>1. \A x, y \in Nat : ~(<< y, x >> \in R) => x <= y
    BY DEF OpToRel
  <1>2. IsWellFoundedOn(R, Nat)
    BY NatLessThanWellFounded
  <1> HIDE DEF R
  <1>3. PICK n \in S : \A m \in S : ~(<< m, n >> \in R)
    BY <1>2, WFMin
  <1>4. \A m \in S : n <= m
    BY <1>1, <1>3
  <1>5. QED
    BY <1>4 DEF Min

\* list.remove takes out the first of those equal to e, and moves up the others.
LEMMA RemoveFirstIs ==
  ASSUME NEW S, NEW s \in Seq(S), NEW e, Contains(s, e)
  PROVE  \E k \in 1..Len(s) :
           /\ s[k] = e /\ \A i \in 1..(k - 1) : s[i] # e
           /\ RemoveFirst(s, e) \in Seq(S)
           /\ Len(RemoveFirst(s, e)) = Len(s) - 1
           /\ \A i \in 1..(Len(s) - 1) :
                RemoveFirst(s, e)[i] = IF i < k THEN s[i] ELSE s[i + 1]
  <1> DEFINE I == {i \in 1..Len(s) : s[i] = e}
             k == Min(I)
             a == SubSeq(s, 1, k - 1)
             b == SubSeq(s, k + 1, Len(s))
  <1>1. I \subseteq Nat /\ I # {}
    BY DEF Contains
  <1>2. k \in I /\ \A i \in I : k <= i
    <2> HIDE DEF I
    <2>1. QED BY <1>1, LeastOf
  <1>3. RemoveFirst(s, e) = a \o b
    BY <1>1 DEF RemoveFirst, RemoveAt, SelectInSeq, Contains
  <1> HIDE DEF k
  <1>4. k \in 1..Len(s) /\ s[k] = e /\ \A i \in 1..(k - 1) : s[i] # e
    BY <1>2
  <1> HIDE DEF I
  <1>5. a \in Seq(S) /\ Len(a) = k - 1 /\ \A i \in 1..(k - 1) : a[i] = s[i]
    BY <1>4, SubSeqProperties
  <1>6. b \in Seq(S) /\ Len(b) = Len(s) - k /\ \A i \in 1..(Len(s) - k) : b[i] = s[k + i]
    <2>1. k + 1 \in Int /\ Len(s) \in Int /\ \A i \in (k + 1)..Len(s) : s[i] \in S
      BY <1>4
    <2>2. /\ b \in Seq(S) /\ Len(b) = IF k + 1 <= Len(s) THEN Len(s) - (k + 1) + 1 ELSE 0
          /\ \A i \in 1..(Len(s) - (k + 1) + 1) : b[i] = s[(k + 1) + i - 1]
      BY <2>1, SubSeqProperties
    <2>3. \A i \in 1..(Len(s) - k) : i \in 1..(Len(s) - (k + 1) + 1) /\ (k + 1) + i - 1 = k + i
      BY <1>4
    <2>4. Len(b) = Len(s) - k
      BY <1>4, <2>2
    <2>5. QED
      BY <2>2, <2>3, <2>4
  <1> HIDE DEF a, b
  <1>7. a \o b \in Seq(S) /\ Len(a \o b) = Len(s) - 1
    <2>1. a \o b \in Seq(S) /\ Len(a \o b) = Len(a) + Len(b)
      BY <1>5, <1>6, ConcatProperties
    <2>2. (k - 1) + (Len(s) - k) = Len(s) - 1
      BY <1>4
    <2>3. QED
      BY <1>5, <1>6, <2>1, <2>2
  <1>8. ASSUME NEW i \in 1..(Len(s) - 1)
        PROVE  (a \o b)[i] = IF i < k THEN s[i] ELSE s[i + 1]
    <2>1. (a \o b)[i] = IF i <= k - 1 THEN a[i] ELSE b[i - (k - 1)]
      BY <1>4, <1>5, <1>6, ConcatProperties
    <2>2. CASE i < k
      BY <2>1, <2>2, <1>4, <1>5
    <2>3. CASE ~(i < k)
      <3> DEFINE j == i - (k - 1)
      <3>1. j \in 1..(Len(s) - k) /\ k + j = i + 1 /\ ~(i <= k - 1)
        BY <2>3, <1>4
      <3>2. QED
        BY <2>1, <2>3, <3>1, <1>6
    <2>4. QED
      BY <2>2, <2>3
  <1> QED
    BY <1>3, <1>4, <1>7, <1>8

\* In a list without repetitions it takes out e and nothing else.
LEMMA RemoveFirstKeeps ==
  ASSUME NEW S, NEW s \in Seq(S), IsInjective(s), NEW e
  PROVE  /\ RemoveFirst(s, e) \in Seq(S) /\ IsInjective(RemoveFirst(s, e))
         /\ \A x : Contains(RemoveFirst(s, e), x) <=> Contains(s, x) /\ x # e
         /\ Len(RemoveFirst(s, e)) <= Len(s)
  <1>1. CASE ~Contains(s, e)
    <2>1. RemoveFirst(s, e) = s
      BY <1>1 DEF RemoveFirst, Contains
    <2>2. QED
      BY <1>1, <2>1 DEF Contains
  <1>2. CASE Contains(s, e)
    <2> DEFINE r == RemoveFirst(s, e)
    <2>1. PICK k \in 1..Len(s) :
            /\ s[k] = e /\ r \in Seq(S) /\ Len(r) = Len(s) - 1
            /\ \A i \in 1..(Len(s) - 1) : r[i] = IF i < k THEN s[i] ELSE s[i + 1]
      BY <1>2, RemoveFirstIs
    <2> HIDE DEF r
    <2>2. \A i, j \in 1..Len(s) : s[i] = s[j] => i = j
      BY DEF IsInjective
    <2>3. \A i \in 1..Len(r) : /\ i \in 1..(Len(s) - 1) /\ i + 1 \in 1..Len(s) /\ i \in 1..Len(s)
                              /\ r[i] = IF i < k THEN s[i] ELSE s[i + 1]
      BY <2>1
    <2>4. \A i, j \in 1..Len(r) : r[i] = r[j] => i = j
      BY <2>1, <2>2, <2>3
    <2>5. \A i \in 1..Len(r) : r[i] # e
      BY <2>1, <2>2, <2>3
    <2>6. \A i \in 1..Len(s) : s[i] # e => \E j \in 1..Len(r) : r[j] = s[i]
      <3>1. SUFFICES ASSUME NEW i \in 1..Len(s), s[i] # e
                     PROVE  \E j \in 1..Len(r) : r[j] = s[i]
        OBVIOUS
      <3>2. i # k
        BY <2>1, <3>1
      <3>3. CASE i < k
        <4>1. i \in 1..(Len(s) - 1) /\ i \in 1..Len(r)
          BY <2>1, <3>3
        <4>2. QED
          BY <2>1, <3>3, <4>1
      <3>4. CASE k < i
        <4>1. i - 1 \in 1..(Len(s) - 1) /\ ~(i - 1 < k) /\ (i - 1) + 1 = i /\ i - 1 \in 1..Len(r)
          BY <2>1, <3>4
        <4>2. r[i - 1] = s[i]
          BY <2>1, <4>1
        <4>3. QED
          BY <4>1, <4>2
      <3>5. QED
        BY <2>1, <3>2, <3>3, <3>4
    <2>7. \A x : Contains(r, x) <=> Contains(s, x) /\ x # e
      BY <2>3, <2>5, <2>6 DEF Contains
    <2>8. IsInjective(r)
      BY <2>1, <2>4 DEF IsInjective
    <2>9. QED
      BY <2>1, <2>7, <2>8 DEF r
  <1>3. QED
    BY <1>1, <1>2

\* A list without repetitions has at most as many members as there are.
LEMMA InjectiveLength ==
  ASSUME NEW S, IsFiniteSet(S), NEW s \in Seq(S), IsInjective(s)
  PROVE  Len(s) <= Cardinality(S)
  <1>1. s \in [1..Len(s) -> S] /\ \A i, j \in 1..Len(s) : s[i] = s[j] => i = j
    BY DEF IsInjective
  <1>2. Cardinality(1..Len(s)) = Len(s) /\ IsFiniteSet(1..Len(s))
    <2>1. 1 \in Int /\ Len(s) \in Int /\ Len(s) >= 0
      OBVIOUS
    <2>2. Cardinality(1..Len(s)) = IF 1 > Len(s) THEN 0 ELSE Len(s) - 1 + 1
      BY <2>1, FS_Interval
    <2>3. QED
      BY <2>1, <2>2, FS_Interval
  <1>3. QED
    BY <1>1, <1>2, FS_Injection, FS_CardinalityType DEF ExistsInjection, Injection

\* What is in the list with one element more.
LEMMA AppendContains ==
  ASSUME NEW S, NEW s \in Seq(S), NEW e
  PROVE  \A x : Contains(Append(s, e), x) <=> Contains(s, x) \/ x = e
  <1>1. /\ Len(Append(s, e)) = Len(s) + 1 /\ Append(s, e)[Len(s) + 1] = e
        /\ \A i \in 1..Len(s) : Append(s, e)[i] = s[i]
    <2>1. s \in Seq(S \cup {e}) /\ e \in S \cup {e}
      OBVIOUS
    <2>2. QED
      BY <2>1, AppendProperties
  <1>2. \A i : i \in 1..(Len(s) + 1) <=> i \in 1..Len(s) \/ i = Len(s) + 1
    OBVIOUS
  <1>3. QED
    BY <1>1, <1>2 DEF Contains

\* The members of a list, as a set.
LEMMA ToSetContains ==
  ASSUME NEW S, NEW s \in Seq(S)
  PROVE  ToSet(s) \subseteq S /\ \A x : Contains(s, x) <=> x \in ToSet(s)
  BY DEF ToSet, Contains

\* What is in the list without its first element.
LEMMA TailContains ==
  ASSUME NEW S, NEW s \in Seq(S), s # << >>
  PROVE  /\ Tail(s) \in Seq(S) /\ Head(s) \in S
         /\ \A x : Contains(s, x) <=> x = Head(s) \/ Contains(Tail(s), x)
  <1>1. /\ Tail(s) \in Seq(S) /\ Head(s) \in S /\ Head(s) = s[1] /\ Len(Tail(s)) = Len(s) - 1
        /\ 1 \in 1..Len(s) /\ Len(s) \in Nat
        /\ \A i \in 1..Len(Tail(s)) : Tail(s)[i] = s[i + 1]
    OBVIOUS
  <1>2. \A i \in 1..Len(s) : i = 1 \/ \E j \in 1..Len(Tail(s)) : i = j + 1
    <2>1. \A i \in 1..Len(s) : i = 1 \/ (i - 1 \in 1..Len(Tail(s)) /\ i = (i - 1) + 1)
      BY <1>1
    <2>2. QED
      BY <2>1
  <1>3. \A j \in 1..Len(Tail(s)) : j + 1 \in 1..Len(s)
    BY <1>1
  <1>4. QED
    BY <1>1, <1>2, <1>3 DEF Contains

\* One that is not in the list yet may be appended to a list without repetitions.
LEMMA AppendKeeps ==
  ASSUME NEW S, NEW s \in Seq(S), IsInjective(s), NEW e \in S, ~Contains(s, e)
  PROVE  Append(s, e) \in Seq(S) /\ IsInjective(Append(s, e))
  <1> DEFINE t == Append(s, e)
  <1>1. /\ t \in Seq(S) /\ Len(t) = Len(s) + 1 /\ t[Len(s) + 1] = e
        /\ \A i \in 1..Len(s) : t[i] = s[i] /\ s[i] # e
    BY DEF Contains
  <1> HIDE DEF t
  <1>2. \A i, j \in 1..Len(s) : s[i] = s[j] => i = j
    BY DEF IsInjective
  <1>3. \A i \in 1..Len(t) : i \in 1..Len(s) \/ i = Len(s) + 1
    BY <1>1
  <1>4. \A i, j \in 1..Len(t) : t[i] = t[j] => i = j
    BY <1>1, <1>2, <1>3
  <1>5. IsInjective(t)
    BY <1>1, <1>4 DEF IsInjective
  <1>6. QED
    BY <1>1, <1>5 DEF t

-----------------------------------------------------------------------------
(* Who comes first                                                         *)

\* An x in list s comes before a y in it.
Before(s, x, y) == \E i, j \in 1..Len(s) : i < j /\ s[i] = x /\ s[j] = y

\* What is appended comes after all that was there.
LEMMA AppendBefore ==
  ASSUME NEW S, NEW s \in Seq(S), NEW e
  PROVE  /\ \A x, y : Before(s, x, y) => Before(Append(s, e), x, y)
         /\ \A x : Contains(s, x) => Before(Append(s, e), x, e)
  <1> DEFINE t == Append(s, e)
  <1>1. /\ Len(t) = Len(s) + 1 /\ t[Len(s) + 1] = e
        /\ \A i \in 1..Len(s) : t[i] = s[i]
    <2>1. s \in Seq(S \cup {e}) /\ e \in S \cup {e}
      OBVIOUS
    <2>2. QED
      BY <2>1, AppendProperties
  <1> HIDE DEF t
  <1>2. \A i \in 1..Len(s) : i \in 1..Len(t) /\ i < Len(s) + 1 /\ Len(s) + 1 \in 1..Len(t)
    BY <1>1
  <1>3. QED
    BY <1>1, <1>2 DEF Before, Contains, t

\* The first of a list comes before the others; without it, they keep their order.
LEMMA TailBefore ==
  ASSUME NEW S, NEW s \in Seq(S), s # << >>, IsInjective(s)
  PROVE  /\ IsInjective(Tail(s)) /\ ~Contains(Tail(s), Head(s))
         /\ \A x : ~Before(s, x, Head(s))
         /\ \A x, y : Before(s, x, y) /\ x # Head(s) => Before(Tail(s), x, y)
  <1> DEFINE t == Tail(s)
  <1>1. /\ Head(s) = s[1] /\ Len(t) = Len(s) - 1 /\ 1 \in 1..Len(s) /\ Len(s) \in Nat
        /\ \A i \in 1..Len(t) : t[i] = s[i + 1] /\ i + 1 \in 1..Len(s)
    OBVIOUS
  <1> HIDE DEF t
  <1>2. \A i, j \in 1..Len(s) : s[i] = s[j] => i = j
    BY DEF IsInjective
  <1>3. IsInjective(t)
    <2>1. \A i, j \in 1..Len(t) : t[i] = t[j] => i = j
      BY <1>1, <1>2
    <2>2. QED
      BY <2>1 DEF IsInjective
  <1>4. ~Contains(t, Head(s))
    BY <1>1, <1>2 DEF Contains
  <1>5. \A x : ~Before(s, x, Head(s))
    <2>1. \A i, j \in 1..Len(s) : i < j => s[j] # s[1]
      BY <1>1, <1>2
    <2>2. QED
      BY <1>1, <2>1 DEF Before
  <1>6. ASSUME NEW x, NEW y, Before(s, x, y), x # Head(s)
        PROVE  Before(t, x, y)
    <2>1. PICK i \in 1..Len(s), j \in 1..Len(s) : i < j /\ s[i] = x /\ s[j] = y
      BY <1>6 DEF Before
    <2>2. /\ i - 1 \in 1..Len(t) /\ j - 1 \in 1..Len(t) /\ i - 1 < j - 1
          /\ (i - 1) + 1 = i /\ (j - 1) + 1 = j
      BY <1>1, <1>6, <2>1
    <2>3. t[i - 1] = x /\ t[j - 1] = y
      BY <1>1, <2>1, <2>2
    <2>4. QED
      BY <2>2, <2>3 DEF Before
  <1>7. QED
    BY <1>3, <1>4, <1>5, <1>6 DEF t

\* list.remove leaves the others in their order.
LEMMA RemoveFirstBefore ==
  ASSUME NEW S, NEW s \in Seq(S), NEW e, NEW x, NEW y, x # e, y # e, Before(s, x, y)
  PROVE  Before(RemoveFirst(s, e), x, y)
  <1> DEFINE r == RemoveFirst(s, e)
  <1>1. CASE ~Contains(s, e)
    BY <1>1 DEF RemoveFirst, Contains
  <1>2. CASE Contains(s, e)
    <2>1. PICK k \in 1..Len(s) :
            /\ s[k] = e /\ Len(r) = Len(s) - 1
            /\ \A i \in 1..(Len(s) - 1) : r[i] = IF i < k THEN s[i] ELSE s[i + 1]
      BY <1>2, RemoveFirstIs
    <2>2. PICK i \in 1..Len(s), j \in 1..Len(s) : i < j /\ s[i] = x /\ s[j] = y
      BY DEF Before
    <2> HIDE DEF r
    <2> DEFINE down(n) == IF n < k THEN n ELSE n - 1
    <2>3. i # k /\ j # k /\ Len(s) \in Nat
      BY <2>1, <2>2
    <2>4. \A n \in 1..Len(s) : n # k => down(n) \in 1..(Len(s) - 1) /\ r[down(n)] = s[n]
      <3>1. SUFFICES ASSUME NEW n \in 1..Len(s), n # k
                     PROVE  down(n) \in 1..(Len(s) - 1) /\ r[down(n)] = s[n]
        OBVIOUS
      <3>2. CASE n < k
        <4>1. n \in 1..(Len(s) - 1)
          BY <3>2
        <4>2. QED
          BY <2>1, <3>2, <4>1
      <3>3. CASE k < n
        <4>1. n - 1 \in 1..(Len(s) - 1) /\ ~(n - 1 < k) /\ (n - 1) + 1 = n /\ ~(n < k)
          BY <3>3
        <4>2. r[n - 1] = s[n]
          BY <2>1, <4>1
        <4>3. QED
          BY <4>1, <4>2
      <3>4. QED
        BY <3>1, <3>2, <3>3
    <2>5. down(i) < down(j)
      BY <2>2, <2>3
    <2>6. down(i) \in 1..Len(r) /\ r[down(i)] = x /\ down(j) \in 1..Len(r) /\ r[down(j)] = y
      BY <2>1, <2>2, <2>3, <2>4
    <2>7. Before(r, x, y)
      <3> HIDE DEF down
      <3>1. QED BY <2>5, <2>6 DEF Before
    <2>8. QED
      BY <2>7 DEF r
  <1>3. QED
    BY <1>1, <1>2

\* Where the blocks of a flattened list lie in it: block i behind position off[i].
Blocks(f, seqs, n, off) ==
  /\ off \in [1..(n + 1) -> Nat] /\ off[1] = 0 /\ off[n + 1] = Len(f)
  /\ \A i \in 1..n : off[i + 1] = off[i] + Len(seqs[i])
  /\ \A i, j \in 1..(n + 1) : i <= j => off[i] <= off[j]
  /\ \A i \in 1..n : \A k \in 1..Len(seqs[i]) : f[off[i] + k] = seqs[i][k]
  /\ \A j \in 1..Len(f) : \E i \in 1..n : \E k \in 1..Len(seqs[i]) : j = off[i] + k

\* One block more.
LEMMA BlocksStep ==
  ASSUME NEW S, NEW seqs \in Seq(Seq(S)), NEW n \in 1..Len(seqs), NEW f \in Seq(S), NEW off,
         Blocks(f, seqs, n - 1, off)
  PROVE  /\ f \o seqs[n] \in Seq(S)
         /\ \E b : Blocks(f \o seqs[n], seqs, n, b)
  <1> DEFINE t == seqs[n]
             g == f \o t
             b == [i \in 1..(n + 1) |-> IF i <= n THEN off[i] ELSE off[n] + Len(t)]
  <1>0. /\ n \in Nat /\ n >= 1 /\ (n - 1) + 1 = n /\ t \in Seq(S)
        /\ Len(t) \in Nat /\ Len(f) \in Nat
        /\ \A i \in 1..n : seqs[i] \in Seq(S) /\ Len(seqs[i]) \in Nat
    OBVIOUS
  <1>1. /\ off \in [1..n -> Nat] /\ off[1] = 0 /\ off[n] = Len(f)
        /\ \A i \in 1..(n - 1) : off[i + 1] = off[i] + Len(seqs[i])
        /\ \A i, j \in 1..n : i <= j => off[i] <= off[j]
        /\ \A i \in 1..(n - 1) : \A k \in 1..Len(seqs[i]) : f[off[i] + k] = seqs[i][k]
        /\ \A j \in 1..Len(f) : \E i \in 1..(n - 1) : \E k \in 1..Len(seqs[i]) : j = off[i] + k
    BY <1>0 DEF Blocks
  <1>2. /\ g \in Seq(S) /\ Len(g) = Len(f) + Len(t)
        /\ \A i \in 1..(Len(f) + Len(t)) : g[i] = IF i <= Len(f) THEN f[i] ELSE t[i - Len(f)]
    BY <1>0, ConcatProperties
  <1>t. t = seqs[n]
    OBVIOUS
  <1> HIDE DEF g, t
  <1>3. /\ b \in [1..(n + 1) -> Nat] /\ b[n + 1] = Len(f) + Len(t)
        /\ \A i \in 1..n : b[i] = off[i]
    BY <1>0, <1>1
  <1> HIDE DEF b
  <1>4. \A i \in 1..n : b[i + 1] = b[i] + Len(seqs[i])
    <2>1. SUFFICES ASSUME NEW i \in 1..n
                   PROVE  b[i + 1] = b[i] + Len(seqs[i])
      OBVIOUS
    <2>2. CASE i = n
      BY <1>1, <1>3, <1>t, <2>2, <1>0
    <2>3. CASE i # n
      <3>1. i \in 1..(n - 1) /\ i + 1 \in 1..n
        BY <1>0, <2>3
      <3>2. QED
        BY <3>1, <1>1, <1>3
    <2>4. QED
      BY <2>2, <2>3
  <1>5. \A i, j \in 1..(n + 1) : i <= j => b[i] <= b[j]
    <2>1. SUFFICES ASSUME NEW i \in 1..(n + 1), NEW j \in 1..(n + 1), i <= j
                   PROVE  b[i] <= b[j]
      OBVIOUS
    <2>2. CASE j = n + 1
      <3>1. CASE i = n + 1
        BY <2>2, <3>1, <1>3, <1>0
      <3>2. CASE i # n + 1
        <4>1. i \in 1..n /\ n \in 1..n /\ i <= n
          BY <3>2, <1>0
        <4>2. off[i] <= off[n] /\ off[i] \in Nat
          BY <4>1, <1>1
        <4>3. QED
          BY <4>1, <4>2, <2>2, <1>1, <1>3, <1>0
      <3>3. QED
        BY <3>1, <3>2
    <2>3. CASE j # n + 1
      <3>1. i \in 1..n /\ j \in 1..n
        BY <2>1, <2>3, <1>0
      <3>2. QED
        BY <3>1, <1>1, <1>3, <2>1
    <2>4. QED
      BY <2>2, <2>3
  <1>6. \A i \in 1..n : \A k \in 1..Len(seqs[i]) : g[b[i] + k] = seqs[i][k]
    <2>1. SUFFICES ASSUME NEW i \in 1..n, NEW k \in 1..Len(seqs[i])
                   PROVE  g[b[i] + k] = seqs[i][k]
      OBVIOUS
    <2>2. CASE i = n
      <3>1. b[i] = Len(f) /\ k \in 1..Len(t)
        BY <1>1, <1>3, <1>t, <2>2
      <3>2. /\ Len(f) + k \in 1..(Len(f) + Len(t)) /\ ~(Len(f) + k <= Len(f))
            /\ (Len(f) + k) - Len(f) = k
        BY <3>1, <1>0
      <3>3. QED
        BY <3>1, <3>2, <1>2, <1>t, <2>2
    <2>3. CASE i # n
      <3>1. i \in 1..(n - 1) /\ i + 1 \in 1..n /\ n \in 1..n /\ i + 1 <= n
        BY <1>0, <2>3
      <3>2. /\ b[i] = off[i] /\ f[off[i] + k] = seqs[i][k] /\ off[i + 1] = off[i] + Len(seqs[i])
            /\ off[i + 1] <= off[n] /\ off[i] \in Nat
        BY <3>1, <1>1, <1>3, <2>1
      <3>3. off[i] + k \in 1..(Len(f) + Len(t)) /\ off[i] + k <= Len(f)
        <4>1. Len(seqs[i]) \in Nat /\ k \in Nat /\ k >= 1 /\ k <= Len(seqs[i])
          BY <1>0, <2>1
        <4>2. off[i] + k <= off[i + 1]
          BY <4>1, <3>2, SMTT(40)
        <4>3. off[i + 1] <= Len(f) /\ off[i + 1] \in Nat
          BY <3>1, <3>2, <1>1
        <4>4. off[i] + k <= Len(f) /\ off[i] + k >= 1 /\ off[i] + k \in Nat
          <5>1. off[i] \in Nat /\ k \in Nat /\ k >= 1 /\ Len(f) \in Nat
            BY <4>1, <3>2, <1>0
          <5>2. PICK p \in Nat, q \in Nat : p = off[i] /\ q = off[i + 1]
            BY <5>1, <4>3
          <5>3. p + k <= q /\ q <= Len(f)
            BY <5>2, <4>2, <4>3
          <5>4. p + k <= Len(f) /\ p + k >= 1 /\ p + k \in Nat
            BY <5>1, <5>3
          <5>5. QED
            BY <5>2, <5>4
        <4>5. QED
          BY <4>4, <1>0
      <3>4. QED
        BY <3>2, <3>3, <1>2
    <2>4. QED
      BY <2>2, <2>3
  <1>7. \A j \in 1..Len(g) : \E i \in 1..n : \E k \in 1..Len(seqs[i]) : j = b[i] + k
    <2>1. SUFFICES ASSUME NEW j \in 1..Len(g)
                   PROVE  \E i \in 1..n : \E k \in 1..Len(seqs[i]) : j = b[i] + k
      OBVIOUS
    <2>2. CASE j <= Len(f)
      <3>1. PICK i \in 1..(n - 1) : \E k \in 1..Len(seqs[i]) : j = off[i] + k
        <4>1. j \in 1..Len(f)
          BY <2>1, <2>2, <1>0, <1>2
        <4>2. QED
          BY <4>1, <1>1
      <3>2. i \in 1..n
        BY <1>0
      <3>3. QED
        BY <3>1, <3>2, <1>3
    <2>3. CASE ~(j <= Len(f))
      <3>1. j - Len(f) \in 1..Len(t) /\ j = Len(f) + (j - Len(f))
        BY <2>1, <2>3, <1>0, <1>2
      <3>2. b[n] = Len(f) /\ n \in 1..n
        BY <1>0, <1>1, <1>3
      <3>3. QED
        BY <3>1, <3>2, <1>t
    <2>4. QED
      BY <2>2, <2>3
  <1>8. Blocks(g, seqs, n, b)
    BY <1>0, <1>1, <1>2, <1>3, <1>4, <1>5, <1>6, <1>7 DEF Blocks
  <1>9. QED
    BY <1>2, <1>8 DEF g, t

\* The recursive function in FlattenSeq exists: one for every prefix, so one for the whole.
LEMMA FlattenFunction ==
  ASSUME NEW S, NEW seqs \in Seq(Seq(S))
  PROVE  \A m \in 1..Len(seqs) : \E g :
           g = [i \in 1..m |-> IF i = 1 THEN seqs[i] ELSE g[i - 1] \o seqs[i]]
  <1> DEFINE Is(g, m) == g = [i \in 1..m |-> IF i = 1 THEN seqs[i] ELSE g[i - 1] \o seqs[i]]
             Found(n) == \E g : Is(g, n)
             Bad == {n \in 1..Len(seqs) : ~Found(n)}
             m == Min(Bad)
  <1>1. SUFFICES ASSUME Bad # {} PROVE FALSE
    <2>1. SUFFICES ASSUME NEW n \in 1..Len(seqs) PROVE Found(n)
      OBVIOUS
    <2> HIDE DEF Found
    <2>2. QED
      OBVIOUS
  <1>2. m \in Bad /\ \A x \in Bad : m <= x
    <2>1. Bad \subseteq Nat
      <3> HIDE DEF Found
      <3>1. QED OBVIOUS
    <2> HIDE DEF Bad
    <2>2. QED
      BY <1>1, <2>1, LeastOf
  <1> HIDE DEF m
  <1>3. m \in 1..Len(seqs) /\ ~Found(m) /\ m \in Nat /\ m >= 1
    <2> HIDE DEF Found
    <2>1. QED BY <1>2
  <1>4. CASE m = 1
    <2> DEFINE h == [i \in 1..1 |-> seqs[1]]
    <2>1. \A i \in 1..1 : i = 1
      OBVIOUS
    <2>2. Is(h, 1)
      BY <2>1
    <2>3. QED
      BY <1>3, <1>4, <2>2
  <1>5. CASE m # 1
    <2>1. m - 1 \in 1..Len(seqs) /\ ~(m <= m - 1)
      BY <1>3, <1>5
    <2>2. Found(m - 1)
      <3> HIDE DEF Found
      <3>1. QED BY <2>1, <1>2
    <2>3. PICK g : Is(g, m - 1)
      BY <2>2
    <2> DEFINE h == [i \in 1..m |-> IF i < m THEN g[i] ELSE g[m - 1] \o seqs[m]]
    <2>4. \A i \in 1..(m - 1) : g[i] = IF i = 1 THEN seqs[i] ELSE g[i - 1] \o seqs[i]
      BY <2>3
    <2>5. \A i \in 1..m : h[i] = IF i = 1 THEN seqs[i] ELSE h[i - 1] \o seqs[i]
      <3>1. SUFFICES ASSUME NEW i \in 1..m
                     PROVE  h[i] = IF i = 1 THEN seqs[i] ELSE h[i - 1] \o seqs[i]
        OBVIOUS
      <3>2. CASE i = m
        <4>1. m - 1 \in 1..m /\ m - 1 < m /\ m \in 1..m /\ ~(m < m) /\ i # 1
          BY <1>3, <1>5, <3>2
        <4>2. h[m - 1] = g[m - 1] /\ h[m] = g[m - 1] \o seqs[m]
          BY <4>1
        <4>3. QED
          BY <3>2, <4>1, <4>2
      <3>3. CASE i # m /\ i # 1
        <4>1. i \in 1..(m - 1) /\ i < m /\ i - 1 \in 1..m /\ i - 1 < m
          BY <3>1, <3>3, <1>3
        <4>2. h[i] = g[i] /\ h[i - 1] = g[i - 1]
          BY <4>1
        <4>3. QED
          BY <3>3, <4>1, <4>2, <2>4
      <3>4. CASE i # m /\ i = 1
        <4>1. i \in 1..(m - 1) /\ i < m
          BY <3>1, <3>4, <1>3
        <4>2. h[i] = g[i]
          BY <4>1
        <4>3. QED
          BY <3>4, <4>1, <4>2, <2>4
      <3>5. QED
        BY <3>2, <3>3, <3>4
    <2>6. h = [i \in 1..m |-> h[i]]
      OBVIOUS
    <2> HIDE DEF h
    <2>7. Is(h, m)
      BY <2>5, <2>6
    <2>8. QED
      BY <1>3, <2>7
  <1>6. QED
    BY <1>4, <1>5

\* What a flattened list is: its blocks one after the other, and nothing else.
LEMMA FlattenIs ==
  ASSUME NEW S, NEW seqs \in Seq(Seq(S))
  PROVE  FlattenSeq(seqs) \in Seq(S) /\ \E off : Blocks(FlattenSeq(seqs), seqs, Len(seqs), off)
  <1>1. CASE Len(seqs) = 0
    <2>1. FlattenSeq(seqs) = << >> /\ << >> \in Seq(S) /\ Len(<< >>) = 0
      BY <1>1 DEF FlattenSeq
    <2> DEFINE off == [i \in 1..(0 + 1) |-> 0]
    <2>2. Blocks(<< >>, seqs, 0, off)
      BY <2>1 DEF Blocks
    <2>3. QED
      BY <1>1, <2>1, <2>2
  <1>2. CASE Len(seqs) # 0
    <2> DEFINE n == Len(seqs)
               Is(g) == g = [i \in 1..n |-> IF i = 1 THEN seqs[i] ELSE g[i - 1] \o seqs[i]]
               f == CHOOSE g : Is(g)
    <2>1. n \in Nat /\ n >= 1 /\ n \in 1..n
      BY <1>2
    <2>2. \E g : Is(g)
      BY <2>1, FlattenFunction
    <2>3. Is(f)
      <3> HIDE DEF Is
      <3>1. QED BY <2>2
    <2>4. FlattenSeq(seqs) = f[n]
      BY <1>2 DEF FlattenSeq
    <2>5. \A i \in 1..n : f[i] = IF i = 1 THEN seqs[i] ELSE f[i - 1] \o seqs[i]
      <3> HIDE DEF f
      <3>1. QED BY <2>3
    <2> HIDE DEF f, Is
    <2> DEFINE Good(m) == f[m] \in Seq(S) /\ \E off : Blocks(f[m], seqs, m, off)
               Bad == {m \in 1..n : ~Good(m)}
               m == Min(Bad)
    <2>6. ASSUME Bad # {} PROVE FALSE
      <3>1. m \in Bad /\ \A x \in Bad : m <= x
        <4>1. Bad \subseteq Nat
          OBVIOUS
        <4> HIDE DEF Bad
        <4>2. QED
          BY <2>6, <4>1, LeastOf
      <3> HIDE DEF m
      <3>2. m \in 1..n /\ ~Good(m) /\ m \in Nat /\ m >= 1
        BY <3>1, <2>1
      <3>3. CASE m = 1
        <4>1. f[1] = seqs[1] /\ seqs[1] \in Seq(S) /\ << >> \in Seq(S) /\ 1 \in 1..n
          BY <2>1, <2>5
        <4> DEFINE off == [i \in 1..1 |-> 0]
        <4>2. Blocks(<< >>, seqs, 1 - 1, off)
          BY DEF Blocks
        <4>3. << >> \o seqs[1] = seqs[1]
          BY <4>1, ConcatEmptySeq
        <4>4. << >> \o seqs[1] \in Seq(S) /\ \E b : Blocks(<< >> \o seqs[1], seqs, 1, b)
          <5> HIDE DEF off
          <5>1. QED BY <4>1, <4>2, BlocksStep
        <4>5. Good(1)
          BY <4>1, <4>3, <4>4
        <4>6. QED
          BY <3>2, <3>3, <4>5
      <3>4. CASE m # 1
        <4>1. m - 1 \in 1..n /\ ~(m <= m - 1)
          BY <3>2, <3>4, <2>1
        <4>2. Good(m - 1)
          BY <4>1, <3>1
        <4>3. PICK off : Blocks(f[m - 1], seqs, m - 1, off)
          BY <4>2
        <4>4. f[m - 1] \in Seq(S) /\ f[m] = f[m - 1] \o seqs[m]
          BY <4>2, <3>2, <3>4, <2>5
        <4>5. PICK g : g = f[m - 1]
          OBVIOUS
        <4>6. g \in Seq(S) /\ Blocks(g, seqs, m - 1, off) /\ f[m] = g \o seqs[m]
          BY <4>3, <4>4, <4>5
        <4>7. g \o seqs[m] \in Seq(S) /\ \E b : Blocks(g \o seqs[m], seqs, m, b)
          BY <4>6, <3>2, BlocksStep
        <4>8. Good(m)
          BY <4>6, <4>7
        <4>9. QED
          BY <3>2, <4>8
      <3>5. QED
        BY <3>3, <3>4
    <2>7. Good(n)
      BY <2>1, <2>6
    <2>8. QED
      BY <2>4, <2>7
  <1>3. QED
    BY <1>1, <1>2

\* A bounded set of numbers has a greatest one.
LEMMA GreatestOf ==
  ASSUME NEW n \in Nat, NEW S \in SUBSET (0..n), S # {}
  PROVE  Max(S) \in S /\ \A x \in S : x <= Max(S)
  <1> DEFINE R == {k \in 0..n : n - k \in S}
             r == Min(R)
  <1>1. R \subseteq Nat /\ R # {}
    <2>1. PICK x \in S : TRUE
      OBVIOUS
    <2>2. x \in 0..n /\ n - x \in 0..n /\ n - (n - x) = x
      OBVIOUS
    <2>3. n - x \in R
      BY <2>1, <2>2
    <2>4. R \subseteq Nat
      OBVIOUS
    <2>5. QED
      <3> HIDE DEF R
      <3>1. QED BY <2>3, <2>4
  <1>2. r \in R /\ \A k \in R : r <= k
    <2> HIDE DEF R
    <2>1. QED BY <1>1, LeastOf
  <1> HIDE DEF r
  <1>3. n - r \in S /\ r \in 0..n
    BY <1>2
  <1>4. \A x \in S : x <= n - r
    <2>1. SUFFICES ASSUME NEW x \in S PROVE x <= n - r
      OBVIOUS
    <2>2. x \in 0..n /\ n - x \in 0..n /\ n - (n - x) = x
      OBVIOUS
    <2>3. n - x \in R
      BY <2>1, <2>2
    <2>4. r <= n - x
      BY <1>2, <2>3
    <2>5. QED
      BY <1>3, <2>2, <2>4
  <1>5. QED
    BY <1>3, <1>4 DEF Max

\* List f has what e says of the members of T, in their order: the j-th of them is pos[j].
Chosen(f, T, e, pos) ==
  /\ pos \in [1..Len(f) -> T]
  /\ \A j \in 1..Len(f) : f[j] = e[pos[j]]
  /\ \A j, k \in 1..Len(f) : j < k => pos[j] < pos[k]
  /\ \A i \in T : \E j \in 1..Len(f) : pos[j] = i

\* A list comprehension with a condition: the chosen ones, in their order.
LEMMA FilterIs ==
  ASSUME NEW S, NEW n \in Nat, NEW T \in SUBSET (1..n), NEW e \in [T -> S], NEW seqs,
         seqs = [i \in 1..n |-> IF i \in T THEN << e[i] >> ELSE << >>]
  PROVE  FlattenSeq(seqs) \in Seq(S) /\ \E pos : Chosen(FlattenSeq(seqs), T, e, pos)
  <1>1. /\ seqs \in Seq(Seq(S)) /\ Len(seqs) = n
        /\ \A i \in 1..n : i \in T => Len(seqs[i]) = 1 /\ seqs[i][1] = e[i]
        /\ \A i \in 1..n : i \notin T => Len(seqs[i]) = 0
    <2>1. \A i \in 1..n : (IF i \in T THEN << e[i] >> ELSE << >>) \in Seq(S)
      OBVIOUS
    <2>2. seqs \in [1..n -> Seq(S)]
      BY <2>1
    <2>3. QED
      BY <2>2
  <1> DEFINE f == FlattenSeq(seqs)
  <1>2. f \in Seq(S) /\ \E off : Blocks(f, seqs, n, off)
    <2>1. f \in Seq(S) /\ \E off : Blocks(f, seqs, Len(seqs), off)
      BY <1>1, FlattenIs
    <2> HIDE DEF f
    <2>2. QED
      BY <1>1, <2>1
  <1> HIDE DEF f
  <1>3. PICK off : Blocks(f, seqs, n, off)
    BY <1>2
  <1>4. /\ off \in [1..(n + 1) -> Nat] /\ off[n + 1] = Len(f)
        /\ \A i \in 1..n : off[i + 1] = off[i] + Len(seqs[i])
        /\ \A i, j \in 1..(n + 1) : i <= j => off[i] <= off[j]
        /\ \A i \in 1..n : \A k \in 1..Len(seqs[i]) : f[off[i] + k] = seqs[i][k]
        /\ \A j \in 1..Len(f) : \E i \in 1..n : \E k \in 1..Len(seqs[i]) : j = off[i] + k
    BY <1>3 DEF Blocks
  <1>5. \A j \in 1..Len(f) : \E i \in T : j = off[i] + 1
    <2>1. SUFFICES ASSUME NEW j \in 1..Len(f)
                   PROVE  \E i \in T : j = off[i] + 1
      OBVIOUS
    <2>2. PICK i \in 1..n : \E k \in 1..Len(seqs[i]) : j = off[i] + k
      BY <1>4
    <2>3. PICK k \in 1..Len(seqs[i]) : j = off[i] + k
      BY <2>2
    <2>4. i \in T
      <3>1. SUFFICES ASSUME i \notin T PROVE FALSE
        OBVIOUS
      <3>2. Len(seqs[i]) = 0
        BY <3>1, <1>1
      <3>3. QED
        BY <3>2, <2>3
    <2>5. k \in 1..1
      BY <1>1, <2>3, <2>4
    <2>6. k = 1
      BY <2>5
    <2>7. QED
      BY <2>3, <2>4, <2>6
  <1> DEFINE pos == [j \in 1..Len(f) |-> CHOOSE i \in T : j = off[i] + 1]
  <1>6. \A j \in 1..Len(f) : pos[j] \in T /\ j = off[pos[j]] + 1
    BY <1>5
  <1>7. pos \in [1..Len(f) -> T]
    BY <1>6
  <1> HIDE DEF pos
  <1>8. \A i \in T : off[i] \in Nat /\ off[i] + 1 \in 1..Len(f) /\ f[off[i] + 1] = e[i]
                     /\ \A k \in T : i < k => off[i] < off[k]
    <2>1. SUFFICES ASSUME NEW i \in T
                   PROVE  off[i] \in Nat /\ off[i] + 1 \in 1..Len(f) /\ f[off[i] + 1] = e[i]
                          /\ \A k \in T : i < k => off[i] < off[k]
      OBVIOUS
    <2>2. i \in 1..n /\ i \in 1..(n + 1) /\ i + 1 \in 1..(n + 1) /\ n + 1 \in 1..(n + 1)
          /\ i + 1 <= n + 1
      OBVIOUS
    <2>3. Len(seqs[i]) = 1 /\ seqs[i][1] = e[i] /\ 1 \in 1..Len(seqs[i])
      BY <2>2, <1>1
    <2>4. off[i + 1] = off[i] + 1 /\ off[i + 1] <= off[n + 1] /\ off[i] \in Nat
      BY <2>2, <2>3, <1>4
    <2>5. off[i] + 1 \in 1..Len(f)
      BY <2>4, <1>2, <1>4
    <2>6. f[off[i] + 1] = e[i]
      BY <2>2, <2>3, <1>4
    <2>7. ASSUME NEW k \in T, i < k PROVE off[i] < off[k]
      <3>1. k \in 1..(n + 1) /\ i + 1 <= k
        BY <2>2, <2>7
      <3>2. off[i + 1] <= off[k] /\ off[k] \in Nat
        BY <2>2, <3>1, <1>4
      <3>3. QED
        BY <3>2, <2>4
    <2>8. QED
      BY <2>4, <2>5, <2>6, <2>7
  <1>9. \A j \in 1..Len(f) : f[j] = e[pos[j]]
    BY <1>6, <1>8
  <1>10. \A j, k \in 1..Len(f) : j < k => pos[j] < pos[k]
    <2>1. SUFFICES ASSUME NEW j \in 1..Len(f), NEW k \in 1..Len(f), j < k
                   PROVE  pos[j] < pos[k]
      OBVIOUS
    <2>2. PICK p \in T, q \in T : p = pos[j] /\ q = pos[k]
      BY <1>6
    <2>3. j = off[p] + 1 /\ k = off[q] + 1 /\ off[p] \in Nat /\ off[q] \in Nat
      BY <1>6, <1>8, <2>2
    <2>4. ~(q < p) /\ p # q
      BY <1>8, <2>1, <2>3
    <2>5. p \in Int /\ q \in Int
      OBVIOUS
    <2>6. QED
      BY <2>2, <2>4, <2>5
  <1>11. \A i \in T : \E j \in 1..Len(f) : pos[j] = i
    <2>1. SUFFICES ASSUME NEW i \in T PROVE \E j \in 1..Len(f) : pos[j] = i
      OBVIOUS
    <2> DEFINE j == off[i] + 1
    <2>2. j \in 1..Len(f) /\ off[i] \in Nat
      BY <1>8
    <2>3. pos[j] \in T /\ j = off[pos[j]] + 1
      BY <1>6, <2>2
    <2>4. PICK p \in T : p = pos[j]
      BY <2>3
    <2>5. off[p] = off[i] /\ off[p] \in Nat
      BY <2>2, <2>3, <2>4, <1>8, SMTT(40)
    <2>6. ~(p < i) /\ ~(i < p) /\ p \in Int /\ i \in Int
      BY <1>8, <2>5
    <2>7. p = i
      BY <2>6
    <2>8. QED
      BY <2>2, <2>4, <2>7
  <1>12. QED
    <2>1. Chosen(f, T, e, pos)
      BY <1>7, <1>9, <1>10, <1>11 DEF Chosen
    <2>2. QED
      BY <1>2, <2>1 DEF f
=============================================================================
