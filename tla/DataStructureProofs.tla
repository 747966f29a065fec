------------------------ MODULE DataStructureProofs --------------------------
(***************************************************************************)
(* Facts that the proofs about the components share: induction and the     *)
(* states of a loop; what push_back, pop_front, pop, remove and extending  *)
(* do to the elements of a VecDeque or Vec and to the absence of           *)
(* duplicates; and what RecycleAllocator promises for any sequence of      *)
(* calls: alloc returns an id nobody has, and dealloc of an id somebody    *)
(* has passes its assertions and makes exactly that id available again.    *)
(*                                                                         *)
(* The provers cannot instantiate an induction theorem whose parameter is  *)
(* an operator.  InductionUpTo and LoopRuns take sets and functions        *)
(* instead, and follow from the fact that a set of numbers has a smallest. *)
(***************************************************************************)
EXTENDS RecycleAllocator, WellFoundedInduction, NaturalsInduction, TLAPS

\* A set of numbers that is not empty has a smallest element.
LEMMA LeastNat ==
    ASSUME NEW T \in SUBSET Nat, T # {}
    PROVE  \E n \in T : \A m \in T : n <= m
<1> DEFINE R == OpToRel(<, Nat)
<1>1. IsWellFoundedOn(R, Nat)
  BY NatLessThanWellFounded
<1>2. \E x \in T : \A y \in T : ~(<<y, x>> \in R)
  BY <1>1, WFMin
<1>3. \A x, y \in Nat : <<y, x>> \in R <=> y < x
  BY DEF OpToRel
<1> HIDE DEF R
<1>4. PICK x \in T : \A y \in T : ~(<<y, x>> \in R)
  BY <1>2
<1>5. \A y \in T : ~(y < x)
  BY <1>4, <1>3
<1>6. QED
  BY <1>4, <1>5

\* Induction up to k, with the claim given as the set of numbers it holds for.
LEMMA InductionUpTo ==
    ASSUME NEW k \in Nat, NEW P, 0 \in P, \A i \in 1 .. k : i - 1 \in P => i \in P
    PROVE  \A i \in 0 .. k : i \in P
<1> DEFINE T == {i \in 0 .. k : i \notin P}
<1>1. SUFFICES ASSUME T # {} PROVE FALSE
  OBVIOUS
<1>2. T \in SUBSET Nat
  OBVIOUS
<1>3. PICK n \in T : \A m \in T : n <= m
  <2> HIDE DEF T
  <2>1. QED
    BY <1>1, <1>2, LeastNat
<1>4. n \in 1 .. k /\ n - 1 \in 0 .. k
  OBVIOUS
<1>5. n - 1 \notin T
  BY <1>3, <1>4
<1>6. QED
  BY <1>4, <1>5

\* The bodies of a loop of n rounds over the states D: round i takes d to
\* G[i][d].
Rounds(n, D) == [1 .. n -> [D -> D]]

\* The states the loop goes through from a.
IsRun(f, n, D, a, G) ==
    /\ f \in [0 .. n -> D]
    /\ f[0] = a
    /\ \A i \in 1 .. n : f[i] = G[i][f[i - 1]]

\* Every loop of n rounds has a run.
LEMMA LoopRuns ==
    ASSUME NEW n \in Nat, NEW D, NEW a \in D, NEW G \in Rounds(n, D)
    PROVE  \E f : IsRun(f, n, D, a, G)
<1> DEFINE P == {k \in 0 .. n : \E f : IsRun(f, k, D, a, G)}
<1>1. G \in [1 .. n -> [D -> D]]
  BY DEF Rounds
<1>2. 0 \in P
  <2> DEFINE f == [i \in 0 .. 0 |-> a]
  <2>1. f \in [0 .. 0 -> D] /\ f[0] = a /\ 1 .. 0 = {}
    OBVIOUS
  <2> HIDE DEF f
  <2>2. IsRun(f, 0, D, a, G)
    BY <2>1 DEF IsRun
  <2>3. QED
    BY <2>2
<1>3. ASSUME NEW k \in 1 .. n, k - 1 \in P PROVE k \in P
  <2>1. PICK f : IsRun(f, k - 1, D, a, G)
    BY <1>3
  <2>2. /\ f \in [0 .. (k - 1) -> D]
        /\ f[0] = a
        /\ \A i \in 1 .. (k - 1) : f[i] = G[i][f[i - 1]]
    BY <2>1 DEF IsRun
  <2> DEFINE g == [i \in 0 .. k |-> IF i = k THEN G[k][f[k - 1]] ELSE f[i]]
  <2>3. k - 1 \in 0 .. (k - 1) /\ f[k - 1] \in D /\ G[k][f[k - 1]] \in D
    BY <1>1, <2>2
  <2>4. g \in [0 .. k -> D]
    BY <2>2, <2>3
  <2>5. g[0] = a
    BY <2>2
  <2>6. ASSUME NEW i \in 1 .. k PROVE g[i] = G[i][g[i - 1]]
    <3>1. i \in 0 .. k /\ i - 1 \in 0 .. k /\ i - 1 # k
      OBVIOUS
    <3>2. g[i - 1] = f[i - 1]
      BY <3>1
    <3>3. CASE i = k
      BY <3>1, <3>2, <3>3
    <3>4. CASE i # k
      <4>1. g[i] = f[i] /\ i \in 1 .. (k - 1)
        BY <3>1, <3>4
      <4>2. QED
        BY <2>2, <3>2, <4>1
    <3>5. QED
      BY <3>3, <3>4
  <2> HIDE DEF g
  <2>7. IsRun(g, k, D, a, G)
    BY <2>4, <2>5, <2>6 DEF IsRun
  <2>8. QED
    BY <2>7
<1>4. \A k \in 0 .. n : k \in P
  <2> HIDE DEF P
  <2>1. QED
    BY <1>2, <1>3, InductionUpTo
<1>5. n \in 0 .. n
  OBVIOUS
<1>6. QED
  BY <1>4, <1>5

\* The elements of a sequence are of the sequence's element type.
LEMMA RangeType ==
    ASSUME NEW S, NEW q \in Seq(S)
    PROVE  /\ Range(q) \subseteq S
           /\ \A x : x \in Range(q) <=> \E i \in 1 .. Len(q) : q[i] = x
  BY DEF Range

\* The empty queue has no elements and no duplicates.
LEMMA RangeEmpty ==
    /\ Range(<<>>) = {}
    /\ IsInjective(<<>>)
  BY DEF Range, IsInjective

\* push_back adds one element, and no duplicate if the element is new.
LEMMA RangeAppend ==
    ASSUME NEW S, NEW q \in Seq(S), NEW t \in S
    PROVE  /\ Append(q, t) \in Seq(S)
           /\ Append(q, t) # <<>>
           /\ Range(Append(q, t)) = Range(q) \cup {t}
           /\ IsInjective(q) /\ t \notin Range(q) => IsInjective(Append(q, t))
<1>1. /\ Append(q, t) \in Seq(S)
      /\ Len(Append(q, t)) = Len(q) + 1
      /\ \A i \in 1 .. Len(q) : Append(q, t)[i] = q[i]
      /\ Append(q, t)[Len(q) + 1] = t
      /\ Len(q) \in Nat
  OBVIOUS
<1>2. DOMAIN Append(q, t) = 1 .. (Len(q) + 1) /\ DOMAIN q = 1 .. Len(q)
  BY <1>1
<1>3. Range(Append(q, t)) = Range(q) \cup {t}
  <2>1. ASSUME NEW i \in 1 .. (Len(q) + 1)
        PROVE  Append(q, t)[i] \in Range(q) \cup {t}
    <3>1. i \in 1 .. Len(q) \/ i = Len(q) + 1
      BY <1>1
    <3>2. QED
      BY <3>1, <1>1, <1>2 DEF Range
  <2>2. ASSUME NEW x \in Range(q)
        PROVE  x \in Range(Append(q, t))
    <3>1. PICK i \in 1 .. Len(q) : q[i] = x
      BY <1>2 DEF Range
    <3>2. i \in 1 .. (Len(q) + 1) /\ Append(q, t)[i] = x
      BY <3>1, <1>1
    <3>3. QED
      BY <3>2, <1>2 DEF Range
  <2>3. t \in Range(Append(q, t))
    <3>1. Len(q) + 1 \in 1 .. (Len(q) + 1)
      BY <1>1
    <3>2. QED
      BY <3>1, <1>1, <1>2 DEF Range
  <2>4. QED
    BY <2>1, <2>2, <2>3, <1>2 DEF Range
<1>4. ASSUME IsInjective(q), t \notin Range(q)
      PROVE  IsInjective(Append(q, t))
  <2>1. SUFFICES ASSUME NEW i \in 1 .. (Len(q) + 1), NEW j \in 1 .. (Len(q) + 1),
                        Append(q, t)[i] = Append(q, t)[j]
                 PROVE  i = j
    BY <1>2 DEF IsInjective
  <2>2. \A k \in 1 .. Len(q) : q[k] # t
    BY <1>4, <1>2 DEF Range
  <2>3. \A k, l \in 1 .. Len(q) : q[k] = q[l] => k = l
    BY <1>4, <1>2 DEF IsInjective
  <2>4. QED
    BY <2>1, <2>2, <2>3, <1>1
<1>5. QED
  BY <1>1, <1>3, <1>4

\* pop_front takes the head out and keeps the rest free of duplicates.
LEMMA RangeTail ==
    ASSUME NEW S, NEW q \in Seq(S), q # <<>>, IsInjective(q)
    PROVE  /\ Head(q) \in Range(q)
           /\ Tail(q) \in Seq(S)
           /\ Range(Tail(q)) = Range(q) \ {Head(q)}
           /\ IsInjective(Tail(q))
<1>1. /\ Len(q) \in Nat \ {0}
      /\ Head(q) = q[1]
      /\ Tail(q) \in Seq(S)
      /\ Len(Tail(q)) = Len(q) - 1
      /\ \A i \in 1 .. (Len(q) - 1) : Tail(q)[i] = q[i + 1]
  OBVIOUS
<1>2. DOMAIN q = 1 .. Len(q) /\ DOMAIN Tail(q) = 1 .. (Len(q) - 1)
  BY <1>1
<1>3. \A i, j \in 1 .. Len(q) : q[i] = q[j] => i = j
  BY <1>2 DEF IsInjective
<1>4. Head(q) \in Range(q)
  <2>1. 1 \in 1 .. Len(q)
    BY <1>1
  <2>2. QED
    BY <2>1, <1>1, <1>2 DEF Range
<1>5. ASSUME NEW i \in 1 .. (Len(q) - 1)
      PROVE  Tail(q)[i] \in Range(q) /\ Tail(q)[i] # Head(q)
  <2>1. i + 1 \in 1 .. Len(q) /\ 1 \in 1 .. Len(q) /\ i + 1 # 1
    BY <1>1
  <2>2. q[i + 1] # q[1]
    BY <2>1, <1>3
  <2>3. QED
    BY <2>1, <2>2, <1>1, <1>2 DEF Range
<1>6. ASSUME NEW x \in Range(q), x # Head(q)
      PROVE  x \in Range(Tail(q))
  <2>1. PICK i \in 1 .. Len(q) : q[i] = x
    BY <1>2 DEF Range
  <2>2. i - 1 \in 1 .. (Len(q) - 1) /\ Tail(q)[i - 1] = x
    BY <2>1, <1>6, <1>1
  <2>3. QED
    BY <2>2, <1>2 DEF Range
<1>7. IsInjective(Tail(q))
  <2>1. SUFFICES ASSUME NEW i \in 1 .. (Len(q) - 1), NEW j \in 1 .. (Len(q) - 1),
                        Tail(q)[i] = Tail(q)[j]
                 PROVE  i = j
    BY <1>2 DEF IsInjective
  <2>2. i + 1 \in 1 .. Len(q) /\ j + 1 \in 1 .. Len(q) /\ q[i + 1] = q[j + 1]
    BY <2>1, <1>1
  <2>3. i + 1 = j + 1
    BY <2>2, <1>3
  <2>4. QED
    BY <2>3
<1>8. Range(Tail(q)) = Range(q) \ {Head(q)}
  BY <1>2, <1>5, <1>6 DEF Range
<1>9. QED
  BY <1>1, <1>4, <1>7, <1>8

\* Extending a queue by another one adds the elements of the other, and no
\* duplicate if the two share none.
LEMMA RangeConcat ==
    ASSUME NEW S, NEW q \in Seq(S), NEW r \in Seq(S)
    PROVE  /\ q \o r \in Seq(S)
           /\ Range(q \o r) = Range(q) \cup Range(r)
           /\ IsInjective(q) /\ IsInjective(r) /\ Range(q) \cap Range(r) = {}
                => IsInjective(q \o r)
<1>1. /\ q \o r \in Seq(S)
      /\ Len(q \o r) = Len(q) + Len(r)
      /\ \A i \in 1 .. Len(q) + Len(r) : (q \o r)[i] =
             IF i <= Len(q) THEN q[i] ELSE r[i - Len(q)]
      /\ Len(q) \in Nat
      /\ Len(r) \in Nat
  OBVIOUS
<1>2. /\ DOMAIN (q \o r) = 1 .. (Len(q) + Len(r))
      /\ DOMAIN q = 1 .. Len(q)
      /\ DOMAIN r = 1 .. Len(r)
  BY <1>1
<1>3. ASSUME NEW i \in 1 .. (Len(q) + Len(r))
      PROVE  \/ i \in 1 .. Len(q) /\ (q \o r)[i] = q[i]
             \/ i - Len(q) \in 1 .. Len(r) /\ (q \o r)[i] = r[i - Len(q)]
  BY <1>1
<1>4. ASSUME NEW i \in 1 .. Len(q)
      PROVE  i \in 1 .. (Len(q) + Len(r)) /\ (q \o r)[i] = q[i]
  BY <1>1
<1>5. ASSUME NEW i \in 1 .. Len(r)
      PROVE  i + Len(q) \in 1 .. (Len(q) + Len(r)) /\ (q \o r)[i + Len(q)] = r[i]
  BY <1>1
<1>6. Range(q \o r) = Range(q) \cup Range(r)
  <2>1. ASSUME NEW x \in Range(q \o r)
        PROVE  x \in Range(q) \cup Range(r)
    <3>1. PICK i \in 1 .. (Len(q) + Len(r)) : (q \o r)[i] = x
      BY <1>2 DEF Range
    <3>2. QED
      BY <3>1, <1>2, <1>3 DEF Range
  <2>2. ASSUME NEW x \in Range(q)
        PROVE  x \in Range(q \o r)
    <3>1. PICK i \in 1 .. Len(q) : q[i] = x
      BY <1>2 DEF Range
    <3>2. QED
      BY <3>1, <1>2, <1>4 DEF Range
  <2>3. ASSUME NEW x \in Range(r)
        PROVE  x \in Range(q \o r)
    <3>1. PICK i \in 1 .. Len(r) : r[i] = x
      BY <1>2 DEF Range
    <3>2. QED
      BY <3>1, <1>2, <1>5 DEF Range
  <2>4. QED
    BY <2>1, <2>2, <2>3
<1>7. ASSUME IsInjective(q), IsInjective(r), Range(q) \cap Range(r) = {}
      PROVE  IsInjective(q \o r)
  <2>1. SUFFICES ASSUME NEW i \in 1 .. (Len(q) + Len(r)), NEW j \in 1 .. (Len(q) + Len(r)),
                        (q \o r)[i] = (q \o r)[j]
                 PROVE  i = j
    BY <1>2 DEF IsInjective
  <2>2. \A k, l \in 1 .. Len(q) : q[k] = q[l] => k = l
    BY <1>7, <1>2 DEF IsInjective
  <2>3. \A k, l \in 1 .. Len(r) : r[k] = r[l] => k = l
    BY <1>7, <1>2 DEF IsInjective
  <2>4. \A k \in 1 .. Len(q), l \in 1 .. Len(r) : q[k] # r[l]
    BY <1>7, <1>2 DEF Range
  <2>5. i \in 1 .. Len(q) <=> j \in 1 .. Len(q)
    <3>1. \/ i \in 1 .. Len(q) /\ (q \o r)[i] = q[i]
          \/ i - Len(q) \in 1 .. Len(r) /\ i \notin 1 .. Len(q) /\ (q \o r)[i] = r[i - Len(q)]
      BY <1>1
    <3>2. \/ j \in 1 .. Len(q) /\ (q \o r)[j] = q[j]
          \/ j - Len(q) \in 1 .. Len(r) /\ j \notin 1 .. Len(q) /\ (q \o r)[j] = r[j - Len(q)]
      BY <1>1
    <3>3. QED
      BY <3>1, <3>2, <2>1, <2>4
  <2>6. CASE i \in 1 .. Len(q)
    BY <2>1, <2>2, <2>5, <2>6, <1>4
  <2>7. CASE i \notin 1 .. Len(q)
    <3>1. /\ i - Len(q) \in 1 .. Len(r) /\ j - Len(q) \in 1 .. Len(r)
          /\ r[i - Len(q)] = r[j - Len(q)]
      BY <2>1, <2>5, <2>7, <1>3
    <3>2. i - Len(q) = j - Len(q)
      BY <3>1, <2>3
    <3>3. QED
      BY <3>2, <1>1
  <2>8. QED
    BY <2>6, <2>7
<1>8. QED
  BY <1>1, <1>6, <1>7

\* The elements of a sequence from a position on.
LEMMA SuffixFacts ==
    ASSUME NEW S, NEW q \in Seq(S), NEW m \in 1 .. (Len(q) + 1)
    PROVE  /\ SubSeq(q, m, Len(q)) \in Seq(S)
           /\ Len(SubSeq(q, m, Len(q))) = Len(q) - m + 1
           /\ \A i \in 1 .. (Len(q) - m + 1) : SubSeq(q, m, Len(q))[i] = q[m + i - 1]
<1>1. SubSeq(q, m, Len(q)) \in Seq(S)
  OBVIOUS
<1>2. Len(SubSeq(q, m, Len(q))) = Len(q) - m + 1
  OBVIOUS
<1>3. \A i \in 1 .. (Len(q) - m + 1) : SubSeq(q, m, Len(q))[i] = q[m + i - 1]
  OBVIOUS
<1>4. QED
  BY <1>1, <1>2, <1>3

\* Vec::remove takes out one element, which is at no other place.
LEMMA RangeRemove ==
    ASSUME NEW S, NEW q \in Seq(S), IsInjective(q), NEW idx \in 1 .. Len(q)
    PROVE  LET r == SubSeq(q, 1, idx - 1) \o SubSeq(q, idx + 1, Len(q))
           IN  /\ r \in Seq(S)
               /\ Range(r) = Range(q) \ {q[idx]}
               /\ IsInjective(r)
               /\ Len(r) = Len(q) - 1
<1> DEFINE n == Len(q)
           r == SubSeq(q, 1, idx - 1) \o SubSeq(q, idx + 1, n)
<1>1. n \in Nat /\ DOMAIN q = 1 .. n /\ idx \in 1 .. n
  OBVIOUS
<1>2. /\ r \in Seq(S)
      /\ Len(r) = n - 1
      /\ \A i \in 1 .. (n - 1) : r[i] = IF i < idx THEN q[i] ELSE q[i + 1]
  <2> DEFINE u == SubSeq(q, 1, idx - 1)
             v == SubSeq(q, idx + 1, n)
  <2>1. /\ u \in Seq(S) /\ Len(u) = idx - 1
        /\ \A i \in 1 .. (idx - 1) : u[i] = q[i]
    BY <1>1
  <2>2. /\ v \in Seq(S) /\ Len(v) = n - idx
        /\ \A i \in 1 .. (n - idx) : v[i] = q[i + idx]
    <3>1. idx + 1 \in 1 .. (n + 1) /\ n \in idx .. n /\ n - (idx + 1) + 1 = n - idx
      BY <1>1
    <3>2. /\ v \in Seq(S) /\ Len(v) = n - (idx + 1) + 1
          /\ \A i \in 1 .. (n - (idx + 1) + 1) : v[i] = q[(idx + 1) + i - 1]
      BY <1>1, <3>1, SuffixFacts
    <3>3. \A i \in 1 .. (n - idx) : (idx + 1) + i - 1 = i + idx
      BY <1>1
    <3> HIDE DEF v, n
    <3>4. QED
      BY <3>1, <3>2, <3>3
  <2>3. r = u \o v
    OBVIOUS
  <2> HIDE DEF u, v, r, n
  <2>4. /\ r \in Seq(S) /\ Len(r) = Len(u) + Len(v)
        /\ \A i \in 1 .. (Len(u) + Len(v)) : r[i] = IF i <= Len(u) THEN u[i] ELSE v[i - Len(u)]
    BY <2>1, <2>2, <2>3
  <2>5. Len(u) + Len(v) = n - 1
    BY <1>1, <2>1, <2>2
  <2>6. ASSUME NEW i \in 1 .. (n - 1), i < idx PROVE r[i] = q[i]
    <3>1. i \in 1 .. (idx - 1) /\ i <= Len(u)
      BY <1>1, <2>1, <2>6
    <3>2. QED
      BY <2>1, <2>4, <2>5, <3>1
  <2>7. ASSUME NEW i \in 1 .. (n - 1), ~(i < idx) PROVE r[i] = q[i + 1]
    <3>1. /\ ~(i <= Len(u)) /\ i - Len(u) \in 1 .. (n - idx)
          /\ (i - Len(u)) + idx = i + 1
      BY <1>1, <2>1, <2>7
    <3>2. QED
      BY <2>2, <2>4, <2>5, <3>1
  <2>8. QED
    BY <2>4, <2>5, <2>6, <2>7
<1> HIDE DEF n, r
<1>3. DOMAIN r = 1 .. (n - 1)
  BY <1>1, <1>2
<1>4. \A i, j \in 1 .. n : q[i] = q[j] => i = j
  BY <1>1 DEF IsInjective
<1> DEFINE at(i) == IF i < idx THEN i ELSE i + 1
<1>5. \A i \in 1 .. (n - 1) : at(i) \in 1 .. n /\ at(i) # idx /\ r[i] = q[at(i)]
  BY <1>1, <1>2
<1>6. \A i, j \in 1 .. (n - 1) : at(i) = at(j) => i = j
  BY <1>1
<1>7. \A k \in 1 .. n : k # idx => \E i \in 1 .. (n - 1) : at(i) = k
  <2> SUFFICES ASSUME NEW k \in 1 .. n, k # idx PROVE \E i \in 1 .. (n - 1) : at(i) = k
    OBVIOUS
  <2>1. CASE k < idx
    BY <1>1, <2>1
  <2>2. CASE k > idx
    <3>1. k - 1 \in 1 .. (n - 1) /\ at(k - 1) = k
      BY <1>1, <2>2
    <3>2. QED
      BY <3>1
  <2>3. QED
    BY <1>1, <2>1, <2>2
<1> HIDE DEF at
<1>8. IsInjective(r)
  BY <1>3, <1>4, <1>5, <1>6 DEF IsInjective
<1>9. Range(r) = Range(q) \ {q[idx]}
  <2>1. Range(r) = {r[i] : i \in 1 .. (n - 1)} /\ Range(q) = {q[i] : i \in 1 .. n}
    BY <1>1, <1>3, Zenon DEF Range
  <2>2. ASSUME NEW i \in 1 .. (n - 1) PROVE r[i] \in Range(q) /\ r[i] # q[idx]
    BY <1>1, <1>4, <1>5, <2>1
  <2>3. ASSUME NEW k \in 1 .. n, q[k] # q[idx] PROVE q[k] \in Range(r)
    <3>1. PICK i \in 1 .. (n - 1) : at(i) = k
      BY <1>7, <2>3
    <3>2. r[i] = q[k]
      BY <1>5, <3>1
    <3>3. QED
      BY <2>1, <3>2
  <2>4. QED
    BY <2>1, <2>2, <2>3
<1>10. QED
  BY <1>2, <1>8, <1>9 DEF r, n

\* Vec::pop removes the last element, which is at no other place.
LEMMA RangePop ==
    ASSUME NEW S, NEW q \in Seq(S), q # <<>>, IsInjective(q)
    PROVE  LET r == SubSeq(q, 1, Len(q) - 1)
           IN  /\ q[Len(q)] \in Range(q)
               /\ r \in Seq(S)
               /\ Range(r) = Range(q) \ {q[Len(q)]}
               /\ IsInjective(r)
<1> DEFINE n == Len(q)
           r == SubSeq(q, 1, n - 1)
<1>1. n \in Nat \ {0} /\ DOMAIN q = 1 .. n
  OBVIOUS
<1>2. /\ r \in Seq(S)
      /\ DOMAIN r = 1 .. (n - 1)
      /\ \A i \in 1 .. (n - 1) : r[i] = q[i]
  BY <1>1
<1> HIDE DEF n, r
<1>3. \A i, j \in 1 .. n : q[i] = q[j] => i = j
  BY <1>1 DEF IsInjective
<1>4. Range(r) = Range(q) \ {q[n]}
  <2>1. \A i \in 1 .. (n - 1) : r[i] \in Range(q) /\ r[i] # q[n]
    BY <1>1, <1>2, <1>3 DEF Range
  <2>2. \A i \in 1 .. n : q[i] # q[n] => i \in 1 .. (n - 1)
    BY <1>1
  <2>3. \A i \in 1 .. n : q[i] # q[n] => q[i] \in Range(r)
    BY <1>2, <2>2 DEF Range
  <2>4. QED
    BY <1>1, <1>2, <2>1, <2>3 DEF Range
<1>5. IsInjective(r)
  BY <1>1, <1>2, <1>3 DEF IsInjective
<1>6. q[n] \in Range(q)
  BY <1>1 DEF Range
<1>7. QED
  BY <1>2, <1>4, <1>5, <1>6 DEF n, r

----------------------------------------------------------------------------
(* RecycleAllocator *)

\* A new allocator has handed out nothing.
LEMMA NewAllocator ==
    /\ AllocatorOK(new_allocator)
    /\ InUse(new_allocator) = {}
<1>1. new_allocator = [current |-> 0, recycled |-> <<>>]
  BY DEF new_allocator
<1>2. /\ new_allocator.current = 0
      /\ new_allocator.recycled = <<>>
      /\ new_allocator \in [current : Nat, recycled : Seq(Nat)]
  BY <1>1
<1>3. QED
  BY <1>2, RangeEmpty DEF AllocatorOK, InUse

\* RecycleAllocator::alloc returns an id that is not in use and puts exactly
\* this one in use.
THEOREM AllocFresh ==
    ASSUME NEW a, AllocatorOK(a)
    PROVE  /\ alloc_id(a) \in Nat \ InUse(a)
           /\ AllocatorOK(alloc(a))
           /\ InUse(alloc(a)) = InUse(a) \cup {alloc_id(a)}
<1> DEFINE q == a.recycled
           c == a.current
<1>1. /\ c \in Nat
      /\ q \in Seq(Nat)
      /\ Range(q) \subseteq 0 .. (c - 1)
      /\ IsInjective(q)
      /\ a = [current |-> c, recycled |-> q]
  BY DEF AllocatorOK
<1>2. CASE q # <<>>
  <2> DEFINE r == SubSeq(q, 1, Len(q) - 1)
             id == q[Len(q)]
  <2>1. /\ id \in Range(q)
        /\ r \in Seq(Nat)
        /\ Range(r) = Range(q) \ {id}
        /\ IsInjective(r)
    BY <1>1, <1>2, RangePop
  <2>2. alloc_id(a) = id
    BY <1>2 DEF alloc_id
  <2>3. alloc(a) = [current |-> c, recycled |-> r]
    BY <1>1, <1>2 DEF alloc
  <2> HIDE DEF r, id, q, c
  <2>4. alloc(a).current = c /\ alloc(a).recycled = r
    BY <2>3
  <2>5. id \in 0 .. (c - 1)
    BY <1>1, <2>1
  <2>6. AllocatorOK(alloc(a))
    <3>1. alloc(a) \in [current : Nat, recycled : Seq(Nat)]
      BY <1>1, <2>1, <2>3
    <3>2. Range(r) \subseteq 0 .. (c - 1)
      BY <1>1, <2>1
    <3>3. QED
      BY <2>1, <2>4, <3>1, <3>2 DEF AllocatorOK
  <2>7. InUse(alloc(a)) = 0 .. (c - 1) \ (Range(q) \ {id})
    BY <2>1, <2>4 DEF InUse
  <2>8. InUse(a) = 0 .. (c - 1) \ Range(q)
    BY DEF InUse, q, c
  <2>9. QED
    BY <1>1, <2>1, <2>2, <2>5, <2>6, <2>7, <2>8
<1>3. CASE q = <<>>
  <2>1. alloc_id(a) = c
    BY <1>3 DEF alloc_id
  <2>2. alloc(a) = [current |-> c + 1, recycled |-> q]
    BY <1>1, <1>3 DEF alloc
  <2> HIDE DEF q, c
  <2>3. alloc(a).current = c + 1 /\ alloc(a).recycled = q
    BY <2>2
  <2>4. alloc(a) \in [current : Nat, recycled : Seq(Nat)]
    BY <1>1, <2>2
  <2>5. Range(q) \subseteq 0 .. c
    BY <1>1
  <2>6. AllocatorOK(alloc(a))
    BY <1>1, <2>3, <2>4, <2>5 DEF AllocatorOK
  <2>7. Range(q) = {}
    BY <1>3, RangeEmpty
  <2>8. InUse(a) = 0 .. (c - 1) /\ InUse(alloc(a)) = 0 .. c
    BY <1>1, <2>3, <2>7 DEF InUse, q, c
  <2>9. QED
    BY <1>1, <2>1, <2>6, <2>8
<1>4. QED
  BY <1>2, <1>3

\* RecycleAllocator::dealloc of an id in use passes its assertions and takes
\* exactly this id out of use.
THEOREM DeallocTakesBack ==
    ASSUME NEW a, AllocatorOK(a), NEW id \in InUse(a)
    PROVE  /\ dealloc_asserts(a, id)
           /\ AllocatorOK(dealloc(a, id))
           /\ InUse(dealloc(a, id)) = InUse(a) \ {id}
<1> DEFINE q == a.recycled
           c == a.current
           r == Append(q, id)
<1>1. /\ c \in Nat
      /\ q \in Seq(Nat)
      /\ Range(q) \subseteq 0 .. (c - 1)
      /\ IsInjective(q)
      /\ a = [current |-> c, recycled |-> q]
  BY DEF AllocatorOK
<1>2. id \in 0 .. (c - 1) /\ id \notin Range(q) /\ id \in Nat
  BY <1>1 DEF InUse
<1>3. dealloc_asserts(a, id)
  BY <1>1, <1>2 DEF dealloc_asserts
<1>4. dealloc(a, id) = [current |-> c, recycled |-> r]
  <2>1. a \in [current : Nat, recycled : Seq(Nat)]
    BY DEF AllocatorOK
  <2>2. dealloc(a, id) = [a EXCEPT !.recycled = r]
    BY Zenon DEF dealloc
  <2> HIDE DEF r
  <2>3. QED
    BY <2>1, <2>2
<1>5. r \in Seq(Nat) /\ Range(r) = Range(q) \cup {id} /\ IsInjective(r)
  BY <1>1, <1>2, RangeAppend
<1>6. InUse(a) = 0 .. (c - 1) \ Range(q)
  BY DEF InUse
<1> HIDE DEF q, c, r
<1>7. dealloc(a, id).current = c /\ dealloc(a, id).recycled = r
  BY <1>4
<1>8. dealloc(a, id) \in [current : Nat, recycled : Seq(Nat)]
  BY <1>1, <1>4, <1>5
<1>9. Range(r) \subseteq 0 .. (c - 1)
  BY <1>1, <1>2, <1>5
<1>10. AllocatorOK(dealloc(a, id))
  BY <1>5, <1>7, <1>8, <1>9 DEF AllocatorOK
<1>11. InUse(dealloc(a, id)) = InUse(a) \ {id}
  BY <1>5, <1>6, <1>7 DEF InUse
<1>12. QED
  BY <1>3, <1>10, <1>11

=============================================================================
