---------------------------- MODULE Data_proofs -----------------------------
(***************************************************************************)
(* Induction over the natural numbers for sets, and what it tells of       *)
(* lists.  The theorems of NaturalsInduction quantify over predicates; a   *)
(* set can stand for one, and can be named where a lemma is used.          *)
(*                                                                         *)
(* And what the proofs about datagrams and ciphers use of lists, of bytes  *)
(* within bytes, and of XOR, rotations and sums.                           *)
(***************************************************************************)
EXTENDS Lists, Octets, SequencesExt, Integers, SequenceTheorems, FiniteSetTheorems,
        WellFoundedInduction, TLAPS

\* A set of natural numbers has a least element.
LEMMA LeastNatural ==
    ASSUME NEW T \in SUBSET Nat, T # {}
    PROVE  \E x \in T : \A y \in T : x <= y
<1> DEFINE R == {pair \in Nat \X Nat : pair[1] < pair[2]}
<1>1. IsWellFoundedOn(R, Nat)
  BY NatLessThanWellFounded DEF OpToRel
<1>2. \A x, y \in Nat : <<y, x>> \in R <=> y < x
  OBVIOUS
<1> HIDE DEF R
<1>3. PICK x \in T : \A y \in T : ~ (<<y, x>> \in R)
  BY <1>1, WFMin
<1>4. \A y \in T : ~ (y < x)
  BY <1>2, <1>3
<1>5. \A y \in T : x <= y
  BY <1>4
<1>6. QED
  BY <1>5

\* A set that has zero, and with a number the next one, has them all.
LEMMA SetInduction ==
    ASSUME NEW T, 0 \in T, \A n \in Nat : n \in T => n + 1 \in T
    PROVE  \A n \in Nat : n \in T
<1> DEFINE Rest == {n \in Nat : n \notin T}
<1> SUFFICES ASSUME Rest # {} PROVE FALSE
  OBVIOUS
<1>1. PICK m \in Rest : \A n \in Rest : m <= n
  BY LeastNatural
<1>2. m # 0 /\ m - 1 \in Nat
  OBVIOUS
<1>3. m - 1 \in T
  BY <1>1, <1>2
<1>4. m - 1 + 1 \in T
  BY <1>2, <1>3
<1>5. QED
  BY <1>4

\* The greatest of numbers that are bounded.
LEMMA GreatestOf ==
    ASSUME NEW n \in Nat, NEW S \in SUBSET (1..n), S # {}
    PROVE  Max(S) \in S /\ \A y \in S : Max(S) >= y
<1> DEFINE T == {n - x : x \in S}
<1>1. T \in SUBSET Nat /\ T # {}
  <2>1. \A x \in S : n - x \in Nat
    OBVIOUS
  <2>2. PICK x \in S : TRUE
    OBVIOUS
  <2>3. n - x \in T
    OBVIOUS
  <2>4. QED
    BY <2>1, <2>3
<1>2. PICK t \in T : \A u \in T : t <= u
  BY <1>1, LeastNatural
<1>3. PICK x \in S : t = n - x
  BY <1>2
<1>4. \A y \in S : n - x <= n - y
  BY <1>2, <1>3
<1>5. \A y \in S : x >= y
  BY <1>4
<1>6. \E z \in S : \A y \in S : z >= y
  BY <1>5
<1>7. QED
  BY <1>6 DEF Max

\* G[x][f], the value for x of a function f that G defines, depends on f for
\* arguments that are smaller than x only.
Recursion(D, R, size, G) ==
    /\ size \in [D -> Nat] /\ G \in [D -> [[D -> R] -> R]]
    /\ \A x \in D, f, g \in [D -> R] :
          (\A y \in D : size[y] < size[x] => f[y] = g[y]) => G[x][f] = G[x][g]

\* A function that is defined by what it is for smaller arguments exists.
LEMMA RecursiveFunction ==
    ASSUME NEW D, NEW R, NEW size, NEW G, R # {}, Recursion(D, R, size, G)
    PROVE  \E f \in [D -> R] : \A x \in D : f[x] = G[x][f]
<1> PICK none \in R : TRUE
  OBVIOUS
<1> USE DEF Recursion
<1> DEFINE F == [D -> R]
           UpTo(f, n) == \A x \in D : size[x] < n => f[x] = G[x][f]
           Good == {n \in Nat : \E f \in F : UpTo(f, n)}
<1>0. \A x \in D : size[x] \in Nat
  OBVIOUS
<1>1. 0 \in Good
  <2> DEFINE f == [x \in D |-> none]
  <2>1. f \in F /\ UpTo(f, 0)
    BY <1>0
  <2>2. QED
    BY <2>1
<1>2. ASSUME NEW n \in Nat, n \in Good PROVE n + 1 \in Good
  <2>1. PICK f \in F : UpTo(f, n)
    BY <1>2
  <2> DEFINE h == [x \in D |-> IF size[x] < n + 1 THEN G[x][f] ELSE f[x]]
  <2>2. h \in F
    OBVIOUS
  <2>3. \A x \in D : size[x] < n => h[x] = f[x]
    <3> SUFFICES ASSUME NEW x \in D, size[x] < n PROVE h[x] = f[x]
      OBVIOUS
    <3>1. size[x] < n + 1
      BY <1>0
    <3>2. QED
      BY <2>1, <3>1
  <2>4. ASSUME NEW x \in D, size[x] < n + 1 PROVE h[x] = G[x][h]
    <3>1. \A y \in D : size[y] < size[x] => f[y] = h[y]
      <4> SUFFICES ASSUME NEW y \in D, size[y] < size[x] PROVE f[y] = h[y]
        OBVIOUS
      <4>1. size[y] < n
        BY <1>0, <2>4
      <4>2. QED
        BY <2>3, <4>1
    <3> HIDE DEF h
    <3>2. G[x][f] = G[x][h]
      BY <2>2, <3>1
    <3>3. h[x] = G[x][f]
      BY <2>4 DEF h
    <3>4. QED
      BY <3>2, <3>3
  <2> HIDE DEF h
  <2>5. UpTo(h, n + 1)
    BY <2>4
  <2>6. QED
    BY <2>2, <2>5
<1>3. \A n \in Nat : \E f \in F : UpTo(f, n)
  <2>1. \A n \in Nat : n \in Good
    <3> HIDE DEF Good
    <3>1. QED
      BY <1>1, <1>2, SetInduction
  <2>2. QED
    BY <2>1
<1>4. ASSUME NEW f \in F, NEW g \in F, NEW n \in Nat, UpTo(f, n), UpTo(g, n),
             NEW x \in D, size[x] < n
      PROVE  f[x] = g[x]
  <2> DEFINE Same == {k \in Nat : \A y \in D : size[y] < k /\ size[y] < n => f[y] = g[y]}
  <2>1. 0 \in Same
    BY <1>0
  <2>2. ASSUME NEW k \in Nat, k \in Same PROVE k + 1 \in Same
    <3> SUFFICES ASSUME NEW y \in D, size[y] < k + 1, size[y] < n PROVE f[y] = g[y]
      OBVIOUS
    <3>1. \A z \in D : size[z] < size[y] => f[z] = g[z]
      <4> SUFFICES ASSUME NEW z \in D, size[z] < size[y] PROVE f[z] = g[z]
        OBVIOUS
      <4>1. size[z] < k /\ size[z] < n
        BY <1>0
      <4>2. QED
        BY <2>2, <4>1
    <3>2. G[y][f] = G[y][g]
      BY <3>1
    <3>3. f[y] = G[y][f] /\ g[y] = G[y][g]
      BY <1>4
    <3>4. QED
      BY <3>2, <3>3
  <2>3. \A k \in Nat : k \in Same
    <3> HIDE DEF Same
    <3>1. QED
      BY <2>1, <2>2, SetInduction
  <2>4. n \in Same
    BY <2>3
  <2>5. QED
    BY <1>4, <2>4
<1> DEFINE A(n) == CHOOSE f \in F : UpTo(f, n)
           all == [x \in D |-> A(size[x] + 1)[x]]
<1>5. ASSUME NEW n \in Nat PROVE A(n) \in F /\ UpTo(A(n), n)
  <2> HIDE DEF UpTo
  <2>1. QED
    BY <1>3
<1> HIDE DEF A
<1>6. all \in F
  <2>1. \A x \in D : size[x] + 1 \in Nat
    BY <1>0
  <2>2. \A x \in D : A(size[x] + 1) \in F
    BY <1>5, <2>1
  <2>3. QED
    BY <2>2
<1>7. ASSUME NEW x \in D PROVE all[x] = G[x][all]
  <2> DEFINE n == size[x] + 1
             f == A(n)
  <2>1. n \in Nat /\ size[x] < n
    BY <1>0
  <2>2. f \in F /\ UpTo(f, n)
    BY <1>5, <2>1
  <2>3. ASSUME NEW y \in D, size[y] < size[x] PROVE f[y] = all[y]
    <3> DEFINE k == size[y] + 1
               g == A(k)
    <3>1. k \in Nat /\ size[y] < k /\ k <= n /\ size[y] \in Nat /\ size[x] \in Nat
      BY <1>0, <2>3
    <3>2. g \in F /\ UpTo(g, k)
      BY <1>5, <3>1
    <3>3. UpTo(f, k)
      <4> SUFFICES ASSUME NEW z \in D, size[z] < k PROVE f[z] = G[z][f]
        OBVIOUS
      <4>1. size[z] < n
        BY <1>0, <2>3
      <4>2. QED
        BY <2>2, <4>1
    <3> HIDE DEF f, g, k, n, F, UpTo, Recursion
    <3>4. f[y] = g[y]
      BY <1>4, <2>2, <3>1, <3>2, <3>3
    <3>5. QED
      BY <3>4 DEF g, k
  <2>4. f[x] = G[x][f]
    BY <2>1, <2>2
  <2> HIDE DEF f, all
  <2>5. G[x][f] = G[x][all]
    BY <1>6, <2>2, <2>3
  <2>6. all[x] = f[x]
    BY DEF all, f
  <2>7. QED
    BY <2>4, <2>5, <2>6
<1>8. QED
  BY <1>6, <1>7

\* The members up to the n-th.
LEMMA Prefix ==
    ASSUME NEW S, NEW s \in Seq(S), NEW n \in 0..Len(s)
    PROVE  /\ SubSeq(s, 1, n) \in Seq(S) /\ Len(SubSeq(s, 1, n)) = n
           /\ \A i \in 1..n : SubSeq(s, 1, n)[i] = s[i]
<1>1. Len(s) \in Nat /\ n \in Nat /\ \A i \in 1..n : s[i] \in S
  BY LenProperties, ElementOfSeq
<1>2. /\ SubSeq(s, 1, n) \in Seq(S)
      /\ Len(SubSeq(s, 1, n)) = IF 1 <= n THEN n - 1 + 1 ELSE 0
      /\ \A i \in 1..(n - 1 + 1) : SubSeq(s, 1, n)[i] = s[1 + i - 1]
  BY <1>1, SubSeqProperties
<1> DEFINE p == SubSeq(s, 1, n)
<1> HIDE DEF p
<1>3. p \in Seq(S) /\ Len(p) = n /\ \A i \in 1..n : p[i] = s[i]
  BY <1>1, <1>2 DEF p
<1>4. QED
  BY <1>3 DEF p

---------------------------------------------------------------------------
(* Select.                                                                 *)

\* Select as the sequence of lists it goes through.
LEMMA SelectSteps ==
    ASSUME NEW S, NEW s \in Seq(S), NEW T
    PROVE  \E g : /\ g[0] = <<>>
                  /\ \A i \in 1..Len(s) :
                        g[i] = IF s[i] \in T THEN Append(g[i - 1], s[i]) ELSE g[i - 1]
                  /\ Select(s, T) = g[Len(s)]
<1> DEFINE n == Len(s)
           Value(g, i) == IF i = 0 THEN <<>>
                          ELSE IF s[i] \in T THEN Append(g[i - 1], s[i]) ELSE g[i - 1]
           Iter(g, k) == g = [i \in 0..k |-> Value(g, i)]
           Some == {k \in Nat : \E g : Iter(g, k)}
<1>1. 0 \in Some
  <2> DEFINE g == [i \in 0..0 |-> <<>>]
  <2>1. g = [i \in 0..0 |-> Value(g, i)]
    <3>1. \A i \in 0..0 : i = 0
      OBVIOUS
    <3>2. QED
      BY <3>1
  <2>2. QED
    BY <2>1
<1>2. ASSUME NEW k \in Nat, k \in Some PROVE k + 1 \in Some
  <2>1. PICK g : Iter(g, k)
    BY <1>2
  <2> DEFINE h == [i \in 0..(k + 1) |-> Value(g, i)]
  <2>2. ASSUME NEW i \in 0..k PROVE h[i] = g[i]
    <3>1. i \in 0..(k + 1)
      OBVIOUS
    <3>2. g[i] = Value(g, i)
      BY <2>1
    <3> HIDE DEF Value
    <3>3. QED
      BY <3>1, <3>2
  <2>3. ASSUME NEW i \in 0..(k + 1) PROVE Value(g, i) = Value(h, i)
    <3>1. CASE i = 0
      BY <3>1
    <3>2. CASE i # 0
      <4>1. g[i - 1] = h[i - 1]
        <5>1. i - 1 \in 0..k
          BY <3>2
        <5>2. QED
          BY <2>2, <5>1
      <4> HIDE DEF h
      <4>2. QED
        BY <3>2, <4>1
    <3>3. QED
      BY <3>1, <3>2
  <2>4. h = [i \in 0..(k + 1) |-> Value(h, i)]
    <3> HIDE DEF Value
    <3>1. QED
      BY <2>3
  <2> HIDE DEF Value, h
  <2>5. Iter(h, k + 1)
    BY <2>4
  <2>6. \E next : Iter(next, k + 1)
    BY <2>5
  <2>7. QED
    BY <2>6
<1>3. \A k \in Nat : k \in Some
  <2> HIDE DEF Some
  <2>1. QED
    BY <1>1, <1>2, SetInduction
<1>4. n \in Nat
  BY LenProperties
<1> DEFINE kept == CHOOSE g : g = [i \in 0..n |-> Value(g, i)]
<1>5. kept = [i \in 0..n |-> Value(kept, i)]
  <2>1. \E g : g = [i \in 0..n |-> Value(g, i)]
    BY <1>3, <1>4
  <2> HIDE DEF Value
  <2>2. QED
    BY <2>1
<1>6. Select(s, T) = kept[n]
  BY DEF Select
<1> HIDE DEF kept
<1>7. kept[0] = <<>>
  BY <1>4, <1>5
<1>8. ASSUME NEW i \in 1..n
      PROVE  kept[i] = IF s[i] \in T THEN Append(kept[i - 1], s[i]) ELSE kept[i - 1]
  <2>1. i \in 0..n /\ i # 0
    BY <1>4
  <2>2. kept[i] = Value(kept, i)
    <3> HIDE DEF Value
    <3>1. QED
      BY <1>5, <2>1
  <2>3. QED
    BY <2>1, <2>2
<1>9. QED
  BY <1>6, <1>7, <1>8

\* The places of a list that hold members of T.
Places(s, T, n) == {j \in 1..n : s[j] \in T}

\* One more place.
LEMMA PlacesNext ==
    ASSUME NEW s, NEW T, NEW n \in Nat
    PROVE  /\ IsFiniteSet(Places(s, T, n)) /\ Cardinality(Places(s, T, n)) \in Nat
           /\ s[n + 1] \in T => Cardinality(Places(s, T, n + 1)) = Cardinality(Places(s, T, n)) + 1
           /\ s[n + 1] \notin T => Cardinality(Places(s, T, n + 1)) = Cardinality(Places(s, T, n))
<1>1. IsFiniteSet(1..n)
  BY FS_Interval
<1>2. IsFiniteSet(Places(s, T, n)) /\ Cardinality(Places(s, T, n)) \in Nat
  BY <1>1, FS_Subset, FS_CardinalityType DEF Places
<1>3. CASE s[n + 1] \in T
  <2>1. Places(s, T, n + 1) = Places(s, T, n) \cup {n + 1} /\ n + 1 \notin Places(s, T, n)
    BY <1>3 DEF Places
  <2>2. QED
    BY <1>2, <1>3, <2>1, FS_AddElement
<1>4. CASE s[n + 1] \notin T
  <2>1. Places(s, T, n + 1) = Places(s, T, n)
    BY <1>4 DEF Places
  <2>2. QED
    BY <1>2, <1>4, <2>1
<1>5. QED
  BY <1>2, <1>3, <1>4

\* r has the members of s that are in T, and no other, each as often as s has it.
Selection(r, s, T) ==
    /\ Len(r) = Cardinality(Places(s, T, Len(s)))
    /\ \A x : (\E j \in 1..Len(r) : r[j] = x) <=> x \in T /\ \E j \in 1..Len(s) : s[j] = x

\* What Select returns.
LEMMA SelectProperties ==
    ASSUME NEW S, NEW s \in Seq(S), NEW T
    PROVE  Select(s, T) \in Seq(S) /\ Selection(Select(s, T), s, T)
<1> DEFINE Holds(l, i) == /\ l \in Seq(S)
                          /\ Len(l) = Cardinality(Places(s, T, i))
                          /\ \A x : (\E j \in 1..Len(l) : l[j] = x)
                                        <=> x \in T /\ \E j \in 1..i : s[j] = x
<1>1. PICK g : /\ g[0] = <<>>
               /\ \A i \in 1..Len(s) :
                     g[i] = IF s[i] \in T THEN Append(g[i - 1], s[i]) ELSE g[i - 1]
               /\ Select(s, T) = g[Len(s)]
  BY SelectSteps
<1>2. Len(s) \in Nat /\ \A i \in 1..Len(s) : s[i] \in S
  BY LenProperties, ElementOfSeq
<1> DEFINE Good == {i \in Nat : i <= Len(s) => Holds(g[i], i)}
<1> HIDE DEF Holds
<1>3. 0 \in Good
  <2>1. Places(s, T, 0) = {}
    BY DEF Places
  <2>2. Cardinality({}) = 0
    BY FS_EmptySet
  <2>3. Holds(<<>>, 0)
    BY <2>1, <2>2 DEF Holds
  <2>4. QED
    BY <1>1, <2>3
<1>4. ASSUME NEW i \in Nat, i \in Good PROVE i + 1 \in Good
  <2> SUFFICES ASSUME i + 1 <= Len(s) PROVE Holds(g[i + 1], i + 1)
    OBVIOUS
  <2> DEFINE l == g[i]
             y == s[i + 1]
  <2>1. Holds(l, i)
    BY <1>2, <1>4
  <2>2. i + 1 \in 1..Len(s) /\ (i + 1) - 1 = i
    BY <1>2
  <2>3. g[i + 1] = (IF y \in T THEN Append(l, y) ELSE l) /\ y \in S
    BY <1>1, <1>2, <2>2
  <2>4. /\ y \in T => Cardinality(Places(s, T, i + 1)) = Cardinality(Places(s, T, i)) + 1
        /\ y \notin T => Cardinality(Places(s, T, i + 1)) = Cardinality(Places(s, T, i))
    BY PlacesNext
  <2>5. \A x : (\E j \in 1..(i + 1) : s[j] = x) <=> (\E j \in 1..i : s[j] = x) \/ y = x
    <3>1. 1..(i + 1) = 1..i \cup {i + 1}
      OBVIOUS
    <3>2. QED
      BY <3>1
  <2>6. CASE y \in T
    <3>1. /\ Append(l, y) \in Seq(S) /\ Len(Append(l, y)) = Len(l) + 1
          /\ \A j \in 1..Len(l) : Append(l, y)[j] = l[j]
          /\ Append(l, y)[Len(l) + 1] = y
      BY <2>1, <2>3, AppendProperties DEF Holds
    <3>2. 1..(Len(l) + 1) = 1..Len(l) \cup {Len(l) + 1}
      BY <2>1, LenProperties DEF Holds
    <3> DEFINE m == Append(l, y)
    <3> HIDE DEF m, l, y
    <3>3. \A x : (\E j \in 1..Len(m) : m[j] = x) <=> (\E j \in 1..Len(l) : l[j] = x) \/ y = x
      BY <3>1, <3>2 DEF m
    <3>4. Holds(m, i + 1)
      BY <2>1, <2>4, <2>5, <2>6, <3>1, <3>3 DEF m, Holds
    <3>5. QED
      BY <2>3, <2>6, <3>4 DEF m
  <2>7. CASE y \notin T
    <3>1. g[i + 1] = l
      BY <2>3, <2>7
    <3>2. Len(l) = Cardinality(Places(s, T, i + 1))
      BY <2>1, <2>4, <2>7, PlacesNext DEF Holds
    <3> HIDE DEF l, y
    <3>3. Holds(l, i + 1)
      BY <2>1, <2>5, <2>7, <3>2 DEF Holds
    <3>4. QED
      BY <3>1, <3>3
  <2>8. QED
    BY <2>6, <2>7
<1>5. \A i \in Nat : i \in Good
  <2> HIDE DEF Good
  <2>1. QED
    BY <1>3, <1>4, SetInduction
<1>6. Holds(g[Len(s)], Len(s))
  BY <1>2, <1>5
<1>7. Holds(Select(s, T), Len(s))
  BY <1>1, <1>6
<1>8. QED
  BY <1>7 DEF Holds, Selection

\* What is chosen from a list without doubles has none.
LEMMA SelectInjective ==
    ASSUME NEW S, NEW s \in Seq(S), NEW T, IsInjective(s)
    PROVE  IsInjective(Select(s, T))
<1> DEFINE Holds(l, i) == /\ l \in Seq(S)
                          /\ \A j \in 1..Len(l) : \E n \in 1..i : l[j] = s[n]
                          /\ \A j, n \in 1..Len(l) : l[j] = l[n] => j = n
<1>1. PICK g : /\ g[0] = <<>>
               /\ \A i \in 1..Len(s) :
                     g[i] = IF s[i] \in T THEN Append(g[i - 1], s[i]) ELSE g[i - 1]
               /\ Select(s, T) = g[Len(s)]
  BY SelectSteps
<1>2. /\ Len(s) \in Nat /\ \A i \in 1..Len(s) : s[i] \in S
      /\ \A i, j \in 1..Len(s) : s[i] = s[j] => i = j
  BY LenProperties, ElementOfSeq DEF IsInjective
<1> DEFINE Good == {i \in Nat : i <= Len(s) => Holds(g[i], i)}
<1> HIDE DEF Holds
<1>3. 0 \in Good
  <2>1. Holds(<<>>, 0)
    BY DEF Holds
  <2>2. QED
    BY <1>1, <2>1
<1>4. ASSUME NEW i \in Nat, i \in Good PROVE i + 1 \in Good
  <2> SUFFICES ASSUME i + 1 <= Len(s) PROVE Holds(g[i + 1], i + 1)
    OBVIOUS
  <2> DEFINE l == g[i]
             y == s[i + 1]
             m == Append(l, y)
  <2>1. Holds(l, i)
    BY <1>2, <1>4
  <2>2. i + 1 \in 1..Len(s) /\ (i + 1) - 1 = i /\ \A n \in 1..i : n \in 1..Len(s) /\ n # i + 1
    BY <1>2
  <2>3. g[i + 1] = (IF y \in T THEN m ELSE l) /\ y \in S
    BY <1>1, <1>2, <2>2
  <2>4. \A n \in 1..i : n \in 1..(i + 1)
    OBVIOUS
  <2>5. Holds(l, i + 1)
    BY <2>1, <2>4 DEF Holds
  <2>6. /\ m \in Seq(S) /\ Len(m) = Len(l) + 1 /\ Len(l) \in Nat
        /\ \A j \in 1..Len(l) : m[j] = l[j]
        /\ m[Len(l) + 1] = y
    BY <2>1, <2>3, AppendProperties, LenProperties DEF Holds
  <2>7. \A j \in 1..Len(l) : l[j] # y
    BY <1>2, <2>1, <2>2 DEF Holds
  <2> HIDE DEF m, l
  <2>8. \A j \in 1..Len(m) : j \in 1..Len(l) \/ j = Len(l) + 1
    BY <2>6
  <2>9. Holds(m, i + 1)
    <3>1. \A j \in 1..Len(m) : \E n \in 1..(i + 1) : m[j] = s[n]
      <4>1. i + 1 \in 1..(i + 1)
        OBVIOUS
      <4>2. QED
        BY <2>5, <2>6, <2>8, <4>1 DEF Holds
    <3>2. \A j, n \in 1..Len(m) : m[j] = m[n] => j = n
      BY <2>5, <2>6, <2>7, <2>8 DEF Holds
    <3>3. QED
      BY <2>6, <3>1, <3>2 DEF Holds
  <2>10. QED
    BY <2>3, <2>5, <2>9
<1>5. \A i \in Nat : i \in Good
  <2> HIDE DEF Good
  <2>1. QED
    BY <1>3, <1>4, SetInduction
<1>6. Holds(Select(s, T), Len(s))
  BY <1>1, <1>2, <1>5
<1>7. QED
  BY <1>6, LenProperties DEF Holds, IsInjective

---------------------------------------------------------------------------
(* Bytes and where they are.                                               *)

\* The bytes x are in the datagram b, after the first i.
At(b, i, x) ==
    /\ i \in Nat /\ x \in Seq(Byte) /\ i + Len(x) <= Len(b)
    /\ \A j \in 1..Len(x) : b[i + j] = x[j]

\* IsBytes, not Len(x) = 4: that the provers take apart into the domain of x.

LEMMA BytesAreSeq ==
    ASSUME NEW S, NEW n \in Nat, NEW s \in [1..n -> S]
    PROVE  s \in Seq(S) /\ Len(s) = n
<1>1. s \in Seq(S)
  BY SeqDef
<1>2. DOMAIN s = 1..n /\ DOMAIN s = 1..Len(s) /\ Len(s) \in Nat
  BY <1>1, LenProperties
<1>3. Len(s) = n
  BY <1>2
<1>4. QED
  BY <1>1, <1>3

\* Bytes after bytes.
LEMMA ConcatBytes ==
    ASSUME NEW x, NEW y, NEW k, NEW l, IsBytes(x, k), IsBytes(y, l)
    PROVE  IsBytes(x \o y, k + l)
<1>1. x \in Seq(Byte) /\ y \in Seq(Byte) /\ k \in Nat /\ l \in Nat /\ Len(x) = k /\ Len(y) = l
  BY DEF IsBytes
<1>2. x \o y \in Seq(Byte) /\ Len(x \o y) = Len(x) + Len(y)
  BY <1>1, ConcatProperties
<1>3. k + l \in Nat
  BY <1>1
<1>4. QED
  BY <1>1, <1>2, <1>3 DEF IsBytes

\* Where two sequences are, each of them is.
LEMMA AtConcat ==
    ASSUME NEW b, NEW i, NEW x \in Seq(Byte), NEW y \in Seq(Byte), At(b, i, x \o y), Len(b) \in Nat
    PROVE  At(b, i, x) /\ At(b, i + Len(x), y)
<1> DEFINE z == x \o y
<1>1. /\ Len(x) \in Nat /\ Len(y) \in Nat /\ Len(z) = Len(x) + Len(y)
      /\ \A j \in 1..(Len(x) + Len(y)) : z[j] = IF j <= Len(x) THEN x[j] ELSE y[j - Len(x)]
  BY ConcatProperties, LenProperties
<1> HIDE DEF z
<1>2. i \in Nat /\ i + Len(z) <= Len(b) /\ \A j \in 1..Len(z) : b[i + j] = z[j]
  BY DEF At, z
<1>3. ASSUME NEW j \in 1..Len(x) PROVE b[i + j] = x[j]
  <2>1. j \in 1..Len(z) /\ j <= Len(x)
    BY <1>1
  <2>2. QED
    BY <1>1, <1>2, <2>1
<1>4. ASSUME NEW j \in 1..Len(y) PROVE b[i + Len(x) + j] = y[j]
  <2>1. Len(x) + j \in 1..Len(z) /\ ~ (Len(x) + j <= Len(x)) /\ Len(x) + j - Len(x) = j
    BY <1>1
  <2>2. b[i + (Len(x) + j)] = y[j]
    BY <1>1, <1>2, <2>1
  <2>3. i + (Len(x) + j) = i + Len(x) + j
    BY <1>1, <1>2
  <2>4. QED
    BY <2>2, <2>3
<1>5. i + Len(x) \in Nat /\ i + Len(x) <= Len(b) /\ i + Len(x) + Len(y) <= Len(b)
  BY <1>1, <1>2
<1>6. QED
  BY <1>2, <1>3, <1>4, <1>5 DEF At

LEMMA BytesAt ==
    ASSUME NEW b, Len(b) \in Nat, NEW i, NEW x, NEW y, NEW k, NEW l,
           IsBytes(x, k), IsBytes(y, l), At(b, i, x \o y)
    PROVE  At(b, i, x) /\ At(b, i + k, y)
BY AtConcat DEF IsBytes

---------------------------------------------------------------------------
(* Parts behind each other.                                                *)

\* FlattenSeq as the sequence of sequences it goes through.
LEMMA FlattenSteps ==
    ASSUME NEW S, NEW n \in Nat, NEW s \in [1..n -> Seq(S)]
    PROVE  \E g : /\ g[0] = <<>>
                  /\ \A i \in 1..n : g[i] = g[i - 1] \o s[i]
                  /\ FlattenSeq(s) = g[n]
<1> DEFINE Value(g, i) == IF i = 1 THEN s[i] ELSE g[i - 1] \o s[i]
           Iter(g, k) == g = [i \in 1..k |-> Value(g, i)]
           Some == {k \in Nat : \E g : Iter(g, k)}
<1>1. 0 \in Some
  <2> DEFINE g == [i \in 1..0 |-> <<>>]
  <2>1. g = [i \in 1..0 |-> Value(g, i)]
    OBVIOUS
  <2>2. QED
    BY <2>1
<1>2. ASSUME NEW k \in Nat, k \in Some PROVE k + 1 \in Some
  <2>1. PICK g : Iter(g, k)
    BY <1>2
  <2> DEFINE h == [i \in 1..(k + 1) |-> Value(g, i)]
  <2>2. ASSUME NEW i \in 1..k PROVE h[i] = g[i]
    <3>1. i \in 1..(k + 1)
      OBVIOUS
    <3>2. g[i] = Value(g, i)
      BY <2>1
    <3> HIDE DEF Value
    <3>3. QED
      BY <3>1, <3>2
  <2>3. ASSUME NEW i \in 1..(k + 1) PROVE Value(g, i) = Value(h, i)
    <3>1. CASE i = 1
      BY <3>1
    <3>2. CASE i # 1
      <4>1. g[i - 1] = h[i - 1]
        <5>1. i - 1 \in 1..k
          BY <3>2
        <5>2. QED
          BY <2>2, <5>1
      <4> HIDE DEF h
      <4>2. QED
        BY <3>2, <4>1
    <3>3. QED
      BY <3>1, <3>2
  <2>4. h = [i \in 1..(k + 1) |-> Value(h, i)]
    <3> HIDE DEF Value
    <3>1. QED
      BY <2>3
  <2> HIDE DEF Value, h
  <2>5. Iter(h, k + 1)
    BY <2>4
  <2>6. \E next : Iter(next, k + 1)
    BY <2>5
  <2>7. QED
    BY <2>6
<1>3. \A k \in Nat : k \in Some
  <2> HIDE DEF Some
  <2>1. QED
    BY <1>1, <1>2, SetInduction
<1>4. Len(s) = n
  BY BytesAreSeq
<1>5. CASE n = 0
  <2> DEFINE g == [i \in {0} |-> <<>>]
  <2>1. s = <<>>
    <3>1. s \in Seq(Seq(S))
      BY BytesAreSeq
    <3>2. QED
      BY <1>4, <1>5, <3>1, EmptySeq
  <2>2. FlattenSeq(s) = g[n]
    BY <1>4, <1>5, <2>1 DEF FlattenSeq
  <2>3. g[0] = <<>> /\ \A i \in 1..n : g[i] = g[i - 1] \o s[i]
    BY <1>5
  <2> HIDE DEF g
  <2>4. QED
    BY <2>2, <2>3
<1>6. CASE n # 0
  <2> DEFINE iter == CHOOSE g : g = [i \in 1..n |-> Value(g, i)]
  <2>1. iter = [i \in 1..n |-> Value(iter, i)]
    <3>1. \E g : g = [i \in 1..n |-> Value(g, i)]
      BY <1>3
    <3> HIDE DEF Value
    <3>2. QED
      BY <3>1
  <2>2. FlattenSeq(s) = iter[n]
    BY <1>4, <1>6 DEF FlattenSeq
  <2> HIDE DEF iter
  <2> DEFINE g == [i \in 0..n |-> IF i = 0 THEN <<>> ELSE iter[i]]
  <2>3. ASSUME NEW i \in 1..n PROVE g[i] = g[i - 1] \o s[i]
    <3>0. iter[i] = Value(iter, i)
      <4> HIDE DEF Value
      <4>1. QED
        BY <2>1
    <3>1. g[i] = iter[i] /\ iter[i] = Value(iter, i)
      <4>1. i \in 0..n /\ i # 0
        OBVIOUS
      <4> HIDE DEF Value
      <4>2. QED
        BY <3>0, <4>1
    <3>2. CASE i = 1
      <4>1. g[i - 1] = <<>>
        BY <3>2
      <4>2. s[i] \in Seq(S)
        OBVIOUS
      <4>3. <<>> \o s[i] = s[i]
        BY <4>2, ConcatEmptySeq
      <4> HIDE DEF g
      <4>4. QED
        BY <3>1, <3>2, <4>1, <4>3
    <3>3. CASE i # 1
      <4>1. g[i - 1] = iter[i - 1]
        BY <3>3
      <4> HIDE DEF g
      <4>2. QED
        BY <3>1, <3>3, <4>1
    <3>4. QED
      BY <3>2, <3>3
  <2>4. g[0] = <<>> /\ g[n] = iter[n]
    BY <1>6
  <2> HIDE DEF g
  <2>5. QED
    BY <2>2, <2>3, <2>4
<1>7. QED
  BY <1>5, <1>6

\* What FlattenSeq goes through is made of the same things.
LEMMA FlattenTypes ==
    ASSUME NEW S, NEW n \in Nat, NEW s \in [1..n -> Seq(S)], NEW g, g[0] = <<>>,
           \A i \in 1..n : g[i] = g[i - 1] \o s[i]
    PROVE  \A k \in 0..n : g[k] \in Seq(S) /\ Len(g[k]) \in Nat
<1> DEFINE T == {k \in Nat : k <= n => g[k] \in Seq(S)}
<1>1. \A k \in Nat : k \in T
  <2>1. 0 \in T
    BY EmptySeq
  <2>2. ASSUME NEW k \in Nat, k \in T PROVE k + 1 \in T
    <3> SUFFICES ASSUME k + 1 <= n PROVE g[k + 1] \in Seq(S)
      OBVIOUS
    <3>1. PICK j \in 1..n : j = k + 1 /\ j - 1 = k
      OBVIOUS
    <3>2. g[j - 1] \in Seq(S)
      BY <2>2, <3>1
    <3>3. s[j] \in Seq(S)
      OBVIOUS
    <3>4. g[j] = g[j - 1] \o s[j]
      OBVIOUS
    <3>5. g[j] \in Seq(S)
      BY <3>2, <3>3, <3>4, ConcatProperties
    <3>6. QED
      BY <3>1, <3>5
  <2> HIDE DEF T
  <2>3. QED
    BY <2>1, <2>2, SetInduction
<1>2. \A k \in 0..n : g[k] \in Seq(S) /\ Len(g[k]) \in Nat
  BY <1>1, LenProperties
<1>3. QED
  BY <1>2

\* Sequences of bytes one after the other, and where each of them is.
LEMMA FlattenType ==
    ASSUME NEW S, NEW n \in Nat, NEW s \in [1..n -> Seq(S)]
    PROVE  FlattenSeq(s) \in Seq(S)
<1>1. PICK g : /\ g[0] = <<>>
               /\ \A i \in 1..n : g[i] = g[i - 1] \o s[i]
               /\ FlattenSeq(s) = g[n]
  BY FlattenSteps
<1>2. g[n] \in Seq(S)
  <2>1. \A k \in 0..n : g[k] \in Seq(S)
    BY <1>1, FlattenTypes
  <2>2. QED
    BY <2>1
<1>3. QED
  BY <1>1, <1>2

\* Where the parts s of what was put together are: p[j] is the place after the jth.
PartsAt(b, i, n, s, p) ==
    /\ p \in [0..n -> Nat]
    /\ p[0] = i
    /\ \A j \in 1..n : p[j] = p[j - 1] + Len(s[j]) /\ At(b, p[j - 1], s[j])
    /\ p[n] = i + Len(FlattenSeq(s))

LEMMA PartsFound ==
    ASSUME NEW b, Len(b) \in Nat, NEW i, NEW n \in Nat, NEW s \in [1..n -> Seq(Byte)],
           At(b, i, FlattenSeq(s))
    PROVE  \E p : PartsAt(b, i, n, s, p)
<1>1. PICK g : /\ g[0] = <<>>
               /\ \A j \in 1..n : g[j] = g[j - 1] \o s[j]
               /\ FlattenSeq(s) = g[n]
  BY FlattenSteps
<1>3. \A k \in 0..n : g[k] \in Seq(Byte) /\ Len(g[k]) \in Nat
  BY <1>1, FlattenTypes
<1> DEFINE U == {k \in Nat : k <= n => At(b, i, g[n - k])}
<1>4. \A k \in Nat : k \in U
  <2>1. 0 \in U
    BY <1>1
  <2>2. ASSUME NEW k \in Nat, k \in U PROVE k + 1 \in U
    <3> SUFFICES ASSUME k + 1 <= n PROVE At(b, i, g[n - (k + 1)])
      OBVIOUS
    <3>1. n - k \in 1..n /\ n - k - 1 = n - (k + 1) /\ n - (k + 1) \in 0..n
      OBVIOUS
    <3>2. g[n - k] = g[n - (k + 1)] \o s[n - k]
      BY <1>1, <3>1
    <3>3. At(b, i, g[n - k])
      BY <2>2
    <3>4. QED
      BY <1>3, <3>1, <3>2, <3>3, AtConcat
  <2> HIDE DEF U
  <2>3. QED
    BY <2>1, <2>2, SetInduction
<1>5. ASSUME NEW k \in 0..n PROVE At(b, i, g[k])
  <2>1. n - k \in Nat /\ n - k <= n /\ n - (n - k) = k
    OBVIOUS
  <2>2. QED
    BY <1>4, <2>1
<1> HIDE DEF U
<1>0. i \in Nat
  BY DEF At
<1> DEFINE p == [j \in 0..n |-> i + Len(g[j])]
<1>6. p \in [0..n -> Nat]
  BY <1>0, <1>3
<1>7. p[0] = i
  BY <1>0, <1>1, EmptySeq
<1>8. p[n] = i + Len(FlattenSeq(s))
  BY <1>1
<1>9. ASSUME NEW j \in 1..n PROVE p[j] = p[j - 1] + Len(s[j]) /\ At(b, p[j - 1], s[j])
  <2>1. j - 1 \in 0..n /\ j \in 0..n
    OBVIOUS
  <2>2. p[j] = i + Len(g[j]) /\ p[j - 1] = i + Len(g[j - 1])
    BY <2>1
  <2> HIDE DEF p
  <2>3. g[j] = g[j - 1] \o s[j] /\ g[j - 1] \in Seq(Byte) /\ s[j] \in Seq(Byte)
    BY <1>1, <1>3, <2>1
  <2>4. Len(g[j]) = Len(g[j - 1]) + Len(s[j]) /\ Len(s[j]) \in Nat /\ Len(g[j - 1]) \in Nat
    BY <2>3, ConcatProperties, LenProperties
  <2>5. At(b, i, g[j - 1] \o s[j])
    BY <1>5, <2>1, <2>3
  <2>6. At(b, i + Len(g[j - 1]), s[j])
    BY <2>3, <2>5, AtConcat
  <2>7. QED
    BY <1>0, <2>2, <2>4, <2>6
<1> HIDE DEF p
<1>10. QED
  BY <1>6, <1>7, <1>8, <1>9 DEF PartsAt

\* w is the k items of x and the l items of y.
Joins(w, x, k, y, l) ==
    /\ \E S : x \in Seq(S) /\ y \in Seq(S) /\ w \in Seq(S)
    /\ Len(x) = k /\ Len(y) = l /\ Len(w) = k + l
    /\ \A i \in 1..k : w[i] = x[i]
    /\ \A i \in 1..l : w[k + i] = y[i]

\* The layouts of wire.c, put together.
LEMMA Joined ==
    ASSUME NEW w, NEW x, NEW k, NEW y, NEW l, Joins(w, x, k, y, l)
    PROVE  x \o y = w
<1>0. PICK S : x \in Seq(S) /\ y \in Seq(S) /\ w \in Seq(S)
  BY DEF Joins
<1> DEFINE z == x \o y
<1>1. z \in Seq(S) /\ Len(z) = k + l /\ k \in Nat /\ l \in Nat
      /\ \A i \in 1..(k + l) : z[i] = IF i <= k THEN x[i] ELSE y[i - k]
  BY <1>0, ConcatProperties, LenProperties DEF Joins
<1> HIDE DEF z
<1>2. ASSUME NEW i \in 1..(k + l) PROVE z[i] = w[i]
  <2>1. CASE i <= k
    <3>1. i \in 1..k
      BY <1>1, <2>1
    <3>2. QED
      BY <1>1, <2>1, <3>1 DEF Joins
  <2>2. CASE ~ (i <= k)
    <3>1. PICK j \in 1..l : i = k + j /\ i - k = j
      BY <1>1, <2>2
    <3>2. QED
      BY <1>1, <2>2, <3>1 DEF Joins
  <2>3. QED
    BY <2>1, <2>2
<1>3. z = w
  BY <1>0, <1>1, <1>2, SeqEqual DEF Joins
<1>4. QED
  BY <1>3 DEF z

\* (An equation that the provers do not use to replace b.)
Is(b, x) == b = x

---------------------------------------------------------------------------
(* XOR and words.                                                          *)

\* A half byte by its bits, and the bits of a number that is made of four.
BitSum(p, q, r, s) == 8 * p + 4 * q + 2 * r + s

Binary == {0, 1}

LEMMA BitsOfSum ==
    ASSUME NEW p \in Binary, NEW q \in Binary, NEW r \in Binary, NEW s \in Binary
    PROVE  LET n == BitSum(p, q, r, s)
           IN  /\ n \in 0..15
               /\ (n \div 8) % 2 = p /\ (n \div 4) % 2 = q /\ (n \div 2) % 2 = r /\ (n \div 1) % 2 = s
BY DEF BitSum, Binary

LEMMA NibbleBits ==
    ASSUME NEW a \in 0..15
    PROVE  /\ (a \div 8) % 2 \in Binary /\ (a \div 4) % 2 \in Binary
           /\ (a \div 2) % 2 \in Binary /\ (a \div 1) % 2 \in Binary
           /\ a = BitSum((a \div 8) % 2, (a \div 4) % 2, (a \div 2) % 2, (a \div 1) % 2)
BY DEF BitSum, Binary

\* One bit of the XOR.
Differ(p, q) == IF p = q THEN 0 ELSE 1

\* Bits that differ, twice.
LEMMA BitsDiffer ==
    ASSUME NEW p \in Binary, NEW q \in Binary
    PROVE  /\ Differ(p, q) \in Binary /\ Differ(p, q) = Differ(q, p)
           /\ Differ(Differ(p, q), q) = p /\ Differ(0, q) = q
BY DEF Differ, Binary

LEMMA NibbleSum ==
    ASSUME NEW a \in 0..15, NEW b \in 0..15
    PROVE  NibbleXor[a][b] = BitSum(Differ((a \div 8) % 2, (b \div 8) % 2), Differ((a \div 4) % 2, (b \div 4) % 2),
                                    Differ((a \div 2) % 2, (b \div 2) % 2), Differ((a \div 1) % 2, (b \div 1) % 2))
<1>1. \A w : Differs(a, b, w) = IF (a \div w) % 2 = (b \div w) % 2 THEN 0 ELSE w
  BY DEF Differs
<1>2. NibbleXor[a][b] = Differs(a, b, 8) + Differs(a, b, 4) + Differs(a, b, 2) + Differs(a, b, 1)
  BY DEF NibbleXor
<1> DEFINE D(w) == Differ((a \div w) % 2, (b \div w) % 2)
<1>3. Differs(a, b, 8) = 8 * D(8) /\ Differs(a, b, 4) = 4 * D(4) /\ Differs(a, b, 2) = 2 * D(2) /\ Differs(a, b, 1) = D(1)
  BY <1>1 DEF Differ
<1>4. QED
  BY <1>2, <1>3 DEF BitSum

\* Half bytes and bytes differ from each other by what undoes itself.
LEMMA NibbleXors ==
    ASSUME NEW a \in 0..15, NEW b \in 0..15
    PROVE  /\ NibbleXor[a][b] \in 0..15 /\ NibbleXor[a][b] = NibbleXor[b][a]
           /\ NibbleXor[NibbleXor[a][b]][b] = a /\ NibbleXor[0][b] = b
<1> DEFINE A(w) == (a \div w) % 2
           B(w) == (b \div w) % 2
           X(w) == Differ(A(w), B(w))
           n    == NibbleXor[a][b]
<1>1. \A w \in {8, 4, 2, 1} : A(w) \in Binary /\ B(w) \in Binary
  BY NibbleBits
<1>2. a = BitSum(A(8), A(4), A(2), A(1)) /\ b = BitSum(B(8), B(4), B(2), B(1))
  BY NibbleBits
<1>3. n = BitSum(X(8), X(4), X(2), X(1))
  BY NibbleSum
<1>4. NibbleXor[b][a] = BitSum(Differ(B(8), A(8)), Differ(B(4), A(4)), Differ(B(2), A(2)), Differ(B(1), A(1)))
  BY NibbleSum
<1>5. NibbleXor[0][b] = BitSum(Differ(0, B(8)), Differ(0, B(4)), Differ(0, B(2)), Differ(0, B(1)))
  <2>1. 0 \in 0..15 /\ (0 \div 8) % 2 = 0 /\ (0 \div 4) % 2 = 0 /\ (0 \div 2) % 2 = 0 /\ (0 \div 1) % 2 = 0
    <3>1. 0 \in 0..15 /\ 0 \div 8 = 0 /\ 0 \div 4 = 0
      OBVIOUS
    <3>2. 0 \div 2 = 0 /\ 0 \div 1 = 0 /\ 0 % 2 = 0
      OBVIOUS
    <3>3. QED
      BY <3>1, <3>2
  <2>2. NibbleXor[0][b] = BitSum(Differ((0 \div 8) % 2, B(8)), Differ((0 \div 4) % 2, B(4)),
                                 Differ((0 \div 2) % 2, B(2)), Differ((0 \div 1) % 2, B(1)))
    BY <2>1, NibbleSum
  <2>3. QED
    BY <2>1, <2>2
<1> HIDE DEF A, B
<1>6. \A w \in {8, 4, 2, 1} : /\ X(w) \in Binary /\ X(w) = Differ(B(w), A(w))
                              /\ Differ(X(w), B(w)) = A(w) /\ Differ(0, B(w)) = B(w)
  BY <1>1, BitsDiffer
<1> HIDE DEF X
<1>7. n \in 0..15 /\ (n \div 8) % 2 = X(8) /\ (n \div 4) % 2 = X(4) /\ (n \div 2) % 2 = X(2) /\ (n \div 1) % 2 = X(1)
  <2>1. X(8) \in Binary /\ X(4) \in Binary /\ X(2) \in Binary /\ X(1) \in Binary
    BY <1>6
  <2>2. QED
    BY <1>3, <2>1, BitsOfSum
<1>8. NibbleXor[n][b] = BitSum(Differ(X(8), B(8)), Differ(X(4), B(4)), Differ(X(2), B(2)), Differ(X(1), B(1)))
  <2> HIDE DEF n
  <2>1. NibbleXor[n][b] = BitSum(Differ((n \div 8) % 2, B(8)), Differ((n \div 4) % 2, B(4)),
                                 Differ((n \div 2) % 2, B(2)), Differ((n \div 1) % 2, B(1)))
    <3>1. NibbleXor[n][b] = BitSum(Differ((n \div 8) % 2, (b \div 8) % 2), Differ((n \div 4) % 2, (b \div 4) % 2),
                                   Differ((n \div 2) % 2, (b \div 2) % 2), Differ((n \div 1) % 2, (b \div 1) % 2))
      BY <1>7, NibbleSum, Zenon
    <3>2. QED
      BY <3>1, Zenon DEF B
  <2>2. QED
    BY <1>7, <2>1
<1>9. QED
  BY <1>2, <1>3, <1>4, <1>5, <1>6, <1>7, <1>8

\* A byte by its halves.
LEMMA HalfBytes ==
    ASSUME NEW h \in 0..15, NEW l \in 0..15
    PROVE  16 * h + l \in 0..255 /\ (16 * h + l) \div 16 = h /\ (16 * h + l) % 16 = l
OBVIOUS

Halved(a) == a \div 16 \in 0..15 /\ a % 16 \in 0..15 /\ a = 16 * (a \div 16) + (a % 16)

LEMMA ByteHalves ==
    ASSUME NEW a \in Byte
    PROVE  Halved(a)
BY DEF Byte, Halved

LEMMA XorBytes ==
    ASSUME NEW a \in Byte, NEW b \in Byte
    PROVE  /\ XorByte(a, b) \in Byte /\ XorByte(XorByte(a, b), b) = a
           /\ XorByte(a, b) = XorByte(b, a) /\ XorByte(0, b) = b
<1> DEFINE high == NibbleXor[a \div 16][b \div 16]
           low  == NibbleXor[a % 16][b % 16]
           x    == XorByte(a, b)
<1>1. /\ a \div 16 \in 0..15 /\ a % 16 \in 0..15 /\ a = 16 * (a \div 16) + (a % 16)
      /\ b \div 16 \in 0..15 /\ b % 16 \in 0..15 /\ b = 16 * (b \div 16) + (b % 16)
  <2>1. Halved(a) /\ Halved(b)
    BY ByteHalves, Zenon
  <2>2. QED
    BY <2>1, Zenon DEF Halved
<1>2. /\ high \in 0..15 /\ NibbleXor[high][b \div 16] = a \div 16 /\ NibbleXor[0][b \div 16] = b \div 16
      /\ high = NibbleXor[b \div 16][a \div 16]
  BY <1>1, NibbleXors, Zenon
<1>3. /\ low \in 0..15 /\ NibbleXor[low][b % 16] = a % 16 /\ NibbleXor[0][b % 16] = b % 16
      /\ low = NibbleXor[b % 16][a % 16]
  BY <1>1, NibbleXors, Zenon
<1>4. x = 16 * high + low
  BY DEF XorByte
<1> HIDE DEF high, low, x
<1>5. x \in Byte /\ x \div 16 = high /\ x % 16 = low
  <2>1. high \in 0..15 /\ low \in 0..15
    BY <1>2, <1>3
  <2>2. 16 * high + low \in 0..255 /\ (16 * high + low) \div 16 = high /\ (16 * high + low) % 16 = low
    BY <2>1, HalfBytes
  <2>3. QED
    BY <1>4, <2>2 DEF Byte
<1>6. XorByte(x, b) = a
  BY <1>1, <1>2, <1>3, <1>5 DEF XorByte
<1>7. XorByte(b, a) = x
  BY <1>2, <1>3, <1>4 DEF XorByte
<1>8. XorByte(0, b) = b
  <2>1. 0 \div 16 = 0 /\ 0 % 16 = 0
    OBVIOUS
  <2>2. QED
    BY <1>1, <1>2, <1>3, <2>1 DEF XorByte
<1>9. x \in Byte
  BY <1>5
<1>10. QED
  BY <1>6, <1>7, <1>8, <1>9, Zenon DEF x

\* Bytes, as functions.
LEMMA BytesFunction ==
    ASSUME NEW n, NEW x
    PROVE  IsBytes(x, n) <=> n \in Nat /\ x \in [1..n -> Byte]
<1>1. ASSUME IsBytes(x, n) PROVE n \in Nat /\ x \in [1..n -> Byte]
  <2>1. n \in Nat /\ x \in Seq(Byte) /\ Len(x) = n
    BY <1>1 DEF IsBytes
  <2>2. x \in [1..Len(x) -> Byte]
    BY <2>1, LenProperties
  <2>3. QED
    BY <2>1, <2>2
<1>2. ASSUME n \in Nat, x \in [1..n -> Byte] PROVE IsBytes(x, n)
  BY <1>2, BytesAreSeq DEF IsBytes
<1>3. QED
  BY <1>1, <1>2

LEMMA BytesEqual ==
    ASSUME NEW n, NEW x, NEW y, IsBytes(x, n), IsBytes(y, n), \A i \in 1..n : x[i] = y[i]
    PROVE  x = y
<1>1. x \in [1..n -> Byte] /\ y \in [1..n -> Byte]
  BY BytesFunction
<1>2. x = [i \in 1..n |-> x[i]] /\ y = [i \in 1..n |-> y[i]]
  BY <1>1
<1>3. QED
  BY <1>2, Zenon

\* XOR of sequences undoes itself.
LEMMA XorSeqs ==
    ASSUME NEW n, NEW s, NEW t, IsBytes(s, n), IsBytes(t, n)
    PROVE  /\ IsBytes(XorSeq(s, t), n)
           /\ \A i \in 1..n : XorSeq(s, t)[i] = XorByte(s[i], t[i])
           /\ XorSeq(XorSeq(s, t), t) = s
<1>1. n \in Nat /\ s \in [1..n -> Byte] /\ t \in [1..n -> Byte]
  BY BytesFunction
<1>2. ASSUME NEW u \in [1..n -> Byte]
      PROVE  XorSeq(u, t) \in [1..n -> Byte] /\ \A i \in 1..n : XorSeq(u, t)[i] = XorByte(u[i], t[i])
  <2>1. XorSeq(u, t) = [i \in 1..n |-> XorByte(u[i], t[i])]
    BY DEF XorSeq
  <2>2. \A i \in 1..n : XorByte(u[i], t[i]) \in Byte
    BY <1>1, XorBytes
  <2>3. QED
    BY <2>1, <2>2
<1> DEFINE u == XorSeq(s, t)
<1>3. u \in [1..n -> Byte] /\ \A i \in 1..n : u[i] = XorByte(s[i], t[i])
  BY <1>1, <1>2
<1>4. XorSeq(u, t) \in [1..n -> Byte] /\ \A i \in 1..n : XorSeq(u, t)[i] = XorByte(u[i], t[i])
  BY <1>2, <1>3
<1>5. \A i \in 1..n : XorByte(u[i], t[i]) = s[i]
  BY <1>1, <1>3, XorBytes
<1> HIDE DEF u
<1>6. XorSeq(u, t) = s
  BY <1>1, <1>4, <1>5
<1>7. QED
  BY <1>1, <1>3, <1>6, BytesFunction DEF u

\* Words.
IsWord(w) == IsBytes(w, 4)

\* Words.
LEMMA FourBytes ==
    ASSUME NEW a \in Byte, NEW b \in Byte, NEW c \in Byte, NEW d \in Byte
    PROVE  IsWord(<<a, b, c, d>>)
<1>1. <<a, b, c, d>> \in [1..4 -> Byte]
  OBVIOUS
<1>2. QED
  BY <1>1, BytesFunction DEF IsWord

LEMMA WordBytes ==
    ASSUME NEW w, IsWord(w)
    PROVE  w[1] \in Byte /\ w[2] \in Byte /\ w[3] \in Byte /\ w[4] \in Byte
<1>1. w \in [1..4 -> Byte]
  BY BytesFunction DEF IsWord
<1>2. QED
  BY <1>1

LEMMA WordsEqual ==
    ASSUME NEW v, NEW w, IsWord(v), IsWord(w), v[1] = w[1], v[2] = w[2], v[3] = w[3], v[4] = w[4]
    PROVE  v = w
<1>1. v \in [1..4 -> Byte] /\ w \in [1..4 -> Byte]
  BY BytesFunction DEF IsWord
<1>2. \A i \in 1..4 : i = 1 \/ i = 2 \/ i = 3 \/ i = 4
  OBVIOUS
<1>3. QED
  BY <1>1, <1>2

\* XOR of words undoes itself.
LEMMA XorWords ==
    ASSUME NEW v, NEW w, IsWord(v), IsWord(w)
    PROVE  IsWord(XorWord(v, w)) /\ XorWord(XorWord(v, w), w) = v
<1> DEFINE X(a, i) == XorByte(a[i], w[i])
<1>1. ASSUME NEW a, IsWord(a)
      PROVE  /\ IsWord(XorWord(a, w))
             /\ XorWord(a, w)[1] = X(a, 1) /\ XorWord(a, w)[2] = X(a, 2)
             /\ XorWord(a, w)[3] = X(a, 3) /\ XorWord(a, w)[4] = X(a, 4)
  <2>1. X(a, 1) \in Byte /\ X(a, 2) \in Byte /\ X(a, 3) \in Byte /\ X(a, 4) \in Byte
    BY <1>1, WordBytes, XorBytes
  <2>2. XorWord(a, w) = <<X(a, 1), X(a, 2), X(a, 3), X(a, 4)>>
    BY DEF XorWord
  <2> HIDE DEF X
  <2>3. QED
    BY <2>1, <2>2, FourBytes
<1>2. IsWord(XorWord(v, w))
  BY <1>1
<1> DEFINE u == XorWord(v, w)
<1>3. XorByte(u[1], w[1]) = v[1] /\ XorByte(u[2], w[2]) = v[2] /\ XorByte(u[3], w[3]) = v[3] /\ XorByte(u[4], w[4]) = v[4]
  <2>1. u[1] = X(v, 1) /\ u[2] = X(v, 2) /\ u[3] = X(v, 3) /\ u[4] = X(v, 4)
    BY <1>1
  <2>2. v[1] \in Byte /\ v[2] \in Byte /\ v[3] \in Byte /\ v[4] \in Byte
    BY WordBytes
  <2>3. w[1] \in Byte /\ w[2] \in Byte /\ w[3] \in Byte /\ w[4] \in Byte
    BY WordBytes
  <2>4. /\ XorByte(X(v, 1), w[1]) = v[1] /\ XorByte(X(v, 2), w[2]) = v[2]
        /\ XorByte(X(v, 3), w[3]) = v[3] /\ XorByte(X(v, 4), w[4]) = v[4]
    BY <2>2, <2>3, XorBytes
  <2> HIDE DEF u, X
  <2>5. QED
    BY <2>1, <2>4
<1> HIDE DEF u
<1>4. QED
  BY <1>1, <1>2, <1>3, WordsEqual DEF u

\* A bit from one end of a word to the other.
LEMMA BitMovesLeft ==
    ASSUME NEW a \in Byte, NEW b \in Byte
    PROVE  /\ ((2 * a) % 256) + (b \div 128) \in Byte
           /\ (((2 * a) % 256) + (b \div 128)) \div 2 = a % 128
           /\ (((2 * a) % 256) + (b \div 128)) % 2 = b \div 128
BY DEF Byte

LEMMA BitMovesRight ==
    ASSUME NEW a \in Byte, NEW b \in Byte
    PROVE  /\ (a \div 2) + 128 * (b % 2) \in Byte
           /\ (2 * ((a \div 2) + 128 * (b % 2))) % 256 = 2 * (a \div 2)
           /\ ((a \div 2) + 128 * (b % 2)) \div 128 = b % 2
BY DEF Byte

LEMMA SplitByte ==
    ASSUME NEW a \in Byte
    PROVE  (a % 128) + 128 * (a \div 128) = a /\ 2 * (a \div 2) + (a % 2) = a
BY DEF Byte

\* The bytes of a rotated word.
LEMMA Rotated ==
    ASSUME NEW w, IsWord(w)
    PROVE  /\ IsWord(RotateLeft(w))
           /\ RotateLeft(w)[1] = ((2 * w[1]) % 256) + (w[4] \div 128)
           /\ RotateLeft(w)[2] = ((2 * w[2]) % 256) + (w[1] \div 128)
           /\ RotateLeft(w)[3] = ((2 * w[3]) % 256) + (w[2] \div 128)
           /\ RotateLeft(w)[4] = ((2 * w[4]) % 256) + (w[3] \div 128)
           /\ IsWord(RotateRight(w))
           /\ RotateRight(w)[1] = (w[1] \div 2) + 128 * (w[2] % 2)
           /\ RotateRight(w)[2] = (w[2] \div 2) + 128 * (w[3] % 2)
           /\ RotateRight(w)[3] = (w[3] \div 2) + 128 * (w[4] % 2)
           /\ RotateRight(w)[4] = (w[4] \div 2) + 128 * (w[1] % 2)
<1> DEFINE L(i, j) == ((2 * w[i]) % 256) + (w[j] \div 128)
           R(i, j) == (w[i] \div 2) + 128 * (w[j] % 2)
<1>1. /\ RotateLeft(w) = [i \in 1..4 |-> L(i, IF i = 1 THEN 4 ELSE i - 1)]
      /\ RotateRight(w) = [i \in 1..4 |-> R(i, IF i = 4 THEN 1 ELSE i + 1)]
  BY DEF RotateLeft, RotateRight
<1>2. \A i, j \in 1..4 : L(i, j) \in Byte /\ R(i, j) \in Byte
  <2>1. \A i \in 1..4 : w[i] \in Byte
    BY BytesFunction DEF IsWord
  <2>2. \A i, j \in 1..4 : L(i, j) \in Byte
    BY <2>1, BitMovesLeft
  <2>3. \A i, j \in 1..4 : R(i, j) \in Byte
    BY <2>1, BitMovesRight
  <2> HIDE DEF L, R
  <2>4. QED
    BY <2>2, <2>3
<1> HIDE DEF L, R
<1>3. RotateLeft(w) \in [1..4 -> Byte] /\ RotateRight(w) \in [1..4 -> Byte]
  <2>1. \A i \in 1..4 : (IF i = 1 THEN 4 ELSE i - 1) \in 1..4 /\ (IF i = 4 THEN 1 ELSE i + 1) \in 1..4
    OBVIOUS
  <2>2. QED
    BY <1>1, <1>2, <2>1
<1>4. IsWord(RotateLeft(w)) /\ IsWord(RotateRight(w))
  BY <1>3, BytesFunction DEF IsWord
<1>5. /\ RotateLeft(w)[1] = L(1, 4) /\ RotateLeft(w)[2] = L(2, 1)
      /\ RotateLeft(w)[3] = L(3, 2) /\ RotateLeft(w)[4] = L(4, 3)
  BY <1>1
<1>6. /\ RotateRight(w)[1] = R(1, 2) /\ RotateRight(w)[2] = R(2, 3)
      /\ RotateRight(w)[3] = R(3, 4) /\ RotateRight(w)[4] = R(4, 1)
  BY <1>1
<1>7. QED
  BY <1>4, <1>5, <1>6 DEF L, R

\* The rotations undo each other.
LEMMA RotatedBack ==
    ASSUME NEW w, IsWord(w)
    PROVE  RotateLeft(RotateRight(w)) = w /\ RotateRight(RotateLeft(w)) = w
<1>1. w[1] \in Byte /\ w[2] \in Byte /\ w[3] \in Byte /\ w[4] \in Byte
  BY WordBytes
<1>2. RotateLeft(RotateRight(w)) = w
  <2> DEFINE u == RotateRight(w)
             v == RotateLeft(u)
  <2>1. /\ IsWord(u)
        /\ u[1] = (w[1] \div 2) + 128 * (w[2] % 2) /\ u[2] = (w[2] \div 2) + 128 * (w[3] % 2)
        /\ u[3] = (w[3] \div 2) + 128 * (w[4] % 2) /\ u[4] = (w[4] \div 2) + 128 * (w[1] % 2)
    BY Rotated
  <2> HIDE DEF u
  <2>2. /\ IsWord(v)
        /\ v[1] = ((2 * u[1]) % 256) + (u[4] \div 128) /\ v[2] = ((2 * u[2]) % 256) + (u[1] \div 128)
        /\ v[3] = ((2 * u[3]) % 256) + (u[2] \div 128) /\ v[4] = ((2 * u[4]) % 256) + (u[3] \div 128)
    BY <2>1, Rotated
  <2> HIDE DEF v
  <2>3. /\ (2 * u[1]) % 256 = 2 * (w[1] \div 2) /\ u[1] \div 128 = w[2] % 2
        /\ (2 * u[2]) % 256 = 2 * (w[2] \div 2) /\ u[2] \div 128 = w[3] % 2
    BY <1>1, <2>1, BitMovesRight
  <2>4. /\ (2 * u[3]) % 256 = 2 * (w[3] \div 2) /\ u[3] \div 128 = w[4] % 2
        /\ (2 * u[4]) % 256 = 2 * (w[4] \div 2) /\ u[4] \div 128 = w[1] % 2
    BY <1>1, <2>1, BitMovesRight
  <2>5. v[1] = w[1] /\ v[2] = w[2] /\ v[3] = w[3] /\ v[4] = w[4]
    BY <1>1, <2>2, <2>3, <2>4, SplitByte
  <2>6. QED
    BY <2>2, <2>5, WordsEqual DEF u, v
<1>3. RotateRight(RotateLeft(w)) = w
  <2> DEFINE u == RotateLeft(w)
             v == RotateRight(u)
  <2>1. /\ IsWord(u)
        /\ u[1] = ((2 * w[1]) % 256) + (w[4] \div 128) /\ u[2] = ((2 * w[2]) % 256) + (w[1] \div 128)
        /\ u[3] = ((2 * w[3]) % 256) + (w[2] \div 128) /\ u[4] = ((2 * w[4]) % 256) + (w[3] \div 128)
    BY Rotated
  <2> HIDE DEF u
  <2>2. /\ IsWord(v)
        /\ v[1] = (u[1] \div 2) + 128 * (u[2] % 2) /\ v[2] = (u[2] \div 2) + 128 * (u[3] % 2)
        /\ v[3] = (u[3] \div 2) + 128 * (u[4] % 2) /\ v[4] = (u[4] \div 2) + 128 * (u[1] % 2)
    BY <2>1, Rotated
  <2> HIDE DEF v
  <2>3. /\ u[1] \div 2 = w[1] % 128 /\ u[1] % 2 = w[4] \div 128
        /\ u[2] \div 2 = w[2] % 128 /\ u[2] % 2 = w[1] \div 128
    BY <1>1, <2>1, BitMovesLeft
  <2>4. /\ u[3] \div 2 = w[3] % 128 /\ u[3] % 2 = w[2] \div 128
        /\ u[4] \div 2 = w[4] % 128 /\ u[4] % 2 = w[3] \div 128
    BY <1>1, <2>1, BitMovesLeft
  <2>5. v[1] = w[1] /\ v[2] = w[2] /\ v[3] = w[3] /\ v[4] = w[4]
    BY <1>1, <2>2, <2>3, <2>4, SplitByte
  <2>6. QED
    BY <2>2, <2>5, WordsEqual DEF u, v
<1>4. QED
  BY <1>2, <1>3

\* Sums of words are words.
LEMMA Sums ==
    ASSUME NEW v, NEW w, IsWord(v), IsWord(w)
    PROVE  IsWord(Plus(v, w))
<1>1. /\ v[1] \in Byte /\ v[2] \in Byte /\ v[3] \in Byte /\ v[4] \in Byte
      /\ w[1] \in Byte /\ w[2] \in Byte /\ w[3] \in Byte /\ w[4] \in Byte
  BY WordBytes
<1> DEFINE low  == Half(v, 1) + Half(w, 1)
           high == (Half(v, 3) + Half(w, 3)) + (low \div 65536)
<1>0. \A a, b \in Byte : a + 256 * b \in Int
  BY DEF Byte
<1>2. low \in Int /\ low \div 65536 \in Int
  <2>1. Half(v, 1) = v[1] + 256 * v[2] /\ Half(w, 1) = w[1] + 256 * w[2]
    BY DEF Half
  <2>2. Half(v, 1) \in Int /\ Half(w, 1) \in Int
    BY <1>0, <1>1, <2>1
  <2>3. QED
    BY <2>2
<1>3. Half(v, 3) + Half(w, 3) \in Int
  <2>1. Half(v, 3) = v[3] + 256 * v[4] /\ Half(w, 3) = w[3] + 256 * w[4]
    BY DEF Half
  <2>2. Half(v, 3) \in Int /\ Half(w, 3) \in Int
    BY <1>0, <1>1, <2>1
  <2>3. QED
    BY <2>2
<1>4. high \in Int
  <2> HIDE DEF low
  <2>1. QED
    BY <1>2, <1>3
<1>5. Plus(v, w) = OfHalves(low, high)
  BY DEF Plus
<1> HIDE DEF low, high
<1>6. low % 256 \in Byte /\ (low \div 256) % 256 \in Byte /\ high % 256 \in Byte /\ (high \div 256) % 256 \in Byte
  BY <1>2, <1>4 DEF Byte
<1>7. QED
  BY <1>5, <1>6, FourBytes DEF OfHalves

---------------------------------------------------------------------------
(* Parts of a sequence of bytes.                                           *)

\* Parts of a sequence of bytes.
LEMMA PartAt ==
    ASSUME NEW n, NEW b, IsBytes(b, n), NEW i \in Nat, NEW k \in Nat, i + k <= n
    PROVE  /\ IsBytes(SubSeq(b, i + 1, i + k), k)
           /\ \A j \in 1..k : SubSeq(b, i + 1, i + k)[j] = b[i + j]
           /\ At(b, i, SubSeq(b, i + 1, i + k))
<1> DEFINE lo == i + 1
           hi == i + k
           s  == SubSeq(b, lo, hi)
<1>1. b \in Seq(Byte) /\ Len(b) = n /\ n \in Nat
  BY DEF IsBytes
<1>2. i + 1 \in Int /\ i + k \in Int /\ (i + k) - (i + 1) + 1 = k /\ 1..((i + k) - (i + 1) + 1) = 1..k
  OBVIOUS
<1>3. \A l \in (i + 1)..(i + k) : b[l] \in Byte
  <2>1. \A l \in (i + 1)..(i + k) : l \in 1..n
    BY <1>1
  <2>2. QED
    BY <1>1, <2>1, ElementOfSeq
<1>4. /\ s \in Seq(Byte) /\ Len(s) = (IF lo <= hi THEN hi - lo + 1 ELSE 0)
      /\ \A j \in 1..(hi - lo + 1) : s[j] = b[lo + j - 1]
  <2>1. lo \in Int /\ hi \in Int /\ \A l \in lo..hi : b[l] \in Byte
    BY <1>2, <1>3
  <2> HIDE DEF lo, hi
  <2>2. QED
    BY <2>1, SubSeqProperties
<1> HIDE DEF s
<1>5. Len(s) = k
  BY <1>4
<1>6. \A j \in 1..k : s[j] = b[i + j]
  <2> TAKE j \in 1..k
  <2>1. j \in 1..(hi - lo + 1) /\ lo + j - 1 = i + j
    OBVIOUS
  <2>2. QED
    BY <1>4, <2>1
<1>7. IsBytes(s, k)
  BY <1>4, <1>5 DEF IsBytes
<1>8. At(b, i, s)
  BY <1>1, <1>4, <1>5, <1>6 DEF At
<1>9. QED
  BY <1>6, <1>7, <1>8 DEF s

\* The same, one fact at a time.
LEMMA PartBytes ==
    ASSUME NEW n, NEW b, IsBytes(b, n), NEW i \in Nat, NEW k \in Nat, i + k <= n
    PROVE  IsBytes(SubSeq(b, i + 1, i + k), k)
BY PartAt

LEMMA PartItem ==
    ASSUME NEW n, NEW b, IsBytes(b, n), NEW i \in Nat, NEW k \in Nat, i + k <= n, NEW j \in 1..k
    PROVE  SubSeq(b, i + 1, i + k)[j] = b[i + j]
<1>1. \A l \in 1..k : SubSeq(b, i + 1, i + k)[l] = b[i + l]
  BY PartAt
<1>2. QED
  BY <1>1

LEMMA PartThere ==
    ASSUME NEW n, NEW b, IsBytes(b, n), NEW i \in Nat, NEW k \in Nat, i + k <= n
    PROVE  At(b, i, SubSeq(b, i + 1, i + k))
BY PartAt

\* Four words.
IsQuad(x) ==
    /\ x = [i \in 1..4 |-> x[i]]
    /\ IsWord(x[1]) /\ IsWord(x[2]) /\ IsWord(x[3]) /\ IsWord(x[4])

\* Four words.
LEMMA QuadOf ==
    ASSUME NEW a, NEW b, NEW c, NEW d, IsWord(a), IsWord(b), IsWord(c), IsWord(d)
    PROVE  IsQuad(<<a, b, c, d>>)
<1>1. <<a, b, c, d>> = [i \in 1..4 |-> <<a, b, c, d>>[i]]
  OBVIOUS
<1>2. QED
  BY <1>1 DEF IsQuad

LEMMA QuadWords ==
    ASSUME NEW x, IsQuad(x)
    PROVE  x = <<x[1], x[2], x[3], x[4]>>
<1>1. x = [i \in 1..4 |-> x[i]]
  BY DEF IsQuad
<1>2. [i \in 1..4 |-> x[i]] = <<x[1], x[2], x[3], x[4]>>
  OBVIOUS
<1>3. QED
  BY <1>1, <1>2, Zenon

\* Blocks as bytes and as words.
LEMMA WholeAt ==
    ASSUME NEW n, NEW b, IsBytes(b, n)
    PROVE  At(b, 0, b)
<1>1. b \in Seq(Byte) /\ Len(b) \in Nat /\ \A j \in 1..Len(b) : b[0 + j] = b[j]
  BY LenProperties DEF IsBytes
<1>2. QED
  BY <1>1 DEF At

\* Where the bytes of a part are, they are in the whole.
LEMMA AtLonger ==
    ASSUME NEW x \in Seq(Byte), NEW y \in Seq(Byte), NEW i, NEW s, At(x, i, s)
    PROVE  At(x \o y, i, s)
<1> DEFINE z == x \o y
<1>1. /\ Len(x) \in Nat /\ Len(y) \in Nat /\ Len(z) = Len(x) + Len(y)
      /\ \A j \in 1..(Len(x) + Len(y)) : z[j] = IF j <= Len(x) THEN x[j] ELSE y[j - Len(x)]
  BY ConcatProperties, LenProperties
<1> HIDE DEF z
<1>2. i \in Nat /\ s \in Seq(Byte) /\ Len(s) \in Nat /\ i + Len(s) <= Len(x) /\ \A j \in 1..Len(s) : x[i + j] = s[j]
  BY LenProperties DEF At
<1>3. i + Len(s) <= Len(z)
  BY <1>1, <1>2
<1>4. ASSUME NEW j \in 1..Len(s) PROVE z[i + j] = s[j]
  <2>1. i + j \in 1..(Len(x) + Len(y)) /\ i + j <= Len(x)
    BY <1>1, <1>2
  <2>2. z[i + j] = x[i + j]
    BY <1>1, <2>1
  <2>3. QED
    BY <1>2, <2>2
<1>5. QED
  BY <1>2, <1>3, <1>4 DEF At, z

\* What is appended is at the end.
LEMMA AtEnd ==
    ASSUME NEW x \in Seq(Byte), NEW y \in Seq(Byte)
    PROVE  At(x \o y, Len(x), y)
<1>1. x \o y \in Seq(Byte) /\ Len(x \o y) \in Nat
  BY ConcatProperties, LenProperties
<1>2. At(x \o y, 0, x \o y)
  <2>1. IsBytes(x \o y, Len(x \o y))
    BY <1>1 DEF IsBytes
  <2>2. QED
    BY <2>1, WholeAt
<1>3. At(x \o y, 0 + Len(x), y)
  BY <1>1, <1>2, AtConcat
<1>4. 0 + Len(x) = Len(x)
  BY LenProperties
<1>5. QED
  BY <1>3, <1>4

\* One byte of a sum.
LEMMA XorItem ==
    ASSUME NEW n, NEW s, NEW t, IsBytes(s, n), IsBytes(t, n), NEW i \in 1..n
    PROVE  XorSeq(s, t)[i] = XorByte(s[i], t[i])
BY XorSeqs

\* The first bytes.
LEMMA HeadPart ==
    ASSUME NEW n, NEW b, IsBytes(b, n), NEW k \in Nat, k <= n
    PROVE  IsBytes(SubSeq(b, 1, k), k) /\ \A j \in 1..k : SubSeq(b, 1, k)[j] = b[j]
<1>1. PICK i \in Nat : i = 0
  OBVIOUS
<1>2. i + k <= n
  BY <1>1
<1>3. IsBytes(SubSeq(b, i + 1, i + k), k)
  BY <1>2, PartBytes
<1>4. ASSUME NEW j \in 1..k PROVE SubSeq(b, i + 1, i + k)[j] = b[i + j]
  BY <1>2, PartItem
<1>5. i + 1 = 1 /\ i + k = k /\ \A j \in 1..k : i + j = j
  BY <1>1
<1>6. QED
  BY <1>3, <1>4, <1>5

\* There is one text without bytes.
LEMMA NoBytes ==
    ASSUME NEW q, IsBytes(q, 0)
    PROVE  q = <<>>
BY DEF IsBytes

\* What is within the bytes that are left is where it was.
LEMMA CutAt ==
    ASSUME NEW w, NEW n, IsBytes(w, n), NEW i, NEW x, At(w, i, x), NEW k \in Nat, k <= n, i + Len(x) <= k
    PROVE  IsBytes(SubSeq(w, 1, k), k) /\ At(SubSeq(w, 1, k), i, x)
<1> DEFINE b == SubSeq(w, 1, k)
<1>1. w \in Seq(Byte) /\ Len(w) = n /\ n \in Nat
  BY DEF IsBytes
<1>2. b \in Seq(Byte) /\ Len(b) = k /\ \A j \in 1..k : b[j] = w[j]
  <2>1. \A j \in 1..k : w[j] \in Byte
    BY <1>1, ElementOfSeq
  <2>2. /\ b \in Seq(Byte)
        /\ Len(b) = IF 1 <= k THEN k - 1 + 1 ELSE 0
        /\ \A j \in 1..(k - 1 + 1) : b[j] = w[1 + j - 1]
    BY <2>1, SubSeqProperties
  <2>3. k - 1 + 1 = k /\ \A j \in 1..k : 1 + j - 1 = j
    OBVIOUS
  <2>4. QED
    BY <2>2, <2>3
<1> HIDE DEF b
<1>3. i \in Nat /\ x \in Seq(Byte) /\ Len(x) \in Nat /\ \A j \in 1..Len(x) : w[i + j] = x[j]
  BY LenProperties DEF At
<1>4. ASSUME NEW j \in 1..Len(x) PROVE b[i + j] = x[j]
  <2>1. i + j \in 1..k
    BY <1>3
  <2>2. QED
    BY <1>2, <1>3, <2>1
<1>5. At(b, i, x)
  BY <1>2, <1>3, <1>4 DEF At
<1>6. QED
  BY <1>2, <1>5 DEF IsBytes, b

---------------------------------------------------------------------------
(* Lists, their heads and their ends.                                      *)

\* A list of anything.
List(s) == \E S : s \in Seq(S)

LEMMA ListIs ==
    ASSUME NEW s, List(s)
    PROVE  /\ Len(s) \in Nat /\ DOMAIN s = 1..Len(s)
           /\ s = [i \in 1..Len(s) |-> s[i]]
<1>1. PICK S : s \in Seq(S)
  BY DEF List
<1>2. QED
  BY <1>1, LenProperties

\* A function of places is one.
LEMMA PlacesList ==
    ASSUME NEW n \in Nat, NEW s, DOMAIN s = 1..n, s = [i \in 1..n |-> s[i]]
    PROVE  List(s) /\ Len(s) = n
<1> DEFINE S == {s[i] : i \in 1..n}
<1>1. s \in [1..n -> S]
  OBVIOUS
<1> HIDE DEF S
<1>2. s \in Seq(S)
  BY <1>1
<1>3. Len(s) = n
  BY <1>2, LenProperties
<1>4. QED
  BY <1>2, <1>3 DEF List

\* One more at the head.
LEMMA HeadList ==
    ASSUME NEW s, List(s), NEW x
    PROVE  /\ List(<<x>> \o s) /\ Len(<<x>> \o s) = Len(s) + 1
           /\ (<<x>> \o s)[1] = x
           /\ \A i \in 1..Len(s) : (<<x>> \o s)[i + 1] = s[i]
<1>1. PICK S : s \in Seq(S)
  BY DEF List
<1> DEFINE T == S \cup {x}
           one == <<x>>
<1>2. s \in Seq(T) /\ one \in Seq(T) /\ Len(one) = 1 /\ one[1] = x /\ Len(s) \in Nat
  <2>1. Len(s) \in Nat /\ s \in [1..Len(s) -> S]
    BY <1>1, LenProperties
  <2>2. s \in [1..Len(s) -> T]
    BY <2>1
  <2> HIDE DEF T
  <2>3. s \in Seq(T)
    BY <2>1, <2>2
  <2>4. x \in T
    BY DEF T
  <2>5. QED
    BY <2>1, <2>3, <2>4
<1> DEFINE t == one \o s
<1> HIDE DEF T, one
<1>3. /\ t \in Seq(T) /\ Len(t) = Len(one) + Len(s)
      /\ \A i \in 1..Len(one) + Len(s) : t[i] = IF i <= Len(one) THEN one[i] ELSE s[i - Len(one)]
  BY <1>2, ConcatProperties
<1> HIDE DEF t
<1>4. /\ t \in Seq(T) /\ Len(t) = 1 + Len(s)
      /\ \A i \in 1..1 + Len(s) : t[i] = IF i <= 1 THEN one[i] ELSE s[i - 1]
  BY <1>2, <1>3
<1>5. t[1] = x
  BY <1>2, <1>4
<1>6. \A i \in 1..Len(s) : t[i + 1] = s[i]
  BY <1>2, <1>4
<1>7. List(t) /\ Len(t) = Len(s) + 1
  BY <1>2, <1>4 DEF List
<1>8. QED
  BY <1>5, <1>6, <1>7 DEF t, one

\* One more at the end.
LEMMA EndList ==
    ASSUME NEW s, List(s), NEW x
    PROVE  /\ List(Append(s, x)) /\ Len(Append(s, x)) = Len(s) + 1
           /\ Append(s, x)[Len(s) + 1] = x
           /\ \A i \in 1..Len(s) : Append(s, x)[i] = s[i]
           /\ Front(Append(s, x)) = s
<1>1. PICK S : s \in Seq(S)
  BY DEF List
<1> DEFINE T == S \cup {x}
           t == Append(s, x)
<1>2. s \in Seq(T) /\ Len(s) \in Nat /\ x \in T
  <2>1. Len(s) \in Nat /\ s \in [1..Len(s) -> S]
    BY <1>1, LenProperties
  <2>2. s \in [1..Len(s) -> T]
    BY <2>1
  <2>3. x \in T
    OBVIOUS
  <2> HIDE DEF T
  <2>4. s \in Seq(T)
    BY <2>1, <2>2
  <2>5. QED
    BY <2>1, <2>3, <2>4
<1> HIDE DEF T
<1>3. t \in Seq(T) /\ Len(t) = Len(s) + 1 /\ t[Len(s) + 1] = x /\ \A i \in 1..Len(s) : t[i] = s[i]
  BY <1>2, AppendProperties
<1> HIDE DEF t
<1>4. Front(t) = s
  <2> DEFINE n == Len(s)
             f == SubSeq(t, 1, n)
  <2>1. \A i \in 1..n : t[i] \in T
    BY <1>2, <1>3
  <2>2. n \in Nat /\ 1 \in Int /\ n \in Int
    BY <1>2
  <2> HIDE DEF n
  <2>3. /\ f \in Seq(T) /\ Len(f) = IF 1 <= n THEN n - 1 + 1 ELSE 0
        /\ \A i \in 1..n - 1 + 1 : f[i] = t[1 + i - 1]
    BY <2>1, <2>2, SubSeqProperties
  <2>4. Len(f) = n /\ \A i \in 1..n : f[i] = t[i]
    BY <2>2, <2>3
  <2> HIDE DEF f
  <2>5. f = s
    BY <1>2, <1>3, <2>3, <2>4, SeqEqual DEF n
  <2>6. Front(t) = f
    <3>1. Len(t) - 1 = n
      BY <1>3, <2>2 DEF n
    <3>2. QED
      BY <3>1 DEF Front, f
  <2>7. QED
    BY <2>5, <2>6
<1>5. QED
  BY <1>3, <1>4 DEF List, t

\* s at the end of t, place by place.
EndsWith(t, s) ==
    /\ List(t) /\ List(s) /\ Len(s) <= Len(t)
    /\ \A i \in 1..Len(s) : t[Len(t) - Len(s) + i] = s[i]

LEMMA SuffixIs ==
    ASSUME NEW s, NEW t, EndsWith(t, s)
    PROVE  IsSuffix(s, t)
<1> DEFINE m == Len(s)
           n == Len(t)
           a == Reverse(s)
           b == Reverse(t)
<1>1. m \in Nat /\ n \in Nat /\ m <= n /\ \A i \in 1..m : t[n - m + i] = s[i]
  BY ListIs DEF EndsWith
<1>2. a = [i \in 1..m |-> s[(m - i) + 1]] /\ b = [i \in 1..n |-> t[(n - i) + 1]]
  BY DEF Reverse
<1> HIDE DEF a, b, m, n
<1>3. List(a) /\ Len(a) = m /\ List(b) /\ Len(b) = n
  BY <1>1, <1>2, PlacesList
<1>4. \A i \in 1..m : a[i] = b[i]
  <2> SUFFICES ASSUME NEW i \in 1..m PROVE a[i] = b[i]
    OBVIOUS
  <2>1. m - i + 1 \in 1..m /\ n - m + (m - i + 1) = n - i + 1 /\ i \in 1..n
    BY <1>1
  <2>2. t[n - m + (m - i + 1)] = s[m - i + 1]
    BY <1>1, <2>1
  <2>3. a[i] = s[(m - i) + 1] /\ b[i] = t[(n - i) + 1]
    BY <1>2, <2>1
  <2>4. QED
    BY <2>1, <2>2, <2>3
<1>5. SubSeq(a, 1, m) = SubSeq(b, 1, m)
  <2> DEFINE S == {a[i] : i \in 1..m}
  <2>1. \A i \in 1..m : a[i] \in S /\ b[i] \in S
    BY <1>4
  <2>2. m \in Int /\ 1 \in Int
    BY <1>1
  <2> HIDE DEF S
  <2>3. /\ SubSeq(a, 1, m) \in Seq(S) /\ Len(SubSeq(a, 1, m)) = IF 1 <= m THEN m - 1 + 1 ELSE 0
        /\ \A i \in 1..m - 1 + 1 : SubSeq(a, 1, m)[i] = a[1 + i - 1]
    BY <2>1, <2>2, SubSeqProperties
  <2>4. /\ SubSeq(b, 1, m) \in Seq(S) /\ Len(SubSeq(b, 1, m)) = IF 1 <= m THEN m - 1 + 1 ELSE 0
        /\ \A i \in 1..m - 1 + 1 : SubSeq(b, 1, m)[i] = b[1 + i - 1]
    BY <2>1, <2>2, SubSeqProperties
  <2>5. Len(SubSeq(a, 1, m)) = m /\ Len(SubSeq(b, 1, m)) = m
    BY <1>1, <2>3, <2>4
  <2>6. \A i \in 1..m : SubSeq(a, 1, m)[i] = SubSeq(b, 1, m)[i]
    <3> SUFFICES ASSUME NEW i \in 1..m PROVE SubSeq(a, 1, m)[i] = SubSeq(b, 1, m)[i]
      OBVIOUS
    <3>1. i \in 1..m - 1 + 1 /\ 1 + i - 1 = i
      BY <1>1
    <3>2. QED
      BY <1>4, <2>3, <2>4, <3>1
  <2>7. QED
    BY <2>3, <2>4, <2>5, <2>6, SeqEqual
<1>6. QED
  BY <1>1, <1>3, <1>5 DEF IsSuffix, IsPrefix, a, b

LEMMA EndsWithItself ==
    ASSUME NEW s, List(s)
    PROVE  EndsWith(s, s)
<1>1. Len(s) \in Nat
  BY ListIs
<1>2. QED
  BY <1>1 DEF EndsWith

\* A name is the beginning of itself.
LEMMA OwnPrefix ==
    ASSUME NEW name, List(name)
    PROVE  IsPrefix(name, name)
<1>1. Len(name) \in Nat
  BY ListIs
<1>2. Len(name) <= Len(name)
  BY <1>1
<1>3. QED
  BY <1>2 DEF IsPrefix

\* Place by place, s from its end.
Backwards(t, s, n) == List(t) /\ Len(t) = n /\ \A j \in 1..n : t[j] = s[n + 1 - j]

LEMMA BackwardsReversed ==
    ASSUME NEW n \in Nat, NEW s, NEW t, Backwards(t, s, n)
    PROVE  Reverse(t) = [i \in 1..n |-> s[i]]
<1>1. Reverse(t) = [i \in 1..n |-> t[(n - i) + 1]]
  BY DEF Reverse, Backwards
<1>2. \A i \in 1..n : t[(n - i) + 1] = s[i]
  <2> SUFFICES ASSUME NEW i \in 1..n PROVE t[(n - i) + 1] = s[i]
    OBVIOUS
  <2>1. (n - i) + 1 \in 1..n /\ n + 1 - ((n - i) + 1) = i
    OBVIOUS
  <2>2. t[(n - i) + 1] = s[n + 1 - ((n - i) + 1)]
    BY <2>1 DEF Backwards
  <2>3. QED
    BY <2>1, <2>2
<1>3. QED
  BY <1>1, <1>2

\* One more at the head of a list that was turned round.
LEMMA BackwardsNext ==
    ASSUME NEW n \in Nat, NEW s, NEW t, Backwards(t, s, n)
    PROVE  Backwards(<<s[n + 1]>> \o t, s, n + 1)
<1> DEFINE x == s[n + 1]
           u == <<x>> \o t
<1>1. List(u) /\ Len(u) = n + 1 /\ u[1] = x /\ \A i \in 1..n : u[i + 1] = t[i]
  BY HeadList DEF Backwards
<1> HIDE DEF u
<1>2. ASSUME NEW j \in 1..(n + 1) PROVE u[j] = s[(n + 1) + 1 - j]
  <2>1. CASE j = 1
    <3>1. (n + 1) + 1 - 1 = n + 1
      OBVIOUS
    <3>2. QED
      BY <1>1, <2>1, <3>1
  <2>2. CASE j # 1
    <3>1. j - 1 \in 1..n /\ j = (j - 1) + 1 /\ n + 1 - (j - 1) = (n + 1) + 1 - j
      BY <2>2
    <3>2. u[j] = t[j - 1] /\ t[j - 1] = s[n + 1 - (j - 1)]
      BY <1>1, <3>1 DEF Backwards
    <3>3. QED
      BY <3>1, <3>2
  <2>3. QED
    BY <2>1, <2>2
<1>3. QED
  BY <1>1, <1>2 DEF Backwards, u

LEMMA BackwardsNone ==
    ASSUME NEW s
    PROVE  Backwards(<<>>, s, 0)
<1>1. PICK none : none = <<>>
  OBVIOUS
<1>2. none \in Seq({}) /\ Len(none) = 0
  BY <1>1, EmptySeq
<1>3. Backwards(none, s, 0)
  BY <1>2 DEF Backwards, List
<1>4. QED
  BY <1>1, <1>3

=============================================================================
