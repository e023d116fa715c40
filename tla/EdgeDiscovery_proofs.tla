------------------------ MODULE EdgeDiscovery_proofs ------------------------
(***************************************************************************)
(* Whom a new edge finds, asks and registers with, for any supernodes that *)
(* know each other in any way, and any network.                            *)
(***************************************************************************)
EXTENDS EdgeDiscovery, Data_proofs

---------------------------------------------------------------------------
(* Sorting.  The recursive functions are defined by CHOOSE: that there are  *)
(* such functions comes first, what they compute follows by induction over  *)
(* the lengths of the lists.                                               *)

\* Ranks are numbers.
LEMMA RankType ==
    ASSUME NEW e \in Entries
    PROVE  Rank(e) \in Int
<1> DEFINE delta == IF MaxComm - e.communities_num < 1 THEN 1 ELSE MaxComm - e.communities_num
           x == (e.timestamp * 100) \div delta
           size == 2 * (IntMax + 1)
<1>1. MaxComm \in Nat /\ IntMax \in Nat
  BY DiscoveryAssumption
<1>2. e.communities_num \in Nat /\ e.timestamp \in Nat
  BY DEF Entries
<1>3. delta \in Nat \ {0} /\ e.timestamp * 100 \in Int
  BY <1>1, <1>2
<1> HIDE DEF delta
<1>4. x \in Int
  BY <1>3
<1>5. size \in Nat \ {0}
  BY <1>1
<1> HIDE DEF x, size
<1>6. x + IntMax + 1 \in Int
  BY <1>1, <1>4
<1>7. (x + IntMax + 1) % size \in Int
  BY <1>5, <1>6
<1>8. Int32(x) \in Int
  BY <1>1, <1>7 DEF Int32, size
<1>9. QED
  BY <1>8 DEF Rank, x, delta

\* The members of a list.
LEMMA Members ==
    ASSUME NEW S, NEW s \in Seq(S)
    PROVE  /\ ToSet(s) = {s[i] : i \in 1..Len(s)} /\ ToSet(s) \subseteq S
           /\ DOMAIN s = 1..Len(s) /\ Len(s) \in Nat /\ \A i \in 1..Len(s) : s[i] \in S
BY LenProperties, ElementOfSeq DEF ToSet

\* A first element, and the rest.
LEMMA ConsProperties ==
    ASSUME NEW S, NEW h \in S, NEW s \in Seq(S)
    PROVE  /\ <<h>> \o s \in Seq(S) /\ Len(<<h>> \o s) = Len(s) + 1
           /\ (<<h>> \o s)[1] = h
           /\ \A i \in 1..Len(s) : (<<h>> \o s)[i + 1] = s[i]
           /\ ToSet(<<h>> \o s) = {h} \cup ToSet(s)
<1> DEFINE m == <<h>> \o s
<1>1. <<h>> \in Seq(S) /\ Len(<<h>>) = 1 /\ <<h>>[1] = h
  OBVIOUS
<1>2. Len(s) \in Nat
  BY LenProperties
<1>3. /\ m \in Seq(S) /\ Len(m) = 1 + Len(s)
      /\ \A i \in 1..(1 + Len(s)) : m[i] = IF i <= 1 THEN <<h>>[i] ELSE s[i - 1]
  BY <1>1, ConcatProperties
<1> HIDE DEF m
<1>4. m[1] = h
  BY <1>1, <1>2, <1>3
<1>5. ASSUME NEW i \in 1..Len(s) PROVE m[i + 1] = s[i]
  <2>1. i + 1 \in 1..(1 + Len(s)) /\ ~ (i + 1 <= 1) /\ (i + 1) - 1 = i
    BY <1>2
  <2>2. QED
    BY <1>3, <2>1
<1>6. ToSet(m) = {h} \cup ToSet(s)
  <2>1. ToSet(m) = {m[i] : i \in 1..(Len(s) + 1)} /\ ToSet(s) = {s[i] : i \in 1..Len(s)}
    BY <1>2, <1>3, Members
  <2>2. \A i \in 1..(Len(s) + 1) : i = 1 \/ (i - 1 \in 1..Len(s) /\ (i - 1) + 1 = i)
    BY <1>2
  <2>3. \A i \in 1..Len(s) : i + 1 \in 1..(Len(s) + 1)
    BY <1>2
  <2>4. 1 \in 1..(Len(s) + 1)
    BY <1>2
  <2>5. ToSet(m) \subseteq {h} \cup ToSet(s)
    <3>1. \A i \in 1..(Len(s) + 1) : m[i] = h \/ \E j \in 1..Len(s) : m[i] = s[j]
      <4> SUFFICES ASSUME NEW i \in 1..(Len(s) + 1), i # 1
                   PROVE  \E j \in 1..Len(s) : m[i] = s[j]
        BY <1>4
      <4>1. i - 1 \in 1..Len(s) /\ (i - 1) + 1 = i
        BY <2>2
      <4>2. m[i] = s[i - 1]
        BY <1>5, <4>1
      <4>3. QED
        BY <4>1, <4>2
    <3>2. QED
      BY <2>1, <3>1
  <2>6. {h} \cup ToSet(s) \subseteq ToSet(m)
    BY <1>4, <1>5, <2>1, <2>3, <2>4
  <2>7. QED
    BY <2>5, <2>6
<1>7. QED
  BY <1>2, <1>3, <1>4, <1>5, <1>6 DEF m

\* A list that is not empty has a first element, and a shorter rest.
LEMMA HeadTail ==
    ASSUME NEW S, NEW s \in Seq(S), s # <<>>
    PROVE  /\ Head(s) = s[1] /\ Head(s) \in S /\ 1 \in 1..Len(s)
           /\ Tail(s) \in Seq(S) /\ Len(Tail(s)) = Len(s) - 1 /\ Len(s) \in Nat \ {0}
           /\ \A i \in 1..Len(Tail(s)) : Tail(s)[i] = s[i + 1] /\ i + 1 \in 1..Len(s)
           /\ ToSet(s) = {s[1]} \cup ToSet(Tail(s))
<1>1. /\ Head(s) \in S /\ Tail(s) \in Seq(S) /\ Len(Tail(s)) = Len(s) - 1
      /\ \A i \in 1..Len(Tail(s)) : Tail(s)[i] = s[i + 1]
  BY HeadTailProperties
<1>2. Len(s) \in Nat \ {0}
  BY EmptySeq
<1>3. Head(s) = s[1]
  OBVIOUS
<1> DEFINE t == Tail(s)
<1> HIDE DEF t
<1>4. \A i \in 1..Len(t) : i + 1 \in 1..Len(s)
  BY <1>1, <1>2 DEF t
<1>5. ToSet(s) = {s[1]} \cup ToSet(t)
  <2>1. ToSet(s) = {s[i] : i \in 1..Len(s)} /\ ToSet(t) = {t[i] : i \in 1..Len(t)}
    BY <1>1, Members DEF t
  <2>2. \A i \in 1..Len(s) : i = 1 \/ (i - 1 \in 1..Len(t) /\ (i - 1) + 1 = i)
    BY <1>1, <1>2 DEF t
  <2>3. \A i \in 1..Len(s) : i = 1 \/ (i - 1 \in 1..Len(t) /\ t[i - 1] = s[i])
    BY <1>1, <2>2 DEF t
  <2>4. 1 \in 1..Len(s)
    BY <1>2
  <2>5. ToSet(s) \subseteq {s[1]} \cup ToSet(t)
    BY <2>1, <2>3
  <2>6. {s[1]} \cup ToSet(t) \subseteq ToSet(s)
    BY <1>1, <1>4, <2>1, <2>4 DEF t
  <2>7. QED
    BY <2>5, <2>6
<1>6. QED
  BY <1>1, <1>2, <1>3, <1>4, <1>5 DEF t

\* What merge does first, and leaves to do.
MergeStep(f, two) ==
    LET l == two[1]
        r == two[2]
    IN  IF l = <<>> THEN r ELSE IF r = <<>> THEN l
        ELSE IF CmpRankAsc(Head(l), Head(r)) <= 0
             THEN <<Head(l)>> \o f[<<Tail(l), r>>]
             ELSE <<Head(r)>> \o f[<<l, Tail(r)>>]

\* merge ends.
LEMMA MergeDefined ==
    ASSUME NEW two \in Seq(Entries) \X Seq(Entries)
    PROVE  Merge[two] = MergeStep(Merge, two)
<1> DEFINE R == Seq(Entries)
           D == R \X R
           size == [x \in D |-> Len(x[1]) + Len(x[2])]
           G == [x \in D |-> [f \in [D -> R] |-> MergeStep(f, x)]]
<1>1. <<>> \in R
  OBVIOUS
<1>2. size \in [D -> Nat]
  <2>1. ASSUME NEW x \in D PROVE Len(x[1]) + Len(x[2]) \in Nat
    <3>1. Len(x[1]) \in Nat /\ Len(x[2]) \in Nat
      BY LenProperties
    <3>2. QED
      BY <3>1
  <2> HIDE DEF D
  <2>2. QED
    BY <2>1
<1>3. ASSUME NEW x \in D
      PROVE  /\ x[1] \in R /\ x[2] \in R
             /\ x[1] # <<>> /\ x[2] # <<>> =>
                  /\ Head(x[1]) \in Entries /\ Head(x[2]) \in Entries
                  /\ <<Tail(x[1]), x[2]>> \in D /\ size[<<Tail(x[1]), x[2]>>] < size[x]
                  /\ <<x[1], Tail(x[2])>> \in D /\ size[<<x[1], Tail(x[2])>>] < size[x]
  <2>1. x[1] \in R /\ x[2] \in R /\ Len(x[1]) \in Nat /\ Len(x[2]) \in Nat
    BY LenProperties
  <2> SUFFICES ASSUME x[1] # <<>>, x[2] # <<>>
               PROVE  /\ Head(x[1]) \in Entries /\ Head(x[2]) \in Entries
                      /\ <<Tail(x[1]), x[2]>> \in D /\ size[<<Tail(x[1]), x[2]>>] < size[x]
                      /\ <<x[1], Tail(x[2])>> \in D /\ size[<<x[1], Tail(x[2])>>] < size[x]
    BY <2>1
  <2> DEFINE l == x[1]
             r == x[2]
  <2>2. Head(l) \in Entries /\ Tail(l) \in R /\ Len(Tail(l)) = Len(l) - 1
    BY <2>1, HeadTail
  <2>3. Head(r) \in Entries /\ Tail(r) \in R /\ Len(Tail(r)) = Len(r) - 1
    BY <2>1, HeadTail
  <2>4. <<Tail(l), r>> \in D /\ <<l, Tail(r)>> \in D
    BY <2>1, <2>2, <2>3
  <2>5. /\ size[<<Tail(l), r>>] = Len(Tail(l)) + Len(r)
        /\ size[<<l, Tail(r)>>] = Len(l) + Len(Tail(r))
        /\ size[x] = Len(l) + Len(r)
    BY <2>4
  <2> HIDE DEF size
  <2>6. QED
    BY <2>1, <2>2, <2>3, <2>4, <2>5
<1> HIDE DEF size
<1>4. ASSUME NEW x \in D, NEW f \in [D -> R] PROVE MergeStep(f, x) \in R
  <2>1. CASE x[1] = <<>> \/ x[2] = <<>>
    BY <1>3, <2>1 DEF MergeStep
  <2>2. CASE x[1] # <<>> /\ x[2] # <<>>
    <3>1. f[<<Tail(x[1]), x[2]>>] \in R /\ f[<<x[1], Tail(x[2])>>] \in R
      BY <1>3, <2>2
    <3>2. /\ <<Head(x[1])>> \o f[<<Tail(x[1]), x[2]>>] \in R
          /\ <<Head(x[2])>> \o f[<<x[1], Tail(x[2])>>] \in R
      BY <1>3, <2>2, <3>1, ConsProperties
    <3>3. QED
      BY <2>2, <3>2 DEF MergeStep
  <2>3. QED
    BY <2>1, <2>2
<1>5. G \in [D -> [[D -> R] -> R]] /\ \A x \in D, f \in [D -> R] : G[x][f] = MergeStep(f, x)
  BY <1>4
<1> HIDE DEF G, D, R
<1>6. ASSUME NEW x \in D, NEW f \in [D -> R], NEW g \in [D -> R],
             \A y \in D : size[y] < size[x] => f[y] = g[y]
      PROVE  MergeStep(f, x) = MergeStep(g, x)
  <2>1. CASE x[1] = <<>> \/ x[2] = <<>>
    BY <2>1 DEF MergeStep
  <2>2. CASE x[1] # <<>> /\ x[2] # <<>>
    <3>1. /\ f[<<Tail(x[1]), x[2]>>] = g[<<Tail(x[1]), x[2]>>]
          /\ f[<<x[1], Tail(x[2])>>] = g[<<x[1], Tail(x[2])>>]
      BY <1>3, <1>6, <2>2
    <3>2. QED
      BY <3>1 DEF MergeStep
  <2>3. QED
    BY <2>1, <2>2
<1> DEFINE Solves(f) == f = [x \in D |-> MergeStep(f, x)]
<1>7. \E f : Solves(f)
  <2>1. R # {}
    BY <1>1
  <2>2. Recursion(D, R, size, G)
    <3>1. ASSUME NEW x \in D, NEW f \in [D -> R], NEW g \in [D -> R],
                 \A y \in D : size[y] < size[x] => f[y] = g[y]
          PROVE  G[x][f] = G[x][g]
      <4>1. MergeStep(f, x) = MergeStep(g, x)
        BY <1>6, <3>1
      <4>2. G[x][f] = MergeStep(f, x) /\ G[x][g] = MergeStep(g, x)
        BY <1>5
      <4>3. QED
        BY <4>1, <4>2
    <3>2. QED
      BY <1>2, <1>5, <3>1 DEF Recursion
  <2>3. PICK f \in [D -> R] : \A x \in D : f[x] = G[x][f]
    BY <2>1, <2>2, RecursiveFunction
  <2>4. \A x \in D : f[x] = MergeStep(f, x)
    BY <1>5, <2>3
  <2>5. Solves(f)
    BY <2>4
  <2>6. QED
    BY <2>5
<1>8. Merge = CHOOSE f : Solves(f)
  BY DEF Merge, MergeStep, D, R
<1>9. Solves(Merge)
  <2> HIDE DEF Solves
  <2>1. QED
    BY <1>7, <1>8
<1>10. QED
  BY <1>9 DEF D, R

\* merge keeps the members of both lists.
LEMMA MergeProperties ==
    ASSUME NEW l \in Seq(Entries), NEW r \in Seq(Entries)
    PROVE  LET m == Merge[<<l, r>>]
           IN  /\ m \in Seq(Entries) /\ Len(m) = Len(l) + Len(r)
               /\ ToSet(m) = ToSet(l) \cup ToSet(r)
<1> DEFINE R == Seq(Entries)
           Holds(a, b) == /\ Merge[<<a, b>>] \in R /\ Len(Merge[<<a, b>>]) = Len(a) + Len(b)
                          /\ ToSet(Merge[<<a, b>>]) = ToSet(a) \cup ToSet(b)
           Good == {n \in Nat : \A a, b \in R : Len(a) + Len(b) < n => Holds(a, b)}
<1>1. \A a \in R : Len(a) \in Nat
  BY LenProperties
<1>2. 0 \in Good
  BY <1>1
<1>3. ASSUME NEW n \in Nat, n \in Good PROVE n + 1 \in Good
  <2> SUFFICES ASSUME NEW a \in R, NEW b \in R, Len(a) + Len(b) < n + 1 PROVE Holds(a, b)
    OBVIOUS
  <2> HIDE DEF Holds
  <2>1. \A c, d \in R : Len(c) + Len(d) < n => Holds(c, d)
    BY <1>3
  <2>2. Merge[<<a, b>>] = MergeStep(Merge, <<a, b>>) /\ Len(a) \in Nat /\ Len(b) \in Nat
    BY <1>1, MergeDefined
  <2>3. ToSet(<<>>) = {} /\ Len(<<>>) = 0
    BY DEF ToSet
  <2>4. CASE a = <<>>
    BY <2>2, <2>3, <2>4 DEF MergeStep, Holds
  <2>5. CASE a # <<>> /\ b = <<>>
    BY <2>2, <2>3, <2>5 DEF MergeStep, Holds
  <2>6. CASE a # <<>> /\ b # <<>> /\ CmpRankAsc(Head(a), Head(b)) <= 0
    <3>1. /\ Tail(a) \in R /\ Len(Tail(a)) = Len(a) - 1 /\ Head(a) \in Entries
          /\ ToSet(a) = {Head(a)} \cup ToSet(Tail(a))
      BY <2>6, HeadTail
    <3>2. Holds(Tail(a), b)
      <4>1. Len(Tail(a)) + Len(b) < n
        BY <2>2, <3>1
      <4>2. QED
        BY <2>1, <3>1, <4>1
    <3> DEFINE rest == Merge[<<Tail(a), b>>]
    <3>3. rest \in R /\ Len(rest) = Len(a) - 1 + Len(b) /\ ToSet(rest) = ToSet(Tail(a)) \cup ToSet(b)
      BY <3>1, <3>2 DEF Holds
    <3>4. Merge[<<a, b>>] = <<Head(a)>> \o rest
      BY <2>2, <2>6 DEF MergeStep
    <3> HIDE DEF rest
    <3>5. /\ <<Head(a)>> \o rest \in R /\ Len(<<Head(a)>> \o rest) = Len(rest) + 1
          /\ ToSet(<<Head(a)>> \o rest) = {Head(a)} \cup ToSet(rest)
      BY <3>1, <3>3, ConsProperties
    <3>6. Len(<<Head(a)>> \o rest) = Len(a) + Len(b)
      BY <2>2, <3>3, <3>5
    <3>7. ToSet(<<Head(a)>> \o rest) = ToSet(a) \cup ToSet(b)
      BY <3>1, <3>3, <3>5
    <3>8. QED
      BY <3>4, <3>5, <3>6, <3>7 DEF Holds
  <2>7. CASE a # <<>> /\ b # <<>> /\ ~ (CmpRankAsc(Head(a), Head(b)) <= 0)
    <3>1. /\ Tail(b) \in R /\ Len(Tail(b)) = Len(b) - 1 /\ Head(b) \in Entries
          /\ ToSet(b) = {Head(b)} \cup ToSet(Tail(b))
      BY <2>7, HeadTail
    <3>2. Holds(a, Tail(b))
      <4>1. Len(a) + Len(Tail(b)) < n
        BY <2>2, <3>1
      <4>2. QED
        BY <2>1, <3>1, <4>1
    <3> DEFINE rest == Merge[<<a, Tail(b)>>]
    <3>3. rest \in R /\ Len(rest) = Len(a) + (Len(b) - 1) /\ ToSet(rest) = ToSet(a) \cup ToSet(Tail(b))
      BY <3>1, <3>2 DEF Holds
    <3>4. Merge[<<a, b>>] = <<Head(b)>> \o rest
      BY <2>2, <2>7 DEF MergeStep
    <3> HIDE DEF rest
    <3>5. /\ <<Head(b)>> \o rest \in R /\ Len(<<Head(b)>> \o rest) = Len(rest) + 1
          /\ ToSet(<<Head(b)>> \o rest) = {Head(b)} \cup ToSet(rest)
      BY <3>1, <3>3, ConsProperties
    <3>6. Len(<<Head(b)>> \o rest) = Len(a) + Len(b)
      BY <2>2, <3>3, <3>5
    <3>7. ToSet(<<Head(b)>> \o rest) = ToSet(a) \cup ToSet(b)
      BY <3>1, <3>3, <3>5
    <3>8. QED
      BY <3>4, <3>5, <3>6, <3>7 DEF Holds
  <2>8. QED
    BY <2>4, <2>5, <2>6, <2>7
<1>4. \A n \in Nat : n \in Good
  <2> HIDE DEF Good
  <2>1. QED
    BY <1>2, <1>3, SetInduction
<1>5. Holds(l, r)
  <2>1. Len(l) + Len(r) + 1 \in Nat /\ Len(l) + Len(r) < Len(l) + Len(r) + 1
    BY <1>1
  <2> HIDE DEF Holds
  <2>2. QED
    BY <1>4, <2>1
<1>6. QED
  BY <1>5

\* x is before y in the list c.
Before(c, x, y) == \E i, j \in 1..Len(c) : i < j /\ c[i] = x /\ c[j] = y

\* x has the lower rank, or the same and is before y in the list c.
Pref(c, x, y) == Rank(x) < Rank(y) \/ (Rank(x) = Rank(y) /\ Before(c, x, y))

\* The list s is sorted; members of equal rank are as they are in c.
Sorted(c, s) == \A i, j \in 1..Len(s) : i < j => Pref(c, s[i], s[j])

\* No difference of ranks wraps.
Fit(S) == \A x, y \in S : CmpRankAsc(x, y) = Rank(x) - Rank(y)

\* A sorted list is sorted from the second member on.
LEMMA TailSorted ==
    ASSUME NEW c, NEW s \in Seq(Entries), s # <<>>, Sorted(c, s)
    PROVE  /\ Sorted(c, Tail(s))
           /\ \A x \in ToSet(Tail(s)) : Pref(c, Head(s), x)
<1> DEFINE t == Tail(s)
<1>1. /\ t \in Seq(Entries) /\ 1 \in 1..Len(s) /\ Head(s) = s[1]
      /\ \A i \in 1..Len(t) : t[i] = s[i + 1] /\ i + 1 \in 1..Len(s)
  BY HeadTail
<1> HIDE DEF t
<1>2. ToSet(t) = {t[i] : i \in 1..Len(t)} /\ Len(t) \in Nat
  BY <1>1, Members
<1>3. Sorted(c, t)
  <2> SUFFICES ASSUME NEW i \in 1..Len(t), NEW j \in 1..Len(t), i < j PROVE Pref(c, t[i], t[j])
    BY DEF Sorted
  <2>1. i + 1 < j + 1 /\ i + 1 \in 1..Len(s) /\ j + 1 \in 1..Len(s)
    BY <1>1
  <2>2. Pref(c, s[i + 1], s[j + 1])
    BY <2>1 DEF Sorted
  <2>3. QED
    BY <1>1, <2>2
<1>4. ASSUME NEW i \in 1..Len(t) PROVE Pref(c, s[1], t[i])
  <2>1. 1 < i + 1 /\ i + 1 \in 1..Len(s)
    BY <1>1
  <2>2. QED
    BY <1>1, <2>1 DEF Sorted
<1>5. QED
  BY <1>1, <1>2, <1>3, <1>4 DEF t

\* A sorted list with a first member that is preferred is sorted.
LEMMA ConsSorted ==
    ASSUME NEW c, NEW h \in Entries, NEW s \in Seq(Entries), Sorted(c, s),
           \A x \in ToSet(s) : Pref(c, h, x)
    PROVE  Sorted(c, <<h>> \o s)
<1> DEFINE m == <<h>> \o s
<1>1. /\ Len(m) = Len(s) + 1 /\ m[1] = h /\ \A i \in 1..Len(s) : m[i + 1] = s[i]
      /\ Len(s) \in Nat /\ ToSet(s) = {s[i] : i \in 1..Len(s)}
  BY ConsProperties, Members
<1> HIDE DEF m
<1>2. \A i \in 1..Len(m) : i = 1 \/ (i - 1 \in 1..Len(s) /\ m[i] = s[i - 1])
  <2> SUFFICES ASSUME NEW i \in 1..Len(m), i # 1 PROVE i - 1 \in 1..Len(s) /\ m[i] = s[i - 1]
    OBVIOUS
  <2>1. i - 1 \in 1..Len(s) /\ (i - 1) + 1 = i
    BY <1>1
  <2>2. QED
    BY <1>1, <2>1
<1>3. ASSUME NEW i \in 1..Len(m), NEW j \in 1..Len(m), i < j PROVE Pref(c, m[i], m[j])
  <2>1. j # 1 /\ j - 1 \in 1..Len(s) /\ m[j] = s[j - 1]
    BY <1>2, <1>3
  <2>2. CASE i = 1
    BY <1>1, <2>1, <2>2
  <2>3. CASE i # 1
    <3>1. i - 1 \in 1..Len(s) /\ m[i] = s[i - 1] /\ i - 1 < j - 1
      BY <1>2, <1>3, <2>3
    <3>2. QED
      BY <2>1, <3>1 DEF Sorted
  <2>4. QED
    BY <2>2, <2>3
<1>4. QED
  BY <1>3 DEF Sorted, m

\* merge sorts, and leaves members of equal rank in their order, if the first list
\* is before the second in c.
LEMMA MergeSorted ==
    ASSUME NEW c, NEW l \in Seq(Entries), NEW r \in Seq(Entries),
           Sorted(c, l), Sorted(c, r), Fit(ToSet(l) \cup ToSet(r)),
           \A x \in ToSet(l), y \in ToSet(r) : Before(c, x, y)
    PROVE  Sorted(c, Merge[<<l, r>>])
<1> DEFINE R == Seq(Entries)
           Given(a, b) == /\ Sorted(c, a) /\ Sorted(c, b) /\ Fit(ToSet(a) \cup ToSet(b))
                          /\ \A x \in ToSet(a), y \in ToSet(b) : Before(c, x, y)
           Good == {n \in Nat : \A a, b \in R : Len(a) + Len(b) < n /\ Given(a, b) =>
                                    Sorted(c, Merge[<<a, b>>])}
<1> HIDE DEF Given
<1>1. \A a \in R : Len(a) \in Nat
  BY LenProperties
<1>2. 0 \in Good
  BY <1>1
<1>3. ASSUME NEW n \in Nat, n \in Good PROVE n + 1 \in Good
  <2> SUFFICES ASSUME NEW a \in R, NEW b \in R, Len(a) + Len(b) < n + 1, Given(a, b)
               PROVE  Sorted(c, Merge[<<a, b>>])
    OBVIOUS
  <2>1. \A d, e \in R : Len(d) + Len(e) < n /\ Given(d, e) => Sorted(c, Merge[<<d, e>>])
    BY <1>3
  <2>2. Merge[<<a, b>>] = MergeStep(Merge, <<a, b>>) /\ Len(a) \in Nat /\ Len(b) \in Nat
    BY <1>1, MergeDefined
  <2>3. /\ Sorted(c, a) /\ Sorted(c, b) /\ Fit(ToSet(a) \cup ToSet(b))
        /\ \A x \in ToSet(a), y \in ToSet(b) : Before(c, x, y)
    BY DEF Given
  <2>4. CASE a = <<>>
    BY <2>2, <2>3, <2>4 DEF MergeStep
  <2>5. CASE a # <<>> /\ b = <<>>
    BY <2>2, <2>3, <2>5 DEF MergeStep
  <2>6. CASE a # <<>> /\ b # <<>>
    <3>1. /\ Tail(a) \in R /\ Len(Tail(a)) = Len(a) - 1 /\ Head(a) \in Entries
          /\ ToSet(a) = {Head(a)} \cup ToSet(Tail(a)) /\ ToSet(a) \subseteq Entries
      BY <2>6, HeadTail, Members
    <3>2. /\ Tail(b) \in R /\ Len(Tail(b)) = Len(b) - 1 /\ Head(b) \in Entries
          /\ ToSet(b) = {Head(b)} \cup ToSet(Tail(b)) /\ ToSet(b) \subseteq Entries
      BY <2>6, HeadTail, Members
    <3>3. /\ Sorted(c, Tail(a)) /\ \A x \in ToSet(Tail(a)) : Pref(c, Head(a), x)
      BY <2>3, <2>6, TailSorted
    <3>4. /\ Sorted(c, Tail(b)) /\ \A x \in ToSet(Tail(b)) : Pref(c, Head(b), x)
      BY <2>3, <2>6, TailSorted
    <3>5. \A x \in ToSet(a) : Rank(Head(a)) <= Rank(x) /\ Rank(x) \in Int
      <4>1. \A x \in ToSet(a) : Rank(x) \in Int
        BY <3>1, RankType
      <4>2. Head(a) \in ToSet(a)
        BY <3>1
      <4>3. \A x \in ToSet(Tail(a)) : Rank(Head(a)) <= Rank(x)
        BY <3>1, <3>3, <4>1 DEF Pref
      <4>4. QED
        BY <3>1, <4>1, <4>2, <4>3
    <3>6. \A x \in ToSet(b) : Rank(Head(b)) <= Rank(x) /\ Rank(x) \in Int
      <4>1. \A x \in ToSet(b) : Rank(x) \in Int
        BY <3>2, RankType
      <4>2. Head(b) \in ToSet(b)
        BY <3>2
      <4>3. \A x \in ToSet(Tail(b)) : Rank(Head(b)) <= Rank(x)
        BY <3>2, <3>4, <4>1 DEF Pref
      <4>4. QED
        BY <3>2, <4>1, <4>2, <4>3
    <3>7. CmpRankAsc(Head(a), Head(b)) = Rank(Head(a)) - Rank(Head(b))
      BY <2>3, <3>1, <3>2 DEF Fit
    <3>8. CASE CmpRankAsc(Head(a), Head(b)) <= 0
      <4> DEFINE rest == Merge[<<Tail(a), b>>]
      <4>1. Given(Tail(a), b)
        BY <2>3, <3>1, <3>3 DEF Given, Fit
      <4>2. Sorted(c, rest)
        <5>1. Len(Tail(a)) + Len(b) < n
          BY <2>2, <3>1
        <5>2. QED
          BY <2>1, <3>1, <4>1, <5>1
      <4>3. rest \in R /\ ToSet(rest) = ToSet(Tail(a)) \cup ToSet(b)
        BY <3>1, MergeProperties
      <4>4. Merge[<<a, b>>] = <<Head(a)>> \o rest
        BY <2>2, <2>6, <3>8 DEF MergeStep
      <4> HIDE DEF rest
      <4>5. \A x \in ToSet(b) : Pref(c, Head(a), x)
        <5> SUFFICES ASSUME NEW x \in ToSet(b) PROVE Pref(c, Head(a), x)
          OBVIOUS
        <5>1. Rank(Head(a)) \in Int /\ Rank(Head(b)) \in Int /\ Rank(x) \in Int
          BY <3>1, <3>2, RankType
        <5>2. Rank(Head(a)) <= Rank(x)
          BY <3>6, <3>7, <3>8, <5>1
        <5>3. Before(c, Head(a), x)
          BY <2>3, <3>1
        <5>4. QED
          BY <5>1, <5>2, <5>3 DEF Pref
      <4>6. \A x \in ToSet(rest) : Pref(c, Head(a), x)
        BY <3>3, <4>3, <4>5
      <4>7. QED
        BY <3>1, <4>2, <4>3, <4>4, <4>6, ConsSorted
    <3>9. CASE ~ (CmpRankAsc(Head(a), Head(b)) <= 0)
      <4> DEFINE rest == Merge[<<a, Tail(b)>>]
      <4>1. Given(a, Tail(b))
        BY <2>3, <3>2, <3>4 DEF Given, Fit
      <4>2. Sorted(c, rest)
        <5>1. Len(a) + Len(Tail(b)) < n
          BY <2>2, <3>2
        <5>2. QED
          BY <2>1, <3>2, <4>1, <5>1
      <4>3. rest \in R /\ ToSet(rest) = ToSet(a) \cup ToSet(Tail(b))
        BY <3>2, MergeProperties
      <4>4. Merge[<<a, b>>] = <<Head(b)>> \o rest
        BY <2>2, <2>6, <3>9 DEF MergeStep
      <4> HIDE DEF rest
      <4>5. \A x \in ToSet(a) : Pref(c, Head(b), x)
        <5> SUFFICES ASSUME NEW x \in ToSet(a) PROVE Pref(c, Head(b), x)
          OBVIOUS
        <5>1. Rank(Head(a)) \in Int /\ Rank(Head(b)) \in Int /\ Rank(x) \in Int
          BY <3>1, <3>2, RankType
        <5>2. Rank(Head(b)) < Rank(x)
          BY <3>5, <3>7, <3>9, <5>1
        <5>3. QED
          BY <5>2 DEF Pref
      <4>6. \A x \in ToSet(rest) : Pref(c, Head(b), x)
        BY <3>4, <4>3, <4>5
      <4>7. QED
        BY <3>2, <4>2, <4>3, <4>4, <4>6, ConsSorted
    <3>10. QED
      BY <3>8, <3>9
  <2>7. QED
    BY <2>4, <2>5, <2>6
<1>4. \A n \in Nat : n \in Good
  <2> HIDE DEF Good
  <2>1. QED
    BY <1>2, <1>3, SetInduction
<1>5. Len(l) + Len(r) + 1 \in Nat /\ Len(l) + Len(r) < Len(l) + Len(r) + 1
  BY <1>1
<1>6. Given(l, r)
  BY DEF Given
<1>7. QED
  BY <1>4, <1>5, <1>6

\* The two halves of a list are shorter, and hold it in order.
LEMMA Halves ==
    ASSUME NEW l \in Seq(Entries), ~ (Len(l) < 2)
    PROVE  LET middle == Len(l) \div 2
               a == SubSeq(l, 1, middle)
               b == SubSeq(l, middle + 1, Len(l))
           IN  /\ middle \in 1..(Len(l) - 1) /\ Len(l) \in Nat
               /\ a \in Seq(Entries) /\ Len(a) = middle
               /\ \A i \in 1..Len(a) : a[i] = l[i]
               /\ b \in Seq(Entries) /\ Len(b) = Len(l) - middle
               /\ \A i \in 1..Len(b) : b[i] = l[middle + i]
               /\ ToSet(l) = ToSet(a) \cup ToSet(b)
<1> DEFINE n == Len(l)
           middle == n \div 2
           a == SubSeq(l, 1, middle)
           b == SubSeq(l, middle + 1, n)
<1>1. n \in Nat /\ \A i \in 1..n : l[i] \in Entries
  BY LenProperties, ElementOfSeq
<1>2. middle \in 1..(n - 1)
  BY <1>1
<1> HIDE DEF n, middle
<1>3. middle \in Int /\ middle + 1 \in Int /\ n \in Int /\ 1 <= middle /\ middle + 1 <= n
  BY <1>1, <1>2
<1>4. /\ a \in Seq(Entries) /\ Len(a) = middle
      /\ \A i \in 1..Len(a) : a[i] = l[i]
  <2>1. \A i \in 1..middle : l[i] \in Entries
    BY <1>1, <1>3
  <2>2. /\ a \in Seq(Entries) /\ Len(a) = IF 1 <= middle THEN middle - 1 + 1 ELSE 0
        /\ \A i \in 1..(middle - 1 + 1) : a[i] = l[1 + i - 1]
    BY <1>3, <2>1, SubSeqProperties
  <2> HIDE DEF a
  <2>3. Len(a) = middle
    BY <1>3, <2>2
  <2>4. ASSUME NEW i \in 1..middle PROVE a[i] = l[i]
    <3>1. i \in 1..(middle - 1 + 1) /\ 1 + i - 1 = i
      BY <1>3
    <3>2. QED
      BY <2>2, <3>1
  <2>5. QED
    BY <2>2, <2>3, <2>4
<1>5. /\ b \in Seq(Entries) /\ Len(b) = n - middle
      /\ \A i \in 1..Len(b) : b[i] = l[middle + i]
  <2>1. \A i \in (middle + 1)..n : l[i] \in Entries
    BY <1>1, <1>3
  <2>2. /\ b \in Seq(Entries) /\ Len(b) = IF middle + 1 <= n THEN n - (middle + 1) + 1 ELSE 0
        /\ \A i \in 1..(n - (middle + 1) + 1) : b[i] = l[(middle + 1) + i - 1]
    BY <1>3, <2>1, SubSeqProperties
  <2> HIDE DEF b
  <2>3. Len(b) = n - middle
    BY <1>3, <2>2
  <2>4. ASSUME NEW i \in 1..(n - middle) PROVE b[i] = l[middle + i]
    <3>1. i \in 1..(n - (middle + 1) + 1) /\ (middle + 1) + i - 1 = middle + i
      BY <1>3
    <3>2. QED
      BY <2>2, <3>1
  <2>5. QED
    BY <2>2, <2>3, <2>4
<1> HIDE DEF a, b
<1>6. ToSet(l) = ToSet(a) \cup ToSet(b)
  <2>1. /\ ToSet(l) = {l[i] : i \in 1..n} /\ ToSet(a) = {a[i] : i \in 1..Len(a)}
        /\ ToSet(b) = {b[i] : i \in 1..Len(b)}
    BY <1>4, <1>5, Members DEF n
  <2>2. \A i \in 1..n : (i \in 1..Len(a) /\ l[i] = a[i]) \/ \E j \in 1..Len(b) : l[i] = b[j]
    <3> SUFFICES ASSUME NEW i \in 1..n, ~ (i <= middle) PROVE \E j \in 1..Len(b) : l[i] = b[j]
      BY <1>3, <1>4
    <3>1. i - middle \in 1..Len(b) /\ middle + (i - middle) = i
      BY <1>3, <1>5
    <3>2. l[i] = b[i - middle]
      BY <1>5, <3>1
    <3>3. QED
      BY <3>1, <3>2
  <2>3. ToSet(l) \subseteq ToSet(a) \cup ToSet(b)
    BY <2>1, <2>2
  <2>4. \A i \in 1..Len(a) : i \in 1..n
    BY <1>3, <1>4
  <2>5. \A i \in 1..Len(b) : middle + i \in 1..n
    BY <1>3, <1>5
  <2>6. ToSet(a) \subseteq ToSet(l)
    BY <1>4, <2>1, <2>4
  <2>7. ToSet(b) \subseteq ToSet(l)
    BY <1>5, <2>1, <2>5
  <2>8. QED
    BY <2>3, <2>6, <2>7
<1>7. QED
  BY <1>1, <1>2, <1>4, <1>5, <1>6 DEF n, middle, a, b

\* What merge_sort does once its halves are sorted.
SortStep(f, l) ==
    LET middle == Len(l) \div 2
    IN  IF Len(l) < 2 THEN l
        ELSE Merge[<<f[SubSeq(l, 1, middle)], f[SubSeq(l, middle + 1, Len(l))]>>]

\* merge_sort ends.
LEMMA SortDefined ==
    ASSUME NEW list0 \in Seq(Entries)
    PROVE  Sort[list0] = SortStep(Sort, list0)
<1> DEFINE R == Seq(Entries)
           size == [l \in R |-> Len(l)]
           G == [l \in R |-> [f \in [R -> R] |-> SortStep(f, l)]]
           A(l) == SubSeq(l, 1, Len(l) \div 2)
           B(l) == SubSeq(l, (Len(l) \div 2) + 1, Len(l))
<1>1. size \in [R -> Nat] /\ \A l \in R : size[l] = Len(l)
  BY LenProperties
<1> HIDE DEF size
<1>2. ASSUME NEW l \in R, ~ (Len(l) < 2)
      PROVE  A(l) \in R /\ B(l) \in R /\ size[A(l)] < size[l] /\ size[B(l)] < size[l]
  <2> DEFINE a == A(l)
             b == B(l)
             middle == Len(l) \div 2
  <2>1. /\ middle \in 1..(Len(l) - 1) /\ Len(l) \in Nat /\ a \in R /\ b \in R
        /\ Len(a) = middle /\ Len(b) = Len(l) - middle
    BY <1>2, Halves
  <2> HIDE DEF a, b, middle
  <2>2. Len(a) < Len(l) /\ Len(b) < Len(l)
    BY <2>1
  <2>3. size[a] < size[l] /\ size[b] < size[l]
    BY <1>1, <2>1, <2>2
  <2>4. QED
    BY <2>1, <2>3 DEF a, b
<1>3. ASSUME NEW l \in R, NEW f \in [R -> R] PROVE SortStep(f, l) \in R
  <2>1. CASE Len(l) < 2
    BY <2>1 DEF SortStep
  <2>2. CASE ~ (Len(l) < 2)
    <3>1. f[A(l)] \in R /\ f[B(l)] \in R
      BY <1>2, <2>2
    <3>2. SortStep(f, l) = Merge[<<f[A(l)], f[B(l)]>>]
      BY <2>2 DEF SortStep
    <3> HIDE DEF A, B
    <3>3. QED
      BY <3>1, <3>2, MergeProperties
  <2>3. QED
    BY <2>1, <2>2
<1>4. G \in [R -> [[R -> R] -> R]] /\ \A l \in R, f \in [R -> R] : G[l][f] = SortStep(f, l)
  BY <1>3
<1> HIDE DEF G
<1>5. ASSUME NEW l \in R, NEW f \in [R -> R], NEW g \in [R -> R],
             \A k \in R : size[k] < size[l] => f[k] = g[k]
      PROVE  G[l][f] = G[l][g]
  <2>1. SortStep(f, l) = SortStep(g, l)
    <3>1. CASE Len(l) < 2
      BY <3>1 DEF SortStep
    <3>2. CASE ~ (Len(l) < 2)
      <4>1. f[A(l)] = g[A(l)] /\ f[B(l)] = g[B(l)]
        BY <1>2, <1>5, <3>2
      <4>2. QED
        BY <4>1 DEF SortStep
    <3>3. QED
      BY <3>1, <3>2
  <2>2. G[l][f] = SortStep(f, l) /\ G[l][g] = SortStep(g, l)
    BY <1>4
  <2>3. QED
    BY <2>1, <2>2
<1> DEFINE Solves(f) == f = [l \in R |-> SortStep(f, l)]
<1>6. \E f : Solves(f)
  <2>1. <<>> \in R
    OBVIOUS
  <2> HIDE DEF R
  <2>2. Recursion(R, R, size, G)
    BY <1>1, <1>4, <1>5 DEF Recursion
  <2>3. PICK f \in [R -> R] : \A l \in R : f[l] = G[l][f]
    BY <2>1, <2>2, RecursiveFunction
  <2>4. \A l \in R : f[l] = SortStep(f, l)
    BY <1>4, <2>3
  <2>5. Solves(f)
    BY <2>4
  <2>6. QED
    BY <2>5
<1>7. Sort = CHOOSE f : Solves(f)
  BY DEF Sort, SortStep
<1>8. Solves(Sort)
  <2> HIDE DEF Solves
  <2>1. QED
    BY <1>6, <1>7
<1>9. QED
  BY <1>8

\* merge_sort keeps the members of the list.
LEMMA SortProperties ==
    ASSUME NEW l \in Seq(Entries)
    PROVE  Sort[l] \in Seq(Entries) /\ Len(Sort[l]) = Len(l) /\ ToSet(Sort[l]) = ToSet(l)
<1> DEFINE R == Seq(Entries)
           Holds(s) == Sort[s] \in R /\ Len(Sort[s]) = Len(s) /\ ToSet(Sort[s]) = ToSet(s)
           Good == {n \in Nat : \A s \in R : Len(s) < n => Holds(s)}
<1>1. \A s \in R : Len(s) \in Nat
  BY LenProperties
<1>2. 0 \in Good
  BY <1>1
<1>3. ASSUME NEW n \in Nat, n \in Good PROVE n + 1 \in Good
  <2> SUFFICES ASSUME NEW s \in R, Len(s) < n + 1 PROVE Holds(s)
    OBVIOUS
  <2> HIDE DEF Holds
  <2>1. \A t \in R : Len(t) < n => Holds(t)
    BY <1>3
  <2>2. Sort[s] = SortStep(Sort, s) /\ Len(s) \in Nat
    BY <1>1, SortDefined
  <2>3. CASE Len(s) < 2
    BY <2>2, <2>3 DEF SortStep, Holds
  <2>4. CASE ~ (Len(s) < 2)
    <3> DEFINE middle == Len(s) \div 2
               a == SubSeq(s, 1, middle)
               b == SubSeq(s, middle + 1, Len(s))
    <3>1. /\ middle \in 1..(Len(s) - 1) /\ a \in R /\ b \in R
          /\ Len(a) = middle /\ Len(b) = Len(s) - middle /\ ToSet(s) = ToSet(a) \cup ToSet(b)
      BY <2>4, Halves
    <3>2. Sort[s] = Merge[<<Sort[a], Sort[b]>>]
      BY <2>2, <2>4 DEF SortStep
    <3> HIDE DEF a, b, middle
    <3>3. Len(a) < n /\ Len(b) < n
      BY <2>2, <3>1
    <3>4. Holds(a) /\ Holds(b)
      BY <2>1, <3>1, <3>3
    <3> DEFINE x == Sort[a]
               y == Sort[b]
    <3>5. x \in R /\ Len(x) = Len(a) /\ ToSet(x) = ToSet(a)
      BY <3>4 DEF Holds
    <3>6. y \in R /\ Len(y) = Len(b) /\ ToSet(y) = ToSet(b)
      BY <3>4 DEF Holds
    <3> HIDE DEF x, y
    <3>7. /\ Merge[<<x, y>>] \in R /\ Len(Merge[<<x, y>>]) = Len(x) + Len(y)
          /\ ToSet(Merge[<<x, y>>]) = ToSet(x) \cup ToSet(y)
      BY <3>5, <3>6, MergeProperties
    <3>8. Sort[s] = Merge[<<x, y>>]
      BY <3>2 DEF x, y
    <3>9. Len(x) + Len(y) = Len(s)
      BY <2>2, <3>1, <3>5, <3>6
    <3>10. QED
      BY <3>1, <3>5, <3>6, <3>7, <3>8, <3>9 DEF Holds
  <2>5. QED
    BY <2>3, <2>4
<1>4. \A n \in Nat : n \in Good
  <2> HIDE DEF Good
  <2>1. QED
    BY <1>2, <1>3, SetInduction
<1>5. Len(l) + 1 \in Nat /\ Len(l) < Len(l) + 1
  BY <1>1
<1>6. Holds(l)
  <2> HIDE DEF Holds
  <2>1. QED
    BY <1>4, <1>5
<1>7. QED
  BY <1>6

\* merge_sort sorts, and leaves members of equal rank as they were.
LEMMA SortSorted ==
    ASSUME NEW c \in Seq(Entries), Fit(ToSet(c))
    PROVE  Sorted(c, Sort[c])
<1> DEFINE R == Seq(Entries)
           Part(s) == /\ ToSet(s) \subseteq ToSet(c)
                      /\ \A i, j \in 1..Len(s) : i < j => Before(c, s[i], s[j])
           Good == {n \in Nat : \A s \in R : Len(s) < n /\ Part(s) => Sorted(c, Sort[s])}
<1>1. \A s \in R : Len(s) \in Nat
  BY LenProperties
<1>2. 0 \in Good
  BY <1>1
<1>3. ASSUME NEW n \in Nat, n \in Good PROVE n + 1 \in Good
  <2> SUFFICES ASSUME NEW s \in R, Len(s) < n + 1, Part(s) PROVE Sorted(c, Sort[s])
    OBVIOUS
  <2>1. \A t \in R : Len(t) < n /\ Part(t) => Sorted(c, Sort[t])
    BY <1>3
  <2>2. Sort[s] = SortStep(Sort, s) /\ Len(s) \in Nat
    BY <1>1, SortDefined
  <2>3. CASE Len(s) < 2
    <3>1. Sort[s] = s
      BY <2>2, <2>3 DEF SortStep
    <3>2. \A i, j \in 1..Len(s) : ~ (i < j)
      BY <2>2, <2>3
    <3>3. QED
      BY <3>1, <3>2 DEF Sorted
  <2>4. CASE ~ (Len(s) < 2)
    <3> DEFINE middle == Len(s) \div 2
               a == SubSeq(s, 1, middle)
               b == SubSeq(s, middle + 1, Len(s))
    <3>1. /\ middle \in 1..(Len(s) - 1) /\ a \in R /\ b \in R
          /\ Len(a) = middle /\ Len(b) = Len(s) - middle /\ ToSet(s) = ToSet(a) \cup ToSet(b)
          /\ \A i \in 1..Len(a) : a[i] = s[i]
          /\ \A i \in 1..Len(b) : b[i] = s[middle + i]
      BY <2>4, Halves
    <3>2. Sort[s] = Merge[<<Sort[a], Sort[b]>>]
      BY <2>2, <2>4 DEF SortStep
    <3> HIDE DEF a, b, middle
    <3>3. Len(a) < n /\ Len(b) < n
      BY <2>2, <3>1
    <3>4. \A i \in 1..Len(a), j \in 1..Len(b) :
             i \in 1..Len(s) /\ middle + j \in 1..Len(s) /\ i < middle + j
      BY <2>2, <3>1
    <3>5. Part(a)
      <4>1. ASSUME NEW i \in 1..Len(a), NEW j \in 1..Len(a), i < j PROVE Before(c, a[i], a[j])
        <5>1. i \in 1..Len(s) /\ j \in 1..Len(s)
          BY <2>2, <3>1
        <5>2. QED
          BY <3>1, <4>1, <5>1
      <4>2. QED
        BY <3>1, <4>1
    <3>6. Part(b)
      <4>1. ASSUME NEW i \in 1..Len(b), NEW j \in 1..Len(b), i < j PROVE Before(c, b[i], b[j])
        <5>1. middle + i \in 1..Len(s) /\ middle + j \in 1..Len(s) /\ middle + i < middle + j
          BY <2>2, <3>1, <4>1
        <5>2. Before(c, s[middle + i], s[middle + j])
          BY <5>1
        <5>3. QED
          BY <3>1, <5>2
      <4>2. QED
        BY <3>1, <4>1
    <3>7. \A x \in ToSet(a), y \in ToSet(b) : Before(c, x, y)
      <4>1. ASSUME NEW i \in 1..Len(a), NEW j \in 1..Len(b) PROVE Before(c, a[i], b[j])
        <5>1. Before(c, s[i], s[middle + j])
          BY <3>4
        <5>2. QED
          BY <3>1, <5>1
      <4>2. ToSet(a) = {a[i] : i \in 1..Len(a)} /\ ToSet(b) = {b[i] : i \in 1..Len(b)}
        BY <3>1, Members
      <4>3. QED
        BY <4>1, <4>2
    <3> DEFINE x == Sort[a]
               y == Sort[b]
    <3>8. Sorted(c, x) /\ Sorted(c, y)
      BY <2>1, <3>1, <3>3, <3>5, <3>6
    <3>9. x \in R /\ ToSet(x) = ToSet(a) /\ y \in R /\ ToSet(y) = ToSet(b)
      BY <3>1, SortProperties
    <3>10. Sort[s] = Merge[<<x, y>>]
      BY <3>2
    <3> HIDE DEF x, y
    <3>11. Fit(ToSet(x) \cup ToSet(y))
      BY <3>1, <3>9 DEF Fit
    <3>12. \A u \in ToSet(x), v \in ToSet(y) : Before(c, u, v)
      BY <3>7, <3>9
    <3>13. QED
      BY <3>8, <3>9, <3>10, <3>11, <3>12, MergeSorted
  <2>5. QED
    BY <2>3, <2>4
<1>4. \A n \in Nat : n \in Good
  <2> HIDE DEF Good
  <2>1. QED
    BY <1>2, <1>3, SetInduction
<1>5. Len(c) + 1 \in Nat /\ Len(c) < Len(c) + 1
  BY <1>1
<1>6. Part(c)
  BY DEF Before
<1>7. QED
  BY <1>4, <1>5, <1>6

---------------------------------------------------------------------------
(* The best of a list.                                                     *)

\* No two entries are of the same supernode.
Distinct(l) == \A i, j \in DOMAIN l : l[i].sn = l[j].sn => i = j

\* What supernodes_discovery keeps of a list is from its front, when sorted.
LEMMA BestMembers ==
    ASSUME NEW l \in Seq(Entries)
    PROVE  LET n == IF Len(l) < Keep THEN Len(l) ELSE Keep
           IN  /\ n \in 0..Len(l)
               /\ Best(l) = {Sort[l][i].sn : i \in 1..n}
               /\ Best(l) \subseteq Names(l) /\ Names(l) \subseteq Sns
<1> DEFINE s == Sort[l]
           n == IF Len(l) < Keep THEN Len(l) ELSE Keep
           p == SubSeq(s, 1, n)
<1>1. s \in Seq(Entries) /\ Len(s) = Len(l) /\ ToSet(s) = ToSet(l)
  BY SortProperties
<1>2. n \in 0..Len(l) /\ Len(l) \in Nat
  <2>1. Len(l) \in Nat /\ Keep \in Nat
    BY LenProperties, DiscoveryAssumption
  <2>2. QED
    BY <2>1
<1>3. Best(l) = Names(p)
  BY DEF Best
<1> HIDE DEF s, n
<1>4. p \in Seq(Entries) /\ Len(p) = n /\ \A i \in 1..n : p[i] = s[i]
  BY <1>1, <1>2, Prefix
<1>5. DOMAIN p = 1..n
  BY <1>4, LenProperties
<1>6. Best(l) = {s[i].sn : i \in 1..n}
  BY <1>3, <1>4, <1>5 DEF Names
<1>7. /\ ToSet(s) = {s[i] : i \in 1..Len(s)} /\ ToSet(l) = {l[i] : i \in 1..Len(l)}
      /\ DOMAIN l = 1..Len(l) /\ \A i \in 1..Len(l) : l[i] \in Entries
  BY <1>1, Members
<1>8. Names(l) \subseteq Sns
  BY <1>7 DEF Names, Entries
<1>9. \A i \in 1..n : i \in 1..Len(s)
  BY <1>1, <1>2
<1>10. \A i \in 1..n : \E j \in 1..Len(l) : s[i] = l[j]
  BY <1>1, <1>7, <1>9
<1>11. Best(l) \subseteq Names(l)
  BY <1>6, <1>7, <1>10 DEF Names
<1>12. QED
  BY <1>2, <1>6, <1>8, <1>11 DEF s, n

\* The entries that are preferred to one number as many as are sorted before it.
LEMMA BestIsBest ==
    ASSUME NEW l \in Seq(Entries), Distinct(l), Fit(ToSet(l))
    PROVE  Best(l) = {l[i].sn : i \in {j \in DOMAIN l :
                          Cardinality({k \in DOMAIN l : Preferred(l, k, j)}) < Keep}}
<1> DEFINE s == Sort[l]
           n == Len(l)
           Better(p) == {k \in DOMAIN l : Preferred(l, k, p)}
<1>1. /\ s \in Seq(Entries) /\ Len(s) = n /\ ToSet(s) = ToSet(l) /\ Sorted(l, s)
      /\ n \in Nat /\ DOMAIN l = 1..n /\ \A i \in 1..n : l[i] \in Entries
      /\ ToSet(l) = {l[i] : i \in 1..n}
  BY SortProperties, SortSorted, Members
<1>2. ToSet(s) = {s[i] : i \in 1..n}
  BY <1>1, Members
<1> HIDE DEF s, n
<1>3. \A i, j \in 1..n : l[i] = l[j] => i = j
  BY <1>1 DEF Distinct
<1>4. ASSUME NEW x \in ToSet(l), NEW y \in ToSet(l), Pref(l, x, y), Pref(l, y, x) PROVE FALSE
  <2>1. Rank(x) \in Int /\ Rank(y) \in Int
    BY <1>1, RankType
  <2>2. Before(l, x, y) /\ Before(l, y, x)
    BY <1>4, <2>1 DEF Pref
  <2>3. PICK i \in 1..n, j \in 1..n : i < j /\ l[i] = x /\ l[j] = y
    BY <2>2 DEF Before, n
  <2>4. PICK a \in 1..n, b \in 1..n : a < b /\ l[a] = y /\ l[b] = x
    BY <2>2 DEF Before, n
  <2>5. i = b /\ j = a
    BY <1>3, <2>3, <2>4
  <2>6. QED
    BY <2>3, <2>4, <2>5
<1>5. \A i, j \in 1..n : i < j => Pref(l, s[i], s[j])
  BY <1>1 DEF Sorted
<1>6. \A i \in 1..n : s[i] \in ToSet(l) /\ \E p \in 1..n : l[p] = s[i]
  BY <1>1, <1>2
<1>7. \A p \in 1..n : \E i \in 1..n : s[i] = l[p]
  BY <1>1, <1>2
<1>8. \A i, j \in 1..n : Pref(l, s[i], s[j]) => i < j
  <2> SUFFICES ASSUME NEW i \in 1..n, NEW j \in 1..n, Pref(l, s[i], s[j]), ~ (i < j) PROVE FALSE
    OBVIOUS
  <2>1. i = j \/ j < i
    OBVIOUS
  <2>2. Pref(l, s[j], s[i])
    BY <1>5, <2>1
  <2>3. QED
    BY <1>4, <1>6, <2>2
<1>9. \A i, j \in 1..n : s[i] = s[j] => i = j
  <2> SUFFICES ASSUME NEW i \in 1..n, NEW j \in 1..n, s[i] = s[j], i < j PROVE FALSE
    <3>1. \A i, j \in 1..n : i # j => i < j \/ j < i
      OBVIOUS
    <3>2. QED
      BY <3>1
  <2>1. Pref(l, s[j], s[i])
    BY <1>5
  <2>2. QED
    BY <1>8, <2>1
<1>10. \A a, b \in 1..n : Preferred(l, a, b) <=> Pref(l, l[a], l[b])
  <2> SUFFICES ASSUME NEW a \in 1..n, NEW b \in 1..n PROVE a < b <=> Before(l, l[a], l[b])
    BY DEF Preferred, Pref
  <2>1. a < b => Before(l, l[a], l[b])
    BY DEF Before, n
  <2>2. ASSUME Before(l, l[a], l[b]) PROVE a < b
    <3>1. PICK i \in 1..n, j \in 1..n : i < j /\ l[i] = l[a] /\ l[j] = l[b]
      BY <2>2 DEF Before, n
    <3>2. i = a /\ j = b
      BY <1>3, <3>1
    <3>3. QED
      BY <3>1, <3>2
  <2>3. QED
    BY <2>1, <2>2
<1>11. ASSUME NEW j \in 1..n, NEW p \in 1..n, l[p] = s[j]
       PROVE  Cardinality(Better(p)) = j - 1
  <2> DEFINE f == [i \in 1..(j - 1) |-> CHOOSE q \in 1..n : l[q] = s[i]]
  <2>1. \A i \in 1..(j - 1) : i \in 1..n /\ i < j
    BY <1>1
  <2>2. ASSUME NEW i \in 1..(j - 1) PROVE f[i] \in 1..n /\ l[f[i]] = s[i] /\ f[i] \in Better(p)
    <3>1. \E q \in 1..n : l[q] = s[i]
      BY <1>6, <2>1
    <3>2. f[i] \in 1..n /\ l[f[i]] = s[i]
      BY <3>1
    <3>3. Pref(l, l[f[i]], l[p])
      BY <1>5, <1>11, <2>1, <3>2
    <3>4. Preferred(l, f[i], p)
      BY <1>10, <3>2, <3>3
    <3>5. QED
      BY <1>1, <3>2, <3>4
  <2>3. f \in [1..(j - 1) -> Better(p)]
    BY <2>2
  <2>4. ASSUME NEW a \in 1..(j - 1), NEW b \in 1..(j - 1), f[a] = f[b] PROVE a = b
    BY <1>9, <2>1, <2>2, <2>4
  <2>5. ASSUME NEW q \in Better(p) PROVE \E i \in 1..(j - 1) : f[i] = q
    <3>1. q \in 1..n /\ Pref(l, l[q], l[p])
      BY <1>1, <1>10
    <3>2. PICK i \in 1..n : s[i] = l[q]
      BY <1>7, <3>1
    <3>3. i < j
      BY <1>8, <1>11, <3>1, <3>2
    <3>4. i \in 1..(j - 1)
      BY <3>3
    <3>5. f[i] = q
      BY <1>3, <2>2, <3>1, <3>2, <3>4
    <3>6. QED
      BY <3>4, <3>5
  <2> HIDE DEF f, Better
  <2>6. f \in Bijection(1..(j - 1), Better(p))
    BY <2>3, <2>4, <2>5 DEF Bijection, Injection, Surjection, IsInjective
  <2>7. ExistsBijection(1..(j - 1), Better(p)) /\ j - 1 \in Nat
    BY <2>6 DEF ExistsBijection
  <2>8. QED
    BY <2>7, FS_CountingElements
<1> HIDE DEF Better
<1> DEFINE k == IF n < Keep THEN n ELSE Keep
<1>12. k \in 0..n /\ Best(l) = {s[i].sn : i \in 1..k} /\ Keep \in Nat
  BY BestMembers, DiscoveryAssumption DEF s, n
<1>13. \A j \in 1..n : j \in 1..k <=> j - 1 < Keep
  BY <1>1, <1>12
<1> HIDE DEF k
<1>14. ASSUME NEW j \in 1..k
       PROVE  \E p \in DOMAIN l : Cardinality(Better(p)) < Keep /\ l[p].sn = s[j].sn
  <2>1. j \in 1..n /\ j - 1 < Keep
    BY <1>1, <1>12, <1>13
  <2>2. PICK p \in 1..n : l[p] = s[j]
    BY <1>6, <2>1
  <2>3. Cardinality(Better(p)) = j - 1
    BY <1>11, <2>1, <2>2
  <2>4. QED
    BY <1>1, <2>1, <2>2, <2>3
<1>15. ASSUME NEW p \in DOMAIN l, Cardinality(Better(p)) < Keep
       PROVE  \E j \in 1..k : s[j].sn = l[p].sn
  <2>1. PICK j \in 1..n : s[j] = l[p]
    BY <1>1, <1>7
  <2>2. j - 1 < Keep
    BY <1>1, <1>11, <1>15, <2>1
  <2>3. QED
    BY <1>13, <2>1, <2>2
<1> DEFINE Few == {j \in DOMAIN l : Cardinality(Better(j)) < Keep}
<1>16. Best(l) \subseteq {l[i].sn : i \in Few}
  BY <1>12, <1>14
<1>17. {l[i].sn : i \in Few} \subseteq Best(l)
  BY <1>12, <1>15
<1>18. QED
  BY <1>16, <1>17 DEF Better

---------------------------------------------------------------------------
(* The invariant.                                                          *)

\* The types, and that a timestamp is not in the future: a response time is a
\* difference with one.
FoundOK(st, c, t) ==
    /\ st.state \in {"DISCOVERY", "REQ_ADV", "READY", "CRASHED"}
    /\ st.list \in Seq(Entries) /\ Distinct(st.list)
    /\ \A i \in DOMAIN st.list : st.list[i].timestamp <= t
    /\ st.ring \subseteq c /\ Cardinality(st.ring) <= RingMax
    /\ st.state = "READY" => st.ring # {}

\* A datagram in flight: the addresses to register with, and the sender of an ADV,
\* are coordinators; a supernode names no neighbour twice.
Sound(m, c) ==
    /\ m \in Datagrams
    /\ m.type = "RSP" /\ ~m.A => IsInjective(m.sns)
    /\ m.type = "RSP" /\ m.A => m.sns # <<>> /\ ToSet(m.sns) \subseteq c
    /\ m.type = "ADV" => m.sn \in c

\* A datagram of a timely network: before discovery may end requests and plain
\* responses are of supernodes in the list; later there are only requests for an
\* ADV, and ADVs.
InTime(m, s, l, t) ==
    IF t < Interval
    THEN s = "DISCOVERY" => m.type = "ADV" \/ (m.type = "RSP" /\ m.A) \/ m.sn \in Names(l)
    ELSE m.type = "ADV" \/ (m.type = "REQ" /\ m.A)

\* How far a timely network lets discovery get.
OnTime(s, t) == s # "CRASHED" /\ (t < Interval => s \in {"DISCOVERY", "READY"})

DiscoveryInv ==
    /\ FoundOK(Found, coord, epoch + now)
    /\ ranked \in Seq(Entries) /\ Distinct(ranked) /\ asked = Best(ranked)
    /\ epoch \in Epochs /\ now \in 0..MaxTime
    /\ up \subseteq Sns /\ coord \subseteq Sns
    /\ timely \in BOOLEAN /\ given \in CmdLines
    /\ \A m \in net : Sound(m, coord)
    /\ timely => OnTime(state, now) /\ \A m \in net : InTime(m, state, list, now)

\* The parts of Found.
LEMMA FoundParts ==
    Found.state = state /\ Found.list = list /\ Found.ring = ring
BY DEF Found

\* Nothing is in flight that was not, and is not sent.
LEMMA TransmitNothingNew ==
    ASSUME NEW taken, NEW out, Transmit(taken, out)
    PROVE  \A m \in net' : m \in net \/ m \in out
BY DEF Transmit

\* A request of the edge.
LEMMA ReqProperties ==
    ASSUME NEW s \in Sns, NEW A \in BOOLEAN, NEW c
    PROVE  LET m == Req(s, A)
           IN  Sound(m, c) /\ m.type = "REQ" /\ m.sn = s /\ m.A = A
<1> DEFINE m == Req(s, A)
<1>1. m.type = "REQ" /\ m.sn = s /\ m.A = A /\ m \in Datagrams
  BY DEF Req, Datagrams
<1> HIDE DEF m
<1>2. Sound(m, c)
  BY <1>1 DEF Sound
<1>3. QED
  BY <1>1, <1>2 DEF m

\* What the end of an iteration keeps.
LEMMA EndLoopKeeps ==
    ASSUME DiscoveryInv, NEW st, NEW taken, NEW out, EndLoop(st, taken, out),
           FoundOK(st, coord, epoch + now),
           \A m \in out : Sound(m, coord),
           timely => /\ OnTime(st.state, now)
                     /\ \A m \in net \cup out : InTime(m, st.state, st.list, now)
    PROVE  DiscoveryInv'
<1>1. UNCHANGED <<epoch, now, up, coord, timely, given>> /\ ring' = st.ring
  BY DEF EndLoop
<1>2. now \in Nat /\ Interval \in Nat
  BY DiscoveryAssumption DEF DiscoveryInv
<1>3. CASE ~DiscoveryEnds(st)
  <2>1. /\ state' = st.state /\ list' = st.list /\ UNCHANGED <<ranked, asked>>
        /\ Transmit(taken, out)
    BY <1>3 DEF EndLoop
  <2>2. \A m \in net' : m \in net \/ m \in out
    BY <2>1, TransmitNothingNew
  <2>3. FoundOK(Found, coord, epoch + now)'
    BY <1>1, <2>1, FoundParts DEF FoundOK, Found
  <2>4. \A m \in net' : Sound(m, coord)
    BY <2>2 DEF DiscoveryInv
  <2>5. timely => OnTime(state', now) /\ \A m \in net' : InTime(m, state', list', now)
    BY <2>1, <2>2
  <2>6. QED
    BY <1>1, <2>1, <2>3, <2>4, <2>5 DEF DiscoveryInv
<1>4. CASE DiscoveryEnds(st)
  <2> DEFINE best == Best(st.list)
  <2>1. /\ state' = "REQ_ADV" /\ list' = <<>> /\ ranked' = st.list /\ asked' = best
        /\ Transmit(taken, out \cup RequestsForAdv(best))
    BY <1>4 DEF EndLoop
  <2>2. best \subseteq Sns /\ st.list \in Seq(Entries) /\ Distinct(st.list)
    <3>1. st.list \in Seq(Entries) /\ Distinct(st.list)
      BY DEF FoundOK
    <3>2. QED
      BY <3>1, BestMembers
  <2>3. asked' = Best(ranked')
    BY <2>1
  <2> HIDE DEF best
  <2>4. \A m \in net' : m \in net \/ m \in out \/ m \in RequestsForAdv(best)
    BY <2>1, TransmitNothingNew
  <2>5. \A m \in RequestsForAdv(best) : Sound(m, coord) /\ m.type = "REQ" /\ m.A
    <3>1. ASSUME NEW s \in best
          PROVE  LET m == Req(s, TRUE) IN Sound(m, coord) /\ m.type = "REQ" /\ m.A
      <4>1. s \in Sns /\ TRUE \in BOOLEAN
        BY <2>2
      <4>2. QED
        BY <4>1, ReqProperties
    <3>2. QED
      BY <3>1 DEF RequestsForAdv
  <2>6. ~ (now < Interval)
    BY <1>2, <1>4 DEF DiscoveryEnds
  <2>7. FoundOK(Found, coord, epoch + now)'
    <3>1. /\ Found'.state = "REQ_ADV" /\ Found'.list = <<>> /\ Found'.ring = st.ring
      BY <1>1, <2>1 DEF Found
    <3>2. <<>> \in Seq(Entries) /\ DOMAIN <<>> = {}
      OBVIOUS
    <3>3. QED
      BY <1>1, <3>1, <3>2 DEF FoundOK, Distinct
  <2>8. \A m \in net' : Sound(m, coord)
    BY <2>4, <2>5 DEF DiscoveryInv
  <2>9. timely => OnTime(state', now) /\ \A m \in net' : InTime(m, state', list', now)
    BY <2>1, <2>4, <2>5, <2>6 DEF OnTime, InTime
  <2>10. QED
    BY <1>1, <2>1, <2>2, <2>3, <2>7, <2>8, <2>9 DEF DiscoveryInv
<1>5. QED
  BY <1>3, <1>4

\* Sets of supernodes are finite.
LEMMA SnsFinite ==
    ASSUME NEW S \in SUBSET Sns
    PROVE  IsFiniteSet(S) /\ Cardinality(S) \in Nat
BY DiscoveryAssumption, FS_Subset, FS_CardinalityType

\* The members of a list are not more than its places.
LEMMA FewMembers ==
    ASSUME NEW S, NEW s \in Seq(S)
    PROVE  IsFiniteSet(ToSet(s)) /\ Cardinality(ToSet(s)) <= Len(s)
<1>1. /\ ToSet(s) = {s[i] : i \in 1..Len(s)} /\ Len(s) \in Nat
      /\ DOMAIN s = 1..Len(s) /\ s \in [1..Len(s) -> ToSet(s)]
  BY Members, LenProperties DEF ToSet
<1>2. s \in Surjection(1..Len(s), ToSet(s))
  BY <1>1 DEF Surjection
<1>3. ExistsSurjection(1..Len(s), ToSet(s))
  BY <1>2 DEF ExistsSurjection
<1>4. QED
  BY <1>1, <1>3, FS_NatSurjection, FS_SurjCardinalityBound

\* A response with addresses fills the ring up to its limit, and never leaves it
\* empty.
LEMMA AcceptedOK ==
    ASSUME DiscoveryInv, NEW m \in net, m.type = "RSP", m.A
    PROVE  FoundOK(AcceptedBy(m), coord, epoch + now) /\ AcceptedBy(m).state = "READY"
<1> DEFINE room == RingMax - Cardinality(ring)
           n == IF Len(m.sns) < room THEN Len(m.sns) ELSE room
           p == SubSeq(m.sns, 1, n)
           st == AcceptedBy(m)
<1>1. /\ ring \subseteq coord /\ coord \subseteq Sns /\ Cardinality(ring) <= RingMax
      /\ RingMax \in Nat \ {0}
  BY FoundParts, DiscoveryAssumption DEF DiscoveryInv, FoundOK
<1>2. IsFiniteSet(ring) /\ Cardinality(ring) \in Nat
  BY <1>1, SnsFinite
<1>3. m.sns # <<>> /\ ToSet(m.sns) \subseteq coord /\ m.sns \in Seq(Sns)
  BY DEF DiscoveryInv, Sound, Datagrams
<1>4. Len(m.sns) \in Nat \ {0}
  BY <1>3, EmptySeq
<1>5. n \in 0..Len(m.sns) /\ Cardinality(ring) + n <= RingMax /\ (ring = {} => n > 0)
  <2>1. ring = {} => Cardinality(ring) = 0
    BY FS_EmptySet
  <2>2. QED
    BY <1>1, <1>2, <1>4, <2>1
<1>6. st = [Found EXCEPT !.state = "READY", !.list = <<>>, !.ring = @ \cup ToSet(p)]
  BY DEF AcceptedBy
<1> HIDE DEF n
<1>7. p \in Seq(Sns) /\ Len(p) = n /\ \A i \in 1..n : p[i] = m.sns[i]
  BY <1>3, <1>5, Prefix
<1> HIDE DEF st, p
<1>8. st.state = "READY" /\ st.list = <<>> /\ st.ring = ring \cup ToSet(p)
  BY <1>6 DEF Found
<1>9. ToSet(p) = {p[i] : i \in 1..n} /\ ToSet(m.sns) = {m.sns[i] : i \in 1..Len(m.sns)}
  BY <1>3, <1>7, Members
<1>10. ToSet(p) \subseteq coord /\ (n > 0 => ToSet(p) # {})
  <2>1. \A i \in 1..n : i \in 1..Len(m.sns)
    BY <1>4, <1>5
  <2>2. \A i \in 1..n : p[i] \in ToSet(m.sns)
    BY <1>7, <1>9, <2>1
  <2>3. n > 0 => 1 \in 1..n
    BY <1>5
  <2>4. QED
    BY <1>3, <1>9, <2>2, <2>3
<1>11. Cardinality(ring \cup ToSet(p)) <= RingMax
  <2>1. IsFiniteSet(ToSet(p)) /\ Cardinality(ToSet(p)) <= n
    BY <1>7, FewMembers
  <2>2. /\ Cardinality(ring \cup ToSet(p)) =
              Cardinality(ring) + Cardinality(ToSet(p)) - Cardinality(ring \cap ToSet(p))
    BY <1>2, <2>1, FS_Union
  <2>3. Cardinality(ToSet(p)) \in Nat /\ Cardinality(ring \cap ToSet(p)) \in Nat
    BY <1>2, <2>1, FS_Intersection, FS_CardinalityType
  <2>4. n \in Nat
    BY <1>5
  <2>5. QED
    BY <1>1, <1>2, <1>5, <2>1, <2>2, <2>3, <2>4
<1>12. <<>> \in Seq(Entries) /\ DOMAIN <<>> = {}
  OBVIOUS
<1>13. FoundOK(st, coord, epoch + now)
  BY <1>1, <1>5, <1>8, <1>10, <1>11, <1>12 DEF FoundOK, Distinct
<1>14. QED
  BY <1>8, <1>13 DEF st

\* A plain response: the list grows by supernodes it did not have, and all that it
\* had stay.
LEMMA NotedOK ==
    ASSUME DiscoveryInv, NEW m \in net, m.type = "RSP", ~m.A
    PROVE  /\ FoundOK(Noted(m), coord, epoch + now) /\ Noted(m).state = state
           /\ Names(list) \subseteq Names(Noted(m).list)
           /\ ToSet(NewIn(m)) \subseteq Names(Noted(m).list)
           /\ ToSet(NewIn(m)) \subseteq Sns
<1> DEFINE N == NewIn(m)
           t == epoch + now
           a == [i \in DOMAIN N |-> Entry(N[i], t, 0)]
           r == Reverse(a)
           E(i) == IF list[i].sn = m.sn
                   THEN Entry(m.sn, epoch + now - list[i].timestamp, m.num) ELSE list[i]
           b == [i \in DOMAIN list |-> E(i)]
           l == r \o b
           st == Noted(m)
<1>1. st = [Found EXCEPT !.list = l]
  BY DEF Noted, Found
<1>2. /\ m.sn \in Sns /\ m.sns \in Seq(Sns) /\ m.num \in Nat /\ IsInjective(m.sns)
      /\ FoundOK(Found, coord, t) /\ t \in Nat
  BY DiscoveryAssumption DEF DiscoveryInv, Sound, Datagrams
<1>3. /\ list \in Seq(Entries) /\ Distinct(list)
      /\ \A i \in DOMAIN list : list[i].timestamp <= t
  BY <1>2, FoundParts DEF FoundOK
<1>4. /\ N \in Seq(Sns) /\ IsInjective(N)
      /\ \A j \in 1..Len(N) : N[j] \notin Names(list)
  <2> DEFINE T == ToSet(m.sns) \ Names(list)
  <2> HIDE DEF T
  <2>1. N = Select(m.sns, T)
    BY DEF NewIn, T
  <2>2. N \in Seq(Sns) /\ Selection(N, m.sns, T) /\ IsInjective(N)
    BY <1>2, <2>1, SelectProperties, SelectInjective
  <2> HIDE DEF N
  <2>3. \A j \in 1..Len(N) : N[j] \in T
    BY <2>2 DEF Selection
  <2>4. QED
    BY <2>2, <2>3 DEF T
<1> DEFINE n == Len(N)
           k == Len(list)
<1> HIDE DEF N, l, t
<1>5. /\ n \in Nat /\ DOMAIN N = 1..n /\ \A i \in 1..n : N[i] \in Sns
      /\ \A i, j \in 1..n : N[i] = N[j] => i = j
      /\ ToSet(N) = {N[i] : i \in 1..n} /\ ToSet(N) \subseteq Sns
  <2>1. n \in Nat /\ DOMAIN N = 1..n /\ \A i \in 1..n : N[i] \in Sns
    BY <1>4, Members
  <2>2. \A i, j \in 1..n : N[i] = N[j] => i = j
    BY <1>4, <2>1 DEF IsInjective
  <2>3. ToSet(N) = {N[i] : i \in 1..n} /\ ToSet(N) \subseteq Sns
    BY <1>4, Members
  <2>4. QED
    BY <2>1, <2>2, <2>3
<1>6. k \in Nat /\ DOMAIN list = 1..k /\ \A i \in 1..k : list[i] \in Entries
  BY <1>3, Members
<1> HIDE DEF n, k
<1>7. /\ a \in Seq(Entries) /\ Len(a) = n
      /\ \A i \in 1..n : a[i].sn = N[i] /\ a[i].timestamp = t
  <2>1. \A i \in 1..n : Entry(N[i], t, 0) \in Entries
    BY <1>2, <1>5 DEF Entry, Entries
  <2>2. a = [i \in 1..n |-> Entry(N[i], t, 0)]
    BY <1>5
  <2>3. a \in Seq(Entries) /\ Len(a) = n
    BY <1>5, <2>1, <2>2
  <2>4. \A i \in 1..n : a[i].sn = N[i] /\ a[i].timestamp = t
    BY <2>2 DEF Entry
  <2>5. QED
    BY <2>3, <2>4
<1> HIDE DEF a
<1>8. /\ r \in Seq(Entries) /\ Len(r) = n
      /\ \A i \in 1..n : r[i].sn = N[(n - i) + 1] /\ r[i].timestamp = t
  <2>1. r = [i \in 1..n |-> a[(n - i) + 1]]
    BY <1>7 DEF Reverse
  <2>2. \A i \in 1..n : (n - i) + 1 \in 1..n
    BY <1>5
  <2>3. \A i \in 1..n : a[i] \in Entries
    BY <1>7, ElementOfSeq
  <2>4. \A i \in 1..n : a[(n - i) + 1] \in Entries
    BY <2>2, <2>3
  <2> DEFINE f == [i \in 1..n |-> a[(n - i) + 1]]
  <2>5. r \in Seq(Entries) /\ Len(r) = n
    <3>1. f \in [1..n -> Entries]
      BY <2>4
    <3> HIDE DEF f
    <3>2. f \in Seq(Entries) /\ Len(f) = n
      BY <1>5, <3>1
    <3>3. r = f
      BY <2>1 DEF f
    <3> HIDE DEF r
    <3>4. QED
      BY <3>2, <3>3
  <2>6. \A i \in 1..n : r[i] = a[(n - i) + 1]
    BY <2>1
  <2>7. QED
    BY <1>7, <2>2, <2>5, <2>6
<1> HIDE DEF r
<1>9. /\ b \in Seq(Entries) /\ Len(b) = k
      /\ \A i \in 1..k : b[i].sn = list[i].sn /\ b[i].timestamp <= t
  <2>1. ASSUME NEW i \in 1..k
        PROVE  E(i) \in Entries /\ E(i).sn = list[i].sn /\ E(i).timestamp <= t
    <3>1. list[i].timestamp \in Nat /\ list[i].timestamp <= t /\ list[i] \in Entries
      BY <1>3, <1>6 DEF Entries
    <3>3. CASE list[i].sn = m.sn
      <4>1. t - list[i].timestamp \in Nat /\ t - list[i].timestamp <= t
        BY <1>2, <3>1
      <4>2. E(i) = Entry(m.sn, t - list[i].timestamp, m.num)
        <5>1. epoch \in Nat /\ now \in Nat
          BY DiscoveryAssumption DEF DiscoveryInv
        <5>2. epoch + now - list[i].timestamp = t - list[i].timestamp
          BY <3>1, <5>1 DEF t
        <5>3. E(i) = Entry(m.sn, epoch + now - list[i].timestamp, m.num)
          BY <3>3
        <5>4. QED
          BY <5>2, <5>3
      <4> HIDE DEF E
      <4>3. QED
        BY <1>2, <3>3, <4>1, <4>2 DEF Entry, Entries
    <3>4. CASE list[i].sn # m.sn
      BY <3>1, <3>4
    <3>5. QED
      BY <3>3, <3>4
  <2> HIDE DEF E
  <2>2. b = [i \in 1..k |-> E(i)]
    BY <1>6
  <2>3. b \in Seq(Entries) /\ Len(b) = k
    BY <1>6, <2>1, <2>2
  <2>4. \A i \in 1..k : b[i] = E(i)
    BY <2>2
  <2>5. QED
    BY <2>1, <2>3, <2>4
<1> HIDE DEF b
<1>10. /\ l \in Seq(Entries) /\ Len(l) = n + k /\ DOMAIN l = 1..(n + k)
       /\ \A i \in 1..(n + k) : l[i] = IF i <= n THEN r[i] ELSE b[i - n]
  <2>1. /\ l \in Seq(Entries) /\ Len(l) = Len(r) + Len(b)
        /\ \A i \in 1..(Len(r) + Len(b)) : l[i] = IF i <= Len(r) THEN r[i] ELSE b[i - Len(r)]
    BY <1>8, <1>9, ConcatProperties DEF l
  <2>2. DOMAIN l = 1..Len(l)
    BY <2>1, LenProperties
  <2>3. QED
    BY <1>8, <1>9, <2>1, <2>2
<1>11. \A i \in 1..(n + k) : IF i <= n THEN l[i].sn = N[(n - i) + 1] /\ l[i].timestamp = t
                             ELSE l[i].sn = list[i - n].sn /\ l[i].timestamp <= t
  <2> SUFFICES ASSUME NEW i \in 1..(n + k)
               PROVE  IF i <= n THEN l[i].sn = N[(n - i) + 1] /\ l[i].timestamp = t
                                ELSE l[i].sn = list[i - n].sn /\ l[i].timestamp <= t
    OBVIOUS
  <2>1. CASE i <= n
    <3>1. i \in 1..n /\ l[i] = r[i]
      BY <1>5, <1>10, <2>1
    <3>2. QED
      BY <1>8, <2>1, <3>1
  <2>2. CASE ~ (i <= n)
    <3>1. i - n \in 1..k /\ l[i] = b[i - n]
      BY <1>5, <1>6, <1>10, <2>2
    <3>2. QED
      BY <1>9, <2>2, <3>1
  <2>3. QED
    BY <2>1, <2>2
<1>12. \A i \in DOMAIN l : l[i].timestamp <= t
  BY <1>2, <1>10, <1>11
<1>13. Names(list) = {list[i].sn : i \in 1..k}
  BY <1>6 DEF Names
<1>14. Distinct(l)
  <2> SUFFICES ASSUME NEW i \in 1..(n + k), NEW j \in 1..(n + k), l[i].sn = l[j].sn
               PROVE  i = j
    BY <1>10 DEF Distinct
  <2>1. \A x \in 1..(n + k) : x <= n => (n - x) + 1 \in 1..n
    BY <1>5
  <2>2. \A x \in 1..(n + k) : ~ (x <= n) => x - n \in 1..k
    BY <1>5, <1>6
  <2>3. \A x \in 1..(n + k) : x <= n <=> l[x].sn \notin Names(list)
    <3> SUFFICES ASSUME NEW x \in 1..(n + k) PROVE x <= n <=> l[x].sn \notin Names(list)
      OBVIOUS
    <3>1. x <= n => l[x].sn \notin Names(list)
      BY <1>4, <1>11, <2>1 DEF n
    <3>2. ~ (x <= n) => l[x].sn \in Names(list)
      BY <1>11, <1>13, <2>2
    <3>3. QED
      BY <3>1, <3>2
  <2>4. CASE i <= n
    <3>1. j <= n
      BY <2>3, <2>4
    <3>2. N[(n - i) + 1] = N[(n - j) + 1]
      BY <1>11, <2>4, <3>1
    <3>3. (n - i) + 1 = (n - j) + 1
      BY <1>5, <2>1, <2>4, <3>1, <3>2
    <3>4. QED
      BY <1>5, <3>3
  <2>5. CASE ~ (i <= n)
    <3>1. ~ (j <= n)
      BY <2>3, <2>5
    <3>2. list[i - n].sn = list[j - n].sn
      BY <1>11, <2>5, <3>1
    <3>3. i - n = j - n
      BY <1>3, <1>6, <2>2, <2>5, <3>1, <3>2 DEF Distinct
    <3>4. QED
      BY <1>5, <3>3
  <2>6. QED
    BY <2>4, <2>5
<1>15. Names(l) = {l[i].sn : i \in 1..(n + k)}
  BY <1>10 DEF Names
<1>16. Names(list) \subseteq Names(l)
  <2> SUFFICES ASSUME NEW i \in 1..k PROVE list[i].sn \in Names(l)
    BY <1>13
  <2>1. n + i \in 1..(n + k) /\ ~ (n + i <= n) /\ (n + i) - n = i
    BY <1>5, <1>6
  <2>2. QED
    BY <1>11, <1>15, <2>1
<1>17. ToSet(N) \subseteq Names(l)
  <2> SUFFICES ASSUME NEW i \in 1..n PROVE N[i] \in Names(l)
    BY <1>5
  <2>1. (n - i) + 1 \in 1..(n + k) /\ (n - i) + 1 <= n /\ (n - ((n - i) + 1)) + 1 = i
    BY <1>5, <1>6
  <2>2. QED
    BY <1>11, <1>15, <2>1
<1> HIDE DEF st
<1>18. st.state = state /\ st.list = l /\ st.ring = ring
  BY <1>1 DEF Found
<1>19. FoundOK(st, coord, t)
  BY <1>2, <1>10, <1>12, <1>14, <1>18, FoundParts DEF FoundOK
<1>20. QED
  BY <1>5, <1>16, <1>17, <1>18, <1>19 DEF st, N, t

\* The requests of an edge that asks for supernodes.
LEMMA RequestsOK ==
    ASSUME NEW sns, ToSet(sns) \subseteq Sns, NEW stray, NEW c, NEW m \in Requests(sns, stray)
    PROVE  Sound(m, c) /\ m.type = "REQ" /\ m.sn \in ToSet(sns)
<1>1. PICK s \in ToSet(sns) : m = Req(s, s \in stray)
  BY DEF Requests
<1> DEFINE A == s \in stray
<1>2. A \in BOOLEAN /\ s \in Sns
  OBVIOUS
<1> HIDE DEF A
<1>3. Sound(Req(s, A), c) /\ Req(s, A).type = "REQ" /\ Req(s, A).sn = s
  BY <1>2, ReqProperties
<1>4. m = Req(s, A)
  BY <1>1 DEF A
<1>5. QED
  BY <1>3, <1>4

\* The supernodes of a set, in some order.
LEMMA SetToSeqProperties ==
    ASSUME NEW S \in SUBSET Sns
    PROVE  SetToSeq(S) \in Seq(Sns) /\ ToSet(SetToSeq(S)) \subseteq S
<1> DEFINE n == Cardinality(S)
           q == SetToSeq(S)
<1>1. IsFiniteSet(S) /\ n \in Nat /\ ExistsBijection(1..n, S)
  BY SnsFinite, FS_CardinalityType
<1>2. \E f \in [1..n -> S] : IsInjective(f)
  BY <1>1 DEF ExistsBijection, Bijection, Injection, IsInjective
<1>3. q \in [1..n -> S]
  BY <1>2 DEF SetToSeq
<1> HIDE DEF q, n
<1>4. q \in Seq(Sns) /\ ToSet(q) \subseteq S
  BY <1>1, <1>3 DEF ToSet
<1>5. QED
  BY <1>4 DEF q

\* What a supernode answers: a coordinator names coordinators, at least itself.
LEMMA InfoOK ==
    ASSUME NEW c \in SUBSET Sns, coord = c, NEW s \in Sns, NEW m \in Info(s)
    PROVE  Sound(m, c) /\ m.type = "RSP" /\ m.sn = s
<1>1. CASE s \in c
  <2>1. PICK others \in SUBSET (c \ {s}) : m = Rsp(s, TRUE, Append(SetToSeq(others), s), 0)
    BY <1>1 DEF Info
  <2> DEFINE q == SetToSeq(others)
             a == Append(q, s)
  <2>2. q \in Seq(Sns) /\ ToSet(q) \subseteq others
    BY SetToSeqProperties
  <2> HIDE DEF q
  <2>3. a \in Seq(Sns) /\ a # <<>> /\ ToSet(a) \subseteq c
    <3>1. /\ a \in Seq(Sns) /\ a # <<>> /\ Len(a) = Len(q) + 1
          /\ \A i \in 1..Len(q) : a[i] = q[i]
          /\ a[Len(q) + 1] = s
      BY <2>2, AppendProperties
    <3> HIDE DEF a
    <3>2. ToSet(a) = {a[i] : i \in 1..Len(a)} /\ Len(q) \in Nat
      BY <2>2, <3>1, Members
    <3>3. ToSet(q) = {q[i] : i \in 1..Len(q)}
      BY <2>2, Members
    <3>4. \A i \in 1..Len(a) : i \in 1..Len(q) \/ i = Len(q) + 1
      BY <3>1, <3>2
    <3>5. \A i \in 1..Len(a) : a[i] \in c
      BY <1>1, <2>2, <3>1, <3>3, <3>4
    <3>6. QED
      BY <3>1, <3>2, <3>5
  <2>4. m = Rsp(s, TRUE, a, 0)
    BY <2>1 DEF q
  <2> HIDE DEF a
  <2>5. m.type = "RSP" /\ m.sn = s /\ m.A /\ m.sns = a /\ m \in Datagrams
    BY <2>3, <2>4 DEF Rsp, Datagrams
  <2>6. QED
    BY <2>3, <2>5 DEF Sound
<1>2. CASE s \notin c
  <2>1. m = Rsp(s, FALSE, Knows[s], Load[s])
    BY <1>2 DEF Info
  <2>2. Knows[s] \in Seq(Sns) /\ Load[s] \in Nat /\ IsInjective(Knows[s])
    BY DiscoveryAssumption
  <2>3. m.type = "RSP" /\ m.sn = s /\ ~m.A /\ m.sns = Knows[s] /\ m \in Datagrams
    BY <2>1, <2>2 DEF Rsp, Datagrams
  <2>4. QED
    BY <2>2, <2>3 DEF Sound
<1>3. QED
  BY <1>1, <1>2

\* load_supernodes lists the supernodes of the command line, whom main asks first.
LEMMA DiscoveryInit == Init => DiscoveryInv
<1> SUFFICES ASSUME Init PROVE DiscoveryInv
  OBVIOUS
<1> DEFINE n == Len(given)
<1>1. /\ given \in CmdLines /\ given \in Seq(Sns) /\ IsInjective(given)
  BY DiscoveryAssumption DEF Init
<1>2. /\ n \in Nat /\ DOMAIN given = 1..n /\ \A i \in 1..n : given[i] \in Sns
      /\ ToSet(given) = {given[i] : i \in 1..n} /\ ToSet(given) \subseteq Sns
  BY <1>1, Members
<1>3. list = [i \in 1..n |-> Entry(given[n + 1 - i], 0, 0)]
  BY DEF Init, FromCmdLine
<1> HIDE DEF n
<1>4. \A i \in 1..n : n + 1 - i \in 1..n
  BY <1>2
<1>5. \A i \in 1..n : /\ list[i] \in Entries /\ list[i].sn = given[n + 1 - i]
                      /\ list[i].timestamp = 0
  BY <1>2, <1>3, <1>4 DEF Entry, Entries
<1>6. list \in Seq(Entries) /\ DOMAIN list = 1..n
  <2>1. list \in [1..n -> Entries]
    BY <1>3, <1>5
  <2>2. QED
    BY <1>2, <2>1
<1>7. Distinct(list)
  <2> SUFFICES ASSUME NEW i \in 1..n, NEW j \in 1..n, list[i].sn = list[j].sn PROVE i = j
    BY <1>6 DEF Distinct
  <2>1. given[n + 1 - i] = given[n + 1 - j]
    BY <1>5
  <2>2. n + 1 - i = n + 1 - j
    BY <1>1, <1>2, <1>4, <2>1 DEF IsInjective
  <2>3. QED
    BY <1>2, <2>2
<1>8. ToSet(given) \subseteq Names(list)
  <2> SUFFICES ASSUME NEW i \in 1..n PROVE given[i] \in Names(list)
    BY <1>2
  <2>1. n + 1 - i \in 1..n /\ n + 1 - (n + 1 - i) = i
    BY <1>2
  <2>2. list[n + 1 - i].sn = given[i]
    BY <1>5, <2>1
  <2>3. QED
    BY <1>6, <2>1, <2>2 DEF Names
<1>9. PICK stray \in SUBSET ToSet(given) : net = Requests(given, stray)
  BY DEF Init
<1>10. \A m \in net : Sound(m, coord) /\ m.sn \in Names(list)
  BY <1>2, <1>8, <1>9, RequestsOK
<1>11. /\ state = "DISCOVERY" /\ ring = {} /\ epoch \in Epochs /\ now = 0
       /\ up \in SUBSET Sns /\ coord \in Existing /\ timely \in BOOLEAN
       /\ ranked = <<>> /\ asked = {}
  BY DEF Init
<1>12. /\ coord \subseteq Sns /\ epoch \in Nat /\ 0 \in 0..MaxTime /\ 0 < Interval
       /\ RingMax \in Nat
  BY <1>11, DiscoveryAssumption
<1>13. FoundOK(Found, coord, epoch + now)
  <2>1. Cardinality({}) = 0
    BY FS_EmptySet
  <2>2. \A i \in DOMAIN list : list[i].timestamp <= epoch + now
    BY <1>5, <1>6, <1>11, <1>12
  <2>3. QED
    BY <1>6, <1>7, <1>11, <1>12, <2>1, <2>2, FoundParts DEF FoundOK
<1>14. ranked \in Seq(Entries) /\ Distinct(ranked) /\ asked = Best(ranked)
  <2>1. <<>> \in Seq(Entries) /\ DOMAIN <<>> = {}
    OBVIOUS
  <2>2. Names(<<>>) = {}
    BY <2>1 DEF Names
  <2>3. Best(<<>>) \subseteq Names(<<>>)
    BY <2>1, BestMembers
  <2>4. QED
    BY <1>11, <2>1, <2>2, <2>3 DEF Distinct
<1>15. OnTime(state, now) /\ \A m \in net : InTime(m, state, list, now)
  BY <1>10, <1>11, <1>12 DEF OnTime, InTime
<1>16. QED
  BY <1>1, <1>10, <1>11, <1>12, <1>13, <1>14, <1>15 DEF DiscoveryInv

\* Every step keeps it.
LEMMA DiscoveryStep == DiscoveryInv /\ [Next]_vars => DiscoveryInv'
<1> SUFFICES ASSUME DiscoveryInv, [Next]_vars PROVE DiscoveryInv'
  OBVIOUS
<1>1. /\ FoundOK(Found, coord, epoch + now) /\ coord \subseteq Sns /\ up \subseteq Sns
      /\ \A m \in net : Sound(m, coord)
      /\ timely => OnTime(state, now) /\ \A m \in net : InTime(m, state, list, now)
      /\ now \in Nat /\ Interval \in Nat /\ epoch \in Nat
      /\ Found.state = state /\ Found.list = list /\ Found.ring = ring
  BY FoundParts, DiscoveryAssumption DEF DiscoveryInv
<1>2. ASSUME NEW m \in net, RecvRsp(m) PROVE DiscoveryInv'
  <2>1. m.type = "RSP" /\ state # "CRASHED" /\ m \in Datagrams
    BY <1>1, <1>2 DEF RecvRsp, Sound
  <2>2. timely /\ ~m.A => now < Interval
    BY <1>1, <2>1 DEF InTime
  <2>3. CASE state = "READY"
    <3>1. EndLoop(Found, {m}, {})
      BY <1>2, <2>3 DEF RecvRsp
    <3>2. QED
      BY <1>1, <3>1, EndLoopKeeps
  <2>4. CASE state # "READY" /\ m.A
    <3> DEFINE st == AcceptedBy(m)
    <3>1. EndLoop(st, {m}, {})
      BY <1>2, <2>4 DEF RecvRsp
    <3>2. FoundOK(st, coord, epoch + now) /\ st.state = "READY"
      BY <2>1, <2>4, AcceptedOK
    <3> HIDE DEF st
    <3>3. timely => /\ OnTime(st.state, now)
                    /\ \A d \in net \cup {} : InTime(d, st.state, st.list, now)
      BY <1>1, <3>2 DEF OnTime, InTime
    <3>4. QED
      BY <3>1, <3>2, <3>3, EndLoopKeeps
  <2>5. CASE state # "READY" /\ ~m.A /\ m.sn \in Names(list)
    <3> DEFINE st == Noted(m)
               N == NewIn(m)
    <3>1. PICK stray \in SUBSET ToSet(N) : EndLoop(st, {m}, Requests(N, stray))
      BY <1>2, <2>5 DEF RecvRsp
    <3>2. /\ FoundOK(st, coord, epoch + now) /\ st.state = state
          /\ Names(list) \subseteq Names(st.list) /\ ToSet(N) \subseteq Names(st.list)
          /\ ToSet(N) \subseteq Sns
      BY <2>1, <2>5, NotedOK
    <3> HIDE DEF st, N
    <3>3. \A d \in Requests(N, stray) : Sound(d, coord) /\ d.sn \in Names(st.list)
      BY <3>2, RequestsOK
    <3>4. timely => /\ OnTime(st.state, now)
                    /\ \A d \in net \cup Requests(N, stray) : InTime(d, st.state, st.list, now)
      <4> SUFFICES ASSUME timely
                   PROVE  \A d \in net \cup Requests(N, stray) : InTime(d, st.state, st.list, now)
        BY <1>1, <3>2
      <4>1. now < Interval
        BY <2>2, <2>5
      <4>2. \A d \in net : InTime(d, state, list, now)
        BY <1>1
      <4>3. QED
        BY <3>2, <3>3, <4>1, <4>2 DEF InTime
    <3>5. QED
      BY <3>1, <3>2, <3>3, <3>4, EndLoopKeeps
  <2>6. CASE state # "READY" /\ ~m.A /\ m.sn \notin Names(list)
    <3> DEFINE st == [Found EXCEPT !.state = "CRASHED"]
    <3>1. EndLoop(st, {m}, {})
      BY <1>2, <2>6 DEF RecvRsp
    <3>2. st.state = "CRASHED" /\ st.list = list /\ st.ring = ring
      BY DEF Found
    <3> HIDE DEF st
    <3>3. FoundOK(st, coord, epoch + now)
      BY <1>1, <3>2 DEF FoundOK
    <3>4. ~timely
      <4> SUFFICES ASSUME timely PROVE FALSE
        OBVIOUS
      <4>1. now < Interval /\ state = "DISCOVERY"
        BY <1>1, <2>1, <2>2, <2>6 DEF OnTime
      <4>2. InTime(m, state, list, now)
        BY <1>1
      <4>3. QED
        BY <2>1, <2>6, <4>1, <4>2 DEF InTime
    <3>5. QED
      BY <3>1, <3>3, <3>4, EndLoopKeeps
  <2>7. QED
    BY <2>3, <2>4, <2>5, <2>6
<1>3. ASSUME NEW m \in net, RecvAdv(m) PROVE DiscoveryInv'
  <2>1. m.type = "ADV" /\ state # "CRASHED" /\ m.sn \in coord
    BY <1>1, <1>3 DEF RecvAdv, Sound
  <2>2. CASE Cardinality(ring) = RingMax
    <3>1. EndLoop(Found, {m}, {})
      BY <1>3, <2>2 DEF RecvAdv
    <3>2. QED
      BY <1>1, <3>1, EndLoopKeeps
  <2>3. CASE Cardinality(ring) # RingMax
    <3> DEFINE st == [Found EXCEPT !.state = "READY", !.ring = @ \cup {m.sn}]
    <3>1. EndLoop(st, {m}, {})
      BY <1>3, <2>3 DEF RecvAdv
    <3>2. st.state = "READY" /\ st.list = list /\ st.ring = ring \cup {m.sn}
      BY DEF Found
    <3> HIDE DEF st
    <3>3. Cardinality(ring \cup {m.sn}) <= RingMax
      <4>1. ring \subseteq Sns /\ Cardinality(ring) <= RingMax /\ RingMax \in Nat
        BY <1>1, DiscoveryAssumption DEF FoundOK
      <4>2. IsFiniteSet(ring) /\ Cardinality(ring) \in Nat
        BY <4>1, SnsFinite
      <4>3. Cardinality(ring \cup {m.sn}) = IF m.sn \in ring THEN Cardinality(ring)
                                            ELSE Cardinality(ring) + 1
        BY <4>2, FS_AddElement
      <4>4. QED
        BY <2>3, <4>1, <4>2, <4>3
    <3>4. FoundOK(st, coord, epoch + now)
      BY <1>1, <2>1, <3>2, <3>3 DEF FoundOK
    <3>5. timely => /\ OnTime(st.state, now)
                    /\ \A d \in net \cup {} : InTime(d, st.state, st.list, now)
      BY <1>1, <3>2 DEF OnTime, InTime
    <3>6. QED
      BY <3>1, <3>4, <3>5, EndLoopKeeps
  <2>4. QED
    BY <2>2, <2>3
<1>4. CASE Idle
  <2>1. EndLoop(Found, {}, {})
    BY <1>4 DEF Idle
  <2>2. QED
    BY <1>1, <2>1, EndLoopKeeps
<1>5. ASSUME NEW m \in net, RecvReq(m) PROVE DiscoveryInv'
  <2>1. /\ m.type = "REQ" /\ m.sn \in Sns
        /\ UNCHANGED <<state, list, ring, epoch, now, up, timely, given, ranked, asked>>
    BY <1>1, <1>5 DEF RecvReq
  <2>2. PICK out : /\ Transmit({m}, out) /\ coord \subseteq coord' /\ coord' \subseteq Sns
                   /\ \A d \in out : Sound(d, coord')
                   /\ \A d \in out : d.type = "ADV" \/ (d.type = "RSP" /\ d.sn = m.sn /\ ~m.A)
    <3>1. CASE m.A
      <4>1. coord' = coord \cup {m.sn} /\ Transmit({m}, {Adv(m.sn)})
        BY <1>5, <3>1 DEF RecvReq
      <4>2. Sound(Adv(m.sn), coord') /\ Adv(m.sn).type = "ADV"
        BY <2>1, <4>1 DEF Adv, Sound, Datagrams
      <4>3. QED
        BY <1>1, <2>1, <4>1, <4>2
    <3>2. CASE ~m.A
      <4>1. coord' = coord /\ \E rsp \in Info(m.sn) : Transmit({m}, {rsp})
        BY <1>5, <3>2 DEF RecvReq
      <4>2. PICK rsp \in Info(m.sn) : Transmit({m}, {rsp})
        BY <4>1
      <4>3. Sound(rsp, coord) /\ rsp.type = "RSP" /\ rsp.sn = m.sn
        BY <1>1, <2>1, InfoOK
      <4>4. QED
        BY <1>1, <3>2, <4>1, <4>2, <4>3
    <3>3. QED
      BY <3>1, <3>2
  <2>3. \A d \in net' : d \in net \/ d \in out
    BY <2>2, TransmitNothingNew
  <2>4. \A d \in net' : Sound(d, coord')
    <3>1. \A d \in net : Sound(d, coord')
      BY <1>1, <2>2 DEF Sound
    <3>2. QED
      BY <2>2, <2>3, <3>1
  <2>5. FoundOK(Found, coord, epoch + now)'
    BY <1>1, <2>1, <2>2 DEF FoundOK, Found
  <2>6. timely => \A d \in net' : InTime(d, state, list, now)
    <3> SUFFICES ASSUME timely, NEW d \in out PROVE InTime(d, state, list, now)
      BY <1>1, <2>3
    <3>1. InTime(m, state, list, now)
      BY <1>1
    <3>2. QED
      BY <2>1, <2>2, <3>1 DEF InTime
  <2>7. QED
    BY <2>1, <2>2, <2>4, <2>5, <2>6 DEF DiscoveryInv
<1>6. ASSUME NEW m \in net, Unheard(m) PROVE DiscoveryInv'
  <2>1. /\ net' \subseteq net
        /\ UNCHANGED <<state, list, ring, epoch, now, up, coord, timely, given, ranked, asked>>
    BY <1>6 DEF Unheard
  <2>2. FoundOK(Found, coord, epoch + now)'
    BY <1>1, <2>1 DEF FoundOK, Found
  <2>3. QED
    BY <2>1, <2>2 DEF DiscoveryInv
<1>7. CASE Tick
  <2>1. /\ now < MaxTime /\ now' = now + 1 /\ (timely /\ now + 1 >= Interval => net = {})
        /\ UNCHANGED <<state, list, ring, epoch, up, coord, net, timely, given, ranked, asked>>
    BY <1>7 DEF Tick
  <2>2. now' \in 0..MaxTime
    BY <1>1, <2>1, DiscoveryAssumption
  <2>3. FoundOK(Found, coord, epoch + now)'
    <3>1. \A i \in DOMAIN list : list[i].timestamp <= epoch + (now + 1)
      <4> SUFFICES ASSUME NEW i \in DOMAIN list PROVE list[i].timestamp <= epoch + (now + 1)
        OBVIOUS
      <4>1. list \in Seq(Entries) /\ list[i].timestamp <= epoch + now
        BY <1>1 DEF FoundOK
      <4>2. list[i] \in Entries
        BY <4>1, Members
      <4>3. list[i].timestamp \in Nat
        BY <4>2 DEF Entries
      <4>4. QED
        BY <1>1, <4>1, <4>3
    <3>2. QED
      BY <1>1, <2>1, <3>1 DEF FoundOK, Found
  <2>4. timely => OnTime(state, now + 1) /\ \A m \in net : InTime(m, state, list, now + 1)
    <3> SUFFICES ASSUME timely
                 PROVE  OnTime(state, now + 1) /\ \A m \in net : InTime(m, state, list, now + 1)
      OBVIOUS
    <3>1. OnTime(state, now) /\ \A m \in net : InTime(m, state, list, now)
      BY <1>1
    <3>2. CASE now + 1 < Interval
      <4>1. now < Interval
        BY <1>1, <3>2
      <4>2. QED
        BY <3>1, <3>2, <4>1 DEF OnTime, InTime
    <3>3. CASE ~ (now + 1 < Interval)
      <4>1. net = {}
        BY <1>1, <2>1, <3>3
      <4>2. QED
        BY <3>1, <3>3, <4>1 DEF OnTime
    <3>4. QED
      BY <3>2, <3>3
  <2>5. QED
    BY <2>1, <2>2, <2>3, <2>4 DEF DiscoveryInv
<1>8. CASE UNCHANGED vars
  <2>1. FoundOK(Found, coord, epoch + now)'
    BY <1>1, <1>8 DEF FoundOK, Found, vars
  <2>2. QED
    BY <1>8, <2>1 DEF DiscoveryInv, vars
<1>9. QED
  BY <1>2, <1>3, <1>4, <1>5, <1>6, <1>7, <1>8 DEF Next

\* Hence it holds at all times.
LEMMA DiscoveryInvariant == Spec => []DiscoveryInv
<1>1. Init => DiscoveryInv
  BY DiscoveryInit
<1>2. DiscoveryInv /\ [Next]_vars => DiscoveryInv'
  BY DiscoveryStep
<1>3. QED
  BY <1>1, <1>2, PTL DEF Spec

---------------------------------------------------------------------------
(* The properties.                                                         *)

\* The variables have their types: in particular no supernode is listed twice, no
\* timestamp is below zero, however often responses come, and the addresses never
\* exceed sn_ip_array.
THEOREM TypeCorrect == Spec => []TypeOK
<1>1. DiscoveryInv => TypeOK
  <2> SUFFICES ASSUME DiscoveryInv PROVE TypeOK
    OBVIOUS
  <2>1. asked \subseteq Sns
    <3>1. ranked \in Seq(Entries) /\ asked = Best(ranked)
      BY DEF DiscoveryInv
    <3>2. QED
      BY <3>1, BestMembers
  <2>2. /\ state \in {"DISCOVERY", "REQ_ADV", "READY", "CRASHED"}
        /\ list \in Seq(Entries) /\ Distinct(list)
        /\ ring \subseteq coord /\ Cardinality(ring) <= RingMax
    BY FoundParts DEF DiscoveryInv, FoundOK
  <2>3. net \subseteq Datagrams
    BY DEF DiscoveryInv, Sound
  <2>4. QED
    BY <2>1, <2>2, <2>3 DEF DiscoveryInv, TypeOK, Distinct
<1>2. QED
  BY <1>1, DiscoveryInvariant, PTL

\* The main loop is READY only with addresses in sn_ip_array, and these are of
\* coordinators of the community, over any network.
THEOREM CoordinatorsOnly == Spec => []RegistersWithCoordinators
<1>1. DiscoveryInv => RegistersWithCoordinators
  BY FoundParts DEF DiscoveryInv, FoundOK, RegistersWithCoordinators
<1>2. QED
  BY <1>1, DiscoveryInvariant, PTL

\* If no response comes after discovery ended, readFromSNMSocket finds the sender of
\* every response in its list.
THEOREM NoCrashInTime == Spec => []TimelyNeverCrashes
<1>1. DiscoveryInv => TimelyNeverCrashes
  BY DEF DiscoveryInv, OnTime, TimelyNeverCrashes
<1>2. QED
  BY <1>1, DiscoveryInvariant, PTL

\* merge_sort and the cut after it choose the best supernodes, for every list.
THEOREM BestAreAsked == Spec => []BestAsked
<1>1. DiscoveryInv => BestAsked
  <2> SUFFICES ASSUME DiscoveryInv,
                      \A i, j \in DOMAIN ranked : CmpRankAsc(ranked[i], ranked[j])
                                                    = Rank(ranked[i]) - Rank(ranked[j])
               PROVE  asked = {ranked[i].sn : i \in {j \in DOMAIN ranked :
                          Cardinality({k \in DOMAIN ranked : Preferred(ranked, k, j)}) < Keep}}
    BY DEF BestAsked
  <2>1. ranked \in Seq(Entries) /\ Distinct(ranked) /\ asked = Best(ranked)
    BY DEF DiscoveryInv
  <2>2. Fit(ToSet(ranked))
    BY DEF Fit, ToSet
  <2>3. QED
    BY <2>1, <2>2, BestIsBest
<1>2. QED
  BY <1>1, DiscoveryInvariant, PTL

=============================================================================
