-------------------------- MODULE EdgeSuper_proofs --------------------------
(***************************************************************************)
(* What the registration of an edge guarantees for every set of            *)
(* supernodes, every ring size, all lifetimes and numbers of attempts, any *)
(* loss and duplication, and any number of crashes and restarts: types and *)
(* the saved ring, that an answer is one to the last request, and, if      *)
(* datagrams are timely, that the main supernode is left only after        *)
(* missing responses.                                                      *)
(*                                                                         *)
(* A handler turns the edge it finds into the one the rest of the          *)
(* iteration goes on with; Handled says what all handlers leave, and every *)
(* invariant is carried through the end of the iteration from there.       *)
(***************************************************************************)
EXTENDS EdgeSuper, Data_proofs, SequenceTheorems

---------------------------------------------------------------------------
(* add_supernode for a list of addresses.                                  *)

\* FoldLeft as the sequence of states it goes through.
LEMMA FoldSteps ==
    ASSUME NEW st, NEW sns \in Seq(Sns)
    PROVE  \E g : /\ g[0] = st
                  /\ \A i \in 1..Len(sns) : g[i] = AddSupernode(g[i - 1], sns[i])
                  /\ FoldLeft(AddSupernode, st, sns) = g[Len(sns)]
<1> DEFINE n == Len(sns)
           Value(g, S) == IF S = {} THEN st ELSE AddSupernode(g[S \ {Max(S)}], sns[Max(S)])
           Iter(g, k) == g = [S \in SUBSET (1..k) |-> Value(g, S)]
           T == {k \in Nat : \E g : Iter(g, k)}
<1>1. 0 \in T
  <2> DEFINE g == [S \in SUBSET (1..0) |-> st]
  <2>1. \A S \in SUBSET (1..0) : S = {}
    OBVIOUS
  <2>2. g = [S \in SUBSET (1..0) |-> Value(g, S)]
    BY <2>1
  <2>3. QED
    BY <2>2
<1>2. ASSUME NEW k \in Nat, k \in T PROVE k + 1 \in T
  <2>1. PICK g : Iter(g, k)
    BY <1>2
  <2> DEFINE h == [S \in SUBSET (1..(k + 1)) |-> Value(g, S)]
  <2>2. ASSUME NEW S \in SUBSET (1..k) PROVE h[S] = g[S]
    <3>1. S \in SUBSET (1..(k + 1))
      OBVIOUS
    <3>2. g[S] = Value(g, S)
      BY <2>1
    <3> HIDE DEF Value
    <3>3. QED
      BY <3>1, <3>2
  <2>3. ASSUME NEW S \in SUBSET (1..(k + 1)), S # {}
        PROVE  S \ {Max(S)} \in SUBSET (1..k)
    <3>0. k + 1 \in Nat
      OBVIOUS
    <3>1. Max(S) \in S /\ \A y \in S : Max(S) >= y
      BY <2>3, <3>0, GreatestOf
    <3> DEFINE m == Max(S)
    <3> HIDE DEF m
    <3>2. m \in 1..(k + 1) /\ \A y \in S : m >= y
      BY <3>1 DEF m
    <3>3. \A y \in S \ {m} : y \in 1..k
      BY <3>2
    <3>4. QED
      BY <3>3 DEF m
  <2>4. ASSUME NEW S \in SUBSET (1..(k + 1)) PROVE Value(g, S) = Value(h, S)
    <3>1. CASE S = {}
      BY <3>1
    <3>2. CASE S # {}
      <4>1. g[S \ {Max(S)}] = h[S \ {Max(S)}]
        BY <2>2, <2>3, <3>2
      <4> HIDE DEF h
      <4>2. QED
        BY <3>2, <4>1
    <3>3. QED
      BY <3>1, <3>2
  <2>5. h = [S \in SUBSET (1..(k + 1)) |-> Value(h, S)]
    <3> HIDE DEF Value
    <3>1. QED
      BY <2>4
  <2> HIDE DEF Value, h
  <2>6. Iter(h, k + 1)
    BY <2>5
  <2>7. \E next : Iter(next, k + 1)
    BY <2>6
  <2>8. QED
    BY <2>7
<1>3. \A k \in Nat : k \in T
  <2> HIDE DEF T
  <2>1. QED
    BY <1>1, <1>2, SetInduction
<1>4. n \in Nat /\ DOMAIN sns = 1..n
  BY LenProperties
<1> DEFINE iter == CHOOSE g : g = [S \in SUBSET (1..n) |-> Value(g, S)]
<1>5. iter = [S \in SUBSET (1..n) |-> Value(iter, S)]
  <2>1. \E g : g = [S \in SUBSET (1..n) |-> Value(g, S)]
    BY <1>3, <1>4
  <2> HIDE DEF Value
  <2>2. QED
    BY <2>1
<1>6. FoldLeft(AddSupernode, st, sns) = iter[1..n]
  BY <1>4 DEF FoldLeft, MapThenFoldSet
<1> HIDE DEF iter
<1> DEFINE f == [i \in 0..n |-> iter[1..i]]
<1>7. f[0] = st
  <2>1. 1..0 = {}
    OBVIOUS
  <2>2. iter[{}] = st
    BY <1>5
  <2>3. QED
    BY <1>4, <2>1, <2>2
<1>8. ASSUME NEW i \in 1..n PROVE f[i] = AddSupernode(f[i - 1], sns[i])
  <2>1. 1..i \in SUBSET (1..n) /\ 1..i # {}
    BY <1>4
  <2>2. Max(1..i) = i
    <3>1. i \in Nat /\ 1..i \in SUBSET (1..i) /\ i \in 1..i
      BY <1>4
    <3>2. Max(1..i) \in 1..i /\ \A y \in 1..i : Max(1..i) >= y
      BY <2>1, <3>1, GreatestOf
    <3> DEFINE m == Max(1..i)
    <3> HIDE DEF m
    <3>3. m \in 1..i /\ m >= i
      BY <3>1, <3>2 DEF m
    <3>4. m = i
      BY <3>1, <3>3
    <3>5. QED
      BY <3>4 DEF m
  <2>3. (1..i) \ {i} = 1..(i - 1)
    BY <1>4
  <2>4. iter[1..i] = AddSupernode(iter[1..(i - 1)], sns[i])
    BY <1>5, <2>1, <2>2, <2>3
  <2>5. i \in 0..n /\ i - 1 \in 0..n
    BY <1>4
  <2>6. QED
    BY <2>4, <2>5
<1>9. f[n] = iter[1..n]
  BY <1>4
<1>10. QED
  BY <1>6, <1>7, <1>8, <1>9

\* What a handler makes of the edge: see Found.
EdgeStates == [ready: BOOLEAN, ring: Seq(Sns), list: Seq(Sns), main: Sns \cup {NoSn},
               reg: Registration, missed: [Sns -> 0..(Attempts + 1)]]

\* The ring and the list hold the same supernodes, each once.
Same(rg, li) ==
    /\ IsInjective(rg) /\ IsInjective(li)
    /\ Len(li) = Len(rg) /\ Len(rg) <= RingMax
    /\ ToSet(rg) = ToSet(li)

\* new is st with supernodes added at the end of its ring.
Longer(st, new) ==
    /\ new \in EdgeStates /\ Same(new.ring, new.list)
    /\ Len(st.ring) <= Len(new.ring)
    /\ \A i \in 1..Len(st.ring) : new.ring[i] = st.ring[i]
    /\ new.ready = st.ready /\ new.main = st.main /\ new.reg = st.reg /\ new.missed = st.missed

\* The members and uniqueness of a list that gets a further element.
LEMMA AppendNew ==
    ASSUME NEW l \in Seq(Sns), NEW s \in Sns, s \notin ToSet(l), IsInjective(l)
    PROVE  /\ Append(l, s) \in Seq(Sns) /\ Len(Append(l, s)) = Len(l) + 1
           /\ \A i \in 1..Len(l) : Append(l, s)[i] = l[i]
           /\ ToSet(Append(l, s)) = ToSet(l) \cup {s}
           /\ IsInjective(Append(l, s))
<1> DEFINE m == Append(l, s)
           n == Len(l)
<1>1. n \in Nat /\ DOMAIN l = 1..n
  BY LenProperties
<1>2. /\ m \in Seq(Sns) /\ Len(m) = n + 1
      /\ \A i \in 1..n : m[i] = l[i]
      /\ m[n + 1] = s
  BY AppendProperties
<1>3. DOMAIN m = 1..(n + 1)
  BY <1>2, LenProperties
<1> HIDE DEF m, n
<1>4. ToSet(m) = ToSet(l) \cup {s}
  <2>1. 1..(n + 1) = (1..n) \cup {n + 1}
    BY <1>1
  <2>2. QED
    BY <1>1, <1>2, <1>3, <2>1 DEF ToSet
<1>5. IsInjective(m)
  <2>1. \A i \in 1..n : l[i] # s
    BY <1>1 DEF ToSet
  <2>2. ASSUME NEW a \in 1..(n + 1), NEW b \in 1..(n + 1), m[a] = m[b]
        PROVE  a = b
    <3>1. CASE a = n + 1 /\ b = n + 1
      BY <3>1
    <3>2. CASE a \in 1..n /\ b = n + 1
      BY <1>2, <2>1, <2>2, <3>2
    <3>3. CASE a = n + 1 /\ b \in 1..n
      BY <1>2, <2>1, <2>2, <3>3
    <3>4. CASE a \in 1..n /\ b \in 1..n
      BY <1>1, <1>2, <2>2, <3>4 DEF IsInjective
    <3>5. QED
      BY <1>1, <3>1, <3>2, <3>3, <3>4
  <2>3. QED
    BY <1>3, <2>2 DEF IsInjective
<1>6. QED
  BY <1>2, <1>4, <1>5 DEF m, n

\* The same for a list that gets a further element at its head.
LEMMA PrependNew ==
    ASSUME NEW l \in Seq(Sns), NEW s \in Sns, s \notin ToSet(l), IsInjective(l)
    PROVE  /\ <<s>> \o l \in Seq(Sns) /\ Len(<<s>> \o l) = Len(l) + 1
           /\ ToSet(<<s>> \o l) = ToSet(l) \cup {s}
           /\ IsInjective(<<s>> \o l)
<1> DEFINE m == <<s>> \o l
           n == Len(l)
<1>1. n \in Nat /\ DOMAIN l = 1..n
  BY LenProperties
<1>2. /\ m \in Seq(Sns) /\ Len(m) = n + 1
      /\ m[1] = s
      /\ \A i \in 2..(n + 1) : m[i] = l[i - 1]
  <2>1. <<s>> \in Seq(Sns) /\ Len(<<s>>) = 1 /\ <<s>>[1] = s
    OBVIOUS
  <2>2. /\ m \in Seq(Sns) /\ Len(m) = 1 + n
        /\ \A i \in 1..(1 + n) : m[i] = IF i <= 1 THEN <<s>>[i] ELSE l[i - 1]
    BY <2>1, ConcatProperties
  <2> HIDE DEF m, n
  <2>3. QED
    BY <1>1, <2>1, <2>2
<1>3. DOMAIN m = 1..(n + 1)
  BY <1>2, LenProperties
<1> HIDE DEF m, n
<1>4. ToSet(m) = ToSet(l) \cup {s}
  <2>1. ASSUME NEW x \in ToSet(m) PROVE x \in ToSet(l) \cup {s}
    <3>1. PICK i \in 1..(n + 1) : x = m[i]
      BY <1>3 DEF ToSet
    <3>2. CASE i = 1
      BY <1>2, <3>1, <3>2
    <3>3. CASE i # 1
      <4>1. i - 1 \in 1..n /\ i \in 2..(n + 1)
        BY <1>1, <3>3
      <4>2. QED
        BY <1>1, <1>2, <3>1, <4>1 DEF ToSet
    <3>4. QED
      BY <3>2, <3>3
  <2>2. ASSUME NEW x \in ToSet(l) PROVE x \in ToSet(m)
    <3>1. PICK i \in 1..n : x = l[i]
      BY <1>1 DEF ToSet
    <3>2. i + 1 \in 2..(n + 1) /\ i + 1 \in 1..(n + 1) /\ (i + 1) - 1 = i
      BY <1>1
    <3>3. m[i + 1] = x
      BY <1>2, <3>1, <3>2
    <3>4. QED
      BY <1>3, <3>2, <3>3 DEF ToSet
  <2>3. s \in ToSet(m)
    <3>1. 1 \in 1..(n + 1)
      BY <1>1
    <3>2. QED
      BY <1>2, <1>3, <3>1 DEF ToSet
  <2>4. QED
    BY <2>1, <2>2, <2>3
<1>5. IsInjective(m)
  <2>1. \A i \in 1..n : l[i] # s
    BY <1>1 DEF ToSet
  <2>2. ASSUME NEW a \in 1..(n + 1), NEW b \in 1..(n + 1), m[a] = m[b]
        PROVE  a = b
    <3>0. \A i \in 2..(n + 1) : i - 1 \in 1..n
      BY <1>1
    <3>1. CASE a = 1 /\ b = 1
      BY <3>1
    <3>2. CASE a \in 2..(n + 1) /\ b = 1
      BY <1>2, <2>1, <2>2, <3>0, <3>2
    <3>3. CASE a = 1 /\ b \in 2..(n + 1)
      BY <1>2, <2>1, <2>2, <3>0, <3>3
    <3>4. CASE a \in 2..(n + 1) /\ b \in 2..(n + 1)
      <4>1. l[a - 1] = l[b - 1] /\ a - 1 \in 1..n /\ b - 1 \in 1..n
        BY <1>2, <2>2, <3>0, <3>4
      <4>2. a - 1 = b - 1
        BY <1>1, <4>1 DEF IsInjective
      <4>3. QED
        BY <3>4, <4>2
    <3>5. QED
      BY <1>1, <3>1, <3>2, <3>3, <3>4
  <2>3. QED
    BY <1>3, <2>2 DEF IsInjective
<1>6. QED
  BY <1>2, <1>4, <1>5 DEF m, n

\* One address: the ring grows by it, or nothing happens.
LEMMA AddedLonger ==
    ASSUME NEW st \in EdgeStates, Same(st.ring, st.list), NEW s \in Sns
    PROVE  /\ Longer(st, AddSupernode(st, s))
           /\ Len(st.ring) = 0 => AddSupernode(st, s).ring = <<s>>
<1> DEFINE new == AddSupernode(st, s)
<1>0. st.ring \in Seq(Sns) /\ st.list \in Seq(Sns) /\ Len(st.ring) \in Nat /\ RingMax \in Nat \ {0}
  BY LenProperties, RingAssumption DEF EdgeStates
<1>1. CASE Len(st.ring) = RingMax \/ s \in ToSet(st.list)
  <2>1. new = st
    BY <1>1 DEF AddSupernode
  <2>2. Len(st.ring) # 0
    <3>1. CASE Len(st.ring) = RingMax
      BY <1>0, <3>1
    <3>2. CASE s \in ToSet(st.list)
      <4>1. s \in ToSet(st.ring)
        BY <3>2 DEF Same
      <4>2. PICK i \in DOMAIN st.ring : TRUE
        BY <4>1 DEF ToSet
      <4>3. DOMAIN st.ring = 1..Len(st.ring)
        BY <1>0, LenProperties
      <4>4. QED
        BY <1>0, <4>3
    <3>3. QED
      BY <1>1, <3>1, <3>2
  <2>3. Longer(st, st)
    BY <1>0 DEF Longer
  <2>4. QED
    BY <2>1, <2>2, <2>3
<1>2. CASE Len(st.ring) # RingMax /\ s \notin ToSet(st.list)
  <2>1. new = [st EXCEPT !.ring = Append(@, s), !.list = <<s>> \o @]
    BY <1>2 DEF AddSupernode
  <2>2. /\ new.ring = Append(st.ring, s) /\ new.list = <<s>> \o st.list
        /\ new.ready = st.ready /\ new.main = st.main /\ new.reg = st.reg
        /\ new.missed = st.missed
    BY <2>1 DEF EdgeStates
  <2>3. s \notin ToSet(st.ring) /\ IsInjective(st.ring) /\ IsInjective(st.list)
    BY <1>2 DEF Same
  <2>4. /\ new.ring \in Seq(Sns) /\ Len(new.ring) = Len(st.ring) + 1
        /\ \A i \in 1..Len(st.ring) : new.ring[i] = st.ring[i]
        /\ ToSet(new.ring) = ToSet(st.ring) \cup {s} /\ IsInjective(new.ring)
    BY <1>0, <2>2, <2>3, AppendNew
  <2>5. /\ new.list \in Seq(Sns) /\ Len(new.list) = Len(st.list) + 1
        /\ ToSet(new.list) = ToSet(st.list) \cup {s} /\ IsInjective(new.list)
    BY <1>0, <1>2, <2>2, <2>3, PrependNew
  <2>6. new \in EdgeStates
    BY <2>1, <2>2, <2>4, <2>5 DEF EdgeStates
  <2>7. Len(st.ring) + 1 <= RingMax /\ Len(st.list) = Len(st.ring)
    BY <1>0, <1>2 DEF Same
  <2>8. Same(new.ring, new.list)
    BY <2>4, <2>5, <2>7 DEF Same
  <2>9. Len(st.ring) = 0 => new.ring = <<s>>
    <3>1. Len(st.ring) = 0 => st.ring = <<>>
      BY <1>0, EmptySeq
    <3>2. Append(<<>>, s) = <<s>>
      OBVIOUS
    <3>3. QED
      BY <2>2, <3>1, <3>2
  <2> HIDE DEF new
  <2>10. Longer(st, new)
    BY <1>0, <2>2, <2>4, <2>6, <2>8 DEF Longer
  <2>11. QED
    BY <2>9, <2>10 DEF new
<1>3. QED
  BY <1>1, <1>2

\* Supernodes added in two goes.
LEMMA LongerTransitive ==
    ASSUME NEW a \in EdgeStates, NEW b, NEW c, Longer(a, b), Longer(b, c)
    PROVE  Longer(a, c)
<1>1. Len(a.ring) \in Nat /\ Len(b.ring) \in Nat /\ Len(c.ring) \in Nat
  BY LenProperties DEF Longer, EdgeStates
<1>2. QED
  BY <1>1 DEF Longer

\* A list of addresses; one at least gets into an empty ring.
LEMMA FoldLonger ==
    ASSUME NEW st \in EdgeStates, Same(st.ring, st.list), NEW sns \in Seq(Sns)
    PROVE  /\ Longer(st, FoldLeft(AddSupernode, st, sns))
           /\ Len(sns) # 0 => Len(FoldLeft(AddSupernode, st, sns).ring) # 0
<1>1. PICK g : /\ g[0] = st
               /\ \A i \in 1..Len(sns) : g[i] = AddSupernode(g[i - 1], sns[i])
               /\ FoldLeft(AddSupernode, st, sns) = g[Len(sns)]
  BY FoldSteps
<1>2. Len(sns) \in Nat /\ \A i \in 1..Len(sns) : sns[i] \in Sns
  BY LenProperties, ElementOfSeq
<1> DEFINE T == {i \in Nat : i <= Len(sns) =>
                    Longer(st, g[i]) /\ (i # 0 => Len(g[i].ring) # 0)}
<1>3. 0 \in T
  <2>1. Len(st.ring) \in Nat
    BY LenProperties DEF EdgeStates
  <2>2. Longer(st, st)
    BY <2>1 DEF Longer
  <2>3. QED
    BY <1>1, <2>2
<1>4. ASSUME NEW i \in Nat, i \in T PROVE i + 1 \in T
  <2> SUFFICES ASSUME i + 1 <= Len(sns)
               PROVE  Longer(st, g[i + 1]) /\ Len(g[i + 1].ring) # 0
    OBVIOUS
  <2>1. Longer(st, g[i])
    BY <1>2, <1>4
  <2>2. i + 1 \in 1..Len(sns) /\ (i + 1) - 1 = i
    BY <1>2
  <2>3. g[i + 1] = AddSupernode(g[i], sns[i + 1]) /\ sns[i + 1] \in Sns
    BY <1>1, <1>2, <2>2
  <2>4. g[i] \in EdgeStates /\ Same(g[i].ring, g[i].list)
    BY <2>1 DEF Longer
  <2>5. /\ Longer(g[i], g[i + 1])
        /\ Len(g[i].ring) = 0 => g[i + 1].ring = <<sns[i + 1]>>
    BY <2>3, <2>4, AddedLonger
  <2>6. Longer(st, g[i + 1])
    BY <2>1, <2>5, LongerTransitive
  <2>7. Len(g[i].ring) \in Nat /\ Len(g[i + 1].ring) \in Nat /\ Len(g[i].ring) <= Len(g[i + 1].ring)
    BY <2>4, <2>5, LenProperties DEF Longer, EdgeStates
  <2>8. Len(<<sns[i + 1]>>) = 1
    OBVIOUS
  <2>9. Len(g[i + 1].ring) # 0
    <3>1. CASE Len(g[i].ring) = 0
      <4>1. Len(g[i + 1].ring) = 1
        BY <2>5, <2>8, <3>1
      <4>2. QED
        BY <4>1
    <3>2. CASE Len(g[i].ring) # 0
      BY <2>7, <3>2
    <3>3. QED
      BY <3>1, <3>2
  <2>10. QED
    BY <2>6, <2>9
<1>5. \A i \in Nat : i \in T
  <2> HIDE DEF T
  <2>1. QED
    BY <1>3, <1>4, SetInduction
<1>6. QED
  BY <1>1, <1>2, <1>5

\* No supernode is taken out of the ring.
LEMMA LongerMembers ==
    ASSUME NEW st \in EdgeStates, NEW new, Longer(st, new)
    PROVE  ToSet(st.ring) \subseteq ToSet(new.ring)
<1>1. /\ Len(st.ring) \in Nat /\ DOMAIN st.ring = 1..Len(st.ring)
      /\ Len(new.ring) \in Nat /\ DOMAIN new.ring = 1..Len(new.ring)
  BY LenProperties DEF Longer, EdgeStates
<1>2. \A i \in 1..Len(st.ring) : i \in 1..Len(new.ring) /\ new.ring[i] = st.ring[i]
  BY <1>1 DEF Longer
<1>3. QED
  BY <1>1, <1>2 DEF ToSet

---------------------------------------------------------------------------
(* Types and the ring.                                                     *)

\* Before the first answer the edge has nothing.
Undecided == ring = <<>> /\ list = <<>> /\ main = NoSn /\ idx = 1 /\ age = Never

\* A request goes out before the lifetime of the last one has passed.
Lifetimes == {DflLifetime, Clamp(Granted)}

\* reg_lifetime keeps a lifetime in its bounds.
LEMMA ClampType ==
    /\ Clamp(Granted) \in Nat \ {0} /\ Clamp(Granted) <= MaxLifetime
    /\ Lifetimes \subseteq 1..MaxLifetime
BY LifetimeAssumption DEF Clamp, Lifetimes

AgeInv ==
    /\ reg.lifetime \in Lifetimes
    /\ age # Never => age <= reg.lifetime /\ (looped => age < reg.lifetime)

\* A registration g with the supernodes of a ring rg: none yet, or with the
\* supernode at the index.
Asked(g, rg) ==
    IF age = Never THEN ~g.wait /\ g.answered /\ g.attempts = Attempts ELSE g.sn = rg[idx]

EdgeInv ==
    /\ AgeInv
    /\ Asked(reg, ring)
    /\ Same(ring, list)
    /\ ready => idx <= Len(ring)
    /\ ~ready => Undecided
    /\ main # NoSn => main \in ToSet(ring)

\* What a handler leaves for the end of the iteration.
Handled(st) ==
    /\ st \in EdgeStates /\ Same(st.ring, st.list)
    /\ Len(ring) <= Len(st.ring)
    /\ \A i \in 1..Len(ring) : st.ring[i] = ring[i]
    /\ IF st.ready THEN idx <= Len(st.ring) ELSE ~ready /\ st = Found
    /\ st.main # NoSn => st.main \in ToSet(st.ring)
    /\ st.reg.lifetime \in Lifetimes
    /\ Asked(st.reg, st.ring)

\* An iteration without effect leaves the edge as it is.
LEMMA FoundHandled ==
    ASSUME TypeOK, EdgeInv
    PROVE  /\ Handled(Found) /\ Len(ring) \in Nat
           /\ Found.ready = ready /\ Found.ring = ring /\ Found.list = list /\ Found.main = main
           /\ Found.reg = reg /\ Found.missed = missed
<1>1. Found \in EdgeStates
  BY DEF Found, EdgeStates, TypeOK
<1>2. /\ Found.ready = ready /\ Found.ring = ring /\ Found.list = list /\ Found.main = main
      /\ Found.reg = reg /\ Found.missed = missed
  BY DEF Found
<1>3. Len(ring) \in Nat
  BY LenProperties DEF TypeOK
<1> HIDE DEF Found
<1>4. QED
  BY <1>1, <1>2, <1>3 DEF Handled, EdgeInv, AgeInv

\* Supernodes were added, and the edge is ready.
LEMMA GrownHandled ==
    ASSUME TypeOK, EdgeInv, NEW st, Longer(Found, st), Len(st.ring) # 0
    PROVE  /\ idx \in 1..Len(st.ring)
           /\ main # NoSn => main \in ToSet(st.ring)
           /\ Handled([st EXCEPT !.ready = TRUE])
           /\ \A i \in 1..Len(ring) : st.ring[i] = ring[i]
<1>1. /\ Handled(Found) /\ Len(ring) \in Nat
      /\ Found.ready = ready /\ Found.ring = ring /\ Found.list = list /\ Found.main = main
      /\ Found.reg = reg /\ Found.missed = missed
  BY FoundHandled
<1>2. Found \in EdgeStates
  BY <1>1 DEF Handled
<1> HIDE DEF Found
<1>3. st \in EdgeStates /\ Len(st.ring) \in Nat
  BY LenProperties DEF Longer, EdgeStates
<1>4. idx \in 1..Len(st.ring)
  <2>1. idx \in Nat /\ 1 <= idx
    BY RingAssumption DEF TypeOK
  <2>2. CASE ready
    BY <1>1, <1>3, <2>1, <2>2 DEF EdgeInv, Longer
  <2>3. CASE ~ready
    BY <1>3, <2>3 DEF EdgeInv, Undecided
  <2>4. QED
    BY <2>2, <2>3
<1>5. ToSet(ring) \subseteq ToSet(st.ring)
  BY <1>1, <1>2, LongerMembers
<1>6. main # NoSn => main \in ToSet(st.ring)
  BY <1>5 DEF EdgeInv
<1> DEFINE new == [st EXCEPT !.ready = TRUE]
<1>7. /\ new \in EdgeStates /\ new.ready /\ new.ring = st.ring /\ new.list = st.list
      /\ new.main = st.main /\ new.reg = st.reg
  BY <1>3 DEF EdgeStates
<1> HIDE DEF new
<1>10. Asked(reg, st.ring)
  <2>1. age # Never => idx \in 1..Len(ring)
    BY <1>1, RingAssumption DEF EdgeInv, Undecided, TypeOK
  <2>2. QED
    BY <1>1, <2>1 DEF EdgeInv, Asked, Longer
<1>8. Handled(new)
  BY <1>1, <1>4, <1>6, <1>7, <1>10 DEF Handled, Longer, EdgeInv, AgeInv
<1>9. QED
  BY <1>1, <1>4, <1>6, <1>8 DEF new, Longer

\* Nothing is under way but what was and what is sent.
LEMMA TransmitNet ==
    ASSUME NEW taken, NEW sent, Transmit(taken, sent)
    PROVE  net' \subseteq net \cup sent
BY DEF Transmit

\* The request that ends an iteration goes to a supernode of the ring.
LEMMA ChosenType ==
    ASSUME TypeOK, NEW st, Handled(st), st.ready
    PROVE  LET n == Choose(st)
           IN  /\ n.idx \in 1..RingMax /\ n.idx <= Len(st.ring)
               /\ n.attempts \in 0..Attempts
               /\ n.main \in Sns \cup {NoSn} /\ (n.main # NoSn => n.main \in ToSet(st.ring))
               /\ st.ring[n.idx] \in Sns
<1>1. /\ st \in EdgeStates /\ Same(st.ring, st.list) /\ idx <= Len(st.ring)
      /\ st.main # NoSn => st.main \in ToSet(st.ring)
  BY DEF Handled
<1>2. /\ st.ring \in Seq(Sns) /\ Len(st.ring) \in Nat /\ DOMAIN st.ring = 1..Len(st.ring)
      /\ \A i \in 1..Len(st.ring) : st.ring[i] \in Sns
  BY <1>1, LenProperties, ElementOfSeq DEF EdgeStates
<1>3. st.reg.attempts \in 0..Attempts /\ st.main \in Sns \cup {NoSn} /\ Attempts \in Nat
  BY <1>1, RingAssumption DEF EdgeStates, Registration
<1>4. idx \in Nat /\ 1 <= idx /\ Len(st.ring) <= RingMax /\ RingMax \in Nat
  BY <1>1, RingAssumption DEF TypeOK, Same
<1> DEFINE next == IF idx + 1 > Len(st.ring) THEN 1 ELSE idx + 1
<1>5. next \in 1..Len(st.ring) /\ idx \in 1..Len(st.ring)
  BY <1>1, <1>2, <1>4
<1>6. st.ring[next] \in ToSet(st.ring) /\ st.ring[next] \in Sns /\ st.ring[idx] \in Sns
  BY <1>2, <1>5 DEF ToSet
<1>7. CASE st.reg.attempts = 0
  <2>1. Choose(st) = [idx |-> next, attempts |-> Attempts,
                      main |-> IF ~st.reg.answered /\ st.main = st.reg.sn THEN st.ring[next] ELSE st.main]
    BY <1>7 DEF Choose, GiveUp
  <2> HIDE DEF next
  <2>2. QED
    BY <1>1, <1>3, <1>4, <1>5, <1>6, <2>1
<1>8. CASE st.reg.attempts # 0
  <2>1. Choose(st) = [idx |-> idx, attempts |-> st.reg.attempts - 1, main |-> st.main]
    BY <1>8 DEF Choose
  <2>2. st.reg.attempts - 1 \in 0..Attempts
    BY <1>3, <1>8
  <2>3. idx \in 1..RingMax /\ idx <= Len(st.ring)
    BY <1>1, <1>4, <1>5
  <2> HIDE DEF next
  <2>4. QED
    BY <1>1, <1>3, <1>6, <2>1, <2>2, <2>3
<1>9. QED
  BY <1>7, <1>8

\* The end of an iteration keeps types and ring.
LEMMA EndLoopRing ==
    ASSUME TypeOK, EdgeInv, NEW st, Handled(st), NEW taken, EndLoop(st, taken)
    PROVE  TypeOK' /\ EdgeInv'
<1>1. /\ st \in EdgeStates /\ Same(st.ring, st.list)
      /\ ready' = st.ready /\ ring' = st.ring /\ list' = st.list /\ looped' = TRUE
      /\ UNCHANGED <<up, entry, flips>>
  BY DEF Handled, EndLoop
<1>2. CASE st.ready /\ Due(st.reg)
  <2> DEFINE n == Choose(st)
             to == st.ring[n.idx]
  <2>1. Register(st, taken)
    BY <1>2 DEF EndLoop
  <2>2. PICK c \in Cookies :
            /\ idx' = n.idx
            /\ main' = n.main
            /\ reg' = [st.reg EXCEPT !.sn = to, !.answered = FALSE, !.wait = TRUE,
                                     !.attempts = n.attempts, !.cookie = c]
            /\ age' = 0
            /\ missed' = [st.missed EXCEPT ![to] = IF @ > Attempts THEN @ ELSE @ + 1]
            /\ Transmit(taken, {Datagram("REGISTER_SUPER", to, c)})
    BY <2>1 DEF Register
  <2>3. /\ n.idx \in 1..RingMax /\ n.idx <= Len(st.ring)
        /\ n.attempts \in 0..Attempts
        /\ n.main \in Sns \cup {NoSn} /\ (n.main # NoSn => n.main \in ToSet(st.ring))
        /\ to \in Sns
    BY <1>2, ChosenType
  <2> HIDE DEF n, to
  <2>4. reg' \in Registration
    BY <1>1, <2>2, <2>3 DEF EdgeStates, Registration
  <2>5. missed' \in [Sns -> 0..(Attempts + 1)]
    <3>1. st.missed \in [Sns -> 0..(Attempts + 1)] /\ Attempts \in Nat
      BY <1>1, RingAssumption DEF EdgeStates
    <3>2. st.missed[to] \in 0..(Attempts + 1)
      BY <2>3, <3>1
    <3>3. (IF st.missed[to] > Attempts THEN st.missed[to] ELSE st.missed[to] + 1) \in 0..(Attempts + 1)
      BY <3>1, <3>2
    <3>4. QED
      BY <2>2, <3>1, <3>3
  <2>6. net' \subseteq Datagrams
    <3>1. Datagram("REGISTER_SUPER", to, c) \in Datagrams
      BY <2>3 DEF Datagram, Datagrams
    <3>2. QED
      BY <2>2, <3>1, TransmitNet DEF TypeOK
  <2>7. age' \in 0..Never
    BY <2>2, LifetimeAssumption DEF Never
  <2>8. TypeOK'
    BY <1>1, <2>2, <2>3, <2>4, <2>5, <2>6, <2>7 DEF TypeOK, EdgeStates
  <2>9. EdgeInv'
    <3>1. reg'.lifetime = st.reg.lifetime /\ age' = 0
      BY <1>1, <2>2 DEF EdgeStates, Registration
    <3>2. AgeInv'
      <4>1. st.reg.lifetime \in Lifetimes /\ st.reg.lifetime \in 1..MaxLifetime
        BY ClampType DEF Handled
      <4>2. QED
        BY <3>1, <4>1 DEF AgeInv, Lifetimes
    <3>3. Asked(reg, ring)'
      <4>1. reg'.sn = to /\ to = st.ring[n.idx] /\ age' # Never
        BY <1>1, <2>2, LifetimeAssumption DEF EdgeStates, Registration, Never, to
      <4>2. QED
        BY <1>1, <2>2, <4>1 DEF Asked
    <3>4. QED
      BY <1>1, <1>2, <2>2, <2>3, <3>2, <3>3 DEF EdgeInv, Same
  <2>10. QED
    BY <2>8, <2>9
<1>3. CASE ~(st.ready /\ Due(st.reg))
  <2>1. /\ main' = st.main /\ reg' = st.reg /\ missed' = st.missed
        /\ UNCHANGED <<idx, age>>
        /\ Transmit(taken, {})
    BY <1>3 DEF EndLoop
  <2>2. net' \subseteq net
    BY <2>1, TransmitNet
  <2>3. TypeOK'
    BY <1>1, <2>1, <2>2 DEF TypeOK, EdgeStates
  <2>4. CASE st.ready
    <3>1. AgeInv'
      <4>1. st.reg.lifetime \in Lifetimes
        BY DEF Handled
      <4>2. st.reg.lifetime \in 1..MaxLifetime /\ age \in Int
        BY <4>1, ClampType, LifetimeAssumption DEF TypeOK, Never
      <4>3. ~(age >= st.reg.lifetime)
        BY <1>3, <2>4 DEF Due
      <4>4. age < st.reg.lifetime
        BY <4>2, <4>3
      <4>5. QED
        BY <1>1, <2>1, <4>1, <4>2, <4>4 DEF AgeInv, Lifetimes
    <3>2. Asked(reg, ring)'
      BY <1>1, <2>1 DEF Handled, Asked
    <3>3. QED
      BY <1>1, <2>1, <2>3, <2>4, <3>1, <3>2 DEF EdgeInv, Handled, Same
  <2>5. CASE ~st.ready
    <3>1. ~ready /\ st = Found
      BY <2>5 DEF Handled
    <3>2. /\ ring' = ring /\ list' = list /\ main' = main /\ reg' = reg /\ idx' = idx /\ age' = age
      BY <1>1, <2>1, <3>1, FoundHandled
    <3>3. Undecided'
      BY <3>1, <3>2 DEF EdgeInv, Undecided
    <3>4. AgeInv'
      BY <3>1, <3>2 DEF EdgeInv, AgeInv, Undecided, Lifetimes
    <3>5. Asked(reg, ring)'
      BY <3>2 DEF EdgeInv, Asked
    <3>6. QED
      BY <1>1, <2>3, <2>5, <3>2, <3>3, <3>4, <3>5 DEF EdgeInv, Same
  <2>6. QED
    BY <2>3, <2>4, <2>5
<1>4. QED
  BY <1>2, <1>3

---------------------------------------------------------------------------
(* The handlers.                                                           *)

\* An answer that counts: only a ready edge waits for one.
LEMMA AnsweredHandled ==
    ASSUME TypeOK, EdgeInv, NEW m \in net, reg.wait
    PROVE  /\ Handled(Answered(m)) /\ Answered(m).ready /\ ready
           /\ Answered(m).reg = [reg EXCEPT !.wait = FALSE, !.answered = TRUE, !.attempts = 0,
                                            !.lifetime = Clamp(Granted)]
           /\ Answered(m).main = main /\ Answered(m).missed = [missed EXCEPT ![m.sn] = 0]
<1> DEFINE grown == FoldLeft(AddSupernode, Found, Backups[m.sn])
<1>1. /\ Handled(Found) /\ Len(ring) \in Nat
      /\ Found.ready = ready /\ Found.ring = ring /\ Found.list = list /\ Found.main = main
      /\ Found.reg = reg /\ Found.missed = missed
  BY FoundHandled
<1>2. m.sn \in Sns /\ Backups[m.sn] \in Seq(Sns)
  BY RingAssumption DEF TypeOK, Datagrams
<1>3. ready
  BY DEF EdgeInv, Undecided, Asked
<1>4. Found \in EdgeStates /\ Same(Found.ring, Found.list)
  BY <1>1 DEF Handled
<1>5. Longer(Found, grown)
  BY <1>2, <1>4, FoldLonger
<1>6. Len(grown.ring) # 0
  <2>1. Len(ring) # 0
    <3>1. idx \in Nat /\ 1 <= idx /\ idx <= Len(ring)
      BY <1>3, RingAssumption DEF TypeOK, EdgeInv
    <3>2. QED
      BY <1>1, <3>1
  <2>2. Len(grown.ring) \in Nat
    BY <1>5, LenProperties DEF Longer, EdgeStates
  <2>3. Len(ring) <= Len(grown.ring)
    BY <1>1, <1>5 DEF Longer
  <2> HIDE DEF grown
  <2>4. QED
    BY <1>1, <2>1, <2>2, <2>3
<1> DEFINE more == [grown EXCEPT !.ready = TRUE]
<1> HIDE DEF grown
<1>7. /\ Handled(more) /\ more.ready /\ more = grown
  <2>1. Handled(more)
    BY <1>5, <1>6, GrownHandled
  <2>2. grown \in EdgeStates /\ grown.ready = ready
    BY <1>1, <1>5 DEF Longer
  <2>3. more = grown
    BY <1>3, <2>2 DEF EdgeStates
  <2>4. QED
    BY <1>3, <2>1, <2>2, <2>3
<1> DEFINE answer == [reg EXCEPT !.wait = FALSE, !.answered = TRUE, !.attempts = 0,
                                 !.lifetime = Clamp(Granted)]
<1>8. answer \in Registration
  <2>1. Clamp(Granted) \in Nat /\ 0 \in 0..Attempts
    BY ClampType, RingAssumption
  <2> DEFINE lifetime == Clamp(Granted)
  <2> HIDE DEF lifetime
  <2>2. lifetime \in Nat
    BY <2>1 DEF lifetime
  <2>3. [reg EXCEPT !.wait = FALSE, !.answered = TRUE, !.attempts = 0, !.lifetime = lifetime]
          \in Registration
    BY <2>1, <2>2 DEF TypeOK, Registration
  <2>4. QED
    BY <2>3 DEF lifetime
<1>9. grown.reg = reg /\ grown.main = main /\ grown.missed = missed /\ grown \in EdgeStates
  BY <1>1, <1>5 DEF Longer
<1>10. Answered(m) = [grown EXCEPT !.reg = answer, !.missed[m.sn] = 0]
  BY <1>9 DEF Answered, grown
<1> HIDE DEF answer
<1>11. /\ Answered(m).ready = grown.ready /\ Answered(m).ring = grown.ring
       /\ Answered(m).list = grown.list /\ Answered(m).main = grown.main
       /\ Answered(m).reg = answer /\ Answered(m).missed = [missed EXCEPT ![m.sn] = 0]
       /\ Answered(m) \in EdgeStates
  <2> DEFINE counts == [missed EXCEPT ![m.sn] = 0]
  <2>1. Answered(m) = [grown EXCEPT !.reg = answer, !.missed = counts]
    BY <1>9, <1>10
  <2>2. counts \in [Sns -> 0..(Attempts + 1)]
    <3>1. 0 \in 0..(Attempts + 1)
      BY RingAssumption
    <3>2. QED
      BY <3>1 DEF TypeOK
  <2> HIDE DEF counts
  <2>3. [grown EXCEPT !.reg = answer, !.missed = counts] \in EdgeStates
    BY <1>8, <1>9, <2>2 DEF EdgeStates
  <2>4. /\ Answered(m).ready = grown.ready /\ Answered(m).ring = grown.ring
        /\ Answered(m).list = grown.list /\ Answered(m).main = grown.main
        /\ Answered(m).reg = answer /\ Answered(m).missed = counts
    BY <1>9, <2>1 DEF EdgeStates
  <2>5. QED
    BY <2>1, <2>3, <2>4 DEF counts
<1>14. answer.sn = reg.sn /\ more.reg = reg
  BY <1>7, <1>9 DEF answer, TypeOK, Registration
<1> HIDE DEF more
<1>12. Handled(Answered(m))
  <2>1. answer.lifetime \in Lifetimes
    BY DEF answer, Lifetimes, TypeOK, Registration
  <2>2. /\ more = grown /\ more.ready /\ Same(grown.ring, grown.list) /\ idx <= Len(grown.ring)
        /\ Len(ring) <= Len(grown.ring) /\ \A i \in 1..Len(ring) : grown.ring[i] = ring[i]
        /\ grown.main # NoSn => grown.main \in ToSet(grown.ring)
    BY <1>7 DEF Handled
  <2>3. Asked(more.reg, more.ring)
    BY <1>7 DEF Handled
  <2>4. Asked(answer, grown.ring)
    BY <1>14, <2>2, <2>3 DEF Asked
  <2>5. /\ Answered(m).ready /\ Same(Answered(m).ring, Answered(m).list)
        /\ idx <= Len(Answered(m).ring) /\ Len(ring) <= Len(Answered(m).ring)
    BY <1>11, <2>2
  <2>6. \A i \in 1..Len(ring) : Answered(m).ring[i] = ring[i]
    BY <1>11, <2>2
  <2>7. Answered(m).main # NoSn => Answered(m).main \in ToSet(Answered(m).ring)
    BY <1>11, <2>2
  <2>8. Answered(m).reg.lifetime \in Lifetimes /\ Asked(Answered(m).reg, Answered(m).ring)
    BY <1>11, <2>1, <2>4
  <2>9. QED
    BY <1>11, <2>5, <2>6, <2>7, <2>8 DEF Handled
<1>13. QED
  BY <1>3, <1>7, <1>9, <1>11, <1>12 DEF answer

\* What an ADV makes of the edge.
AfterAdv(m) ==
    LET added == AddSupernode(Found, m.sn)
        first == [added EXCEPT
                    !.main = added.ring[idx],
                    !.reg = [@ EXCEPT !.sn = added.ring[idx], !.answered = age = Never]]
    IN  IF Len(ring) = RingMax THEN Found
        ELSE [(IF Len(added.ring) = 1 THEN first ELSE added) EXCEPT !.ready = TRUE]

\* An ADV leaves the registration alone but in a ring of one.
LEMMA AdvHandled ==
    ASSUME TypeOK, EdgeInv, NEW m \in net
    PROVE  /\ Handled(AfterAdv(m))
           /\ \/ AfterAdv(m).reg = reg /\ AfterAdv(m).main = main
              \/ /\ Len(AfterAdv(m).ring) = 1 /\ idx = 1 /\ Len(ring) # RingMax
                 /\ Len(ring) = 0 \/ ring[1] = AfterAdv(m).ring[1]
                 /\ Len(ring) = 1 => m.sn = ring[1]
                 /\ AfterAdv(m).main = AfterAdv(m).ring[1]
                 /\ AfterAdv(m).reg = [reg EXCEPT !.sn = AfterAdv(m).ring[1], !.answered = (age = Never)]
           /\ AfterAdv(m).missed = missed
           /\ Len(ring) = 0 => AfterAdv(m).ring = <<m.sn>>
<1> DEFINE added == AddSupernode(Found, m.sn)
           first == [added EXCEPT
                       !.main = added.ring[idx],
                       !.reg = [@ EXCEPT !.sn = added.ring[idx], !.answered = age = Never]]
<1>1. /\ Handled(Found) /\ Len(ring) \in Nat
      /\ Found.ready = ready /\ Found.ring = ring /\ Found.list = list /\ Found.main = main
      /\ Found.reg = reg /\ Found.missed = missed
  BY FoundHandled
<1>2. m.sn \in Sns
  BY DEF TypeOK, Datagrams
<1>3. CASE Len(ring) = RingMax
  <2>1. AfterAdv(m) = Found
    BY <1>3 DEF AfterAdv
  <2>2. Len(ring) # 0
    BY <1>3, RingAssumption
  <2>3. QED
    BY <1>1, <2>1, <2>2
<1>4. CASE Len(ring) # RingMax
  <2>1. Found \in EdgeStates /\ Same(Found.ring, Found.list)
    BY <1>1 DEF Handled
  <2>2. /\ Longer(Found, added)
        /\ Len(ring) = 0 => added.ring = <<m.sn>>
    BY <1>1, <1>2, <2>1, AddedLonger
  <2>3. added \in EdgeStates /\ Len(added.ring) \in Nat /\ Len(ring) <= Len(added.ring)
    BY <1>1, <2>2, LenProperties DEF Longer, EdgeStates
  <2>4. Len(ring) = 1 /\ Len(added.ring) = 1 => m.sn = ring[1]
    <3> SUFFICES ASSUME Len(ring) = 1, Len(added.ring) = 1, m.sn # ring[1] PROVE FALSE
      OBVIOUS
    <3>1. ring \in Seq(Sns) /\ DOMAIN ring = 1..1
      BY LenProperties DEF TypeOK
    <3>2. ToSet(list) = {ring[1]}
      BY <3>1 DEF EdgeInv, Same, ToSet
    <3>3. added = [Found EXCEPT !.ring = Append(@, m.sn), !.list = <<m.sn>> \o @]
      BY <1>1, <1>4, <3>2 DEF AddSupernode
    <3>4. added.ring = Append(ring, m.sn)
      BY <1>1, <2>1, <3>3 DEF EdgeStates
    <3> HIDE DEF added
    <3>5. Len(Append(ring, m.sn)) = Len(ring) + 1
      <4>1. \A l \in Seq(Sns), s \in Sns : Len(Append(l, s)) = Len(l) + 1
        BY AppendProperties
      <4>2. QED
        BY <1>2, <3>1, <4>1
    <3>6. Len(added.ring) = 1 + 1
      BY <3>4, <3>5
    <3>7. QED
      BY <3>6
  <2> HIDE DEF added
  <2>5. Len(added.ring) # 0
    <3>1. CASE Len(ring) = 0
      <4>1. Len(added.ring) = 1
        BY <1>1, <2>2, <3>1
      <4>2. QED
        BY <4>1
    <3>2. CASE Len(ring) # 0
      BY <1>1, <2>3, <3>2
    <3>3. QED
      BY <3>1, <3>2
  <2> DEFINE more == [added EXCEPT !.ready = TRUE]
  <2>6. /\ idx \in 1..Len(added.ring)
        /\ Handled(more)
        /\ \A i \in 1..Len(ring) : added.ring[i] = ring[i]
    BY <2>2, <2>5, GrownHandled
  <2>7. added.reg = reg /\ added.main = main /\ added.missed = missed
    BY <1>1, <2>2 DEF Longer
  <2>8. CASE Len(added.ring) # 1
    <3>1. AfterAdv(m) = more
      BY <1>4, <2>8 DEF AfterAdv, added
    <3>2. more.reg = reg /\ more.main = main /\ more.missed = missed /\ more.ring = added.ring
      BY <2>3, <2>7 DEF EdgeStates
    <3>3. QED
      BY <2>2, <2>6, <3>1, <3>2
  <2>9. CASE Len(added.ring) = 1
    <3>1. idx = 1
      BY <2>6, <2>9
    <3> DEFINE fresh == [reg EXCEPT !.sn = added.ring[1], !.answered = (age = Never)]
    <3>2. AfterAdv(m) = [more EXCEPT !.main = added.ring[1], !.reg = fresh]
      <4>1. AfterAdv(m) = [first EXCEPT !.ready = TRUE]
        BY <1>4, <2>9 DEF AfterAdv, added
      <4>2. first = [added EXCEPT !.main = added.ring[1], !.reg = fresh]
        BY <2>7, <3>1
      <4>3. QED
        BY <2>3, <4>1, <4>2 DEF EdgeStates
    <3>3. added.ring[1] \in Sns /\ added.ring[1] \in ToSet(added.ring)
      <4>1. added.ring \in Seq(Sns) /\ DOMAIN added.ring = 1..1
        BY <2>3, <2>9, LenProperties DEF EdgeStates
      <4>2. QED
        BY <2>9, <4>1, ElementOfSeq DEF ToSet
    <3>4. fresh \in Registration
      BY <3>3 DEF TypeOK, Registration
    <3>5. more \in EdgeStates /\ more.ring = added.ring /\ more.missed = missed /\ more.ready
      BY <2>3, <2>7 DEF EdgeStates
    <3> DEFINE new == AfterAdv(m)
    <3>10. fresh.lifetime \in Lifetimes /\ Asked(fresh, added.ring)
      BY <3>1 DEF EdgeInv, AgeInv, Asked, TypeOK, Registration
    <3> HIDE DEF fresh, more
    <3>6. /\ new \in EdgeStates /\ new.ring = added.ring /\ new.list = more.list
          /\ new.ready = more.ready /\ new.main = added.ring[1] /\ new.reg = fresh
          /\ new.missed = missed
      BY <3>2, <3>3, <3>4, <3>5 DEF EdgeStates
    <3> HIDE DEF new
    <3>7. Handled(new)
      BY <2>6, <3>3, <3>5, <3>6, <3>10 DEF Handled
    <3>8. Len(ring) = 0 \/ ring[1] = added.ring[1]
      <4>1. Len(ring) = 0 \/ 1 \in 1..Len(ring)
        BY <1>1
      <4>2. QED
        BY <2>6, <4>1
    <3>9. QED
      BY <1>4, <2>2, <2>4, <2>9, <3>1, <3>6, <3>7, <3>8 DEF new, fresh
  <2>10. QED
    BY <2>8, <2>9
<1>5. QED
  BY <1>3, <1>4

\* What an RSP makes of the edge.
AfterRsp(m) ==
    IF ready THEN Found
    ELSE [FoldLeft(AddSupernode, [Found EXCEPT !.list = <<>>],
                   Append(Backups[m.sn], m.sn)) EXCEPT !.ready = TRUE]

\* An RSP leaves the registration alone.
LEMMA RspHandled ==
    ASSUME TypeOK, EdgeInv, NEW m \in net
    PROVE  /\ Handled(AfterRsp(m))
           /\ AfterRsp(m).reg = reg /\ AfterRsp(m).main = main /\ AfterRsp(m).missed = missed
           /\ ready => AfterRsp(m) = Found
<1>1. /\ Handled(Found) /\ Len(ring) \in Nat
      /\ Found.ready = ready /\ Found.ring = ring /\ Found.list = list /\ Found.main = main
      /\ Found.reg = reg /\ Found.missed = missed
  BY FoundHandled
<1>2. CASE ready
  BY <1>1, <1>2 DEF AfterRsp
<1>3. CASE ~ready
  <2> DEFINE sns == Append(Backups[m.sn], m.sn)
             grown == FoldLeft(AddSupernode, Found, sns)
             more == [grown EXCEPT !.ready = TRUE]
  <2>1. Found \in EdgeStates /\ Same(Found.ring, Found.list)
    BY <1>1 DEF Handled
  <2>2. [Found EXCEPT !.list = <<>>] = Found
    <3>1. list = <<>>
      BY <1>3 DEF EdgeInv, Undecided
    <3>2. QED
      BY <1>1, <2>1, <3>1 DEF EdgeStates
  <2>3. sns \in Seq(Sns) /\ Len(sns) # 0
    <3>1. m.sn \in Sns /\ Backups[m.sn] \in Seq(Sns)
      BY RingAssumption DEF TypeOK, Datagrams
    <3>2. Len(Backups[m.sn]) \in Nat
      BY <3>1, LenProperties
    <3>3. sns \in Seq(Sns) /\ Len(sns) = Len(Backups[m.sn]) + 1
      BY <3>1, AppendProperties
    <3> HIDE DEF sns
    <3>4. QED
      BY <3>2, <3>3
  <2>4. AfterRsp(m) = more
    BY <1>3, <2>2 DEF AfterRsp
  <2> HIDE DEF sns
  <2>5. Longer(Found, grown) /\ Len(grown.ring) # 0
    BY <2>1, <2>3, FoldLonger
  <2> HIDE DEF grown
  <2>6. Handled(more)
    BY <2>5, GrownHandled
  <2>7. more.reg = reg /\ more.main = main /\ more.missed = missed
    BY <1>1, <2>5 DEF Longer, EdgeStates
  <2>8. QED
    BY <1>3, <2>4, <2>6, <2>7
<1>4. QED
  BY <1>2, <1>3

---------------------------------------------------------------------------
(* Every step keeps types and ring.                                        *)

\* The edge starts with nothing, or with what its file holds.
LEMMA InitRing == Init => TypeOK /\ EdgeInv
<1> SUFFICES ASSUME Init PROVE TypeOK /\ EdgeInv
  OBVIOUS
<1>1. list \in Seq(Sns) /\ ring = list /\ Len(list) \in Nat /\ Len(list) <= RingMax
      /\ IsInjective(list) /\ (list # <<>> => Len(list) # 0)
  <2>1. <<>> \in Seq(Sns) /\ Len(<<>>) = 0 /\ IsInjective(<<>>) /\ 0 <= RingMax
    BY RingAssumption DEF IsInjective
  <2>2. \A f \in Files : f \in Seq(Sns) /\ Len(f) \in Nat /\ Len(f) <= RingMax /\ IsInjective(f)
                         /\ Len(f) # 0
    BY RingAssumption, LenProperties
  <2>3. QED
    BY <2>1, <2>2 DEF Init
<1>2. list # <<>> => list[1] \in Sns /\ list[1] \in ToSet(list)
  <2>1. list # <<>> => 1 \in 1..Len(list)
    BY <1>1
  <2>2. DOMAIN list = 1..Len(list)
    BY <1>1, LenProperties
  <2>3. QED
    BY <1>1, <2>1, <2>2, ElementOfSeq DEF ToSet
<1>3. main \in Sns \cup {NoSn} /\ ready \in BOOLEAN /\ ready = (list # <<>>)
      /\ (ready => main = list[1]) /\ (~ready => main = NoSn)
  BY <1>2 DEF Init
<1>4. reg \in Registration
  <2>1. 0 \in Cookies /\ Attempts \in 0..Attempts /\ DflLifetime \in Nat
    BY RingAssumption, LifetimeAssumption, BoundsAssumption DEF Cookies
  <2>2. QED
    BY <1>3, <2>1 DEF Init, Registration
<1>5. net \subseteq Datagrams
  <2>1. 0 \in Cookies
    BY BoundsAssumption DEF Cookies
  <2>2. \A t \in Answers, s \in Advertisers : Datagram(t, s, 0) \in Datagrams
    BY <2>1, RingAssumption DEF Datagram, Datagrams
  <2>3. QED
    BY <2>2 DEF Init
<1>6. /\ idx = 1 /\ age = Never /\ ~reg.wait /\ looped = FALSE /\ flips = 0
      /\ up \in [Sns -> BOOLEAN] /\ entry \in [Sns -> Nat \cup {Absent, Lost}]
  BY DEF Init
<1>7. missed \in [Sns -> 0..(Attempts + 1)]
  <2>1. 0 \in 0..(Attempts + 1)
    BY RingAssumption
  <2>2. QED
    BY <2>1 DEF Init
<1>8. 1 \in 1..RingMax /\ Never \in 0..Never
  BY RingAssumption, LifetimeAssumption DEF Never
<1>9. TypeOK
  BY <1>1, <1>3, <1>4, <1>5, <1>6, <1>7, <1>8 DEF TypeOK
<1>10. EdgeInv
  <2>1. Same(ring, list)
    BY <1>1 DEF Same
  <2>2. ready => idx <= Len(ring)
    <3>1. ready => Len(list) # 0
      BY <1>1, <1>3
    <3>2. QED
      BY <1>1, <1>6, <3>1
  <2>5. AgeInv /\ Asked(reg, ring)
    BY <1>6 DEF AgeInv, Lifetimes, Asked, Init
  <2>3. ~ready => Undecided
    BY <1>1, <1>3, <1>6 DEF Undecided
  <2>4. main # NoSn => main \in ToSet(ring)
    BY <1>1, <1>2, <1>3
  <2>6. QED
    BY <2>1, <2>2, <2>3, <2>4, <2>5 DEF EdgeInv
<1>11. QED
  BY <1>9, <1>10

\* The end of every iteration has been through one of the handlers.
LEMMA LoopHandled ==
    ASSUME TypeOK, EdgeInv
    PROVE  /\ \A m \in net :
                /\ RecvSuperAck(m) => \E st : Handled(st) /\ EndLoop(st, {m})
                /\ RecvAdv(m) => Handled(AfterAdv(m)) /\ EndLoop(AfterAdv(m), {m})
                /\ RecvRsp(m) => Handled(AfterRsp(m)) /\ EndLoop(AfterRsp(m), {m})
           /\ Idle => Handled(Found) /\ EndLoop(Found, {})
<1>1. Handled(Found)
  BY FoundHandled
<1>2. ASSUME NEW m \in net, RecvSuperAck(m) PROVE \E st : Handled(st) /\ EndLoop(st, {m})
  <2>1. CASE Accepts(m)
    <3>1. Handled(Answered(m))
      BY <2>1, AnsweredHandled DEF Accepts
    <3>2. EndLoop(Answered(m), {m})
      BY <1>2, <2>1 DEF RecvSuperAck
    <3>3. QED
      BY <3>1, <3>2
  <2>2. CASE ~Accepts(m)
    <3>1. EndLoop(Found, {m})
      BY <1>2, <2>2 DEF RecvSuperAck
    <3>2. QED
      BY <1>1, <3>1
  <2>3. QED
    BY <2>1, <2>2
<1>3. ASSUME NEW m \in net, RecvAdv(m) PROVE Handled(AfterAdv(m)) /\ EndLoop(AfterAdv(m), {m})
  BY <1>3, AdvHandled DEF RecvAdv, AfterAdv
<1>4. ASSUME NEW m \in net, RecvRsp(m) PROVE Handled(AfterRsp(m)) /\ EndLoop(AfterRsp(m), {m})
  BY <1>4, RspHandled DEF RecvRsp, AfterRsp
<1>5. Idle => EndLoop(Found, {})
  BY DEF Idle
<1>6. QED
  BY <1>1, <1>2, <1>3, <1>4, <1>5

\* The file holds what the ring held.
LEMMA RestartRing ==
    ASSUME TypeOK, EdgeInv, Restart
    PROVE  TypeOK' /\ EdgeInv'
<1>1. /\ ready /\ ring' = list /\ idx' = 1 /\ main' = list[1] /\ age' = Never /\ looped' = FALSE
      /\ reg' = [sn |-> list[1], answered |-> TRUE, wait |-> FALSE, attempts |-> Attempts,
                 cookie |-> 0, lifetime |-> DflLifetime]
      /\ flips' = flips + 1 /\ missed' = [s \in Sns |-> 0]
      /\ UNCHANGED <<ready, list, up, entry, net>>
  BY DEF Restart
<1>2. /\ list \in Seq(Sns) /\ Len(list) \in Nat /\ DOMAIN list = 1..Len(list)
      /\ 1 \in 1..Len(list) /\ Len(list) = Len(ring) /\ IsInjective(list) /\ Len(list) <= RingMax
  <2>1. idx \in Nat /\ 1 <= idx /\ idx <= Len(ring)
    BY <1>1, RingAssumption DEF TypeOK, EdgeInv
  <2>2. /\ list \in Seq(Sns) /\ Len(list) \in Nat /\ DOMAIN list = 1..Len(list)
        /\ Len(list) = Len(ring) /\ IsInjective(list) /\ Len(list) <= RingMax
    BY LenProperties DEF TypeOK, EdgeInv, Same
  <2>3. QED
    BY <2>1, <2>2
<1>3. list[1] \in Sns /\ list[1] \in ToSet(list)
  BY <1>2, ElementOfSeq DEF ToSet
<1>4. reg' \in Registration
  <2>1. 0 \in Cookies /\ Attempts \in 0..Attempts /\ DflLifetime \in Nat
    BY RingAssumption, LifetimeAssumption, BoundsAssumption DEF Cookies
  <2>2. QED
    BY <1>1, <1>3, <2>1 DEF Registration
<1>5. missed' \in [Sns -> 0..(Attempts + 1)]
  <2>1. 0 \in 0..(Attempts + 1)
    BY RingAssumption
  <2>2. QED
    BY <1>1, <2>1
<1>6. 1 \in 1..RingMax /\ Never \in 0..Never
  BY RingAssumption, LifetimeAssumption DEF Never
<1>7. TypeOK'
  <2>1. flips' \in Nat /\ ring' \in Seq(Sns) /\ main' \in Sns \cup {NoSn}
    BY <1>1, <1>2, <1>3 DEF TypeOK
  <2>2. QED
    BY <1>1, <1>4, <1>5, <1>6, <2>1 DEF TypeOK
<1>8. EdgeInv'
  <2>1. AgeInv' /\ Asked(reg, ring)'
    BY <1>1 DEF AgeInv, Lifetimes, Asked
  <2>2. QED
    BY <1>1, <1>2, <1>3, <2>1 DEF EdgeInv, Same
<1>9. QED
  BY <1>7, <1>8

\* Supernodes and time leave the ring alone; time alone brings no lifetime to
\* its end, as the edge has looked whether it is due.
LEMMA OthersRing ==
    ASSUME TypeOK, EdgeInv,
           \/ \E m \in net : RecvRegisterSuper(m) \/ Unheard(m)
           \/ \E s \in Sns : Purge(s) \/ Crash(s) \/ ComeBack(s)
           \/ Tick
    PROVE  TypeOK' /\ EdgeInv'
<1>1. UNCHANGED <<ready, ring, list, idx, main, reg, missed>>
      /\ (age = Never => age' = Never)
  <2>1. CASE Tick
    BY <2>1 DEF Tick
  <2>2. CASE ~Tick
    BY <2>2 DEF RecvRegisterSuper, Unheard, Purge, Crash, ComeBack, edge
  <2>3. QED
    BY <2>1, <2>2
<1>2. EdgeInv'
  <2>1. AgeInv'
    <3>1. CASE Tick
      <4>1. looped /\ looped' = FALSE /\ reg' = reg
            /\ age' = IF age = Never THEN Never ELSE age + 1
        BY <3>1 DEF Tick
      <4>2. age \in Int /\ reg.lifetime \in Int
        BY LifetimeAssumption DEF TypeOK, Registration, Never
      <4>3. QED
        BY <4>1, <4>2 DEF AgeInv, EdgeInv
    <3>2. CASE ~Tick
      <4>1. UNCHANGED <<age, looped>>
        BY <3>2 DEF RecvRegisterSuper, Unheard, Purge, Crash, ComeBack, edge
      <4>2. QED
        BY <1>1, <4>1 DEF AgeInv, EdgeInv
    <3>3. QED
      BY <3>1, <3>2
  <2>2. Asked(reg, ring)'
    <3>1. (age' = Never) <=> (age = Never)
      <4>1. CASE Tick
        <5>1. age # Never => age < reg.lifetime
          BY <4>1 DEF EdgeInv, AgeInv, Tick
        <5>2. reg.lifetime \in 1..MaxLifetime /\ age \in Int /\ MaxLifetime \in Nat
          <6>1. reg.lifetime \in 1..MaxLifetime
            BY ClampType DEF EdgeInv, AgeInv
          <6>2. age \in Int /\ MaxLifetime \in Nat
            BY LifetimeAssumption DEF TypeOK, Never
          <6>3. QED
            BY <6>1, <6>2
        <5>3. age # Never => age + 1 # Never
          BY <5>1, <5>2 DEF Never
        <5>4. QED
          BY <4>1, <5>3 DEF Tick
      <4>2. CASE ~Tick
        BY <4>2 DEF RecvRegisterSuper, Unheard, Purge, Crash, ComeBack, edge
      <4>3. QED
        BY <4>1, <4>2
    <3>2. QED
      BY <1>1, <3>1 DEF EdgeInv, Asked
  <2>3. QED
    BY <1>1, <2>1, <2>2 DEF EdgeInv, Undecided, Same
<1>3. ASSUME NEW m \in net, RecvRegisterSuper(m) PROVE TypeOK'
  <2>1. m.sn \in Sns /\ m.cookie \in Cookies
    BY DEF TypeOK, Datagrams
  <2>2. entry' \in [Sns -> Nat \cup {Absent, Lost}]
    BY <1>3, <2>1 DEF RecvRegisterSuper, TypeOK
  <2>3. Datagram("REGISTER_SUPER_ACK", m.sn, m.cookie) \in Datagrams
    BY <2>1 DEF Datagram, Datagrams
  <2>4. net' \subseteq Datagrams
    <3>1. Transmit({m}, {Datagram("REGISTER_SUPER_ACK", m.sn, m.cookie)})
      BY <1>3 DEF RecvRegisterSuper
    <3>2. QED
      BY <2>3, <3>1, TransmitNet DEF TypeOK
  <2>5. UNCHANGED <<edge, up, flips>>
    BY <1>3 DEF RecvRegisterSuper
  <2>6. QED
    BY <2>2, <2>4, <2>5 DEF TypeOK, edge
<1>4. ASSUME NEW m \in net, Unheard(m) PROVE TypeOK'
  BY <1>4 DEF Unheard, TypeOK, edge
<1>5. ASSUME NEW s \in Sns, Purge(s) PROVE TypeOK'
  BY <1>5 DEF Purge, TypeOK, edge
<1>6. ASSUME NEW s \in Sns, Crash(s) PROVE TypeOK'
  BY <1>6 DEF Crash, TypeOK, edge
<1>7. ASSUME NEW s \in Sns, ComeBack(s) PROVE TypeOK'
  BY <1>7 DEF ComeBack, TypeOK, edge
<1>8. ASSUME Tick PROVE TypeOK'
  <2>1. age' \in 0..Never
    <3>1. age \in 0..Never /\ reg.lifetime \in 1..MaxLifetime /\ Never = MaxLifetime + 1
          /\ MaxLifetime \in Nat
      BY ClampType, LifetimeAssumption DEF TypeOK, EdgeInv, AgeInv, Never
    <3>2. age # Never => age < reg.lifetime
      BY <1>8 DEF EdgeInv, AgeInv, Tick
    <3>3. age' = IF age = Never THEN Never ELSE age + 1
      BY <1>8 DEF Tick
    <3>4. QED
      BY <3>1, <3>2, <3>3
  <2>2. entry' \in [Sns -> Nat \cup {Absent, Lost}]
    <3>1. \A s \in Sns : (IF entry[s] \in 0..RegTimeout THEN entry[s] + 1 ELSE entry[s])
                            \in Nat \cup {Absent, Lost}
      BY LifetimeAssumption DEF TypeOK
    <3>2. QED
      BY <1>8, <3>1 DEF Tick
  <2>3. QED
    BY <1>8, <2>1, <2>2 DEF Tick, TypeOK
<1>9. QED
  BY <1>2, <1>3, <1>4, <1>5, <1>6, <1>7, <1>8

\* EdgeInv is inductive.
LEMMA StepRing ==
    ASSUME TypeOK, EdgeInv, [Next]_vars
    PROVE  TypeOK' /\ EdgeInv'
<1>1. ASSUME NEW m \in net, RecvSuperAck(m) \/ RecvAdv(m) \/ RecvRsp(m)
      PROVE  TypeOK' /\ EdgeInv'
  BY <1>1, LoopHandled, EndLoopRing
<1>2. CASE Idle
  BY <1>2, LoopHandled, EndLoopRing
<1>3. CASE Restart
  BY <1>3, RestartRing
<1>4. CASE \/ \E m \in net : RecvRegisterSuper(m) \/ Unheard(m)
           \/ \E s \in Sns : Purge(s) \/ Crash(s) \/ ComeBack(s)
           \/ Tick
  BY <1>4, OthersRing
<1>5. CASE UNCHANGED vars
  BY <1>5 DEF vars, TypeOK, EdgeInv, AgeInv, Asked, Undecided, Same
<1>6. QED
  BY <1>1, <1>2, <1>3, <1>4, <1>5 DEF Next

\* Hence it always holds.
LEMMA EdgeInductive == Spec => [](TypeOK /\ EdgeInv)
<1>1. Init => TypeOK /\ EdgeInv
  BY InitRing
<1>2. TypeOK /\ EdgeInv /\ [Next]_vars => TypeOK' /\ EdgeInv'
  BY StepRing
<1>3. QED
  BY <1>1, <1>2, PTL DEF Spec

\* Every variable always has its type: the index stays in sn_ip_array, the
\* attempts in their range, the age below the end of time.
THEOREM TypeCorrect == Spec => []TypeOK
BY EdgeInductive, PTL

\* RingSaved always holds: add_supernode, load_supernodes and the handlers of
\* ADV, RSP and REGISTER_SUPER_ACK keep ring and file together.
THEOREM RingIsSaved == Spec => []RingSaved
<1>1. EdgeInv => RingSaved
  BY DEF EdgeInv, Same, RingSaved
<1>2. QED
  BY <1>1, EdgeInductive, PTL

---------------------------------------------------------------------------
(* An answer is an answer to the last request.                             *)

\* s has heard from the edge since the last request, if it has not crashed.
Heard(s) == entry[s] = Lost \/ entry[s] \in 0..age

\* What holds of a registration g: the cookie awaited is on the way only to and from the supernode asked, and back only
\* once that one has an entry.
Current(g) ==
    /\ g.wait => \A m \in net :
        /\ m.type \in {"REGISTER_SUPER", "REGISTER_SUPER_ACK"} /\ m.cookie = g.cookie => m.sn = g.sn
        /\ m.type = "REGISTER_SUPER_ACK" /\ m.cookie = g.cookie => Heard(g.sn)
    /\ ~g.wait /\ age # Never => Heard(g.sn)

AnswerInv == Current(reg)

\* What a supernode grants and what the edge starts with keep its entry alive.
EntriesOutlast == DflLifetime <= RegTimeout /\ Clamp(Granted) <= RegTimeout

\* A new request has a cookie that nothing under way carries.
LEMMA EndLoopAnswer ==
    ASSUME TypeOK, EdgeInv, NEW st, Handled(st), Current(st.reg),
           NEW taken, EndLoop(st, taken)
    PROVE  AnswerInv'
<1>1. ring' = st.ring /\ entry' = entry /\ st \in EdgeStates
  BY DEF EndLoop, Handled
<1>2. CASE st.ready /\ Due(st.reg)
  <2> DEFINE n == Choose(st)
             to == st.ring[n.idx]
  <2>1. Register(st, taken)
    BY <1>2 DEF EndLoop
  <2>2. PICK c \in Cookies \ ({m.cookie : m \in net} \cup {st.reg.cookie}) :
            /\ idx' = n.idx
            /\ main' = n.main
            /\ reg' = [st.reg EXCEPT !.sn = to, !.answered = FALSE, !.wait = TRUE,
                                     !.attempts = n.attempts, !.cookie = c]
            /\ age' = 0
            /\ missed' = [st.missed EXCEPT ![to] = IF @ > Attempts THEN @ ELSE @ + 1]
            /\ Transmit(taken, {Datagram("REGISTER_SUPER", to, c)})
    BY <2>1 DEF Register
  <2> DEFINE request == Datagram("REGISTER_SUPER", to, c)
  <2>3. net' \subseteq net \cup {request}
    BY <2>2, TransmitNet
  <2>4. request.type = "REGISTER_SUPER" /\ request.sn = to /\ request.cookie = c
    BY DEF Datagram
  <2>5. \A m \in net : m.cookie # c
    BY <2>2
  <2>6. to = ring'[idx']
    BY <1>1, <2>2
  <2> HIDE DEF n, to, request
  <2>7. reg'.sn = to /\ reg'.wait /\ reg'.cookie = c
    BY <1>1, <2>2 DEF EdgeStates, Registration
  <2>8. age' # Never
    BY <2>2, LifetimeAssumption DEF Never
  <2>9. QED
    BY <2>3, <2>4, <2>5, <2>6, <2>7, <2>8 DEF AnswerInv, Current
<1>3. CASE ~(st.ready /\ Due(st.reg))
  <2>1. reg' = st.reg /\ UNCHANGED <<idx, age>> /\ Transmit(taken, {})
    BY <1>3 DEF EndLoop
  <2>2. net' \subseteq net
    BY <2>1, TransmitNet
  <2>3. QED
    BY <1>1, <2>1, <2>2 DEF AnswerInv, Current, Heard
<1>4. QED
  BY <1>2, <1>3

\* A handler leaves the registration it found, or an answered one.
LEMMA LoopCurrent ==
    ASSUME TypeOK, EdgeInv, AnswerInv
    PROVE  /\ Current(Found.reg)
           /\ \A m \in net :
                /\ m.type = "REGISTER_SUPER_ACK" /\ Accepts(m) => Current(Answered(m).reg)
                /\ Current(AfterAdv(m).reg)
                /\ Current(AfterRsp(m).reg)
<1>1. /\ Found.reg = reg /\ Found.ring = ring /\ Len(ring) \in Nat
      /\ ready => idx \in 1..Len(ring)
      /\ age # Never => ready
  <2>1. idx \in Nat /\ 1 <= idx
    BY RingAssumption DEF TypeOK
  <2>2. QED
    BY <2>1, FoundHandled DEF EdgeInv, Undecided
<1>2. ASSUME NEW st, Handled(st), st.reg = reg PROVE Current(st.reg)
  <2>1. age # Never => st.ring[idx] = ring[idx]
    BY <1>1, <1>2 DEF Handled
  <2>2. QED
    BY <1>2, <2>1 DEF AnswerInv, Current
<1>3. Current(Found.reg)
  BY <1>1, <1>2, FoundHandled
<1>4. ASSUME NEW m \in net, m.type = "REGISTER_SUPER_ACK", Accepts(m)
      PROVE  Current(Answered(m).reg)
  <2>1. /\ Handled(Answered(m)) /\ ready
        /\ Answered(m).reg = [reg EXCEPT !.wait = FALSE, !.answered = TRUE, !.attempts = 0,
                                         !.lifetime = Clamp(Granted)]
    BY <1>4, AnsweredHandled DEF Accepts
  <2>2. Answered(m).reg.sn = reg.sn /\ ~Answered(m).reg.wait
    BY <2>1 DEF TypeOK, Registration
  <2>3. reg.sn = ring[idx] /\ Heard(reg.sn)
    BY <1>4 DEF AnswerInv, Current, Accepts, EdgeInv, Asked
  <2>4. Answered(m).ring[idx] = ring[idx]
    BY <1>1, <2>1 DEF Handled
  <2>5. QED
    BY <2>2, <2>3, <2>4 DEF Current
<1>5. ASSUME NEW m \in net PROVE Current(AfterAdv(m).reg)
  <2>1. CASE AfterAdv(m).reg = reg
    BY <1>2, <2>1, AdvHandled
  <2>2. CASE AfterAdv(m).reg # reg
    <3>1. /\ Handled(AfterAdv(m)) /\ idx = 1
          /\ Len(ring) = 0 \/ ring[1] = AfterAdv(m).ring[1]
          /\ AfterAdv(m).reg = [reg EXCEPT !.sn = AfterAdv(m).ring[1], !.answered = (age = Never)]
      BY <2>2, AdvHandled
    <3>2. /\ AfterAdv(m).reg.sn = AfterAdv(m).ring[1]
          /\ AfterAdv(m).reg.wait = reg.wait /\ AfterAdv(m).reg.cookie = reg.cookie
      BY <3>1 DEF TypeOK, Registration
    <3>3. age # Never => reg.sn = AfterAdv(m).reg.sn
      BY <1>1, <3>1, <3>2 DEF EdgeInv, Asked
    <3>4. QED
      BY <3>1, <3>2, <3>3 DEF AnswerInv, Current, EdgeInv, Asked
  <2>3. QED
    BY <2>1, <2>2
<1>6. ASSUME NEW m \in net PROVE Current(AfterRsp(m).reg)
  BY <1>2, RspHandled
<1>7. QED
  BY <1>3, <1>4, <1>5, <1>6

\* A supernode that answers has an entry, which outlives the registration.
LEMMA OthersAnswer ==
    ASSUME TypeOK, EdgeInv, AnswerInv, EntriesOutlast,
           \/ \E m \in net : RecvRegisterSuper(m) \/ Unheard(m)
           \/ \E s \in Sns : Purge(s) \/ Crash(s) \/ ComeBack(s)
           \/ Tick
    PROVE  AnswerInv'
<1>1. UNCHANGED <<ring, idx, reg>>
  BY DEF RecvRegisterSuper, Unheard, Purge, Crash, ComeBack, Tick, edge
<1>2. age \in Nat /\ Never \in Nat /\ reg.wait \in BOOLEAN /\ RegTimeout \in Nat
      /\ (age # Never => age <= RegTimeout /\ reg.sn \in Sns)
  <2>1. age \in Nat /\ Never \in Nat /\ reg.wait \in BOOLEAN /\ RegTimeout \in Nat
    BY LifetimeAssumption DEF TypeOK, Registration, Never
  <2>2. age # Never => age <= RegTimeout
    BY <2>1, ClampType, LifetimeAssumption DEF EdgeInv, AgeInv, Lifetimes, EntriesOutlast
  <2>3. age # Never => reg.sn \in Sns
    <3>1. age # Never => ready /\ idx \in 1..Len(ring)
      BY RingAssumption, LenProperties DEF TypeOK, EdgeInv, Undecided
    <3>2. QED
      BY <3>1, ElementOfSeq DEF TypeOK, EdgeInv, Asked
  <2>4. QED
    BY <2>1, <2>2, <2>3
<1>3. ASSUME NEW m \in net, RecvRegisterSuper(m) PROVE AnswerInv'
  <2>1. m.sn \in Sns /\ m.type = "REGISTER_SUPER"
    BY <1>3 DEF RecvRegisterSuper, TypeOK, Datagrams
  <2>2. entry' = [entry EXCEPT ![m.sn] = 0] /\ age' = age
    BY <1>3 DEF RecvRegisterSuper, edge
  <2> DEFINE Later(s) == entry'[s] = Lost \/ entry'[s] \in 0..age'
  <2>3. Later(m.sn) /\ \A s \in Sns : Heard(s) => Later(s)
    BY <1>2, <2>1, <2>2 DEF Heard, TypeOK
  <2> DEFINE ack == Datagram("REGISTER_SUPER_ACK", m.sn, m.cookie)
  <2>4. net' \subseteq net \cup {ack}
    <3>1. Transmit({m}, {ack})
      BY <1>3 DEF RecvRegisterSuper
    <3>2. QED
      BY <3>1, TransmitNet
  <2>5. ack.sn = m.sn /\ ack.cookie = m.cookie
    BY DEF Datagram
  <2>6. reg.wait => age # Never
    BY DEF EdgeInv, Asked
  <2> HIDE DEF ack, Later
  <2>7. ASSUME NEW d \in net', reg.wait, d.cookie = reg.cookie,
               d.type \in {"REGISTER_SUPER", "REGISTER_SUPER_ACK"}
        PROVE  d.sn = reg.sn /\ (d.type = "REGISTER_SUPER_ACK" => Later(reg.sn))
    <3>1. CASE d \in net
      BY <1>2, <2>3, <2>6, <2>7, <3>1 DEF AnswerInv, Current
    <3>2. CASE d = ack
      <4>1. m.sn = reg.sn
        BY <2>1, <2>5, <2>7, <3>2 DEF AnswerInv, Current
      <4>2. QED
        BY <2>3, <2>5, <3>2, <4>1
    <3>3. QED
      BY <2>4, <3>1, <3>2
  <2>8. ~reg.wait /\ age # Never => Later(reg.sn)
    BY <1>2, <2>3 DEF AnswerInv, Current
  <2>9. QED
    BY <1>1, <2>2, <2>7, <2>8 DEF AnswerInv, Current, Heard, Later
<1>4. ASSUME NEW m \in net, Unheard(m) PROVE AnswerInv'
  <2>1. net' \subseteq net /\ UNCHANGED <<age, entry>>
    BY <1>4 DEF Unheard, edge
  <2>2. QED
    BY <1>1, <2>1 DEF AnswerInv, Current, Heard
<1>5. ASSUME UNCHANGED net, age' = Never <=> age = Never,
             age # Never => (Heard(reg.sn) => Heard(reg.sn)')
      PROVE  AnswerInv'
  <2>1. Heard(reg.sn)' = (entry'[reg.sn] = Lost \/ entry'[reg.sn] \in 0..age')
    BY <1>1 DEF Heard
  <2>2. reg.wait => age # Never
    BY DEF EdgeInv, Asked
  <2>3. QED
    BY <1>1, <1>5, <2>1, <2>2 DEF AnswerInv, Current, Heard
<1>6. ASSUME NEW s \in Sns, Purge(s) PROVE AnswerInv'
  <2>1. entry[s] > RegTimeout /\ entry' = [entry EXCEPT ![s] = Absent] /\ age' = age
    BY <1>6 DEF Purge, edge
  <2>2. age # Never /\ Heard(reg.sn) => reg.sn # s
    BY <1>2, <2>1 DEF Heard, Lost
  <2>3. age # Never /\ Heard(reg.sn) => Heard(reg.sn)'
    BY <1>1, <1>2, <2>1, <2>2 DEF Heard, TypeOK
  <2>4. QED
    BY <1>5, <1>6, <2>1, <2>3 DEF Purge
<1>7. ASSUME NEW s \in Sns, Crash(s) \/ ComeBack(s) PROVE AnswerInv'
  <2>1. /\ entry' \in {entry, [entry EXCEPT ![s] = Lost]} /\ age' = age /\ net' = net
    BY <1>7 DEF Crash, ComeBack, edge
  <2>2. age # Never /\ Heard(reg.sn) => Heard(reg.sn)'
    BY <1>1, <1>2, <2>1 DEF Heard, TypeOK
  <2>3. QED
    BY <1>5, <2>1, <2>2
<1>8. ASSUME Tick PROVE AnswerInv'
  <2>1. /\ age' = (IF age = Never THEN Never ELSE age + 1) /\ net' = net
        /\ entry' = [s \in Sns |-> IF entry[s] \in 0..RegTimeout THEN entry[s] + 1 ELSE entry[s]]
    BY <1>8 DEF Tick
  <2>2. age # Never => age + 1 # Never
    <3>1. age # Never => age < reg.lifetime /\ reg.lifetime \in 1..MaxLifetime
      BY <1>8, ClampType DEF Tick, EdgeInv, AgeInv
    <3>2. QED
      BY <1>2, <3>1, LifetimeAssumption DEF Never
  <2>3. age # Never /\ Heard(reg.sn) => Heard(reg.sn)'
    <3> SUFFICES ASSUME age # Never, Heard(reg.sn) PROVE Heard(reg.sn)'
      OBVIOUS
    <3>1. reg.sn \in Sns /\ up' = up /\ reg' = reg
      BY <1>1, <1>2, <1>8 DEF Tick, Heard, TypeOK
    <3>2. entry'[reg.sn] = (IF entry[reg.sn] \in 0..RegTimeout THEN entry[reg.sn] + 1 ELSE entry[reg.sn])
      BY <2>1, <3>1
    <3> DEFINE old == entry[reg.sn]
               new == entry'[reg.sn]
    <3>3. age' = age + 1 /\ age \in Int /\ (old = Lost \/ old \in 0..age)
      BY <2>1 DEF Heard, TypeOK
    <3>4. new = (IF old \in 0..RegTimeout THEN old + 1 ELSE old)
      BY <3>2
    <3> HIDE DEF old, new
    <3>5. new = Lost \/ new \in 0..(age + 1)
      BY <3>3, <3>4 DEF Lost
    <3>6. QED
      BY <3>1, <3>3, <3>5 DEF Heard, new
  <2>4. QED
    BY <1>5, <2>1, <2>2, <2>3
<1>9. QED
  BY <1>3, <1>4, <1>6, <1>7, <1>8

\* AnswerInv is inductive, with EdgeInv.
LEMMA StepAnswer ==
    ASSUME TypeOK, EdgeInv, AnswerInv, EntriesOutlast, [Next]_vars
    PROVE  AnswerInv'
<1>1. ASSUME NEW m \in net, RecvSuperAck(m) PROVE AnswerInv'
  <2>1. CASE Accepts(m)
    <3>1. Handled(Answered(m)) /\ m.type = "REGISTER_SUPER_ACK" /\ EndLoop(Answered(m), {m})
      BY <1>1, <2>1, AnsweredHandled DEF Accepts, RecvSuperAck
    <3>2. QED
      BY <2>1, <3>1, LoopCurrent, EndLoopAnswer
  <2>2. CASE ~Accepts(m)
    <3>1. EndLoop(Found, {m}) /\ Handled(Found)
      BY <1>1, <2>2, FoundHandled DEF RecvSuperAck
    <3>2. QED
      BY <3>1, LoopCurrent, EndLoopAnswer
  <2>3. QED
    BY <2>1, <2>2
<1>2. ASSUME NEW m \in net, RecvAdv(m) \/ RecvRsp(m) PROVE AnswerInv'
  BY <1>2, LoopHandled, LoopCurrent, EndLoopAnswer
<1>3. CASE Idle
  BY <1>3, LoopHandled, LoopCurrent, EndLoopAnswer
<1>4. CASE Restart
  BY <1>4 DEF Restart, AnswerInv, Current
<1>5. CASE \/ \E m \in net : RecvRegisterSuper(m) \/ Unheard(m)
           \/ \E s \in Sns : Purge(s) \/ Crash(s) \/ ComeBack(s)
           \/ Tick
  BY <1>5, OthersAnswer
<1>6. CASE UNCHANGED vars
  BY <1>6 DEF vars, AnswerInv, Current, Heard
<1>7. QED
  BY <1>1, <1>2, <1>3, <1>4, <1>5, <1>6 DEF Next

\* AnswerIsCurrent always holds (readFromIPSocket, REGISTER_SUPER_ACK, and
\* update_supernode_reg), if no supernode forgets an edge within the lifetimes in
\* use: edge.c starts with REGISTER_SUPER_INTERVAL_DFL, at most 60 s, reg_lifetime
\* of sn.c grants 120 s, and REGISTRATION_TIMEOUT is 120 s or 1200 s.
THEOREM AnswersAreCurrent ==
    ASSUME EntriesOutlast
    PROVE  Spec => []AnswerIsCurrent
<1>1. Init => AnswerInv
  BY DEF Init, AnswerInv, Current
<1>2. TypeOK /\ EdgeInv /\ AnswerInv /\ [Next]_vars => AnswerInv'
  BY StepAnswer
<1>3. AnswerInv => AnswerIsCurrent
  BY DEF AnswerInv, Current, Heard, AnswerIsCurrent
<1>4. QED
  BY <1>1, <1>2, <1>3, EdgeInductive, PTL DEF Spec

---------------------------------------------------------------------------
(* The main supernode is left only after missing responses.                *)

\* A registration that is not answered has used up the attempts it no longer
\* has left on requests to the supernode asked.
Counted(g, ms) == age # Never =>
    IF g.answered THEN g.attempts = 0 ELSE ms[g.sn] >= Attempts - g.attempts

\* No ADV under way starts a registration afresh that is in progress.
AdvInv ==
    /\ Len(ring) = 1 => \A m \in net : m.type = "ADV" => m.sn # ring[1]
    /\ \A m \in net : m.type = "ADV" => m.cookie = 0 /\ \A d \in net : d.type # "RSP"

MissedInv == Counted(reg, missed) /\ AdvInv

\* The end of an iteration counts a request, and gives up a supernode only
\* when no attempt is left.
LEMMA EndLoopMissed ==
    ASSUME TypeOK, EdgeInv, NEW st, Handled(st), Counted(st.reg, st.missed),
           NEW taken, EndLoop(st, taken),
           st.main = main \/ ToSet(st.ring) = {st.main},
           st.missed = missed \/ st.reg.answered
    PROVE  /\ Counted(reg, missed)'
           /\ main' # main /\ main \in ToSet(ring') => missed[main] >= Attempts
<1>1. /\ st \in EdgeStates /\ Asked(st.reg, st.ring) /\ ring' = st.ring /\ Attempts \in Nat
      /\ main \in ToSet(ring') => st.main = main
      /\ st.reg \in Registration
  BY RingAssumption DEF EndLoop, Handled, EdgeStates
<1>2. CASE st.ready /\ Due(st.reg)
  <2> DEFINE n == Choose(st)
             to == st.ring[n.idx]
  <2>1. Register(st, taken)
    BY <1>2 DEF EndLoop
  <2>2. PICK c :
            /\ idx' = n.idx
            /\ main' = n.main
            /\ reg' = [st.reg EXCEPT !.sn = to, !.answered = FALSE, !.wait = TRUE,
                                     !.attempts = n.attempts, !.cookie = c]
            /\ age' = 0
            /\ missed' = [st.missed EXCEPT ![to] = IF @ > Attempts THEN @ ELSE @ + 1]
    BY <2>1 DEF Register
  <2>3. n.attempts \in 0..Attempts /\ to \in Sns
    BY <1>2, ChosenType
  <2>4. st.missed[to] \in 0..(Attempts + 1)
    BY <1>1, <2>3 DEF EdgeStates
  <2>5. /\ IF st.reg.attempts = 0 THEN n.attempts = Attempts
           ELSE n.attempts = st.reg.attempts - 1 /\ n.idx = idx /\ n.main = st.main
        /\ n.main # st.main =>
              st.reg.attempts = 0 /\ ~st.reg.answered /\ st.main = st.reg.sn
    BY DEF Choose, GiveUp
  <2> DEFINE misses == st.missed[to]
  <2> HIDE DEF n
  <2>6. st.reg.attempts \in 0..Attempts
    BY <1>1 DEF Registration
  <2>7. /\ missed'[to] = IF misses > Attempts THEN misses ELSE misses + 1
        /\ reg'.sn = to /\ reg'.attempts = n.attempts /\ reg'.answered = FALSE
    BY <1>1, <2>2, <2>3 DEF EdgeStates, Registration
  <2>8. missed'[to] >= Attempts - n.attempts
    <3>1. CASE st.reg.attempts = 0
      <4>1. misses \in 0..(Attempts + 1) /\ n.attempts = Attempts
        BY <2>4, <2>5, <3>1
      <4> HIDE DEF misses
      <4>2. missed'[to] \in Nat
        BY <1>1, <2>7, <4>1
      <4>3. QED
        BY <1>1, <4>1, <4>2
    <3>2. CASE st.reg.attempts # 0
      <4>1. n.attempts = st.reg.attempts - 1 /\ n.idx = idx
        BY <2>5, <3>2
      <4>2. misses >= Attempts - st.reg.attempts
        <5>1. CASE age = Never
          BY <1>1, <2>4, <5>1 DEF Asked
        <5>2. CASE age # Never
          BY <1>1, <3>2, <4>1, <5>2 DEF Asked, Counted
        <5>3. QED
          BY <5>1, <5>2
      <4>3. misses \in 0..(Attempts + 1)
        BY <2>4
      <4> HIDE DEF misses
      <4>4. QED
        BY <1>1, <2>6, <2>7, <4>1, <4>2, <4>3
    <3>3. QED
      BY <3>1, <3>2
  <2>9. Counted(reg, missed)'
    BY <2>7, <2>8 DEF Counted
  <2>10. main' # main /\ main \in ToSet(ring') => missed[main] >= Attempts
    <3> SUFFICES ASSUME main' # main, main \in ToSet(ring') PROVE missed[main] >= Attempts
      OBVIOUS
    <3>1. st.main = main /\ st.reg.attempts = 0 /\ ~st.reg.answered /\ main = st.reg.sn
      BY <1>1, <2>2, <2>5
    <3>2. age # Never /\ st.missed = missed
      BY <1>1, <3>1 DEF Asked
    <3>3. missed[main] >= Attempts - 0
      BY <3>1, <3>2 DEF Counted
    <3>4. QED
      BY <1>1, <3>3
  <2>11. QED
    BY <2>9, <2>10
<1>3. CASE ~(st.ready /\ Due(st.reg))
  <2>1. main' = st.main /\ reg' = st.reg /\ missed' = st.missed /\ UNCHANGED <<idx, age>>
    BY <1>3 DEF EndLoop
  <2>2. QED
    BY <1>1, <2>1 DEF Counted
<1>4. QED
  BY <1>2, <1>3

\* What is under way after an iteration that took m.
LEMMA EndLoopNet ==
    ASSUME Timely, NEW st, NEW taken, EndLoop(st, taken)
    PROVE  \A d \in net' : d \in net \ taken \/ d.type = "REGISTER_SUPER"
<1>1. CASE st.ready /\ Due(st.reg)
  <2>1. \E to, c : Transmit(taken, {Datagram("REGISTER_SUPER", to, c)})
    <3>1. Register(st, taken)
      BY <1>1 DEF EndLoop
    <3>2. QED
      BY <3>1 DEF Register
  <2>2. PICK to, c : Transmit(taken, {Datagram("REGISTER_SUPER", to, c)})
    BY <2>1
  <2> DEFINE request == Datagram("REGISTER_SUPER", to, c)
  <2>3. request.type = "REGISTER_SUPER"
    BY DEF Datagram
  <2> HIDE DEF request
  <2>4. net' \subseteq (net \ taken) \cup {request}
    BY <2>2 DEF Transmit, request
  <2>5. QED
    BY <2>3, <2>4
<1>2. CASE ~(st.ready /\ Due(st.reg))
  BY <1>2 DEF EndLoop, Transmit
<1>3. QED
  BY <1>1, <1>2

\* The first supernode of a ring stays.
LEMMA EndLoopAdv ==
    ASSUME Timely, TypeOK, EdgeInv, AdvInv, NEW st, Handled(st),
           NEW taken, EndLoop(st, taken), Len(ring) # 0 \/ ~st.ready
    PROVE  AdvInv'
<1>1. ring' = st.ring /\ \A d \in net' : d \in net \/ d.type = "REGISTER_SUPER"
  BY EndLoopNet DEF EndLoop
<1>2. Len(ring) \in Nat /\ Len(st.ring) \in Nat /\ Len(ring) <= Len(st.ring)
      /\ \A i \in 1..Len(ring) : st.ring[i] = ring[i]
  BY LenProperties DEF TypeOK, Handled, EdgeStates
<1>3. Len(ring') = 1 => Len(ring) = 1 /\ ring'[1] = ring[1]
  <2>1. CASE st.ready
    <3> SUFFICES ASSUME Len(ring') = 1 PROVE Len(ring) = 1 /\ ring'[1] = ring[1]
      OBVIOUS
    <3>1. Len(st.ring) = 1
      BY <1>1
    <3>2. Len(ring) # 0
      BY <2>1
    <3>3. Len(ring) = 1
      <4> DEFINE n == Len(ring)
                 k == Len(st.ring)
      <4>1. n \in Nat /\ k \in Nat /\ n <= k /\ k = 1 /\ n # 0
        BY <1>2, <3>1, <3>2
      <4> HIDE DEF n, k
      <4>2. n = 1
        BY <4>1
      <4>3. QED
        BY <4>2 DEF n
    <3>4. QED
      BY <1>1, <1>2, <3>3
  <2>2. CASE ~st.ready
    <3>1. st.ring = ring
      BY <2>2, FoundHandled DEF Handled
    <3>2. QED
      BY <1>1, <3>1
  <2>3. QED
    BY <2>1, <2>2
<1>4. QED
  BY <1>1, <1>3 DEF AdvInv

\* A handler keeps the count, and the main supernode but in a ring of one.
LEMMA LoopMissed ==
    ASSUME Timely, TypeOK, EdgeInv, MissedInv, NEW m \in net
    PROVE  /\ m.type = "ADV" =>
                /\ Counted(AfterAdv(m).reg, AfterAdv(m).missed)
                /\ AfterAdv(m).main = main \/ ToSet(AfterAdv(m).ring) = {AfterAdv(m).main}
                /\ AfterAdv(m).missed = missed
           /\ Accepts(m) =>
                /\ Counted(Answered(m).reg, Answered(m).missed)
                /\ Answered(m).main = main /\ Answered(m).reg.answered
<1>1. ASSUME m.type = "ADV"
      PROVE  /\ Counted(AfterAdv(m).reg, AfterAdv(m).missed)
             /\ AfterAdv(m).main = main \/ ToSet(AfterAdv(m).ring) = {AfterAdv(m).main}
             /\ AfterAdv(m).missed = missed
  <2>1. AfterAdv(m).missed = missed /\ Handled(AfterAdv(m))
    BY AdvHandled
  <2>2. CASE AfterAdv(m).reg = reg /\ AfterAdv(m).main = main
    BY <2>1, <2>2 DEF MissedInv
  <2>3. CASE ~(AfterAdv(m).reg = reg /\ AfterAdv(m).main = main)
    <3>1. /\ Len(AfterAdv(m).ring) = 1
          /\ Len(ring) = 1 => m.sn = ring[1]
          /\ AfterAdv(m).main = AfterAdv(m).ring[1]
          /\ AfterAdv(m).reg = [reg EXCEPT !.sn = AfterAdv(m).ring[1], !.answered = (age = Never)]
      BY <2>3, AdvHandled
    <3>2. Len(ring) # 1
      BY <1>1, <3>1 DEF MissedInv, AdvInv
    <3>3. Len(ring) \in Nat /\ Len(ring) <= 1
      BY <2>1, <3>1, LenProperties DEF TypeOK, Handled
    <3>4. age = Never
      <4>1. idx \in Nat /\ 1 <= idx
        BY RingAssumption DEF TypeOK
      <4>2. ~ready
        BY <3>2, <3>3, <4>1 DEF EdgeInv
      <4>3. QED
        BY <4>2 DEF EdgeInv, Undecided
    <3>5. ToSet(AfterAdv(m).ring) = {AfterAdv(m).ring[1]}
      <4>1. AfterAdv(m).ring \in Seq(Sns)
        BY <2>1 DEF Handled, EdgeStates
      <4>2. DOMAIN AfterAdv(m).ring = 1..1
        BY <3>1, <4>1, LenProperties
      <4>3. QED
        BY <4>2 DEF ToSet
    <3>6. QED
      BY <2>1, <3>1, <3>4, <3>5 DEF Counted
  <2>4. QED
    BY <2>2, <2>3
<1>2. ASSUME Accepts(m)
      PROVE  /\ Counted(Answered(m).reg, Answered(m).missed)
             /\ Answered(m).main = main /\ Answered(m).reg.answered
  <2>1. /\ Answered(m).reg = [reg EXCEPT !.wait = FALSE, !.answered = TRUE, !.attempts = 0,
                                         !.lifetime = Clamp(Granted)]
        /\ Answered(m).main = main
    BY <1>2, AnsweredHandled DEF Accepts
  <2>2. Answered(m).reg.answered /\ Answered(m).reg.attempts = 0
    BY <2>1 DEF TypeOK, Registration
  <2>3. QED
    BY <2>1, <2>2 DEF Counted
<1>3. QED
  BY <1>1, <1>2

Kept == main' # main /\ main \in ToSet(ring') => missed[main] >= Attempts

\* MissedInv is inductive, with EdgeInv; no step takes the main supernode away
\* from an edge before its time.
LEMMA StepMissed ==
    ASSUME Timely, TypeOK, EdgeInv, MissedInv, [Next]_vars
    PROVE  MissedInv' /\ (flips' = flips => Kept)
<1>1. /\ Handled(Found) /\ Counted(Found.reg, Found.missed)
      /\ Found.main = main /\ Found.missed = missed /\ Found.ring = ring /\ Found.ready = ready
      /\ Len(ring) \in Nat
  BY FoundHandled DEF MissedInv
<1>2. Len(ring) # 0 \/ ~ready
  <2>1. idx \in Nat /\ 1 <= idx
    BY RingAssumption DEF TypeOK
  <2>2. QED
    BY <1>1, <2>1 DEF EdgeInv
<1>3. ASSUME NEW taken, EndLoop(Found, taken) PROVE MissedInv' /\ Kept
  BY <1>1, <1>2, <1>3, EndLoopMissed, EndLoopAdv DEF MissedInv, Kept
<1>4. ASSUME NEW m \in net, RecvSuperAck(m) PROVE MissedInv' /\ Kept
  <2>1. CASE Accepts(m)
    <3>1. Handled(Answered(m)) /\ EndLoop(Answered(m), {m}) /\ ready
      BY <1>4, <2>1, AnsweredHandled DEF Accepts, RecvSuperAck
    <3>2. QED
      BY <1>2, <2>1, <3>1, LoopMissed, EndLoopMissed, EndLoopAdv DEF MissedInv, Kept
  <2>2. CASE ~Accepts(m)
    BY <1>3, <1>4, <2>2 DEF RecvSuperAck
  <2>3. QED
    BY <2>1, <2>2
<1>5. ASSUME NEW m \in net, RecvAdv(m) PROVE MissedInv' /\ Kept
  <2> DEFINE st == AfterAdv(m)
  <2>1. Handled(st) /\ EndLoop(st, {m}) /\ m.type = "ADV"
    BY <1>5, LoopHandled DEF RecvAdv
  <2>2. Counted(reg, missed)' /\ Kept
    BY <2>1, LoopMissed, EndLoopMissed DEF Kept
  <2>3. AdvInv'
    <3>1. CASE Len(ring) # 0
      BY <2>1, <3>1, EndLoopAdv DEF MissedInv
    <3>2. CASE Len(ring) = 0
      <4>1. ring' = <<m.sn>>
        BY <2>1, <3>2, AdvHandled DEF EndLoop
      <4>2. \A d \in net' : d \in net \ {m} \/ d.type = "REGISTER_SUPER"
        BY <2>1, EndLoopNet
      <4>3. \A d \in net : d.type = "ADV" => d.cookie = 0 /\ \A e \in net : e.type # "RSP"
        BY DEF MissedInv, AdvInv
      <4>4. \A d \in net : d.type = "ADV" /\ d.sn = m.sn => d = m
        <5>1. \A d \in net : d = [type |-> d.type, sn |-> d.sn, cookie |-> d.cookie]
          BY DEF TypeOK, Datagrams
        <5>2. QED
          BY <2>1, <4>3, <5>1
      <4>5. \A d \in net' : d.type = "ADV" => d.sn # ring'[1]
        BY <4>1, <4>2, <4>4
      <4>6. QED
        BY <4>2, <4>3, <4>5 DEF AdvInv
    <3>3. QED
      BY <3>1, <3>2
  <2>4. QED
    BY <2>2, <2>3 DEF MissedInv
<1>6. ASSUME NEW m \in net, RecvRsp(m) PROVE MissedInv' /\ Kept
  <2> DEFINE st == AfterRsp(m)
  <2>1. /\ Handled(st) /\ EndLoop(st, {m}) /\ m.type = "RSP"
        /\ st.reg = reg /\ st.main = main /\ st.missed = missed
    BY <1>6, LoopHandled, RspHandled DEF RecvRsp
  <2>2. Counted(reg, missed)' /\ Kept
    <3>1. Counted(st.reg, st.missed)
      BY <2>1 DEF MissedInv
    <3> HIDE DEF st
    <3>2. QED
      BY <2>1, <3>1, EndLoopMissed DEF Kept
  <2>3. AdvInv'
    <3>1. \A d \in net : d.type # "ADV"
      BY <2>1 DEF MissedInv, AdvInv
    <3>2. \A d \in net' : d \in net \/ d.type = "REGISTER_SUPER"
      BY <2>1, EndLoopNet
    <3>3. QED
      BY <3>1, <3>2 DEF AdvInv
  <2>4. QED
    BY <2>2, <2>3 DEF MissedInv
<1>7. ASSUME Restart PROVE MissedInv' /\ flips' # flips
  <2>1. /\ ready /\ ring' = list /\ age' = Never /\ net' = net /\ flips' = flips + 1
    BY <1>7 DEF Restart
  <2>2. Len(list) = 1 => Len(ring) = 1 /\ list[1] = ring[1]
    <3> SUFFICES ASSUME Len(list) = 1 PROVE Len(ring) = 1 /\ list[1] = ring[1]
      OBVIOUS
    <3>1. Len(ring) = 1 /\ DOMAIN list = 1..1 /\ DOMAIN ring = 1..1 /\ ToSet(ring) = ToSet(list)
      BY LenProperties DEF TypeOK, EdgeInv, Same
    <3>2. QED
      BY <3>1 DEF ToSet
  <2>3. flips' # flips
    BY <2>1 DEF TypeOK
  <2>4. QED
    BY <2>1, <2>2, <2>3 DEF MissedInv, AdvInv, Counted
<1>8. ASSUME \/ \E m \in net : RecvRegisterSuper(m) \/ Unheard(m)
             \/ \E s \in Sns : Purge(s) \/ Crash(s) \/ ComeBack(s)
             \/ Tick
      PROVE  MissedInv' /\ Kept
  <2>1. UNCHANGED <<ring, main, reg, missed>>
    BY <1>8 DEF RecvRegisterSuper, Unheard, Purge, Crash, ComeBack, Tick, edge
  <2>2. age' # Never => age # Never
    <3>1. CASE Tick
      BY <3>1 DEF Tick
    <3>2. CASE ~Tick
      BY <1>8, <3>2 DEF RecvRegisterSuper, Unheard, Purge, Crash, ComeBack, edge
    <3>3. QED
      BY <3>1, <3>2
  <2>3. \A d \in net' : d \in net \/ d.type = "REGISTER_SUPER_ACK"
    <3>1. ASSUME NEW m \in net, RecvRegisterSuper(m)
          PROVE  \A d \in net' : d \in net \/ d.type = "REGISTER_SUPER_ACK"
      <4> DEFINE ack == Datagram("REGISTER_SUPER_ACK", m.sn, m.cookie)
      <4>1. ack.type = "REGISTER_SUPER_ACK"
        BY DEF Datagram
      <4> HIDE DEF ack
      <4>2. net' \subseteq net \cup {ack}
        BY <3>1, TransmitNet DEF RecvRegisterSuper, ack
      <4>3. QED
        BY <4>1, <4>2
    <3>2. CASE ~(\E m \in net : RecvRegisterSuper(m))
      BY <1>8, <3>2 DEF Unheard, Purge, Crash, ComeBack, Tick
    <3>3. QED
      BY <3>1, <3>2
  <2>4. QED
    BY <2>1, <2>2, <2>3 DEF MissedInv, AdvInv, Counted, Kept
<1>9. CASE UNCHANGED vars
  BY <1>9 DEF vars, MissedInv, AdvInv, Counted, Kept
<1>10. QED
  BY <1>3, <1>4, <1>5, <1>6, <1>7, <1>8, <1>9 DEF Next, Idle

\* MainKeptWhileAnswering (update_supernode_reg): if datagrams are timely, an edge
\* that runs on goes to another main supernode of its ring only after as many
\* requests without an answer as it has attempts.
THEOREM MainIsKept ==
    ASSUME Timely
    PROVE  Spec => MainKeptWhileAnswering
<1>1. Init => MissedInv
  <2> SUFFICES ASSUME Init PROVE MissedInv
    OBVIOUS
  <2>1. Counted(reg, missed)
    BY DEF Init, Counted
  <2>2. AdvInv
    <3>1. CASE list = <<>>
      <4>1. Len(ring) = 0
        BY <3>1 DEF Init
      <4>2. PICK t \in Answers : net = {Datagram(t, s, 0) : s \in Advertisers}
        BY <3>1 DEF Init
      <4>3. \A d \in net : d.type = t /\ d.cookie = 0
        BY <4>2 DEF Datagram
      <4>4. QED
        BY <4>1, <4>3 DEF AdvInv
    <3>2. CASE list # <<>>
      BY <3>2 DEF Init, AdvInv
    <3>3. QED
      BY <3>1, <3>2
  <2>3. QED
    BY <2>1, <2>2 DEF MissedInv
<1>2. TypeOK /\ EdgeInv /\ MissedInv /\ [Next]_vars => MissedInv'
  BY StepMissed
<1>3. TypeOK /\ EdgeInv /\ MissedInv /\ [Next]_vars =>
        [main' # main /\ main \in ToSet(ring') /\ flips' = flips => missed[main] >= Attempts]_vars
  BY StepMissed DEF Kept
<1>4. QED
  BY <1>1, <1>2, <1>3, EdgeInductive, PTL DEF Spec, MainKeptWhileAnswering

---------------------------------------------------------------------------
(* A supernode of the ring hears from the edge before it forgets it.       *)

\* The longest lifetime in use, the longest time to a repeated request, the
\* longest stay with one supernode, and a round of a full ring.
LongLifetime == IF DflLifetime > Clamp(Granted) THEN DflLifetime ELSE Clamp(Granted)
Retry == LongLifetime \div 10 + 1
Visit == Attempts * Retry + LongLifetime
Round == RingMax * Visit

\* How long the edge stays with the supernode it asked t ago, in registration g.
Left(t, g) == IF t = Never THEN Visit ELSE g.attempts * Retry + LongLifetime - t

\* How many places p comes after i in a ring that may still be filled, and how long
\* the edge stays with the supernodes between them.
Ahead(i, p) == IF p > i THEN p - i ELSE RingMax - i + p
Between(i, p) == (Ahead(i, p) - 1) * Visit

UnderWay(s, d) == \E m \in d : m.type = "REGISTER_SUPER" /\ m.sn = s

\* A round for every time the edge started.
Limit(k) == (k + 1) * Round

\* A supernode at place p, silent for e while the edge asked the one at place i t ago:
\* the silence and the time until p will be asked make no more than the limit.
InTime(k, p, i, t, g, e) ==
    IF p = i THEN e <= Limit(k) ELSE e + Between(i, p) + Left(t, g) <= Limit(k)

\* This holds for supernodes that know the edge, and the one asked last either
\* has the request before it or heard the edge then.
InTurn(k, p, s) ==
    up[s] /\ entry[s] >= 0 =>
        /\ InTime(k, p, idx, age, reg, entry[s])
        /\ p = idx => age = Never \/ UnderWay(s, net) \/ entry[s] <= age

AllInTurn(k) == \A p \in 1..Len(ring) : InTurn(k, p, ring[p])

\* The loop does not miss the time of a request, time does not pass while
\* datagrams are under way, and only supernodes of the ring are asked.
Paced ==
    /\ reg.wait => /\ age <= reg.lifetime \div 10 + 1
                   /\ looped => age <= reg.lifetime \div 10
    /\ age # Never /\ ~reg.wait => reg.attempts = 0
    /\ ready /\ looped => age # Never
    /\ age # Never /\ age # 0 => net = {}

InRing(s, rg) == \E p \in 1..Len(rg) : rg[p] = s

OnlyRing ==
    /\ \A s \in Sns : entry[s] >= 0 => up[s] /\ InRing(s, ring)
    /\ \A m \in net : m.type = "REGISTER_SUPER" => InRing(m.sn, ring)

\* Products of times.
LEMMA Products ==
    ASSUME NEW v \in Nat, NEW a \in Nat
    PROVE  /\ a * v \in Nat /\ (a + 1) * v = a * v + v
           /\ \A b \in Nat : a <= b => a * v <= b * v
<1>1. a * v \in Nat /\ (a + 1) * v = a * v + v
  OBVIOUS
<1>2. ASSUME NEW b \in Nat, a <= b PROVE a * v <= b * v
  <2>1. (b - a) \in Nat
    BY <1>2
  <2>2. (b - a) * v \in Nat
    BY <2>1
  <2>3. b * v = a * v + (b - a) * v
    OBVIOUS
  <2>4. QED
    BY <1>1, <2>2, <2>3
<1>3. QED
  BY <1>1, <1>2

\* The times.
LEMMA Times ==
    /\ LongLifetime \in Nat \ {0} /\ Retry \in Nat \ {0} /\ Visit \in Nat /\ Round \in Nat
    /\ Attempts * Retry \in Nat /\ Visit = Attempts * Retry + LongLifetime
    /\ LongLifetime <= Visit /\ Visit <= Round
    /\ \A l \in Lifetimes : l \in Nat /\ l <= LongLifetime /\ l \div 10 + 1 <= Retry
<1>1. LongLifetime \in Nat \ {0} /\ \A l \in Lifetimes : l \in Nat /\ l <= LongLifetime
  BY ClampType, LifetimeAssumption DEF LongLifetime, Lifetimes
<1>2. Retry \in Nat \ {0}
  BY <1>1 DEF Retry
<1>3. Attempts * Retry \in Nat
  BY <1>2, RingAssumption, Products
<1>4. Visit \in Nat /\ LongLifetime <= Visit /\ Visit = Attempts * Retry + LongLifetime
  BY <1>1, <1>3 DEF Visit
<1>5. Round \in Nat /\ Visit <= Round
  <2>1. RingMax \in Nat /\ 1 <= RingMax /\ 1 \in Nat
    BY RingAssumption
  <2>2. 1 * Visit <= RingMax * Visit /\ RingMax * Visit \in Nat /\ 1 * Visit = Visit
    BY <1>4, <2>1, Products
  <2>3. QED
    BY <2>2 DEF Round
<1>6. \A l \in Lifetimes : l \div 10 + 1 <= Retry
  BY <1>1 DEF Retry
<1>7. QED
  BY <1>1, <1>2, <1>3, <1>4, <1>5, <1>6

\* What the limits are to each other.
LEMMA Limits ==
    ASSUME NEW k \in Nat
    PROVE  /\ Limit(k) \in Nat /\ Round <= Limit(k)
           /\ \A n \in Nat : k <= n => Limit(k) <= Limit(n)
           /\ \A n \in Nat : k + 1 <= n => Limit(k) + Round <= Limit(n)
<1>1. Round \in Nat
  BY Times
<1>2. (k + 1) * Round = k * Round + Round /\ k * Round \in Nat
  BY <1>1, Products
<1>3. \A n \in Nat : k <= n => (k + 1) * Round <= (n + 1) * Round
  <2> SUFFICES ASSUME NEW n \in Nat, k <= n PROVE (k + 1) * Round <= (n + 1) * Round
    OBVIOUS
  <2>1. k + 1 \in Nat /\ n + 1 \in Nat /\ k + 1 <= n + 1
    OBVIOUS
  <2>2. QED
    BY <1>1, <2>1, Products
<1>4. \A n \in Nat : k + 1 <= n => (k + 1) * Round + Round <= (n + 1) * Round
  <2> SUFFICES ASSUME NEW n \in Nat, k + 1 <= n PROVE (k + 1) * Round + Round <= (n + 1) * Round
    OBVIOUS
  <2>1. k + 1 \in Nat /\ k + 1 + 1 \in Nat /\ n + 1 \in Nat /\ k + 1 + 1 <= n + 1
    OBVIOUS
  <2>2. (k + 1 + 1) * Round = (k + 1) * Round + Round
    BY <1>1, <2>1, Products
  <2>3. (k + 1 + 1) * Round <= (n + 1) * Round
    BY <1>1, <2>1, Products
  <2>4. QED
    BY <2>2, <2>3
<1>5. (k + 1) * Round \in Nat /\ Round <= (k + 1) * Round
  BY <1>1, <1>2
<1>6. QED
  BY <1>3, <1>4, <1>5 DEF Limit

\* The longest wait is a round without the visit itself, and each step in the ring
\* makes it a visit shorter.
LEMMA BetweenBounds ==
    ASSUME NEW i \in 1..RingMax, NEW p \in 1..RingMax, p # i
    PROVE  /\ Between(i, p) \in Nat
           /\ Between(i, p) + Visit + Visit <= Round
           /\ \A j \in 1..RingMax : p # j /\ Ahead(j, p) <= Ahead(i, p) - 1 =>
                 Between(j, p) + Visit <= Between(i, p)
<1> DEFINE a == Ahead(i, p)
<1>1. a - 1 \in Nat /\ a \in Nat /\ a - 1 + 1 = a /\ a + 1 <= RingMax /\ a + 1 \in Nat
      /\ RingMax \in Nat
  BY RingAssumption DEF Ahead
<1>2. Visit \in Nat
  BY Times
<1> HIDE DEF a
<1>3. (a - 1) * Visit \in Nat /\ (a - 1 + 1) * Visit = (a - 1) * Visit + Visit
  BY <1>1, <1>2, Products
<1>4. (a + 1) * Visit = a * Visit + Visit /\ (a + 1) * Visit <= RingMax * Visit
  BY <1>1, <1>2, Products
<1>5. Between(i, p) = (a - 1) * Visit
  BY DEF Between, a
<1>6. Between(i, p) \in Nat /\ Between(i, p) + Visit + Visit <= Round
  BY <1>1, <1>2, <1>3, <1>4, <1>5 DEF Round
<1>7. ASSUME NEW j \in 1..RingMax, p # j, Ahead(j, p) <= a - 1
      PROVE  Between(j, p) + Visit <= Between(i, p)
  <2> DEFINE b == Ahead(j, p)
  <2>1. b \in Nat /\ b - 1 \in Nat /\ b - 1 + 1 = b /\ b <= a - 1
    BY <1>7, RingAssumption DEF Ahead
  <2>2. Between(j, p) = (b - 1) * Visit
    BY DEF Between
  <2> HIDE DEF b
  <2>3. (b - 1 + 1) * Visit = (b - 1) * Visit + Visit
    BY <1>2, <2>1, Products
  <2>4. b * Visit <= (a - 1) * Visit
    BY <1>1, <1>2, <2>1, Products
  <2>5. QED
    BY <1>5, <2>1, <2>2, <2>3, <2>4
<1>8. QED
  BY <1>6, <1>7 DEF a

\* One more step to go.
LEMMA StepInRing ==
    ASSUME NEW i \in 1..RingMax, NEW p \in 1..RingMax, p # i, NEW n \in 1..RingMax, p <= n,
           NEW j, j = (IF i + 1 > n THEN 1 ELSE i + 1), p # j
    PROVE  j \in 1..RingMax /\ Ahead(j, p) <= Ahead(i, p) - 1
BY RingAssumption DEF Ahead

\* No registration is older than the longest lifetime, or stays longer than a visit.
LEMMA LeftBounds ==
    ASSUME NEW t \in Nat, NEW g \in Registration, g.lifetime \in Lifetimes,
           t # Never => t <= g.lifetime
    PROVE  /\ t # Never => t <= LongLifetime
           /\ Left(t, g) \in Nat /\ Left(t, g) <= Visit
<1>1. /\ g.lifetime \in Nat /\ g.lifetime <= LongLifetime /\ LongLifetime \in Nat
      /\ Retry \in Nat /\ Visit \in Nat
  BY Times DEF Registration
<1>2. t # Never => t <= LongLifetime
  BY <1>1
<1> DEFINE a == g.attempts
<1>3. a \in Nat /\ a <= Attempts /\ Attempts \in Nat
  BY RingAssumption DEF Registration
<1> HIDE DEF a
<1>4. a * Retry \in Nat /\ Attempts * Retry \in Nat /\ a * Retry <= Attempts * Retry
  BY <1>1, <1>3, Products
<1>5. Left(t, g) \in Nat /\ Left(t, g) <= Visit
  <2>1. CASE t = Never
    BY <1>1, <2>1 DEF Left
  <2>2. CASE t # Never
    <3>1. Left(t, g) = a * Retry + LongLifetime - t
      BY <2>2 DEF Left, a
    <3>2. Visit = Attempts * Retry + LongLifetime
      BY DEF Visit
    <3>3. QED
      BY <1>1, <1>2, <1>4, <2>2, <3>1, <3>2
  <2>3. QED
    BY <2>1, <2>2
<1>6. QED
  BY <1>2, <1>5

\* Fewer attempts take no more time, a new visit takes a whole one, a repeated
\* request has its time from the attempt it takes, and time passes.
LEMMA LeftSteps ==
    ASSUME NEW t \in Nat, NEW g \in Registration, NEW h \in Registration, 0 # Never
    PROVE  /\ h.attempts <= g.attempts => Left(t, h) <= Left(t, g)
           /\ h.attempts = Attempts => Left(0, h) = Visit
           /\ h.attempts + 1 <= g.attempts /\ (t = Never \/ t <= Retry) => Left(0, h) <= Left(t, g)
           /\ t # Never /\ t + 1 # Never => Left(t + 1, g) = Left(t, g) - 1
<1> DEFINE a == g.attempts
           b == h.attempts
<1>1. /\ a \in Nat /\ b \in Nat /\ Attempts \in Nat /\ a <= Attempts /\ b <= Attempts
      /\ b + 1 \in Nat
  BY RingAssumption DEF Registration
<1>2. Retry \in Nat /\ LongLifetime \in Nat /\ Visit = Attempts * Retry + LongLifetime
  BY Times
<1>3. /\ Left(t, g) = IF t = Never THEN Visit ELSE a * Retry + LongLifetime - t
      /\ Left(t, h) = IF t = Never THEN Visit ELSE b * Retry + LongLifetime - t
      /\ Left(0, h) = b * Retry + LongLifetime
      /\ t + 1 # Never => Left(t + 1, g) = a * Retry + LongLifetime - (t + 1)
  <2>1. Left(0, h) = b * Retry + LongLifetime - 0
    BY DEF Left
  <2>2. b * Retry \in Nat
    BY <1>1, <1>2, Products
  <2>3. QED
    BY <1>2, <2>1, <2>2 DEF Left
<1> HIDE DEF a, b
<1>4. /\ a * Retry \in Nat /\ b * Retry \in Nat /\ Attempts * Retry \in Nat
      /\ (b + 1) * Retry = b * Retry + Retry
      /\ b <= a => b * Retry <= a * Retry
      /\ b + 1 <= a => (b + 1) * Retry <= a * Retry
      /\ b * Retry <= Attempts * Retry
  BY <1>1, <1>2, Products
<1>5. b <= a => Left(t, h) <= Left(t, g)
  BY <1>2, <1>3, <1>4
<1>6. b = Attempts => Left(0, h) = Visit
  BY <1>2, <1>3
<1>7. b + 1 <= a /\ (t = Never \/ t <= Retry) => Left(0, h) <= Left(t, g)
  BY <1>2, <1>3, <1>4
<1>8. t # Never /\ t + 1 # Never => Left(t + 1, g) = Left(t, g) - 1
  BY <1>2, <1>3, <1>4
<1>9. QED
  BY <1>5, <1>6, <1>7, <1>8 DEF a, b

\* A place in the ring, a time since a request and a registration as they occur.
Sound(i, t, g) ==
    /\ i \in 1..RingMax /\ t \in Nat /\ g \in Registration /\ g.lifetime \in Lifetimes
    /\ t # Never => t <= g.lifetime

\* The state the edge is in.
LEMMA StateBounds == TypeOK /\ EdgeInv => Sound(idx, age, reg)
BY LifetimeAssumption DEF TypeOK, EdgeInv, AgeInv, Never, Sound

\* The bounds in use below, for a state the edge is in.
LEMMA SoundBounds ==
    ASSUME NEW i, NEW t, NEW g, Sound(i, t, g), NEW k \in Nat
    PROVE  /\ Left(t, g) \in Nat /\ Left(t, g) <= Visit /\ (t # Never => t <= LongLifetime)
           /\ Visit \in Nat /\ Round \in Nat /\ LongLifetime \in Nat /\ LongLifetime <= Visit
           /\ Visit <= Round /\ Limit(k) \in Nat /\ Round <= Limit(k)
           /\ 0 # Never
<1>1. 0 # Never
  BY LifetimeAssumption DEF Never
<1>2. QED
  BY <1>1, LeftBounds, Times, Limits DEF Sound

\* A supernode in time has not been silent beyond the limit.
LEMMA SilenceBounded ==
    ASSUME NEW k \in Nat, NEW p \in 1..RingMax, NEW i, NEW t, NEW g, Sound(i, t, g),
           NEW e \in Nat, InTime(k, p, i, t, g, e)
    PROVE  e <= Limit(k)
<1>1. CASE p = i
  BY <1>1 DEF InTime
<1>2. CASE p # i
  <2>1. e + Between(i, p) + Left(t, g) <= Limit(k)
    BY <1>2 DEF InTime
  <2>2. Between(i, p) \in Nat
    BY <1>2, BetweenBounds DEF Sound
  <2>3. QED
    BY <2>1, <2>2, SoundBounds
<1>3. QED
  BY <1>1, <1>2

\* A supernode that has just heard from the edge is in time.
LEMMA FreshInTime ==
    ASSUME NEW k \in Nat, NEW p \in 1..RingMax, NEW i, NEW t, NEW g, Sound(i, t, g)
    PROVE  InTime(k, p, i, t, g, 0)
<1>1. CASE p = i
  BY <1>1, SoundBounds DEF InTime
<1>2. CASE p # i
  <2>1. Between(i, p) \in Nat /\ Between(i, p) + Visit + Visit <= Round
    BY <1>2, BetweenBounds DEF Sound
  <2>2. 0 + Between(i, p) + Left(t, g) <= Limit(k)
    BY <2>1, SoundBounds
  <2>3. QED
    BY <1>2, <2>2 DEF InTime
<1>3. QED
  BY <1>1, <1>2

\* With fewer attempts left, and after a repeated request that takes one, all stay
\* in time.
LEMMA FewerInTime ==
    ASSUME NEW k \in Nat, NEW p \in 1..RingMax, NEW i, NEW t, NEW g, Sound(i, t, g),
           NEW e \in Nat, InTime(k, p, i, t, g, e), NEW u, NEW h, Sound(i, u, h),
           \/ u = t /\ h.attempts <= g.attempts
           \/ u = 0 /\ h.attempts + 1 <= g.attempts /\ (t = Never \/ t <= Retry)
    PROVE  InTime(k, p, i, u, h, e)
<1>1. CASE p = i
  BY <1>1 DEF InTime
<1>2. CASE p # i
  <2>1. e + Between(i, p) + Left(t, g) <= Limit(k)
    BY <1>2 DEF InTime
  <2>2. Between(i, p) \in Nat
    BY <1>2, BetweenBounds DEF Sound
  <2>3. Left(u, h) <= Left(t, g)
    BY LeftSteps, SoundBounds DEF Sound
  <2>4. Left(u, h) \in Nat /\ Left(t, g) \in Nat /\ Limit(k) \in Nat
    BY SoundBounds
  <2>5. e + Between(i, p) + Left(u, h) <= Limit(k)
    BY <2>1, <2>2, <2>3, <2>4
  <2>6. QED
    BY <1>2, <2>5 DEF InTime
<1>3. QED
  BY <1>1, <1>2

\* When the edge goes on to the next place, the one it leaves has heard from it
\* within a lifetime, and the others are a step nearer.
LEMMA NextInTime ==
    ASSUME NEW k \in Nat, NEW p \in 1..RingMax, NEW i, NEW t, NEW g, Sound(i, t, g),
           NEW e \in Nat, InTime(k, p, i, t, g, e), p = i => e <= LongLifetime,
           NEW n \in 1..RingMax, p <= n,
           NEW j, j = (IF i + 1 > n THEN 1 ELSE i + 1),
           NEW h, Sound(j, 0, h), h.attempts = Attempts
    PROVE  InTime(k, p, j, 0, h, e)
<1>1. CASE p = j
  BY <1>1, SilenceBounded DEF InTime
<1>2. CASE p # j
  <2>1. Left(0, h) = Visit
    BY LeftSteps, SoundBounds DEF Sound
  <2>2. /\ Between(j, p) \in Nat /\ Between(j, p) + Visit + Visit <= Round
    BY <1>2, BetweenBounds DEF Sound
  <2>3. CASE p = i
    <3>1. e + Between(j, p) + Left(0, h) <= Limit(k)
      BY <2>1, <2>2, <2>3, SoundBounds
    <3>2. QED
      BY <1>2, <3>1 DEF InTime
  <2>4. CASE p # i
    <3>1. e + Between(i, p) + Left(t, g) <= Limit(k)
      BY <2>4 DEF InTime
    <3>2. Between(i, p) \in Nat /\ Between(j, p) + Visit <= Between(i, p)
      BY <1>2, <2>4, StepInRing, BetweenBounds DEF Sound
    <3>3. e + Between(j, p) + Left(0, h) <= Limit(k)
      BY <2>1, <2>2, <3>1, <3>2, SoundBounds
    <3>4. QED
      BY <1>2, <3>3 DEF InTime
  <2>5. QED
    BY <2>3, <2>4
<1>3. QED
  BY <1>1, <1>2

\* Time passes for the silence and for the stay alike.
LEMMA TickInTime ==
    ASSUME NEW k \in Nat, NEW p \in 1..RingMax, NEW i, NEW t, NEW g, Sound(i, t, g),
           NEW e \in Nat, InTime(k, p, i, t, g, e),
           t # Never, t + 1 # Never, Sound(i, t + 1, g),
           NEW d \in Nat, d <= e + 1, p = i => d <= t + 1
    PROVE  InTime(k, p, i, t + 1, g, d)
<1>1. CASE p = i
  <2>1. d <= t + 1 /\ t + 1 <= LongLifetime /\ t + 1 \in Nat
    BY <1>1, SoundBounds DEF Sound
  <2>2. d <= Limit(k)
    BY <2>1, SoundBounds
  <2>3. QED
    BY <1>1, <2>2 DEF InTime
<1>2. CASE p # i
  <2>1. e + Between(i, p) + Left(t, g) <= Limit(k)
    BY <1>2 DEF InTime
  <2>2. Between(i, p) \in Nat
    BY <1>2, BetweenBounds DEF Sound
  <2>3. Left(t + 1, g) = Left(t, g) - 1
    BY LeftSteps, SoundBounds DEF Sound
  <2>4. d + Between(i, p) + Left(t + 1, g) <= Limit(k)
    BY <2>1, <2>2, <2>3, SoundBounds
  <2>5. QED
    BY <1>2, <2>4 DEF InTime
<1>3. QED
  BY <1>1, <1>2

\* An edge that starts anew goes round once more.
LEMMA RestartInTime ==
    ASSUME NEW k \in Nat, NEW p \in 1..RingMax, NEW e \in Nat, e <= Limit(k),
           NEW n \in Nat, k + 1 <= n, NEW g, Sound(1, Never, g)
    PROVE  InTime(n, p, 1, Never, g, e)
<1>1. /\ Limit(k) \in Nat /\ Limit(k) + Round <= Limit(n) /\ Limit(n) \in Nat
      /\ Round \in Nat
  BY Limits, Times
<1>2. CASE p = 1
  BY <1>1, <1>2 DEF InTime
<1>3. CASE p # 1
  <2>1. Between(1, p) \in Nat /\ Between(1, p) + Visit + Visit <= Round
    BY <1>3, BetweenBounds DEF Sound
  <2>2. e + Between(1, p) + Left(Never, g) <= Limit(n)
    BY <1>1, <2>1, SoundBounds
  <2>3. QED
    BY <1>3, <2>2 DEF InTime
<1>4. QED
  BY <1>2, <1>3

\* A later limit is no harder.
LEMMA LaterInTime ==
    ASSUME NEW k \in Nat, NEW p \in 1..RingMax, NEW i, NEW t, NEW g, Sound(i, t, g),
           NEW e \in Nat, InTime(k, p, i, t, g, e), NEW n \in Nat, k <= n
    PROVE  InTime(n, p, i, t, g, e)
<1>1. Limit(k) <= Limit(n) /\ Limit(k) \in Nat /\ Limit(n) \in Nat
  BY Limits
<1>2. CASE p = i
  BY <1>1, <1>2 DEF InTime
<1>3. CASE p # i
  <2>1. e + Between(i, p) + Left(t, g) <= Limit(k)
    BY <1>3 DEF InTime
  <2>2. Between(i, p) \in Nat
    BY <1>3, BetweenBounds DEF Sound
  <2>3. e + Between(i, p) + Left(t, g) <= Limit(n)
    BY <1>1, <2>1, <2>2, SoundBounds
  <2>4. QED
    BY <1>3, <2>3 DEF InTime
<1>4. QED
  BY <1>2, <1>3

\* An entry that is there has an age.
LEMMA EntryAge ==
    ASSUME TypeOK, NEW s \in Sns, entry[s] >= 0
    PROVE  entry[s] \in Nat
BY DEF TypeOK, Absent, Lost

\* What the handlers leave of the registration.
Resumed(st) ==
    /\ Handled(st)
    /\ st.reg.attempts <= reg.attempts
    /\ st.reg.wait => reg.wait /\ st.reg.lifetime = reg.lifetime
    /\ age # Never /\ ~st.reg.wait => st.reg.attempts = 0

\* A request is due only when time has passed, with nothing under way, since the
\* last one, and not much after it could be repeated.
LEMMA DueProperties ==
    ASSUME TypeOK, EdgeInv, Paced, NEW st, Resumed(st), Due(st.reg), age # Never
    PROVE  net = {} /\ (st.reg.wait => age <= Retry)
<1>1. st.reg.lifetime \in Lifetimes /\ st.reg.lifetime \in Nat \ {0} /\ age \in Nat
  BY ClampType, LifetimeAssumption DEF Resumed, Handled, Lifetimes, TypeOK, Never
<1>2. age # 0
  BY <1>1 DEF Due
<1>3. st.reg.wait => age <= Retry
  <2> SUFFICES ASSUME st.reg.wait PROVE age <= Retry
    OBVIOUS
  <2>1. age <= st.reg.lifetime \div 10 + 1
    BY DEF Resumed, Paced
  <2>2. st.reg.lifetime \div 10 + 1 <= Retry /\ Retry \in Nat
    BY <1>1, Times
  <2>3. st.reg.lifetime \div 10 + 1 \in Nat
    BY <1>1
  <2>4. QED
    BY <1>1, <2>1, <2>2, <2>3
<1>4. QED
  BY <1>2, <1>3 DEF Paced

\* The end of an iteration asks the next supernode in turn, or the same one
\* again while attempts are left.
LEMMA EndLoopInTurn ==
    ASSUME Timely, Attempts # 0, TypeOK, EdgeInv, Paced, OnlyRing, NEW k \in Nat, AllInTurn(k),
           NEW st, Resumed(st), NEW taken, \A m \in taken : m.type # "REGISTER_SUPER",
           EndLoop(st, taken)
    PROVE  AllInTurn(k)'
<1>1. TypeOK' /\ EdgeInv'
  BY EndLoopRing DEF Resumed
<1>2. /\ st \in EdgeStates /\ ring' = st.ring /\ UNCHANGED <<up, entry>>
      /\ Len(ring) \in Nat /\ Len(st.ring) \in Nat /\ Len(ring) <= Len(st.ring)
      /\ Len(st.ring) <= RingMax /\ RingMax \in Nat
      /\ \A i \in 1..Len(ring) : st.ring[i] = ring[i]
      /\ IsInjective(st.ring) /\ DOMAIN st.ring = 1..Len(st.ring)
      /\ \A i \in 1..Len(st.ring) : st.ring[i] \in Sns
  BY LenProperties, ElementOfSeq, RingAssumption
     DEF Resumed, Handled, EndLoop, TypeOK, EdgeStates, Same
<1>3. Sound(idx, age, reg) /\ Sound(idx', age', reg')
  <2>1. /\ age' \in Nat /\ reg' \in Registration /\ reg'.lifetime \in Lifetimes
        /\ age' # Never => age' <= reg'.lifetime
        /\ idx' \in 1..RingMax
    BY <1>1, LifetimeAssumption DEF TypeOK, EdgeInv, AgeInv, Never, Lifetimes, Clamp
  <2>2. QED
    BY <2>1, StateBounds DEF Sound
<1>4. Never' = Never
  BY DEF Never
<1> SUFFICES ASSUME NEW p \in 1..Len(st.ring), up[st.ring[p]], entry[st.ring[p]] >= 0
             PROVE  /\ InTime(k, p, idx', age', reg', entry[st.ring[p]])
                    /\ p = idx' => age' = Never \/ UnderWay(st.ring[p], net')
                                   \/ entry[st.ring[p]] <= age'
  BY <1>2, <1>4 DEF AllInTurn, InTurn
<1> DEFINE s == st.ring[p]
           e == entry[s]
<1>5. p \in 1..Len(ring) /\ s = ring[p] /\ p \in 1..RingMax
  <2>1. PICK q \in 1..Len(ring) : ring[q] = s
    BY <1>2 DEF OnlyRing, InRing
  <2>2. q \in 1..Len(st.ring) /\ st.ring[q] = st.ring[p]
    BY <1>2, <2>1
  <2>3. q = p
    BY <1>2, <2>2 DEF IsInjective
  <2>4. QED
    BY <1>2, <2>1, <2>3
<1>6. e \in Nat
  <2>1. s \in Sns /\ entry[s] >= 0
    BY <1>2
  <2>2. QED
    BY <2>1, EntryAge
<1>7. /\ InTime(k, p, idx, age, reg, e)
      /\ p = idx => age = Never \/ UnderWay(s, net) \/ e <= age
  BY <1>5 DEF AllInTurn, InTurn
<1>8. st.reg \in Registration /\ reg \in Registration /\ Attempts \in Nat
  BY <1>2, RingAssumption DEF EdgeStates, TypeOK
<1>9. CASE ~(st.ready /\ Due(st.reg))
  <2>1. reg' = st.reg /\ UNCHANGED <<idx, age>> /\ Transmit(taken, {})
    BY <1>9 DEF EndLoop
  <2>2. net' = net \ taken
    BY <2>1 DEF Transmit
  <2>3. UnderWay(s, net) => UnderWay(s, net')
    BY <2>2 DEF UnderWay
  <2>4. reg'.attempts <= reg.attempts /\ Sound(idx, age, reg')
    BY <1>3, <2>1 DEF Resumed
  <2> HIDE DEF e
  <2>5. InTime(k, p, idx, age, reg', e)
    BY <1>3, <1>5, <1>6, <1>7, <2>4, FewerInTime
  <2>6. QED
    BY <1>7, <2>1, <2>3, <2>5 DEF e
<1>10. CASE st.ready /\ Due(st.reg)
  <2> DEFINE n == Choose(st)
             to == st.ring[n.idx]
  <2>1. Register(st, taken)
    BY <1>10 DEF EndLoop
  <2>2. PICK c :
            /\ idx' = n.idx
            /\ reg' = [st.reg EXCEPT !.sn = to, !.answered = FALSE, !.wait = TRUE,
                                     !.attempts = n.attempts, !.cookie = c]
            /\ age' = 0
            /\ Transmit(taken, {Datagram("REGISTER_SUPER", to, c)})
    BY <2>1 DEF Register
  <2>3. UnderWay(to, net')
    <3> DEFINE request == Datagram("REGISTER_SUPER", to, c)
    <3>1. request.type = "REGISTER_SUPER" /\ request.sn = to
      BY DEF Datagram
    <3>2. request \in net'
      BY <2>2 DEF Transmit
    <3> HIDE DEF request
    <3>3. QED
      BY <3>1, <3>2 DEF UnderWay
  <2>4. p = idx' => UnderWay(s, net')
    BY <2>2, <2>3
  <2>5. reg'.attempts = n.attempts /\ n.attempts \in 0..Attempts
    <3>1. n.attempts \in 0..Attempts
      BY <1>10, ChosenType DEF Resumed
    <3>2. QED
      BY <1>8, <2>2, <3>1 DEF Registration
  <2>6. st.reg.attempts # 0 => n.idx = idx /\ n.attempts = st.reg.attempts - 1
    BY DEF Choose
  <2>7. st.reg.attempts = 0 => n.idx = (IF idx + 1 > Len(st.ring) THEN 1 ELSE idx + 1)
                               /\ n.attempts = Attempts
    BY DEF Choose, GiveUp
  <2> HIDE DEF n, e
  <2>8. CASE st.reg.attempts # 0
    <3>1. idx' = idx /\ reg'.attempts + 1 <= reg.attempts
      <4>1. reg'.attempts = st.reg.attempts - 1 /\ idx' = idx
        BY <2>2, <2>5, <2>6, <2>8
      <4>2. st.reg.attempts <= reg.attempts /\ st.reg.attempts \in Nat /\ reg.attempts \in Nat
        BY <1>8 DEF Resumed, Registration
      <4>3. QED
        BY <4>1, <4>2
    <3>2. age = Never \/ age <= Retry
      BY <1>10, <2>8, DueProperties DEF Resumed
    <3>3. Sound(idx, 0, reg')
      BY <1>3, <2>2, <3>1
    <3>4. InTime(k, p, idx, 0, reg', e)
      BY <1>3, <1>5, <1>6, <1>7, <3>1, <3>2, <3>3, FewerInTime
    <3>5. QED
      BY <2>2, <2>4, <3>1, <3>4 DEF e
  <2>9. CASE st.reg.attempts = 0
    <3>1. /\ idx' = (IF idx + 1 > Len(st.ring) THEN 1 ELSE idx + 1)
          /\ reg'.attempts = Attempts
      BY <2>2, <2>5, <2>7, <2>9
    <3>2. age # Never
      BY <2>9 DEF Resumed, Handled, Asked
    <3>3. net = {}
      BY <1>10, <3>2, DueProperties
    <3>4. p = idx => e <= LongLifetime
      <4>1. p = idx => e <= age
        BY <1>7, <3>2, <3>3 DEF UnderWay
      <4>2. age <= LongLifetime /\ age \in Nat /\ LongLifetime \in Nat
        BY <1>3, <3>2, SoundBounds DEF Sound
      <4>3. QED
        BY <1>6, <4>1, <4>2
    <3>5. Len(st.ring) \in 1..RingMax /\ p <= Len(st.ring)
      BY <1>2
    <3>6. Sound(idx', 0, reg')
      BY <1>3, <2>2
    <3>7. InTime(k, p, idx', 0, reg', e)
      BY <1>3, <1>5, <1>6, <1>7, <3>1, <3>4, <3>5, <3>6, NextInTime
    <3>8. QED
      BY <2>2, <2>4, <3>7 DEF e
  <2>10. QED
    BY <2>8, <2>9
<1>11. QED
  BY <1>9, <1>10

\* The end of an iteration leaves nothing that is due.
LEMMA EndLoopPaced ==
    ASSUME Timely, Attempts # 0, TypeOK, EdgeInv, Paced, OnlyRing,
           NEW st, Resumed(st), NEW taken, EndLoop(st, taken)
    PROVE  Paced' /\ OnlyRing'
<1>1. /\ st \in EdgeStates /\ ring' = st.ring /\ ready' = st.ready /\ looped' = TRUE
      /\ UNCHANGED <<up, entry>>
      /\ Len(ring) \in Nat /\ Len(st.ring) \in Nat /\ Len(ring) <= Len(st.ring)
      /\ \A i \in 1..Len(ring) : st.ring[i] = ring[i]
      /\ st.reg \in Registration
  BY LenProperties DEF Resumed, Handled, EndLoop, TypeOK, EdgeStates
<1>2. \A s : InRing(s, ring) => InRing(s, ring')
  BY <1>1 DEF InRing
<1>3. age \in Nat /\ st.reg.lifetime \in Lifetimes /\ st.reg.lifetime \in Nat \ {0}
  BY ClampType, LifetimeAssumption DEF Resumed, Handled, Lifetimes, TypeOK, Never
<1>4. CASE ~(st.ready /\ Due(st.reg))
  <2>1. reg' = st.reg /\ UNCHANGED <<idx, age>> /\ Transmit(taken, {})
    BY <1>4 DEF EndLoop
  <2>2. net' = net \ taken
    BY <2>1 DEF Transmit
  <2>3. OnlyRing'
    BY <1>1, <1>2, <2>2 DEF OnlyRing
  <2>4. st.ready => age # Never
    <3>1. st.ready => ~(age >= st.reg.lifetime)
      BY <1>4 DEF Due
    <3>2. st.reg.lifetime <= MaxLifetime /\ MaxLifetime \in Nat
      BY <1>3, ClampType, LifetimeAssumption
    <3>3. QED
      BY <1>3, <3>1, <3>2 DEF Never
  <2>5. st.reg.wait => st.ready
    <3>1. st.reg.wait => age # Never
      BY DEF Resumed, Handled, Asked
    <3>2. ~st.ready => age = Never
      BY DEF Resumed, Handled, EdgeInv, Undecided
    <3>3. QED
      BY <3>1, <3>2
  <2>6. reg'.wait => age' <= reg'.lifetime \div 10
    <3>1. st.reg.wait => ~(age > st.reg.lifetime \div 10)
      BY <1>4, <2>5 DEF Due
    <3>2. st.reg.lifetime \div 10 \in Nat
      BY <1>3
    <3>3. QED
      BY <1>3, <2>1, <3>1, <3>2
  <2>7. reg'.lifetime \div 10 \in Nat
    BY <1>3, <2>1
  <2>8. reg'.wait => age' <= reg'.lifetime \div 10 + 1
    BY <1>3, <2>1, <2>6, <2>7
  <2>9. Never' = Never
    BY DEF Never
  <2>10. Paced'
    BY <1>1, <2>1, <2>2, <2>4, <2>6, <2>8 DEF Paced, Resumed
  <2>11. QED
    BY <2>3, <2>10
<1>5. CASE st.ready /\ Due(st.reg)
  <2> DEFINE n == Choose(st)
             to == st.ring[n.idx]
  <2>1. Register(st, taken)
    BY <1>5 DEF EndLoop
  <2>2. PICK c :
            /\ reg' = [st.reg EXCEPT !.sn = to, !.answered = FALSE, !.wait = TRUE,
                                     !.attempts = n.attempts, !.cookie = c]
            /\ age' = 0
            /\ Transmit(taken, {Datagram("REGISTER_SUPER", to, c)})
    BY <2>1 DEF Register
  <2> DEFINE request == Datagram("REGISTER_SUPER", to, c)
  <2>3. request.sn = to /\ net' = (net \ taken) \cup {request}
    BY <2>2 DEF Datagram, Transmit
  <2>4. InRing(to, ring')
    <3>1. n.idx \in 1..Len(st.ring)
      <4>1. n.idx \in 1..RingMax /\ n.idx <= Len(st.ring)
        BY <1>5, ChosenType DEF Resumed
      <4>2. QED
        BY <1>1, <4>1, RingAssumption
    <3> HIDE DEF n
    <3>2. QED
      BY <1>1, <3>1 DEF InRing
  <2> HIDE DEF n, to, request
  <2>5. OnlyRing'
    BY <1>1, <1>2, <2>3, <2>4 DEF OnlyRing
  <2>6. age' # Never /\ reg'.wait /\ reg'.lifetime = st.reg.lifetime
    BY <1>1, <2>2, LifetimeAssumption DEF Never, Registration
  <2>7. reg'.lifetime \div 10 \in Nat /\ 0 <= reg'.lifetime \div 10
        /\ 0 <= reg'.lifetime \div 10 + 1
    BY <1>3, <2>6
  <2>8. QED
    BY <2>2, <2>5, <2>6, <2>7 DEF Paced
<1>6. QED
  BY <1>4, <1>5

\* Every iteration goes on with a registration that was resumed.
LEMMA LoopResumed ==
    ASSUME TypeOK, EdgeInv, Paced,
           Idle \/ \E m \in net : RecvSuperAck(m) \/ RecvAdv(m) \/ RecvRsp(m)
    PROVE  \E st, taken : /\ Resumed(st) /\ EndLoop(st, taken)
                          /\ \A m \in taken : m.type # "REGISTER_SUPER"
<1>1. reg \in Registration /\ reg.attempts <= reg.attempts
  BY RingAssumption DEF TypeOK, Registration
<1>2. ASSUME NEW st, Handled(st), st.reg = reg PROVE Resumed(st)
  BY <1>1, <1>2 DEF Resumed, Paced
<1>3. Resumed(Found)
  BY <1>2, FoundHandled
<1>4. CASE Idle
  <2>1. EndLoop(Found, {})
    BY <1>4, LoopHandled
  <2>2. QED
    BY <1>3, <2>1
<1>5. ASSUME NEW m \in net, RecvSuperAck(m)
      PROVE  \E st : Resumed(st) /\ EndLoop(st, {m}) /\ m.type # "REGISTER_SUPER"
  <2>1. m.type # "REGISTER_SUPER"
    BY <1>5 DEF RecvSuperAck
  <2>2. CASE Accepts(m)
    <3>1. /\ Handled(Answered(m))
          /\ Answered(m).reg = [reg EXCEPT !.wait = FALSE, !.answered = TRUE, !.attempts = 0,
                                           !.lifetime = Clamp(Granted)]
      BY <2>2, AnsweredHandled DEF Accepts
    <3>2. Answered(m).reg.attempts = 0 /\ ~Answered(m).reg.wait /\ 0 <= reg.attempts
      BY <1>1, <3>1, RingAssumption DEF Registration
    <3>3. Resumed(Answered(m))
      BY <3>1, <3>2 DEF Resumed
    <3>4. EndLoop(Answered(m), {m})
      BY <1>5, <2>2 DEF RecvSuperAck
    <3>5. QED
      BY <2>1, <3>3, <3>4
  <2>3. CASE ~Accepts(m)
    <3>1. EndLoop(Found, {m})
      BY <1>5, <2>3 DEF RecvSuperAck
    <3>2. QED
      BY <1>3, <2>1, <3>1
  <2>4. QED
    BY <2>2, <2>3
<1>6. ASSUME NEW m \in net, RecvAdv(m)
      PROVE  Resumed(AfterAdv(m)) /\ EndLoop(AfterAdv(m), {m}) /\ m.type # "REGISTER_SUPER"
  <2>1. Handled(AfterAdv(m)) /\ EndLoop(AfterAdv(m), {m}) /\ m.type # "REGISTER_SUPER"
    BY <1>6, LoopHandled DEF RecvAdv
  <2>2. CASE AfterAdv(m).reg = reg
    BY <1>2, <2>1, <2>2
  <2>3. CASE AfterAdv(m).reg # reg
    <3>1. AfterAdv(m).reg = [reg EXCEPT !.sn = AfterAdv(m).ring[1], !.answered = (age = Never)]
      BY <2>3, AdvHandled
    <3>2. /\ AfterAdv(m).reg.wait = reg.wait /\ AfterAdv(m).reg.attempts = reg.attempts
          /\ AfterAdv(m).reg.lifetime = reg.lifetime
      BY <1>1, <3>1 DEF Registration
    <3>3. Resumed(AfterAdv(m))
      BY <1>1, <2>1, <3>2 DEF Resumed, Paced
    <3>4. QED
      BY <2>1, <3>3
  <2>4. QED
    BY <2>2, <2>3
<1>7. ASSUME NEW m \in net, RecvRsp(m)
      PROVE  Resumed(AfterRsp(m)) /\ EndLoop(AfterRsp(m), {m}) /\ m.type # "REGISTER_SUPER"
  <2>1. Handled(AfterRsp(m)) /\ EndLoop(AfterRsp(m), {m}) /\ m.type # "REGISTER_SUPER"
    BY <1>7, LoopHandled DEF RecvRsp
  <2>2. QED
    BY <1>2, <2>1, RspHandled
<1>8. QED
  <2>1. ASSUME NEW m \in net, NEW st, Resumed(st), EndLoop(st, {m}), m.type # "REGISTER_SUPER"
        PROVE  \E t, taken : /\ Resumed(t) /\ EndLoop(t, taken)
                             /\ \A d \in taken : d.type # "REGISTER_SUPER"
    <3>1. \A d \in {m} : d.type # "REGISTER_SUPER"
      BY <2>1
    <3>2. QED
      BY <2>1, <3>1
  <2>2. QED
    BY <1>4, <1>5, <1>6, <1>7, <2>1

\* What the supernodes and time do to the silence.
LEMMA OthersInTurn ==
    ASSUME Timely, TypeOK, EdgeInv, Paced, OnlyRing, NEW k \in Nat, AllInTurn(k),
           \/ \E m \in net : RecvRegisterSuper(m) \/ Unheard(m)
           \/ \E s \in Sns : Purge(s) \/ Crash(s) \/ ComeBack(s)
           \/ Tick
    PROVE  Paced' /\ OnlyRing' /\ AllInTurn(k)'
<1>1. TypeOK' /\ EdgeInv'
  BY OthersRing
<1>2. UNCHANGED <<ready, ring, idx, reg>>
  BY DEF RecvRegisterSuper, Unheard, Purge, Crash, ComeBack, Tick, edge
<1>3. Sound(idx, age, reg) /\ Never' = Never
  BY StateBounds DEF Never
<1>4. /\ RingMax \in Nat /\ Len(ring) \in Nat /\ Len(ring) <= RingMax
      /\ entry \in [Sns -> Nat \cup {Absent, Lost}] /\ up \in [Sns -> BOOLEAN]
  BY RingAssumption, LenProperties DEF TypeOK, EdgeInv, Same
<1>5. \A p \in 1..Len(ring) : p \in 1..RingMax /\ ring[p] \in Sns
  BY <1>4, ElementOfSeq DEF TypeOK
<1>6. ASSUME UNCHANGED <<age, looped>>, net = {} => net' = {},
             \A m \in net' : m \in net \/ m.type # "REGISTER_SUPER",
             \A r \in Sns : entry'[r] >= 0 =>
                /\ up'[r]
                /\ \/ entry'[r] = 0 /\ InRing(r, ring)
                   \/ /\ up[r] /\ entry[r] >= 0 /\ entry'[r] = entry[r]
                      /\ UnderWay(r, net) => UnderWay(r, net')
      PROVE  Paced' /\ OnlyRing' /\ AllInTurn(k)'
  <2>1. Paced' /\ OnlyRing'
    BY <1>2, <1>6 DEF Paced, OnlyRing, InRing, Never
  <2>2. ASSUME NEW p \in 1..Len(ring), up'[ring[p]], entry'[ring[p]] >= 0
        PROVE  /\ InTime(k, p, idx, age, reg, entry'[ring[p]])
               /\ p = idx => age = Never \/ UnderWay(ring[p], net') \/ entry'[ring[p]] <= age
    <3> DEFINE s == ring[p]
    <3>1. s \in Sns /\ InTurn(k, p, s) /\ p \in 1..RingMax
      BY <1>5 DEF AllInTurn
    <3> HIDE DEF s
    <3>2. CASE entry'[s] = 0
      <4>1. InTime(k, p, idx, age, reg, entry'[s])
        BY <1>3, <3>1, <3>2, FreshInTime
      <4>2. entry'[s] <= age
        BY <1>3, <3>2 DEF Sound
      <4>3. QED
        BY <4>1, <4>2 DEF s
    <3>3. CASE entry'[s] # 0
      <4>1. /\ up[s] /\ entry[s] >= 0 /\ entry'[s] = entry[s]
            /\ UnderWay(s, net) => UnderWay(s, net')
        BY <1>6, <2>2, <3>1, <3>3 DEF s
      <4>2. /\ InTime(k, p, idx, age, reg, entry[s])
            /\ p = idx => age = Never \/ UnderWay(s, net) \/ entry[s] <= age
        BY <3>1, <4>1 DEF InTurn
      <4>3. QED
        BY <4>1, <4>2 DEF s
    <3>4. QED
      BY <3>2, <3>3
  <2>3. QED
    BY <1>2, <1>3, <1>6, <2>1, <2>2 DEF AllInTurn, InTurn
<1>7. ASSUME NEW m \in net, RecvRegisterSuper(m) PROVE Paced' /\ OnlyRing' /\ AllInTurn(k)'
  <2> DEFINE ack == Datagram("REGISTER_SUPER_ACK", m.sn, m.cookie)
  <2>1. /\ m.sn \in Sns /\ m.type = "REGISTER_SUPER" /\ up[m.sn] /\ InRing(m.sn, ring)
        /\ entry' = [entry EXCEPT ![m.sn] = 0] /\ UNCHANGED <<age, looped, up>>
        /\ Transmit({m}, {ack})
    BY <1>7 DEF RecvRegisterSuper, edge, OnlyRing, TypeOK, Datagrams
  <2>2. ack.type # "REGISTER_SUPER"
    BY DEF Datagram
  <2> HIDE DEF ack
  <2>3. net' = (net \ {m}) \cup {ack}
    BY <2>1 DEF Transmit
  <2>4. ASSUME NEW r \in Sns, entry'[r] >= 0
        PROVE  /\ up'[r]
               /\ \/ entry'[r] = 0 /\ InRing(r, ring)
                  \/ /\ up[r] /\ entry[r] >= 0 /\ entry'[r] = entry[r]
                     /\ UnderWay(r, net) => UnderWay(r, net')
    <3>1. CASE r = m.sn
      BY <1>4, <2>1, <3>1
    <3>2. CASE r # m.sn
      <4>1. entry'[r] = entry[r]
        BY <1>4, <2>1, <3>2
      <4>2. UnderWay(r, net) => UnderWay(r, net')
        BY <2>3, <3>2 DEF UnderWay
      <4>3. QED
        BY <2>1, <2>4, <4>1, <4>2 DEF OnlyRing
    <3>3. QED
      BY <3>1, <3>2
  <2>5. QED
    BY <1>6, <2>1, <2>2, <2>3, <2>4
<1>8. ASSUME NEW m \in net, Unheard(m) PROVE Paced' /\ OnlyRing' /\ AllInTurn(k)'
  <2>1. ~up[m.sn] /\ net' = net \ {m} /\ UNCHANGED <<age, looped, up, entry>>
    BY <1>8 DEF Unheard, edge
  <2>2. ASSUME NEW r \in Sns, entry'[r] >= 0
        PROVE  /\ up'[r] /\ up[r] /\ entry[r] >= 0 /\ entry'[r] = entry[r]
               /\ UnderWay(r, net) => UnderWay(r, net')
    BY <2>1, <2>2 DEF OnlyRing, UnderWay
  <2>3. QED
    BY <1>6, <2>1, <2>2
<1>9. ASSUME NEW s \in Sns, Purge(s) \/ Crash(s) \/ ComeBack(s)
      PROVE  Paced' /\ OnlyRing' /\ AllInTurn(k)'
  <2>1. UNCHANGED <<age, looped, net>>
    BY <1>9 DEF Purge, Crash, ComeBack, edge
  <2>2. ASSUME NEW r \in Sns, entry'[r] >= 0
        PROVE  up'[r] /\ up[r] /\ entry[r] >= 0 /\ entry'[r] = entry[r]
    <3>1. up \in [Sns -> BOOLEAN]
      BY DEF TypeOK
    <3>2. CASE Purge(s)
      BY <1>4, <2>2, <3>2 DEF Purge, OnlyRing, Absent
    <3>3. CASE Crash(s)
      BY <1>4, <2>2, <3>1, <3>3 DEF Crash, OnlyRing, Lost
    <3>4. CASE ComeBack(s)
      BY <1>4, <2>2, <3>1, <3>4 DEF ComeBack, OnlyRing
    <3>5. QED
      BY <1>9, <3>2, <3>3, <3>4
  <2>3. QED
    BY <1>6, <2>1, <2>2
<1>10. ASSUME Tick PROVE Paced' /\ OnlyRing' /\ AllInTurn(k)'
  <2>1. /\ looped /\ net = {} /\ looped' = FALSE /\ net' = {} /\ up' = up
        /\ age' = (IF age = Never THEN Never ELSE age + 1)
        /\ entry' = [s \in Sns |-> IF entry[s] \in 0..RegTimeout THEN entry[s] + 1 ELSE entry[s]]
    BY <1>10 DEF Tick
  <2>2. \A s \in Sns : entry'[s] >= 0 => /\ entry[s] >= 0 /\ entry[s] \in Nat
                                         /\ entry'[s] \in Nat /\ entry'[s] <= entry[s] + 1
    BY <1>4, <2>1 DEF Absent, Lost
  <2>3. OnlyRing'
    BY <1>2, <2>1, <2>2 DEF OnlyRing
  <2>4. Paced'
    <3>1. reg.lifetime \in Nat /\ reg.lifetime \div 10 \in Nat
      BY <1>3 DEF Registration, Sound
    <3>2. reg.wait => age # Never
      BY DEF EdgeInv, Asked
    <3>3. reg.wait => age' <= reg.lifetime \div 10 + 1
      BY <1>3, <2>1, <3>1, <3>2 DEF Paced, Sound
    <3>4. age' # Never => age # Never
      BY <2>1
    <3>5. /\ reg'.wait => age' <= reg'.lifetime \div 10 + 1 /\ ~looped'
          /\ age' # Never /\ ~reg'.wait => reg'.attempts = 0
          /\ ~looped' /\ net' = {}
      BY <1>2, <2>1, <3>3, <3>4 DEF Paced
    <3>6. QED
      BY <1>3, <3>5 DEF Paced
  <2>5. ASSUME NEW p \in 1..Len(ring), up'[ring[p]], entry'[ring[p]] >= 0
        PROVE  /\ InTime(k, p, idx, age', reg, entry'[ring[p]])
               /\ p = idx => entry'[ring[p]] <= age'
    <3> DEFINE s == ring[p]
    <3>1. s \in Sns /\ InTurn(k, p, s) /\ p \in 1..RingMax /\ up[s]
      BY <1>5, <2>1, <2>5 DEF AllInTurn
    <3>2. /\ entry[s] \in Nat /\ entry[s] >= 0 /\ entry'[s] <= entry[s] + 1 /\ entry'[s] \in Nat
      BY <2>2, <2>5, <3>1
    <3>3. age # Never
      <4>1. ready
        <5>1. ~ready => ring = <<>>
          BY DEF EdgeInv, Undecided
        <5>2. ring # <<>>
          BY <1>4, LenProperties DEF TypeOK
        <5>3. QED
          BY <5>1, <5>2
      <4>2. QED
        BY <2>1, <4>1 DEF Paced
    <3>4. age' = age + 1 /\ age + 1 # Never /\ Sound(idx, age + 1, reg)
      <4>1. age' = age + 1
        BY <2>1, <3>3
      <4>2. age + 1 # Never
        <5>1. age < reg.lifetime
          BY <2>1, <3>3 DEF EdgeInv, AgeInv
        <5>2. reg.lifetime \in 1..MaxLifetime /\ MaxLifetime \in Nat
          BY ClampType, LifetimeAssumption DEF EdgeInv, AgeInv
        <5>3. QED
          BY <1>3, <5>1, <5>2 DEF Never, Sound
      <4>3. age' # Never => age' <= reg.lifetime
        BY <1>1, <1>2, <1>3, <4>1 DEF EdgeInv, AgeInv
      <4>4. QED
        BY <1>3, <4>1, <4>2, <4>3 DEF Sound
    <3>5. /\ InTime(k, p, idx, age, reg, entry[s])
          /\ p = idx => entry[s] <= age
      BY <2>1, <3>1, <3>2, <3>3 DEF InTurn, UnderWay
    <3> HIDE DEF s
    <3>6. p = idx => entry'[s] <= age + 1
      BY <1>3, <3>2, <3>5 DEF Sound
    <3>7. InTime(k, p, idx, age + 1, reg, entry'[s])
      BY <1>3, <3>1, <3>2, <3>3, <3>4, <3>5, <3>6, TickInTime
    <3>8. QED
      BY <3>4, <3>6, <3>7 DEF s
  <2>6. QED
    BY <1>2, <2>3, <2>4, <2>5 DEF AllInTurn, InTurn
<1>11. QED
  BY <1>7, <1>8, <1>9, <1>10

\* A supernode may be asked a round later when the edge starts anew.
LEMMA RestartInTurn ==
    ASSUME TypeOK, EdgeInv, Paced, OnlyRing, NEW k \in Nat, AllInTurn(k), Restart,
           NEW n \in Nat, k + 1 <= n
    PROVE  Paced' /\ OnlyRing' /\ AllInTurn(n)'
<1>1. /\ ring' = list /\ idx' = 1 /\ age' = Never /\ looped' = FALSE
      /\ ~reg'.wait /\ UNCHANGED <<ready, up, entry, net>> /\ Never' = Never
  BY DEF Restart, Never
<1>2. /\ Len(list) \in Nat /\ Len(ring) \in Nat /\ DOMAIN list = 1..Len(list)
      /\ DOMAIN ring = 1..Len(ring)
      /\ ToSet(ring) = ToSet(list) /\ Len(ring) <= RingMax /\ Len(list) = Len(ring)
      /\ RingMax \in Nat /\ \A q \in 1..Len(ring) : ring[q] \in Sns
  BY LenProperties, ElementOfSeq, RingAssumption DEF TypeOK, EdgeInv, Same
<1>3. \A p \in 1..Len(list) : \E q \in 1..Len(ring) : ring[q] = list[p]
  BY <1>2 DEF ToSet
<1>4. \A s : InRing(s, ring) => InRing(s, list)
  <2> SUFFICES ASSUME NEW s, InRing(s, ring) PROVE InRing(s, list)
    OBVIOUS
  <2>1. s \in ToSet(ring)
    BY <1>2 DEF InRing, ToSet
  <2>2. s \in ToSet(list)
    BY <1>2, <2>1
  <2>3. QED
    BY <1>2, <2>2 DEF InRing, ToSet
<1>5. OnlyRing'
  BY <1>1, <1>4 DEF OnlyRing
<1>6. Paced'
  <2>1. ~reg'.wait /\ age' = Never' /\ ~looped'
    BY <1>1
  <2>2. QED
    BY <2>1 DEF Paced
<1>7. Sound(idx, age, reg) /\ Sound(1, Never, reg')
  <2>1. TypeOK' /\ EdgeInv'
    BY RestartRing
  <2>2. idx' \in 1..RingMax /\ age' \in Nat /\ reg' \in Registration /\ reg'.lifetime \in Lifetimes
    BY <2>1, LifetimeAssumption DEF TypeOK, EdgeInv, AgeInv, Never, Lifetimes, Clamp
  <2>3. QED
    BY <1>1, <2>2, StateBounds DEF Sound
<1>8. ASSUME NEW p \in 1..Len(list), up[list[p]], entry[list[p]] >= 0
      PROVE  InTime(n, p, 1, Never, reg', entry[list[p]])
  <2> DEFINE s == list[p]
  <2>1. PICK q \in 1..Len(ring) : ring[q] = s
    BY <1>3
  <2>2. InTurn(k, q, s) /\ s \in Sns /\ q \in 1..RingMax
    BY <1>2, <2>1 DEF AllInTurn
  <2>3. InTime(k, q, idx, age, reg, entry[s])
    BY <1>8, <2>2 DEF InTurn
  <2>4. entry[s] \in Nat
    <3>1. s \in Sns /\ entry[s] >= 0
      BY <1>8, <2>2
    <3>2. QED
      BY <3>1, EntryAge
  <2>5. p \in 1..RingMax
    BY <1>2
  <2> DEFINE e == entry[s]
  <2> HIDE DEF e
  <2>6. e \in Nat /\ e <= Limit(k)
    BY <1>7, <2>2, <2>3, <2>4, SilenceBounded DEF e
  <2>7. InTime(n, p, 1, Never, reg', e)
    BY <1>7, <2>5, <2>6, RestartInTime
  <2>8. QED
    BY <2>7 DEF e
<1>9. AllInTurn(n)'
  BY <1>1, <1>8 DEF AllInTurn, InTurn
<1>10. QED
  BY <1>5, <1>6, <1>9

\* Later limits hold all the more.
LEMMA LaterInTurn ==
    ASSUME TypeOK, EdgeInv, NEW k \in Nat, AllInTurn(k), NEW n \in Nat, k <= n
    PROVE  AllInTurn(n)
<1> SUFFICES ASSUME NEW p \in 1..Len(ring), up[ring[p]], entry[ring[p]] >= 0,
                    InTime(k, p, idx, age, reg, entry[ring[p]])
             PROVE  InTime(n, p, idx, age, reg, entry[ring[p]])
  BY DEF AllInTurn, InTurn
<1>1. Len(ring) \in Nat /\ Len(ring) <= RingMax /\ RingMax \in Nat /\ ring[p] \in Sns
  BY RingAssumption, LenProperties, ElementOfSeq DEF TypeOK, EdgeInv, Same
<1>2. p \in 1..RingMax
  BY <1>1
<1> DEFINE e == entry[ring[p]]
<1>3. e \in Nat
  BY <1>1, EntryAge
<1> HIDE DEF e
<1>4. InTime(k, p, idx, age, reg, e) => InTime(n, p, idx, age, reg, e)
  BY <1>2, <1>3, StateBounds, LaterInTime
<1>5. QED
  BY <1>4 DEF e

\* What is kept of supernodes when the edge has started k times.
TurnInv(k) == Paced /\ OnlyRing /\ AllInTurn(k)

\* Every step keeps the turn; a restart takes a round more.
LEMMA StepInTurn ==
    ASSUME Timely, Attempts # 0, TypeOK, EdgeInv, NEW k \in Nat, TurnInv(k), [Next]_vars,
           NEW n \in Nat, k <= n, Restart => k + 1 <= n
    PROVE  TurnInv(n)'
<1>1. TypeOK' /\ EdgeInv'
  BY StepRing
<1>2. ASSUME Paced', OnlyRing', AllInTurn(k)' PROVE TurnInv(n)'
  <2>1. \A p \in 1..Len(ring') : p \in 1..RingMax /\ ring'[p] \in Sns
    BY <1>1, RingAssumption, LenProperties, ElementOfSeq DEF TypeOK, EdgeInv, Same
  <2>2. Sound(idx', age', reg')
    BY <1>1, LifetimeAssumption DEF TypeOK, EdgeInv, AgeInv, Never, Lifetimes, Clamp, Sound
  <2>3. ASSUME NEW p \in 1..Len(ring'), up'[ring'[p]], entry'[ring'[p]] >= 0,
               InTime(k, p, idx', age', reg', entry'[ring'[p]])
        PROVE  InTime(n, p, idx', age', reg', entry'[ring'[p]])
    <3> DEFINE r == ring'[p]
               e == entry'[r]
    <3>1. e \in Nat
      <4>1. r \in Sns /\ entry'[r] >= 0
        BY <2>1, <2>3
      <4> HIDE DEF r
      <4>2. entry' \in [Sns -> Nat \cup {Absent, Lost}]
        BY <1>1 DEF TypeOK, Absent, Lost
      <4>3. QED
        BY <4>1, <4>2 DEF Absent, Lost
    <3> HIDE DEF e
    <3>2. InTime(k, p, idx', age', reg', e) => InTime(n, p, idx', age', reg', e)
      BY <2>1, <2>2, <3>1, LaterInTime
    <3>3. QED
      BY <2>3, <3>2 DEF e
  <2>4. AllInTurn(n)'
    BY <1>2, <2>3 DEF AllInTurn, InTurn
  <2>5. QED
    BY <1>2, <2>4 DEF TurnInv
<1>3. CASE Idle \/ \E m \in net : RecvSuperAck(m) \/ RecvAdv(m) \/ RecvRsp(m)
  <2>1. PICK st, taken : /\ Resumed(st) /\ EndLoop(st, taken)
                         /\ \A m \in taken : m.type # "REGISTER_SUPER"
    BY <1>3, LoopResumed DEF TurnInv
  <2>2. QED
    BY <1>2, <2>1, EndLoopInTurn, EndLoopPaced DEF TurnInv
<1>4. CASE \/ \E m \in net : RecvRegisterSuper(m) \/ Unheard(m)
           \/ \E s \in Sns : Purge(s) \/ Crash(s) \/ ComeBack(s)
           \/ Tick
  BY <1>2, <1>4, OthersInTurn DEF TurnInv
<1>5. CASE Restart
  BY <1>5, RestartInTurn DEF TurnInv
<1>6. CASE UNCHANGED vars
  <2>1. Paced' /\ OnlyRing' /\ AllInTurn(k)'
    BY <1>6 DEF TurnInv, Paced, OnlyRing, AllInTurn, InTurn, InTime, InRing, UnderWay, vars,
                Never, Left, Between, Limit
  <2>2. QED
    BY <1>2, <2>1
<1>7. QED
  BY <1>3, <1>4, <1>5, <1>6 DEF Next

\* No supernode knows the edge at the start.
LEMMA InitInTurn == Init => TurnInv(0)
<1> SUFFICES ASSUME Init PROVE TurnInv(0)
  OBVIOUS
<1>1. \A s \in Sns : ~(entry[s] >= 0)
  BY DEF Init, Absent
<1>2. \A m \in net : m.type # "REGISTER_SUPER"
  <2>1. CASE ready
    BY <2>1 DEF Init
  <2>2. CASE ~ready
    <3>1. PICK t \in Answers : net = {Datagram(t, s, 0) : s \in Advertisers}
      BY <2>2 DEF Init
    <3>2. t # "REGISTER_SUPER"
      BY RingAssumption
    <3>3. QED
      BY <3>1, <3>2 DEF Datagram
  <2>3. QED
    BY <2>1, <2>2
<1>3. Paced
  BY DEF Init, Paced
<1>4. OnlyRing
  BY <1>1, <1>2 DEF OnlyRing
<1>5. AllInTurn(0)
  <2>1. \A p \in 1..Len(ring) : ring[p] \in Sns
    BY InitRing, LenProperties, ElementOfSeq DEF TypeOK
  <2>2. QED
    BY <1>1, <2>1 DEF AllInTurn, InTurn
<1>6. QED
  BY <1>3, <1>4, <1>5 DEF TurnInv

\* A supernode forgets only an edge that was silent longer than the limit.
LEMMA PurgeLate ==
    ASSUME TypeOK, EdgeInv, NEW k \in Nat, TurnInv(k), Limit(k) <= RegTimeout, [Next]_vars,
           NEW s \in Sns, up[s], entry[s] >= 0
    PROVE  entry'[s] # Absent
<1>1. entry \in [Sns -> Nat \cup {Absent, Lost}] /\ entry[s] \in Nat
  BY EntryAge DEF TypeOK
<1>2. ASSUME NEW r \in Sns, Purge(r) PROVE entry'[s] = entry[s]
  <2>1. r # s
    <3>1. PICK p \in 1..Len(ring) : ring[p] = s
      BY DEF TurnInv, OnlyRing, InRing
    <3>2. p \in 1..RingMax
      BY <3>1, RingAssumption, LenProperties DEF TypeOK, EdgeInv, Same
    <3>3. InTime(k, p, idx, age, reg, entry[s])
      BY <3>1 DEF TurnInv, AllInTurn, InTurn
    <3> DEFINE e == entry[s]
    <3> HIDE DEF e
    <3>4. e <= Limit(k) /\ e \in Nat
      BY <1>1, <3>2, <3>3, StateBounds, SilenceBounded DEF e
    <3>5. e <= RegTimeout /\ Limit(k) \in Nat /\ RegTimeout \in Nat
      BY <3>4, Limits, LifetimeAssumption
    <3>6. ~(entry[s] > RegTimeout)
      BY <3>4, <3>5 DEF e
    <3>7. QED
      BY <1>2, <3>6 DEF Purge
  <2>2. QED
    BY <1>1, <1>2, <2>1 DEF Purge
<1>3. CASE Idle \/ \E m \in net : RecvSuperAck(m) \/ RecvAdv(m) \/ RecvRsp(m)
  <2>1. entry' = entry
    BY <1>3, LoopHandled DEF EndLoop
  <2>2. QED
    BY <1>1, <2>1 DEF Absent
<1>4. CASE Restart \/ \E m \in net : Unheard(m)
  BY <1>1, <1>4 DEF Restart, Unheard, Absent
<1>5. ASSUME NEW m \in net, RecvRegisterSuper(m) PROVE entry'[s] # Absent
  BY <1>1, <1>5 DEF RecvRegisterSuper, Absent
<1>6. ASSUME NEW r \in Sns, Crash(r) \/ ComeBack(r) PROVE entry'[s] # Absent
  BY <1>1, <1>6 DEF Crash, ComeBack, Absent, Lost
<1>7. CASE Tick
  BY <1>1, <1>7 DEF Tick, Absent
<1>8. CASE UNCHANGED vars
  BY <1>1, <1>8 DEF vars, Absent
<1>9. QED
  <2>1. ASSUME NEW r \in Sns, Purge(r) PROVE entry'[s] # Absent
    BY <1>1, <1>2, <2>1 DEF Absent
  <2>2. QED
    BY <1>3, <1>4, <1>5, <1>6, <1>7, <1>8, <2>1 DEF Next

\* Supernodes in the ring keep the entry of an edge in every step.
Remembered == \A s \in ToSet(ring) : up[s] /\ entry[s] >= 0 => entry'[s] # Absent

LEMMA StepRemembered ==
    ASSUME TypeOK, EdgeInv, NEW k \in Nat, TurnInv(k), Limit(k) <= RegTimeout, [Next]_vars
    PROVE  Remembered
<1>1. \A s \in ToSet(ring) : s \in Sns
  BY ElementOfSeq DEF TypeOK, ToSet
<1>2. QED
  BY <1>1, PurgeLate DEF Remembered

\* The bound on crashes and restarts holds.
FlipsInv == flips \in 0..MaxFlips

LEMMA StepFlips ==
    ASSUME FlipsInv, [Next]_vars
    PROVE  FlipsInv' /\ flips <= flips' /\ (Restart => flips + 1 <= flips')
<1>1. flips \in Nat /\ flips <= MaxFlips /\ MaxFlips \in Nat
  BY BoundsAssumption DEF FlipsInv
<1>2. CASE Restart \/ \E s \in Sns : Crash(s) \/ ComeBack(s)
  <2>1. flips' = flips + 1 /\ flips < MaxFlips
    <3>1. CASE Restart
      BY <3>1 DEF Restart
    <3>2. ASSUME NEW s \in Sns, Crash(s) PROVE flips' = flips + 1 /\ flips < MaxFlips
      BY <3>2 DEF Crash
    <3>3. ASSUME NEW s \in Sns, ComeBack(s) PROVE flips' = flips + 1 /\ flips < MaxFlips
      BY <3>3 DEF ComeBack
    <3>4. QED
      BY <1>2, <3>1, <3>2, <3>3
  <2>2. QED
    BY <1>1, <2>1 DEF FlipsInv
<1>3. CASE flips' = flips /\ ~Restart
  BY <1>1, <1>3 DEF FlipsInv
<1>4. CASE ~Restart /\ ~(\E s \in Sns : Crash(s) \/ ComeBack(s))
  <2>1. ASSUME NEW st, NEW taken, EndLoop(st, taken) PROVE flips' = flips
    BY <2>1 DEF EndLoop
  <2>2. ASSUME NEW m \in net, RecvSuperAck(m) \/ RecvAdv(m) \/ RecvRsp(m) PROVE flips' = flips
    BY <2>1, <2>2, Zenon DEF RecvSuperAck, RecvAdv, RecvRsp
  <2>3. Idle => flips' = flips
    BY <2>1, Zenon DEF Idle
  <2>4. ASSUME NEW m \in net, RecvRegisterSuper(m) \/ Unheard(m) PROVE flips' = flips
    BY <2>4 DEF RecvRegisterSuper, Unheard
  <2>5. ASSUME NEW s \in Sns, Purge(s) PROVE flips' = flips
    BY <2>5 DEF Purge
  <2>6. (Tick \/ UNCHANGED vars) => flips' = flips
    BY DEF Tick, vars
  <2>7. flips' = flips
    BY <1>4, <2>2, <2>3, <2>4, <2>5, <2>6 DEF Next
  <2>8. QED
    BY <1>3, <1>4, <2>7
<1>5. QED
  BY <1>2, <1>4

\* NeverForgotten: sn.c purge_expired_registrations never removes the edge at a running
\* supernode of the ring, whatever crashes, comes back and starts anew, when
\* REGISTRATION_TIMEOUT is a round of the ring for every start of the edge: a
\* round asks every place as often as it has attempts and stays with each a lifetime.
THEOREM SupernodesRemember ==
    ASSUME Timely, Attempts # 0, (MaxFlips + 1) * Round <= RegTimeout
    PROVE  Spec => NeverForgotten
<1> DEFINE Inv == FlipsInv /\ TurnInv(flips)
<1>1. Init => Inv
  BY InitInTurn, BoundsAssumption DEF Init, FlipsInv
<1>2. TypeOK /\ EdgeInv /\ Inv /\ [Next]_vars => Inv'
  <2> SUFFICES ASSUME TypeOK, EdgeInv, Inv, [Next]_vars PROVE Inv'
    OBVIOUS
  <2>1. /\ flips \in Nat /\ flips' \in Nat /\ FlipsInv' /\ flips <= flips'
        /\ Restart => flips + 1 <= flips'
    BY StepFlips, BoundsAssumption DEF FlipsInv
  <2>2. TurnInv(flips)'
    BY <2>1, StepInTurn
  <2>3. QED
    BY <2>1, <2>2
<1>3. TypeOK /\ EdgeInv /\ Inv /\ [Next]_vars => [Remembered]_vars
  <2> SUFFICES ASSUME TypeOK, EdgeInv, Inv, [Next]_vars PROVE Remembered
    OBVIOUS
  <2>1. flips \in Nat /\ flips <= MaxFlips /\ MaxFlips \in Nat
    BY BoundsAssumption DEF FlipsInv
  <2>2. Limit(flips) <= Limit(MaxFlips) /\ Limit(flips) \in Nat /\ Limit(MaxFlips) \in Nat
    BY <2>1, Limits
  <2>3. Limit(MaxFlips) <= RegTimeout
    BY DEF Limit
  <2>4. Limit(flips) <= RegTimeout
    BY <2>2, <2>3, LifetimeAssumption
  <2>5. QED
    BY <2>1, <2>4, StepRemembered
<1>4. QED
  BY <1>1, <1>2, <1>3, EdgeInductive, PTL DEF Spec, NeverForgotten, Remembered

\* As long as the edge itself runs on, a single round is enough, whatever supernodes crash.
THEOREM RememberWithoutRestart ==
    ASSUME Timely, Attempts # 0, Round <= RegTimeout
    PROVE  Spec /\ [][~Restart]_vars => NeverForgotten
<1>1. Init => TurnInv(0)
  BY InitInTurn
<1>2. TypeOK /\ EdgeInv /\ TurnInv(0) /\ [Next]_vars /\ [~Restart]_vars => TurnInv(0)'
  <2> SUFFICES ASSUME TypeOK, EdgeInv, TurnInv(0), [Next]_vars, [~Restart]_vars
               PROVE  TurnInv(0)'
    OBVIOUS
  <2>1. CASE ~Restart
    BY <2>1, StepInTurn
  <2>2. CASE UNCHANGED vars
    <3>1. TurnInv(0)' = TurnInv(0)
      BY <2>2 DEF TurnInv, Paced, OnlyRing, AllInTurn, InTurn, InTime, InRing, UnderWay, vars,
                  Never, Left, Between, Limit
    <3>2. QED
      BY <3>1
  <2>3. QED
    BY <2>1, <2>2
<1>3. TypeOK /\ EdgeInv /\ TurnInv(0) /\ [Next]_vars => [Remembered]_vars
  <2>1. Limit(0) <= RegTimeout
    BY Times DEF Limit
  <2>2. QED
    BY <2>1, StepRemembered
<1>4. QED
  BY <1>1, <1>2, <1>3, EdgeInductive, PTL DEF Spec, NeverForgotten, Remembered

=============================================================================
