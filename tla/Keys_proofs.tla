---------------------------- MODULE Keys_proofs ----------------------------
(***************************************************************************)
(* What the key schedule guarantees for all key files, any number of edges *)
(* with any clocks, and every size of the tables.                          *)
(***************************************************************************)
EXTENDS Keys, Data_proofs

---------------------------------------------------------------------------
(* The operators.                                                          *)

\* n2n_read_keyfile returns lines of the file, and all that have not expired if
\* there is room for the whole file.
LEMMA ReadProperties ==
    ASSUME NEW f \in Seq(Spec0), NEW c
    PROVE  /\ ReadKeyfile(f, c) \in Seq(Spec0)
           /\ Lines(ReadKeyfile(f, c)) \subseteq Lines(f)
           /\ Len(f) <= MaxSpecs =>
                \A k \in Lines(f) : k.until > c => k \in Lines(ReadKeyfile(f, c))
<1> DEFINE T == {k \in Lines(f) : k.until > c}
<1> HIDE DEF T
<1> DEFINE kept == Select(f, T)
           n == IF Len(kept) > MaxSpecs THEN MaxSpecs ELSE Len(kept)
<1>1. /\ kept \in Seq(Spec0)
      /\ Len(kept) = Cardinality(Places(f, T, Len(f)))
      /\ \A x : (\E j \in 1..Len(kept) : kept[j] = x) <=> x \in T /\ \E j \in 1..Len(f) : f[j] = x
  <2>1. kept \in Seq(Spec0) /\ Selection(kept, f, T)
    BY SelectProperties
  <2>2. QED
    BY <2>1 DEF Selection
<1>2. Len(kept) \in Nat /\ Len(f) \in Nat /\ MaxSpecs \in Nat
  BY <1>1, LenProperties, KeysAssumption
<1>3. n \in 0..Len(kept)
  BY <1>2
<1>4. /\ SubSeq(kept, 1, n) \in Seq(Spec0) /\ Len(SubSeq(kept, 1, n)) = n
      /\ \A i \in 1..n : SubSeq(kept, 1, n)[i] = kept[i]
  BY <1>1, <1>3, Prefix
<1>5. ReadKeyfile(f, c) = SubSeq(kept, 1, n)
  BY DEF ReadKeyfile, T
<1>6. Lines(ReadKeyfile(f, c)) = {kept[i] : i \in 1..n}
  BY <1>4, <1>5 DEF Lines
<1> HIDE DEF kept
<1>7. Lines(ReadKeyfile(f, c)) \subseteq Lines(f)
  <2>1. \A i \in 1..n : i \in 1..Len(kept)
    BY <1>2
  <2>2. \A i \in 1..n : kept[i] \in T
    BY <1>1, <2>1
  <2>3. QED
    BY <1>6, <2>2 DEF T
<1>8. ASSUME Len(f) <= MaxSpecs, NEW k \in Lines(f), k.until > c
      PROVE  k \in Lines(ReadKeyfile(f, c))
  <2>1. Len(kept) <= Len(f)
    <3>1. IsFiniteSet(1..Len(f)) /\ Cardinality(1..Len(f)) = Len(f)
      <4> DEFINE m == Len(f)
      <4> HIDE DEF m
      <4>1. m \in Nat /\ 1 \in Int /\ m \in Int
        BY <1>2 DEF m
      <4>2. IsFiniteSet(1..m) /\ Cardinality(1..m) = IF 1 > m THEN 0 ELSE m - 1 + 1
        BY <4>1, FS_Interval
      <4>3. Cardinality(1..m) = m
        BY <4>1, <4>2
      <4>4. QED
        BY <4>2, <4>3 DEF m
    <3>2. Places(f, T, Len(f)) \in SUBSET (1..Len(f))
      BY DEF Places
    <3>3. Cardinality(Places(f, T, Len(f))) <= Cardinality(1..Len(f))
      BY <3>1, <3>2, FS_Subset
    <3>4. QED
      BY <1>1, <3>1, <3>3
  <2>2. n = Len(kept)
    BY <1>2, <1>8, <2>1
  <2>3. \E j \in 1..Len(f) : f[j] = k
    BY DEF Lines
  <2>4. k \in T
    BY <1>8 DEF T
  <2>5. PICK j \in 1..Len(kept) : kept[j] = k
    BY <1>1, <2>3, <2>4
  <2>6. QED
    BY <1>6, <2>2, <2>5
<1>9. QED
  BY <1>4, <1>5, <1>7, <1>8

\* The lines that are added fit, and the next one does not.
LEMMA AddedProperties ==
    ASSUME NEW tab, NEW specs \in Seq(Spec0)
    PROVE  /\ Added(tab, specs) \in 0..Len(specs)
           /\ \A i \in 1..Added(tab, specs) : Fits(tab, specs, i)
<1> DEFINE Fitting(n) == /\ \A i \in 1..n : Fits(tab, specs, i)
                         /\ n < Len(specs) => ~Fits(tab, specs, n + 1)
<1>1. Len(specs) \in Nat
  BY LenProperties
<1>2. \E n \in 0..Len(specs) : Fitting(n)
  <2>1. CASE \A i \in 1..Len(specs) : Fits(tab, specs, i)
    <3>1. Fitting(Len(specs))
      BY <1>1, <2>1
    <3>2. QED
      BY <1>1, <3>1
  <2>2. CASE ~ (\A i \in 1..Len(specs) : Fits(tab, specs, i))
    <3> DEFINE Bad == {i \in 1..Len(specs) : ~Fits(tab, specs, i)}
    <3>1. Bad \in SUBSET Nat /\ Bad # {}
      BY <2>2
    <3>2. PICK b \in Bad : \A i \in Bad : b <= i
      BY <3>1, LeastNatural
    <3>3. b \in 1..Len(specs) /\ ~Fits(tab, specs, b)
      OBVIOUS
    <3>4. b - 1 \in 0..Len(specs) /\ (b - 1) + 1 = b
      BY <1>1, <3>3
    <3>5. ASSUME NEW i \in 1..(b - 1) PROVE Fits(tab, specs, i)
      <4>1. i \in 1..Len(specs) /\ ~ (b <= i)
        BY <1>1, <3>3
      <4>2. QED
        BY <3>2, <4>1
    <3>6. Fitting(b - 1)
      BY <3>3, <3>4, <3>5
    <3>7. QED
      BY <3>4, <3>6
  <2>3. QED
    BY <2>1, <2>2
<1>3. Added(tab, specs) = CHOOSE n \in 0..Len(specs) : Fitting(n)
  BY DEF Added
<1> HIDE DEF Fitting
<1>4. Added(tab, specs) \in 0..Len(specs) /\ Fitting(Added(tab, specs))
  BY <1>2, <1>3
<1>5. QED
  BY <1>4 DEF Fitting

\* The tables of an edge.
Tables == [Keyed -> Seq(Spec0)]

\* The tables grow at their end by lines of their transform, within their limit;
\* if no line fails each is in the table of its transform.
LEMMA AddSpecsProperties ==
    ASSUME NEW tab \in Tables, \A t \in Keyed : Len(tab[t]) <= MaxSA,
           NEW specs \in Seq(Spec0)
    PROVE  /\ AddSpecs(tab, specs) \in Tables
           /\ \A t \in Keyed :
                /\ Len(tab[t]) <= Len(AddSpecs(tab, specs)[t])
                /\ Len(AddSpecs(tab, specs)[t]) <= MaxSA
                /\ \A i \in 1..Len(tab[t]) : AddSpecs(tab, specs)[t][i] = tab[t][i]
                /\ \A k \in Lines(AddSpecs(tab, specs)[t]) :
                      k \in Lines(tab[t]) \/ (k \in Lines(specs) /\ k.t = t)
           /\ Added(tab, specs) = Len(specs) =>
                \A k \in Lines(specs) : k.t \in Keyed /\ k \in Lines(AddSpecs(tab, specs)[k.t])
<1> DEFINE n == Added(tab, specs)
           added == SubSeq(specs, 1, n)
           T(t) == {k \in Lines(added) : k.t = t}
           chosen(t) == Select(added, T(t))
           new == AddSpecs(tab, specs)
<1>1. n \in 0..Len(specs) /\ Len(specs) \in Nat /\ \A i \in 1..n : Fits(tab, specs, i)
  BY AddedProperties, LenProperties
<1> HIDE DEF n
<1>2. added \in Seq(Spec0) /\ Len(added) = n /\ \A i \in 1..n : added[i] = specs[i]
  BY <1>1, Prefix
<1>3. Lines(added) \subseteq Lines(specs)
  <2>1. \A i \in 1..n : i \in 1..Len(specs)
    BY <1>1
  <2>2. QED
    BY <1>2, <2>1 DEF Lines
<1>4. new = [t \in Keyed |-> tab[t] \o chosen(t)]
  BY DEF AddSpecs, n
<1> HIDE DEF added, new
<1>5. ASSUME NEW t \in Keyed
      PROVE  /\ new[t] \in Seq(Spec0)
             /\ Len(tab[t]) <= Len(new[t]) /\ Len(new[t]) <= MaxSA
             /\ \A i \in 1..Len(tab[t]) : new[t][i] = tab[t][i]
             /\ \A k \in Lines(new[t]) : k \in Lines(tab[t]) \/ (k \in Lines(specs) /\ k.t = t)
             /\ \A k \in T(t) : k \in Lines(new[t])
  <2>1. /\ chosen(t) \in Seq(Spec0)
        /\ Len(chosen(t)) = Cardinality(Places(added, T(t), n))
        /\ \A x : (\E j \in 1..Len(chosen(t)) : chosen(t)[j] = x)
                    <=> x \in T(t) /\ \E j \in 1..n : added[j] = x
    <3> HIDE DEF T
    <3>1. chosen(t) \in Seq(Spec0) /\ Selection(chosen(t), added, T(t))
      BY <1>2, SelectProperties
    <3>2. QED
      BY <1>2, <3>1 DEF Selection
  <2> DEFINE c == chosen(t)
             a == tab[t]
             b == new[t]
  <2>2. a \in Seq(Spec0) /\ Len(a) \in Nat /\ Len(a) <= MaxSA /\ Len(c) \in Nat
    BY <2>1, LenProperties DEF Tables
  <2>3. b = a \o c
    BY <1>4
  <2>4. /\ b \in Seq(Spec0) /\ Len(b) = Len(a) + Len(c)
        /\ \A i \in 1..(Len(a) + Len(c)) : b[i] = IF i <= Len(a) THEN a[i] ELSE c[i - Len(a)]
    BY <2>1, <2>2, <2>3, ConcatProperties
  <2> HIDE DEF c, a, b
  <2>5. Len(b) <= MaxSA
    <3> DEFINE Room == {i \in Nat : i <= n => Len(a) + Cardinality(Places(added, T(t), i)) <= MaxSA}
    <3>1. 0 \in Room
      <4>1. Places(added, T(t), 0) = {}
        BY DEF Places
      <4>2. Cardinality({}) = 0
        BY FS_EmptySet
      <4>3. Len(a) + Cardinality(Places(added, T(t), 0)) = Len(a) + 0
        BY <4>1, <4>2
      <4>4. Len(a) + 0 <= MaxSA
        BY <2>2
      <4> HIDE DEF T
      <4>5. QED
        BY <4>3, <4>4
    <3>2. ASSUME NEW i \in Nat, i \in Room PROVE i + 1 \in Room
      <4> SUFFICES ASSUME i + 1 <= n
                   PROVE  Len(a) + Cardinality(Places(added, T(t), i + 1)) <= MaxSA
        OBVIOUS
      <4>1. i <= n /\ i + 1 \in 1..n
        BY <1>1
      <4>2. Len(a) + Cardinality(Places(added, T(t), i)) <= MaxSA
        BY <3>2, <4>1
      <4>3. /\ Cardinality(Places(added, T(t), i)) \in Nat
            /\ added[i + 1] \in T(t) =>
                 Cardinality(Places(added, T(t), i + 1)) = Cardinality(Places(added, T(t), i)) + 1
            /\ added[i + 1] \notin T(t) =>
                 Cardinality(Places(added, T(t), i + 1)) = Cardinality(Places(added, T(t), i))
        BY PlacesNext
      <4>4. CASE added[i + 1] \in T(t)
        <5>1. Places(added, T(t), i) = {j \in 1..i : specs[j].t = t}
          <6>1. \A j \in 1..i : j \in 1..n
            BY <1>1, <4>1
          <6>2. \A j \in 1..i : added[j] = specs[j] /\ added[j] \in Lines(added)
            BY <1>2, <6>1 DEF Lines
          <6>3. QED
            BY <6>2 DEF Places
        <5>2. specs[i + 1].t = t /\ Fits(tab, specs, i + 1) /\ (i + 1) - 1 = i
          BY <1>1, <1>2, <4>1, <4>4
        <5>3. Len(a) + Cardinality(Places(added, T(t), i)) < MaxSA
          BY <5>1, <5>2 DEF Fits, a
        <5>4. QED
          BY <2>2, <4>3, <4>4, <5>3, KeysAssumption
      <4>5. CASE added[i + 1] \notin T(t)
        BY <4>2, <4>3, <4>5
      <4>6. QED
        BY <4>4, <4>5
    <3>3. n \in Room
      <4> HIDE DEF Room
      <4>1. QED
        BY <1>1, <3>1, <3>2, SetInduction
    <3>4. QED
      BY <1>1, <2>1, <2>4, <3>3 DEF c
  <2>6. \A i \in 1..Len(a) : b[i] = a[i]
    BY <2>2, <2>4
  <2>7. \A k \in Lines(b) : k \in Lines(a) \/ (k \in Lines(specs) /\ k.t = t)
    <3> SUFFICES ASSUME NEW k \in Lines(b), k \notin Lines(a)
                 PROVE  k \in Lines(specs) /\ k.t = t
      OBVIOUS
    <3>1. PICK i \in 1..(Len(a) + Len(c)) : b[i] = k
      BY <2>4 DEF Lines
    <3>2. ~ (i <= Len(a))
      <4>1. i <= Len(a) => i \in 1..Len(a) /\ b[i] = a[i]
        BY <2>2, <2>6
      <4>2. QED
        BY <3>1, <4>1 DEF Lines
    <3>3. i - Len(a) \in 1..Len(c) /\ c[i - Len(a)] = k
      BY <2>2, <2>4, <3>1, <3>2
    <3>4. k \in T(t)
      BY <2>1, <3>3 DEF c
    <3>5. QED
      BY <1>3, <3>4
  <2>8. \A k \in T(t) : k \in Lines(b)
    <3> SUFFICES ASSUME NEW k \in T(t) PROVE k \in Lines(b)
      OBVIOUS
    <3>1. \E j \in 1..n : added[j] = k
      BY <1>2 DEF Lines
    <3>2. PICK j \in 1..Len(c) : c[j] = k
      BY <2>1, <3>1 DEF c
    <3>3. Len(a) + j \in 1..(Len(a) + Len(c)) /\ ~ (Len(a) + j <= Len(a)) /\ (Len(a) + j) - Len(a) = j
      BY <2>2
    <3>4. b[Len(a) + j] = k
      BY <2>4, <3>2, <3>3
    <3>5. QED
      BY <2>4, <3>3, <3>4 DEF Lines
  <2>9. Len(a) <= Len(b)
    BY <2>2, <2>4
  <2>10. QED
    BY <2>4, <2>5, <2>6, <2>7, <2>8, <2>9 DEF a, b
<1>6. new \in Tables
  <2>1. new = [t \in Keyed |-> new[t]]
    BY <1>4
  <2>2. QED
    BY <1>5, <2>1 DEF Tables
<1>7. ASSUME n = Len(specs), NEW k \in Lines(specs)
      PROVE  k.t \in Keyed /\ k \in Lines(new[k.t])
  <2>1. PICK j \in 1..n : k = specs[j]
    BY <1>7 DEF Lines
  <2>2. k.t \in Keyed
    BY <1>1, <2>1 DEF Fits
  <2>3. k \in T(k.t)
    BY <1>2, <2>1 DEF Lines
  <2>4. QED
    BY <1>5, <2>2, <2>3
<1>8. QED
  BY <1>5, <1>6, <1>7 DEF n, new

---------------------------------------------------------------------------
(* One edge.                                                               *)

\* The types of an edge, with the limits TypeOK states.
EdgeOK(r) ==
    /\ r \in Edge
    /\ \A t \in Keyed : Len(r.table[t]) <= MaxSA
    /\ r.tx \in Keyed => r.txSa[r.tx] <= Len(r.table[r.tx])

\* What is in a table comes from a file, and is for its transform.
Entries(r) == \A t \in Keyed : \A k \in Lines(r.table[t]) : k \in AllLines /\ k.t = t

\* All keys of the files that were loaded, but those that expired, are there.
HasRead(r, c) ==
    \A v \in r.read : \A k \in Lines(Files[v]) :
        k.until > c => k.t \in Keyed /\ k \in Lines(r.table[k.t])

\* The key in use was valid since the last tick, if there was a valid key at all.
Ticked(r, c) ==
    /\ r.last <= c
    /\ ~r.starved => r.tx \in Keyed /\ \E d \in r.last..c : Valid(TxKey(r), d)

\* No key is valid.
NoneValid(r, c) == \A t \in Keyed : ValidSas(r, t, c) = {}

\* r has the tables, and goes on with what it had.
SameBut(r, q) == q.table = r.table /\ q.read = r.read /\ q.up = r.up

\* A key that is chosen is in its table, and valid; without one the choice stays.
LEMMA ChosenProperties ==
    ASSUME NEW r \in Edge, NEW t \in Keyed, NEW c
    PROVE  /\ ChosenSa(r, t, c) \in Nat \ {0}
           /\ ValidSas(r, t, c) = {} => ChosenSa(r, t, c) = r.txSa[t]
           /\ ValidSas(r, t, c) # {} => /\ ChosenSa(r, t, c) \in 1..Len(r.table[t])
                                        /\ Valid(r.table[t][ChosenSa(r, t, c)], c)
<1>1. CASE ValidSas(r, t, c) = {}
  BY <1>1 DEF ChosenSa, Edge
<1>2. CASE ValidSas(r, t, c) # {}
  <2> DEFINE V == ValidSas(r, t, c)
  <2>1. V \in SUBSET Nat
    BY DEF ValidSas
  <2> HIDE DEF V
  <2>2. \E i \in V : \A j \in V : i <= j
    BY <1>2, <2>1, LeastNatural DEF V
  <2>3. ChosenSa(r, t, c) = CHOOSE i \in V : \A j \in V : i <= j
    BY <1>2 DEF ChosenSa, V
  <2>4. ChosenSa(r, t, c) \in V
    BY <2>2, <2>3
  <2>5. QED
    BY <1>2, <2>4 DEF V, ValidSas
<1>3. QED
  BY <1>1, <1>2

\* n2n_tick_transop takes a valid key if there is one; else it changes nothing.
LEMMA TickProperties ==
    ASSUME NEW r, EdgeOK(r), NEW c \in Nat
    PROVE  LET q == TickTransop(r, c)
           IN  /\ EdgeOK(q) /\ SameBut(r, q) /\ q.last = r.last
               /\ ~q.starved => q.tx \in Keyed /\ Valid(TxKey(q), c)
               /\ NoneValid(r, c) => q.tx = r.tx /\ q.txSa = r.txSa
<1> DEFINE q == TickTransop(r, c)
           can == {t \in Keyed : ValidSas(r, t, c) # {}}
           txSa == [t \in Keyed |-> ChosenSa(r, t, c)]
           tx == IF "TF" \in can THEN "TF" ELSE IF "AES" \in can THEN "AES" ELSE r.tx
<1>1. r \in Edge
  BY DEF EdgeOK
<1>2. q = [r EXCEPT !.txSa = txSa, !.tx = tx, !.starved = (can = {})]
  BY DEF TickTransop
<1>3. txSa \in [Keyed -> Nat \ {0}]
  BY <1>1, ChosenProperties
<1>4. tx \in Keyed \cup {Null}
  BY <1>1 DEF Edge, Keyed
<1>5. (can # {} => tx \in can) /\ (can = {} => tx = r.tx) /\ can \subseteq Keyed
  BY DEF Keyed
<1>6. \A t \in can : txSa[t] \in 1..Len(r.table[t]) /\ Valid(r.table[t][txSa[t]], c)
  BY <1>1, ChosenProperties
<1>7. \A t \in Keyed \ can : txSa[t] = r.txSa[t]
  BY <1>1, ChosenProperties
<1> HIDE DEF tx, txSa, can, q
<1>8. /\ q \in Edge /\ q.txSa = txSa /\ q.tx = tx /\ q.starved = (can = {})
      /\ q.table = r.table /\ q.read = r.read /\ q.up = r.up /\ q.last = r.last
  BY <1>1, <1>2, <1>3, <1>4 DEF Edge
<1>9. EdgeOK(q)
  <2>1. tx \in Keyed => txSa[tx] <= Len(r.table[tx])
    <3>1. CASE can = {}
      BY <1>5, <1>7, <3>1 DEF EdgeOK
    <3>2. CASE can # {}
      <4>1. tx \in can /\ tx \in Keyed
        BY <1>5, <3>2
      <4>2. txSa[tx] \in 1..Len(r.table[tx]) /\ Len(r.table[tx]) \in Nat
        BY <1>1, <1>6, <4>1, LenProperties DEF Edge
      <4>3. QED
        BY <4>2
    <3>3. QED
      BY <3>1, <3>2
  <2>2. QED
    BY <1>8, <2>1 DEF EdgeOK
<1>10. ~q.starved => q.tx \in Keyed /\ Valid(TxKey(q), c)
  <2> SUFFICES ASSUME ~q.starved PROVE q.tx \in Keyed /\ Valid(TxKey(q), c)
    OBVIOUS
  <2>1. tx \in can
    BY <1>5, <1>8
  <2>2. TxKey(q) = r.table[tx][txSa[tx]]
    BY <1>5, <1>8, <2>1 DEF TxKey, Keyed, Null
  <2>3. QED
    BY <1>5, <1>6, <1>8, <2>1, <2>2
<1>11. NoneValid(r, c) => q.tx = r.tx /\ q.txSa = r.txSa
  <2> SUFFICES ASSUME NoneValid(r, c) PROVE q.tx = r.tx /\ q.txSa = r.txSa
    OBVIOUS
  <2>1. can = {}
    BY DEF NoneValid, can
  <2>2. \A t \in Keyed : txSa[t] = r.txSa[t]
    BY <1>7, <2>1
  <2>3. r.txSa \in [Keyed -> Nat \ {0}]
    BY <1>1 DEF Edge
  <2>4. QED
    BY <1>3, <1>5, <1>8, <2>1, <2>2, <2>3
<1>12. QED
  BY <1>8, <1>9, <1>10, <1>11 DEF q, SameBut

\* After run_loop looked at the keys, the last look was within the interval.
LEMMA LoopProperties ==
    ASSUME NEW r, EdgeOK(r), NEW c \in Nat
    PROVE  LET q == LoopTick(r, c)
           IN  /\ EdgeOK(q) /\ SameBut(r, q)
               /\ Ticked(r, c) => Ticked(q, c) /\ c - q.last <= TickInterval
               /\ NoneValid(r, c) => q.tx = r.tx /\ q.txSa = r.txSa
<1> DEFINE q == LoopTick(r, c)
           p == TickTransop(r, c)
<1>1. r \in Edge /\ r.last \in Nat /\ TickInterval \in Nat
  BY KeysAssumption DEF EdgeOK, Edge
<1>2. CASE c - r.last > TickInterval
  <2>1. q = [p EXCEPT !.last = c]
    BY <1>2 DEF LoopTick
  <2>2. /\ EdgeOK(p) /\ SameBut(r, p)
        /\ ~p.starved => p.tx \in Keyed /\ Valid(TxKey(p), c)
        /\ NoneValid(r, c) => p.tx = r.tx /\ p.txSa = r.txSa
    BY TickProperties
  <2> HIDE DEF p
  <2>3. /\ q \in Edge /\ q.last = c /\ q.table = p.table /\ q.read = p.read /\ q.up = p.up
        /\ q.tx = p.tx /\ q.txSa = p.txSa /\ q.starved = p.starved
    BY <2>1, <2>2 DEF EdgeOK, Edge
  <2> HIDE DEF q
  <2>4. EdgeOK(q) /\ SameBut(r, q)
    BY <2>2, <2>3 DEF EdgeOK, SameBut
  <2>5. TxKey(q) = TxKey(p)
    BY <2>3 DEF TxKey
  <2>6. Ticked(q, c) /\ c - q.last <= TickInterval
    BY <1>1, <2>2, <2>3, <2>5 DEF Ticked
  <2>7. QED
    BY <2>2, <2>3, <2>4, <2>6 DEF q
<1>3. CASE ~ (c - r.last > TickInterval)
  BY <1>1, <1>3 DEF LoopTick, SameBut
<1>4. QED
  BY <1>2, <1>3

\* edge_init_keyschedule: the tables grow; an edge that could load the file has
\* all keys of it that have not expired.
LEMMA ScheduleProperties ==
    ASSUME NEW r, EdgeOK(r), Entries(r), NEW c \in Nat, file \in 1..Len(Files)
    PROVE  LET q == Schedule(r, c).edge
           IN  /\ EdgeOK(q) /\ Entries(q) /\ q.up = r.up /\ q.last = r.last
               /\ IF Schedule(r, c).ok
                  THEN ~q.starved => q.tx \in Keyed /\ Valid(TxKey(q), c)
                  ELSE q.starved = r.starved /\ q.tx = r.tx /\ TxKey(q) = TxKey(r)
               /\ (\A v \in 1..Len(Files) : Len(Files[v]) <= MaxSpecs) /\ HasRead(r, c)
                    => HasRead(q, c)
               /\ NoneValid(q, c) => /\ NoneValid(r, c) /\ q.tx = r.tx
                                      /\ TxKey(q) = TxKey(r)
<1> DEFINE f == Files[file]
           specs == ReadKeyfile(f, c)
           table == AddSpecs(r.table, specs)
           loaded == [r EXCEPT !.table = AddSpecs(@, specs)]
           ok == specs # <<>> /\ Added(r.table, specs) = Len(specs)
           done == [loaded EXCEPT !.read = @ \cup {file}]
           q == Schedule(r, c).edge
<1>1. r \in Edge /\ r.table \in Tables /\ f \in Seq(Spec0)
  <2>1. f \in Seq(Spec0)
    BY KeysAssumption, ElementOfSeq
  <2>2. QED
    BY <2>1 DEF EdgeOK, Edge, Tables
<1>2. /\ specs \in Seq(Spec0) /\ Lines(specs) \subseteq Lines(f)
      /\ Len(f) <= MaxSpecs => \A k \in Lines(f) : k.until > c => k \in Lines(specs)
  BY <1>1, ReadProperties
<1>3. /\ Schedule(r, c).ok = ok
      /\ q = IF ok THEN TickTransop(done, c) ELSE loaded
  BY DEF Schedule
<1> HIDE DEF q, ok
<1>4. \A k \in Lines(f) : k \in AllLines
  BY DEF AllLines
<1> HIDE DEF specs
<1>5. /\ table \in Tables
      /\ \A t \in Keyed :
           /\ Len(r.table[t]) <= Len(table[t]) /\ Len(table[t]) <= MaxSA
           /\ \A i \in 1..Len(r.table[t]) : table[t][i] = r.table[t][i]
           /\ \A k \in Lines(table[t]) : k \in Lines(r.table[t]) \/ (k \in Lines(specs) /\ k.t = t)
      /\ Added(r.table, specs) = Len(specs) =>
           \A k \in Lines(specs) : k.t \in Keyed /\ k \in Lines(table[k.t])
  <2>1. \A t \in Keyed : Len(r.table[t]) <= MaxSA
    BY DEF EdgeOK
  <2> HIDE DEF f, loaded, done
  <2>2. QED
    BY <1>1, <1>2, <2>1, AddSpecsProperties
<1>6. loaded = [r EXCEPT !.table = table]
  OBVIOUS
<1> HIDE DEF table
<1>7. /\ loaded \in Edge /\ loaded.table = table /\ loaded.read = r.read /\ loaded.up = r.up
      /\ loaded.last = r.last /\ loaded.tx = r.tx /\ loaded.txSa = r.txSa
      /\ loaded.starved = r.starved
  BY <1>1, <1>5, <1>6 DEF Edge, Tables
<1>8. /\ done \in Edge /\ done.table = table /\ done.read = r.read \cup {file} /\ done.up = r.up
      /\ done.last = r.last /\ done.tx = r.tx /\ done.txSa = r.txSa
  BY <1>7 DEF Edge
<1> HIDE DEF loaded, done
<1>9. \A t \in Keyed : /\ Len(r.table[t]) \in Nat /\ Len(table[t]) \in Nat
                       /\ Lines(r.table[t]) \subseteq Lines(table[t])
  <2> SUFFICES ASSUME NEW t \in Keyed
               PROVE  /\ Len(r.table[t]) \in Nat /\ Len(table[t]) \in Nat
                      /\ Lines(r.table[t]) \subseteq Lines(table[t])
    OBVIOUS
  <2>1. Len(r.table[t]) \in Nat /\ Len(table[t]) \in Nat
    BY <1>1, <1>5, LenProperties DEF Tables
  <2>2. \A i \in 1..Len(r.table[t]) : i \in 1..Len(table[t]) /\ table[t][i] = r.table[t][i]
    BY <1>5, <2>1
  <2>3. QED
    BY <2>1, <2>2 DEF Lines
<1>10. r.tx \in Keyed =>
          /\ r.txSa[r.tx] <= Len(table[r.tx])
          /\ table[r.tx][r.txSa[r.tx]] = r.table[r.tx][r.txSa[r.tx]]
  <2> SUFFICES ASSUME r.tx \in Keyed
               PROVE  /\ r.txSa[r.tx] <= Len(table[r.tx])
                      /\ table[r.tx][r.txSa[r.tx]] = r.table[r.tx][r.txSa[r.tx]]
    OBVIOUS
  <2>1. r.txSa[r.tx] \in Nat \ {0} /\ r.txSa[r.tx] <= Len(r.table[r.tx])
    BY <1>1 DEF EdgeOK, Edge
  <2>2. r.txSa[r.tx] \in 1..Len(r.table[r.tx]) /\ Len(r.table[r.tx]) <= Len(table[r.tx])
    BY <1>5, <1>9, <2>1
  <2>3. table[r.tx][r.txSa[r.tx]] = r.table[r.tx][r.txSa[r.tx]]
    BY <1>5, <2>2
  <2>4. Len(r.table[r.tx]) \in Nat /\ Len(table[r.tx]) \in Nat
    BY <1>9
  <2>5. QED
    BY <2>1, <2>2, <2>3, <2>4
<1>11. EdgeOK(loaded) /\ EdgeOK(done)
  BY <1>5, <1>7, <1>8, <1>10 DEF EdgeOK
<1>12. /\ EdgeOK(q) /\ q.table = table /\ q.up = r.up /\ q.last = r.last
       /\ ok => q.read = r.read \cup {file}
       /\ ~ok => q.read = r.read
       /\ ok => (~q.starved => q.tx \in Keyed /\ Valid(TxKey(q), c))
       /\ ~ok => q.starved = r.starved
       /\ (~ok \/ NoneValid(q, c)) => q.tx = r.tx /\ q.txSa = r.txSa
  <2>1. CASE ok
    <3> DEFINE p == TickTransop(done, c)
    <3>1. /\ EdgeOK(p) /\ SameBut(done, p) /\ p.last = done.last
          /\ ~p.starved => p.tx \in Keyed /\ Valid(TxKey(p), c)
          /\ NoneValid(done, c) => p.tx = done.tx /\ p.txSa = done.txSa
      BY <1>11, TickProperties
    <3>2. q = p
      BY <1>3, <2>1
    <3> HIDE DEF p
    <3>3. NoneValid(q, c) => NoneValid(done, c)
      BY <3>1, <3>2 DEF NoneValid, ValidSas, SameBut
    <3>4. QED
      BY <1>8, <2>1, <3>1, <3>2, <3>3 DEF SameBut
  <2>2. CASE ~ok
    BY <1>3, <1>7, <1>11, <2>2
  <2>3. QED
    BY <2>1, <2>2
<1>13. Entries(q)
  BY <1>2, <1>4, <1>5, <1>12 DEF Entries
<1>14. (~ok \/ NoneValid(q, c)) => TxKey(q) = TxKey(r)
  <2> SUFFICES ASSUME ~ok \/ NoneValid(q, c) PROVE TxKey(q) = TxKey(r)
    OBVIOUS
  <2>1. q.tx = r.tx /\ q.txSa = r.txSa /\ q.table = table
    BY <1>12
  <2>2. r.tx \in Keyed \/ r.tx = Null
    BY <1>1 DEF Edge
  <2>3. QED
    BY <1>10, <2>1, <2>2 DEF TxKey
<1>15. ASSUME \A v \in 1..Len(Files) : Len(Files[v]) <= MaxSpecs, HasRead(r, c)
       PROVE  HasRead(q, c)
  <2> SUFFICES ASSUME NEW v \in q.read, NEW k \in Lines(Files[v]), k.until > c
               PROVE  k.t \in Keyed /\ k \in Lines(table[k.t])
    BY <1>12 DEF HasRead
  <2>1. CASE v \in r.read
    BY <1>9, <1>15, <2>1 DEF HasRead
  <2>2. CASE v \notin r.read
    <3>1. ok /\ v = file
      BY <1>12, <2>2
    <3>2. k \in Lines(specs)
      BY <1>2, <1>15, <3>1
    <3>3. QED
      BY <1>5, <3>1, <3>2 DEF ok
  <2>3. QED
    BY <2>1, <2>2
<1>16. NoneValid(q, c) => NoneValid(r, c)
  <2> SUFFICES ASSUME NEW t \in Keyed, NEW i \in ValidSas(r, t, c)
               PROVE  i \in ValidSas(q, t, c)
    BY DEF NoneValid
  <2>1. i \in 1..Len(r.table[t]) /\ Valid(r.table[t][i], c)
    BY DEF ValidSas
  <2>2. Len(r.table[t]) \in Nat /\ Len(table[t]) \in Nat /\ Len(r.table[t]) <= Len(table[t])
    BY <1>5, <1>9
  <2>3. i \in 1..Len(table[t]) /\ table[t][i] = r.table[t][i]
    BY <1>5, <2>1, <2>2
  <2>4. QED
    BY <1>12, <2>1, <2>3 DEF ValidSas
<1>17. QED
  BY <1>3, <1>12, <1>13, <1>14, <1>15, <1>16 DEF q

---------------------------------------------------------------------------
(* All edges.                                                              *)

\* No version of the file is longer than an edge can read.
FilesFit == \A v \in 1..Len(Files) : Len(Files[v]) <= MaxSpecs

\* What holds of an edge whenever its clock shows c.
Kept(r, c) ==
    /\ EdgeOK(r) /\ Entries(r)
    /\ FilesFit => HasRead(r, c)
    /\ r.up => Ticked(r, c)

\* The inductive invariant.
KeysInv ==
    /\ \A e \in Edges : Kept(eee[e], Clock(e))
    /\ eee \in [Edges -> Edge]
    /\ file \in 1..Len(Files)
    /\ sent \subseteq AllLines \cup {Clear}
    /\ now \in Nat

\* An edge that has not started has nothing.
LEMMA EmptyProperties ==
    ASSUME NEW c
    PROVE  EdgeOK(Empty) /\ Entries(Empty) /\ HasRead(Empty, c) /\ ~Empty.up /\ Empty.last = 0
<1>1. <<>> \in Seq(Spec0) /\ Len(<<>>) = 0 /\ Lines(<<>>) = {}
  <2>1. <<>> \in Seq(Spec0) /\ Len(<<>>) = 0
    BY EmptySeq
  <2>2. 1..0 = {}
    OBVIOUS
  <2>3. QED
    BY <2>1, <2>2 DEF Lines
<1>2. Empty \in Edge
  BY <1>1 DEF Empty, Edge
<1>3. \A t \in Keyed : Empty.table[t] = <<>>
  BY DEF Empty
<1>4. Empty.tx = Null /\ Empty.read = {} /\ ~Empty.up /\ Empty.last = 0
  BY DEF Empty
<1>5. EdgeOK(Empty)
  BY <1>1, <1>2, <1>3, <1>4, KeysAssumption DEF EdgeOK, Keyed, Null
<1>6. Entries(Empty)
  BY <1>1, <1>3 DEF Entries
<1>7. QED
  BY <1>4, <1>5, <1>6 DEF HasRead

\* The key a frame is encoded with is from a file, if it is encoded at all.
LEMMA TxKeyType ==
    ASSUME NEW r, EdgeOK(r), Entries(r)
    PROVE  TxKey(r) \in AllLines \cup {Clear}
<1>1. CASE r.tx = Null
  BY <1>1 DEF TxKey
<1>2. CASE r.tx # Null
  <2>1. r.tx \in Keyed /\ r.txSa[r.tx] \in Nat \ {0} /\ r.table[r.tx] \in Seq(Spec0)
    BY <1>2 DEF EdgeOK, Edge
  <2>2. r.txSa[r.tx] \in 1..Len(r.table[r.tx])
    BY <2>1, LenProperties DEF EdgeOK
  <2>3. r.table[r.tx][r.txSa[r.tx]] \in Lines(r.table[r.tx])
    BY <2>2 DEF Lines
  <2>4. QED
    BY <1>2, <2>1, <2>3 DEF Entries, TxKey
<1>3. QED
  BY <1>1, <1>2

\* What an iteration of run_loop keeps.
LEMMA LoopKeeps ==
    ASSUME NEW r, NEW c \in Nat, Kept(r, c), r.up
    PROVE  LET q == LoopTick(r, c)
           IN  Kept(q, c) /\ q.up /\ c - q.last <= TickInterval
<1> DEFINE q == LoopTick(r, c)
<1>1. /\ EdgeOK(q) /\ SameBut(r, q)
      /\ Ticked(r, c) => Ticked(q, c) /\ c - q.last <= TickInterval
  BY LoopProperties DEF Kept
<1> HIDE DEF q
<1>2. Entries(q) /\ (HasRead(r, c) => HasRead(q, c)) /\ q.up
  BY <1>1 DEF Kept, Entries, HasRead, SameBut
<1>3. Kept(q, c) /\ q.up /\ c - q.last <= TickInterval
  BY <1>1, <1>2 DEF Kept
<1>4. QED
  BY <1>3 DEF q

\* What edge_init_keyschedule keeps, of an edge that runs or is about to.
LEMMA ScheduleKeeps ==
    ASSUME NEW r, NEW c \in Nat, Kept(r, c), file \in 1..Len(Files)
    PROVE  LET q == Schedule(r, c).edge
           IN  /\ Kept(q, c)
               /\ Schedule(r, c).ok /\ r.last <= c => Ticked(q, c)
<1> DEFINE q == Schedule(r, c).edge
           ok == Schedule(r, c).ok
<1>1. /\ EdgeOK(q) /\ Entries(q) /\ q.up = r.up /\ q.last = r.last
      /\ IF ok THEN ~q.starved => q.tx \in Keyed /\ Valid(TxKey(q), c)
               ELSE q.starved = r.starved /\ q.tx = r.tx /\ TxKey(q) = TxKey(r)
      /\ FilesFit /\ HasRead(r, c) => HasRead(q, c)
  BY ScheduleProperties DEF Kept, FilesFit
<1> HIDE DEF q, ok
<1>2. r.last \in Nat
  BY DEF Kept, EdgeOK, Edge
<1>3. ok /\ r.last <= c => Ticked(q, c)
  <2>1. r.last <= c => c \in r.last..c
    BY <1>2
  <2>2. QED
    BY <1>1, <2>1 DEF Ticked
<1>4. r.up => Ticked(q, c)
  <2> SUFFICES ASSUME r.up PROVE Ticked(q, c)
    OBVIOUS
  <2>1. Ticked(r, c)
    BY DEF Kept
  <2>2. CASE ok
    BY <1>3, <2>1, <2>2 DEF Ticked
  <2>3. CASE ~ok
    BY <1>1, <2>1, <2>3 DEF Ticked
  <2>4. QED
    BY <2>2, <2>3
<1>5. Kept(q, c)
  BY <1>1, <1>4 DEF Kept
<1>6. QED
  BY <1>3, <1>5 DEF q, ok

\* What holds when the clock shows c holds when it shows one second more.
LEMMA LaterKeeps ==
    ASSUME NEW r, NEW c \in Nat, Kept(r, c)
    PROVE  Kept(r, c + 1)
<1>1. r \in Edge /\ r.last \in Nat
  BY DEF Kept, EdgeOK, Edge
<1>2. HasRead(r, c) => HasRead(r, c + 1)
  <2> SUFFICES ASSUME HasRead(r, c), NEW v \in r.read, NEW k \in Lines(Files[v]),
                      k.until > c + 1
               PROVE  k.t \in Keyed /\ k \in Lines(r.table[k.t])
    BY DEF HasRead
  <2>1. v \in 1..Len(Files)
    BY <1>1 DEF Edge
  <2>2. Files[v] \in Seq(Spec0)
    BY <2>1, KeysAssumption, ElementOfSeq
  <2>3. k \in Spec0
    BY <2>2, ElementOfSeq DEF Lines
  <2>4. k.until \in Nat
    BY <2>3 DEF Spec0
  <2>5. k.until > c
    BY <2>4
  <2>6. QED
    BY <2>5 DEF HasRead
<1>3. Ticked(r, c) => Ticked(r, c + 1)
  <2>1. r.last..c \subseteq r.last..(c + 1) /\ (r.last <= c => r.last <= c + 1)
    BY <1>1
  <2>2. QED
    BY <2>1 DEF Ticked
<1>4. QED
  BY <1>2, <1>3 DEF Kept

\* The clocks show natural numbers.
LEMMA ClockType ==
    ASSUME now \in Nat, NEW e \in Edges
    PROVE  Clock(e) \in Nat
BY KeysAssumption DEF Clock

\* The program starts with no edge running.
LEMMA KeysInit == Init => KeysInv
<1> SUFFICES ASSUME Init PROVE KeysInv
  OBVIOUS
<1>1. \A c : Kept(Empty, c)
  BY EmptyProperties DEF Kept
<1>2. Empty \in Edge
  BY EmptyProperties DEF EdgeOK
<1>3. now \in Nat /\ file \in 1..Len(Files)
  <2>1. Len(Files) \in Nat /\ Len(Files) > 0 /\ Start \in Nat
    BY KeysAssumption, LenProperties
  <2>2. QED
    BY <2>1 DEF Init
<1>4. QED
  BY <1>1, <1>2, <1>3 DEF Init, KeysInv

\* A step of one edge leaves the others as they are.
LEMMA OneEdge ==
    ASSUME KeysInv, NEW e \in Edges, NEW q, eee' = [eee EXCEPT ![e] = q],
           Kept(q, Clock(e)), UNCHANGED <<file, now>>, sent' \subseteq AllLines \cup {Clear}
    PROVE  KeysInv'
<1>1. q \in Edge
  BY DEF Kept, EdgeOK
<1>2. eee' \in [Edges -> Edge] /\ eee'[e] = q /\ \A d \in Edges \ {e} : eee'[d] = eee[d]
  BY <1>1 DEF KeysInv
<1>3. ASSUME NEW d \in Edges PROVE Clock(d)' = Clock(d)
  BY DEF Clock
<1>4. ASSUME NEW d \in Edges PROVE Kept(eee'[d], Clock(d))
  BY <1>2 DEF KeysInv
<1>5. ASSUME NEW d \in Edges PROVE Kept(eee[d], Clock(d))'
  BY <1>3, <1>4 DEF Kept, EdgeOK, Entries, HasRead, Ticked
<1>6. QED
  BY <1>2, <1>5 DEF KeysInv

\* Every step of an edge, and of the world around it, keeps what holds of all
\* edges.
LEMMA KeysStep == KeysInv /\ [Next]_vars => KeysInv'
<1> SUFFICES ASSUME KeysInv, [Next]_vars PROVE KeysInv'
  OBVIOUS
<1> USE DEF KeysInv
<1>1. \A e \in Edges : Clock(e) \in Nat
  BY ClockType
<1>2. ASSUME NEW e \in Edges, Boot(e) PROVE KeysInv'
  <2> DEFINE s == Schedule(Empty, Clock(e))
             q == [s.edge EXCEPT !.up = TRUE]
  <2>1. Kept(Empty, Clock(e)) /\ Empty.last = 0
    BY EmptyProperties DEF Kept
  <2>2. Kept(s.edge, Clock(e)) /\ Ticked(s.edge, Clock(e))
    <3>1. s.ok /\ Empty.last <= Clock(e)
      BY <1>1, <1>2, <2>1 DEF Boot
    <3>2. QED
      BY <1>1, <2>1, <3>1, ScheduleKeeps
  <2>3. eee' = [eee EXCEPT ![e] = q] /\ UNCHANGED <<file, sent, now>>
    BY <1>2 DEF Boot
  <2> DEFINE p == s.edge
  <2> HIDE DEF p
  <2>4. p \in Edge
    BY <2>2 DEF Kept, EdgeOK, p
  <2>5. q = [p EXCEPT !.up = TRUE]
    BY DEF p
  <2> HIDE DEF q
  <2>6. /\ q \in Edge /\ q.table = p.table /\ q.txSa = p.txSa /\ q.tx = p.tx /\ q.last = p.last
        /\ q.read = p.read /\ q.starved = p.starved
    BY <2>4, <2>5 DEF Edge
  <2>7. TxKey(q) = TxKey(p)
    BY <2>6 DEF TxKey
  <2>8. Kept(p, Clock(e)) /\ Ticked(p, Clock(e))
    BY <2>2 DEF p
  <2>9. Kept(q, Clock(e))
    BY <2>6, <2>7, <2>8 DEF Kept, EdgeOK, Entries, HasRead, Ticked
  <2>10. QED
    BY <2>3, <2>9, OneEdge
<1>3. ASSUME NEW e \in Edges, eee[e].up
      PROVE  LET q == LoopTick(eee[e], Clock(e))
             IN  Kept(q, Clock(e)) /\ TxKey(q) \in AllLines \cup {Clear}
  <2> DEFINE q == LoopTick(eee[e], Clock(e))
  <2>1. Kept(q, Clock(e))
    BY <1>1, <1>3, LoopKeeps
  <2> HIDE DEF q
  <2>2. TxKey(q) \in AllLines \cup {Clear}
    BY <2>1, TxKeyType DEF Kept
  <2>3. QED
    BY <2>1, <2>2 DEF q
<1>4. ASSUME NEW e \in Edges, Send(e) PROVE KeysInv'
  <2> DEFINE q == LoopTick(eee[e], Clock(e))
  <2>1. /\ eee[e].up /\ eee' = [eee EXCEPT ![e] = q] /\ UNCHANGED <<file, now>>
        /\ sent' = sent \cup {TxKey(q)}
    BY <1>4 DEF Send
  <2>2. Kept(q, Clock(e)) /\ TxKey(q) \in AllLines \cup {Clear}
    BY <1>3, <2>1
  <2> HIDE DEF q
  <2>3. QED
    BY <2>1, <2>2, OneEdge
<1>5. ASSUME NEW e \in Edges, Reload(e) PROVE KeysInv'
  <2> DEFINE p == LoopTick(eee[e], Clock(e))
             q == Schedule(p, Clock(e)).edge
  <2>1. eee[e].up /\ eee' = [eee EXCEPT ![e] = q] /\ UNCHANGED <<file, now, sent>>
    BY <1>5 DEF Reload
  <2>2. Kept(p, Clock(e))
    BY <1>3, <2>1
  <2>3. Kept(q, Clock(e))
    <3> HIDE DEF p
    <3>1. QED
      BY <1>1, <2>2, ScheduleKeeps
  <2> HIDE DEF q
  <2>4. QED
    BY <2>1, <2>3, OneEdge
<1>6. ASSUME NEW e \in Edges, Loop(e) PROVE KeysInv'
  <2> DEFINE q == LoopTick(eee[e], Clock(e))
  <2>1. eee[e].up /\ eee' = [eee EXCEPT ![e] = q] /\ UNCHANGED <<file, now, sent>>
    BY <1>6 DEF Loop
  <2>2. Kept(q, Clock(e))
    BY <1>3, <2>1
  <2> HIDE DEF q
  <2>3. QED
    BY <2>1, <2>2, OneEdge
<1>7. ASSUME NEW e \in Edges, Stop(e) PROVE KeysInv'
  <2>1. Kept(Empty, Clock(e))
    BY EmptyProperties DEF Kept
  <2>2. QED
    BY <1>7, <2>1, OneEdge DEF Stop
<1>8. CASE Publish
  <2>1. file' \in 1..Len(Files)
    <3>1. Len(Files) \in Nat
      BY KeysAssumption, LenProperties
    <3>2. QED
      BY <1>8, <3>1 DEF Publish
  <2>2. UNCHANGED <<eee, sent, now>>
    BY <1>8 DEF Publish
  <2>3. \A e \in Edges : Kept(eee[e], Clock(e))'
    BY <2>2 DEF Kept, EdgeOK, Entries, HasRead, Ticked, Clock
  <2>4. QED
    BY <2>1, <2>2, <2>3
<1>9. CASE Tick
  <2>1. now' = now + 1 /\ UNCHANGED <<eee, file, sent>>
    BY <1>9 DEF Tick
  <2>2. \A e \in Edges : Clock(e)' = Clock(e) + 1
    BY <2>1, KeysAssumption DEF Clock
  <2>3. \A e \in Edges : Kept(eee[e], Clock(e) + 1)
    BY <1>1, LaterKeeps
  <2>4. \A e \in Edges : Kept(eee[e], Clock(e))'
    BY <2>1, <2>2, <2>3 DEF Kept, EdgeOK, Entries, HasRead, Ticked
  <2>5. QED
    BY <2>1, <2>4
<1>10. CASE UNCHANGED vars
  <2>1. UNCHANGED <<eee, file, sent, now>>
    BY <1>10 DEF vars
  <2>2. \A e \in Edges : Kept(eee[e], Clock(e))'
    BY <2>1 DEF Kept, EdgeOK, Entries, HasRead, Ticked, Clock
  <2>3. QED
    BY <2>1, <2>2
<1>11. QED
  BY <1>2, <1>4, <1>5, <1>6, <1>7, <1>8, <1>9, <1>10 DEF Next

\* Hence it holds at all times.
LEMMA KeysInvariant == Spec => []KeysInv
<1>1. Init => KeysInv
  BY KeysInit
<1>2. KeysInv /\ [Next]_vars => KeysInv'
  BY KeysStep
<1>3. QED
  BY <1>1, <1>2, PTL DEF Spec

---------------------------------------------------------------------------
(* The properties.                                                         *)

\* The variables have their types, the tables of n2n_transform_tf and
\* transop_aes_t keep to their size, and the key in use is in its table,
\* whatever the files hold and however often they are loaded.
THEOREM TypeCorrect == Spec => []TypeOK
<1>1. KeysInv => TypeOK
  BY DEF KeysInv, Kept, EdgeOK, TypeOK
<1>2. QED
  BY <1>1, KeysInvariant, PTL

\* twofish_find_sa finds the key itself if the table has it.
LEMMA FindProperties ==
    ASSUME NEW r, EdgeOK(r), Entries(r), NEW k \in AllLines, k.t \in Keyed,
           k \in Lines(r.table[k.t])
    PROVE  Decodes(r, k)
<1> DEFINE tab == r.table[k.t]
           same == {i \in 1..Len(tab) : tab[i].sa = k.sa}
<1>1. PICK j \in 1..Len(tab) : tab[j] = k
  BY DEF Lines
<1>2. same # {} /\ same \in SUBSET Nat
  BY <1>1
<1>3. FindSa(r, k) = IF same = {} THEN 0 ELSE CHOOSE i \in same : \A n \in same : i <= n
  BY DEF FindSa
<1> HIDE DEF same
<1>4. \E i \in same : \A n \in same : i <= n
  BY <1>2, LeastNatural
<1>5. FindSa(r, k) \in same
  BY <1>2, <1>3, <1>4
<1> DEFINE i == FindSa(r, k)
<1> HIDE DEF i
<1>6. i \in 1..Len(tab) /\ tab[i].sa = k.sa
  BY <1>5 DEF same, i
<1>7. tab[i] \in AllLines /\ tab[i].t = k.t
  BY <1>6 DEF Entries, Lines
<1>8. tab[i] = k
  BY <1>6, <1>7, SaAssumption
<1>9. QED
  BY <1>6, <1>8 DEF Decodes, i

\* An edge that loaded a schedule decodes every packet encoded with an unexpired
\* key of it: no skew of the clocks, no roll, restart or reload, not even one
\* that fails half-way, loses a packet.
THEOREM AllDecode == ASSUME FilesFit PROVE Spec => []Decodable
<1>1. KeysInv => Decodable
  <2> SUFFICES ASSUME KeysInv, NEW k \in sent \ {Clear}, NEW e \in Edges, eee[e].up,
                      k.until > Clock(e), NEW v \in eee[e].read, k \in Lines(Files[v])
               PROVE  Decodes(eee[e], k)
    BY DEF Decodable
  <2>1. Kept(eee[e], Clock(e)) /\ k \in AllLines
    BY DEF KeysInv
  <2>2. HasRead(eee[e], Clock(e))
    BY <2>1, FilesFit DEF Kept
  <2>3. k.t \in Keyed /\ k \in Lines(eee[e].table[k.t])
    BY <2>2 DEF HasRead
  <2>4. QED
    BY <2>1, <2>3, FindProperties DEF Kept
<1>2. QED
  BY <1>1, KeysInvariant, PTL

\* tf_choose_tx_sa and aes_choose_tx_sa give a key that was valid at most
\* TRANSOP_TICK_INTERVAL ago, unless n2n_tick_transop found none at all.
THEOREM KeyIsCurrent == Spec => TxKeyCurrent
<1>1. KeysInv /\ [Next]_vars =>
        [\A e \in Edges :
            Send(e) =>
              \/ \E c \in (Clock(e) - TickInterval)..Clock(e) : Valid(TxKey(eee'[e]), c)
              \/ eee'[e].starved]_vars
  <2> SUFFICES ASSUME KeysInv, NEW e \in Edges, Send(e), ~eee'[e].starved
               PROVE  \E c \in (Clock(e) - TickInterval)..Clock(e) : Valid(TxKey(eee'[e]), c)
    OBVIOUS
  <2> DEFINE q == LoopTick(eee[e], Clock(e))
  <2>1. eee'[e] = q /\ eee[e].up
    BY DEF Send, KeysInv
  <2>2. Clock(e) \in Nat /\ TickInterval \in Nat
    BY ClockType, KeysAssumption DEF KeysInv
  <2>3. Kept(q, Clock(e)) /\ q.up /\ Clock(e) - q.last <= TickInterval
    BY <2>1, <2>2, LoopKeeps DEF KeysInv
  <2> HIDE DEF q
  <2>4. PICK d \in q.last..Clock(e) : Valid(TxKey(q), d)
    BY <2>1, <2>3 DEF Kept, Ticked
  <2>5. q.last \in Nat
    BY <2>3 DEF Kept, EdgeOK, Edge
  <2>6. d \in (Clock(e) - TickInterval)..Clock(e)
    BY <2>2, <2>3, <2>5
  <2>7. QED
    BY <2>1, <2>4, <2>6
<1>2. QED
  BY <1>1, KeysInvariant, PTL DEF Spec, TxKeyCurrent

\* What the man page promises of an edge whose keys have all become invalid: it
\* goes on with the last valid one, through every tick and reload.
THEOREM LastKeyIsKept == Spec => KeepsLastKey
<1>1. KeysInv /\ [Next]_vars =>
        [\A e \in Edges :
            /\ eee[e].up /\ eee'[e].up /\ eee[e].tx # Null
            /\ \A t \in Keyed : ValidSas(eee'[e], t, Clock(e)) = {}
            => TxKey(eee'[e]) = TxKey(eee[e])]_vars
  <2> SUFFICES ASSUME KeysInv, Next, NEW e \in Edges, eee[e].up, eee'[e].up,
                      NoneValid(eee'[e], Clock(e))
               PROVE  TxKey(eee'[e]) = TxKey(eee[e])
    BY DEF NoneValid
  <2> DEFINE r == eee[e]
             c == Clock(e)
             p == LoopTick(r, c)
  <2>1. c \in Nat /\ Kept(r, c) /\ eee \in [Edges -> Edge]
    BY ClockType DEF KeysInv
  <2>2. Kept(p, c) /\ (NoneValid(p, c) => TxKey(p) = TxKey(r))
    <3>1. Kept(p, c)
      BY <2>1, LoopKeeps
    <3>2. SameBut(r, p) /\ (NoneValid(r, c) => p.tx = r.tx /\ p.txSa = r.txSa)
      BY <2>1, LoopProperties DEF Kept
    <3> HIDE DEF p
    <3>3. NoneValid(p, c) => NoneValid(r, c)
      BY <3>2 DEF NoneValid, ValidSas, SameBut
    <3>4. QED
      BY <3>1, <3>2, <3>3 DEF TxKey, SameBut
  <2>3. CASE eee'[e] = eee[e]
    BY <2>3
  <2>4. CASE Send(e) \/ Loop(e)
    <3>1. eee'[e] = p
      BY <2>1, <2>4 DEF Send, Loop
    <3>2. QED
      BY <2>2, <3>1
  <2>5. CASE Reload(e)
    <3> DEFINE q == Schedule(p, c).edge
    <3>1. eee'[e] = q
      BY <2>1, <2>5 DEF Reload
    <3>2. NoneValid(q, c) => NoneValid(p, c) /\ TxKey(q) = TxKey(p)
      <4> HIDE DEF p, c
      <4>1. EdgeOK(p) /\ Entries(p) /\ c \in Nat /\ file \in 1..Len(Files)
        BY <2>1, <2>2 DEF Kept, KeysInv
      <4>2. QED
        BY <4>1, ScheduleProperties
    <3>3. QED
      BY <2>2, <3>1, <3>2
  <2>6. CASE Stop(e)
    BY <2>1, <2>6 DEF Stop, Empty
  <2>7. ASSUME NEW d \in Edges, Boot(d) \/ Send(d) \/ Reload(d) \/ Loop(d) \/ Stop(d), d # e
        PROVE  eee'[e] = eee[e]
    BY <2>1, <2>7 DEF Boot, Send, Reload, Loop, Stop
  <2>8. ~Boot(e)
    BY DEF Boot
  <2>9. Publish \/ Tick => eee'[e] = eee[e]
    BY DEF Publish, Tick
  <2>10. QED
    BY <2>3, <2>4, <2>5, <2>6, <2>7, <2>8, <2>9 DEF Next
<1>2. QED
  BY <1>1, KeysInvariant, PTL DEF Spec, KeepsLastKey

=============================================================================
