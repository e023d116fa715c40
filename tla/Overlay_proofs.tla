--------------------------- MODULE Overlay_proofs ---------------------------
(***************************************************************************)
(* What edges and supernodes tell each other in bytes, for every value of  *)
(* the fields and the constants.                                           *)
(*                                                                         *)
(* First, what is encoded is decoded: messages of all kinds, with lists of *)
(* every length, wherever in a datagram they are.  A layout is decoded     *)
(* field by field; At says where in a datagram the bytes of a field are,   *)
(* and each kind of field is shown to be read back from where it is and to *)
(* leave the place at which the next one is.                               *)
(*                                                                         *)
(* Second, what is enciphered is deciphered: from a half byte, a word and  *)
(* a round of Twofish to a block, from blocks to texts of any length, with *)
(* the stolen ciphertext of their last block, and to the packets of the    *)
(* three transforms, whatever the ciphers of both sides have seen before.  *)
(*                                                                         *)
(* Third, FramesInv: what a datagram in the network can be, inductively,   *)
(* also one that does not fit the buffer it was made or received in.  From *)
(* it follows what an edge writes to its TAP device, and when an edge or   *)
(* the supernode leaves its table or runs over its buffer.                 *)
(*                                                                         *)
(* Last, CommsInv: the lists of a supernode and its two files.  A list is  *)
(* written to a file and read back, entry by entry; each fold over a list  *)
(* keeps what it began with at the end, and every entry once.  From it     *)
(* follow what edges are answered and what a supernode starts with.        *)
(***************************************************************************)
EXTENDS Overlay, Data_proofs

---------------------------------------------------------------------------
(* Folds.                                                                  *)

\* What the folds of a supernode do with its lists x for one more item.
Reread(entry) == [name |-> entry.name, sns |-> [j \in DOMAIN entry.sns |-> FromText(entry.sns[j])]]
Noted(list, name, s) == AddToComm(list, CommFind(list, name), s)
CommStep(fold, b, x, item) ==
    CASE fold = "supernodes" -> AddSn(x, item)
      [] fold = "texts"      -> AddSn(x, FromText(item))
      [] fold = "entries"    -> <<Reread(b[item])>> \o x
      [] fold = "learned"    -> Noted(AddComm(x, item), item, b)
      [] fold = "told"       -> Noted(x, item, b)
      [] fold = "discovered" -> IF Len(x) < MaxComm /\ Len(item.sns) < MinSn THEN AddComm(x, item.name) ELSE x

\* What the folds of the ciphers do with one more item; b: decrypt.
CipherStep(fold, b, x, item) ==
    CASE fold = "rounds" ->
             IF b THEN DecryptRound(x, RoundKeys(x[1], x[2], 8 + 2 * (Rounds - item)))
                  ELSE EncryptRound(x, RoundKeys(x[1], x[2], 8 + 2 * (item - 1)))
      [] fold = "chain" -> IF Len(item) = BLOCK THEN WholeBlock(x, item, b) ELSE PartialBlock(x, item, b)
      [] fold = "aes" ->
             IF b THEN <<x[1] \o XorSeq(AesDecrypt(item), x[2]), item>>
                  ELSE LET c == AesEncrypt(XorSeq(item, x[2])) IN <<x[1] \o c, c>>
      [] OTHER -> CommStep(fold, b, x, item)

\* And those of the decoders.
Step(fold, b, acc, item) ==
    CASE fold = "number" -> 256 * acc + item
      [] fold = "layout" -> SetField(acc[1], item[1], TakeField(item, acc[1], b, acc[2]))
      [] fold = "socks"  -> AppendItem(acc[1], TakeSock(b, acc[2], NoSock))
      [] fold = "names"  -> AppendItem(acc[1], TakeName(b, acc[2]))
      [] OTHER           -> CipherStep(fold, b, acc, item)

\* The recursive function behind FoldLeft, for the numbers up to k.
FoldValue(fold, b, base, s, g, S) ==
    IF S = {} THEN base ELSE Step(fold, b, g[S \ {Max(S)}], s[Max(S)])
FoldsUpTo(fold, b, base, s, g, k) ==
    g = [S \in SUBSET (1..k) |-> FoldValue(fold, b, base, s, g, S)]

\* A fold over the sets of the first places has values.
LEMMA FoldExists ==
    ASSUME NEW fold, NEW b, NEW base, NEW s
    PROVE  \A n \in Nat : \E g : FoldsUpTo(fold, b, base, s, g, n)
<1> DEFINE Value(g, S) == FoldValue(fold, b, base, s, g, S)
           Iter(g, k) == FoldsUpTo(fold, b, base, s, g, k)
           T == {k \in Nat : \E g : Iter(g, k)}
<1>1. 0 \in T
  <2> DEFINE g == [S \in SUBSET (1..0) |-> base]
  <2>1. \A S \in SUBSET (1..0) : S = {}
    OBVIOUS
  <2>2. \A S \in SUBSET (1..0) : Value(g, S) = base
    BY <2>1 DEF FoldValue
  <2>3. g = [S \in SUBSET (1..0) |-> Value(g, S)]
    <3> HIDE DEF Value
    <3>1. QED
      BY <2>2
  <2>4. QED
    BY <2>3 DEF FoldsUpTo
<1>2. ASSUME NEW k \in Nat, k \in T PROVE k + 1 \in T
  <2>1. PICK g : Iter(g, k)
    BY <1>2
  <2> DEFINE h == [S \in SUBSET (1..(k + 1)) |-> Value(g, S)]
  <2>2. ASSUME NEW S \in SUBSET (1..k) PROVE h[S] = g[S]
    <3>1. S \in SUBSET (1..(k + 1))
      OBVIOUS
    <3>2. g[S] = Value(g, S)
      BY <2>1 DEF FoldsUpTo
    <3> HIDE DEF Value
    <3>3. QED
      BY <3>1, <3>2
  <2>3. ASSUME NEW S \in SUBSET (1..(k + 1)), S # {}
        PROVE  S \ {Max(S)} \in SUBSET (1..k)
    <3>0. k + 1 \in Nat
      OBVIOUS
    <3>1. Max(S) \in S /\ \A y \in S : Max(S) >= y
      BY <2>3, <3>0, GreatestOf
    <3> DEFINE m == Max(S)
    <3> HIDE DEF m
    <3>2. m \in 1..(k + 1) /\ \A y \in S : m >= y
      BY <3>1 DEF m
    <3>3. \A y \in S \ {m} : y \in 1..k
      BY <3>2
    <3>4. QED
      BY <3>3 DEF m
  <2>4. ASSUME NEW S \in SUBSET (1..(k + 1)) PROVE Value(g, S) = Value(h, S)
    <3>1. CASE S = {}
      BY <3>1 DEF FoldValue
    <3>2. CASE S # {}
      <4>1. g[S \ {Max(S)}] = h[S \ {Max(S)}]
        BY <2>2, <2>3, <3>2
      <4> HIDE DEF h
      <4>2. QED
        BY <3>2, <4>1 DEF FoldValue
    <3>3. QED
      BY <3>1, <3>2
  <2>5. h = [S \in SUBSET (1..(k + 1)) |-> Value(h, S)]
    <3> HIDE DEF Value
    <3>1. QED
      BY <2>4
  <2> HIDE DEF Value, h
  <2>6. Iter(h, k + 1)
    BY <2>5 DEF FoldsUpTo, Value
  <2>7. \E next : Iter(next, k + 1)
    BY <2>6
  <2>8. QED
    BY <2>7
<1>3. \A k \in Nat : k \in T
  <2> HIDE DEF T
  <2>1. QED
    BY <1>1, <1>2, SetInduction
<1>4. QED
  BY <1>3

\* The function, as the sequence of values it goes through.
Folds(fold, b, base, s, n, g) ==
    /\ g[0] = base
    /\ \A i \in 1..n : g[i] = Step(fold, b, g[i - 1], s[i])

\* They are those of a fold over the places.
LEMMA FoldIsSequence ==
    ASSUME NEW fold, NEW b, NEW base, NEW s, NEW n \in Nat, NEW iter,
           FoldsUpTo(fold, b, base, s, iter, n)
    PROVE  \E g : Folds(fold, b, base, s, n, g) /\ g[n] = iter[1..n]
<1>0. \A S \in SUBSET (1..n) : iter[S] = FoldValue(fold, b, base, s, iter, S)
  BY DEF FoldsUpTo
<1> DEFINE f == [i \in 0..n |-> iter[1..i]]
<1>1. f[0] = base
  <2>1. 1..0 = {} /\ {} \in SUBSET (1..n) /\ 0 \in 0..n
    OBVIOUS
  <2>2. iter[{}] = base
    BY <1>0, <2>1 DEF FoldValue
  <2>3. QED
    BY <2>1, <2>2
<1>2. ASSUME NEW i \in 1..n PROVE f[i] = Step(fold, b, f[i - 1], s[i])
  <2>1. 1..i \in SUBSET (1..n) /\ 1..i # {}
    OBVIOUS
  <2>2. Max(1..i) = i
    <3>1. Max(1..i) \in 1..i /\ \A y \in 1..i : Max(1..i) >= y
      BY <2>1, GreatestOf
    <3>2. QED
      BY <3>1
  <2>3. (1..i) \ {i} = 1..(i - 1)
    OBVIOUS
  <2>4. iter[1..i] = Step(fold, b, iter[1..(i - 1)], s[i])
    BY <1>0, <2>1, <2>2, <2>3 DEF FoldValue
  <2>5. i \in 0..n /\ i - 1 \in 0..n
    OBVIOUS
  <2>6. f[i] = iter[1..i] /\ f[i - 1] = iter[1..(i - 1)]
    BY <2>5
  <2> HIDE DEF f
  <2>7. QED
    BY <2>4, <2>6
<1>3. f[n] = iter[1..n]
  OBVIOUS
<1> HIDE DEF f
<1>4. Folds(fold, b, base, s, n, f)
  BY <1>1, <1>2 DEF Folds
<1>5. QED
  BY <1>3, <1>4

\* decode_uint8, decode_uint16
LEMMA NumberFolds ==
    ASSUME NEW s, NEW n \in Nat, DOMAIN s = 1..n
    PROVE  \E g : Folds("number", <<>>, 0, s, n, g) /\ g[n] = Number(s)
<1> DEFINE Value(g, S) == IF S = {} THEN 0 ELSE 256 * g[S \ {Max(S)}] + s[Max(S)]
<1>1. \A g, S : FoldValue("number", <<>>, 0, s, g, S) = Value(g, S)
  BY DEF FoldValue, Step
<1>2. \E g : g = [S \in SUBSET (1..n) |-> Value(g, S)]
  <2> HIDE DEF Value
  <2>1. PICK g : FoldsUpTo("number", <<>>, 0, s, g, n)
    BY FoldExists
  <2>2. g = [S \in SUBSET (1..n) |-> FoldValue("number", <<>>, 0, s, g, S)]
    BY <2>1 DEF FoldsUpTo
  <2>3. g = [S \in SUBSET (1..n) |-> Value(g, S)]
    BY <1>1, <2>2
  <2>4. QED
    BY <2>3
<1> DEFINE iter == CHOOSE g : g = [S \in SUBSET (1..n) |-> Value(g, S)]
<1>3. iter = [S \in SUBSET (1..n) |-> Value(iter, S)]
  <2> HIDE DEF Value
  <2>1. QED
    BY <1>2
<1>4. Number(s) = iter[1..n]
  BY DEF Number, FoldLeft, MapThenFoldSet
<1> HIDE DEF iter, Value
<1>5. FoldsUpTo("number", <<>>, 0, s, iter, n)
  BY <1>1, <1>3 DEF FoldsUpTo
<1>6. QED
  BY <1>4, <1>5, FoldIsSequence

\* decode_X
LEMMA LayoutFolds ==
    ASSUME NEW lay, NEW n \in Nat, DOMAIN lay = 1..n, NEW blank, NEW b, NEW i
    PROVE  \E g : Folds("layout", b, <<blank, i>>, lay, n, g) /\ g[n] = Decode(lay, blank, b, i)
<1> DEFINE Value(g, S) ==
              IF S = {} THEN <<blank, i>>
              ELSE SetField(g[S \ {Max(S)}][1], lay[Max(S)][1],
                            TakeField(lay[Max(S)], g[S \ {Max(S)}][1], b, g[S \ {Max(S)}][2]))
<1>1. \A g, S : FoldValue("layout", b, <<blank, i>>, lay, g, S) = Value(g, S)
  BY DEF FoldValue, Step
<1>2. \E g : g = [S \in SUBSET (1..n) |-> Value(g, S)]
  <2> HIDE DEF Value
  <2>1. PICK g : FoldsUpTo("layout", b, <<blank, i>>, lay, g, n)
    BY FoldExists
  <2>2. g = [S \in SUBSET (1..n) |-> FoldValue("layout", b, <<blank, i>>, lay, g, S)]
    BY <2>1 DEF FoldsUpTo
  <2>3. g = [S \in SUBSET (1..n) |-> Value(g, S)]
    BY <1>1, <2>2
  <2>4. QED
    BY <2>3
<1> DEFINE iter == CHOOSE g : g = [S \in SUBSET (1..n) |-> Value(g, S)]
<1>3. iter = [S \in SUBSET (1..n) |-> Value(iter, S)]
  <2> HIDE DEF Value
  <2>1. QED
    BY <1>2
<1>4. Decode(lay, blank, b, i) = iter[1..n]
  BY DEF Decode, FoldLeft, MapThenFoldSet
<1> HIDE DEF iter, Value
<1>5. FoldsUpTo("layout", b, <<blank, i>>, lay, iter, n)
  BY <1>1, <1>3 DEF FoldsUpTo
<1>6. QED
  BY <1>4, <1>5, FoldIsSequence

\* the loops over sockets and names
LEMMA ManyFolds ==
    ASSUME NEW kind \in {"socks", "names"}, NEW n \in Nat, NEW b, NEW i
    PROVE  \E g : Folds(kind, b, <<<<>>, i>>, Zeros(n), n, g) /\ g[n] = TakeMany(kind, b, i, n)
<1> DEFINE Value(g, S) ==
              IF S = {} THEN <<<<>>, i>>
              ELSE AppendItem(g[S \ {Max(S)}][1],
                              IF kind = "socks" THEN TakeSock(b, g[S \ {Max(S)}][2], NoSock)
                                                ELSE TakeName(b, g[S \ {Max(S)}][2]))
<1>1. \A g, S : FoldValue(kind, b, <<<<>>, i>>, Zeros(n), g, S) = Value(g, S)
  BY DEF FoldValue, Step
<1>2. \E g : g = [S \in SUBSET (1..n) |-> Value(g, S)]
  <2> HIDE DEF Value
  <2>1. PICK g : FoldsUpTo(kind, b, <<<<>>, i>>, Zeros(n), g, n)
    BY FoldExists
  <2>2. g = [S \in SUBSET (1..n) |-> FoldValue(kind, b, <<<<>>, i>>, Zeros(n), g, S)]
    BY <2>1 DEF FoldsUpTo
  <2>3. g = [S \in SUBSET (1..n) |-> Value(g, S)]
    BY <1>1, <2>2
  <2>4. QED
    BY <2>3
<1> DEFINE iter == CHOOSE g : g = [S \in SUBSET (1..n) |-> Value(g, S)]
<1>3. iter = [S \in SUBSET (1..n) |-> Value(iter, S)]
  <2> HIDE DEF Value
  <2>1. QED
    BY <1>2
<1>4. DOMAIN Zeros(n) = 1..n
  BY DEF Zeros
<1>5. TakeMany(kind, b, i, n) = iter[1..n]
  BY <1>4 DEF TakeMany, FoldLeft, MapThenFoldSet
<1> HIDE DEF iter, Value
<1>6. FoldsUpTo(kind, b, <<<<>>, i>>, Zeros(n), iter, n)
  BY <1>1, <1>3 DEF FoldsUpTo
<1>7. QED
  BY <1>5, <1>6, FoldIsSequence

---------------------------------------------------------------------------
(* Where bytes are read.                                                   *)

\* decode_buf
LEMMA TakeAt ==
    ASSUME NEW b, NEW i, NEW x, NEW old, At(b, i, x)
    PROVE  Take(b, i, Len(x), old) = <<x, i + Len(x)>>
<1>1. /\ Len(x) \in Nat /\ i \in Nat /\ x \in Seq(Byte)
      /\ \A j \in 1..Len(x) : b[i + j] = x[j]
  BY LenProperties DEF At
<1>2. i + 1 \in Int /\ i + Len(x) \in Int
  BY <1>1
<1>3. ASSUME NEW k \in (i + 1)..(i + Len(x)) PROVE b[k] \in Byte
  <2>1. k - i \in 1..Len(x) /\ i + (k - i) = k
    BY <1>1
  <2>2. QED
    BY <1>1, <2>1, ElementOfSeq
<1> DEFINE lo == i + 1
           hi == i + Len(x)
           s  == SubSeq(b, lo, hi)
<1>4. /\ s \in Seq(Byte)
      /\ Len(s) = IF lo <= hi THEN hi - lo + 1 ELSE 0
      /\ \A j \in 1..(hi - lo + 1) : s[j] = b[lo + j - 1]
  <2>1. lo \in Int /\ hi \in Int /\ \A k \in lo..hi : b[k] \in Byte
    BY <1>2, <1>3
  <2> HIDE DEF lo, hi
  <2>2. QED
    BY <2>1, SubSeqProperties
<1> HIDE DEF s
<1>5. Len(s) = Len(x)
  BY <1>1, <1>4
<1>6. ASSUME NEW j \in 1..Len(s) PROVE s[j] = x[j]
  <2>1. j \in 1..(hi - lo + 1) /\ lo + j - 1 = i + j /\ j \in 1..Len(x)
    BY <1>1, <1>5
  <2>2. QED
    BY <1>1, <1>4, <2>1
<1>7. s = x
  BY <1>1, <1>4, <1>5, <1>6, SeqEqual
<1>8. QED
  BY <1>7 DEF s, Take, At

\* encode_uint8, encode_uint16 and their decoders.  (Numbers of four bytes are
\* taken as bytes: nothing is computed from them.)
LEMMA NumberOfBytes ==
    ASSUME NEW n \in {1, 2}, NEW v \in Numbers(n)
    PROVE  Bytes(v, n) \in [1..n -> Byte] /\ Number(Bytes(v, n)) = v
<1> DEFINE s == Bytes(v, n)
<1>0. 256^0 = 1 /\ 256^1 = 256 /\ 256^2 = 65536
  OBVIOUS
<1>1. DOMAIN s = 1..n
  BY DEF Bytes
<1>2. PICK g : Folds("number", <<>>, 0, s, n, g) /\ g[n] = Number(s)
  BY <1>1, NumberFolds
<1>3. \A i \in 1..n : g[i] = 256 * g[i - 1] + s[i]
  BY <1>2 DEF Folds, Step
<1>4. g[0] = 0
  BY <1>2 DEF Folds
<1>5. CASE n = 1
  <2>1. v \in 0..255
    BY <1>5 DEF Numbers, Byte
  <2>2. s[1] = v
    BY <1>0, <1>5, <2>1 DEF Bytes
  <2>3. g[1] = v
    BY <1>3, <1>4, <1>5, <2>1, <2>2
  <2>4. s \in [1..1 -> Byte]
    BY <1>5, <2>1, <2>2 DEF Byte, Bytes
  <2> HIDE DEF s
  <2>5. QED
    BY <1>2, <1>5, <2>3, <2>4 DEF s
<1>6. CASE n = 2
  <2>1. v \in Nat /\ v < 65536
    BY <1>6 DEF Numbers, Word
  <2>2. s[1] = (v \div 256) % 256 /\ s[2] = v % 256
    <3>1. 2 - 1 = 1 /\ 2 - 2 = 0 /\ 1 \in 1..2 /\ 2 \in 1..2
      OBVIOUS
    <3>2. s[1] = (v \div 256^1) % 256 /\ s[2] = (v \div 256^0) % 256
      BY <1>6, <3>1 DEF Bytes
    <3>3. QED
      BY <1>0, <2>1, <3>2
  <2>3. v \div 256 \in 0..255 /\ v % 256 \in 0..255 /\ v = 256 * (v \div 256) + (v % 256)
    BY <2>1
  <2>4. s[1] = v \div 256
    BY <2>2, <2>3
  <2>5. g[1] = v \div 256
    <3>1. g[1] = 256 * 0 + s[1]
      BY <1>3, <1>4, <1>6
    <3>2. QED
      BY <2>3, <2>4, <3>1
  <2>6. g[2] = v
    <3>1. g[2] = 256 * g[1] + s[2]
      BY <1>3, <1>6
    <3>2. QED
      BY <2>2, <2>3, <2>5, <3>1
  <2>7. s \in [1..2 -> Byte]
    <3>1. s = [k \in 1..2 |-> s[k]]
      BY <1>6 DEF Bytes
    <3>2. s[1] \in Byte /\ s[2] \in Byte
      BY <2>2, <2>3, <2>4 DEF Byte
    <3> HIDE DEF s
    <3>3. QED
      BY <3>1, <3>2
  <2> HIDE DEF s
  <2>8. QED
    BY <1>2, <1>6, <2>6, <2>7 DEF s
<1>7. QED
  BY <1>5, <1>6

\* A number in as many bytes as it has, which are read back as it.
LEMMA NumberLen ==
    ASSUME NEW n \in {1, 2}, NEW v \in Numbers(n)
    PROVE  IsBytes(Bytes(v, n), n)
<1> DEFINE s == Bytes(v, n)
<1>0. n \in Nat
  OBVIOUS
<1>1. s \in [1..n -> Byte]
  <2> HIDE DEF s
  <2>1. s = Bytes(v, n)
    BY DEF s
  <2>2. QED
    BY <2>1, NumberOfBytes, Zenon
<1> HIDE DEF s
<1>2. s \in Seq(Byte) /\ Len(s) = n
  BY <1>0, <1>1, BytesAreSeq
<1>3. QED
  BY <1>0, <1>2 DEF IsBytes, s

LEMMA NumAt ==
    ASSUME NEW b, NEW i, NEW n \in {1, 2}, NEW v \in Numbers(n), NEW old, At(b, i, Bytes(v, n))
    PROVE  TakeNum(b, i, n, old) = <<v, i + n>>
<1> DEFINE s == Bytes(v, n)
<1>1. s \in [1..n -> Byte] /\ Number(s) = v
  BY NumberOfBytes
<1>2. Len(s) = n
  BY <1>1, BytesAreSeq
<1> HIDE DEF s
<1>3. Take(b, i, n, Bytes(old, n)) = <<s, i + n>>
  BY <1>2, TakeAt DEF s
<1>4. QED
  BY <1>1, <1>3 DEF TakeNum, NumberOf

---------------------------------------------------------------------------
(* Fields of each kind.                                                    *)

\* The length of an address, and how encode_sock writes the family.
AddrLen(s) == IF s.family = AF_INET6 THEN 16 ELSE 4
Family(s) == IF s.family = AF_INET THEN 0 ELSE 32768

\* What there is of a socket, and how it is read back.
LEMMA SocketParts ==
    ASSUME NEW s \in Sockets
    PROVE  /\ s.port \in Numbers(2) /\ Family(s) \in Numbers(2)
           /\ AddrLen(s) \in Nat /\ s.addr \in [1..AddrLen(s) -> Byte]
           /\ Family(s) >= 32768 => s.family = AF_INET6
           /\ ~ (Family(s) >= 32768) => s.family # AF_INET6 /\ s.family = AF_INET
           /\ s = [family |-> s.family, port |-> s.port, addr |-> s.addr]
<1>0. 0 \in Numbers(2) /\ 32768 \in Numbers(2)
  BY DEF Numbers, Word
<1>1. CASE s \in IPv4
  <2>1. s.family = AF_INET /\ s.port \in Numbers(2) /\ s.addr \in [1..4 -> Byte]
    BY <1>1 DEF IPv4
  <2>2. s = [family |-> s.family, port |-> s.port, addr |-> s.addr]
    BY <1>1 DEF IPv4
  <2>3. Family(s) = 0 /\ AddrLen(s) = 4 /\ s.family # AF_INET6
    BY <2>1 DEF Family, AddrLen, AF_INET, AF_INET6
  <2>4. QED
    BY <1>0, <2>1, <2>2, <2>3
<1>2. CASE s \in IPv6
  <2>1. s.family = AF_INET6 /\ s.port \in Numbers(2) /\ s.addr \in [1..16 -> Byte]
    BY <1>2 DEF IPv6
  <2>2. s = [family |-> s.family, port |-> s.port, addr |-> s.addr]
    BY <1>2 DEF IPv6
  <2>3. Family(s) = 32768 /\ AddrLen(s) = 16
    BY <2>1 DEF Family, AddrLen, AF_INET, AF_INET6
  <2>4. QED
    BY <1>0, <2>1, <2>2, <2>3
<1>3. QED
  BY <1>1, <1>2 DEF Sockets

\* decode_sock
LEMMA SockAt ==
    ASSUME NEW b, Len(b) \in Nat, NEW i, NEW s \in Sockets, NEW old
    PROVE  /\ PutSock(s) \in Seq(Byte)
           /\ At(b, i, PutSock(s)) => TakeSock(b, i, old) = <<s, i + Len(PutSock(s))>>
<1> DEFINE family == Family(s)
           x == Bytes(family, 2)
           y == Bytes(s.port, 2)
           z == s.addr
           len == AddrLen(s)
<1>1. /\ s.port \in Numbers(2) /\ family \in Numbers(2)
      /\ len \in Nat /\ z \in [1..len -> Byte]
      /\ family >= 32768 => s.family = AF_INET6
      /\ ~ (family >= 32768) => s.family # AF_INET6 /\ s.family = AF_INET
      /\ s = [family |-> s.family, port |-> s.port, addr |-> z]
  BY SocketParts
<1>2. PutSock(s) = (x \o y) \o z
  BY DEF PutSock, Family
<1> HIDE DEF family, len
<1>3. IsBytes(x, 2) /\ IsBytes(y, 2)
  <2>1. \A v \in Numbers(2) : IsBytes(Bytes(v, 2), 2)
    BY NumberLen
  <2>2. QED
    BY <1>1, <2>1
<1>4. IsBytes(z, len)
  BY <1>1, BytesAreSeq DEF IsBytes
<1> HIDE DEF x, y, z
<1>5. IsBytes(x \o y, 2 + 2) /\ IsBytes(PutSock(s), 2 + 2 + len)
  BY <1>2, <1>3, <1>4, ConcatBytes
<1>6. ASSUME At(b, i, PutSock(s)) PROVE TakeSock(b, i, old) = <<s, i + (2 + 2 + len)>>
  <2>0. i \in Nat
    BY <1>6 DEF At
  <2>1. At(b, i, x \o y) /\ At(b, i + (2 + 2), z)
    BY <1>2, <1>4, <1>5, <1>6, BytesAt
  <2>2. At(b, i, x) /\ At(b, i + 2, y)
    BY <1>3, <2>1, BytesAt
  <2>3. \A v \in Numbers(2) : \A c, o : At(b, c, Bytes(v, 2)) => TakeNum(b, c, 2, o) = <<v, c + 2>>
    BY NumAt
  <2>4. TakeNum(b, i, 2, 0) = <<family, i + 2>>
    BY <1>1, <2>2, <2>3 DEF x
  <2>5. TakeNum(b, i + 2, 2, old.port) = <<s.port, i + 2 + 2>>
    BY <1>1, <2>2, <2>3 DEF y
  <2>6. i + (2 + 2) = i + 2 + 2 /\ i + 2 + 2 + len = i + (2 + 2 + len)
    BY <1>1, <2>0
  <2> DEFINE v6 == family >= 32768
             rest == IF v6 THEN old.addr ELSE Zeros(4)
  <2>7. TakeSock(b, i, old) = TakeAddr(b, v6, <<s.port, i + 2 + 2>>, old)
    BY <2>4, <2>5 DEF TakeSock, TakePort
  <2>8. (IF v6 THEN 16 ELSE 4) = len
    BY <1>1 DEF len, AddrLen
  <2>9. (IF v6 THEN AF_INET6 ELSE AF_INET) = s.family
    BY <1>1
  <2> HIDE DEF v6, rest
  <2>10. Take(b, i + 2 + 2, len, rest) = <<z, i + 2 + 2 + len>>
    BY <1>4, <2>1, <2>6, TakeAt DEF IsBytes
  <2>11. TakeAddr(b, v6, <<s.port, i + 2 + 2>>, old)
            = SockOf(v6, <<s.port, i + 2 + 2>>, Take(b, i + 2 + 2, len, rest))
    BY <2>8 DEF TakeAddr, rest
  <2>12. SockOf(v6, <<s.port, i + 2 + 2>>, <<z, i + 2 + 2 + len>>) = <<s, i + 2 + 2 + len>>
    BY <1>1, <2>9 DEF SockOf
  <2>13. QED
    BY <2>6, <2>7, <2>10, <2>11, <2>12
<1> DEFINE n == 2 + 2 + len
<1> HIDE DEF n
<1>7. PutSock(s) \in Seq(Byte) /\ Len(PutSock(s)) = n
  BY <1>5 DEF IsBytes, n
<1>8. QED
  BY <1>6, <1>7 DEF n

\* decode_SNM_comm
LEMMA NameAt ==
    ASSUME NEW b, Len(b) \in Nat, NEW i, NEW name \in CommNames
    PROVE  /\ PutName(name) \in Seq(Byte)
           /\ At(b, i, PutName(name)) => TakeName(b, i) = <<name, i + Len(PutName(name))>>
<1> DEFINE len == Len(name)
           x == Bytes(len, 1)
<1>1. len \in Numbers(1) /\ IsBytes(name, len)
  <2>1. IsBytes(name, len) /\ len \in Nat
    BY LenProperties DEF CommNames, IsBytes
  <2>2. len <= 16
    BY DEF CommNames, N2N_COMMUNITY_SIZE
  <2> HIDE DEF len
  <2>3. QED
    BY <2>1, <2>2 DEF Numbers, Byte
<1>2. PutName(name) = x \o name
  BY DEF PutName
<1> HIDE DEF len
<1>3. IsBytes(x, 1)
  BY <1>1, NumberLen
<1> HIDE DEF x
<1>4. IsBytes(PutName(name), 1 + len)
  BY <1>1, <1>2, <1>3, ConcatBytes
<1>5. ASSUME At(b, i, PutName(name)) PROVE TakeName(b, i) = <<name, i + (1 + len)>>
  <2>0. i \in Nat /\ len \in Nat
    BY <1>1, <1>5 DEF At, IsBytes
  <2>1. At(b, i, x) /\ At(b, i + 1, name)
    BY <1>1, <1>2, <1>3, <1>5, BytesAt
  <2>2. TakeNum(b, i, 1, 0) = <<len, i + 1>>
    BY <1>1, <2>1, NumAt DEF x
  <2>3. Take(b, i + 1, len, <<>>) = <<name, i + 1 + len>>
    BY <1>1, <2>1, TakeAt DEF IsBytes
  <2>4. i + 1 + len = i + (1 + len)
    BY <2>0
  <2>5. QED
    BY <2>2, <2>3, <2>4 DEF TakeName, TakeSized
<1> DEFINE n == 1 + len
<1> HIDE DEF n
<1>6. PutName(name) \in Seq(Byte) /\ Len(PutName(name)) = n
  BY <1>4 DEF IsBytes, n
<1>7. QED
  BY <1>5, <1>6 DEF n

\* Lists of sockets and of names, their items one behind the other.
Items(kind) == IF kind = "socks" THEN Sockets ELSE CommNames
PutItem(kind, x) == IF kind = "socks" THEN PutSock(x) ELSE PutName(x)
PutItems(kind, l, n) == [j \in 1..n |-> PutItem(kind, l[j])]

\* TakeMany takes from the ith place of b the list l, the bytes s.
Takes(kind, b, i, l, n, s) == At(b, i, s) => TakeMany(kind, b, i, n) = <<l, i + Len(s)>>

\* Lists of sockets and of names are read back from where they are.
LEMMA ManyAt ==
    ASSUME NEW b, Len(b) \in Nat, NEW i, NEW kind \in {"socks", "names"}, NEW l \in Seq(Items(kind)),
           NEW n, n = Len(l)
    PROVE  /\ PutItems(kind, l, n) \in [1..n -> Seq(Byte)]
           /\ Takes(kind, b, i, l, n, FlattenSeq(PutItems(kind, l, n)))
<1> DEFINE s == PutItems(kind, l, n)
<1>1. n \in Nat /\ \A j \in 1..n : l[j] \in Items(kind)
  BY LenProperties, ElementOfSeq
<1>2. ASSUME NEW x \in Items(kind), NEW c
      PROVE  /\ PutItem(kind, x) \in Seq(Byte)
             /\ At(b, c, PutItem(kind, x)) => \A acc : Step(kind, b, <<acc, c>>, 0)
                                                  = <<Append(acc, x), c + Len(PutItem(kind, x))>>
  <2>1. CASE kind = "socks"
    <3>1. PutSock(x) \in Seq(Byte) /\ (At(b, c, PutSock(x)) => TakeSock(b, c, NoSock) = <<x, c + Len(PutSock(x))>>)
      BY <1>2, <2>1, SockAt DEF Items
    <3>2. QED
      BY <2>1, <3>1 DEF PutItem, Step, AppendItem
  <2>2. CASE kind = "names"
    <3>1. PutName(x) \in Seq(Byte) /\ (At(b, c, PutName(x)) => TakeName(b, c) = <<x, c + Len(PutName(x))>>)
      BY <1>2, <2>2, NameAt DEF Items
    <3>2. QED
      BY <2>2, <3>1 DEF PutItem, Step, AppendItem
  <2>3. QED
    BY <2>1, <2>2
<1>3. s \in [1..n -> Seq(Byte)] /\ \A j \in 1..n : s[j] = PutItem(kind, l[j])
  BY <1>1, <1>2 DEF PutItems
<1> HIDE DEF s
<1>4. ASSUME At(b, i, FlattenSeq(s)) PROVE TakeMany(kind, b, i, n) = <<l, i + Len(FlattenSeq(s))>>
  <2>0. PICK p : PartsAt(b, i, n, s, p)
    BY <1>1, <1>3, <1>4, PartsFound
  <2>1. /\ p[0] = i
        /\ \A j \in 1..n : p[j] = p[j - 1] + Len(s[j]) /\ At(b, p[j - 1], s[j])
        /\ p[n] = i + Len(FlattenSeq(s))
    BY <2>0 DEF PartsAt
  <2>2. PICK g : Folds(kind, b, <<<<>>, i>>, Zeros(n), n, g) /\ g[n] = TakeMany(kind, b, i, n)
    BY <1>1, ManyFolds
  <2>3. g[0] = <<<<>>, i>> /\ \A j \in 1..n : g[j] = Step(kind, b, g[j - 1], 0)
    BY <2>2 DEF Folds, Zeros
  <2> DEFINE T == {k \in Nat : k <= n => g[k] = <<SubSeq(l, 1, k), p[k]>>}
  <2>4. 0 \in T
    <3>1. SubSeq(l, 1, 0) = <<>>
      BY SubSeqEmpty
    <3>2. QED
      BY <2>1, <2>3, <3>1
  <2>5. ASSUME NEW k \in Nat, k \in T PROVE k + 1 \in T
    <3> SUFFICES ASSUME k + 1 <= n PROVE g[k + 1] = <<SubSeq(l, 1, k + 1), p[k + 1]>>
      OBVIOUS
    <3>1. PICK j \in 1..n : j = k + 1 /\ j - 1 = k
      BY <1>1
    <3>2. g[j - 1] = <<SubSeq(l, 1, j - 1), p[j - 1]>>
      BY <2>5, <3>1
    <3>3. g[j] = <<Append(SubSeq(l, 1, j - 1), l[j]), p[j - 1] + Len(s[j])>>
      <4>1. g[j] = Step(kind, b, <<SubSeq(l, 1, j - 1), p[j - 1]>>, 0)
        BY <2>3, <3>2
      <4>2. At(b, p[j - 1], PutItem(kind, l[j])) /\ s[j] = PutItem(kind, l[j]) /\ l[j] \in Items(kind)
        BY <1>1, <1>3, <2>1
      <4>3. QED
        BY <1>2, <4>1, <4>2
    <3>4. Append(SubSeq(l, 1, j - 1), l[j]) = SubSeq(l, 1, j)
      <4>1. SubSeq(l, 1, j) = SubSeq(l, 1, j - 1) \o <<l[j]>>
        BY SubSeqRecursiveSecond
      <4>2. SubSeq(l, 1, j - 1) \in Seq(Items(kind)) /\ l[j] \in Items(kind)
        BY <1>1, Prefix
      <4>3. Append(SubSeq(l, 1, j - 1), l[j]) = SubSeq(l, 1, j - 1) \o <<l[j]>>
        BY <4>2, AppendIsConcat
      <4>4. QED
        BY <4>1, <4>3
    <3>5. p[j] = p[j - 1] + Len(s[j])
      BY <2>1
    <3>6. g[j] = <<SubSeq(l, 1, j), p[j]>>
      BY <3>3, <3>4, <3>5
    <3>7. QED
      BY <3>1, <3>6
  <2>6. n \in T
    <3> HIDE DEF T
    <3>1. \A k \in Nat : k \in T
      BY <2>4, <2>5, SetInduction
    <3>2. QED
      BY <1>1, <3>1
  <2>7. SubSeq(l, 1, n) = l
    BY SubSeqFull
  <2>8. g[n] = <<SubSeq(l, 1, n), p[n]>>
    BY <1>1, <2>6
  <2> HIDE DEF T
  <2>9. QED
    BY <2>1, <2>2, <2>7, <2>8
<1>5. QED
  BY <1>3, <1>4 DEF s, Takes

---------------------------------------------------------------------------
(* Messages.                                                               *)

\* The value that a message has for a field is one that the field can carry.
FieldFits(k, m) ==
    CASE k[2] = "num"   -> k[3] \in {1, 2} /\ m[k[1]] \in Numbers(k[3])
      [] k[2] = "buf"   -> IsBytes(m[k[1]], k[3])
      [] k[2] = "bytes" -> IsBytes(m[k[1]], m[k[3]])
      [] k[2] = "sock"  -> m[k[1]] \in Sockets
      [] k[2] = "socks" -> m[k[1]] \in Seq(Sockets) /\ m[k[3]] = Len(m[k[1]])
      [] k[2] = "names" -> m[k[1]] \in Seq(CommNames) /\ m[k[3]] = Len(m[k[1]])
      [] OTHER -> FALSE

\* The kinds whose length another field tells.
Sized == {"bytes", "socks", "names"}

\* A field is decoded where it was encoded, when the fields before it were.
LEMMA FieldAt ==
    ASSUME NEW k, NEW m, FieldFits(k, m), NEW b, Len(b) \in Nat, NEW i, NEW known,
           k[2] \in Sized => known[k[3]] = m[k[3]]
    PROVE  /\ PutField(k, m) \in Seq(Byte)
           /\ At(b, i, PutField(k, m))
                  => TakeField(k, known, b, i) = <<m[k[1]], i + Len(PutField(k, m))>>
<1> DEFINE kind == k[2]
           v == m[k[1]]
           n == k[3]
<1>0. kind \in {"num", "buf", "bytes", "sock", "socks", "names"}
  BY DEF FieldFits
<1>1. CASE kind = "num"
  <2>1. n \in {1, 2} /\ v \in Numbers(n)
    BY <1>1 DEF FieldFits
  <2>2. PutField(k, m) = Bytes(v, n)
    BY <1>1 DEF PutField
  <2>3. TakeField(k, known, b, i) = TakeNum(b, i, n, known[k[1]])
    BY <1>1 DEF TakeField
  <2> HIDE DEF v, n
  <2>4. IsBytes(Bytes(v, n), n)
    BY <2>1, NumberLen
  <2>5. At(b, i, Bytes(v, n)) => TakeNum(b, i, n, known[k[1]]) = <<v, i + n>>
    <3> SUFFICES ASSUME At(b, i, Bytes(v, n))
                 PROVE  TakeNum(b, i, n, known[k[1]]) = <<v, i + n>>
      OBVIOUS
    <3> HIDE DEF kind
    <3>1. QED
      BY <2>1, NumAt
  <2>6. QED
    BY <2>2, <2>3, <2>4, <2>5 DEF IsBytes, v
<1>2. CASE kind = "buf"
  <2>1. IsBytes(v, n)
    BY <1>2 DEF FieldFits
  <2>2. PutField(k, m) = v
    BY <1>2 DEF PutField
  <2>3. TakeField(k, known, b, i) = Take(b, i, n, known[k[1]])
    BY <1>2 DEF TakeField
  <2> HIDE DEF v, n
  <2>4. v \in Seq(Byte) /\ Len(v) = n
    BY <2>1 DEF IsBytes
  <2>5. At(b, i, v) => Take(b, i, n, known[k[1]]) = <<v, i + n>>
    BY <2>4, TakeAt
  <2>6. QED
    BY <2>2, <2>3, <2>4, <2>5 DEF v
<1>3. CASE kind = "bytes"
  <2> DEFINE size == m[n]
  <2>1. IsBytes(v, size)
    BY <1>3 DEF FieldFits
  <2>2. PutField(k, m) = v
    BY <1>3 DEF PutField
  <2>3. TakeField(k, known, b, i) = Take(b, i, size, known[k[1]])
    BY <1>3 DEF TakeField, Sized
  <2> HIDE DEF v, n, size
  <2>4. v \in Seq(Byte) /\ Len(v) = size
    BY <2>1 DEF IsBytes
  <2>5. At(b, i, v) => Take(b, i, size, known[k[1]]) = <<v, i + size>>
    BY <2>4, TakeAt
  <2>6. QED
    BY <2>2, <2>3, <2>4, <2>5 DEF v
<1>4. CASE kind = "sock"
  <2>1. v \in Sockets
    BY <1>4 DEF FieldFits
  <2>2. PutField(k, m) = PutSock(v)
    BY <1>4 DEF PutField
  <2>3. TakeField(k, known, b, i) = TakeSock(b, i, known[k[1]])
    BY <1>4 DEF TakeField
  <2> HIDE DEF v
  <2>4. PutSock(v) \in Seq(Byte)
    BY <2>1, SockAt
  <2>5. At(b, i, PutSock(v)) => TakeSock(b, i, known[k[1]]) = <<v, i + Len(PutSock(v))>>
    BY <2>1, SockAt
  <2>6. QED
    BY <2>2, <2>3, <2>4, <2>5 DEF v
<1>5. CASE kind \in {"socks", "names"}
  <2> DEFINE size == m[n]
  <2>1. v \in Seq(Items(kind)) /\ size = Len(v)
    BY <1>5 DEF FieldFits, Items
  <2>2. PutField(k, m) = FlattenSeq(PutItems(kind, v, size))
    <3>1. CASE kind = "socks"
      BY <3>1 DEF PutField, PutItems, PutItem
    <3>2. CASE kind = "names"
      BY <3>2 DEF PutField, PutItems, PutItem
    <3>3. QED
      BY <1>5, <3>1, <3>2
  <2>3. TakeField(k, known, b, i) = TakeMany(kind, b, i, size)
    BY <1>5 DEF TakeField, Sized
  <2> HIDE DEF kind, v, n, size
  <2> DEFINE parts == PutItems(kind, v, size)
  <2>4. parts \in [1..size -> Seq(Byte)]
    BY <1>5, <2>1, ManyAt
  <2>5. Takes(kind, b, i, v, size, FlattenSeq(parts))
    BY <1>5, <2>1, ManyAt
  <2> HIDE DEF parts
  <2>6. size \in Nat
    BY <2>1, LenProperties
  <2>7. FlattenSeq(parts) \in Seq(Byte)
    BY <2>4, <2>6, FlattenType
  <2>8. QED
    BY <2>2, <2>3, <2>5, <2>7 DEF v, parts, Takes
<1>6. QED
  BY <1>0, <1>1, <1>2, <1>3, <1>4, <1>5

\* A layout, n fields long, that can be decoded: its fields have names of their
\* own, a field that tells a length comes before the one whose length it is, and
\* the message m fits.
LaidOut(lay, n, m, blank) ==
    /\ n \in Nat /\ lay = [j \in 1..n |-> lay[j]] /\ blank = [f \in DOMAIN blank |-> blank[f]]
    /\ \A j \in 1..n : FieldFits(lay[j], m) /\ lay[j][1] \in DOMAIN blank
    /\ \A j, l \in 1..n : lay[j][1] = lay[l][1] => j = l
    /\ \A j \in 1..n : lay[j][2] \in Sized => \E l \in 1..(j - 1) : lay[l][1] = lay[j][3]

\* The blank message with the first n fields of the layout.
Filled(lay, n, m, blank) ==
    [f \in DOMAIN blank |-> IF \E j \in 1..n : lay[j][1] = f THEN m[f] ELSE blank[f]]

\* So is everything a layout tells of.
LEMMA LayoutAt ==
    ASSUME NEW lay, NEW n, NEW m, NEW blank, LaidOut(lay, n, m, blank),
           NEW b, Len(b) \in Nat, NEW i
    PROVE  /\ Encode(lay, m) \in Seq(Byte)
           /\ At(b, i, Encode(lay, m))
                  => Decode(lay, blank, b, i) = <<Filled(lay, n, m, blank), i + Len(Encode(lay, m))>>
<1>0. /\ n \in Nat /\ lay = [j \in 1..n |-> lay[j]] /\ blank = [f \in DOMAIN blank |-> blank[f]]
      /\ \A j \in 1..n : FieldFits(lay[j], m) /\ lay[j][1] \in DOMAIN blank
      /\ \A j, l \in 1..n : lay[j][1] = lay[l][1] => j = l
      /\ \A j \in 1..n : lay[j][2] \in Sized => \E l \in 1..(j - 1) : lay[l][1] = lay[j][3]
  BY DEF LaidOut
<1>1. DOMAIN lay = 1..n
  BY <1>0
<1> DEFINE s == [j \in DOMAIN lay |-> PutField(lay[j], m)]
<1>2. \A j \in 1..n : PutField(lay[j], m) \in Seq(Byte)
  BY <1>0, FieldAt
<1>3. s \in [1..n -> Seq(Byte)] /\ \A j \in 1..n : s[j] = PutField(lay[j], m)
  BY <1>1, <1>2
<1>4. Encode(lay, m) = FlattenSeq(s)
  BY DEF Encode
<1> HIDE DEF s
<1>5. FlattenSeq(s) \in Seq(Byte)
  BY <1>0, <1>3, FlattenType
<1>6. ASSUME At(b, i, FlattenSeq(s))
      PROVE  Decode(lay, blank, b, i) = <<Filled(lay, n, m, blank), i + Len(FlattenSeq(s))>>
  <2>1. PICK p : PartsAt(b, i, n, s, p)
    BY <1>0, <1>3, <1>6, PartsFound
  <2>2. /\ p[0] = i
        /\ \A j \in 1..n : p[j] = p[j - 1] + Len(s[j]) /\ At(b, p[j - 1], s[j])
        /\ p[n] = i + Len(FlattenSeq(s))
    BY <2>1 DEF PartsAt
  <2>3. PICK g : Folds("layout", b, <<blank, i>>, lay, n, g) /\ g[n] = Decode(lay, blank, b, i)
    <3>1. n \in Nat
      BY <1>0
    <3>2. QED
      BY <1>1, <3>1, LayoutFolds
  <2>4. /\ g[0] = <<blank, i>>
        /\ \A j \in 1..n : g[j] = SetField(g[j - 1][1], lay[j][1], TakeField(lay[j], g[j - 1][1], b, g[j - 1][2]))
    BY <2>3 DEF Folds, Step
  <2> DEFINE T == {k \in Nat : k <= n => g[k] = <<Filled(lay, k, m, blank), p[k]>>}
  <2>5. 0 \in T
    <3>1. Filled(lay, 0, m, blank) = blank
      BY <1>0 DEF Filled
    <3>2. QED
      BY <2>2, <2>4, <3>1
  <2>6. ASSUME NEW k \in Nat, k \in T PROVE k + 1 \in T
    <3> SUFFICES ASSUME k + 1 <= n PROVE g[k + 1] = <<Filled(lay, k + 1, m, blank), p[k + 1]>>
      OBVIOUS
    <3>1. PICK j \in 1..n : j = k + 1 /\ j - 1 = k
      BY <1>0
    <3> DEFINE before == Filled(lay, j - 1, m, blank)
               after == Filled(lay, j, m, blank)
               name == lay[j][1]
    <3>2. g[j - 1] = <<before, p[j - 1]>>
      <4>1. g[k] = <<Filled(lay, k, m, blank), p[k]>>
        BY <1>0, <2>6
      <4>2. QED
        BY <3>1, <4>1
    <3>3. lay[j][2] \in Sized => before[lay[j][3]] = m[lay[j][3]]
      <4> SUFFICES ASSUME lay[j][2] \in Sized PROVE before[lay[j][3]] = m[lay[j][3]]
        OBVIOUS
      <4>1. PICK l \in 1..(j - 1) : lay[l][1] = lay[j][3]
        BY <1>0
      <4>2. l \in 1..n
        BY <1>0
      <4>3. lay[j][3] \in DOMAIN blank
        BY <1>0, <4>1, <4>2
      <4>4. QED
        BY <4>1, <4>3 DEF Filled
    <3> HIDE DEF before
    <3>4. FieldFits(lay[j], m) /\ At(b, p[j - 1], PutField(lay[j], m))
      BY <1>0, <1>3, <2>2
    <3>5. TakeField(lay[j], before, b, p[j - 1]) = <<m[name], p[j - 1] + Len(PutField(lay[j], m))>>
      BY <3>3, <3>4, FieldAt
    <3>6. p[j] = p[j - 1] + Len(PutField(lay[j], m))
      BY <1>3, <2>2
    <3>7. g[j] = <<[before EXCEPT ![name] = m[name]], p[j]>>
      BY <2>4, <3>2, <3>5, <3>6 DEF SetField
    <3>8. [before EXCEPT ![name] = m[name]] = after
      <4>1. before = [f \in DOMAIN blank |-> IF \E l \in 1..(j - 1) : lay[l][1] = f THEN m[f] ELSE blank[f]]
        BY DEF before, Filled
      <4>2. name \in DOMAIN blank
        BY <1>0
      <4>3. ASSUME NEW f
            PROVE  (\E l \in 1..j : lay[l][1] = f) <=> f = name \/ \E l \in 1..(j - 1) : lay[l][1] = f
        <5>1. \A l \in 1..j : l = j \/ l \in 1..(j - 1)
          OBVIOUS
        <5>2. j \in 1..j /\ \A l \in 1..(j - 1) : l \in 1..j
          OBVIOUS
        <5>3. QED
          BY <5>1, <5>2
      <4>4. after = [f \in DOMAIN blank |->
                        IF f = name \/ \E l \in 1..(j - 1) : lay[l][1] = f THEN m[f] ELSE blank[f]]
        BY <4>3 DEF Filled
      <4> HIDE DEF after, name
      <4>5. QED
        BY <4>1, <4>2, <4>4
    <3>9. QED
      BY <3>1, <3>7, <3>8
  <2>7. n \in T
    <3> HIDE DEF T
    <3>1. \A k \in Nat : k \in T
      BY <2>5, <2>6, SetInduction
    <3>2. QED
      BY <1>0, <3>1
  <2>8. g[n] = <<Filled(lay, n, m, blank), p[n]>>
    BY <1>0, <2>7
  <2> HIDE DEF T
  <2>9. QED
    BY <2>2, <2>3, <2>8
<1>7. QED
  BY <1>4, <1>5, <1>6

LEMMA TuplesJoined ==
    /\ \A a, b : <<a>> \o <<b>> = <<a, b>>
    /\ \A a, b, c : <<a, b>> \o <<c>> = <<a, b, c>> /\ <<a>> \o <<b, c>> = <<a, b, c>>
    /\ \A a, b, c, d : <<a, b, c>> \o <<d>> = <<a, b, c, d>>
    /\ \A a, b, c : <<a>> \o <<>> = <<a>> /\ <<a, b>> \o <<>> = <<a, b>> /\ <<a, b, c>> \o <<>> = <<a, b, c>>
<1>1. ASSUME NEW a, NEW b PROVE <<a>> \o <<b>> = <<a, b>>
  <2>1. \E S : <<a>> \in Seq(S) /\ <<b>> \in Seq(S) /\ <<a, b>> \in Seq(S)
    <3>1. <<a>> \in Seq({a, b}) /\ <<b>> \in Seq({a, b}) /\ <<a, b>> \in Seq({a, b})
      OBVIOUS
    <3>2. QED
      BY <3>1
  <2>2. Joins(<<a, b>>, <<a>>, 1, <<b>>, 1)
    BY <2>1 DEF Joins
  <2>3. QED
    BY <2>2, Joined
<1>2. ASSUME NEW a, NEW b, NEW c PROVE <<a, b>> \o <<c>> = <<a, b, c>>
  <2>1. \E S : <<a, b>> \in Seq(S) /\ <<c>> \in Seq(S) /\ <<a, b, c>> \in Seq(S)
    <3>1. <<a, b>> \in Seq({a, b, c}) /\ <<c>> \in Seq({a, b, c}) /\ <<a, b, c>> \in Seq({a, b, c})
      OBVIOUS
    <3>2. QED
      BY <3>1
  <2>2. Joins(<<a, b, c>>, <<a, b>>, 2, <<c>>, 1)
    BY <2>1 DEF Joins
  <2>3. QED
    BY <2>2, Joined
<1>3. ASSUME NEW a, NEW b, NEW c PROVE <<a>> \o <<b, c>> = <<a, b, c>>
  <2>1. \E S : <<a>> \in Seq(S) /\ <<b, c>> \in Seq(S) /\ <<a, b, c>> \in Seq(S)
    <3>1. <<a>> \in Seq({a, b, c}) /\ <<b, c>> \in Seq({a, b, c}) /\ <<a, b, c>> \in Seq({a, b, c})
      OBVIOUS
    <3>2. QED
      BY <3>1
  <2>2. Joins(<<a, b, c>>, <<a>>, 1, <<b, c>>, 2)
    BY <2>1 DEF Joins
  <2>3. QED
    BY <2>2, Joined
<1>4. ASSUME NEW a, NEW b, NEW c, NEW d PROVE <<a, b, c>> \o <<d>> = <<a, b, c, d>>
  <2>1. \E S : <<a, b, c>> \in Seq(S) /\ <<d>> \in Seq(S) /\ <<a, b, c, d>> \in Seq(S)
    <3>1. <<a, b, c>> \in Seq({a, b, c, d}) /\ <<d>> \in Seq({a, b, c, d}) /\ <<a, b, c, d>> \in Seq({a, b, c, d})
      OBVIOUS
    <3>2. QED
      BY <3>1
  <2>2. Joins(<<a, b, c, d>>, <<a, b, c>>, 3, <<d>>, 1)
    BY <2>1 DEF Joins
  <2>3. QED
    BY <2>2, Joined
<1>5. ASSUME NEW a, NEW b, NEW c
      PROVE  <<a>> \o <<>> = <<a>> /\ <<a, b>> \o <<>> = <<a, b>> /\ <<a, b, c>> \o <<>> = <<a, b, c>>
  <2>1. <<a>> \in Seq({a, b, c}) /\ <<a, b>> \in Seq({a, b, c}) /\ <<a, b, c>> \in Seq({a, b, c})
    OBVIOUS
  <2>2. QED
    BY <2>1, ConcatEmptySeq
<1>6. \A a, b : <<a>> \o <<b>> = <<a, b>>
  BY <1>1
<1>7. \A a, b, c : <<a, b>> \o <<c>> = <<a, b, c>> /\ <<a>> \o <<b, c>> = <<a, b, c>>
  BY <1>2, <1>3
<1>8. \A a, b, c, d : <<a, b, c>> \o <<d>> = <<a, b, c, d>>
  BY <1>4
<1>9. \A a, b, c : <<a>> \o <<>> = <<a>> /\ <<a, b>> \o <<>> = <<a, b>> /\ <<a, b, c>> \o <<>> = <<a, b, c>>
  BY <1>5
<1>10. QED
  BY <1>6, <1>7, <1>8, <1>9

---------------------------------------------------------------------------
(* Messages as a whole.                                                    *)

\* What the memset() leaves in a field.
BlankOf(k) ==
    CASE k[2] = "num"  -> 0
      [] k[2] = "buf"  -> Zeros(k[3])
      [] k[2] = "sock" -> NoSock
      [] OTHER         -> <<>>

\* n fields, each with a name of its own.
Named(lay, n) ==
    /\ n \in Nat /\ DOMAIN lay = 1..n
    /\ \A j, l \in 1..n : lay[j][1] = lay[l][1] => j = l

\* The message before it is filled in.
BlankFilled(lay, n) ==
    /\ DOMAIN Blank(lay) = {lay[j][1] : j \in 1..n}
    /\ Blank(lay) = [f \in DOMAIN Blank(lay) |-> Blank(lay)[f]]
    /\ \A j \in 1..n : Blank(lay)[lay[j][1]] = BlankOf(lay[j])

LEMMA BlanksFilled ==
    ASSUME NEW lay, NEW n, Named(lay, n)
    PROVE  BlankFilled(lay, n)
<1> DEFINE at(f) == CHOOSE j \in DOMAIN lay : lay[j][1] = f
<1>0. n \in Nat /\ DOMAIN lay = 1..n /\ \A j, l \in 1..n : lay[j][1] = lay[l][1] => j = l
  BY DEF Named
<1>1. Blank(lay) = [f \in {lay[j][1] : j \in DOMAIN lay} |-> BlankOf(lay[at(f)])]
  BY DEF Blank, BlankOf
<1>2. ASSUME NEW j \in 1..n PROVE at(lay[j][1]) = j
  <2>1. at(lay[j][1]) \in 1..n /\ lay[at(lay[j][1])][1] = lay[j][1]
    BY <1>0
  <2> HIDE DEF at
  <2>2. QED
    BY <1>0, <2>1
<1> HIDE DEF at
<1>3. QED
  BY <1>0, <1>1, <1>2 DEF BlankFilled

LEMMA BlankDomain ==
    ASSUME NEW lay, NEW n, Named(lay, n)
    PROVE  /\ DOMAIN Blank(lay) = {lay[j][1] : j \in 1..n}
           /\ Blank(lay) = [f \in DOMAIN Blank(lay) |-> Blank(lay)[f]]
<1>1. BlankFilled(lay, n)
  BY BlanksFilled
<1>2. QED
  BY <1>1 DEF BlankFilled

LEMMA BlankField ==
    ASSUME NEW lay, NEW n, Named(lay, n), NEW j \in 1..n
    PROVE  Blank(lay)[lay[j][1]] = BlankOf(lay[j])
<1>1. BlankFilled(lay, n)
  BY BlanksFilled
<1>2. QED
  BY <1>1 DEF BlankFilled

\* The message m can be written with the layout and read on top of the blank one:
\* what the layout leaves out is blank in m.
Carries(lay, n, m, blank) ==
    /\ LaidOut(lay, n, m, blank)
    /\ m = [f \in DOMAIN blank |-> m[f]]
    /\ \A f \in DOMAIN blank : (\E j \in 1..n : lay[j][1] = f) \/ m[f] = blank[f]

\* A message that a layout carries is read back from where it is.
LEMMA MessageAt ==
    ASSUME NEW lay, NEW n, NEW m, NEW blank, Carries(lay, n, m, blank),
           NEW b, Len(b) \in Nat, NEW i
    PROVE  /\ Encode(lay, m) \in Seq(Byte)
           /\ At(b, i, Encode(lay, m)) => Decode(lay, blank, b, i) = <<m, i + Len(Encode(lay, m))>>
<1>1. Filled(lay, n, m, blank) = m
  BY DEF Filled, Carries
<1>2. LaidOut(lay, n, m, blank)
  BY DEF Carries
<1>3. QED
  BY <1>1, <1>2, LayoutAt

\* The layout lay, n fields long, is the layout full, or that without some of
\* its fields, and a field that tells a length comes before the one whose it is.
Leaves(lay, n, full, k) ==
    /\ Named(lay, n) /\ Named(full, k) /\ lay = [j \in 1..n |-> lay[j]]
    /\ \A j \in 1..n : \E l \in 1..k : full[l] = lay[j]
    /\ \A j \in 1..n : lay[j][2] \in Sized => \E l \in 1..(j - 1) : lay[l][1] = lay[j][3]

\* The message has the fields of full, the ones that are left out are blank.
Suits(m, lay, n, full, k) ==
    /\ m = [f \in {full[l][1] : l \in 1..k} |-> m[f]]
    /\ \A j \in 1..n : FieldFits(lay[j], m)
    /\ \A l \in 1..k : (\E j \in 1..n : lay[j][1] = full[l][1]) \/ m[full[l][1]] = BlankOf(full[l])

\* When a layout carries a message: it leaves out only fields that are blank.
LEMMA Carried ==
    ASSUME NEW lay, NEW n, NEW full, NEW k, NEW m, Leaves(lay, n, full, k), Suits(m, lay, n, full, k)
    PROVE  Carries(lay, n, m, Blank(full))
<1> DEFINE blank == Blank(full)
<1>0. /\ Named(lay, n) /\ Named(full, k) /\ lay = [j \in 1..n |-> lay[j]]
      /\ \A j \in 1..n : \E l \in 1..k : full[l] = lay[j]
      /\ \A j \in 1..n : lay[j][2] \in Sized => \E l \in 1..(j - 1) : lay[l][1] = lay[j][3]
  BY DEF Leaves
<1>1. /\ DOMAIN blank = {full[l][1] : l \in 1..k}
      /\ blank = [f \in DOMAIN blank |-> blank[f]]
      /\ \A l \in 1..k : blank[full[l][1]] = BlankOf(full[l])
  <2>1. BlankFilled(full, k)
    BY <1>0, BlanksFilled
  <2>2. QED
    BY <2>1 DEF BlankFilled
<1> HIDE DEF blank
<1>2. n \in Nat /\ \A j, l \in 1..n : lay[j][1] = lay[l][1] => j = l
  BY <1>0 DEF Named
<1>3. \A j \in 1..n : lay[j][1] \in DOMAIN blank
  BY <1>0, <1>1
<1>4. LaidOut(lay, n, m, blank)
  BY <1>0, <1>1, <1>2, <1>3 DEF LaidOut, Suits
<1>5. m = [f \in DOMAIN blank |-> m[f]]
  BY <1>1 DEF Suits
<1>6. \A f \in DOMAIN blank : (\E j \in 1..n : lay[j][1] = f) \/ m[f] = blank[f]
  BY <1>1 DEF Suits
<1>7. QED
  BY <1>4, <1>5, <1>6 DEF Carries, blank

\* The header of edges and supernodes.
LEMMA CommonBack ==
    ASSUME NEW c, NEW m, m.version = N2N_PKT_VERSION, NEW idx,
           [ttl |-> m.ttl, pc |-> m.flags % 32, flags |-> (m.flags \div 32) * 32, community |-> m.community] = c
    PROVE  CommonOf(m, idx) = [cmn |-> c, idx |-> idx, ok |-> TRUE]
<1>1. (m.version = N2N_PKT_VERSION) = TRUE
  BY Zenon
<1>2. QED
  BY <1>1, Zenon DEF CommonOf

\* n2n_common_t: type and flags share a word.
LEMMA FlagBits ==
    ASSUME NEW p \in 0..31, NEW w \in Word, w % 32 = 0
    PROVE  /\ (p % 32) + (w \div 32) * 32 \in Word
           /\ ((p % 32) + (w \div 32) * 32) % 32 = p
           /\ (((p % 32) + (w \div 32) * 32) \div 32) * 32 = w
<1> DEFINE q == w \div 32
<1>1. w = 32 * q /\ q \in Nat /\ w < 65536 /\ p % 32 = p /\ p >= 0 /\ p <= 31 /\ p \in Nat
  BY DEF Word
<1> HIDE DEF q
<1> DEFINE x == p + q * 32
<1>2. x \in Int /\ x >= 0 /\ x < 65536
  BY <1>1
<1>3. x % 32 = p /\ x \div 32 = q
  BY <1>1
<1>4. x \in Word
  BY <1>2 DEF Word
<1>5. (p % 32) + (w \div 32) * 32 = x
  BY <1>1 DEF q
<1> HIDE DEF x
<1>6. (x \div 32) * 32 = w
  BY <1>1, <1>3
<1>7. QED
  BY <1>3, <1>4, <1>5, <1>6

LEMMA CommonCarried ==
    ASSUME NEW c \in CommonParts, NEW m,
           m = [version |-> N2N_PKT_VERSION, ttl |-> c.ttl, community |-> c.community,
                flags |-> (c.pc % 32) + (c.flags \div 32) * 32]
    PROVE  /\ Carries(CommonLayout, 4, m, Blank(CommonLayout))
           /\ m.version = N2N_PKT_VERSION
           /\ [ttl |-> m.ttl, pc |-> m.flags % 32, flags |-> (m.flags \div 32) * 32, community |-> m.community] = c
<1> DEFINE lay == CommonLayout
<1>1. Leaves(lay, 4, lay, 4)
  BY DEF CommonLayout, Named, Leaves, Sized
<1>2. {lay[j][1] : j \in 1..4} = {"version", "ttl", "flags", "community"}
  BY DEF CommonLayout
<1>3. /\ c.ttl \in Byte /\ c.pc \in 0..31 /\ IsBytes(c.community, 16)
      /\ c = [ttl |-> c.ttl, pc |-> c.pc, flags |-> c.flags, community |-> c.community]
  BY DEF CommonParts, PC, BytesOf, N2N_COMMUNITY_SIZE
<1>4. c.flags \in Word /\ c.flags % 32 = 0
  BY DEF CommonParts
<1>5. m.flags = (c.pc % 32) + (c.flags \div 32) * 32
  OBVIOUS
<1>6. m.flags \in Word /\ m.flags % 32 = c.pc /\ (m.flags \div 32) * 32 = c.flags
  <2> HIDE DEF lay
  <2> DEFINE f == m.flags
  <2>1. f = (c.pc % 32) + (c.flags \div 32) * 32
    BY <1>5
  <2> HIDE DEF f
  <2>2. f \in Word /\ f % 32 = c.pc /\ (f \div 32) * 32 = c.flags
    BY <1>3, <1>4, <2>1, FlagBits
  <2>3. QED
    BY <2>2 DEF f
<1>7. m.version = N2N_PKT_VERSION /\ m.ttl = c.ttl /\ m.community = c.community
  OBVIOUS
<1>8. Suits(m, lay, 4, lay, 4)
  <2>1. m = [f \in {lay[j][1] : j \in 1..4} |-> m[f]]
    BY <1>2
  <2>2. m.version \in Numbers(1) /\ m.ttl \in Numbers(1) /\ m.flags \in Numbers(2)
    BY <1>3, <1>6, <1>7 DEF Numbers, Byte, N2N_PKT_VERSION
  <2>3. IsBytes(m.community, 16)
    BY <1>3, <1>7
  <2>4. \A j \in 1..4 : FieldFits(lay[j], m)
    BY <2>2, <2>3 DEF CommonLayout, FieldFits
  <2>5. QED
    BY <2>1, <2>4 DEF Suits
<1>9. Carries(lay, 4, m, Blank(lay))
  BY <1>1, <1>8, Carried
<1>10. [ttl |-> m.ttl, pc |-> m.flags % 32, flags |-> (m.flags \div 32) * 32, community |-> m.community] = c
  BY <1>3, <1>6, <1>7
<1>11. QED
  BY <1>7, <1>9, <1>10

\* The layouts of a REGISTER and of its acknowledgement.
LEMMA RegisterLayouts ==
    LET cookie == <<"cookie", "buf", 4>>
        sock == << <<"sock", "sock", 0>> >>
        asked == <<cookie, <<"srcMac", "buf", 6>>, <<"dstMac", "buf", 6>> >>
        acked == <<cookie, <<"dstMac", "buf", 6>>, <<"srcMac", "buf", 6>> >>
    IN  /\ BodyLayout(PC.REGISTER, TRUE) = asked \o sock
        /\ BodyLayout(PC.REGISTER, FALSE) = asked \o <<>>
        /\ BodyLayout(PC.REGISTER_ACK, TRUE) = acked \o sock
        /\ BodyLayout(PC.REGISTER_ACK, FALSE) = acked \o <<>>
        /\ PC.REGISTER # PC.REGISTER_ACK
<1>1. /\ PC.REGISTER # PC.REGISTER_ACK /\ PC.REGISTER # PC.PACKET
      /\ PC.REGISTER # PC.REGISTER_SUPER /\ PC.REGISTER # PC.REGISTER_SUPER_ACK
      /\ PC.REGISTER_ACK # PC.PACKET /\ PC.REGISTER_ACK # PC.REGISTER_SUPER
      /\ PC.REGISTER_ACK # PC.REGISTER_SUPER_ACK
  BY DEF PC
<1>2. QED
  BY <1>1, Zenon DEF BodyLayout

\* The messages of edges and supernodes, of each type.
LEMMA RegisterCarried ==
    ASSUME NEW pc \in {PC.REGISTER, PC.REGISTER_ACK}, NEW m \in Messages(pc), NEW withSock \in BOOLEAN,
           withSock <=> m.sock.family # 0
    PROVE  \E n : Carries(BodyLayout(pc, withSock), n, m, Blank(BodyLayout(pc, TRUE)))
<1> DEFINE first == IF pc = PC.REGISTER THEN "srcMac" ELSE "dstMac"
           second == IF pc = PC.REGISTER THEN "dstMac" ELSE "srcMac"
           k1 == <<"cookie", "buf", 4>>
           k2 == <<first, "buf", 6>>
           k3 == <<second, "buf", 6>>
           k4 == <<"sock", "sock", 0>>
           full == <<k1, k2, k3, k4>>
           short == <<k1, k2, k3>>
<1>1. BodyLayout(pc, TRUE) = full /\ BodyLayout(pc, FALSE) = short
  <2>1. <<k1, k2, k3>> \o <<k4>> = full /\ <<k1, k2, k3>> \o <<>> = short
    <3> HIDE DEF k1, k2, k3, k4
    <3>1. QED
      BY TuplesJoined
  <2>2. BodyLayout(pc, TRUE) = <<k1, k2, k3>> \o <<k4>> /\ BodyLayout(pc, FALSE) = <<k1, k2, k3>> \o <<>>
    <3>1. CASE pc = PC.REGISTER
      <4>1. first = "srcMac" /\ second = "dstMac"
        BY <3>1
      <4> HIDE DEF first, second
      <4>2. QED
        BY <3>1, <4>1, RegisterLayouts, Zenon
    <3>2. CASE pc = PC.REGISTER_ACK
      <4>1. first = "dstMac" /\ second = "srcMac"
        BY <3>2, RegisterLayouts
      <4> HIDE DEF first, second
      <4>2. QED
        BY <3>2, <4>1, RegisterLayouts, Zenon
    <3>3. QED
      BY <3>1, <3>2
  <2>3. QED
    BY <2>1, <2>2
<1>2. /\ m = [cookie |-> m.cookie, srcMac |-> m.srcMac, dstMac |-> m.dstMac, sock |-> m.sock]
      /\ IsBytes(m.cookie, 4) /\ IsBytes(m.srcMac, 6) /\ IsBytes(m.dstMac, 6)
      /\ m.sock \in Sockets \/ m.sock = NoSock
  BY DEF Messages, PC, BytesOf
<1>3. m.sock \in Sockets <=> withSock
  BY <1>2 DEF Sockets, IPv4, IPv6, NoSock, AF_INET, AF_INET6
<1>4. Leaves(full, 4, full, 4) /\ Leaves(short, 3, full, 4)
  <2>1. Named(full, 4) /\ Named(short, 3)
    BY DEF Named
  <2>2. QED
    BY <2>1 DEF Leaves, Sized
<1>5. m = [f \in {full[l][1] : l \in 1..4} |-> m[f]]
  <2>1. {full[l][1] : l \in 1..4} = {"cookie", "srcMac", "dstMac", "sock"}
    OBVIOUS
  <2>2. QED
    BY <1>2, <2>1
<1>6. CASE withSock
  <2>1. \A j \in 1..4 : FieldFits(full[j], m)
    BY <1>2, <1>3, <1>6 DEF FieldFits
  <2>2. Suits(m, full, 4, full, 4)
    BY <1>5, <2>1, Zenon DEF Suits
  <2>3. QED
    BY <1>1, <1>4, <1>6, <2>2, Carried
<1>7. CASE ~withSock
  <2>1. m.sock = NoSock
    BY <1>2, <1>3, <1>7
  <2>2. \A j \in 1..3 : FieldFits(short[j], m)
    BY <1>2 DEF FieldFits
  <2>3. \A l \in 1..4 : (\E j \in 1..3 : short[j][1] = full[l][1]) \/ m[full[l][1]] = BlankOf(full[l])
    BY <2>1 DEF BlankOf
  <2>4. Suits(m, short, 3, full, 4)
    BY <1>5, <2>2, <2>3, Zenon DEF Suits
  <2> HIDE DEF full, short
  <2>5. Carries(short, 3, m, Blank(full))
    BY <1>4, <2>4, Carried
  <2>6. QED
    BY <1>1, <1>7, <2>5
<1>8. QED
  BY <1>6, <1>7

\* Each type of message is carried by its layout.
LEMMA PacketCarried ==
    ASSUME NEW m \in Messages(PC.PACKET), NEW withSock \in BOOLEAN, withSock <=> m.sock.family # 0
    PROVE  \E n : Carries(BodyLayout(PC.PACKET, withSock), n, m, Blank(BodyLayout(PC.PACKET, TRUE)))
<1> DEFINE k1 == <<"srcMac", "buf", 6>>
           k2 == <<"dstMac", "buf", 6>>
           k3 == <<"sock", "sock", 0>>
           k4 == <<"transform", "num", 2>>
           full == <<k1, k2, k3, k4>>
           short == <<k1, k2, k4>>
<1>1. BodyLayout(PC.PACKET, TRUE) = full /\ BodyLayout(PC.PACKET, FALSE) = short
  <2>1. (<<k1, k2>> \o <<k3>>) \o <<k4>> = full /\ (<<k1, k2>> \o <<>>) \o <<k4>> = short
    <3> HIDE DEF k1, k2, k3, k4
    <3>1. <<k1, k2>> \o <<k3>> = <<k1, k2, k3>> /\ <<k1, k2>> \o <<>> = <<k1, k2>>
      BY TuplesJoined
    <3>2. <<k1, k2, k3>> \o <<k4>> = full /\ <<k1, k2>> \o <<k4>> = short
      BY TuplesJoined
    <3>3. QED
      BY <3>1, <3>2
  <2>2. /\ BodyLayout(PC.PACKET, TRUE) = (<<k1, k2>> \o <<k3>>) \o <<k4>>
        /\ BodyLayout(PC.PACKET, FALSE) = (<<k1, k2>> \o <<>>) \o <<k4>>
    BY DEF BodyLayout, PC
  <2>3. QED
    BY <2>1, <2>2
<1>2. /\ m = [srcMac |-> m.srcMac, dstMac |-> m.dstMac, sock |-> m.sock, transform |-> m.transform]
      /\ IsBytes(m.srcMac, 6) /\ IsBytes(m.dstMac, 6) /\ m.transform \in Numbers(2)
      /\ m.sock \in Sockets \/ m.sock = NoSock
  BY DEF Messages, PC, BytesOf
<1>3. m.sock \in Sockets <=> withSock
  BY <1>2 DEF Sockets, IPv4, IPv6, NoSock, AF_INET, AF_INET6
<1>4. Leaves(full, 4, full, 4) /\ Leaves(short, 3, full, 4)
  <2>1. Named(full, 4) /\ Named(short, 3)
    BY DEF Named
  <2>2. QED
    BY <2>1 DEF Leaves, Sized
<1>5. m = [f \in {full[l][1] : l \in 1..4} |-> m[f]]
  <2>1. {full[l][1] : l \in 1..4} = {"srcMac", "dstMac", "sock", "transform"}
    OBVIOUS
  <2>2. QED
    BY <1>2, <2>1
<1>6. CASE withSock
  <2>1. \A j \in 1..4 : FieldFits(full[j], m)
    BY <1>2, <1>3, <1>6 DEF FieldFits
  <2>2. Suits(m, full, 4, full, 4)
    BY <1>5, <2>1 DEF Suits
  <2>3. QED
    BY <1>1, <1>4, <1>6, <2>2, Carried
<1>7. CASE ~withSock
  <2>1. m.sock = NoSock
    BY <1>2, <1>3, <1>7
  <2>2. \A j \in 1..3 : FieldFits(short[j], m)
    BY <1>2 DEF FieldFits
  <2>3. \A l \in 1..4 : (\E j \in 1..3 : short[j][1] = full[l][1]) \/ m[full[l][1]] = BlankOf(full[l])
    BY <2>1 DEF BlankOf
  <2>4. Suits(m, short, 3, full, 4)
    BY <1>5, <2>2, <2>3 DEF Suits
  <2> HIDE DEF full, short
  <2>5. Carries(short, 3, m, Blank(full))
    BY <1>4, <2>4, Carried
  <2>6. QED
    BY <1>1, <1>7, <2>5
<1>8. QED
  BY <1>6, <1>7

LEMMA RegisterSuperCarried ==
    ASSUME NEW m \in Messages(PC.REGISTER_SUPER), NEW withSock
    PROVE  \E n : Carries(BodyLayout(PC.REGISTER_SUPER, withSock), n, m, Blank(BodyLayout(PC.REGISTER_SUPER, TRUE)))
<1> DEFINE lay == << <<"cookie", "buf", 4>>, <<"edgeMac", "buf", 6>>, <<"scheme", "num", 2>>,
                     <<"toksize", "num", 2>>, <<"token", "bytes", "toksize">> >>
<1>1. BodyLayout(PC.REGISTER_SUPER, TRUE) = lay /\ BodyLayout(PC.REGISTER_SUPER, withSock) = lay
  BY DEF BodyLayout, PC
<1>2. /\ m = [cookie |-> m.cookie, edgeMac |-> m.edgeMac, scheme |-> m.scheme, toksize |-> m.toksize,
              token |-> m.token]
      /\ IsBytes(m.cookie, 4) /\ IsBytes(m.edgeMac, 6) /\ IsBytes(m.token, m.toksize)
      /\ m.scheme \in Numbers(2) /\ m.toksize \in Numbers(2)
  BY DEF Messages, PC, BytesOf
<1>3. Leaves(lay, 5, lay, 5)
  <2>1. Named(lay, 5)
    BY DEF Named
  <2>2. QED
    BY <2>1 DEF Leaves, Sized
<1>4. m = [f \in {lay[l][1] : l \in 1..5} |-> m[f]]
  <2>1. {lay[l][1] : l \in 1..5} = {"cookie", "edgeMac", "scheme", "toksize", "token"}
    OBVIOUS
  <2>2. QED
    BY <1>2, <2>1
<1>5. \A j \in 1..5 : FieldFits(lay[j], m)
  BY <1>2 DEF FieldFits
<1>6. Suits(m, lay, 5, lay, 5)
  BY <1>4, <1>5 DEF Suits
<1>7. QED
  BY <1>1, <1>3, <1>6, Carried

LEMMA RegisterSuperAckCarried ==
    ASSUME NEW m \in Messages(PC.REGISTER_SUPER_ACK), NEW withSock
    PROVE  \E n : Carries(BodyLayout(PC.REGISTER_SUPER_ACK, withSock), n, m,
                          Blank(BodyLayout(PC.REGISTER_SUPER_ACK, TRUE)))
<1> DEFINE lay == << <<"cookie", "buf", 4>>, <<"edgeMac", "buf", 6>>, <<"lifetime", "num", 2>>,
                     <<"sock", "sock", 0>>, <<"num_sn", "num", 1>>, <<"sn_bak", "socks", "num_sn">> >>
<1>1. BodyLayout(PC.REGISTER_SUPER_ACK, TRUE) = lay /\ BodyLayout(PC.REGISTER_SUPER_ACK, withSock) = lay
  BY DEF BodyLayout, PC
<1>2. /\ m = [cookie |-> m.cookie, edgeMac |-> m.edgeMac, lifetime |-> m.lifetime, sock |-> m.sock,
              num_sn |-> m.num_sn, sn_bak |-> m.sn_bak]
      /\ IsBytes(m.cookie, 4) /\ IsBytes(m.edgeMac, 6) /\ m.lifetime \in Numbers(2)
      /\ m.sock \in Sockets /\ m.num_sn \in Numbers(1)
      /\ m.sn_bak \in Seq(Sockets) /\ m.num_sn = Len(m.sn_bak)
  BY DEF Messages, PC, BytesOf
<1>3. Leaves(lay, 6, lay, 6)
  <2>1. Named(lay, 6)
    BY DEF Named
  <2>2. QED
    BY <2>1 DEF Leaves, Sized
<1>4. m = [f \in {lay[l][1] : l \in 1..6} |-> m[f]]
  <2>1. {lay[l][1] : l \in 1..6} = {"cookie", "edgeMac", "lifetime", "sock", "num_sn", "sn_bak"}
    OBVIOUS
  <2>2. QED
    BY <1>2, <2>1
<1>5. \A j \in 1..6 : FieldFits(lay[j], m)
  BY <1>2 DEF FieldFits
<1>6. Suits(m, lay, 6, lay, 6)
  BY <1>4, <1>5 DEF Suits
<1>7. QED
  BY <1>1, <1>3, <1>6, Carried

LEMMA N2NCarried ==
    ASSUME NEW c, NEW m, N2NSays(c, m)
    PROVE  LET lay == BodyLayout(c.pc, HasOptionalSock(c.pc) => m.sock.family # 0)
           IN  /\ lay = BodyLayout(c.pc, Has(c.flags, N2N_FLAGS_SOCKET))
               /\ \E n : Carries(lay, n, m, Blank(BodyLayout(c.pc, TRUE)))
<1> DEFINE pc == c.pc
           written == HasOptionalSock(pc) => m.sock.family # 0
           read == Has(c.flags, N2N_FLAGS_SOCKET)
<1>0. c \in CommonParts /\ m \in Messages(pc) /\ (HasOptionalSock(pc) => (read <=> m.sock.family # 0))
  BY DEF N2NSays
<1>1. pc \in {PC.REGISTER, PC.PACKET, PC.REGISTER_ACK, PC.REGISTER_SUPER, PC.REGISTER_SUPER_ACK}
  BY <1>0 DEF CommonParts, PC
<1>2. written \in BOOLEAN /\ read \in BOOLEAN
  BY DEF Has
<1> HIDE DEF read
<1>3. CASE pc \in {PC.REGISTER, PC.REGISTER_ACK, PC.PACKET}
  <2>1. HasOptionalSock(pc)
    BY <1>3 DEF HasOptionalSock
  <2>2. (written <=> m.sock.family # 0) /\ (written <=> read)
    BY <1>0, <2>1
  <2> HIDE DEF written
  <2>3. BodyLayout(pc, written) = BodyLayout(pc, read)
    <3>1. CASE written
      BY <2>2, <3>1 DEF BodyLayout
    <3>2. CASE ~written
      BY <2>2, <3>2 DEF BodyLayout
    <3>3. QED
      BY <3>1, <3>2
  <2>4. \E n : Carries(BodyLayout(pc, written), n, m, Blank(BodyLayout(pc, TRUE)))
    <3> HIDE DEF pc
    <3>1. CASE pc \in {PC.REGISTER, PC.REGISTER_ACK}
      BY <1>0, <1>2, <2>2, <3>1, RegisterCarried
    <3>2. CASE pc = PC.PACKET
      BY <1>0, <1>2, <2>2, <3>2, PacketCarried
    <3>3. QED
      BY <1>3, <3>1, <3>2
  <2>5. QED
    BY <2>3, <2>4 DEF written, read
<1>4. CASE pc \in {PC.REGISTER_SUPER, PC.REGISTER_SUPER_ACK}
  <2> HIDE DEF written
  <2>1. BodyLayout(pc, written) = BodyLayout(pc, read)
    BY <1>4 DEF BodyLayout, PC
  <2>2. \E n : Carries(BodyLayout(pc, written), n, m, Blank(BodyLayout(pc, TRUE)))
    <3> HIDE DEF pc
    <3>1. CASE pc = PC.REGISTER_SUPER
      BY <1>0, <3>1, RegisterSuperCarried
    <3>2. CASE pc = PC.REGISTER_SUPER_ACK
      BY <1>0, <3>2, RegisterSuperAckCarried
    <3>3. QED
      BY <1>4, <3>1, <3>2
  <2>3. QED
    BY <2>1, <2>2 DEF written, read
<1>5. QED
  BY <1>1, <1>3, <1>4

\* Two parts and what is behind them.
LEMMA ThreeAt ==
    ASSUME NEW x \in Seq(Byte), NEW y \in Seq(Byte), NEW z \in Seq(Byte), NEW b, Is(b, (x \o y) \o z)
    PROVE  /\ b \in Seq(Byte) /\ Len(b) \in Nat
           /\ At(b, 0, x) /\ At(b, Len(x), y)
           /\ SubSeq(b, Len(x) + Len(y) + 1, Len(b)) = z
           /\ Len(b) = Len(x) + Len(y) + Len(z)
<1>0. b = (x \o y) \o z
  BY DEF Is
<1>1. x \o y \in Seq(Byte) /\ Len(x \o y) = Len(x) + Len(y) /\ Len(x) \in Nat /\ Len(y) \in Nat /\ Len(z) \in Nat
  BY ConcatProperties, LenProperties
<1>2. b \in Seq(Byte) /\ Len(b) \in Nat /\ Len(b) = Len(x) + Len(y) + Len(z)
  BY <1>0, <1>1, ConcatProperties, LenProperties
<1>3. At(b, 0, (x \o y) \o z)
  BY <1>0, <1>2 DEF At
<1>4. At(b, 0, x \o y) /\ At(b, 0 + Len(x \o y), z)
  BY <1>1, <1>2, <1>3, AtConcat
<1>5. At(b, 0, x) /\ At(b, 0 + Len(x), y)
  BY <1>2, <1>4, AtConcat
<1>6. SubSeq(b, Len(x) + Len(y) + 1, Len(b)) = z
  <2> DEFINE i == Len(x) + Len(y)
  <2>1. At(b, i, z)
    BY <1>1, <1>4
  <2>2. i \in Nat /\ i + Len(z) = Len(b)
    BY <1>1, <1>2
  <2> HIDE DEF i
  <2>3. Take(b, i, Len(z), 0) = <<z, i + Len(z)>>
    BY <2>1, TakeAt
  <2>4. Take(b, i, Len(z), 0) = <<SubSeq(b, i + 1, i + Len(z)), i + Len(z)>>
    BY <1>2, <2>2 DEF Take
  <2>5. QED
    BY <2>2, <2>3, <2>4 DEF i
<1>7. QED
  BY <1>1, <1>2, <1>5, <1>6

\* Header, message and the rest.
LEMMA WholePair ==
    ASSUME NEW dc, NEW c, NEW i, Is(dc, [cmn |-> c, idx |-> i, ok |-> TRUE]), NEW m, NEW j, NEW b,
           NEW r, r[1] = m, r[2] = j
    PROVE  WholeN2N(dc, r, b) = [ok |-> TRUE, cmn |-> c, msg |-> m, rest |-> SubSeq(b, j + 1, Len(b))]
<1>1. dc = [cmn |-> c, idx |-> i, ok |-> TRUE]
  BY DEF Is
<1>2. WholeN2N(dc, r, b) = [ok |-> TRUE, cmn |-> c, msg |-> r[1], rest |-> SubSeq(b, r[2] + 1, Len(b))]
  BY <1>1, Zenon DEF WholeN2N
<1>3. QED
  BY <1>2

LEMMA WholeBack ==
    ASSUME NEW dc, NEW c, NEW i, Is(dc, [cmn |-> c, idx |-> i, ok |-> TRUE]), NEW m, NEW j, NEW b
    PROVE  WholeN2N(dc, <<m, j>>, b) = [ok |-> TRUE, cmn |-> c, msg |-> m, rest |-> SubSeq(b, j + 1, Len(b))]
<1> DEFINE r == <<m, j>>
<1>1. r[1] = m /\ r[2] = j
  OBVIOUS
<1> HIDE DEF r
<1>2. WholeN2N(dc, r, b) = [ok |-> TRUE, cmn |-> c, msg |-> m, rest |-> SubSeq(b, j + 1, Len(b))]
  BY <1>1, WholePair
<1>3. QED
  BY <1>2 DEF r

\* What is encoded of a message is decoded again.
LEMMA N2NRead ==
    ASSUME NEW c, NEW m, N2NSays(c, m), NEW rest \in Seq(Byte), NEW b, Is(b, EncodeN2N(c, m) \o rest)
    PROVE  ParseBody(DecodeCommon(b), b) = [ok |-> TRUE, cmn |-> c, msg |-> m, rest |-> rest]
<1> DEFINE r == [version |-> N2N_PKT_VERSION, ttl |-> c.ttl, community |-> c.community,
                 flags |-> (c.pc % 32) + (c.flags \div 32) * 32]
           lay == BodyLayout(c.pc, HasOptionalSock(c.pc) => m.sock.family # 0)
           blank == Blank(BodyLayout(c.pc, TRUE))
           head == Encode(CommonLayout, r)
           body == Encode(lay, m)
<1>1. EncodeN2N(c, m) = head \o body
  BY DEF EncodeN2N, EncodeCommon
<1>2. /\ Carries(CommonLayout, 4, r, Blank(CommonLayout))
      /\ r.version = N2N_PKT_VERSION
      /\ [ttl |-> r.ttl, pc |-> r.flags % 32, flags |-> (r.flags \div 32) * 32, community |-> r.community] = c
  <2>1. c \in CommonParts
    BY DEF N2NSays
  <2>2. QED
    BY <2>1, CommonCarried
<1>3. /\ lay = BodyLayout(c.pc, Has(c.flags, N2N_FLAGS_SOCKET))
      /\ \E n : Carries(lay, n, m, blank)
  BY N2NCarried
<1> HIDE DEF r, lay, blank, head, body
<1>4. \A idx : CommonOf(r, idx) = [cmn |-> c, idx |-> idx, ok |-> TRUE]
  BY <1>2, CommonBack
<1>5. head \in Seq(Byte)
  <2>1. <<>> \in Seq(Byte) /\ Len(<<>>) \in Nat
    BY EmptySeq
  <2>2. QED
    BY <1>2, <2>1, MessageAt DEF head
<1>6. body \in Seq(Byte)
  <2>1. <<>> \in Seq(Byte) /\ Len(<<>>) \in Nat
    BY EmptySeq
  <2>2. QED
    BY <1>3, <2>1, MessageAt DEF body
<1>7. Is(b, (head \o body) \o rest)
  BY <1>1 DEF Is
<1>8. /\ b \in Seq(Byte) /\ Len(b) \in Nat /\ At(b, 0, head) /\ At(b, Len(head), body)
      /\ SubSeq(b, Len(head) + Len(body) + 1, Len(b)) = rest
  <2>1. QED
    BY <1>5, <1>6, <1>7, ThreeAt
<1>9. Decode(CommonLayout, Blank(CommonLayout), b, 0) = <<r, 0 + Len(head)>>
  BY <1>2, <1>8, MessageAt DEF head
<1>10. Decode(lay, blank, b, Len(head)) = <<m, Len(head) + Len(body)>>
  BY <1>3, <1>8, MessageAt DEF body
<1> DEFINE i == Len(head)
           j == Len(head) + Len(body)
<1>11. i = 0 + i
  BY <1>5, LenProperties
<1>12. DecodeCommon(b) = [cmn |-> c, idx |-> i, ok |-> TRUE]
  <2>1. DecodeCommon(b) = CommonOf(r, i)
    BY <1>9, <1>11 DEF DecodeCommon, CommonRead
  <2>2. QED
    BY <1>4, <2>1
<1>13. DecodeN2N(c, b, i) = <<m, j>>
  BY <1>3, <1>10 DEF DecodeN2N, blank
<1>14. SubSeq(b, j + 1, Len(b)) = rest
  BY <1>8
<1> HIDE DEF i, j, head, body
<1> DEFINE dc == DecodeCommon(b)
<1>15. Is(dc, [cmn |-> c, idx |-> i, ok |-> TRUE])
  BY <1>12 DEF Is
<1>16. ParseBody(DecodeCommon(b), b) = WholeN2N(dc, <<m, j>>, b)
  <2>1. ParseBody(dc, b) = WholeN2N(dc, DecodeN2N(dc.cmn, b, dc.idx), b)
    BY Zenon DEF ParseBody
  <2> HIDE DEF dc
  <2>2. dc.cmn = c /\ dc.idx = i
    BY <1>15 DEF Is
  <2>3. WholeN2N(dc, DecodeN2N(dc.cmn, b, dc.idx), b) = WholeN2N(dc, <<m, j>>, b)
    BY <1>13, <2>2, Zenon
  <2>4. QED
    BY <2>1, <2>3, Zenon DEF dc
<1>17. WholeN2N(dc, <<m, j>>, b) = [ok |-> TRUE, cmn |-> c, msg |-> m, rest |-> rest]
  <2> HIDE DEF dc
  <2>1. WholeN2N(dc, <<m, j>>, b) = [ok |-> TRUE, cmn |-> c, msg |-> m, rest |-> SubSeq(b, j + 1, Len(b))]
    BY <1>15, WholeBack
  <2>2. QED
    BY <1>14, <2>1, Zenon
<1>18. QED
  BY <1>16, <1>17

---------------------------------------------------------------------------
(* The messages of supernodes.                                             *)

\* The flags a layout is written down with.
LEMMA AllFlags ==
    Has(255, S_FLAG) /\ Has(255, C_FLAG) /\ Has(255, N_FLAG) /\ Has(255, A_FLAG)
<1>1. 255 \div 128 = 1 /\ 255 \div 64 = 3 /\ 255 \div 32 = 7 /\ 255 \div 16 = 15
  OBVIOUS
<1>2. QED
  BY <1>1 DEF Has, S_FLAG, C_FLAG, N_FLAG, A_FLAG

\* The header and the messages of supernodes.
LEMMA HeaderCarried ==
    ASSUME NEW h \in Headers
    PROVE  Carries(HdrLayout, 3, h, Blank(HdrLayout))
<1> DEFINE lay == HdrLayout
<1>1. Leaves(lay, 3, lay, 3)
  <2>1. Named(lay, 3)
    BY DEF HdrLayout, Named
  <2>2. QED
    BY <2>1 DEF HdrLayout, Leaves, Sized
<1>2. h = [type |-> h.type, flags |-> h.flags, seq_num |-> h.seq_num]
  BY DEF Headers
<1>3. h.type \in Numbers(1) /\ h.flags \in Numbers(1) /\ h.seq_num \in Numbers(2)
  BY DEF Headers, SNM, Numbers, Byte
<1>4. h = [f \in {lay[j][1] : j \in 1..3} |-> h[f]]
  <2>1. {lay[j][1] : j \in 1..3} = {"type", "flags", "seq_num"}
    BY DEF HdrLayout
  <2>2. QED
    BY <1>2, <2>1
<1>5. \A j \in 1..3 : FieldFits(lay[j], h)
  BY <1>3 DEF HdrLayout, FieldFits
<1>6. Suits(h, lay, 3, lay, 3)
  BY <1>4, <1>5 DEF Suits
<1>7. QED
  BY <1>1, <1>6, Carried

LEMMA ReqCarried ==
    ASSUME NEW flags, NEW m \in SnmMessages(SNM.REQ, flags)
    PROVE  \E n : Carries(SnmLayout(SNM.REQ, flags), n, m, Blank(SnmLayout(SNM.REQ, 255)))
<1> DEFINE k1 == <<"comm_num", "num", 2>>
           k2 == <<"comm_ptr", "names", "comm_num">>
           full == <<k1, k2>>
           named == Has(flags, N_FLAG)
<1>1. SnmLayout(SNM.REQ, 255) = full /\ SnmLayout(SNM.REQ, flags) = IF named THEN full ELSE <<>>
  <2>1. <<k1>> \o <<k2>> = full
    <3> HIDE DEF k1, k2
    <3>1. QED
      BY TuplesJoined
  <2>2. SnmLayout(SNM.REQ, 255) = <<k1>> \o <<k2>>
    BY AllFlags DEF SnmLayout, SNM
  <2>3. SnmLayout(SNM.REQ, flags) = IF named THEN <<k1>> \o <<k2>> ELSE <<>>
    BY DEF SnmLayout, SNM
  <2> HIDE DEF full, k1, k2
  <2>4. QED
    BY <2>1, <2>2, <2>3
<1>2. /\ m = [comm_num |-> m.comm_num, comm_ptr |-> m.comm_ptr]
      /\ m.comm_num \in Numbers(2) /\ m.comm_ptr \in Seq(CommNames) /\ NamesListed(named, m)
  BY DEF SnmMessages, SNM
<1>3. Leaves(full, 2, full, 2) /\ Leaves(<<>>, 0, full, 2)
  <2>1. Named(full, 2) /\ Named(<<>>, 0)
    BY DEF Named
  <2>2. <<>> = [j \in 1..0 |-> <<>>[j]]
    OBVIOUS
  <2>3. QED
    BY <2>1, <2>2 DEF Leaves, Sized
<1>4. m = [f \in {full[l][1] : l \in 1..2} |-> m[f]]
  <2>1. {full[l][1] : l \in 1..2} = {"comm_num", "comm_ptr"}
    OBVIOUS
  <2>2. QED
    BY <1>2, <2>1
<1> HIDE DEF named
<1>5. CASE named
  <2>1. m.comm_num = Len(m.comm_ptr)
    BY <1>2, <1>5 DEF NamesListed, Listed
  <2>2. \A j \in 1..2 : FieldFits(full[j], m)
    BY <1>2, <2>1 DEF FieldFits
  <2>3. Suits(m, full, 2, full, 2)
    BY <1>4, <2>2 DEF Suits
  <2>4. QED
    BY <1>1, <1>3, <1>5, <2>3, Carried
<1>6. CASE ~named
  <2>1. m.comm_num = 0 /\ m.comm_ptr = <<>>
    BY <1>2, <1>6 DEF NamesListed, Listed
  <2>2. \A l \in 1..2 : m[full[l][1]] = BlankOf(full[l])
    BY <2>1 DEF BlankOf
  <2>3. Suits(m, <<>>, 0, full, 2)
    BY <1>4, <2>2 DEF Suits
  <2>4. QED
    BY <1>1, <1>3, <1>6, <2>3, Carried
<1>7. QED
  BY <1>5, <1>6

LEMMA AdvCarried ==
    ASSUME NEW flags, NEW m \in SnmMessages(SNM.ADV, flags)
    PROVE  \E n : Carries(SnmLayout(SNM.ADV, flags), n, m, Blank(SnmLayout(SNM.ADV, 255)))
<1> DEFINE k0 == <<"sn", "sock", 0>>
           k1 == <<"comm_num", "num", 2>>
           k2 == <<"comm_ptr", "names", "comm_num">>
           full == <<k0, k1, k2>>
           short == <<k0>>
           named == Has(flags, N_FLAG)
<1>1. SnmLayout(SNM.ADV, 255) = full /\ SnmLayout(SNM.ADV, flags) = IF named THEN full ELSE short
  <2>1. <<k0>> \o (<<k1>> \o <<k2>>) = full /\ <<k0>> \o <<>> = short
    <3> HIDE DEF k0, k1, k2
    <3>1. <<k1>> \o <<k2>> = <<k1, k2>>
      BY TuplesJoined
    <3>2. <<k0>> \o <<k1, k2>> = full /\ <<k0>> \o <<>> = short
      BY TuplesJoined
    <3>3. QED
      BY <3>1, <3>2
  <2>2. SnmLayout(SNM.ADV, 255) = <<k0>> \o (<<k1>> \o <<k2>>)
    BY AllFlags DEF SnmLayout, SNM
  <2>3. SnmLayout(SNM.ADV, flags) = IF named THEN <<k0>> \o (<<k1>> \o <<k2>>) ELSE <<k0>> \o <<>>
    <3>1. CASE named
      BY <3>1 DEF SnmLayout, SNM
    <3>2. CASE ~named
      BY <3>2 DEF SnmLayout, SNM
    <3>3. QED
      BY <3>1, <3>2
  <2>4. QED
    BY <2>1, <2>2, <2>3
<1>2. /\ m = [sn |-> m.sn, comm_num |-> m.comm_num, comm_ptr |-> m.comm_ptr]
      /\ m.sn \in Sockets /\ m.comm_num \in Numbers(2) /\ m.comm_ptr \in Seq(CommNames)
      /\ NamesListed(named, m)
  BY DEF SnmMessages, SNM
<1>3. Leaves(full, 3, full, 3) /\ Leaves(short, 1, full, 3)
  <2>1. Named(full, 3) /\ Named(short, 1)
    BY DEF Named
  <2>2. QED
    BY <2>1 DEF Leaves, Sized
<1>4. m = [f \in {full[l][1] : l \in 1..3} |-> m[f]]
  <2>1. {full[l][1] : l \in 1..3} = {"sn", "comm_num", "comm_ptr"}
    OBVIOUS
  <2>2. QED
    BY <1>2, <2>1
<1> HIDE DEF named
<1>5. CASE named
  <2>1. m.comm_num = Len(m.comm_ptr)
    BY <1>2, <1>5 DEF NamesListed, Listed
  <2>2. \A j \in 1..3 : FieldFits(full[j], m)
    BY <1>2, <2>1 DEF FieldFits
  <2>3. Suits(m, full, 3, full, 3)
    BY <1>4, <2>2 DEF Suits
  <2>4. QED
    BY <1>1, <1>3, <1>5, <2>3, Carried
<1>6. CASE ~named
  <2>1. m.comm_num = 0 /\ m.comm_ptr = <<>>
    BY <1>2, <1>6 DEF NamesListed, Listed
  <2>2. \A l \in 1..3 : (\E j \in 1..1 : short[j][1] = full[l][1]) \/ m[full[l][1]] = BlankOf(full[l])
    BY <2>1 DEF BlankOf
  <2>3. \A j \in 1..1 : FieldFits(short[j], m)
    BY <1>2 DEF FieldFits
  <2>4. Suits(m, short, 1, full, 3)
    BY <1>4, <2>2, <2>3 DEF Suits
  <2>5. QED
    BY <1>1, <1>3, <1>6, <2>4, Carried
<1>7. QED
  BY <1>5, <1>6

LEMMA RspCarried ==
    ASSUME NEW flags, NEW m \in SnmMessages(SNM.RSP, flags)
    PROVE  \E n : Carries(SnmLayout(SNM.RSP, flags), n, m, Blank(SnmLayout(SNM.RSP, 255)))
<1> DEFINE k1 == <<"sn_num", "num", 2>>
           k2 == <<"comm_num", "num", 2>>
           k3 == <<"sn_ptr", "socks", "sn_num">>
           k4 == <<"comm_ptr", "names", "comm_num">>
           full == <<k1, k2, k3, k4>>
           addrs == Has(flags, S_FLAG) \/ Has(flags, A_FLAG)
           names == Has(flags, C_FLAG) \/ Has(flags, N_FLAG)
           lay == SnmLayout(SNM.RSP, flags)
<1>1. /\ <<k1>> \o <<k2>> = <<k1, k2>>
      /\ <<k1, k2>> \o <<k3>> = <<k1, k2, k3>> /\ <<k1, k2>> \o <<k4>> = <<k1, k2, k4>>
      /\ <<k1, k2>> \o <<>> = <<k1, k2>> /\ <<k1, k2, k3>> \o <<>> = <<k1, k2, k3>>
      /\ <<k1, k2, k3>> \o <<k4>> = full
  <2> HIDE DEF k1, k2, k3, k4
  <2>1. QED
    BY TuplesJoined
<1>2. SnmLayout(SNM.RSP, 255) = full
  <2>1. SnmLayout(SNM.RSP, 255) = ((<<k1>> \o <<k2>>) \o <<k3>>) \o <<k4>>
    BY AllFlags DEF SnmLayout, SNM
  <2> HIDE DEF k1, k2, k3, k4
  <2>2. QED
    BY <1>1, <2>1
<1>3. lay = ((<<k1>> \o <<k2>>) \o (IF addrs THEN <<k3>> ELSE <<>>)) \o (IF names THEN <<k4>> ELSE <<>>)
  BY DEF SnmLayout, SNM
<1>4. /\ m = [sn_num |-> m.sn_num, comm_num |-> m.comm_num, sn_ptr |-> m.sn_ptr, comm_ptr |-> m.comm_ptr]
      /\ m.sn_num \in Numbers(2) /\ m.comm_num \in Numbers(2)
      /\ m.sn_ptr \in Seq(Sockets) /\ m.comm_ptr \in Seq(CommNames)
      /\ Listed(addrs, m.sn_num, m.sn_ptr) /\ Listed(names, m.comm_num, m.comm_ptr)
  BY DEF SnmMessages, SNM
<1> HIDE DEF lay, addrs, names
<1>5. m = [f \in {full[l][1] : l \in 1..4} |-> m[f]]
  <2>1. {full[l][1] : l \in 1..4} = {"sn_num", "comm_num", "sn_ptr", "comm_ptr"}
    OBVIOUS
  <2>2. QED
    BY <1>4, <2>1
<1>6. Named(full, 4)
  BY DEF Named
<1>7. CASE addrs /\ names
  <2>1. lay = full
    <3> HIDE DEF k1, k2, k3, k4, full
    <3>1. QED
      BY <1>1, <1>3, <1>7
  <2>2. Leaves(full, 4, full, 4)
    BY <1>6 DEF Leaves, Sized
  <2>3. m.sn_num = Len(m.sn_ptr) /\ m.comm_num = Len(m.comm_ptr)
    BY <1>4, <1>7 DEF Listed
  <2>4. \A j \in 1..4 : FieldFits(full[j], m)
    BY <1>4, <2>3 DEF FieldFits
  <2>5. Suits(m, full, 4, full, 4)
    BY <1>5, <2>4 DEF Suits
  <2>6. QED
    BY <1>2, <2>1, <2>2, <2>5, Carried DEF lay
<1>8. CASE addrs /\ ~names
  <2> DEFINE part == <<k1, k2, k3>>
  <2>1. lay = part
    <3> HIDE DEF k1, k2, k3, k4, full
    <3>1. QED
      BY <1>1, <1>3, <1>8
  <2>2. Leaves(part, 3, full, 4)
    <3>1. Named(part, 3)
      BY DEF Named
    <3>2. QED
      BY <1>6, <3>1 DEF Leaves, Sized
  <2>3. m.sn_num = Len(m.sn_ptr) /\ m.comm_ptr = <<>>
    BY <1>4, <1>8 DEF Listed
  <2>4. \A j \in 1..3 : FieldFits(part[j], m)
    BY <1>4, <2>3 DEF FieldFits
  <2>5. \A l \in 1..4 : (\E j \in 1..3 : part[j][1] = full[l][1]) \/ m[full[l][1]] = BlankOf(full[l])
    BY <2>3 DEF BlankOf
  <2>6. Suits(m, part, 3, full, 4)
    BY <1>5, <2>4, <2>5 DEF Suits
  <2>7. QED
    BY <1>2, <2>1, <2>2, <2>6, Carried DEF lay
<1>9. CASE ~addrs /\ names
  <2> DEFINE part == <<k1, k2, k4>>
  <2>1. lay = part
    <3> HIDE DEF k1, k2, k3, k4, full
    <3>1. QED
      BY <1>1, <1>3, <1>9
  <2>2. Leaves(part, 3, full, 4)
    <3>1. Named(part, 3)
      BY DEF Named
    <3>2. QED
      BY <1>6, <3>1 DEF Leaves, Sized
  <2>3. m.sn_ptr = <<>> /\ m.comm_num = Len(m.comm_ptr)
    BY <1>4, <1>9 DEF Listed
  <2>4. \A j \in 1..3 : FieldFits(part[j], m)
    BY <1>4, <2>3 DEF FieldFits
  <2>5. \A l \in 1..4 : (\E j \in 1..3 : part[j][1] = full[l][1]) \/ m[full[l][1]] = BlankOf(full[l])
    BY <2>3 DEF BlankOf
  <2>6. Suits(m, part, 3, full, 4)
    BY <1>5, <2>4, <2>5 DEF Suits
  <2>7. QED
    BY <1>2, <2>1, <2>2, <2>6, Carried DEF lay
<1>10. CASE ~addrs /\ ~names
  <2> DEFINE part == <<k1, k2>>
  <2>1. lay = part
    <3> HIDE DEF k1, k2, k3, k4, full
    <3>1. QED
      BY <1>1, <1>3, <1>10
  <2>2. Leaves(part, 2, full, 4)
    <3>1. Named(part, 2)
      BY DEF Named
    <3>2. QED
      BY <1>6, <3>1 DEF Leaves, Sized
  <2>3. m.sn_ptr = <<>> /\ m.comm_ptr = <<>>
    BY <1>4, <1>10 DEF Listed
  <2>4. \A j \in 1..2 : FieldFits(part[j], m)
    BY <1>4 DEF FieldFits
  <2>5. \A l \in 1..4 : (\E j \in 1..2 : part[j][1] = full[l][1]) \/ m[full[l][1]] = BlankOf(full[l])
    BY <2>3 DEF BlankOf
  <2>6. Suits(m, part, 2, full, 4)
    BY <1>5, <2>4, <2>5 DEF Suits
  <2>7. QED
    BY <1>2, <2>1, <2>2, <2>6, Carried DEF lay
<1>11. QED
  BY <1>7, <1>8, <1>9, <1>10

\* What is encoded of a message of supernodes is decoded again.
LEMMA SnmParsed ==
    ASSUME NEW h, NEW m, SnmSays(h, m), NEW b, Is(b, EncodeSnm(h, m))
    PROVE  DecodeSnm(b) = [hdr |-> h, msg |-> m, idx |-> Len(b)]
<1> DEFINE lay == SnmLayout(h.type, h.flags)
           blank == Blank(SnmLayout(h.type, 255))
           head == Encode(HdrLayout, h)
           body == Encode(lay, m)
<1>1. h \in Headers /\ m \in SnmMessages(h.type, h.flags) /\ h.type \in {SNM.REQ, SNM.RSP, SNM.ADV}
  BY DEF SnmSays, Headers, SNM
<1>2. \E n : Carries(lay, n, m, blank)
  BY <1>1, ReqCarried, RspCarried, AdvCarried
<1>3. Carries(HdrLayout, 3, h, Blank(HdrLayout))
  BY <1>1, HeaderCarried
<1> HIDE DEF lay, blank
<1>4. <<>> \in Seq(Byte) /\ Len(<<>>) \in Nat
  BY EmptySeq
<1>5. head \in Seq(Byte) /\ body \in Seq(Byte)
  BY <1>2, <1>3, <1>4, MessageAt
<1>6. b = head \o body
  BY DEF Is, EncodeSnm, lay
<1> DEFINE nil == <<>>
<1> HIDE DEF head, body
<1>7. (head \o body) \o nil = head \o body
  BY <1>5, ConcatProperties, ConcatEmptySeq
<1>8. Is(b, (head \o body) \o nil)
  BY <1>6, <1>7 DEF Is
<1>9. /\ b \in Seq(Byte) /\ Len(b) \in Nat /\ At(b, 0, head) /\ At(b, Len(head), body)
      /\ Len(b) = Len(head) + Len(body) + Len(nil)
  <2> HIDE DEF nil
  <2>1. nil \in Seq(Byte)
    BY <1>4 DEF nil
  <2>2. QED
    BY <1>5, <1>8, <2>1, ThreeAt
<1>10. Len(head) \in Nat /\ Len(body) \in Nat /\ Len(nil) = 0
  BY <1>5, LenProperties, EmptySeq
<1>11. 0 + Len(head) = Len(head) /\ Len(b) = Len(head) + Len(body)
  BY <1>9, <1>10
<1>12. Decode(HdrLayout, Blank(HdrLayout), b, 0) = <<h, Len(head)>>
  BY <1>3, <1>9, <1>11, MessageAt DEF head
<1>13. Decode(lay, blank, b, Len(head)) = <<m, Len(b)>>
  BY <1>2, <1>9, <1>11, MessageAt DEF body
<1>14. DecodeSnm(b) = DecodeSnmBody(h, b, Len(head))
  BY <1>12 DEF DecodeSnm, SnmRead
<1>15. DecodeSnmBody(h, b, Len(head)) = SnmOf(h, <<m, Len(b)>>)
  BY <1>13 DEF DecodeSnmBody, lay, blank
<1>16. QED
  BY <1>14, <1>15 DEF SnmOf

---------------------------------------------------------------------------
(* What is said is understood.                                             *)

\* A datagram that the buffer of its receiver holds is decoded as a whole.
LEMMA ParsedWhole ==
    ASSUME NEW d, Len(d.bytes) <= PktBuf
    PROVE  /\ Parse(d) = ParseBody(DecodeCommon(d.bytes), d.bytes)
           /\ ParseSnm(d) = DecodeSnm(d.bytes)
<1>1. Received(d.bytes) = d.bytes
  BY DEF Received
<1>2. QED
  BY <1>1 DEF Parse, ParseBytes, ParseSnm

\* A receiver makes of a datagram between edges and supernodes that its buffer
\* holds what the sender meant: of any of the five types, with or without a
\* socket, whatever follows the message (encode_common to
\* encode_REGISTER_SUPER_ACK in wire.c, and their decoders).
THEOREM N2NUnderstood ==
    ASSUME NEW c, NEW m, N2NSays(c, m), NEW rest \in Seq(Byte), NEW from, NEW to, NEW frame,
           Len(EncodeN2N(c, m) \o rest) <= PktBuf
    PROVE  Parse(N2NDatagram(from, to, c, m, rest, frame)) = [ok |-> TRUE, cmn |-> c, msg |-> m, rest |-> rest]
<1> DEFINE d == N2NDatagram(from, to, c, m, rest, frame)
<1>1. d.bytes = EncodeN2N(c, m) \o rest
  BY DEF N2NDatagram
<1> HIDE DEF d
<1>2. Is(d.bytes, EncodeN2N(c, m) \o rest)
  BY <1>1 DEF Is
<1>3. Parse(d) = ParseBody(DecodeCommon(d.bytes), d.bytes)
  BY <1>1, ParsedWhole
<1>4. QED
  BY <1>2, <1>3, N2NRead DEF d

\* The same for the datagrams of supernodes, to the last byte: whatever lists the
\* flags tell of, as long as the buffer holds them (sn_multiple_wire.c).
THEOREM SnmUnderstood ==
    ASSUME NEW h, NEW m, SnmSays(h, m), NEW from, NEW to, Len(EncodeSnm(h, m)) <= PktBuf
    PROVE  LET d == SnmDatagram(from, to, h, m)
           IN  ParseSnm(d) = [hdr |-> h, msg |-> m, idx |-> Len(d.bytes)]
<1> DEFINE d == SnmDatagram(from, to, h, m)
<1>1. d.bytes = EncodeSnm(h, m)
  BY DEF SnmDatagram
<1> HIDE DEF d
<1>2. Is(d.bytes, EncodeSnm(h, m))
  BY <1>1 DEF Is
<1>3. DecodeSnm(d.bytes) = [hdr |-> h, msg |-> m, idx |-> Len(d.bytes)]
  BY <1>2, SnmParsed
<1>4. ParseSnm(d) = DecodeSnm(d.bytes)
  BY <1>1, ParsedWhole
<1>5. QED
  BY <1>3, <1>4 DEF d

\* As long as edges and supernodes say what can be said, which TLC finds them to
\* do, the network understands it.
THEOREM SayableUnderstood == Sayable => Understood
<1> SUFFICES ASSUME Sayable, NEW d \in net, ~d.cut, Len(d.bytes) <= PktBuf
             PROVE  IF d.snm THEN ParseSnm(d) = [hdr |-> d.meant.hdr, msg |-> d.meant.msg, idx |-> Len(d.bytes)]
                    ELSE Parse(d) = [ok |-> TRUE, cmn |-> d.meant.cmn, msg |-> d.meant.msg, rest |-> d.meant.rest]
  BY DEF Understood
<1>1. CASE d.snm
  <2>1. SnmSays(d.meant.hdr, d.meant.msg) /\ Is(d.bytes, EncodeSnm(d.meant.hdr, d.meant.msg))
    BY <1>1 DEF Sayable, Is
  <2>2. DecodeSnm(d.bytes) = [hdr |-> d.meant.hdr, msg |-> d.meant.msg, idx |-> Len(d.bytes)]
    BY <2>1, SnmParsed
  <2>3. QED
    BY <1>1, <2>2, ParsedWhole
<1>2. CASE ~d.snm
  <2> DEFINE c == d.meant.cmn
             m == d.meant.msg
             rest == d.meant.rest
             b == d.bytes
  <2>1. N2NSays(c, m) /\ rest \in Seq(Byte) /\ Is(b, EncodeN2N(c, m) \o rest)
    BY <1>2 DEF Sayable, Is
  <2> HIDE DEF c, m, rest, b
  <2>2. ParseBody(DecodeCommon(b), b) = [ok |-> TRUE, cmn |-> c, msg |-> m, rest |-> rest]
    BY <2>1, N2NRead
  <2>3. Parse(d) = ParseBody(DecodeCommon(b), b)
    BY ParsedWhole DEF b
  <2>4. Parse(d) = [ok |-> TRUE, cmn |-> c, msg |-> m, rest |-> rest]
    BY <2>2, <2>3
  <2>5. QED
    BY <1>2, <2>4 DEF c, m, rest
<1>3. QED
  BY <1>1, <1>2

---------------------------------------------------------------------------
(* A block of Twofish.                                                     *)

LEMMA PartIs ==
    ASSUME NEW b, NEW i, NEW x, NEW k, IsBytes(x, k), At(b, i, x)
    PROVE  SubSeq(b, i + 1, i + k) = x
<1>1. Len(x) = k /\ i + Len(x) <= Len(b)
  BY DEF IsBytes, At
<1>2. Take(b, i, Len(x), <<>>) = <<x, i + Len(x)>>
  BY TakeAt
<1>3. Take(b, i, Len(x), <<>>) = <<SubSeq(b, i + 1, i + Len(x)), i + Len(x)>>
  BY <1>1 DEF Take
<1>4. QED
  BY <1>1, <1>2, <1>3

\* The tables, as TwofishAssumption has them, hold words.
LEMMA TableWords ==
    ASSUME NEW w, TwofishWord(w)
    PROVE  IsWord(w)
BY BytesFunction DEF TwofishWord, IsWord, Byte

\* Whitening undoes itself.
LEMMA Whitened ==
    ASSUME NEW x, IsQuad(x), NEW k \in {0, 4}
    PROVE  /\ IsQuad(Whiten(x, k))
           /\ Whiten(Whiten(x, k), k) = x
<1> DEFINE K(i) == subKeys[k + i - 1]
           W(y) == <<XorWord(y[1], K(1)), XorWord(y[2], K(2)), XorWord(y[3], K(3)), XorWord(y[4], K(4))>>
<1>1. IsWord(K(1)) /\ IsWord(K(2)) /\ IsWord(K(3)) /\ IsWord(K(4))
  <2>1. Rounds \in Nat /\ \A i \in 0..(7 + 2 * Rounds) : IsWord(subKeys[i])
    BY TwofishAssumption, TableWords, Zenon
  <2>2. \A i \in 1..4 : k + i - 1 \in 0..(7 + 2 * Rounds)
    BY <2>1
  <2>3. \A i \in 1..4 : IsWord(K(i))
    BY <2>1, <2>2
  <2>4. QED
    BY <2>3
<1>2. \A y : Whiten(y, k) = W(y)
  BY DEF Whiten
<1> HIDE DEF K
<1>3. ASSUME NEW y, IsQuad(y) PROVE IsQuad(W(y))
  BY <1>1, <1>3, XorWords, QuadOf DEF IsQuad
<1>4. W(W(x)) = <<x[1], x[2], x[3], x[4]>>
  BY <1>1, XorWords DEF IsQuad
<1> HIDE DEF W
<1>5. QED
  BY <1>2, <1>3, <1>4, QuadWords

\* So does the exchange of halves.
LEMMA Exchanged ==
    ASSUME NEW x, IsQuad(x)
    PROVE  IsQuad(Exchange(x)) /\ Exchange(Exchange(x)) = x
<1>1. Exchange(x) = <<x[3], x[4], x[1], x[2]>>
  BY DEF Exchange
<1>2. IsQuad(Exchange(x))
  BY <1>1, QuadOf DEF IsQuad
<1>3. Exchange(Exchange(x)) = <<x[1], x[2], x[3], x[4]>>
  BY DEF Exchange
<1>4. QED
  BY <1>2, <1>3, QuadWords

\* What a round takes from the tables, and a round undone.
LEMMA RoundKeysTyped ==
    ASSUME NEW x, IsQuad(x), NEW k \in 0..(6 + 2 * Rounds)
    PROVE  LET r == RoundKeys(x[1], x[2], k) IN IsWord(r[1]) /\ IsWord(r[2])
<1>1. ASSUME NEW t \in 0..3, NEW b \in Byte PROVE IsWord(sBox[t][b])
  <2> DEFINE T == 0..3
             B == 0..255
  <2>1. \A s \in T, y \in B : TwofishWord(sBox[s][y])
    BY TwofishAssumption, Zenon
  <2>2. t \in T /\ b \in B
    BY DEF Byte
  <2> HIDE DEF T, B
  <2>3. TwofishWord(sBox[t][b])
    BY <2>1, <2>2
  <2>4. QED
    BY <2>3, TableWords, Zenon
<1>2. IsWord(subKeys[k]) /\ IsWord(subKeys[k + 1])
  <2>1. Rounds \in Nat /\ \A i \in 0..(7 + 2 * Rounds) : IsWord(subKeys[i])
    BY TwofishAssumption, TableWords, Zenon
  <2>2. k \in 0..(7 + 2 * Rounds) /\ k + 1 \in 0..(7 + 2 * Rounds)
    BY <2>1
  <2>3. QED
    BY <2>1, <2>2
<1>3. ASSUME NEW w, IsWord(w) PROVE IsWord(Fe320(w)) /\ IsWord(Fe323(w))
  <2>1. w[1] \in Byte /\ w[2] \in Byte /\ w[3] \in Byte /\ w[4] \in Byte
    BY <1>3, WordBytes
  <2>2. 0 \in 0..3 /\ 1 \in 0..3 /\ 2 \in 0..3 /\ 3 \in 0..3
    OBVIOUS
  <2>3. QED
    BY <1>1, <2>1, <2>2, XorWords DEF Fe320, Fe323
<1>4. IsWord(Fe320(x[1])) /\ IsWord(Fe323(x[2]))
  BY <1>3 DEF IsQuad
<1>5. QED
  BY <1>2, <1>4, Sums DEF RoundKeys, RoundSums

LEMMA RoundBack ==
    ASSUME NEW x, IsQuad(x), NEW r, IsWord(r[1]), IsWord(r[2])
    PROVE  /\ IsQuad(EncryptRound(x, r)) /\ IsQuad(DecryptRound(x, r))
           /\ DecryptRound(Exchange(EncryptRound(x, r)), r) = Exchange(x)
<1> DEFINE a == RotateRight(XorWord(x[3], r[1]))
           b == XorWord(RotateLeft(x[4]), r[2])
<1>1. IsWord(x[1]) /\ IsWord(x[2]) /\ IsWord(x[3]) /\ IsWord(x[4])
  BY DEF IsQuad
<1>2. IsWord(a) /\ IsWord(b)
  BY <1>1, XorWords, Rotated
<1>3. EncryptRound(x, r) = <<a, b, x[1], x[2]>>
  BY DEF EncryptRound
<1>4. DecryptRound(x, r) = <<XorWord(RotateLeft(x[3]), r[1]), RotateRight(XorWord(x[4], r[2])), x[1], x[2]>>
  BY DEF DecryptRound
<1>5. XorWord(RotateLeft(a), r[1]) = x[3]
  <2>1. IsWord(XorWord(x[3], r[1])) /\ XorWord(XorWord(x[3], r[1]), r[1]) = x[3]
    BY <1>1, XorWords
  <2>2. QED
    BY <2>1, RotatedBack
<1>6. RotateRight(XorWord(b, r[2])) = x[4]
  <2>1. IsWord(RotateLeft(x[4])) /\ RotateRight(RotateLeft(x[4])) = x[4]
    BY <1>1, Rotated, RotatedBack
  <2>2. XorWord(b, r[2]) = RotateLeft(x[4])
    BY <2>1, XorWords
  <2>3. QED
    BY <2>1, <2>2
<1> HIDE DEF a, b
<1>7. IsQuad(EncryptRound(x, r))
  BY <1>1, <1>2, <1>3, QuadOf
<1>8. IsQuad(DecryptRound(x, r))
  BY <1>1, <1>4, QuadOf, XorWords, Rotated
<1>9. DecryptRound(Exchange(EncryptRound(x, r)), r) = <<XorWord(RotateLeft(a), r[1]), RotateRight(XorWord(b, r[2])), x[1], x[2]>>
  BY <1>3 DEF Exchange, DecryptRound
<1>10. QED
  BY <1>5, <1>6, <1>7, <1>8, <1>9 DEF Exchange

\* The words of a block are where its bytes are.
LEMMA BytesOfWords ==
    ASSUME NEW x, IsQuad(x)
    PROVE  /\ IsBytes(Bytes16(x), BLOCK)
           /\ \A k \in 1..4 : \A j \in 1..4 : Bytes16(x)[4 * k - 4 + j] = x[k][j]
           /\ Words(Bytes16(x)) = x
<1> DEFINE b == Bytes16(x)
<1>1. IsBytes(x[1], 4) /\ IsBytes(x[2], 4) /\ IsBytes(x[3], 4) /\ IsBytes(x[4], 4)
  BY DEF IsQuad, IsWord
<1>2. IsBytes(x[1] \o x[2], 8) /\ IsBytes((x[1] \o x[2]) \o x[3], 12)
  <2>1. 4 + 4 = 8 /\ 8 + 4 = 12
    OBVIOUS
  <2>2. IsBytes(x[1] \o x[2], 4 + 4)
    BY <1>1, ConcatBytes
  <2>3. IsBytes((x[1] \o x[2]) \o x[3], 8 + 4)
    BY <1>1, <2>1, <2>2, ConcatBytes
  <2>4. QED
    BY <2>1, <2>2, <2>3
<1>3. IsBytes(b, 16)
  <2>1. 12 + 4 = 16
    OBVIOUS
  <2>2. IsBytes(((x[1] \o x[2]) \o x[3]) \o x[4], 12 + 4)
    BY <1>1, <1>2, ConcatBytes
  <2>3. b = ((x[1] \o x[2]) \o x[3]) \o x[4]
    BY DEF Bytes16
  <2>4. QED
    BY <2>1, <2>2, <2>3
<1>4. Len(b) \in Nat
  BY <1>3 DEF IsBytes
<1>5. At(b, 0, ((x[1] \o x[2]) \o x[3]) \o x[4])
  BY <1>3, WholeAt DEF Bytes16
<1> HIDE DEF b
<1>6. /\ At(b, 0, (x[1] \o x[2]) \o x[3]) /\ At(b, 0 + 12, x[4])
  BY <1>1, <1>2, <1>4, <1>5, BytesAt
<1>7. /\ At(b, 0, x[1] \o x[2]) /\ At(b, 0 + 8, x[3])
  BY <1>1, <1>2, <1>4, <1>6, BytesAt
<1>8. /\ At(b, 0, x[1]) /\ At(b, 0 + 4, x[2])
  BY <1>1, <1>2, <1>4, <1>7, BytesAt
<1>9. \A k \in 1..4 : At(b, 4 * k - 4, x[k])
  <2>1. 4 * 1 - 4 = 0 /\ 4 * 2 - 4 = 0 + 4 /\ 4 * 3 - 4 = 0 + 8 /\ 4 * 4 - 4 = 0 + 12
    OBVIOUS
  <2>2. At(b, 4 * 1 - 4, x[1]) /\ At(b, 4 * 2 - 4, x[2]) /\ At(b, 4 * 3 - 4, x[3]) /\ At(b, 4 * 4 - 4, x[4])
    BY <1>6, <1>7, <1>8, <2>1
  <2>3. \A k \in 1..4 : k = 1 \/ k = 2 \/ k = 3 \/ k = 4
    OBVIOUS
  <2>4. QED
    BY <2>2, <2>3
<1>10. \A k \in 1..4 : IsBytes(x[k], 4)
  <2>1. \A k \in 1..4 : k = 1 \/ k = 2 \/ k = 3 \/ k = 4
    OBVIOUS
  <2>2. QED
    BY <1>1, <2>1
<1>11. ASSUME NEW k \in 1..4, NEW j \in 1..4 PROVE b[4 * k - 4 + j] = x[k][j]
  <2>1. Len(x[k]) = 4
    BY <1>10 DEF IsBytes
  <2>2. j \in 1..Len(x[k])
    BY <2>1
  <2>3. QED
    BY <1>9, <2>2 DEF At
<1>12. ASSUME NEW k \in 1..4 PROVE SubSeq(b, 4 * k - 3, 4 * k) = x[k]
  <2>1. (4 * k - 4) + 1 = 4 * k - 3 /\ (4 * k - 4) + 4 = 4 * k
    OBVIOUS
  <2>2. SubSeq(b, (4 * k - 4) + 1, (4 * k - 4) + 4) = x[k]
    BY <1>9, <1>10, PartIs
  <2>3. QED
    BY <2>1, <2>2
<1>13. Words(b) = x
  <2>1. Words(b) = [k \in 1..4 |-> x[k]]
    BY <1>12 DEF Words
  <2>2. QED
    BY <2>1 DEF IsQuad
<1>14. QED
  BY <1>3, <1>11, <1>13 DEF b, BLOCK

LEMMA WordsOfBytes ==
    ASSUME NEW b, IsBytes(b, BLOCK)
    PROVE  IsQuad(Words(b)) /\ Bytes16(Words(b)) = b
<1> DEFINE x == Words(b)
<1>1. ASSUME NEW k \in 1..4 PROVE IsWord(x[k]) /\ \A j \in 1..4 : x[k][j] = b[4 * k - 4 + j]
  <2> DEFINE i == 4 * k - 4
  <2>1. i \in Nat /\ i + 4 <= BLOCK /\ i + 1 = 4 * k - 3 /\ i + 4 = 4 * k
    BY DEF BLOCK
  <2>2. x[k] = SubSeq(b, i + 1, i + 4)
    BY <2>1 DEF Words
  <2> HIDE DEF i
  <2>3. IsBytes(SubSeq(b, i + 1, i + 4), 4) /\ \A j \in 1..4 : SubSeq(b, i + 1, i + 4)[j] = b[i + j]
    <3>1. PICK n \in Nat : n = 4
      OBVIOUS
    <3>2. i \in Nat /\ i + n <= BLOCK
      BY <2>1, <3>1
    <3>3. IsBytes(SubSeq(b, i + 1, i + n), n)
      BY <3>2, PartBytes
    <3>4. ASSUME NEW j \in 1..n PROVE SubSeq(b, i + 1, i + n)[j] = b[i + j]
      BY <3>2, PartItem
    <3>5. QED
      BY <3>1, <3>3, <3>4
  <2> HIDE DEF x
  <2>4. QED
    BY <2>2, <2>3 DEF i, IsWord
<1>2. IsQuad(x)
  <2>1. x = [k \in 1..4 |-> x[k]]
    BY DEF Words
  <2> HIDE DEF x
  <2>2. QED
    BY <1>1, <2>1 DEF IsQuad
<1> HIDE DEF x
<1>3. IsBytes(Bytes16(x), BLOCK) /\ \A k \in 1..4 : \A j \in 1..4 : Bytes16(x)[4 * k - 4 + j] = x[k][j]
  BY <1>2, BytesOfWords
<1>4. ASSUME NEW i \in 1..BLOCK PROVE Bytes16(x)[i] = b[i]
  <2>1. \E k \in 1..4 : \E j \in 1..4 : i = 4 * k - 4 + j
    <3>1. i \in 1..16
      BY DEF BLOCK
    <3>2. ((i - 1) \div 4) + 1 \in 1..4 /\ ((i - 1) % 4) + 1 \in 1..4
      BY <3>1
    <3>3. i = 4 * (((i - 1) \div 4) + 1) - 4 + (((i - 1) % 4) + 1)
      BY <3>1
    <3>4. QED
      BY <3>2, <3>3
  <2>2. QED
    BY <1>1, <1>3, <2>1
<1>5. QED
  BY <1>2, <1>3, <1>4, BytesEqual DEF x

\* The rounds of one block.
Counted == [n \in 1..Rounds |-> n]
Base(block, decrypt) == Whiten(Words(block), IF decrypt THEN 4 ELSE 0)

\* The rounds one after the other.
LEMMA RoundsFold ==
    ASSUME NEW block, NEW decrypt
    PROVE  \E g : Folds("rounds", decrypt, Base(block, decrypt), Counted, Rounds, g)
                  /\ g[Rounds] = BlockRounds(block, decrypt)
<1>0. Rounds \in Nat /\ DOMAIN Counted = 1..Rounds
  BY TwofishAssumption, Zenon DEF Counted
<1> DEFINE base == Whiten(Words(block), IF decrypt THEN 4 ELSE 0)
           s == [n \in 1..Rounds |-> n]
           Value(g, S) ==
              IF S = {} THEN base
              ELSE IF decrypt
                   THEN DecryptRound(g[S \ {Max(S)}], RoundKeys(g[S \ {Max(S)}][1], g[S \ {Max(S)}][2],
                                                                8 + 2 * (Rounds - s[Max(S)])))
                   ELSE EncryptRound(g[S \ {Max(S)}], RoundKeys(g[S \ {Max(S)}][1], g[S \ {Max(S)}][2],
                                                                8 + 2 * (s[Max(S)] - 1)))
<1>1. \A g, S : FoldValue("rounds", decrypt, base, s, g, S) = Value(g, S)
  BY DEF FoldValue, Step, CipherStep
<1>2. \E g : g = [S \in SUBSET (1..Rounds) |-> Value(g, S)]
  <2> HIDE DEF Value, base, s
  <2>1. PICK g : FoldsUpTo("rounds", decrypt, base, s, g, Rounds)
    BY <1>0, FoldExists
  <2>2. g = [S \in SUBSET (1..Rounds) |-> FoldValue("rounds", decrypt, base, s, g, S)]
    BY <2>1 DEF FoldsUpTo
  <2>3. g = [S \in SUBSET (1..Rounds) |-> Value(g, S)]
    BY <1>1, <2>2
  <2>4. QED
    BY <2>3
<1> DEFINE iter == CHOOSE g : g = [S \in SUBSET (1..Rounds) |-> Value(g, S)]
<1>3. iter = [S \in SUBSET (1..Rounds) |-> Value(iter, S)]
  <2> HIDE DEF Value
  <2>1. QED
    BY <1>2
<1>4. BlockRounds(block, decrypt) = iter[1..Rounds]
  BY <1>0 DEF BlockRounds, FoldLeft, MapThenFoldSet
<1> HIDE DEF iter, Value, base, s
<1>5. FoldsUpTo("rounds", decrypt, base, s, iter, Rounds)
  BY <1>1, <1>3 DEF FoldsUpTo
<1>6. base = Base(block, decrypt) /\ s = Counted
  BY DEF base, s, Base, Counted
<1>7. QED
  BY <1>0, <1>4, <1>5, <1>6, FoldIsSequence

\* What the words are after each round: forwards, and backwards.
KeysAt(x, k) == RoundKeys(x[1], x[2], 8 + 2 * k)

\* Encryption: from round to round.
LEMMA RoundsForward ==
    ASSUME NEW block, IsBytes(block, BLOCK)
    PROVE  \E e : /\ e[0] = Whiten(Words(block), 0)
                  /\ \A n \in 0..Rounds : IsQuad(e[n])
                  /\ \A n \in 1..Rounds : e[n] = EncryptRound(e[n - 1], KeysAt(e[n - 1], n - 1))
                  /\ e[Rounds] = BlockRounds(block, FALSE)
<1>0. Rounds \in Nat
  BY TwofishAssumption, Zenon
<1>1. PICK e : /\ Folds("rounds", FALSE, Base(block, FALSE), Counted, Rounds, e)
               /\ e[Rounds] = BlockRounds(block, FALSE)
  BY RoundsFold
<1>2. e[0] = Whiten(Words(block), 0)
  BY <1>1 DEF Folds, Base
<1>3. ASSUME NEW n \in 1..Rounds PROVE e[n] = EncryptRound(e[n - 1], KeysAt(e[n - 1], n - 1))
  <2>1. e[n] = Step("rounds", FALSE, e[n - 1], Counted[n])
    BY <1>1 DEF Folds
  <2>2. Counted[n] = n
    BY DEF Counted
  <2>3. QED
    BY <2>1, <2>2 DEF Step, CipherStep, KeysAt
<1> DEFINE T == {n \in Nat : n <= Rounds => IsQuad(e[n])}
<1>4. 0 \in T
  BY <1>2, WordsOfBytes, Whitened
<1>5. ASSUME NEW n \in Nat, n \in T PROVE n + 1 \in T
  <2> SUFFICES ASSUME n + 1 <= Rounds PROVE IsQuad(e[n + 1])
    OBVIOUS
  <2>1. IsQuad(e[n]) /\ n + 1 \in 1..Rounds /\ (n + 1) - 1 = n
    BY <1>0, <1>5
  <2>2. e[n + 1] = EncryptRound(e[n], KeysAt(e[n], n))
    BY <1>3, <2>1
  <2>3. 8 + 2 * n \in 0..(6 + 2 * Rounds)
    BY <1>0
  <2>4. IsWord(KeysAt(e[n], n)[1]) /\ IsWord(KeysAt(e[n], n)[2])
    BY <2>1, <2>3, RoundKeysTyped DEF KeysAt
  <2>5. QED
    BY <2>1, <2>2, <2>4, RoundBack
<1>6. \A n \in Nat : n \in T
  <2> HIDE DEF T
  <2>1. QED
    BY <1>4, <1>5, SetInduction
<1>7. \A n \in 0..Rounds : IsQuad(e[n])
  BY <1>0, <1>6
<1>8. QED
  BY <1>1, <1>2, <1>3, <1>7

\* Decryption: the same texts, backwards.
LEMMA RoundsBackward ==
    ASSUME NEW e, \A n \in 0..Rounds : IsQuad(e[n]),
           \A n \in 1..Rounds : e[n] = EncryptRound(e[n - 1], KeysAt(e[n - 1], n - 1)),
           NEW block, Whiten(Words(block), 4) = Exchange(e[Rounds])
    PROVE  BlockRounds(block, TRUE) = Exchange(e[0])
<1>0. Rounds \in Nat
  BY TwofishAssumption, Zenon
<1>1. PICK d : /\ Folds("rounds", TRUE, Base(block, TRUE), Counted, Rounds, d)
               /\ d[Rounds] = BlockRounds(block, TRUE)
  BY RoundsFold
<1>2. d[0] = Exchange(e[Rounds])
  BY <1>1 DEF Folds, Base
<1>3. ASSUME NEW n \in 1..Rounds PROVE d[n] = DecryptRound(d[n - 1], KeysAt(d[n - 1], Rounds - n))
  <2>1. d[n] = Step("rounds", TRUE, d[n - 1], Counted[n])
    BY <1>1 DEF Folds
  <2>2. Counted[n] = n
    BY DEF Counted
  <2>3. QED
    BY <2>1, <2>2 DEF Step, CipherStep, KeysAt
<1> DEFINE T == {n \in Nat : n <= Rounds => d[n] = Exchange(e[Rounds - n])}
<1>4. 0 \in T
  BY <1>0, <1>2
<1>5. ASSUME NEW n \in Nat, n \in T PROVE n + 1 \in T
  <2> SUFFICES ASSUME n + 1 <= Rounds PROVE d[n + 1] = Exchange(e[Rounds - (n + 1)])
    OBVIOUS
  <2> DEFINE j == Rounds - (n + 1)
             x == e[j]
  <2>1. /\ n + 1 \in 1..Rounds /\ (n + 1) - 1 = n /\ j \in 0..Rounds /\ j + 1 \in 1..Rounds
        /\ (j + 1) - 1 = j /\ Rounds - n = j + 1 /\ 8 + 2 * j \in 0..(6 + 2 * Rounds)
    BY <1>0
  <2> HIDE DEF j
  <2>2. d[n] = Exchange(e[j + 1])
    BY <1>0, <1>5, <2>1
  <2>3. IsQuad(x) /\ e[j + 1] = EncryptRound(x, KeysAt(x, j))
    BY <2>1
  <2> HIDE DEF x
  <2>4. IsWord(KeysAt(x, j)[1]) /\ IsWord(KeysAt(x, j)[2])
    BY <2>1, <2>3, RoundKeysTyped DEF KeysAt
  <2>5. d[n] = Exchange(EncryptRound(x, KeysAt(x, j)))
    BY <2>2, <2>3
  <2>6. KeysAt(d[n], j) = KeysAt(x, j)
    <3>1. d[n][1] = x[1] /\ d[n][2] = x[2]
      BY <2>5 DEF Exchange, EncryptRound
    <3>2. QED
      BY <3>1 DEF KeysAt
  <2>7. d[n + 1] = DecryptRound(d[n], KeysAt(x, j))
    BY <1>3, <2>1, <2>6 DEF j
  <2>8. d[n + 1] = Exchange(x)
    BY <2>3, <2>4, <2>5, <2>7, RoundBack
  <2>9. QED
    BY <2>8 DEF j, x
<1>6. \A n \in Nat : n \in T
  <2> HIDE DEF T
  <2>1. QED
    BY <1>4, <1>5, SetInduction
<1>7. d[Rounds] = Exchange(e[0])
  <2>1. Rounds - Rounds = 0
    BY <1>0
  <2>2. QED
    BY <1>0, <1>6, <2>1
<1>8. QED
  BY <1>1, <1>7

\* TwoFish inverts itself on every block, whatever its tables and the keys of
\* its rounds are (TwoFishBlockCrypt16 in twofish.c).
THEOREM BlockBack ==
    ASSUME NEW p, IsBytes(p, BLOCK)
    PROVE  /\ IsBytes(BlockCrypt16(p, FALSE), BLOCK)
           /\ BlockCrypt16(BlockCrypt16(p, FALSE), TRUE) = p
<1>0. Rounds \in Nat
  BY TwofishAssumption
<1>1. PICK e : /\ e[0] = Whiten(Words(p), 0)
               /\ \A n \in 0..Rounds : IsQuad(e[n])
               /\ \A n \in 1..Rounds : e[n] = EncryptRound(e[n - 1], KeysAt(e[n - 1], n - 1))
               /\ e[Rounds] = BlockRounds(p, FALSE)
  BY RoundsForward
<1> DEFINE x == Exchange(e[Rounds])
           y == Whiten(x, 4)
           c == BlockCrypt16(p, FALSE)
<1>2. IsQuad(x)
  <2>1. Rounds \in 0..Rounds
    BY <1>0
  <2>2. IsQuad(e[Rounds])
    BY <1>1, <2>1
  <2>3. QED
    BY <2>2, Exchanged
<1>3. c = Bytes16(y)
  BY <1>1 DEF BlockCrypt16
<1>4. IsQuad(y) /\ Whiten(y, 4) = x
  <2> HIDE DEF x
  <2>1. QED
    BY <1>2, Whitened
<1> HIDE DEF c, y
<1>5. IsBytes(c, BLOCK) /\ Words(c) = y
  BY <1>3, <1>4, BytesOfWords
<1>6. BlockRounds(c, TRUE) = Exchange(e[0])
  BY <1>1, <1>4, <1>5, RoundsBackward
<1>7. BlockCrypt16(c, TRUE) = Bytes16(Whiten(Exchange(Exchange(e[0])), 0))
  BY <1>6 DEF BlockCrypt16
<1>8. Exchange(Exchange(e[0])) = e[0]
  BY <1>0, <1>1, Exchanged
<1>9. Whiten(e[0], 0) = Words(p) /\ Bytes16(Words(p)) = p
  BY <1>1, WordsOfBytes, Whitened
<1>10. QED
  BY <1>5, <1>7, <1>8, <1>9 DEF c

---------------------------------------------------------------------------
(* Texts of blocks.                                                        *)

\* b: the blocks p[1] to p[m], and the rest q of l bytes, less than a block.
Laid(b, m, p, q, l) ==
    /\ m \in Nat /\ l < BLOCK /\ IsBytes(q, l) /\ IsBytes(b, 16 * m + l)
    /\ \A k \in 1..m : IsBytes(p[k], BLOCK) /\ At(b, 16 * (k - 1), p[k])
    /\ At(b, 16 * m, q)

\* Every text is laid out in one way, and is no other text.
LEMMA LaidExists ==
    ASSUME NEW b, NEW n, IsBytes(b, n)
    PROVE  \E m, p, q, l : Laid(b, m, p, q, l) /\ n = 16 * m + l
<1> DEFINE m == n \div 16
           l == n % 16
           part(k) == SubSeq(b, 16 * (k - 1) + 1, 16 * (k - 1) + 16)
           p == [k \in 1..m |-> part(k)]
           q == SubSeq(b, 16 * m + 1, 16 * m + l)
<1>1. n \in Nat
  BY DEF IsBytes
<1>2. m \in Nat /\ l \in Nat /\ l < 16 /\ n = 16 * m + l /\ 16 * m \in Nat
  BY <1>1
<1> HIDE DEF m, l
<1>3. ASSUME NEW k \in 1..m PROVE IsBytes(part(k), 16) /\ At(b, 16 * (k - 1), part(k))
  <2> DEFINE i == 16 * (k - 1)
  <2>1. i \in Nat /\ 16 \in Nat /\ i + 16 <= n
    BY <1>2
  <2> HIDE DEF i
  <2>2. IsBytes(SubSeq(b, i + 1, i + 16), 16) /\ At(b, i, SubSeq(b, i + 1, i + 16))
    <3>1. PICK s \in Nat : s = 16
      OBVIOUS
    <3>2. i \in Nat /\ i + s <= n
      BY <2>1, <3>1
    <3>3. IsBytes(SubSeq(b, i + 1, i + s), s)
      BY <3>2, PartBytes
    <3>4. At(b, i, SubSeq(b, i + 1, i + s))
      BY <3>2, PartThere
    <3>5. QED
      BY <3>1, <3>3, <3>4
  <2>3. QED
    BY <2>2 DEF i
<1>4. IsBytes(q, l) /\ At(b, 16 * m, q)
  <2> DEFINE i == 16 * m
  <2>1. i \in Nat /\ l \in Nat /\ i + l <= n
    BY <1>2
  <2> HIDE DEF i
  <2>2. IsBytes(SubSeq(b, i + 1, i + l), l)
    BY <2>1, PartBytes
  <2>3. At(b, i, SubSeq(b, i + 1, i + l))
    BY <2>1, PartThere
  <2>4. QED
    BY <2>2, <2>3 DEF i
<1>5. \A k \in 1..m : p[k] = part(k)
  OBVIOUS
<1> HIDE DEF p, q, part
<1>6. Laid(b, m, p, q, l)
  BY <1>2, <1>3, <1>4, <1>5 DEF Laid, BLOCK
<1>7. QED
  BY <1>2, <1>6

LEMMA LaidUnique ==
    ASSUME NEW a, NEW b, NEW m, NEW p, NEW q, NEW l, Laid(a, m, p, q, l), Laid(b, m, p, q, l)
    PROVE  a = b
<1> DEFINE n == 16 * m + l
<1>1. m \in Nat /\ l \in Nat /\ IsBytes(a, n) /\ IsBytes(b, n) /\ IsBytes(q, l)
  BY DEF Laid, IsBytes
<1>2. ASSUME NEW i \in 1..n PROVE a[i] = b[i]
  <2>1. CASE i <= 16 * m
    <3> DEFINE k == ((i - 1) \div 16) + 1
               j == ((i - 1) % 16) + 1
    <3>1. k \in 1..m /\ j \in 1..16 /\ i = 16 * (k - 1) + j
      BY <1>1, <2>1
    <3> HIDE DEF k, j
    <3>2. IsBytes(p[k], 16) /\ At(a, 16 * (k - 1), p[k]) /\ At(b, 16 * (k - 1), p[k])
      BY <3>1 DEF Laid, BLOCK
    <3>3. Len(p[k]) = 16
      BY <3>2 DEF IsBytes
    <3>4. j \in 1..Len(p[k])
      BY <3>1, <3>3
    <3>5. a[16 * (k - 1) + j] = p[k][j] /\ b[16 * (k - 1) + j] = p[k][j]
      BY <3>2, <3>4 DEF At
    <3>6. QED
      BY <3>1, <3>5
  <2>2. CASE ~ (i <= 16 * m)
    <3> DEFINE j == i - 16 * m
    <3>1. j \in 1..l /\ i = 16 * m + j
      BY <1>1, <2>2
    <3> HIDE DEF j
    <3>2. Len(q) = l /\ At(a, 16 * m, q) /\ At(b, 16 * m, q)
      BY DEF Laid, IsBytes
    <3>3. j \in 1..Len(q)
      BY <3>1, <3>2
    <3>4. a[16 * m + j] = q[j] /\ b[16 * m + j] = q[j]
      BY <3>2, <3>3 DEF At
    <3>5. QED
      BY <3>1, <3>4
  <2>3. QED
    BY <2>1, <2>2
<1> HIDE DEF n
<1>3. QED
  BY <1>1, <1>2, BytesEqual

\* The blocks that the ciphers take are those of the layout.
LEMMA LaidBlocks ==
    ASSUME NEW b, NEW m, NEW p, NEW q, NEW l, Laid(b, m, p, q, l)
    PROVE  /\ l = 0 => DOMAIN BlocksOf(b) = 1..m
           /\ l # 0 => DOMAIN BlocksOf(b) = 1..(m + 1) /\ BlocksOf(b)[m + 1] = q
           /\ \A k \in 1..m : BlocksOf(b)[k] = p[k]
<1> DEFINE n == 16 * m + l
           count == (n + 16 - 1) \div 16
           end(k) == IF 16 * k < n THEN 16 * k ELSE n
<1>1. m \in Nat /\ l \in Nat /\ l < 16 /\ Len(b) = n
  BY DEF Laid, IsBytes, BLOCK
<1>2. BlocksOf(b) = [k \in 1..count |-> SubSeq(b, 16 * (k - 1) + 1, end(k))]
  BY <1>1 DEF BlocksOf, BLOCK
<1>3. (l = 0 => count = m) /\ (l # 0 => count = m + 1)
  BY <1>1
<1>4. ASSUME NEW k \in 1..m PROVE BlocksOf(b)[k] = p[k]
  <2>1. k \in 1..count /\ end(k) = 16 * (k - 1) + 16
    BY <1>1, <1>3
  <2>2. IsBytes(p[k], 16) /\ At(b, 16 * (k - 1), p[k])
    BY DEF Laid, BLOCK
  <2>3. SubSeq(b, 16 * (k - 1) + 1, 16 * (k - 1) + 16) = p[k]
    <3> DEFINE i == 16 * (k - 1)
    <3>1. IsBytes(p[k], 16) /\ At(b, i, p[k])
      BY <2>2
    <3> HIDE DEF i
    <3>2. SubSeq(b, i + 1, i + 16) = p[k]
      BY <3>1, PartIs
    <3>3. QED
      BY <3>2 DEF i
  <2> HIDE DEF count, end
  <2>4. QED
    BY <1>2, <2>1, <2>3
<1>5. ASSUME l # 0 PROVE BlocksOf(b)[m + 1] = q
  <2>1. m + 1 \in 1..count /\ end(m + 1) = 16 * m + l /\ 16 * ((m + 1) - 1) = 16 * m
    BY <1>1, <1>3, <1>5
  <2>2. IsBytes(q, l) /\ At(b, 16 * m, q)
    BY DEF Laid
  <2>3. SubSeq(b, 16 * m + 1, 16 * m + l) = q
    BY <2>2, PartIs, Zenon
  <2> HIDE DEF count, end
  <2>4. QED
    BY <1>2, <2>1, <2>3
<1>6. DOMAIN BlocksOf(b) = 1..count
  BY <1>2
<1> HIDE DEF count
<1>7. QED
  BY <1>3, <1>4, <1>5, <1>6

\* One block more, the rest, and nothing.
LEMMA LaidBlock ==
    ASSUME NEW x, NEW m, NEW p, Laid(x, m, p, <<>>, 0), IsBytes(p[m + 1], BLOCK)
    PROVE  Laid(x \o p[m + 1], m + 1, p, <<>>, 0)
<1> DEFINE y == p[m + 1]
           z == x \o y
<1>1. m \in Nat /\ IsBytes(x, 16 * m + 0) /\ IsBytes(y, 16) /\ IsBytes(<<>>, 0) /\ 0 < BLOCK
  BY DEF Laid, BLOCK
<1>2. x \in Seq(Byte) /\ y \in Seq(Byte) /\ Len(x) = 16 * m
  BY <1>1 DEF IsBytes
<1>3. IsBytes(z, 16 * (m + 1) + 0)
  <2>1. IsBytes(z, (16 * m + 0) + 16)
    BY <1>1, ConcatBytes
  <2>2. (16 * m + 0) + 16 = 16 * (m + 1) + 0
    BY <1>1
  <2>3. QED
    BY <2>1, <2>2
<1>4. At(z, 16 * m, y)
  BY <1>2, AtEnd
<1>5. ASSUME NEW k \in 1..(m + 1) PROVE IsBytes(p[k], BLOCK) /\ At(z, 16 * (k - 1), p[k])
  <2>1. CASE k \in 1..m
    <3>1. IsBytes(p[k], BLOCK) /\ At(x, 16 * (k - 1), p[k])
      BY <2>1 DEF Laid
    <3>2. QED
      BY <1>2, <3>1, AtLonger
  <2>2. CASE k = m + 1
    <3>1. 16 * (k - 1) = 16 * m
      BY <1>1, <2>2
    <3>2. QED
      BY <1>4, <2>2, <3>1
  <2>3. QED
    BY <1>1, <2>1, <2>2
<1>6. At(z, 16 * (m + 1), <<>>)
  <2>1. Len(z) = 16 * (m + 1) /\ 16 * (m + 1) \in Nat
    BY <1>1, <1>3 DEF IsBytes
  <2>2. <<>> \in Seq(Byte) /\ Len(<<>>) = 0 /\ 1..0 = {}
    OBVIOUS
  <2>3. QED
    BY <2>1, <2>2 DEF At
<1>7. m + 1 \in Nat
  BY <1>1
<1> HIDE DEF y, z
<1>8. Laid(z, m + 1, p, <<>>, 0)
  BY <1>1, <1>3, <1>5, <1>6, <1>7 DEF Laid
<1>9. QED
  BY <1>8 DEF y, z

LEMMA LaidRest ==
    ASSUME NEW x, NEW m, NEW p, Laid(x, m, p, <<>>, 0), NEW q, NEW l, IsBytes(q, l), l < BLOCK
    PROVE  Laid(x \o q, m, p, q, l)
<1> DEFINE z == x \o q
<1>1. m \in Nat /\ IsBytes(x, 16 * m + 0)
  BY DEF Laid
<1>2. x \in Seq(Byte) /\ q \in Seq(Byte) /\ Len(x) = 16 * m /\ l \in Nat
  BY <1>1 DEF IsBytes
<1>3. IsBytes(z, 16 * m + l)
  <2>1. IsBytes(z, (16 * m + 0) + l)
    BY <1>1, ConcatBytes
  <2>2. (16 * m + 0) + l = 16 * m + l
    BY <1>1, <1>2
  <2>3. QED
    BY <2>1, <2>2
<1>4. At(z, 16 * m, q)
  BY <1>2, AtEnd
<1>5. ASSUME NEW k \in 1..m PROVE IsBytes(p[k], BLOCK) /\ At(z, 16 * (k - 1), p[k])
  <2>1. IsBytes(p[k], BLOCK) /\ At(x, 16 * (k - 1), p[k])
    BY DEF Laid
  <2>2. QED
    BY <1>2, <2>1, AtLonger
<1> HIDE DEF z
<1>6. Laid(z, m, p, q, l)
  BY <1>1, <1>3, <1>4, <1>5 DEF Laid
<1>7. QED
  BY <1>6 DEF z

LEMMA LaidNothing ==
    ASSUME NEW p
    PROVE  Laid(<<>>, 0, p, <<>>, 0)
<1>1. <<>> \in Seq(Byte) /\ Len(<<>>) = 0 /\ 1..0 = {} /\ 16 * 0 + 0 = 0 /\ 16 * 0 = 0
  OBVIOUS
<1>2. IsBytes(<<>>, 0)
  BY <1>1 DEF IsBytes
<1>3. At(<<>>, 0, <<>>)
  BY <1>2, WholeAt
<1>4. QED
  BY <1>1, <1>2, <1>3 DEF Laid, BLOCK

\* Other blocks that are the same.
LEMMA LaidSame ==
    ASSUME NEW x, NEW m, NEW p, NEW o, NEW q, NEW l, Laid(x, m, p, q, l), \A k \in 1..m : o[k] = p[k]
    PROVE  Laid(x, m, o, q, l)
BY DEF Laid

---------------------------------------------------------------------------
(* Blocks in a chain.                                                      *)

\* A context in a chain, and one outside.
Busy(p, c, v, o) == [defined |-> TRUE, plain |-> p, crypt |-> c, prev |-> v, output |-> o]
Idle(p, c, v, o) == [defined |-> FALSE, plain |-> p, crypt |-> c, prev |-> v, output |-> o]

Context(c) ==
    \E p, x, v, o :
        /\ IsBytes(p, BLOCK) /\ IsBytes(x, BLOCK) /\ IsBytes(v, BLOCK) /\ o \in Seq(Byte)
        /\ c = Busy(p, x, v, o) \/ c = Idle(p, x, v, o)

\* Contexts, field by field.
LEMMA CtxFields ==
    ASSUME NEW p, NEW c, NEW v, NEW o
    PROVE  /\ LET x == Busy(p, c, v, o)
              IN  x.defined /\ x.plain = p /\ x.crypt = c /\ x.prev = v /\ x.output = o
           /\ LET x == Idle(p, c, v, o)
              IN  ~x.defined /\ x.plain = p /\ x.crypt = c /\ x.prev = v /\ x.output = o
BY DEF Busy, Idle

LEMMA IdleContext ==
    ASSUME NEW p, NEW c, NEW v, NEW o, IsBytes(p, BLOCK), IsBytes(c, BLOCK), IsBytes(v, BLOCK), o \in Seq(Byte)
    PROVE  Context(Idle(p, c, v, o)) /\ Idle(p, c, v, o).output = o
BY CtxFields DEF Context

\* What the steps of twofish.c do with a context.
LEMMA CtxReset ==
    ASSUME NEW p, NEW c, NEW v, NEW o
    PROVE  /\ ResetCBC(Busy(p, c, v, o)) = Idle(ZeroBlock, c, v, <<>>)
           /\ ResetCBC(Idle(p, c, v, o)) = Idle(ZeroBlock, c, v, <<>>)
BY DEF Busy, Idle, ResetCBC

LEMMA CtxPushed ==
    ASSUME NEW p, NEW c, NEW v, NEW o, NEW in, NEW out
    PROVE  /\ Push(Busy(p, c, v, o), in, out) = Busy(in, out, p, o \o c)
           /\ Push(Idle(p, c, v, o), in, out) = Busy(in, out, p, o)
BY DEF Busy, Idle, Push

LEMMA CtxFlushed ==
    ASSUME NEW p, NEW c, NEW v, NEW o
    PROVE  /\ Flush(Busy(p, c, v, o)) = Busy(p, c, v, o \o c)
           /\ Flush(Idle(p, c, v, o)) = Idle(p, c, v, o)
BY DEF Busy, Idle, Flush

\* The two directions, so that no leaf meets a truth value as an argument.
Forth == FALSE
Back == TRUE

LEMMA CtxWhole ==
    ASSUME NEW p, NEW c, NEW v, NEW o, NEW in
    PROVE  /\ WholeBlock(Idle(p, c, v, o), in, Forth) = Busy(in, BlockCrypt16(in, Forth), p, o)
           /\ WholeBlock(Busy(p, c, v, o), in, Forth)
                  = Busy(XorSeq(in, c), BlockCrypt16(XorSeq(in, c), Forth), p, o \o c)
           /\ WholeBlock(Idle(p, c, v, o), in, Back) = Busy(in, BlockCrypt16(in, Back), p, o)
           /\ WholeBlock(Busy(p, c, v, o), in, Back)
                  = Busy(in, XorSeq(BlockCrypt16(in, Back), p), p, o \o c)
<1> DEFINE t == Busy(p, c, v, o)
           f == Idle(p, c, v, o)
<1>1. t.defined /\ ~f.defined /\ t.crypt = c /\ t.plain = p
  BY CtxFields
<1> HIDE DEF t, f
<1>2. /\ Chained(t, in, Forth) = XorSeq(in, c) /\ Chained(f, in, Forth) = in
      /\ Chained(t, in, Back) = in /\ Chained(f, in, Back) = in
  BY <1>1 DEF Chained, Forth, Back
<1>3. \A x : /\ Unchained(t, x, Forth) = x /\ Unchained(f, x, Forth) = x
             /\ Unchained(t, x, Back) = XorSeq(x, p) /\ Unchained(f, x, Back) = x
  BY <1>1 DEF Unchained, Forth, Back
<1>4. /\ WholeBlock(f, in, Forth) = Push(f, in, BlockCrypt16(in, Forth))
      /\ WholeBlock(t, in, Forth) = Push(t, XorSeq(in, c), BlockCrypt16(XorSeq(in, c), Forth))
      /\ WholeBlock(f, in, Back) = Push(f, in, BlockCrypt16(in, Back))
      /\ WholeBlock(t, in, Back) = Push(t, in, XorSeq(BlockCrypt16(in, Back), p))
  BY <1>2, <1>3 DEF WholeBlock
<1>5. \A x, y : Push(t, x, y) = Busy(x, y, p, o \o c)
  BY CtxPushed DEF t
<1>6. \A x, y : Push(f, x, y) = Busy(x, y, p, o)
  BY CtxPushed DEF f
<1>7. /\ WholeBlock(f, in, Forth) = Busy(in, BlockCrypt16(in, Forth), p, o)
      /\ WholeBlock(t, in, Forth)
             = Busy(XorSeq(in, c), BlockCrypt16(XorSeq(in, c), Forth), p, o \o c)
      /\ WholeBlock(f, in, Back) = Busy(in, BlockCrypt16(in, Back), p, o)
      /\ WholeBlock(t, in, Back) = Busy(in, XorSeq(BlockCrypt16(in, Back), p), p, o \o c)
  BY <1>4, <1>5, <1>6
<1>8. QED
  BY <1>7 DEF t, f

LEMMA CtxPutOut ==
    ASSUME NEW p, NEW c, NEW v, NEW o, NEW in, NEW out, NEW rest
    PROVE  PutOut(Busy(p, c, v, o), in, out, rest) = Idle(in, out, p, (o \o out) \o rest)
BY DEF Busy, Idle, PutOut

LEMMA CtxEmptied ==
    ASSUME NEW p, NEW c, NEW v, NEW o
    PROVE  /\ Emptied(Busy(p, c, v, o)) = Busy(p, c, v, <<>>)
           /\ Emptied(Idle(p, c, v, o)) = Idle(p, c, v, <<>>)
BY DEF Busy, Idle, Emptied

LEMMA CtxPartial ==
    ASSUME NEW p, NEW c, NEW v, NEW o, NEW in
    PROVE  LET t  == Busy(p, c, v, o)
               pn == XorSeq(FilledUp(in, ZeroBlock), c)
               s  == BlockCrypt16(p, Back)
               y  == XorSeq(BlockCrypt16(FilledUp(in, s), Back), v)
           IN  /\ PartialBlock(t, in, Forth)
                      = Idle(pn, BlockCrypt16(pn, Forth), p, (o \o BlockCrypt16(pn, Forth)) \o SubSeq(c, 1, Len(in)))
               /\ PartialBlock(t, in, Back)
                      = Idle(FilledUp(in, s), y, p, (o \o y) \o XorSeq(in, SubSeq(s, 1, Len(in))))
<1> DEFINE t == Busy(p, c, v, o)
<1>1. t.crypt = c /\ t.plain = p /\ t.prev = v
  BY CtxFields
<1>2. \A x, y, r : PutOut(t, x, y, r) = Idle(x, y, p, (o \o y) \o r)
  BY CtxPutOut
<1> HIDE DEF t
<1>3. QED
  BY <1>1, <1>2 DEF PartialBlock, Forth, Back, EncryptRest, DecryptRest, t

\* The blocks one after the other.
LEMMA ChainFold ==
    ASSUME NEW c, NEW in, NEW decrypt, NEW n \in Nat, DOMAIN BlocksOf(in) = 1..n
    PROVE  \E g : Folds("chain", decrypt, c, BlocksOf(in), n, g)
                  /\ CryptRawCBC(c, in, decrypt) = Flush(g[n])
<1> DEFINE s == BlocksOf(in)
           Value(g, S) ==
              IF S = {} THEN c
              ELSE IF Len(s[Max(S)]) = BLOCK THEN WholeBlock(g[S \ {Max(S)}], s[Max(S)], decrypt)
                                             ELSE PartialBlock(g[S \ {Max(S)}], s[Max(S)], decrypt)
<1>1. \A g, S : FoldValue("chain", decrypt, c, s, g, S) = Value(g, S)
  BY DEF FoldValue, Step, CipherStep
<1>2. \E g : g = [S \in SUBSET (1..n) |-> Value(g, S)]
  <2> HIDE DEF Value, s
  <2>1. PICK g : FoldsUpTo("chain", decrypt, c, s, g, n)
    BY FoldExists
  <2>2. g = [S \in SUBSET (1..n) |-> FoldValue("chain", decrypt, c, s, g, S)]
    BY <2>1 DEF FoldsUpTo
  <2>3. g = [S \in SUBSET (1..n) |-> Value(g, S)]
    BY <1>1, <2>2
  <2>4. QED
    BY <2>3
<1> DEFINE iter == CHOOSE g : g = [S \in SUBSET (1..n) |-> Value(g, S)]
<1>3. iter = [S \in SUBSET (1..n) |-> Value(iter, S)]
  <2> HIDE DEF Value
  <2>1. QED
    BY <1>2
<1>4. CryptRawCBC(c, in, decrypt) = Flush(iter[1..n])
  BY DEF CryptRawCBC, FoldLeft, MapThenFoldSet
<1> HIDE DEF iter, Value, s
<1>5. FoldsUpTo("chain", decrypt, c, s, iter, n)
  BY <1>1, <1>3 DEF FoldsUpTo
<1>6. \E g : Folds("chain", decrypt, c, s, n, g) /\ g[n] = iter[1..n]
  BY <1>5, FoldIsSequence
<1>7. QED
  BY <1>4, <1>6 DEF s

\* What CryptRawCBC does with blocks and a rest.
LEMMA ChainSteps ==
    ASSUME NEW in, NEW m, NEW p, NEW q, NEW l, Laid(in, m, p, q, l), NEW c, NEW decrypt
    PROVE  \E g : /\ g[0] = c
                  /\ \A k \in 1..m : g[k] = WholeBlock(g[k - 1], p[k], decrypt)
                  /\ l = 0 => CryptRawCBC(c, in, decrypt) = Flush(g[m])
                  /\ l # 0 => CryptRawCBC(c, in, decrypt) = Flush(PartialBlock(g[m], q, decrypt))
<1> DEFINE n == IF l = 0 THEN m ELSE m + 1
           s == BlocksOf(in)
<1>1. /\ m \in Nat /\ n \in Nat /\ m <= n /\ IsBytes(q, l)
      /\ \A k \in 1..m : IsBytes(p[k], BLOCK)
  BY DEF Laid
<1>2. DOMAIN s = 1..n /\ \A k \in 1..m : s[k] = p[k]
  BY LaidBlocks
<1> HIDE DEF s
<1>3. PICK g : /\ Folds("chain", decrypt, c, s, n, g)
               /\ CryptRawCBC(c, in, decrypt) = Flush(g[n])
  <2> HIDE DEF n
  <2>1. DOMAIN BlocksOf(in) = 1..n
    BY <1>2 DEF s
  <2>2. QED
    BY <1>1, <2>1, ChainFold DEF s
<1>4. g[0] = c /\ \A k \in 1..n : g[k] = Step("chain", decrypt, g[k - 1], s[k])
  BY <1>3 DEF Folds
<1>5. ASSUME NEW k \in 1..m PROVE g[k] = WholeBlock(g[k - 1], p[k], decrypt)
  <2>1. k \in 1..n /\ s[k] = p[k] /\ Len(p[k]) = BLOCK
    BY <1>1, <1>2 DEF IsBytes
  <2>2. g[k] = Step("chain", decrypt, g[k - 1], p[k])
    BY <1>4, <2>1
  <2>3. QED
    BY <2>1, <2>2 DEF Step, CipherStep
<1>6. ASSUME l # 0 PROVE g[n] = PartialBlock(g[m], q, decrypt)
  <2>1. n = m + 1 /\ m + 1 \in 1..n /\ (m + 1) - 1 = m
    BY <1>1, <1>6
  <2>2. s[m + 1] = q
    BY <1>6, LaidBlocks DEF s
  <2>3. Len(q) # BLOCK
    BY DEF Laid, IsBytes, BLOCK
  <2>4. g[m + 1] = Step("chain", decrypt, g[m], q)
    BY <1>4, <2>1, <2>2
  <2>5. g[m + 1] = PartialBlock(g[m], q, decrypt)
    BY <2>3, <2>4 DEF Step, CipherStep
  <2>6. QED
    BY <2>1, <2>5
<1>7. QED
  BY <1>3, <1>4, <1>5, <1>6

\* Both directions, each by a name of its own.
Enc(x) == BlockCrypt16(x, Forth)
Dec(x) == BlockCrypt16(x, Back)
EncWhole(c, in) == WholeBlock(c, in, Forth)
DecWhole(c, in) == WholeBlock(c, in, Back)
EncRest(c, in) == PartialBlock(c, in, Forth)
DecRest(c, in) == PartialBlock(c, in, Back)

\* Encryption and decryption, by name.
LEMMA EncDec ==
    ASSUME NEW p, IsBytes(p, BLOCK)
    PROVE  IsBytes(Enc(p), BLOCK) /\ Dec(Enc(p)) = p
BY BlockBack DEF Enc, Dec, Forth, Back

LEMMA EncWholes ==
    ASSUME NEW p, NEW c, NEW v, NEW o, NEW in
    PROVE  /\ EncWhole(Idle(p, c, v, o), in) = Busy(in, Enc(in), p, o)
           /\ EncWhole(Busy(p, c, v, o), in) = Busy(XorSeq(in, c), Enc(XorSeq(in, c)), p, o \o c)
<1>1. /\ WholeBlock(Idle(p, c, v, o), in, Forth) = Busy(in, BlockCrypt16(in, Forth), p, o)
      /\ WholeBlock(Busy(p, c, v, o), in, Forth)
             = Busy(XorSeq(in, c), BlockCrypt16(XorSeq(in, c), Forth), p, o \o c)
  BY CtxWhole
<1>2. QED
  BY <1>1 DEF Enc, EncWhole

LEMMA DecWholes ==
    ASSUME NEW p, NEW c, NEW v, NEW o, NEW in
    PROVE  /\ DecWhole(Idle(p, c, v, o), in) = Busy(in, Dec(in), p, o)
           /\ DecWhole(Busy(p, c, v, o), in) = Busy(in, XorSeq(Dec(in), p), p, o \o c)
<1>1. /\ WholeBlock(Idle(p, c, v, o), in, Back) = Busy(in, BlockCrypt16(in, Back), p, o)
      /\ WholeBlock(Busy(p, c, v, o), in, Back)
             = Busy(in, XorSeq(BlockCrypt16(in, Back), p), p, o \o c)
  BY CtxWhole
<1>2. QED
  BY <1>1 DEF Dec, DecWhole

LEMMA EncRests ==
    ASSUME NEW p, NEW c, NEW v, NEW o, NEW in
    PROVE  LET pn == XorSeq(FilledUp(in, ZeroBlock), c)
           IN  EncRest(Busy(p, c, v, o), in)
                   = Idle(pn, Enc(pn), p, (o \o Enc(pn)) \o SubSeq(c, 1, Len(in)))
<1> DEFINE pn == XorSeq(FilledUp(in, ZeroBlock), c)
<1>1. PartialBlock(Busy(p, c, v, o), in, Forth)
          = Idle(pn, BlockCrypt16(pn, Forth), p, (o \o BlockCrypt16(pn, Forth)) \o SubSeq(c, 1, Len(in)))
  BY CtxPartial
<1> HIDE DEF pn
<1>2. EncRest(Busy(p, c, v, o), in) = Idle(pn, Enc(pn), p, (o \o Enc(pn)) \o SubSeq(c, 1, Len(in)))
  BY <1>1 DEF Enc, EncRest
<1>3. QED
  BY <1>2 DEF pn

LEMMA DecRests ==
    ASSUME NEW p, NEW c, NEW v, NEW o, NEW in
    PROVE  LET s == Dec(p)
               y == XorSeq(Dec(FilledUp(in, s)), v)
           IN  DecRest(Busy(p, c, v, o), in)
                   = Idle(FilledUp(in, s), y, p, (o \o y) \o XorSeq(in, SubSeq(s, 1, Len(in))))
<1> DEFINE s == BlockCrypt16(p, Back)
           y == XorSeq(BlockCrypt16(FilledUp(in, s), Back), v)
<1>1. PartialBlock(Busy(p, c, v, o), in, Back)
          = Idle(FilledUp(in, s), y, p, (o \o y) \o XorSeq(in, SubSeq(s, 1, Len(in))))
  BY CtxPartial
<1>2. QED
  BY <1>1 DEF Dec, DecRest

\* The contexts of a text.
LEMMA EncSteps ==
    ASSUME NEW in, NEW m, NEW p, NEW q, NEW l, Laid(in, m, p, q, l), NEW c
    PROVE  \E g : /\ g[0] = c
                  /\ \A k \in 1..m : g[k] = EncWhole(g[k - 1], p[k])
                  /\ l = 0 => CryptRawCBC(c, in, Forth) = Flush(g[m])
                  /\ l # 0 => CryptRawCBC(c, in, Forth) = Flush(EncRest(g[m], q))
<1>1. \E g : /\ g[0] = c
             /\ \A k \in 1..m : g[k] = WholeBlock(g[k - 1], p[k], Forth)
             /\ l = 0 => CryptRawCBC(c, in, Forth) = Flush(g[m])
             /\ l # 0 => CryptRawCBC(c, in, Forth) = Flush(PartialBlock(g[m], q, Forth))
  BY ChainSteps
<1>2. QED
  BY <1>1 DEF EncWhole, EncRest

LEMMA DecSteps ==
    ASSUME NEW in, NEW m, NEW p, NEW q, NEW l, Laid(in, m, p, q, l), NEW c
    PROVE  \E g : /\ g[0] = c
                  /\ \A k \in 1..m : g[k] = DecWhole(g[k - 1], p[k])
                  /\ l = 0 => CryptRawCBC(c, in, Back) = Flush(g[m])
                  /\ l # 0 => CryptRawCBC(c, in, Back) = Flush(DecRest(g[m], q))
<1>1. \E g : /\ g[0] = c
             /\ \A k \in 1..m : g[k] = WholeBlock(g[k - 1], p[k], Back)
             /\ l = 0 => CryptRawCBC(c, in, Back) = Flush(g[m])
             /\ l # 0 => CryptRawCBC(c, in, Back) = Flush(PartialBlock(g[m], q, Back))
  BY ChainSteps
<1>2. QED
  BY <1>1 DEF DecWhole, DecRest

LEMMA DecRounds ==
    ASSUME NEW in, NEW m, NEW p, Laid(in, m, p, <<>>, 0), NEW c
    PROVE  \E g : /\ g[0] = c
                  /\ \A k \in 1..m : g[k] = DecWhole(g[k - 1], p[k])
                  /\ CryptRawCBC(c, in, Back) = Flush(g[m])
<1>1. PICK q : q = <<>>
  OBVIOUS
<1>2. PICK l : l = 0
  OBVIOUS
<1>3. Laid(in, m, p, q, l)
  BY <1>1, <1>2
<1>4. \E g : /\ g[0] = c
             /\ \A k \in 1..m : g[k] = DecWhole(g[k - 1], p[k])
             /\ l = 0 => CryptRawCBC(c, in, Back) = Flush(g[m])
  BY <1>3, DecSteps
<1>5. QED
  BY <1>2, <1>4

\* The vector that a chain begins with.
LEMMA Zeroes ==
    IsBytes(ZeroBlock, BLOCK) /\ \A i \in 1..16 : ZeroBlock[i] = 0
<1>1. BLOCK \in Nat /\ 0 \in Byte /\ BLOCK = 16
  BY DEF BLOCK, Byte
<1>2. ZeroBlock \in [1..BLOCK -> Byte]
  BY <1>1 DEF ZeroBlock
<1>3. IsBytes(ZeroBlock, BLOCK)
  BY <1>1, <1>2, BytesFunction
<1>4. QED
  BY <1>1, <1>3 DEF ZeroBlock

LEMMA XorZero ==
    ASSUME NEW x, IsBytes(x, BLOCK)
    PROVE  XorSeq(x, ZeroBlock) = x
<1> DEFINE y == XorSeq(x, ZeroBlock)
<1>1. IsBytes(y, BLOCK) /\ \A i \in 1..BLOCK : y[i] = XorByte(x[i], ZeroBlock[i])
  BY Zeroes, XorSeqs
<1> HIDE DEF y
<1>2. ASSUME NEW i \in 1..BLOCK PROVE y[i] = x[i]
  <2>1. x[i] \in Byte /\ 0 \in Byte /\ ZeroBlock[i] = 0
    <3>1. x \in [1..BLOCK -> Byte]
      BY BytesFunction
    <3>2. ZeroBlock[i] = 0 /\ 0 \in Byte
      BY Zeroes DEF BLOCK, Byte
    <3>3. QED
      BY <3>1, <3>2
  <2>2. XorByte(x[i], 0) = XorByte(0, x[i]) /\ XorByte(0, x[i]) = x[i]
    BY <2>1, XorBytes
  <2>3. QED
    BY <1>1, <2>1, <2>2
<1>3. y = x
  BY <1>1, <1>2, BytesEqual
<1>4. QED
  BY <1>3 DEF y

\* The blocks C of a text of whole blocks p, in a chain.
Enciphered(C, p, m) ==
    /\ C[0] = ZeroBlock
    /\ \A k \in 1..m : IsBytes(C[k], BLOCK) /\ C[k] = Enc(XorSeq(p[k], C[k - 1]))

\* R: the blocks of a text D of whole blocks, taken out of the chain.
Deciphered(R, D, m) ==
    /\ D[0] = ZeroBlock
    /\ \A k \in 1..m : /\ IsBytes(D[k], BLOCK) /\ IsBytes(Dec(D[k]), BLOCK) /\ IsBytes(R[k], BLOCK)
                       /\ R[k] = XorSeq(Dec(D[k]), D[k - 1])

\* The blocks of ciphertext, each of the plaintext and the one before it.
LEMMA Encryption ==
    ASSUME NEW m \in Nat, m # 0, NEW p, \A k \in 1..m : IsBytes(p[k], BLOCK), NEW g, NEW x, NEW v,
           g[0] = Idle(ZeroBlock, x, v, <<>>),
           \A k \in 1..m : g[k] = EncWhole(g[k - 1], p[k])
    PROVE  \E C, a, w, o : /\ Enciphered(C, p, m)
                           /\ g[m] = Busy(a, C[m], w, o)
                           /\ IsBytes(a, BLOCK) /\ IsBytes(w, BLOCK) /\ Laid(o, m - 1, C, <<>>, 0)
<1> DEFINE C == [k \in 0..m |-> IF k = 0 THEN ZeroBlock ELSE g[k].crypt]
           Good(k) == \E a, w, o : /\ g[k] = Busy(a, C[k], w, o)
                                   /\ IsBytes(a, BLOCK) /\ IsBytes(w, BLOCK)
                                   /\ IsBytes(C[k], BLOCK)
                                   /\ C[k] = Enc(XorSeq(p[k], C[k - 1]))
                                   /\ Laid(o, k - 1, C, <<>>, 0)
           T == {k \in Nat : k + 1 <= m => Good(k + 1)}
<1>1. C[0] = ZeroBlock /\ \A k \in 1..m : C[k] = g[k].crypt
  OBVIOUS
<1> HIDE DEF C
<1>2. 0 \in T
  <2> SUFFICES ASSUME 1 <= m PROVE Good(1)
    OBVIOUS
  <2>1. 1 \in 1..m /\ 1 - 1 = 0 /\ IsBytes(p[1], BLOCK)
    OBVIOUS
  <2>2. g[1] = EncWhole(g[0], p[1])
    BY <2>1
  <2>3. g[1] = Busy(p[1], Enc(p[1]), ZeroBlock, <<>>)
    BY <2>2, EncWholes
  <2>4. C[1] = Enc(p[1])
    BY <1>1, <2>1, <2>3, CtxFields
  <2>5. XorSeq(p[1], C[0]) = p[1]
    BY <1>1, <2>1, XorZero
  <2>6. IsBytes(C[1], BLOCK)
    BY <2>1, <2>4, EncDec
  <2>7. Laid(<<>>, 1 - 1, C, <<>>, 0)
    BY <2>1, LaidNothing
  <2>8. g[1] = Busy(p[1], C[1], ZeroBlock, <<>>) /\ C[1] = Enc(XorSeq(p[1], C[1 - 1]))
    BY <2>1, <2>3, <2>4, <2>5
  <2>9. QED
    BY <2>1, <2>6, <2>7, <2>8, Zeroes
<1>3. ASSUME NEW j \in Nat, j \in T PROVE j + 1 \in T
  <2> DEFINE k == j + 1
  <2> SUFFICES ASSUME k + 1 <= m PROVE Good(k + 1)
    OBVIOUS
  <2>1. k \in 1..m /\ k + 1 \in 1..m /\ (k + 1) - 1 = k /\ (k - 1) + 1 = k
    OBVIOUS
  <2>2. Good(k)
    BY <1>3, <2>1
  <2> HIDE DEF k, T
  <2>3. PICK a, w, o : /\ g[k] = Busy(a, C[k], w, o)
                       /\ IsBytes(a, BLOCK) /\ IsBytes(C[k], BLOCK) /\ Laid(o, k - 1, C, <<>>, 0)
    BY <2>2
  <2> DEFINE y == XorSeq(p[k + 1], C[k])
  <2>4. IsBytes(y, BLOCK)
    BY <2>1, <2>3, XorSeqs
  <2>5. g[k + 1] = EncWhole(g[k], p[k + 1])
    BY <2>1
  <2>6. g[k + 1] = Busy(y, Enc(y), a, o \o C[k])
    BY <2>3, <2>5, EncWholes
  <2>7. C[k + 1] = Enc(y)
    BY <1>1, <2>1, <2>6, CtxFields
  <2>8. C[k + 1] = Enc(XorSeq(p[k + 1], C[(k + 1) - 1]))
    BY <2>1, <2>7
  <2> HIDE DEF y
  <2>9. IsBytes(C[k + 1], BLOCK)
    BY <2>4, <2>7, EncDec
  <2>10. Laid(o \o C[k], (k + 1) - 1, C, <<>>, 0)
    <3>1. Laid(o \o C[(k - 1) + 1], (k - 1) + 1, C, <<>>, 0)
      BY <2>1, <2>3, LaidBlock
    <3>2. QED
      BY <2>1, <3>1
  <2>11. g[k + 1] = Busy(y, C[k + 1], a, o \o C[k])
    BY <2>6, <2>7
  <2>12. QED
    BY <2>3, <2>4, <2>8, <2>9, <2>10, <2>11
<1>4. \A j \in Nat : j \in T
  <2> HIDE DEF T
  <2>1. QED
    BY <1>2, <1>3, SetInduction
<1>5. \A k \in 1..m : Good(k)
  <2> TAKE k \in 1..m
  <2>1. k - 1 \in Nat /\ (k - 1) + 1 = k /\ k <= m
    OBVIOUS
  <2> HIDE DEF Good
  <2>2. QED
    BY <1>4, <2>1
<1>6. m \in 1..m
  OBVIOUS
<1>7. Enciphered(C, p, m)
  BY <1>1, <1>5 DEF Enciphered
<1>8. QED
  BY <1>5, <1>6, <1>7

\* And those of plaintext.
LEMMA Decryption ==
    ASSUME NEW m \in Nat, m # 0, NEW D, NEW R, Deciphered(R, D, m), NEW h, NEW x, NEW v,
           h[0] = Idle(ZeroBlock, x, v, <<>>),
           \A k \in 1..m : h[k] = DecWhole(h[k - 1], D[k])
    PROVE  \E o : h[m] = Busy(D[m], R[m], D[m - 1], o) /\ Laid(o, m - 1, R, <<>>, 0)
<1> DEFINE Good(k) == \E o : h[k] = Busy(D[k], R[k], D[k - 1], o) /\ Laid(o, k - 1, R, <<>>, 0)
           T == {k \in Nat : k + 1 <= m => Good(k + 1)}
<1>1. /\ D[0] = ZeroBlock
      /\ \A k \in 1..m : /\ IsBytes(D[k], BLOCK) /\ IsBytes(Dec(D[k]), BLOCK) /\ IsBytes(R[k], BLOCK)
                         /\ R[k] = XorSeq(Dec(D[k]), D[k - 1])
  BY DEF Deciphered
<1>2. 0 \in T
  <2> SUFFICES ASSUME 1 <= m PROVE Good(1)
    OBVIOUS
  <2>1. 1 \in 1..m /\ 1 - 1 = 0
    OBVIOUS
  <2>2. h[1] = DecWhole(h[0], D[1])
    BY <2>1
  <2>3. h[1] = Busy(D[1], Dec(D[1]), ZeroBlock, <<>>)
    BY <2>2, DecWholes
  <2>4. R[1] = XorSeq(Dec(D[1]), ZeroBlock) /\ IsBytes(Dec(D[1]), BLOCK)
    BY <1>1, <2>1
  <2>5. R[1] = Dec(D[1])
    BY <2>4, XorZero
  <2>6. Laid(<<>>, 1 - 1, R, <<>>, 0)
    BY <2>1, LaidNothing
  <2>7. h[1] = Busy(D[1], R[1], D[1 - 1], <<>>)
    BY <1>1, <2>1, <2>3, <2>5
  <2>8. QED
    BY <2>6, <2>7
<1>3. ASSUME NEW j \in Nat, j \in T PROVE j + 1 \in T
  <2> DEFINE k == j + 1
  <2> SUFFICES ASSUME k + 1 <= m PROVE Good(k + 1)
    OBVIOUS
  <2>1. k \in 1..m /\ k + 1 \in 1..m /\ (k + 1) - 1 = k /\ (k - 1) + 1 = k
    OBVIOUS
  <2>2. Good(k)
    BY <1>3, <2>1
  <2> HIDE DEF k, T
  <2>3. PICK o : h[k] = Busy(D[k], R[k], D[k - 1], o) /\ Laid(o, k - 1, R, <<>>, 0)
    BY <2>2
  <2>4. h[k + 1] = DecWhole(h[k], D[k + 1])
    BY <2>1
  <2>5. h[k + 1] = Busy(D[k + 1], XorSeq(Dec(D[k + 1]), D[k]), D[k], o \o R[k])
    BY <2>3, <2>4, DecWholes
  <2>6. R[k + 1] = XorSeq(Dec(D[k + 1]), D[(k + 1) - 1])
    BY <1>1, <2>1
  <2>7. h[k + 1] = Busy(D[k + 1], R[k + 1], D[(k + 1) - 1], o \o R[k])
    BY <2>1, <2>5, <2>6
  <2>8. Laid(o \o R[k], (k + 1) - 1, R, <<>>, 0)
    <3>1. IsBytes(R[(k - 1) + 1], BLOCK)
      BY <1>1, <2>1
    <3>2. Laid(o \o R[(k - 1) + 1], (k - 1) + 1, R, <<>>, 0)
      BY <2>3, <3>1, LaidBlock
    <3>3. QED
      BY <2>1, <3>2
  <2>9. QED
    BY <2>7, <2>8
<1>4. \A j \in Nat : j \in T
  <2> HIDE DEF T
  <2>1. QED
    BY <1>2, <1>3, SetInduction
<1>5. Good(m)
  <2>1. m - 1 \in Nat /\ (m - 1) + 1 = m /\ m <= m
    OBVIOUS
  <2> HIDE DEF Good
  <2>2. QED
    BY <1>4, <2>1
<1>6. QED
  BY <1>5

\* The rest of a text, filled up with the end of the block before it.
LEMMA FilledBytes ==
    ASSUME NEW l, NEW q, IsBytes(q, l), l < BLOCK, NEW b, IsBytes(b, BLOCK)
    PROVE  /\ IsBytes(FilledUp(q, b), BLOCK)
           /\ \A i \in 1..BLOCK : FilledUp(q, b)[i] = IF i <= l THEN q[i] ELSE b[i]
<1> DEFINE k == BLOCK - l
           r == SubSeq(b, l + 1, l + k)
           z == q \o r
<1>1. l \in Nat /\ q \in Seq(Byte) /\ Len(q) = l
  BY DEF IsBytes
<1>2. k \in Nat /\ l + k = BLOCK /\ l + k <= BLOCK
  BY <1>1 DEF BLOCK
<1>3. IsBytes(r, k) /\ \A j \in 1..k : r[j] = b[l + j]
  <2> HIDE DEF k
  <2>1. PICK n : n = BLOCK
    OBVIOUS
  <2>2. l \in Nat /\ k \in Nat /\ l + k <= n /\ IsBytes(b, n)
    BY <1>1, <1>2, <2>1
  <2>3. IsBytes(SubSeq(b, l + 1, l + k), k)
    BY <2>2, PartBytes
  <2>4. ASSUME NEW j \in 1..k PROVE SubSeq(b, l + 1, l + k)[j] = b[l + j]
    BY <2>2, PartItem
  <2>5. QED
    BY <2>3, <2>4
<1>4. FilledUp(q, b) = z
  BY <1>1, <1>2 DEF FilledUp
<1>5. IsBytes(z, BLOCK)
  <2> HIDE DEF k, r
  <2>1. IsBytes(z, l + k)
    BY <1>3, ConcatBytes
  <2>2. QED
    BY <1>2, <2>1
<1> HIDE DEF k, r
<1>6. r \in Seq(Byte) /\ Len(r) = k
  BY <1>3 DEF IsBytes
<1>7. \A i \in 1..(l + k) : z[i] = IF i <= l THEN q[i] ELSE r[i - l]
  BY <1>1, <1>6, ConcatProperties
<1> HIDE DEF z
<1>8. ASSUME NEW i \in 1..BLOCK PROVE z[i] = IF i <= l THEN q[i] ELSE b[i]
  <2>1. z[i] = IF i <= l THEN q[i] ELSE r[i - l]
    BY <1>2, <1>7
  <2>2. CASE i <= l
    BY <2>1, <2>2
  <2>3. CASE ~ (i <= l)
    <3> DEFINE j == i - l
    <3>1. j \in 1..k /\ l + j = i
      BY <1>1, <1>2, <2>3 DEF BLOCK
    <3> HIDE DEF j
    <3>2. r[j] = b[i]
      BY <1>3, <3>1
    <3>3. QED
      BY <2>1, <2>3, <3>2 DEF j
  <2>4. QED
    BY <2>2, <2>3
<1>9. QED
  BY <1>4, <1>5, <1>8

\* What the last block takes from the one before, and gives back.
LEMMA Stealing ==
    ASSUME NEW l, NEW q, IsBytes(q, l), l < BLOCK, NEW c, IsBytes(c, BLOCK),
           NEW pn, Is(pn, XorSeq(FilledUp(q, ZeroBlock), c))
    PROVE  /\ IsBytes(pn, BLOCK) /\ IsBytes(SubSeq(c, 1, l), l)
           /\ FilledUp(SubSeq(c, 1, l), pn) = c
           /\ XorSeq(SubSeq(c, 1, l), SubSeq(pn, 1, l)) = q
<1> DEFINE u == FilledUp(q, ZeroBlock)
           r == SubSeq(c, 1, l)
           t == SubSeq(pn, 1, l)
           f == FilledUp(r, pn)
           y == XorSeq(r, t)
<1>1. l \in Nat /\ l <= BLOCK /\ BLOCK \in Nat
  BY DEF IsBytes, BLOCK
<1>2. IsBytes(u, BLOCK) /\ \A i \in 1..BLOCK : u[i] = IF i <= l THEN q[i] ELSE ZeroBlock[i]
  BY FilledBytes, Zeroes
<1>3. pn = XorSeq(u, c)
  BY DEF Is
<1> HIDE DEF u
<1>4. IsBytes(pn, BLOCK) /\ \A i \in 1..BLOCK : pn[i] = XorByte(u[i], c[i])
  BY <1>2, <1>3, XorSeqs
<1>5. IsBytes(r, l) /\ \A i \in 1..l : r[i] = c[i]
  BY <1>1, HeadPart
<1>6. IsBytes(t, l) /\ \A i \in 1..l : t[i] = pn[i]
  BY <1>1, <1>4, HeadPart
<1> HIDE DEF r, t
<1>7. IsBytes(f, BLOCK) /\ \A i \in 1..BLOCK : f[i] = IF i <= l THEN r[i] ELSE pn[i]
  BY <1>4, <1>5, FilledBytes
<1>8. IsBytes(y, l) /\ \A i \in 1..l : y[i] = XorByte(r[i], t[i])
  <2>1. IsBytes(r, l) /\ IsBytes(t, l)
    BY <1>5, <1>6
  <2> HIDE DEF f
  <2>2. IsBytes(XorSeq(r, t), l)
    BY <2>1, XorSeqs
  <2>3. \A i \in 1..l : XorSeq(r, t)[i] = XorByte(r[i], t[i])
    BY <2>1, XorItem
  <2>4. QED
    BY <2>2, <2>3
<1> HIDE DEF f, y
<1>9. c \in [1..BLOCK -> Byte] /\ q \in [1..l -> Byte]
  BY BytesFunction
<1>10. ASSUME NEW i \in 1..BLOCK PROVE f[i] = c[i]
  <2>1. CASE i <= l
    <3>1. i \in 1..l
      BY <1>1, <2>1
    <3>2. QED
      BY <1>5, <1>7, <2>1, <3>1
  <2>2. CASE ~ (i <= l)
    <3>1. ZeroBlock[i] = 0
      BY Zeroes DEF BLOCK
    <3>2. pn[i] = XorByte(0, c[i])
      BY <1>2, <1>4, <2>2, <3>1
    <3>3. c[i] \in Byte
      BY <1>9
    <3>4. XorByte(0, c[i]) = c[i]
      BY <3>3, XorBytes
    <3>5. QED
      BY <1>7, <2>2, <3>2, <3>4
  <2>3. QED
    BY <2>1, <2>2
<1>11. ASSUME NEW i \in 1..l PROVE y[i] = q[i]
  <2>1. i \in 1..BLOCK /\ i <= l
    BY <1>1
  <2>2. r[i] = c[i] /\ t[i] = pn[i] /\ u[i] = q[i]
    BY <1>2, <1>5, <1>6, <2>1
  <2>3. y[i] = XorByte(c[i], XorByte(q[i], c[i]))
    BY <1>4, <1>8, <2>1, <2>2
  <2>4. c[i] \in Byte /\ q[i] \in Byte
    BY <1>9, <2>1
  <2> DEFINE z == XorByte(q[i], c[i])
  <2>5. z \in Byte /\ XorByte(z, c[i]) = q[i]
    BY <2>4, XorBytes
  <2> HIDE DEF z
  <2>6. XorByte(c[i], z) = XorByte(z, c[i])
    BY <2>4, <2>5, XorBytes
  <2>7. QED
    BY <2>3, <2>5, <2>6 DEF z
<1>12. f = c
  BY <1>7, <1>10, BytesEqual
<1>13. y = q
  BY <1>8, <1>11, BytesEqual
<1>14. QED
  BY <1>4, <1>5, <1>12, <1>13 DEF f, y, r, t

\* A block, into the chain and out of it.
LEMMA ChainedBack ==
    ASSUME NEW p, NEW c, IsBytes(p, BLOCK), IsBytes(c, BLOCK)
    PROVE  LET e == Enc(XorSeq(p, c))
           IN  IsBytes(e, BLOCK) /\ IsBytes(Dec(e), BLOCK) /\ XorSeq(Dec(e), c) = p
<1> DEFINE x == XorSeq(p, c)
<1>1. IsBytes(x, BLOCK) /\ XorSeq(x, c) = p
  BY XorSeqs
<1> HIDE DEF x
<1>2. IsBytes(Enc(x), BLOCK) /\ Dec(Enc(x)) = x
  BY <1>1, EncDec
<1>3. QED
  BY <1>1, <1>2 DEF x

\* A text of whole blocks.
LEMMA WholeText ==
    ASSUME NEW in, NEW m, NEW p, NEW q, Laid(in, m, p, q, 0), m # 0,
           NEW x, NEW v, IsBytes(x, BLOCK), IsBytes(v, BLOCK),
           NEW y, NEW w, IsBytes(y, BLOCK), IsBytes(w, BLOCK)
    PROVE  \E e, f :
               /\ e = CryptRawCBC(Idle(ZeroBlock, x, v, <<>>), in, Forth)
               /\ Context(e) /\ IsBytes(e.output, 16 * m)
               /\ f = CryptRawCBC(Idle(ZeroBlock, y, w, <<>>), e.output, Back)
               /\ Context(f) /\ f.output = in
<1>1. /\ m \in Nat /\ q = <<>> /\ m - 1 \in Nat /\ (m - 1) + 1 = m /\ m \in 1..m /\ 16 * m + 0 = 16 * m
      /\ \A k \in 1..m : IsBytes(p[k], BLOCK)
  BY NoBytes DEF Laid
<1>2. PICK g : /\ g[0] = Idle(ZeroBlock, x, v, <<>>)
               /\ \A k \in 1..m : g[k] = EncWhole(g[k - 1], p[k])
               /\ CryptRawCBC(Idle(ZeroBlock, x, v, <<>>), in, Forth) = Flush(g[m])
  BY EncSteps
<1>3. PICK C, a, b, o : /\ Enciphered(C, p, m)
                        /\ g[m] = Busy(a, C[m], b, o)
                        /\ IsBytes(a, BLOCK) /\ IsBytes(b, BLOCK) /\ Laid(o, m - 1, C, <<>>, 0)
  BY <1>1, <1>2, Encryption
<1> DEFINE out == o \o C[m]
           e   == Busy(a, C[m], b, out)
<1>4. e = CryptRawCBC(Idle(ZeroBlock, x, v, <<>>), in, Forth)
  BY <1>2, <1>3, CtxFlushed
<1>5. /\ C[0] = ZeroBlock
      /\ \A k \in 1..m : IsBytes(C[k], BLOCK) /\ C[k] = Enc(XorSeq(p[k], C[k - 1]))
  BY <1>3 DEF Enciphered
<1>6. Laid(out, m, C, <<>>, 0)
  <2>1. Laid(o \o C[(m - 1) + 1], (m - 1) + 1, C, <<>>, 0)
    BY <1>1, <1>3, <1>5, LaidBlock
  <2>2. QED
    BY <1>1, <2>1
<1> HIDE DEF out
<1>7. IsBytes(out, 16 * m) /\ out \in Seq(Byte)
  BY <1>1, <1>6 DEF Laid, IsBytes
<1>8. Context(e) /\ e.output = out
  BY <1>1, <1>3, <1>5, <1>7, CtxFields DEF Context
<1> HIDE DEF e
<1>9. Deciphered(p, C, m)
  <2>1. ASSUME NEW k \in 1..m
        PROVE  IsBytes(C[k], BLOCK) /\ IsBytes(Dec(C[k]), BLOCK) /\ p[k] = XorSeq(Dec(C[k]), C[k - 1])
    <3>1. IsBytes(C[k - 1], BLOCK)
      <4>1. k = 1 \/ k - 1 \in 1..m
        BY <1>1
      <4>2. QED
        BY <1>5, <4>1, Zeroes
    <3>2. IsBytes(p[k], BLOCK) /\ C[k] = Enc(XorSeq(p[k], C[k - 1]))
      BY <1>1, <1>5
    <3>3. QED
      BY <3>1, <3>2, ChainedBack
  <2>2. QED
    BY <1>1, <1>5, <2>1 DEF Deciphered
<1>10. PICK h : /\ h[0] = Idle(ZeroBlock, y, w, <<>>)
                /\ \A k \in 1..m : h[k] = DecWhole(h[k - 1], C[k])
                /\ CryptRawCBC(Idle(ZeroBlock, y, w, <<>>), out, Back) = Flush(h[m])
  <2> DEFINE fresh == Idle(ZeroBlock, y, w, <<>>)
  <2>1. Laid(out, m, C, <<>>, 0)
    BY <1>6
  <2> HIDE DEF fresh
  <2>2. \E s : /\ s[0] = fresh
               /\ \A k \in 1..m : s[k] = DecWhole(s[k - 1], C[k])
               /\ CryptRawCBC(fresh, out, Back) = Flush(s[m])
    BY <2>1, DecRounds
  <2>3. QED
    BY <2>2 DEF fresh
<1>11. PICK r : h[m] = Busy(C[m], p[m], C[m - 1], r) /\ Laid(r, m - 1, p, <<>>, 0)
  <2>1. m \in Nat /\ m # 0 /\ Deciphered(p, C, m)
    BY <1>1, <1>9
  <2>2. h[0] = Idle(ZeroBlock, y, w, <<>>) /\ \A k \in 1..m : h[k] = DecWhole(h[k - 1], C[k])
    BY <1>10
  <2>3. QED
    BY <2>1, <2>2, Decryption
<1> DEFINE f == Busy(C[m], p[m], C[m - 1], r \o p[m])
<1>12. f = CryptRawCBC(Idle(ZeroBlock, y, w, <<>>), out, Back)
  BY <1>10, <1>11, CtxFlushed
<1>13. r \o p[m] = in
  <2>1. Laid(r \o p[(m - 1) + 1], (m - 1) + 1, p, <<>>, 0)
    BY <1>1, <1>11, LaidBlock
  <2>2. Laid(r \o p[m], m, p, <<>>, 0) /\ Laid(in, m, p, <<>>, 0)
    BY <1>1, <2>1
  <2>3. QED
    BY <2>2, LaidUnique
<1>14. IsBytes(C[m - 1], BLOCK)
  <2>1. m = 1 \/ m - 1 \in 1..m
    BY <1>1
  <2>2. QED
    BY <1>5, <2>1, Zeroes
<1>15. in \in Seq(Byte)
  BY DEF Laid, IsBytes
<1>16. Context(f) /\ f.output = in
  <2>1. IsBytes(C[m], BLOCK) /\ IsBytes(p[m], BLOCK)
    BY <1>1, <1>5
  <2>2. f = Busy(C[m], p[m], C[m - 1], in)
    BY <1>13
  <2> HIDE DEF f
  <2>3. f.output = in
    BY <2>2, CtxFields
  <2>4. Context(f)
    BY <1>14, <1>15, <2>1, <2>2, CtxFields DEF Context
  <2>5. QED
    BY <2>3, <2>4
<1>17. QED
  BY <1>4, <1>7, <1>8, <1>12, <1>16

\* A text that ends with a rest: ciphertext stealing.
LEMMA RestText ==
    ASSUME NEW in, NEW m, NEW p, NEW q, NEW l, Laid(in, m, p, q, l), m # 0, l # 0,
           NEW x, NEW v, IsBytes(x, BLOCK), IsBytes(v, BLOCK),
           NEW y, NEW w, IsBytes(y, BLOCK), IsBytes(w, BLOCK)
    PROVE  \E e, f :
               /\ e = CryptRawCBC(Idle(ZeroBlock, x, v, <<>>), in, Forth)
               /\ Context(e) /\ IsBytes(e.output, 16 * m + l)
               /\ f = CryptRawCBC(Idle(ZeroBlock, y, w, <<>>), e.output, Back)
               /\ Context(f) /\ f.output = in
<1>1. /\ m \in Nat /\ m - 1 \in Nat /\ (m - 1) + 1 = m /\ m \in 1..m
      /\ IsBytes(q, l) /\ Len(q) = l /\ l < BLOCK
      /\ \A k \in 1..m : IsBytes(p[k], BLOCK)
  BY DEF Laid, IsBytes
<1>2. PICK g : /\ g[0] = Idle(ZeroBlock, x, v, <<>>)
               /\ \A k \in 1..m : g[k] = EncWhole(g[k - 1], p[k])
               /\ CryptRawCBC(Idle(ZeroBlock, x, v, <<>>), in, Forth) = Flush(EncRest(g[m], q))
  BY EncSteps
<1>3. PICK C, a, b, o : /\ Enciphered(C, p, m)
                        /\ g[m] = Busy(a, C[m], b, o)
                        /\ IsBytes(a, BLOCK) /\ IsBytes(b, BLOCK) /\ Laid(o, m - 1, C, <<>>, 0)
  <2>1. \A k \in 1..m : IsBytes(p[k], BLOCK)
    BY <1>1
  <2>2. g[0] = Idle(ZeroBlock, x, v, <<>>) /\ \A k \in 1..m : g[k] = EncWhole(g[k - 1], p[k])
    BY <1>2
  <2>3. m \in Nat
    BY <1>1
  <2>4. QED
    BY <2>1, <2>2, <2>3, Encryption
<1>4. /\ C[0] = ZeroBlock
      /\ \A k \in 1..m : IsBytes(C[k], BLOCK) /\ C[k] = Enc(XorSeq(p[k], C[k - 1]))
  BY <1>3 DEF Enciphered
<1>5. \A k \in 1..m : IsBytes(C[k - 1], BLOCK)
  <2> TAKE k \in 1..m
  <2>1. k = 1 \/ k - 1 \in 1..m
    BY <1>1
  <2>2. QED
    BY <1>4, <2>1, Zeroes
<1>6. PICK pn : Is(pn, XorSeq(FilledUp(q, ZeroBlock), C[m]))
  BY DEF Is
<1> DEFINE r == SubSeq(C[m], 1, l)
<1>7. /\ IsBytes(pn, BLOCK) /\ IsBytes(r, l) /\ FilledUp(r, pn) = C[m]
      /\ XorSeq(r, SubSeq(pn, 1, l)) = q
  <2>1. IsBytes(C[m], BLOCK)
    BY <1>1, <1>4
  <2>2. QED
    BY <1>1, <1>6, <2>1, Stealing
<1>8. IsBytes(Enc(pn), BLOCK) /\ Dec(Enc(pn)) = pn
  BY <1>7, EncDec
<1> DEFINE D   == [k \in 0..m |-> IF k = m THEN Enc(pn) ELSE C[k]]
           out == (o \o Enc(pn)) \o r
           e   == Idle(pn, Enc(pn), a, out)
<1>9. EncRest(g[m], q) = e
  <2>1. EncRest(g[m], q)
            = Idle(XorSeq(FilledUp(q, ZeroBlock), C[m]), Enc(XorSeq(FilledUp(q, ZeroBlock), C[m])), a,
                   (o \o Enc(XorSeq(FilledUp(q, ZeroBlock), C[m]))) \o SubSeq(C[m], 1, Len(q)))
    BY <1>3, EncRests
  <2>2. QED
    BY <1>1, <1>6, <2>1 DEF Is
<1>10. e = CryptRawCBC(Idle(ZeroBlock, x, v, <<>>), in, Forth)
  BY <1>2, <1>9, CtxFlushed
<1>11. /\ D[0] = ZeroBlock /\ D[m] = Enc(pn)
       /\ \A k \in 1..m : k # m => D[k] = C[k]
       /\ \A k \in 1..m : D[k - 1] = C[k - 1]
  BY <1>1, <1>4
<1> HIDE DEF D, r
<1>12. Laid(out, m, D, r, l)
  <2>1. \A k \in 1..(m - 1) : D[k] = C[k]
    BY <1>1, <1>11
  <2>2. Laid(o, m - 1, D, <<>>, 0)
    BY <1>3, <2>1, LaidSame
  <2>3. IsBytes(D[(m - 1) + 1], BLOCK)
    BY <1>1, <1>8, <1>11
  <2>4. Laid(o \o D[(m - 1) + 1], (m - 1) + 1, D, <<>>, 0)
    BY <2>2, <2>3, LaidBlock
  <2>5. Laid(o \o Enc(pn), m, D, <<>>, 0)
    BY <1>1, <1>11, <2>4
  <2>6. QED
    BY <1>1, <1>7, <2>5, LaidRest
<1> HIDE DEF out
<1>13. IsBytes(out, 16 * m + l) /\ out \in Seq(Byte)
  <2>1. IsBytes(out, 16 * m + l)
    BY <1>12 DEF Laid
  <2>2. QED
    BY <2>1 DEF IsBytes
<1>14. Context(e) /\ e.output = out
  BY <1>3, <1>7, <1>8, <1>13, IdleContext
<1> HIDE DEF e
<1> DEFINE R == [k \in 1..m |-> IF k = m THEN XorSeq(pn, C[m - 1]) ELSE p[k]]
<1>15. R[m] = XorSeq(pn, C[m - 1]) /\ \A k \in 1..m : k # m => R[k] = p[k]
  BY <1>1
<1> HIDE DEF R
<1>16. Deciphered(R, D, m)
  <2>1. ASSUME NEW k \in 1..m
        PROVE  /\ IsBytes(D[k], BLOCK) /\ IsBytes(Dec(D[k]), BLOCK) /\ IsBytes(R[k], BLOCK)
               /\ R[k] = XorSeq(Dec(D[k]), D[k - 1])
    <3>1. CASE k = m
      <4>1. D[k] = Enc(pn) /\ Dec(D[k]) = pn /\ D[k - 1] = C[m - 1] /\ IsBytes(C[m - 1], BLOCK)
        BY <1>5, <1>8, <1>11, <3>1
      <4>2. IsBytes(XorSeq(pn, C[m - 1]), BLOCK)
        BY <1>7, <4>1, XorSeqs
      <4>3. QED
        BY <1>7, <1>8, <1>15, <3>1, <4>1, <4>2
    <3>2. CASE k # m
      <4>1. IsBytes(p[k], BLOCK) /\ IsBytes(C[k - 1], BLOCK) /\ C[k] = Enc(XorSeq(p[k], C[k - 1]))
        BY <1>1, <1>4, <1>5
      <4>2. IsBytes(C[k], BLOCK) /\ IsBytes(Dec(C[k]), BLOCK) /\ XorSeq(Dec(C[k]), C[k - 1]) = p[k]
        BY <4>1, ChainedBack
      <4>3. QED
        BY <1>11, <1>15, <3>2, <4>1, <4>2
    <3>3. QED
      BY <3>1, <3>2
  <2>2. QED
    BY <1>11, <2>1 DEF Deciphered
<1>17. PICK h : /\ h[0] = Idle(ZeroBlock, y, w, <<>>)
                /\ \A k \in 1..m : h[k] = DecWhole(h[k - 1], D[k])
                /\ CryptRawCBC(Idle(ZeroBlock, y, w, <<>>), out, Back) = Flush(DecRest(h[m], r))
  BY <1>12, DecSteps
<1>18. PICK s : h[m] = Busy(D[m], R[m], D[m - 1], s) /\ Laid(s, m - 1, R, <<>>, 0)
  BY <1>1, <1>16, <1>17, Decryption
<1> DEFINE f == Idle(C[m], p[m], D[m], (s \o p[m]) \o q)
<1>19. DecRest(h[m], r) = f
  <2>1. Dec(D[m]) = pn /\ D[m - 1] = C[m - 1] /\ Len(r) = l
    BY <1>1, <1>7, <1>8, <1>11 DEF IsBytes
  <2>2. FilledUp(r, Dec(D[m])) = C[m] /\ XorSeq(r, SubSeq(Dec(D[m]), 1, Len(r))) = q
    BY <1>7, <2>1
  <2>3. XorSeq(Dec(FilledUp(r, Dec(D[m]))), D[m - 1]) = p[m]
    <3>1. IsBytes(p[m], BLOCK) /\ IsBytes(C[m - 1], BLOCK) /\ C[m] = Enc(XorSeq(p[m], C[m - 1]))
      BY <1>1, <1>4, <1>5
    <3>2. XorSeq(Dec(C[m]), C[m - 1]) = p[m]
      BY <3>1, ChainedBack
    <3>3. QED
      BY <2>1, <2>2, <3>2
  <2> DEFINE t == Dec(D[m])
             z == XorSeq(Dec(FilledUp(r, t)), D[m - 1])
  <2>4. DecRest(h[m], r)
            = Idle(FilledUp(r, t), z, D[m], (s \o z) \o XorSeq(r, SubSeq(t, 1, Len(r))))
    BY <1>18, DecRests
  <2>5. QED
    BY <2>2, <2>3, <2>4
<1>20. f = CryptRawCBC(Idle(ZeroBlock, y, w, <<>>), out, Back)
  BY <1>17, <1>19, CtxFlushed
<1>21. (s \o p[m]) \o q = in
  <2>1. \A k \in 1..(m - 1) : p[k] = R[k]
    BY <1>1, <1>15
  <2>2. Laid(s, m - 1, p, <<>>, 0)
    BY <1>18, <2>1, LaidSame
  <2>3. IsBytes(p[(m - 1) + 1], BLOCK)
    BY <1>1
  <2>4. Laid(s \o p[(m - 1) + 1], (m - 1) + 1, p, <<>>, 0)
    BY <2>2, <2>3, LaidBlock
  <2>5. Laid(s \o p[m], m, p, <<>>, 0)
    BY <1>1, <2>4
  <2>6. Laid((s \o p[m]) \o q, m, p, q, l)
    BY <1>1, <2>5, LaidRest
  <2>7. QED
    BY <2>6, LaidUnique
<1>22. in \in Seq(Byte) /\ IsBytes(C[m], BLOCK) /\ IsBytes(p[m], BLOCK) /\ IsBytes(D[m], BLOCK)
  BY <1>1, <1>4, <1>8, <1>11 DEF Laid, IsBytes
<1>23. Context(f) /\ f.output = in
  <2>1. f = Idle(C[m], p[m], D[m], in)
    BY <1>21
  <2> HIDE DEF f
  <2>2. Context(f)
    BY <1>22, <2>1 DEF Context
  <2>3. QED
    BY <2>1, <2>2, CtxFields
<1> HIDE DEF f
<1>24. QED
  BY <1>10, <1>13, <1>14, <1>20, <1>23

\* More than a block goes through the chain.
LEMMA MoreThanBlock ==
    ASSUME NEW n \in Nat, n > BLOCK, NEW in, Len(in) = n, NEW c, NEW decrypt
    PROVE  CryptRaw(c, in, decrypt) = CryptRawCBC(ResetCBC(c), in, decrypt)
<1>1. n # 0
  BY DEF BLOCK
<1>2. CryptRaw(c, in, decrypt)
          = IF n = 0 THEN ResetCBC(c)
            ELSE IF n > BLOCK THEN CryptRawCBC(ResetCBC(c), in, decrypt)
            ELSE CryptRaw16(ResetCBC(c), in, decrypt)
  BY Zenon DEF CryptRaw
<1>3. QED
  BY <1>1, <1>2, Zenon

\* TwoFishDecryptRaw undoes TwoFishEncryptRaw, for texts of any length of more
\* than a block, whatever the contexts on both sides have seen before: also when
\* the last block is filled up with ciphertext stolen from the one before it
\* (twofish.c).
THEOREM CryptBack ==
    ASSUME NEW in, NEW n, IsBytes(in, n), n > BLOCK, NEW c, Context(c), NEW d, Context(d)
    PROVE  \E e, f : /\ e = CryptRaw(c, in, Forth) /\ Context(e) /\ IsBytes(e.output, n)
                     /\ f = CryptRaw(d, e.output, Back) /\ Context(f) /\ f.output = in
<1>1. PICK m, p, q, l : Laid(in, m, p, q, l) /\ n = 16 * m + l
  BY LaidExists
<1>2. m \in Nat /\ l \in Nat /\ l < 16 /\ n \in Nat /\ Len(in) = n /\ m # 0 /\ n > 16
  BY <1>1 DEF Laid, IsBytes, BLOCK
<1>3. PICK x, v : IsBytes(x, BLOCK) /\ IsBytes(v, BLOCK) /\ ResetCBC(c) = Idle(ZeroBlock, x, v, <<>>)
  BY CtxReset DEF Context
<1>4. PICK y, w : IsBytes(y, BLOCK) /\ IsBytes(w, BLOCK) /\ ResetCBC(d) = Idle(ZeroBlock, y, w, <<>>)
  BY CtxReset DEF Context
<1>5. PICK e, f : /\ e = CryptRawCBC(Idle(ZeroBlock, x, v, <<>>), in, Forth)
                  /\ Context(e) /\ IsBytes(e.output, n)
                  /\ f = CryptRawCBC(Idle(ZeroBlock, y, w, <<>>), e.output, Back)
                  /\ Context(f) /\ f.output = in
  <2>1. CASE l = 0
    <3>1. Laid(in, m, p, q, 0) /\ n = 16 * m
      BY <1>1, <1>2, <2>1
    <3>2. QED
      BY <1>2, <1>3, <1>4, <3>1, WholeText
  <2>2. CASE l # 0
    BY <1>1, <1>2, <1>3, <1>4, <2>2, RestText
  <2>3. QED
    BY <2>1, <2>2
<1>6. Len(e.output) = n
  BY <1>5 DEF IsBytes
<1>7. CryptRaw(c, in, Forth) = e
  <2>1. CryptRaw(c, in, Forth) = CryptRawCBC(ResetCBC(c), in, Forth)
    BY <1>2, MoreThanBlock
  <2>2. QED
    BY <1>3, <1>5, <2>1
<1>8. CryptRaw(d, e.output, Back) = f
  <2> DEFINE out == e.output
  <2>1. Len(out) = n
    BY <1>6
  <2> HIDE DEF out
  <2>2. CryptRaw(d, out, Back) = CryptRawCBC(ResetCBC(d), out, Back)
    BY <1>2, <2>1, MoreThanBlock
  <2>3. CryptRaw(d, out, Back) = f
    BY <1>4, <1>5, <2>2 DEF out
  <2>4. QED
    BY <2>3 DEF out
<1>9. QED
  BY <1>5, <1>7, <1>8

---------------------------------------------------------------------------
(* AES in a chain.                                                         *)

\* AES, of the OpenSSL library, inverts itself on a block.
AesInverts ==
    \A b : IsBytes(b, BLOCK) => IsBytes(AesEncrypt(b), BLOCK) /\ AesDecrypt(AesEncrypt(b)) = b

\* The blocks one after the other.
LEMMA AesEncryptFold ==
    ASSUME NEW in, NEW ivec, NEW n \in Nat, DOMAIN BlocksOf(in) = 1..n
    PROVE  \E g : Folds("aes", Forth, <<<<>>, ivec>>, BlocksOf(in), n, g) /\ CbcEncrypt(in, ivec) = g[n]
<1> DEFINE s == BlocksOf(in)
           Value(g, S) ==
              IF S = {} THEN <<<<>>, ivec>>
              ELSE LET c == AesEncrypt(XorSeq(s[Max(S)], g[S \ {Max(S)}][2]))
                   IN  <<g[S \ {Max(S)}][1] \o c, c>>
<1>1. \A g, S : FoldValue("aes", Forth, <<<<>>, ivec>>, s, g, S) = Value(g, S)
  BY DEF FoldValue, Step, CipherStep, Forth
<1>2. \E g : g = [S \in SUBSET (1..n) |-> Value(g, S)]
  <2> HIDE DEF Value, s
  <2>1. PICK g : FoldsUpTo("aes", Forth, <<<<>>, ivec>>, s, g, n)
    BY FoldExists
  <2>2. g = [S \in SUBSET (1..n) |-> FoldValue("aes", Forth, <<<<>>, ivec>>, s, g, S)]
    BY <2>1 DEF FoldsUpTo
  <2>3. g = [S \in SUBSET (1..n) |-> Value(g, S)]
    BY <1>1, <2>2
  <2>4. QED
    BY <2>3
<1> DEFINE iter == CHOOSE g : g = [S \in SUBSET (1..n) |-> Value(g, S)]
<1>3. iter = [S \in SUBSET (1..n) |-> Value(iter, S)]
  <2> HIDE DEF Value
  <2>1. QED
    BY <1>2
<1>4. CbcEncrypt(in, ivec) = iter[1..n]
  BY DEF CbcEncrypt, FoldLeft, MapThenFoldSet
<1> HIDE DEF iter, Value, s
<1>5. FoldsUpTo("aes", Forth, <<<<>>, ivec>>, s, iter, n)
  BY <1>1, <1>3 DEF FoldsUpTo
<1>6. \E g : Folds("aes", Forth, <<<<>>, ivec>>, s, n, g) /\ g[n] = iter[1..n]
  BY <1>5, FoldIsSequence
<1>7. QED
  BY <1>4, <1>6 DEF s

LEMMA AesDecryptFold ==
    ASSUME NEW in, NEW ivec, NEW n \in Nat, DOMAIN BlocksOf(in) = 1..n
    PROVE  \E g : Folds("aes", Back, <<<<>>, ivec>>, BlocksOf(in), n, g) /\ CbcDecrypt(in, ivec) = g[n]
<1> DEFINE s == BlocksOf(in)
           Value(g, S) ==
              IF S = {} THEN <<<<>>, ivec>>
              ELSE <<g[S \ {Max(S)}][1] \o XorSeq(AesDecrypt(s[Max(S)]), g[S \ {Max(S)}][2]), s[Max(S)]>>
<1>1. \A g, S : FoldValue("aes", Back, <<<<>>, ivec>>, s, g, S) = Value(g, S)
  BY DEF FoldValue, Step, CipherStep, Back
<1>2. \E g : g = [S \in SUBSET (1..n) |-> Value(g, S)]
  <2> HIDE DEF Value, s
  <2>1. PICK g : FoldsUpTo("aes", Back, <<<<>>, ivec>>, s, g, n)
    BY FoldExists
  <2>2. g = [S \in SUBSET (1..n) |-> FoldValue("aes", Back, <<<<>>, ivec>>, s, g, S)]
    BY <2>1 DEF FoldsUpTo
  <2>3. g = [S \in SUBSET (1..n) |-> Value(g, S)]
    BY <1>1, <2>2
  <2>4. QED
    BY <2>3
<1> DEFINE iter == CHOOSE g : g = [S \in SUBSET (1..n) |-> Value(g, S)]
<1>3. iter = [S \in SUBSET (1..n) |-> Value(iter, S)]
  <2> HIDE DEF Value
  <2>1. QED
    BY <1>2
<1>4. CbcDecrypt(in, ivec) = iter[1..n]
  BY DEF CbcDecrypt, FoldLeft, MapThenFoldSet
<1> HIDE DEF iter, Value, s
<1>5. FoldsUpTo("aes", Back, <<<<>>, ivec>>, s, iter, n)
  BY <1>1, <1>3 DEF FoldsUpTo
<1>6. \E g : Folds("aes", Back, <<<<>>, ivec>>, s, n, g) /\ g[n] = iter[1..n]
  BY <1>5, FoldIsSequence
<1>7. QED
  BY <1>4, <1>6 DEF s

\* The blocks C[1..m] of ciphertext, with the vector before them, and the output.
AesChain(C, o, in, m, p, ivec) ==
    /\ CbcEncrypt(in, ivec) = <<o, C[m]>>
    /\ C[0] = ivec /\ \A k \in 0..m : IsBytes(C[k], BLOCK)
    /\ \A k \in 1..m : C[k] = AesEncrypt(XorSeq(p[k], C[k - 1]))
    /\ Laid(o, m, C, <<>>, 0)

\* The blocks of ciphertext, and of plaintext.
LEMMA AesEncryption ==
    ASSUME AesInverts, NEW in, NEW m, NEW p, Laid(in, m, p, <<>>, 0), NEW ivec, IsBytes(ivec, BLOCK)
    PROVE  \E C, o : AesChain(C, o, in, m, p, ivec)
<1> DEFINE s == BlocksOf(in)
<1>1. m \in Nat /\ \A k \in 1..m : IsBytes(p[k], BLOCK)
  BY DEF Laid
<1>2. DOMAIN s = 1..m /\ \A k \in 1..m : s[k] = p[k]
  BY LaidBlocks
<1>3. PICK g : Folds("aes", Forth, <<<<>>, ivec>>, s, m, g) /\ CbcEncrypt(in, ivec) = g[m]
  BY <1>1, <1>2, AesEncryptFold
<1> HIDE DEF s
<1> DEFINE C == [k \in 0..m |-> g[k][2]]
           O(k) == g[k][1]
           T == {k \in Nat : k <= m => /\ g[k] = <<O(k), C[k]>> /\ IsBytes(C[k], BLOCK)
                                       /\ Laid(O(k), k, C, <<>>, 0)}
<1>4. g[0] = <<<<>>, ivec>> /\ \A k \in 1..m : g[k] = Step("aes", Forth, g[k - 1], p[k])
  BY <1>2, <1>3 DEF Folds
<1>5. \A k \in 0..m : C[k] = g[k][2]
  OBVIOUS
<1>6. C[0] = ivec
  BY <1>1, <1>4
<1> HIDE DEF C
<1>7. ASSUME NEW k \in 1..m
      PROVE  LET c == AesEncrypt(XorSeq(p[k], C[k - 1]))
             IN  g[k] = <<O(k - 1) \o c, c>> /\ C[k] = c
  <2>1. g[k] = Step("aes", Forth, g[k - 1], p[k])
    BY <1>4
  <2>2. k - 1 \in 0..m /\ k \in 0..m
    BY <1>1
  <2>3. g[k - 1][2] = C[k - 1]
    BY <1>5, <2>2
  <2> DEFINE c == AesEncrypt(XorSeq(p[k], C[k - 1]))
  <2>4. g[k] = <<g[k - 1][1] \o c, c>>
    BY <2>1, <2>3 DEF Step, CipherStep, Forth
  <2> HIDE DEF c
  <2>5. C[k] = c
    BY <1>5, <2>2, <2>4
  <2>6. QED
    BY <2>4, <2>5 DEF c
<1>8. 0 \in T
  <2>1. Laid(<<>>, 0, C, <<>>, 0)
    BY LaidNothing
  <2>2. O(0) = <<>> /\ g[0] = <<O(0), C[0]>>
    BY <1>4, <1>6
  <2>3. QED
    BY <1>6, <2>1, <2>2
<1>9. ASSUME NEW k \in Nat, k \in T PROVE k + 1 \in T
  <2> SUFFICES ASSUME k + 1 <= m
               PROVE  /\ g[k + 1] = <<O(k + 1), C[k + 1]>> /\ IsBytes(C[k + 1], BLOCK)
                      /\ Laid(O(k + 1), k + 1, C, <<>>, 0)
    OBVIOUS
  <2>1. k + 1 \in 1..m /\ (k + 1) - 1 = k /\ k <= m
    BY <1>1
  <2>2. IsBytes(C[k], BLOCK) /\ Laid(O(k), k, C, <<>>, 0)
    BY <1>9, <2>1
  <2> DEFINE x == XorSeq(p[k + 1], C[k])
             c == AesEncrypt(x)
  <2>3. g[k + 1] = <<O(k) \o c, c>> /\ C[k + 1] = c
    BY <1>7, <2>1
  <2>4. IsBytes(x, BLOCK)
    BY <1>1, <2>1, <2>2, XorSeqs
  <2> HIDE DEF x, O
  <2>5. IsBytes(c, BLOCK)
    BY <2>4 DEF AesInverts
  <2> HIDE DEF c
  <2>6. O(k + 1) = O(k) \o C[k + 1]
    BY <2>3 DEF O
  <2>7. Laid(O(k) \o C[k + 1], k + 1, C, <<>>, 0)
    BY <2>2, <2>3, <2>5, LaidBlock
  <2>8. QED
    BY <2>3, <2>5, <2>6, <2>7
<1>10. \A k \in Nat : k \in T
  <2> HIDE DEF T
  <2>1. QED
    BY <1>8, <1>9, SetInduction
<1> HIDE DEF O
<1>11. /\ g[m] = <<O(m), C[m]>> /\ Laid(O(m), m, C, <<>>, 0)
       /\ \A k \in 0..m : IsBytes(C[k], BLOCK)
  BY <1>1, <1>10
<1>12. AesChain(C, O(m), in, m, p, ivec)
  BY <1>3, <1>6, <1>7, <1>11 DEF AesChain
<1>13. QED
  BY <1>12

LEMMA AesDecryption ==
    ASSUME NEW in, NEW m, NEW D, Laid(in, m, D, <<>>, 0), NEW ivec,
           NEW R, \A k \in 1..m : IsBytes(R[k], BLOCK),
           \A k \in 1..m : R[k] = XorSeq(AesDecrypt(D[k]), IF k = 1 THEN ivec ELSE D[k - 1])
    PROVE  \E o, v : CbcDecrypt(in, ivec) = <<o, v>> /\ Laid(o, m, R, <<>>, 0) /\ (m # 0 => v = D[m])
<1> DEFINE s == BlocksOf(in)
           Vector(k) == IF k = 0 THEN ivec ELSE D[k]
<1>1. m \in Nat
  BY DEF Laid
<1>2. DOMAIN s = 1..m /\ \A k \in 1..m : s[k] = D[k]
  BY LaidBlocks
<1>3. PICK h : Folds("aes", Back, <<<<>>, ivec>>, s, m, h) /\ CbcDecrypt(in, ivec) = h[m]
  BY <1>1, <1>2, AesDecryptFold
<1> HIDE DEF s
<1>4. h[0] = <<<<>>, ivec>> /\ \A k \in 1..m : h[k] = Step("aes", Back, h[k - 1], D[k])
  BY <1>2, <1>3 DEF Folds
<1> DEFINE T == {k \in Nat : k <= m => \E o : h[k] = <<o, Vector(k)>> /\ Laid(o, k, R, <<>>, 0)}
<1>5. 0 \in T
  BY <1>4, LaidNothing
<1>6. ASSUME NEW k \in Nat, k \in T PROVE k + 1 \in T
  <2> SUFFICES ASSUME k + 1 <= m
               PROVE  \E o : h[k + 1] = <<o, Vector(k + 1)>> /\ Laid(o, k + 1, R, <<>>, 0)
    OBVIOUS
  <2>1. k + 1 \in 1..m /\ (k + 1) - 1 = k /\ k <= m /\ k + 1 # 0
    BY <1>1
  <2>2. PICK o : h[k] = <<o, Vector(k)>> /\ Laid(o, k, R, <<>>, 0)
    BY <1>6, <2>1
  <2>3. h[k + 1] = Step("aes", Back, h[k], D[k + 1])
    BY <1>4, <2>1
  <2>4. (IF k + 1 = 1 THEN ivec ELSE D[(k + 1) - 1]) = Vector(k)
    BY <2>1
  <2>5. R[k + 1] = XorSeq(AesDecrypt(D[k + 1]), Vector(k))
    BY <2>1, <2>4
  <2>6. Vector(k + 1) = D[k + 1]
    BY <2>1
  <2> HIDE DEF Last
  <2>7. h[k + 1] = <<o \o R[k + 1], D[k + 1]>>
    BY <2>2, <2>3, <2>5 DEF Step, CipherStep, Back
  <2>8. Laid(o \o R[k + 1], k + 1, R, <<>>, 0)
    BY <2>1, <2>2, LaidBlock
  <2>9. QED
    BY <2>6, <2>7, <2>8
<1>7. \A k \in Nat : k \in T
  <2> HIDE DEF T
  <2>1. QED
    BY <1>5, <1>6, SetInduction
<1>8. PICK o : h[m] = <<o, Vector(m)>> /\ Laid(o, m, R, <<>>, 0)
  BY <1>1, <1>7
<1>9. QED
  BY <1>3, <1>8

---------------------------------------------------------------------------
(* Transforms.                                                             *)

Success(out, ctx) == Result(TRUE, out, ctx)

\* Results of a transform.
LEMMA Results ==
    ASSUME NEW o, NEW c
    PROVE  /\ Success(o, c).ok /\ Success(o, c).out = o /\ Success(o, c).ctx = c
           /\ ~Failed(c).ok /\ Failed(c).out = <<>> /\ Failed(c).ctx = c
BY DEF Success, Failed, Result

\* The state of the ciphers between two packets.
Resting(c) == Context(c) /\ c.output = <<>>
Entry(t, v) == [tf |-> t, ivec |-> v]
Cipher(s) == \E t, v : s = Entry(t, v) /\ Resting(t) /\ IsBytes(v, BLOCK)

\* The entry of a table, and what a transform leaves of it.
LEMMA EntryFields ==
    ASSUME NEW t, NEW v, NEW c
    PROVE  /\ Entry(t, v).tf = t /\ Entry(t, v).ivec = v
           /\ [Entry(t, v) EXCEPT !.tf = c] = Entry(c, v)
           /\ [Entry(t, v) EXCEPT !.ivec = c] = Entry(t, c)
BY DEF Entry

LEMMA Kept ==
    ASSUME NEW t, NEW v, NEW o, NEW c
    PROVE  /\ InTf(Entry(t, v), Success(o, c)) = Success(o, Entry(c, v))
           /\ InIvec(Entry(t, v), Success(o, c)) = Success(o, Entry(t, c))
<1> DEFINE s == Entry(t, v)
<1>1. [s EXCEPT !.tf = c] = Entry(c, v) /\ [s EXCEPT !.ivec = c] = Entry(t, c)
  BY EntryFields
<1> HIDE DEF s
<1>2. QED
  BY <1>1 DEF InTf, InIvec, Success, Result, s

LEMMA Left ==
    ASSUME NEW t, NEW v, NEW c
    PROVE  /\ InTf(Entry(t, v), Failed(c)) = Failed(Entry(c, v))
           /\ InIvec(Entry(t, v), Failed(c)) = Failed(Entry(t, c))
<1> DEFINE s == Entry(t, v)
<1>1. [s EXCEPT !.tf = c] = Entry(c, v) /\ [s EXCEPT !.ivec = c] = Entry(t, c)
  BY EntryFields
<1> HIDE DEF s
<1>2. QED
  BY <1>1 DEF InTf, InIvec, Failed, Result, s

\* The version and the number of the key, which every packet begins with.
LEMMA HeaderBytes == IsBytes(Header, OVERHEAD)
<1>1. SA \in [1..4 -> Byte] /\ 4 \in Nat
  BY TransformsAssumption
<1>2. IsBytes(SA, 4)
  BY <1>1, BytesFunction
<1>3. 1 \in Byte /\ 1 \in Nat
  BY DEF Byte
<1>4. <<1>> \in Seq(Byte) /\ Len(<<1>>) = 1
  BY <1>3
<1>5. IsBytes(<<1>>, 1)
  BY <1>3, <1>4 DEF IsBytes
<1>6. IsBytes(<<1>> \o SA, 1 + 4)
  BY <1>2, <1>5, ConcatBytes
<1>7. QED
  BY <1>6 DEF Header, OVERHEAD

\* A packet with both, and long enough, is decodable.
LEMMA Decodable ==
    ASSUME NEW n, NEW body, IsBytes(body, n), n >= NONCE, n <= PktBuf
    PROVE  LET in == Header \o body
           IN  /\ in \in Seq(Byte) /\ ~Undecodable(in)
               /\ SubSeq(in, OVERHEAD + 1, Len(in)) = body
<1> DEFINE in == Header \o body
<1>0. OVERHEAD \in Nat /\ NONCE \in Nat /\ n \in Nat /\ PktBuf \in Nat
  BY WireAssumption DEF OVERHEAD, NONCE, IsBytes
<1>1. Header \in Seq(Byte) /\ Len(Header) = OVERHEAD /\ body \in Seq(Byte) /\ Len(body) = n
  BY HeaderBytes DEF IsBytes
<1>2. IsBytes(in, OVERHEAD + n)
  BY HeaderBytes, ConcatBytes
<1>3. At(in, OVERHEAD, body)
  BY <1>1, AtEnd
<1>4. At(Header, 0, Header)
  BY HeaderBytes, WholeAt
<1>5. At(in, 0, Header)
  BY <1>1, <1>4, AtLonger
<1> HIDE DEF in
<1>6. in \in Seq(Byte) /\ Len(in) = OVERHEAD + n
  BY <1>2 DEF IsBytes
<1>7. SubSeq(in, OVERHEAD + 1, OVERHEAD + n) = body
  BY <1>3, PartIs
<1>8. SubSeq(in, 1, OVERHEAD) = Header
  <2>1. SubSeq(in, 0 + 1, 0 + OVERHEAD) = Header
    BY <1>5, HeaderBytes, PartIs
  <2>2. 0 + 1 = 1 /\ 0 + OVERHEAD = OVERHEAD
    BY <1>0
  <2>3. QED
    BY <2>1, <2>2
<1>9. ~(Len(in) < OVERHEAD + NONCE) /\ ~(Len(in) - OVERHEAD > PktBuf)
  BY <1>0, <1>6
<1>10. ~Undecodable(in)
  BY <1>8, <1>9 DEF Undecodable
<1>11. QED
  BY <1>6, <1>7, <1>10 DEF in

\* What is behind the nonce.
LEMMA AfterNonce ==
    ASSUME NEW nonce, IsBytes(nonce, NONCE), NEW frame, NEW n, IsBytes(frame, n)
    PROVE  LET text == nonce \o frame
           IN  /\ IsBytes(text, NONCE + n)
               /\ SubSeq(text, NONCE + 1, Len(text)) = frame
               /\ \A i \in 1..n : text[NONCE + i] = frame[i]
<1> DEFINE text == nonce \o frame
<1>1. /\ nonce \in Seq(Byte) /\ Len(nonce) = NONCE /\ NONCE \in Nat
      /\ frame \in Seq(Byte) /\ Len(frame) = n /\ n \in Nat
  BY DEF IsBytes
<1>2. IsBytes(text, NONCE + n)
  BY ConcatBytes
<1>3. At(text, NONCE, frame)
  BY <1>1, AtEnd
<1> HIDE DEF text
<1>4. Len(text) = NONCE + n
  BY <1>2 DEF IsBytes
<1>5. SubSeq(text, NONCE + 1, NONCE + n) = frame
  BY <1>3, PartIs
<1>6. \A i \in 1..n : text[NONCE + i] = frame[i]
  BY <1>1, <1>3 DEF At
<1>7. QED
  BY <1>2, <1>4, <1>5, <1>6 DEF text

\* The frame comes out of the transform as it went in, but for the two MACs
\* with AES.
SameFrame(transform, got, frame) ==
    /\ Len(got) = Len(frame)
    /\ \A i \in DOMAIN frame : got[i] = frame[i] \/ (transform = TRANSFORM.AESCBC /\ i <= 12)

\* A context that gave its output away.
LEMMA EmptiedRests ==
    ASSUME NEW c, Context(c)
    PROVE  Resting(Emptied(c))
<1>1. PICK p, y, v, w : /\ IsBytes(p, BLOCK) /\ IsBytes(y, BLOCK) /\ IsBytes(v, BLOCK)
                        /\ c = Busy(p, y, v, w) \/ c = Idle(p, y, v, w)
  BY DEF Context
<1>2. Emptied(c) = Busy(p, y, v, <<>>) \/ Emptied(c) = Idle(p, y, v, <<>>)
  BY <1>1, CtxEmptied
<1>3. <<>> \in Seq(Byte)
  OBVIOUS
<1>4. Context(Emptied(c))
  BY <1>1, <1>2, <1>3 DEF Context
<1>5. Emptied(c).output = <<>>
  BY <1>2, CtxFields
<1>6. QED
  BY <1>4, <1>5 DEF Resting

\* What transop_encode_twofish makes of a frame, with nine bytes before it,
\* transop_decode_twofish turns back into that frame, in whatever state both
\* ciphers are; it fails only when the buffers do not hold those bytes
\* (transform_tf.c).
THEOREM TwofishThere ==
    ASSUME NEW c, Resting(c), NEW frame, NEW n, IsBytes(frame, n), n >= 14,
           NEW nonce, IsBytes(nonce, NONCE), NEW room
    PROVE  \/ ~Fits(frame, room) /\ EncodeTwofish(c, frame, nonce, room) = Failed(c)
           \/ \E o, e : /\ EncodeTwofish(c, frame, nonce, room) = Success(o, e)
                        /\ IsBytes(o, OVERHEAD + NONCE + n) /\ Resting(e)
                        /\ \A d : Resting(d) =>
                               \E f : DecodeTwofish(d, o) = Success(frame, f) /\ Resting(f)
<1>1. CASE ~Fits(frame, room)
  BY <1>1 DEF EncodeTwofish
<1>2. CASE Fits(frame, room)
  <2> DEFINE text == nonce \o frame
  <2>1. IsBytes(text, NONCE + n) /\ SubSeq(text, NONCE + 1, Len(text)) = frame
    BY AfterNonce
  <2>2. n \in Nat /\ NONCE + n > BLOCK /\ NONCE + n >= NONCE /\ NONCE + n <= PktBuf
    <3>1. n \in Nat /\ Len(frame) = n
      BY DEF IsBytes
    <3>2. n + NONCE <= PktBuf
      BY <1>2, <3>1 DEF Fits
    <3>3. QED
      BY <3>1, <3>2, WireAssumption DEF NONCE, BLOCK
  <2> HIDE DEF text
  <2> DEFINE e == CryptRaw(c, text, Forth)
             o == Header \o e.output
  <2>3. Context(c)
    BY DEF Resting
  <2>4. Context(e) /\ IsBytes(e.output, NONCE + n)
    BY <2>1, <2>2, <2>3, CryptBack
  <2>5. EncodeTwofish(c, frame, nonce, room) = Success(o, Emptied(e))
    BY <1>2 DEF EncodeTwofish, Packet, Success, Forth, text
  <2>6. \A x : Context(x) => Resting(Emptied(x))
    BY EmptiedRests
  <2>7. /\ IsBytes(o, OVERHEAD + NONCE + n) /\ ~Undecodable(o)
        /\ SubSeq(o, OVERHEAD + 1, Len(o)) = e.output
    <3> HIDE DEF e
    <3>1. ~Undecodable(o) /\ SubSeq(o, OVERHEAD + 1, Len(o)) = e.output
      BY <2>2, <2>4, Decodable
    <3>2. IsBytes(o, OVERHEAD + (NONCE + n))
      BY <2>4, HeaderBytes, ConcatBytes
    <3>3. OVERHEAD + (NONCE + n) = OVERHEAD + NONCE + n
      BY <2>2 DEF OVERHEAD, NONCE
    <3>4. QED
      BY <3>1, <3>2, <3>3
  <2>8. ASSUME NEW d, Resting(d) PROVE \E f : DecodeTwofish(d, o) = Success(frame, f) /\ Resting(f)
    <3>1. Context(d)
      BY <2>8 DEF Resting
    <3>2. PICK f : f = CryptRaw(d, e.output, Back) /\ Context(f) /\ f.output = text
      BY <2>1, <2>2, <2>3, <3>1, CryptBack
    <3> HIDE DEF e, o
    <3>3. DecodeTwofish(d, o) = FrameOf(CryptRaw(d, e.output, Back))
      BY <2>7 DEF DecodeTwofish, Back
    <3>4. FrameOf(f) = Success(frame, Emptied(f))
      BY <2>1, <3>2 DEF FrameOf, Success
    <3>5. QED
      BY <2>6, <3>2, <3>3, <3>4
  <2> HIDE DEF e, o
  <2>9. QED
    BY <2>4, <2>5, <2>6, <2>7, <2>8
<1>3. QED
  BY <1>1, <1>2

\* Zeroes.
LEMMA ZerosBytes ==
    ASSUME NEW n \in Nat
    PROVE  IsBytes(Zeros(n), n)
<1>1. 0 \in Byte
  BY DEF Byte
<1>2. Zeros(n) \in [1..n -> Byte]
  BY <1>1 DEF Zeros
<1>3. QED
  BY <1>2, BytesFunction

\* Padding fills up the last block, and tells by how much.
LEMMA Paddings ==
    ASSUME NEW n \in Nat
    PROVE  \E k \in 1..16 : IsBytes(Padding(n), k) /\ Padding(n)[k] = k /\ (n + k) % 16 = 0
<1> DEFINE k == 16 - (n % 16)
           z == Zeros(k - 1)
           l == <<k>>
<1>1. k \in 1..16 /\ k - 1 \in Nat /\ (k - 1) + 1 = k /\ (n + k) % 16 = 0 /\ k \in Byte
  BY DEF Byte
<1>2. Padding(n) = z \o l
  BY DEF Padding, BLOCK
<1> HIDE DEF k
<1>3. IsBytes(z, k - 1)
  BY <1>1, ZerosBytes
<1>4. l \in Seq(Byte) /\ Len(l) = 1 /\ l[1] = k
  BY <1>1
<1> HIDE DEF l, z
<1>5. z \in Seq(Byte) /\ Len(z) = k - 1
  BY <1>3 DEF IsBytes
<1>6. z \o l \in Seq(Byte) /\ Len(z \o l) = (k - 1) + 1
  <2>1. l \in Seq(Byte) /\ z \in Seq(Byte)
    BY <1>4, <1>5
  <2>2. z \o l \in Seq(Byte) /\ Len(z \o l) = Len(z) + Len(l)
    BY <2>1, ConcatProperties
  <2>3. QED
    BY <1>4, <1>5, <2>2
<1>7. At(z \o l, k - 1, l)
  BY <1>4, <1>5, AtEnd
<1>8. (z \o l)[(k - 1) + 1] = k
  BY <1>4, <1>7 DEF At
<1>9. IsBytes(z \o l, k)
  BY <1>1, <1>6 DEF IsBytes
<1>10. QED
  BY <1>1, <1>2, <1>8, <1>9

\* The vector that half of was cleared is a vector.
LEMMA Cleared ==
    ASSUME NEW v, IsBytes(v, BLOCK)
    PROVE  IsBytes(ClearIvec(v), BLOCK)
<1> DEFINE r == SubSeq(v, 5, BLOCK)
<1>1. PICK i, k : i \in Nat /\ k \in Nat /\ i = 4 /\ k = 12
  OBVIOUS
<1>2. i + k <= BLOCK /\ i + 1 = 5 /\ i + k = BLOCK
  BY <1>1 DEF BLOCK
<1>3. IsBytes(SubSeq(v, i + 1, i + k), k)
  BY <1>1, <1>2, PartBytes
<1>4. IsBytes(r, k)
  BY <1>2, <1>3
<1>5. IsBytes(Zeros(i), i)
  BY <1>1, ZerosBytes
<1> HIDE DEF r
<1>6. IsBytes(Zeros(i) \o r, i + k)
  BY <1>4, <1>5, ConcatBytes
<1>7. ClearIvec(v) = Zeros(i) \o r
  BY <1>1 DEF ClearIvec, r
<1>8. QED
  BY <1>2, <1>6, <1>7

\* Where in the blocks a byte is.
LEMMA ByteOfBlock ==
    ASSUME NEW b, NEW i, NEW x, IsBytes(x, BLOCK), At(b, i, x), NEW j \in 1..BLOCK
    PROVE  b[i + j] = x[j]
<1>1. Len(x) = BLOCK
  BY DEF IsBytes
<1>2. j \in 1..Len(x)
  BY <1>1
<1>3. QED
  BY <1>2 DEF At

\* What becomes of m blocks p, with the vectors v and w: ciphertext o and a vector
\* y, plaintext x of the blocks R, and a vector z.
AesTurn(in, m, p, v, w, o, y, x, z, R) ==
    /\ CbcEncrypt(in, v) = <<o, y>> /\ IsBytes(o, 16 * m) /\ IsBytes(y, BLOCK)
    /\ CbcDecrypt(o, w) = <<x, z>> /\ IsBytes(x, 16 * m) /\ IsBytes(z, BLOCK)
    /\ Laid(x, m, R, <<>>, 0) /\ \A k \in 1..m : k # 1 => R[k] = p[k]

\* All blocks but the first come out as they went in, and the first as bytes.
LEMMA AesBlocks ==
    ASSUME AesInverts, NEW in, NEW m, NEW p, Laid(in, m, p, <<>>, 0), m # 0,
           NEW v, IsBytes(v, BLOCK), NEW w, IsBytes(w, BLOCK)
    PROVE  \E o, y, x, z, R : AesTurn(in, m, p, v, w, o, y, x, z, R)
<1>1. m \in Nat /\ m \in 1..m /\ m \in 0..m /\ 16 * m + 0 = 16 * m /\ \A k \in 1..m : IsBytes(p[k], BLOCK)
  BY DEF Laid
<1>2. PICK C, o : /\ CbcEncrypt(in, v) = <<o, C[m]>>
                  /\ C[0] = v /\ \A k \in 0..m : IsBytes(C[k], BLOCK)
                  /\ \A k \in 1..m : C[k] = AesEncrypt(XorSeq(p[k], C[k - 1]))
                  /\ Laid(o, m, C, <<>>, 0)
  <2>1. PICK C, o : AesChain(C, o, in, m, p, v)
    BY AesEncryption
  <2>2. QED
    BY <2>1 DEF AesChain
<1>3. ASSUME NEW k \in 1..m
      PROVE  /\ IsBytes(C[k], BLOCK) /\ IsBytes(C[k - 1], BLOCK)
             /\ IsBytes(AesDecrypt(C[k]), BLOCK) /\ XorSeq(AesDecrypt(C[k]), C[k - 1]) = p[k]
  <2> DEFINE x == XorSeq(p[k], C[k - 1])
  <2>1. k \in 0..m /\ k - 1 \in 0..m
    BY <1>1
  <2>2. IsBytes(C[k], BLOCK) /\ IsBytes(C[k - 1], BLOCK) /\ IsBytes(p[k], BLOCK)
    BY <1>1, <1>2, <2>1
  <2>3. IsBytes(x, BLOCK) /\ XorSeq(x, C[k - 1]) = p[k]
    BY <2>2, XorSeqs
  <2>4. C[k] = AesEncrypt(x)
    BY <1>2
  <2> HIDE DEF x
  <2>5. AesDecrypt(C[k]) = x
    BY <2>3, <2>4 DEF AesInverts
  <2>6. QED
    BY <2>2, <2>3, <2>5
<1> DEFINE R == [k \in 1..m |-> XorSeq(AesDecrypt(C[k]), IF k = 1 THEN w ELSE C[k - 1])]
<1>4. \A k \in 1..m : R[k] = XorSeq(AesDecrypt(C[k]), IF k = 1 THEN w ELSE C[k - 1])
  OBVIOUS
<1> HIDE DEF R
<1>5. ASSUME NEW k \in 1..m PROVE IsBytes(R[k], BLOCK) /\ (k # 1 => R[k] = p[k])
  <2>1. CASE k = 1
    <3>1. R[k] = XorSeq(AesDecrypt(C[k]), w)
      BY <1>4, <2>1
    <3>2. IsBytes(AesDecrypt(C[k]), BLOCK)
      BY <1>3
    <3>3. QED
      BY <2>1, <3>1, <3>2, XorSeqs
  <2>2. CASE k # 1
    <3>1. R[k] = XorSeq(AesDecrypt(C[k]), C[k - 1])
      BY <1>4, <2>2
    <3>2. R[k] = p[k]
      BY <1>3, <3>1
    <3>3. QED
      BY <1>1, <3>2
  <2>3. QED
    BY <2>1, <2>2
<1>6. PICK x, z : CbcDecrypt(o, w) = <<x, z>> /\ Laid(x, m, R, <<>>, 0) /\ (m # 0 => z = C[m])
  <2>1. Laid(o, m, C, <<>>, 0) /\ \A k \in 1..m : IsBytes(R[k], BLOCK)
    BY <1>2, <1>5
  <2>2. QED
    BY <1>4, <2>1, AesDecryption
<1>7. IsBytes(o, 16 * m) /\ IsBytes(x, 16 * m)
  BY <1>1, <1>2, <1>6 DEF Laid
<1>8. IsBytes(C[m], BLOCK) /\ z = C[m]
  BY <1>1, <1>2, <1>6
<1>9. AesTurn(in, m, p, v, w, o, C[m], x, z, R)
  BY <1>2, <1>5, <1>6, <1>7, <1>8 DEF AesTurn
<1>10. QED
  BY <1>9

\* Two texts that are the same from the second block on.
LEMMA SameTail ==
    ASSUME NEW x, NEW y, NEW m, NEW p, NEW R, Laid(x, m, R, <<>>, 0), Laid(y, m, p, <<>>, 0),
           \A k \in 1..m : k # 1 => R[k] = p[k]
    PROVE  \A i \in 17..(16 * m) : x[i] = y[i]
<1>1. m \in Nat
  BY DEF Laid
<1>2. ASSUME NEW i \in 17..(16 * m) PROVE x[i] = y[i]
  <2> DEFINE k == ((i - 1) \div 16) + 1
             j == ((i - 1) % 16) + 1
  <2>1. k \in 1..m /\ k # 1 /\ j \in 1..16 /\ i = 16 * (k - 1) + j
    BY <1>1
  <2> DEFINE s == 16 * (k - 1)
  <2> HIDE DEF k, j
  <2>2. x[s + j] = R[k][j]
    <3>1. IsBytes(R[k], BLOCK) /\ At(x, s, R[k]) /\ j \in 1..BLOCK
      BY <2>1 DEF Laid, BLOCK
    <3> HIDE DEF s
    <3>2. QED
      BY <3>1, ByteOfBlock
  <2>3. y[s + j] = p[k][j]
    <3>1. IsBytes(p[k], BLOCK) /\ At(y, s, p[k]) /\ j \in 1..BLOCK
      BY <2>1 DEF Laid, BLOCK
    <3> HIDE DEF s
    <3>2. QED
      BY <3>1, ByteOfBlock
  <2>4. QED
    BY <2>1, <2>2, <2>3
<1>3. QED
  BY <1>2

\* A packet of AES: the text with its padding, in blocks.
Padded16(text, N, k, m, p) ==
    /\ k \in 1..16 /\ m \in Nat /\ m >= 2 /\ N + k = 16 * m
    /\ Laid(text \o Padding(N), m, p, <<>>, 0)
    /\ (text \o Padding(N))[16 * m] = k
    /\ \A i \in 1..N : (text \o Padding(N))[i] = text[i]

\* What AES encrypts: nonce, frame and padding.
LEMMA PaddedText ==
    ASSUME NEW text, NEW N, IsBytes(text, N), N >= 18
    PROVE  \E k, m, p : Padded16(text, N, k, m, p)
<1>1. N \in Nat /\ text \in Seq(Byte) /\ Len(text) = N
  BY DEF IsBytes
<1>2. PICK k \in 1..16 : IsBytes(Padding(N), k) /\ Padding(N)[k] = k /\ (N + k) % 16 = 0
  BY <1>1, Paddings
<1> DEFINE pad == Padding(N)
           z   == text \o pad
<1>3. pad \in Seq(Byte) /\ Len(pad) = k
  BY <1>2 DEF IsBytes
<1>4. IsBytes(z, N + k)
  BY <1>2, ConcatBytes
<1>5. At(z, N, pad)
  BY <1>1, <1>3, AtEnd
<1>6. At(text, 0, text)
  BY WholeAt
<1>7. At(z, 0, text)
  BY <1>1, <1>3, <1>6, AtLonger
<1>8. z[N + k] = k
  <2> HIDE DEF z
  <2>1. k \in 1..Len(pad) /\ pad[k] = k
    BY <1>2, <1>3
  <2> HIDE DEF pad
  <2>2. z[N + k] = pad[k]
    BY <1>5, <2>1 DEF At
  <2>3. QED
    BY <2>1, <2>2
<1>9. \A i \in 1..N : z[i] = text[i]
  <2> HIDE DEF z
  <2>1. \A i \in 1..N : z[0 + i] = text[i]
    BY <1>1, <1>7 DEF At
  <2>2. \A i \in 1..N : 0 + i = i
    BY <1>1
  <2>3. QED
    BY <2>1, <2>2
<1> HIDE DEF z, pad
<1>10. PICK m, p, q, l : Laid(z, m, p, q, l) /\ N + k = 16 * m + l
  BY <1>4, LaidExists
<1>11. m \in Nat /\ l \in Nat /\ l < 16 /\ IsBytes(q, l)
  BY <1>10 DEF Laid, IsBytes, BLOCK
<1>12. l = 0 /\ m >= 2 /\ N + k = 16 * m
  BY <1>1, <1>2, <1>10, <1>11
<1>13. q = <<>>
  BY <1>11, <1>12, NoBytes
<1>14. Laid(z, m, p, <<>>, 0)
  BY <1>10, <1>12, <1>13
<1>15. z[16 * m] = k
  BY <1>8, <1>12
<1>16. Padded16(text, N, k, m, p)
  BY <1>9, <1>11, <1>12, <1>14, <1>15 DEF Padded16, z, pad
<1>17. QED
  BY <1>16

\* The frame is in the text, behind the nonce.
Behind(text, frame, n) ==
    /\ IsBytes(text, NONCE + n)
    /\ \A i \in 1..n : text[NONCE + i] = frame[i]

LEMMA NonceItems ==
    ASSUME NEW nonce, IsBytes(nonce, NONCE), NEW frame, NEW n, IsBytes(frame, n)
    PROVE  Behind(nonce \o frame, frame, n)
<1> DEFINE text == nonce \o frame
<1>1. nonce \in Seq(Byte) /\ Len(nonce) = NONCE /\ frame \in Seq(Byte) /\ Len(frame) = n
  BY DEF IsBytes
<1>2. At(text, NONCE, frame)
  BY <1>1, AtEnd
<1>3. IsBytes(text, NONCE + n)
  BY ConcatBytes
<1> HIDE DEF text
<1>4. \A i \in 1..Len(frame) : text[NONCE + i] = frame[i]
  BY <1>2 DEF At
<1>5. Behind(text, frame, n)
  BY <1>1, <1>3, <1>4 DEF Behind
<1>6. QED
  BY <1>5 DEF text

\* From the bytes that come out to the frame.
LEMMA Unpadded ==
    ASSUME NEW frame, NEW n, IsBytes(frame, n), n >= 14, NEW text,
           \A i \in 1..n : text[NONCE + i] = frame[i], NEW in,
           NEW k \in 1..16, NEW m \in Nat, m >= 2, (NONCE + n) + k = 16 * m, in[16 * m] = k,
           \A i \in 1..(NONCE + n) : in[i] = text[i],
           NEW x, IsBytes(x, 16 * m), \A i \in 17..(16 * m) : x[i] = in[i]
    PROVE  /\ 16 * m - x[16 * m] - NONCE = n
           /\ SameFrame(TRANSFORM.AESCBC, SubSeq(x, NONCE + 1, NONCE + n), frame)
<1>1. n \in Nat /\ Len(frame) = n /\ frame \in Seq(Byte) /\ NONCE = 4
  BY DEF IsBytes, NONCE
<1>2. 16 * m \in 17..(16 * m) /\ NONCE + n <= 16 * m
  BY <1>1
<1>3. 16 * m - x[16 * m] - NONCE = n
  <2>1. x[16 * m] = k
    BY <1>2
  <2>2. 16 * m - k - NONCE = n
    BY <1>1
  <2>3. QED
    BY <2>1, <2>2
<1> DEFINE got == SubSeq(x, NONCE + 1, NONCE + n)
<1>4. IsBytes(got, n) /\ \A j \in 1..n : got[j] = x[NONCE + j]
  <2> DEFINE whole == 16 * m
  <2>1. NONCE \in Nat /\ n \in Nat /\ NONCE + n <= whole /\ IsBytes(x, whole)
    BY <1>1, <1>2
  <2> HIDE DEF whole
  <2>2. PICK i \in Nat : i = NONCE
    BY <2>1
  <2>3. i + n <= whole
    BY <2>1, <2>2
  <2>4. IsBytes(SubSeq(x, i + 1, i + n), n)
    BY <2>1, <2>3, PartBytes
  <2>5. ASSUME NEW j \in 1..n PROVE SubSeq(x, i + 1, i + n)[j] = x[i + j]
    BY <2>1, <2>3, PartItem
  <2>6. QED
    BY <2>2, <2>4, <2>5
<1> HIDE DEF got
<1>5. ASSUME NEW i \in 1..n, ~(i <= 12) PROVE got[i] = frame[i]
  <2>1. NONCE + i \in 17..(16 * m) /\ NONCE + i \in 1..(NONCE + n)
    BY <1>1, <1>2, <1>5
  <2>2. x[NONCE + i] = in[NONCE + i] /\ in[NONCE + i] = text[NONCE + i]
    BY <2>1
  <2>3. text[NONCE + i] = frame[i] /\ got[i] = x[NONCE + i]
    BY <1>4
  <2>4. QED
    BY <2>2, <2>3
<1>6. Len(got) = n /\ DOMAIN frame = 1..n
  BY <1>1, <1>4, LenProperties DEF IsBytes
<1>7. SameFrame(TRANSFORM.AESCBC, got, frame)
  BY <1>1, <1>5, <1>6 DEF SameFrame
<1>8. QED
  BY <1>3, <1>7 DEF got

\* The frame in a text that was decrypted.
LEMMA AesDecodes ==
    ASSUME NEW d, NEW o, ~Undecodable(o), NEW body, SubSeq(o, OVERHEAD + 1, Len(o)) = body,
           NEW x, NEW z, CbcDecrypt(body, ClearIvec(d)) = <<x, z>>,
           NEW l, Len(body) = l, l % BLOCK = 0, NEW n, l - x[l] - NONCE = n, ~(n < 0)
    PROVE  DecodeAes(d, o) = Success(SubSeq(x, NONCE + 1, NONCE + n), z)
<1> DEFINE r == CbcDecrypt(body, ClearIvec(d))
<1>1. DecodeAes(d, o)
          = IF Undecodable(o) \/ Len(body) % BLOCK # 0 THEN Result(TRUE, <<>>, d)
            ELSE IF Len(body) - r[1][Len(body)] - NONCE < 0 THEN Result(TRUE, Zeros(Len(body)), r[2])
            ELSE Result(TRUE, SubSeq(r[1], NONCE + 1, NONCE + (Len(body) - r[1][Len(body)] - NONCE)), r[2])
  BY DEF DecodeAes
<1> HIDE DEF r
<1>2. r[1] = x /\ r[2] = z
  BY DEF r
<1>3. Len(body) - r[1][Len(body)] - NONCE = n
  BY <1>2
<1>4. DecodeAes(d, o) = Result(TRUE, SubSeq(r[1], NONCE + 1, NONCE + n), r[2])
  BY <1>1, <1>3
<1>5. QED
  BY <1>2, <1>4 DEF Success

\* The length of what transop_encode_aes writes: whole blocks, the last of which
\* has at least one byte of padding.
AesLen(n) == OVERHEAD + BLOCK * ((NONCE + n) \div BLOCK + 1)

\* The same for transop_encode_aes and transop_decode_aes, except for the first
\* twelve bytes of the frame, which depend on the packets before
\* (transform_aes.c).  What is written can be longer than the room it was asked
\* whether it fits, and is AesLen bytes long, whatever the room; it is read back
\* if a buffer holds it.
THEOREM AesThere ==
    ASSUME AesInverts, NEW v, IsBytes(v, BLOCK), NEW frame, NEW n, IsBytes(frame, n), n >= 14,
           NEW nonce, IsBytes(nonce, NONCE), NEW room \in Int
    PROVE  \/ ~Fits(frame, room) /\ EncodeAes(v, frame, nonce, room) = Failed(v)
           \/ \E o, e : /\ EncodeAes(v, frame, nonce, room) = Success(o, e)
                        /\ IsBytes(o, AesLen(n)) /\ IsBytes(e, BLOCK)
                        /\ AesLen(n) <= PktBuf =>
                               \A d : IsBytes(d, BLOCK) =>
                                   \E got, f : /\ DecodeAes(d, o) = Success(got, f) /\ IsBytes(f, BLOCK)
                                               /\ SameFrame(TRANSFORM.AESCBC, got, frame)
<1>1. CASE ~Fits(frame, room)
  BY <1>1 DEF EncodeAes
<1>2. CASE Fits(frame, room)
  <2> DEFINE text == nonce \o frame
             N == NONCE + n
  <2>1. IsBytes(text, N) /\ \A i \in 1..n : text[NONCE + i] = frame[i]
    <3>1. Behind(nonce \o frame, frame, n)
      BY NonceItems
    <3>2. QED
      BY <3>1 DEF Behind
  <2>2. /\ n \in Nat /\ N \in Nat /\ N >= 18 /\ Len(text) = N /\ NONCE = 4
    <3>1. n \in Nat /\ Len(frame) = n /\ Len(text) = N
      BY <2>1 DEF IsBytes
    <3>2. QED
      BY <3>1 DEF NONCE
  <2> HIDE DEF text, N
  <2>3. PICK k, m, p : Padded16(text, N, k, m, p)
    BY <2>1, <2>2, PaddedText
  <2> DEFINE in == text \o Padding(N)
  <2>4. /\ k \in 1..16 /\ m \in Nat /\ m >= 2 /\ N + k = 16 * m /\ Laid(in, m, p, <<>>, 0)
        /\ in[16 * m] = k /\ \A i \in 1..N : in[i] = text[i]
    BY <2>3 DEF Padded16
  <2> DEFINE c == CbcEncrypt(in, ClearIvec(v))
             o == Header \o c[1]
  <2>5. EncodeAes(v, frame, nonce, room) = Success(o, c[2])
    BY <1>2, <2>2 DEF EncodeAes, Success, text
  <2>6. IsBytes(ClearIvec(v), BLOCK)
    BY Cleared
  <2> HIDE DEF in
  <2>7. IsBytes(c[1], 16 * m) /\ IsBytes(c[2], BLOCK)
    <3>1. m \in Nat /\ m # 0
      BY <2>4
    <3>2. Laid(in, m, p, <<>>, 0)
      BY <2>4
    <3> DEFINE w == ClearIvec(v)
    <3>3. IsBytes(w, BLOCK)
      BY <2>6
    <3> HIDE DEF w
    <3>4. PICK a, y, x, z, R : AesTurn(in, m, p, w, w, a, y, x, z, R)
      BY <3>1, <3>2, <3>3, AesBlocks
    <3>5. c = <<a, y>> /\ IsBytes(a, 16 * m) /\ IsBytes(y, BLOCK)
      BY <3>4 DEF w, AesTurn
    <3> HIDE DEF c
    <3>6. QED
      BY <3>5
  <2>12. AesLen(n) = OVERHEAD + 16 * m
    <3>1. PICK q \in Nat, r \in 0..15 : q = m - 1 /\ N = 16 * q + r
      <4>1. N = 16 * (m - 1) + (16 - k) /\ m - 1 \in Nat /\ 16 - k \in 0..15
        BY <2>2, <2>4
      <4>2. QED
        BY <4>1
    <3>2. N \div 16 = m - 1
      <4>1. (16 * q + r) \div 16 = q
        OBVIOUS
      <4>2. QED
        BY <3>1, <4>1
    <3>3. AesLen(n) = OVERHEAD + 16 * ((m - 1) + 1)
      BY <3>2 DEF AesLen, BLOCK, N
    <3>4. (m - 1) + 1 = m
      BY <2>4
    <3>5. QED
      BY <3>3, <3>4
  <2>13. IsBytes(o, AesLen(n))
    <3> HIDE DEF c
    <3>1. IsBytes(o, OVERHEAD + 16 * m)
      BY <2>7, HeaderBytes, ConcatBytes
    <3>2. QED
      BY <2>12, <3>1
  <2>8. ASSUME AesLen(n) <= PktBuf
        PROVE  /\ o \in Seq(Byte) /\ ~Undecodable(o)
               /\ SubSeq(o, OVERHEAD + 1, Len(o)) = c[1]
    <3>1. 16 * m >= NONCE /\ 16 * m <= PktBuf
      BY <2>2, <2>4, <2>8, <2>12, WireAssumption DEF OVERHEAD
    <3> HIDE DEF c
    <3>2. QED
      BY <2>7, <3>1, Decodable
  <2>9. ASSUME AesLen(n) <= PktBuf, NEW d, IsBytes(d, BLOCK)
        PROVE  \E got, f : /\ DecodeAes(d, o) = Success(got, f) /\ IsBytes(f, BLOCK)
                           /\ SameFrame(TRANSFORM.AESCBC, got, frame)
    <3>1. IsBytes(ClearIvec(d), BLOCK)
      BY <2>9, Cleared
    <3>2. PICK a, y, x, z, R :
              /\ CbcEncrypt(in, ClearIvec(v)) = <<a, y>>
              /\ CbcDecrypt(a, ClearIvec(d)) = <<x, z>> /\ IsBytes(x, 16 * m) /\ IsBytes(z, BLOCK)
              /\ Laid(x, m, R, <<>>, 0) /\ \A j \in 1..m : j # 1 => R[j] = p[j]
      <4>1. m # 0
        BY <2>4
      <4>2. PICK a, y, x, z, R : AesTurn(in, m, p, ClearIvec(v), ClearIvec(d), a, y, x, z, R)
        BY <2>4, <2>6, <3>1, <4>1, AesBlocks
      <4>3. QED
        BY <4>2 DEF AesTurn
    <3>3. CbcDecrypt(c[1], ClearIvec(d)) = <<x, z>>
      BY <3>2
    <3>4. \A i \in 17..(16 * m) : x[i] = in[i]
      BY <2>4, <3>2, SameTail
    <3>5. /\ 16 * m - x[16 * m] - NONCE = n
          /\ SameFrame(TRANSFORM.AESCBC, SubSeq(x, NONCE + 1, NONCE + n), frame)
      <4>1. (NONCE + n) + k = 16 * m /\ \A i \in 1..(NONCE + n) : in[i] = text[i]
        BY <2>4 DEF N
      <4>2. k \in 1..16 /\ m \in Nat /\ m >= 2 /\ in[16 * m] = k
        BY <2>4
      <4>3. IsBytes(x, 16 * m) /\ \A i \in 1..n : text[NONCE + i] = frame[i]
        BY <2>1, <3>2
      <4>4. QED
        BY <3>4, <4>1, <4>2, <4>3, Unpadded
    <3>6. Len(c[1]) = 16 * m
      BY <2>7 DEF IsBytes
    <3> HIDE DEF c, o
    <3>7. (16 * m) % BLOCK = 0 /\ ~(n < 0)
      <4>1. m \in Nat /\ n \in Nat /\ BLOCK = 16
        BY <2>2, <2>4 DEF BLOCK
      <4>2. (16 * m) % 16 = 0
        BY <4>1
      <4>3. QED
        BY <4>1, <4>2
    <3>8. DecodeAes(d, o) = Success(SubSeq(x, NONCE + 1, NONCE + n), z)
      <4> DEFINE l == 16 * m
      <4>1. Len(c[1]) = l /\ l % BLOCK = 0 /\ l - x[l] - NONCE = n /\ ~(n < 0)
        BY <3>5, <3>6, <3>7
      <4>2. l \in Nat /\ n \in Nat
        BY <2>2, <2>4
      <4> HIDE DEF l
      <4>3. ~Undecodable(o) /\ SubSeq(o, OVERHEAD + 1, Len(o)) = c[1]
        BY <2>8, <2>9
      <4>4. QED
        BY <3>3, <4>1, <4>2, <4>3, AesDecodes
    <3>9. QED
      BY <3>2, <3>5, <3>8
  <2> HIDE DEF c, o
  <2>10. QED
    BY <2>5, <2>7, <2>9, <2>13
<1>3. QED
  BY <1>1, <1>2

Modes == {TRANSFORM.NULL, TRANSFORM.TWOFISH, TRANSFORM.AESCBC}

\* Whatever state the receiver's cipher is in, it gets the frame.
Reads(transform, out, frame) ==
    \A d : Cipher(d) => \E got, f : /\ Rev(transform, d, out) = Success(got, f) /\ Cipher(f)
                                    /\ SameFrame(transform, got, frame)

\* What a transform may do with a frame.
Sends(transform, r, frame, room) ==
    \/ \E e : r = Failed(e) /\ Cipher(e) /\ Payload(transform, frame) > room
    \/ \E o, e : /\ r = Success(o, e) /\ Cipher(e)
                 /\ o \in Seq(Byte) /\ Len(o) = Payload(transform, frame)
                 /\ Payload(transform, frame) <= PktBuf => Reads(transform, o, frame)

\* The transforms of an edge.
LEMMA Transform ==
    /\ TRANSFORM.NULL # TRANSFORM.TWOFISH /\ TRANSFORM.NULL # TRANSFORM.AESCBC
    /\ TRANSFORM.TWOFISH # TRANSFORM.AESCBC
BY DEF TRANSFORM

LEMMA Untouched ==
    ASSUME NEW s, NEW x, NEW nonce, NEW room
    PROVE  /\ Fwd(TRANSFORM.NULL, s, x, nonce, room) = EncodeNull(s, x, room)
           /\ Rev(TRANSFORM.NULL, s, x) = DecodeNull(s, x)
BY Transform DEF Fwd, Rev

LEMMA TwofishForth ==
    ASSUME NEW t, NEW v, NEW x, NEW nonce, NEW room
    PROVE  Fwd(TRANSFORM.TWOFISH, Entry(t, v), x, nonce, room)
               = InTf(Entry(t, v), EncodeTwofish(t, x, nonce, room))
BY EntryFields, Transform DEF Fwd

LEMMA TwofishBack ==
    ASSUME NEW t, NEW v, NEW x
    PROVE  Rev(TRANSFORM.TWOFISH, Entry(t, v), x) = InTf(Entry(t, v), DecodeTwofish(t, x))
BY EntryFields, Transform DEF Rev

LEMMA AesForth ==
    ASSUME NEW t, NEW v, NEW x, NEW nonce, NEW room
    PROVE  Fwd(TRANSFORM.AESCBC, Entry(t, v), x, nonce, room)
               = InIvec(Entry(t, v), EncodeAes(v, x, nonce, room))
BY EntryFields, Transform DEF Fwd

LEMMA AesBack ==
    ASSUME NEW t, NEW v, NEW x
    PROVE  Rev(TRANSFORM.AESCBC, Entry(t, v), x) = InIvec(Entry(t, v), DecodeAes(v, x))
BY EntryFields, Transform DEF Rev

\* The lengths of payloads.
LEMMA Payloads ==
    ASSUME NEW frame, NEW n, IsBytes(frame, n)
    PROVE  /\ Payload(TRANSFORM.NULL, frame) = n /\ Payload(TRANSFORM.TWOFISH, frame) = OVERHEAD + NONCE + n
           /\ Payload(TRANSFORM.AESCBC, frame) = AesLen(n)
           /\ n \in Nat /\ OVERHEAD + NONCE + n \in Nat /\ AesLen(n) \in Nat
           /\ OVERHEAD + NONCE + n < AesLen(n) /\ OVERHEAD + NONCE = 9
<1>1. n \in Nat /\ Len(frame) = n
  BY DEF IsBytes
<1>2. OVERHEAD = 5 /\ NONCE = 4 /\ BLOCK = 16
  BY DEF OVERHEAD, NONCE, BLOCK
<1>3. AesLen(n) = 5 + 16 * ((4 + n) \div 16 + 1)
  BY <1>2 DEF AesLen
<1>4. (4 + n) \div 16 \in Nat /\ 16 * ((4 + n) \div 16 + 1) > 4 + n
  BY <1>1
<1>5. AesLen(n) \in Nat /\ OVERHEAD + NONCE + n < AesLen(n)
  BY <1>1, <1>2, <1>3, <1>4
<1>6. OVERHEAD + NONCE + n \in Nat /\ OVERHEAD + NONCE = 9
  BY <1>1, <1>2
<1>7. Payload(TRANSFORM.NULL, frame) = n /\ Payload(TRANSFORM.TWOFISH, frame) = OVERHEAD + NONCE + n
  BY <1>1, Transform DEF Payload
<1>8. Payload(TRANSFORM.AESCBC, frame) = AesLen(n)
  BY <1>1, Transform DEF Payload, AesLen
<1>9. QED
  BY <1>1, <1>5, <1>6, <1>7, <1>8

LEMMA PayloadNat ==
    ASSUME NEW transform \in Modes, NEW frame, NEW n, IsBytes(frame, n)
    PROVE  Payload(transform, frame) \in Nat
BY Payloads DEF Modes

\* A frame is refused only for its length.
LEMMA Unfit ==
    ASSUME NEW transform \in Modes, transform # TRANSFORM.NULL, NEW frame, NEW n, IsBytes(frame, n),
           NEW room \in Int, room <= PktBuf, ~Fits(frame, room)
    PROVE  Payload(transform, frame) > room
<1>1. n \in Nat /\ Len(frame) = n /\ PktBuf \in Nat
  BY WireAssumption DEF IsBytes
<1>2. ~(n + NONCE <= PktBuf) \/ ~(n + NONCE + OVERHEAD <= room)
  BY <1>1 DEF Fits
<1>3. OVERHEAD + NONCE + n > room
  BY <1>1, <1>2 DEF NONCE, OVERHEAD
<1>4. CASE transform = TRANSFORM.TWOFISH
  BY <1>3, <1>4, Payloads
<1>5. CASE transform = TRANSFORM.AESCBC
  BY <1>3, <1>5, Payloads
<1>6. QED
  BY <1>4, <1>5 DEF Modes

\* Each of the transforms, and all of them.
LEMMA NullAcross ==
    ASSUME NEW s, Cipher(s), NEW frame, NEW n, IsBytes(frame, n), n <= PktBuf,
           NEW nonce, NEW room \in Int
    PROVE  Sends(TRANSFORM.NULL, Fwd(TRANSFORM.NULL, s, frame, nonce, room), frame, room)
<1>1. n \in Nat /\ Len(frame) = n /\ frame \in Seq(Byte)
  BY DEF IsBytes
<1>2. Fwd(TRANSFORM.NULL, s, frame, nonce, room) = EncodeNull(s, frame, room)
  BY Untouched
<1>3. CASE ~(n <= room)
  <2>1. EncodeNull(s, frame, room) = Failed(s)
    BY <1>1, <1>3 DEF EncodeNull
  <2>2. Payload(TRANSFORM.NULL, frame) > room
    BY <1>1, <1>3, Payloads
  <2>3. QED
    BY <1>2, <2>1, <2>2 DEF Sends
<1>4. CASE n <= room
  <2>1. EncodeNull(s, frame, room) = Success(frame, s)
    BY <1>1, <1>4 DEF EncodeNull, Success
  <2>2. ASSUME NEW d, Cipher(d) PROVE Rev(TRANSFORM.NULL, d, frame) = Success(frame, d)
    <3>1. DecodeNull(d, frame) = Success(frame, d)
      BY <1>1 DEF DecodeNull, Success
    <3>2. QED
      BY <3>1, Untouched
  <2>3. SameFrame(TRANSFORM.NULL, frame, frame)
    BY DEF SameFrame
  <2>4. Reads(TRANSFORM.NULL, frame, frame)
    BY <2>2, <2>3 DEF Reads
  <2>5. Len(frame) = Payload(TRANSFORM.NULL, frame)
    BY <1>1, Payloads
  <2>6. QED
    BY <1>1, <1>2, <2>1, <2>4, <2>5 DEF Sends
<1>5. QED
  BY <1>3, <1>4

LEMMA TwofishAcross ==
    ASSUME NEW s, Cipher(s), NEW frame, NEW n, IsBytes(frame, n), n >= 14,
           NEW nonce, IsBytes(nonce, NONCE), NEW room \in Int, room <= PktBuf
    PROVE  Sends(TRANSFORM.TWOFISH, Fwd(TRANSFORM.TWOFISH, s, frame, nonce, room), frame, room)
<1>1. PICK t, v : s = Entry(t, v) /\ Resting(t) /\ IsBytes(v, BLOCK)
  BY DEF Cipher
<1> DEFINE r == EncodeTwofish(t, frame, nonce, room)
<1>2. Fwd(TRANSFORM.TWOFISH, s, frame, nonce, room) = InTf(Entry(t, v), r)
  BY <1>1, TwofishForth
<1>3. \A c : Resting(c) => Cipher(Entry(c, v))
  BY <1>1 DEF Cipher
<1>4. CASE ~Fits(frame, room) /\ r = Failed(t)
  <2>1. Fwd(TRANSFORM.TWOFISH, s, frame, nonce, room) = Failed(Entry(t, v))
    BY <1>2, <1>4, Left
  <2>2. TRANSFORM.TWOFISH # TRANSFORM.NULL /\ TRANSFORM.TWOFISH \in Modes
    BY Transform DEF Modes
  <2>3. Payload(TRANSFORM.TWOFISH, frame) > room
    BY <1>4, <2>2, Unfit
  <2>4. QED
    BY <1>1, <1>3, <2>1, <2>3 DEF Sends
<1>5. CASE \E o, e : /\ r = Success(o, e) /\ IsBytes(o, OVERHEAD + NONCE + n) /\ Resting(e)
                     /\ \A d : Resting(d) =>
                            \E f : DecodeTwofish(d, o) = Success(frame, f) /\ Resting(f)
  <2>1. PICK o, e : /\ r = Success(o, e) /\ IsBytes(o, OVERHEAD + NONCE + n) /\ Resting(e)
                    /\ \A d : Resting(d) =>
                            \E f : DecodeTwofish(d, o) = Success(frame, f) /\ Resting(f)
    BY <1>5
  <2>2. Fwd(TRANSFORM.TWOFISH, s, frame, nonce, room) = Success(o, Entry(e, v))
    BY <1>2, <2>1, Kept
  <2>3. SameFrame(TRANSFORM.TWOFISH, frame, frame)
    BY DEF SameFrame
  <2>4. ASSUME NEW d, Cipher(d)
        PROVE  \E got, f : /\ Rev(TRANSFORM.TWOFISH, d, o) = Success(got, f) /\ Cipher(f)
                           /\ SameFrame(TRANSFORM.TWOFISH, got, frame)
    <3>1. PICK x, y : d = Entry(x, y) /\ Resting(x) /\ IsBytes(y, BLOCK)
      BY <2>4 DEF Cipher
    <3>2. PICK f : DecodeTwofish(x, o) = Success(frame, f) /\ Resting(f)
      BY <2>1, <3>1
    <3>3. Rev(TRANSFORM.TWOFISH, d, o) = InTf(Entry(x, y), DecodeTwofish(x, o))
      BY <3>1, TwofishBack
    <3>4. Rev(TRANSFORM.TWOFISH, d, o) = Success(frame, Entry(f, y))
      BY <3>2, <3>3, Kept
    <3>5. Cipher(Entry(f, y))
      BY <3>1, <3>2 DEF Cipher
    <3>6. QED
      BY <2>3, <3>4, <3>5
  <2>5. Reads(TRANSFORM.TWOFISH, o, frame)
    BY <2>4 DEF Reads
  <2>6. Cipher(Entry(e, v))
    BY <1>3, <2>1
  <2>7. o \in Seq(Byte) /\ Len(o) = Payload(TRANSFORM.TWOFISH, frame)
    BY <2>1, Payloads DEF IsBytes
  <2>8. QED
    BY <2>2, <2>5, <2>6, <2>7 DEF Sends
<1>6. QED
  BY <1>1, <1>4, <1>5, TwofishThere

LEMMA AesAcross ==
    ASSUME AesInverts, NEW s, Cipher(s), NEW frame, NEW n, IsBytes(frame, n), n >= 14,
           NEW nonce, IsBytes(nonce, NONCE), NEW room \in Int, room <= PktBuf
    PROVE  Sends(TRANSFORM.AESCBC, Fwd(TRANSFORM.AESCBC, s, frame, nonce, room), frame, room)
<1>1. PICK t, v : s = Entry(t, v) /\ Resting(t) /\ IsBytes(v, BLOCK)
  BY DEF Cipher
<1> DEFINE r == EncodeAes(v, frame, nonce, room)
<1>2. Fwd(TRANSFORM.AESCBC, s, frame, nonce, room) = InIvec(Entry(t, v), r)
  BY <1>1, AesForth
<1>3. \A c : IsBytes(c, BLOCK) => Cipher(Entry(t, c))
  BY <1>1 DEF Cipher
<1>4. CASE ~Fits(frame, room) /\ r = Failed(v)
  <2>1. Fwd(TRANSFORM.AESCBC, s, frame, nonce, room) = Failed(Entry(t, v))
    BY <1>2, <1>4, Left
  <2>2. TRANSFORM.AESCBC # TRANSFORM.NULL /\ TRANSFORM.AESCBC \in Modes
    BY Transform DEF Modes
  <2>3. Payload(TRANSFORM.AESCBC, frame) > room
    BY <1>4, <2>2, Unfit
  <2>4. QED
    BY <1>1, <1>3, <2>1, <2>3 DEF Sends
<1>5. CASE \E o, e : /\ r = Success(o, e) /\ IsBytes(o, AesLen(n)) /\ IsBytes(e, BLOCK)
                     /\ AesLen(n) <= PktBuf =>
                            \A d : IsBytes(d, BLOCK) =>
                                \E got, f : /\ DecodeAes(d, o) = Success(got, f) /\ IsBytes(f, BLOCK)
                                            /\ SameFrame(TRANSFORM.AESCBC, got, frame)
  <2>1. PICK o, e : /\ r = Success(o, e) /\ IsBytes(o, AesLen(n)) /\ IsBytes(e, BLOCK)
                    /\ AesLen(n) <= PktBuf =>
                           \A d : IsBytes(d, BLOCK) =>
                               \E got, f : /\ DecodeAes(d, o) = Success(got, f) /\ IsBytes(f, BLOCK)
                                           /\ SameFrame(TRANSFORM.AESCBC, got, frame)
    BY <1>5
  <2>2. Fwd(TRANSFORM.AESCBC, s, frame, nonce, room) = Success(o, Entry(t, e))
    BY <1>2, <2>1, Kept
  <2>4. ASSUME AesLen(n) <= PktBuf, NEW d, Cipher(d)
        PROVE  \E got, f : /\ Rev(TRANSFORM.AESCBC, d, o) = Success(got, f) /\ Cipher(f)
                           /\ SameFrame(TRANSFORM.AESCBC, got, frame)
    <3>1. PICK x, y : d = Entry(x, y) /\ Resting(x) /\ IsBytes(y, BLOCK)
      BY <2>4 DEF Cipher
    <3>2. PICK got, f : /\ DecodeAes(y, o) = Success(got, f) /\ IsBytes(f, BLOCK)
                        /\ SameFrame(TRANSFORM.AESCBC, got, frame)
      BY <2>1, <2>4, <3>1
    <3>3. Rev(TRANSFORM.AESCBC, d, o) = InIvec(Entry(x, y), DecodeAes(y, o))
      BY <3>1, AesBack
    <3>4. Rev(TRANSFORM.AESCBC, d, o) = Success(got, Entry(x, f))
      BY <3>2, <3>3, Kept
    <3>5. Cipher(Entry(x, f))
      BY <3>1, <3>2 DEF Cipher
    <3>6. QED
      BY <3>2, <3>4, <3>5
  <2>5. AesLen(n) <= PktBuf => Reads(TRANSFORM.AESCBC, o, frame)
    BY <2>4 DEF Reads
  <2>6. Cipher(Entry(t, e))
    BY <1>3, <2>1
  <2>7. o \in Seq(Byte) /\ Len(o) = Payload(TRANSFORM.AESCBC, frame) /\ Payload(TRANSFORM.AESCBC, frame) = AesLen(n)
    BY <2>1, Payloads DEF IsBytes
  <2>8. QED
    BY <2>2, <2>5, <2>6, <2>7 DEF Sends
<1>6. QED
  BY <1>1, <1>4, <1>5, AesThere

LEMMA Across ==
    ASSUME AesInverts, NEW transform \in Modes, NEW s, Cipher(s),
           NEW frame, NEW n, IsBytes(frame, n), n >= 14, n <= PktBuf,
           NEW nonce, IsBytes(nonce, NONCE), NEW room \in Int, room <= PktBuf
    PROVE  Sends(transform, Fwd(transform, s, frame, nonce, room), frame, room)
<1>2. Sends(TRANSFORM.NULL, Fwd(TRANSFORM.NULL, s, frame, nonce, room), frame, room)
  BY NullAcross
<1>3. Sends(TRANSFORM.TWOFISH, Fwd(TRANSFORM.TWOFISH, s, frame, nonce, room), frame, room)
  BY TwofishAcross
<1>4. Sends(TRANSFORM.AESCBC, Fwd(TRANSFORM.AESCBC, s, frame, nonce, room), frame, room)
  BY AesAcross
<1>5. transform = TRANSFORM.NULL \/ transform = TRANSFORM.TWOFISH \/ transform = TRANSFORM.AESCBC
  BY DEF Modes
<1>6. QED
  BY <1>2, <1>3, <1>4, <1>5

---------------------------------------------------------------------------
(* Whatever a cipher is given.                                             *)

\* Decryption makes a block of any block, not only of one that was encrypted.
LEMMA DecBytes ==
    ASSUME NEW block, IsBytes(block, BLOCK)
    PROVE  IsBytes(Dec(block), BLOCK)
<1>0. Rounds \in Nat
  BY TwofishAssumption, Zenon
<1>1. PICK d : /\ Folds("rounds", TRUE, Base(block, TRUE), Counted, Rounds, d)
               /\ d[Rounds] = BlockRounds(block, TRUE)
  BY RoundsFold
<1>2. d[0] = Whiten(Words(block), 4)
  BY <1>1 DEF Folds, Base
<1>3. ASSUME NEW n \in 1..Rounds PROVE d[n] = DecryptRound(d[n - 1], KeysAt(d[n - 1], Rounds - n))
  <2>1. d[n] = Step("rounds", TRUE, d[n - 1], Counted[n])
    BY <1>1 DEF Folds
  <2>2. Counted[n] = n
    BY DEF Counted
  <2>3. QED
    BY <2>1, <2>2 DEF Step, CipherStep, KeysAt
<1> DEFINE T == {n \in Nat : n <= Rounds => IsQuad(d[n])}
<1>4. 0 \in T
  BY <1>2, WordsOfBytes, Whitened
<1>5. ASSUME NEW n \in Nat, n \in T PROVE n + 1 \in T
  <2> SUFFICES ASSUME n + 1 <= Rounds PROVE IsQuad(d[n + 1])
    OBVIOUS
  <2> DEFINE j == Rounds - (n + 1)
  <2>1. /\ IsQuad(d[n]) /\ n + 1 \in 1..Rounds /\ (n + 1) - 1 = n
        /\ j \in Nat /\ 8 + 2 * j \in 0..(6 + 2 * Rounds)
    BY <1>0, <1>5
  <2>2. d[n + 1] = DecryptRound(d[n], KeysAt(d[n], j))
    BY <1>3, <2>1
  <2> HIDE DEF j
  <2>3. IsWord(KeysAt(d[n], j)[1]) /\ IsWord(KeysAt(d[n], j)[2])
    BY <2>1, RoundKeysTyped DEF KeysAt
  <2>4. QED
    BY <2>1, <2>2, <2>3, RoundBack
<1>6. \A n \in Nat : n \in T
  <2> HIDE DEF T
  <2>1. QED
    BY <1>4, <1>5, SetInduction
<1> DEFINE x == Exchange(d[Rounds])
           y == Whiten(x, 0)
<1>7. IsQuad(x)
  <2>1. IsQuad(d[Rounds])
    BY <1>0, <1>6
  <2>2. QED
    BY <2>1, Exchanged
<1>8. Dec(block) = Bytes16(y)
  BY <1>1 DEF Dec, Back, BlockCrypt16
<1>9. IsQuad(y)
  <2> HIDE DEF x
  <2>1. QED
    BY <1>7, Whitened
<1> HIDE DEF y
<1>10. QED
  BY <1>8, <1>9, BytesOfWords

\* A context in a chain.
Chaining(c) ==
    \E p, x, v, o : /\ IsBytes(p, BLOCK) /\ IsBytes(x, BLOCK) /\ IsBytes(v, BLOCK) /\ o \in Seq(Byte)
                    /\ c = Busy(p, x, v, o)

\* A block, the rest of a text, and the end of it.
LEMMA WholeKeeps ==
    ASSUME NEW c, Context(c), NEW in, IsBytes(in, BLOCK)
    PROVE  Chaining(DecWhole(c, in))
<1>1. PICK p, x, v, o : /\ IsBytes(p, BLOCK) /\ IsBytes(x, BLOCK) /\ IsBytes(v, BLOCK) /\ o \in Seq(Byte)
                        /\ c = Busy(p, x, v, o) \/ c = Idle(p, x, v, o)
  BY DEF Context
<1>2. IsBytes(Dec(in), BLOCK)
  BY DecBytes
<1>3. CASE c = Idle(p, x, v, o)
  <2>1. DecWhole(c, in) = Busy(in, Dec(in), p, o)
    BY <1>3, DecWholes
  <2>2. QED
    BY <1>1, <1>2, <2>1 DEF Chaining
<1>4. CASE c = Busy(p, x, v, o)
  <2> DEFINE y == XorSeq(Dec(in), p)
  <2>1. DecWhole(c, in) = Busy(in, y, p, o \o x)
    BY <1>4, DecWholes
  <2>2. IsBytes(y, BLOCK)
    BY <1>1, <1>2, XorSeqs
  <2>3. o \o x \in Seq(Byte)
    BY <1>1, ConcatProperties DEF IsBytes
  <2> HIDE DEF y
  <2>4. QED
    BY <1>1, <2>1, <2>2, <2>3 DEF Chaining
<1>5. QED
  BY <1>1, <1>3, <1>4

LEMMA RestKeeps ==
    ASSUME NEW c, Chaining(c), NEW q, NEW l, IsBytes(q, l), l < BLOCK
    PROVE  Context(DecRest(c, q))
<1>1. PICK p, x, v, o : /\ IsBytes(p, BLOCK) /\ IsBytes(x, BLOCK) /\ IsBytes(v, BLOCK) /\ o \in Seq(Byte)
                        /\ c = Busy(p, x, v, o)
  BY DEF Chaining
<1> DEFINE s == Dec(p)
           f == FilledUp(q, s)
           y == XorSeq(Dec(f), v)
           r == XorSeq(q, SubSeq(s, 1, Len(q)))
<1>2. DecRest(c, q) = Idle(f, y, p, (o \o y) \o r)
  BY <1>1, DecRests
<1>3. IsBytes(s, BLOCK)
  BY <1>1, DecBytes
<1> HIDE DEF s
<1>4. IsBytes(f, BLOCK)
  BY <1>3, FilledBytes
<1> HIDE DEF f
<1>5. IsBytes(y, BLOCK)
  BY <1>1, <1>4, DecBytes, XorSeqs
<1>6. IsBytes(r, l)
  <2>1. l \in Nat /\ Len(q) = l /\ l <= BLOCK
    BY DEF IsBytes, BLOCK
  <2>2. IsBytes(SubSeq(s, 1, l), l)
    BY <1>3, <2>1, HeadPart
  <2>3. QED
    BY <2>1, <2>2, XorSeqs
<1> HIDE DEF y, r
<1>7. (o \o y) \o r \in Seq(Byte)
  <2>1. y \in Seq(Byte) /\ r \in Seq(Byte)
    BY <1>5, <1>6 DEF IsBytes
  <2>2. QED
    BY <1>1, <2>1, ConcatProperties
<1> DEFINE z == (o \o y) \o r
<1> HIDE DEF z
<1>8. DecRest(c, q) = Idle(f, y, p, z) /\ z \in Seq(Byte)
  BY <1>2, <1>7 DEF z
<1>9. Context(Idle(f, y, p, z))
  BY <1>1, <1>4, <1>5, <1>8, IdleContext
<1>10. QED
  BY <1>8, <1>9

LEMMA FlushKeeps ==
    ASSUME NEW c, Context(c)
    PROVE  Context(Flush(c))
<1>1. PICK p, x, v, o : /\ IsBytes(p, BLOCK) /\ IsBytes(x, BLOCK) /\ IsBytes(v, BLOCK) /\ o \in Seq(Byte)
                        /\ c = Busy(p, x, v, o) \/ c = Idle(p, x, v, o)
  BY DEF Context
<1>2. o \o x \in Seq(Byte)
  BY <1>1, ConcatProperties DEF IsBytes
<1>3. Flush(c) = Busy(p, x, v, o \o x) \/ Flush(c) = Idle(p, x, v, o)
  BY <1>1, CtxFlushed
<1>4. QED
  BY <1>1, <1>2, <1>3 DEF Context

\* Blocks in a chain.
LEMMA ChainKeeps ==
    ASSUME NEW m \in Nat, m # 0, NEW p, \A k \in 1..m : IsBytes(p[k], BLOCK), NEW g, Context(g[0]),
           \A k \in 1..m : g[k] = DecWhole(g[k - 1], p[k])
    PROVE  Chaining(g[m])
<1>1. \A c : Chaining(c) => Context(c)
  BY DEF Chaining, Context
<1> DEFINE T == {k \in Nat : k <= m => Context(g[k])}
<1>2. 0 \in T
  OBVIOUS
<1>3. ASSUME NEW k \in Nat, k \in T PROVE k + 1 \in T
  <2> SUFFICES ASSUME k + 1 <= m PROVE Context(g[k + 1])
    OBVIOUS
  <2>1. k + 1 \in 1..m /\ (k + 1) - 1 = k /\ Context(g[k])
    BY <1>3
  <2>2. g[k + 1] = DecWhole(g[k], p[k + 1]) /\ IsBytes(p[k + 1], BLOCK)
    BY <2>1
  <2>3. QED
    BY <1>1, <2>1, <2>2, WholeKeeps
<1>4. \A k \in Nat : k \in T
  <2> HIDE DEF T
  <2>1. QED
    BY <1>2, <1>3, SetInduction
<1>5. m \in 1..m /\ m - 1 \in Nat /\ m - 1 <= m
  OBVIOUS
<1>6. Context(g[m - 1])
  BY <1>4, <1>5
<1>7. g[m] = DecWhole(g[m - 1], p[m]) /\ IsBytes(p[m], BLOCK)
  BY <1>5
<1>8. QED
  BY <1>6, <1>7, WholeKeeps

\* TwoFishDecryptRaw leaves a context, whatever text it is given.
LEMMA CryptKeeps ==
    ASSUME NEW c, Context(c), NEW in \in Seq(Byte)
    PROVE  Context(CryptRaw(c, in, Back))
<1>1. PICK n \in Nat : n = Len(in) /\ IsBytes(in, n)
  BY LenProperties DEF IsBytes
<1>2. PICK x, v : IsBytes(x, BLOCK) /\ IsBytes(v, BLOCK) /\ ResetCBC(c) = Idle(ZeroBlock, x, v, <<>>)
  BY CtxReset DEF Context
<1> DEFINE d == Idle(ZeroBlock, x, v, <<>>)
<1>3. Context(d) /\ d.plain = ZeroBlock
  <2>1. <<>> \in Seq(Byte) /\ IsBytes(ZeroBlock, BLOCK)
    BY Zeroes
  <2>2. Context(d)
    BY <1>2, <2>1, IdleContext
  <2>3. QED
    BY <2>2, CtxFields
<1>4. CryptRaw(c, in, Back)
          = IF n = 0 THEN d ELSE IF n > BLOCK THEN CryptRawCBC(d, in, Back) ELSE CryptRaw16(d, in, Back)
  <2>1. CryptRaw(c, in, Back)
            = IF Len(in) = 0 THEN ResetCBC(c)
              ELSE IF Len(in) > BLOCK THEN CryptRawCBC(ResetCBC(c), in, Back)
              ELSE CryptRaw16(ResetCBC(c), in, Back)
    BY Zenon DEF CryptRaw
  <2> HIDE DEF d
  <2>2. ResetCBC(c) = d
    BY <1>2 DEF d
  <2>3. QED
    BY <1>1, <2>1, <2>2
<1>5. CASE n = 0
  BY <1>3, <1>4, <1>5
<1>6. CASE n # 0 /\ ~(n > BLOCK)
  <2> DEFINE f == FilledUp(in, ZeroBlock)
  <2>1. IsBytes(f, BLOCK)
    <3>1. CASE n < BLOCK
      BY <1>1, <3>1, Zeroes, FilledBytes
    <3>2. CASE n = BLOCK
      <4>1. f = in \o SubSeq(ZeroBlock, 17, 16)
        BY <1>1, <3>2 DEF FilledUp, BLOCK
      <4>2. SubSeq(ZeroBlock, 17, 16) = <<>>
        BY DEF BLOCK, ZeroBlock
      <4>3. f = in
        BY <4>1, <4>2
      <4>4. QED
        BY <1>1, <3>2, <4>3
    <3>3. QED
      BY <1>1, <1>6, <3>1, <3>2 DEF BLOCK
  <2> HIDE DEF f
  <2>2. IsBytes(Dec(f), BLOCK) /\ Dec(f) \in Seq(Byte)
    BY <2>1, DecBytes DEF IsBytes
  <2>3. CryptRaw16(d, in, Back) = Single(d, f, Dec(f))
    <3> HIDE DEF d
    <3>1. CryptRaw16(d, in, Back) = Single(d, FilledUp(in, d.plain), BlockCrypt16(FilledUp(in, d.plain), Back))
      BY DEF CryptRaw16
    <3>2. QED
      BY <1>3, <3>1 DEF f, Dec
  <2>4. Single(d, f, Dec(f)) = Idle(f, Dec(f), v, Dec(f))
    <3>1. \A a, b : Single(d, a, b) = Idle(a, b, v, b)
      BY DEF Single, Idle
    <3>2. QED
      BY <3>1
  <2> HIDE DEF d
  <2>5. CryptRaw(c, in, Back) = Idle(f, Dec(f), v, Dec(f))
    BY <1>4, <1>6, <2>3, <2>4
  <2>6. QED
    BY <1>2, <2>1, <2>2, <2>5, IdleContext
<1>7. CASE n > BLOCK
  <2>1. PICK m, p, q, l : Laid(in, m, p, q, l) /\ n = 16 * m + l
    BY <1>1, LaidExists
  <2>2. m \in Nat /\ l \in Nat /\ m # 0 /\ IsBytes(q, l) /\ l < BLOCK /\ \A k \in 1..m : IsBytes(p[k], BLOCK)
    BY <1>7, <2>1 DEF Laid, IsBytes, BLOCK
  <2> HIDE DEF d
  <2>3. \A x0 : Chaining(x0) => Context(x0)
    BY DEF Chaining, Context
  <2>4. Context(CryptRawCBC(d, in, Back))
    <3>1. CASE l = 0
      <4>1. q = <<>>
        BY <2>2, <3>1, NoBytes
      <4>2. Laid(in, m, p, <<>>, 0)
        BY <2>1, <3>1, <4>1
      <4>3. PICK g : /\ g[0] = d
                     /\ \A k \in 1..m : g[k] = DecWhole(g[k - 1], p[k])
                     /\ CryptRawCBC(d, in, Back) = Flush(g[m])
        BY <4>2, DecRounds
      <4>4. Chaining(g[m])
        BY <1>3, <2>2, <4>3, ChainKeeps
      <4>5. QED
        BY <2>3, <4>3, <4>4, FlushKeeps
    <3>2. CASE l # 0
      <4>1. PICK g : /\ g[0] = d
                     /\ \A k \in 1..m : g[k] = DecWhole(g[k - 1], p[k])
                     /\ CryptRawCBC(d, in, Back) = Flush(DecRest(g[m], q))
        BY <2>1, <3>2, DecSteps
      <4>2. Chaining(g[m])
        BY <1>3, <2>2, <4>1, ChainKeeps
      <4>3. Context(DecRest(g[m], q))
        BY <2>2, <4>2, RestKeeps
      <4>4. QED
        BY <4>1, <4>3, FlushKeeps
    <3>3. QED
      BY <3>1, <3>2
  <2>5. CryptRaw(c, in, Back) = CryptRawCBC(d, in, Back)
    BY <1>4, <1>7 DEF BLOCK
  <2>6. QED
    BY <2>4, <2>5
<1>8. QED
  BY <1>5, <1>6, <1>7

\* AES leaves the last block of the ciphertext for its vector.
LEMMA AesKeeps ==
    ASSUME NEW d, IsBytes(d, BLOCK), NEW in \in Seq(Byte)
    PROVE  IsBytes(DecodeAes(d, in).ctx, BLOCK)
<1> DEFINE body == SubSeq(in, OVERHEAD + 1, Len(in))
           w == ClearIvec(d)
           r == CbcDecrypt(body, w)
           None == Result(TRUE, <<>>, d)
           Bad == Result(TRUE, Zeros(Len(body)), r[2])
           Good == Result(TRUE, SubSeq(r[1], NONCE + 1, NONCE + (Len(body) - r[1][Len(body)] - NONCE)), r[2])
<1>1. DecodeAes(d, in)
          = IF Undecodable(in) \/ Len(body) % BLOCK # 0 THEN None
            ELSE IF Len(body) - r[1][Len(body)] - NONCE < 0 THEN Bad ELSE Good
  BY DEF DecodeAes
<1>2. None.ctx = d /\ Bad.ctx = r[2] /\ Good.ctx = r[2]
  BY DEF Result
<1>3. CASE Undecodable(in) \/ Len(body) % BLOCK # 0
  <2> HIDE DEF None, Bad, Good, body
  <2>1. DecodeAes(d, in) = None
    BY <1>1, <1>3
  <2>2. QED
    BY <1>2, <2>1
<1>4. CASE ~Undecodable(in) /\ Len(body) % BLOCK = 0
  <2>1. Len(in) \in Nat /\ Len(in) >= 9 /\ OVERHEAD = 5
    BY <1>4, LenProperties DEF Undecodable, OVERHEAD, NONCE
  <2>2. PICK n \in Nat : n = Len(body) /\ IsBytes(body, n) /\ n >= 4
    <3>1. PICK i, k : i \in Nat /\ k \in Nat /\ i = 5 /\ i + k = Len(in) /\ k >= 4
      <4>1. 5 \in Nat /\ Len(in) - 5 \in Nat /\ 5 + (Len(in) - 5) = Len(in) /\ Len(in) - 5 >= 4
        BY <2>1
      <4>2. QED
        BY <4>1
    <3>2. IsBytes(in, Len(in)) /\ i + k <= Len(in)
      BY <2>1, <3>1 DEF IsBytes
    <3>3. IsBytes(SubSeq(in, i + 1, i + k), k)
      BY <3>1, <3>2, PartBytes
    <3>4. body = SubSeq(in, i + 1, i + k)
      BY <2>1, <3>1
    <3> HIDE DEF body
    <3>5. IsBytes(body, k) /\ Len(body) = k
      BY <3>3, <3>4 DEF IsBytes
    <3>6. QED
      BY <3>1, <3>5
  <2> HIDE DEF body
  <2>3. PICK m, p, q, l : Laid(body, m, p, q, l) /\ n = 16 * m + l
    BY <2>2, LaidExists
  <2>4. m \in Nat /\ l = 0 /\ m # 0 /\ \A k \in 1..m : IsBytes(p[k], BLOCK)
    <3>1. m \in Nat /\ l \in Nat /\ l < 16 /\ \A k \in 1..m : IsBytes(p[k], BLOCK)
      BY <2>3 DEF Laid, IsBytes, BLOCK
    <3>2. (16 * m + l) % 16 = 0
      BY <1>4, <2>2, <2>3 DEF BLOCK
    <3>3. l = 0
      BY <3>1, <3>2
    <3>4. QED
      BY <2>2, <2>3, <3>1, <3>3
  <2>5. DOMAIN BlocksOf(body) = 1..m /\ \A k \in 1..m : BlocksOf(body)[k] = p[k]
    BY <2>3, <2>4, LaidBlocks
  <2>6. PICK g : Folds("aes", Back, <<<<>>, w>>, BlocksOf(body), m, g) /\ CbcDecrypt(body, w) = g[m]
    <3> HIDE DEF w
    <3>1. QED
      BY <2>4, <2>5, AesDecryptFold
  <2>7. m \in 1..m
    BY <2>4
  <2>8. g[m] = Step("aes", Back, g[m - 1], p[m])
    BY <2>5, <2>6, <2>7 DEF Folds
  <2>9. g[m][2] = p[m]
    BY <2>8 DEF Step, CipherStep, Back
  <2>10. r[2] = p[m] /\ IsBytes(p[m], BLOCK)
    BY <2>4, <2>6, <2>7, <2>9
  <2> HIDE DEF None, Bad, Good, r
  <2>11. DecodeAes(d, in) = Bad \/ DecodeAes(d, in) = Good
    BY <1>1, <1>4
  <2>12. QED
    BY <1>2, <2>10, <2>11
<1>5. QED
  BY <1>3, <1>4

\* A transform leaves a cipher in a state, whatever packet it is given: also one
\* that recvfrom cut off.
LEMMA RevKeeps ==
    ASSUME NEW transform \in Modes, NEW d, Cipher(d), NEW in \in Seq(Byte)
    PROVE  Cipher(Rev(transform, d, in).ctx)
<1>1. PICK t, v : d = Entry(t, v) /\ Resting(t) /\ IsBytes(v, BLOCK)
  BY DEF Cipher
<1>2. CASE transform = TRANSFORM.NULL
  <2>1. Rev(transform, d, in) = DecodeNull(d, in)
    BY <1>2, Untouched
  <2>2. DecodeNull(d, in).ctx = d
    BY DEF DecodeNull, Failed, Result
  <2>3. QED
    BY <2>1, <2>2
<1>3. CASE transform = TRANSFORM.TWOFISH
  <2> DEFINE text == SubSeq(in, OVERHEAD + 1, Len(in))
             r == DecodeTwofish(t, in)
  <2>1. Rev(transform, d, in) = InTf(Entry(t, v), r)
    BY <1>1, <1>3, TwofishBack
  <2>2. text \in Seq(Byte)
    <3>1. \A i \in (OVERHEAD + 1)..Len(in) : in[i] \in Byte
      BY LenProperties DEF OVERHEAD
    <3>2. QED
      BY <3>1, SubSeqProperties DEF OVERHEAD
  <2>3. Resting(r.ctx)
    <3> HIDE DEF text
    <3>1. CASE Undecodable(in)
      <4>1. r = Result(TRUE, <<>>, t)
        BY <3>1 DEF DecodeTwofish
      <4>2. r.ctx = t
        BY <4>1 DEF Result
      <4>3. QED
        BY <1>1, <4>2
    <3>2. CASE ~Undecodable(in)
      <4> DEFINE f == CryptRaw(t, text, Back)
      <4>1. r = FrameOf(f)
        BY <3>2 DEF DecodeTwofish, Back, text
      <4>2. Context(f)
        BY <1>1, <2>2, CryptKeeps DEF Resting
      <4> HIDE DEF f, r
      <4>3. r.ctx = Emptied(f)
        BY <4>1 DEF FrameOf, Result
      <4>4. QED
        BY <4>2, <4>3, EmptiedRests
    <3>3. QED
      BY <3>1, <3>2
  <2> HIDE DEF r
  <2>4. InTf(Entry(t, v), r).ctx = Entry(r.ctx, v)
    BY EntryFields DEF InTf, Result
  <2>5. Cipher(Entry(r.ctx, v))
    BY <1>1, <2>3 DEF Cipher
  <2>6. QED
    BY <2>1, <2>4, <2>5
<1>4. CASE transform = TRANSFORM.AESCBC
  <2> DEFINE r == DecodeAes(v, in)
  <2>1. Rev(transform, d, in) = InIvec(Entry(t, v), r)
    BY <1>1, <1>4, AesBack
  <2>2. IsBytes(r.ctx, BLOCK)
    BY <1>1, AesKeeps
  <2> HIDE DEF r
  <2>3. InIvec(Entry(t, v), r).ctx = Entry(t, r.ctx)
    BY EntryFields DEF InIvec, Result
  <2>4. Cipher(Entry(t, r.ctx))
    BY <1>1, <2>2 DEF Cipher
  <2>5. QED
    BY <2>1, <2>3, <2>4
<1>5. QED
  BY <1>2, <1>3, <1>4 DEF Modes

---------------------------------------------------------------------------
(* The header of a packet.                                                 *)

\* n fields of a fixed length each: p[j] is the place after the jth.
FixedFields(lay, n, m) ==
    /\ n \in Nat /\ lay = [j \in 1..n |-> lay[j]]
    /\ \A j \in 1..n : lay[j][2] \in {"num", "buf"} /\ FieldFits(lay[j], m)

\* A field of fixed length, and layouts of such fields.
LEMMA FixedField ==
    ASSUME NEW k, NEW m, k[2] \in {"num", "buf"}, FieldFits(k, m)
    PROVE  IsBytes(PutField(k, m), k[3])
<1>1. CASE k[2] = "num"
  <2>1. k[3] \in {1, 2} /\ m[k[1]] \in Numbers(k[3])
    BY <1>1 DEF FieldFits
  <2>2. PutField(k, m) = Bytes(m[k[1]], k[3])
    BY <1>1 DEF PutField
  <2>3. IsBytes(Bytes(m[k[1]], k[3]), k[3])
    BY <2>1, NumberLen
  <2>4. QED
    BY <2>2, <2>3
<1>2. CASE k[2] = "buf"
  BY <1>2 DEF FieldFits, PutField
<1>3. QED
  BY <1>1, <1>2

\* n fields that are l[1], ..., l[n] bytes long.
FieldsOf(lay, n, m, l) ==
    /\ n \in Nat /\ lay = [j \in 1..n |-> lay[j]]
    /\ \A j \in 1..n : IsBytes(PutField(lay[j], m), l[j])

LEMMA FieldsLen ==
    ASSUME NEW lay, NEW n, NEW m, NEW l, FieldsOf(lay, n, m, l)
    PROVE  \E p : /\ p[0] = 0 /\ \A j \in 1..n : p[j] = p[j - 1] + l[j]
                  /\ IsBytes(Encode(lay, m), p[n])
<1> DEFINE s == [j \in 1..n |-> PutField(lay[j], m)]
<1>1. n \in Nat /\ DOMAIN lay = 1..n
  BY DEF FieldsOf
<1>2. Encode(lay, m) = FlattenSeq(s)
  BY <1>1 DEF Encode
<1>3. ASSUME NEW j \in 1..n PROVE IsBytes(s[j], l[j])
  BY DEF FieldsOf
<1> HIDE DEF s
<1>4. s \in [1..n -> Seq(Byte)]
  BY <1>3 DEF IsBytes, s
<1>5. PICK g : /\ g[0] = <<>>
               /\ \A i \in 1..n : g[i] = g[i - 1] \o s[i]
               /\ FlattenSeq(s) = g[n]
  BY <1>1, <1>4, FlattenSteps
<1>6. \A k \in 0..n : g[k] \in Seq(Byte) /\ Len(g[k]) \in Nat
  BY <1>1, <1>4, <1>5, FlattenTypes
<1> DEFINE p == [j \in 0..n |-> Len(g[j])]
<1>7. p[0] = 0
  BY <1>1, <1>5
<1>8. ASSUME NEW j \in 1..n PROVE p[j] = p[j - 1] + l[j]
  <2>1. j \in 0..n /\ j - 1 \in 0..n
    BY <1>1
  <2>2. p[j] = Len(g[j]) /\ p[j - 1] = Len(g[j - 1])
    BY <2>1
  <2>3. g[j] = g[j - 1] \o s[j] /\ g[j - 1] \in Seq(Byte) /\ s[j] \in Seq(Byte)
    BY <1>3, <1>5, <1>6, <2>1 DEF IsBytes
  <2>4. Len(g[j]) = Len(g[j - 1]) + Len(s[j])
    BY <2>3, ConcatProperties
  <2>5. Len(s[j]) = l[j]
    BY <1>3 DEF IsBytes
  <2>6. QED
    BY <2>2, <2>4, <2>5
<1>9. IsBytes(g[n], p[n])
  BY <1>1, <1>6 DEF IsBytes
<1> HIDE DEF p
<1>10. QED
  BY <1>2, <1>5, <1>7, <1>8, <1>9

LEMMA FixedLen ==
    ASSUME NEW lay, NEW n, NEW m, FixedFields(lay, n, m)
    PROVE  \E p : /\ p[0] = 0 /\ \A j \in 1..n : p[j] = p[j - 1] + lay[j][3]
                  /\ IsBytes(Encode(lay, m), p[n])
<1> DEFINE l == [j \in 1..n |-> lay[j][3]]
<1>1. ASSUME NEW j \in 1..n PROVE IsBytes(PutField(lay[j], m), l[j])
  BY FixedField DEF FixedFields
<1>2. \A j \in 1..n : l[j] = lay[j][3]
  OBVIOUS
<1> HIDE DEF l
<1>3. FieldsOf(lay, n, m, l)
  BY <1>1 DEF FieldsOf, FixedFields
<1>4. PICK p : /\ p[0] = 0 /\ \A j \in 1..n : p[j] = p[j - 1] + l[j]
               /\ IsBytes(Encode(lay, m), p[n])
  BY <1>3, FieldsLen
<1>5. QED
  BY <1>2, <1>4

\* The header is 20 bytes long, and the message of a frame 14.
LEMMA CommonLen ==
    ASSUME NEW c \in CommonParts
    PROVE  IsBytes(EncodeCommon(c), 20)
<1> DEFINE m == [version |-> N2N_PKT_VERSION, ttl |-> c.ttl, community |-> c.community,
                 flags |-> (c.pc % 32) + (c.flags \div 32) * 32]
           lay == CommonLayout
<1>1. Carries(lay, 4, m, Blank(lay))
  BY CommonCarried
<1>2. EncodeCommon(c) = Encode(lay, m)
  BY DEF EncodeCommon
<1> HIDE DEF m
<1>3. \A j \in 1..4 : FieldFits(lay[j], m)
  BY <1>1 DEF Carries, LaidOut
<1>4. lay = [j \in 1..4 |-> lay[j]] /\ \A j \in 1..4 : lay[j][2] \in {"num", "buf"}
  BY DEF CommonLayout
<1>5. lay[1][3] = 1 /\ lay[2][3] = 1 /\ lay[3][3] = 2 /\ lay[4][3] = 16
  BY DEF CommonLayout
<1> HIDE DEF lay
<1>6. FixedFields(lay, 4, m)
  BY <1>3, <1>4 DEF FixedFields
<1>7. PICK p : /\ p[0] = 0 /\ \A j \in 1..4 : p[j] = p[j - 1] + lay[j][3]
               /\ IsBytes(Encode(lay, m), p[4])
  BY <1>6, FixedLen
<1>8. p[1] = 0 + 1 /\ p[2] = p[1] + 1 /\ p[3] = p[2] + 2 /\ p[4] = p[3] + 16
  <2>1. p[1] = p[1 - 1] + lay[1][3] /\ p[2] = p[2 - 1] + lay[2][3]
    BY <1>7
  <2>2. p[3] = p[3 - 1] + lay[3][3] /\ p[4] = p[4 - 1] + lay[4][3]
    BY <1>7
  <2>3. 1 - 1 = 0 /\ 2 - 1 = 1 /\ 3 - 1 = 2 /\ 4 - 1 = 3
    OBVIOUS
  <2>4. QED
    BY <1>5, <1>7, <2>1, <2>2, <2>3
<1>9. p[4] = 20
  BY <1>8
<1>10. QED
  BY <1>2, <1>7, <1>9

\* A packet's body without a socket.
Short == << <<"srcMac", "buf", 6>>, <<"dstMac", "buf", 6>>, <<"transform", "num", 2>> >>

LEMMA ShortLayout ==
    /\ BodyLayout(PC.PACKET, FALSE) = Short
    /\ DOMAIN Short = 1..3 /\ Short = [j \in 1..3 |-> Short[j]]
    /\ Short[1] = <<"srcMac", "buf", 6>> /\ Short[2] = <<"dstMac", "buf", 6>>
    /\ Short[3] = <<"transform", "num", 2>>
<1> DEFINE k1 == <<"srcMac", "buf", 6>>
           k2 == <<"dstMac", "buf", 6>>
           k4 == <<"transform", "num", 2>>
<1>1. (<<k1, k2>> \o <<>>) \o <<k4>> = <<k1, k2, k4>>
  <2> HIDE DEF k1, k2, k4
  <2>1. <<k1, k2>> \o <<>> = <<k1, k2>>
    BY TuplesJoined
  <2>2. <<k1, k2>> \o <<k4>> = <<k1, k2, k4>>
    BY TuplesJoined
  <2>3. QED
    BY <2>1, <2>2
<1>2. BodyLayout(PC.PACKET, FALSE) = (<<k1, k2>> \o <<>>) \o <<k4>>
  BY DEF BodyLayout, PC
<1>3. Short = <<k1, k2, k4>>
  BY DEF Short
<1>4. Short[1] = k1 /\ Short[2] = k2 /\ Short[3] = k4 /\ DOMAIN Short = 1..3 /\ Short = [j \in 1..3 |-> Short[j]]
  BY DEF Short
<1>5. QED
  BY <1>1, <1>2, <1>3, <1>4

\* What an edge tells of a frame.
Telling(m) ==
    /\ IsBytes(m.srcMac, 6) /\ IsBytes(m.dstMac, 6) /\ m.transform \in Numbers(2) /\ m.sock = NoSock
    /\ m = [srcMac |-> m.srcMac, dstMac |-> m.dstMac, sock |-> m.sock, transform |-> m.transform]

LEMMA ShortFits ==
    ASSUME NEW m, Telling(m)
    PROVE  FixedFields(Short, 3, m)
<1>1. \A j \in 1..3 : Short[j][2] \in {"num", "buf"} /\ FieldFits(Short[j], m)
  BY DEF Short, FieldFits, Telling
<1>2. QED
  BY <1>1, ShortLayout DEF FixedFields

LEMMA ShortLen ==
    ASSUME NEW m, Telling(m)
    PROVE  IsBytes(Encode(Short, m), 14)
<1>1. PICK p : /\ p[0] = 0 /\ \A j \in 1..3 : p[j] = p[j - 1] + Short[j][3]
               /\ IsBytes(Encode(Short, m), p[3])
  BY ShortFits, FixedLen
<1>2. Short[1][3] = 6 /\ Short[2][3] = 6 /\ Short[3][3] = 2
  BY DEF Short
<1>3. p[1] = 0 + 6 /\ p[2] = p[1] + 6 /\ p[3] = p[2] + 2
  <2>1. p[1] = p[1 - 1] + Short[1][3] /\ p[2] = p[2 - 1] + Short[2][3]
    BY <1>1
  <2>2. p[3] = p[3 - 1] + Short[3][3]
    BY <1>1
  <2>3. 1 - 1 = 0 /\ 2 - 1 = 1 /\ 3 - 1 = 2
    OBVIOUS
  <2>4. QED
    BY <1>1, <1>2, <2>1, <2>2, <2>3
<1>4. p[3] = 14
  BY <1>3
<1>5. QED
  BY <1>1, <1>4

\* One field after the other.
Taken(k, m, b, i, m2, i2) == SetField(m, k[1], TakeField(k, m, b, i)) = <<m2, i2>>

Three(lay, k1, k2, k3) == DOMAIN lay = 1..3 /\ lay[1] = k1 /\ lay[2] = k2 /\ lay[3] = k3

\* A layout of three fields, read one by one.
LEMMA ThreeTaken ==
    ASSUME NEW lay, NEW k1, NEW k2, NEW k3, Three(lay, k1, k2, k3), NEW b, NEW m0, NEW i0,
           NEW m1, NEW i1, Taken(k1, m0, b, i0, m1, i1),
           NEW m2, NEW i2, Taken(k2, m1, b, i1, m2, i2),
           NEW m3, NEW i3, Taken(k3, m2, b, i2, m3, i3)
    PROVE  Decode(lay, m0, b, i0) = <<m3, i3>>
<1>0. DOMAIN lay = 1..3 /\ lay[1] = k1 /\ lay[2] = k2 /\ lay[3] = k3
  BY DEF Three
<1>1. PICK g : Folds("layout", b, <<m0, i0>>, lay, 3, g) /\ g[3] = Decode(lay, m0, b, i0)
  <2>1. PICK n \in Nat : n = 3
    OBVIOUS
  <2>2. DOMAIN lay = 1..n
    BY <1>0, <2>1
  <2>3. \E g : Folds("layout", b, <<m0, i0>>, lay, n, g) /\ g[n] = Decode(lay, m0, b, i0)
    BY <2>2, LayoutFolds
  <2>4. QED
    BY <2>1, <2>3
<1>2. g[0] = <<m0, i0>> /\ \A i \in 1..3 : g[i] = Step("layout", b, g[i - 1], lay[i])
  BY <1>1 DEF Folds
<1>3. \A acc, item : Step("layout", b, acc, item) = SetField(acc[1], item[1], TakeField(item, acc[1], b, acc[2]))
  BY DEF Step
<1>4. ASSUME NEW i \in 1..3, NEW m, NEW j, NEW n, NEW l, g[i - 1] = <<m, j>>, Taken(lay[i], m, b, j, n, l)
      PROVE  g[i] = <<n, l>>
  <2> DEFINE acc == g[i - 1]
  <2>1. g[i] = SetField(acc[1], lay[i][1], TakeField(lay[i], acc[1], b, acc[2]))
    BY <1>2, <1>3
  <2>2. acc[1] = m /\ acc[2] = j
    BY <1>4
  <2> HIDE DEF acc
  <2>3. g[i] = SetField(m, lay[i][1], TakeField(lay[i], m, b, j))
    BY <2>1, <2>2
  <2>4. QED
    BY <1>4, <2>3 DEF Taken
<1>5. g[1] = <<m1, i1>>
  <2>1. g[1 - 1] = <<m0, i0>>
    BY <1>2
  <2>2. QED
    BY <1>0, <1>4, <2>1
<1>6. g[2] = <<m2, i2>>
  <2>1. g[2 - 1] = <<m1, i1>>
    BY <1>5
  <2>2. QED
    BY <1>0, <1>4, <2>1
<1>7. g[3] = <<m3, i3>>
  <2>1. g[3 - 1] = <<m2, i2>>
    BY <1>6
  <2>2. QED
    BY <1>0, <1>4, <2>1
<1>8. QED
  BY <1>1, <1>7

\* A number that is not there as a whole leaves the field as it is.
LEMMA NumberGone ==
    ASSUME NEW b, NEW i, ~(i + 2 <= Len(b)), NEW v \in Numbers(2)
    PROVE  TakeNum(b, i, 2, v) = <<v, i>>
<1>1. Take(b, i, 2, Bytes(v, 2)) = <<Bytes(v, 2), i>>
  BY DEF Take
<1>2. Number(Bytes(v, 2)) = v
  BY NumberOfBytes
<1>3. QED
  BY <1>1, <1>2 DEF TakeNum, NumberOf

\* The message read from a datagram that lost its last byte.
Nameless(m) == [srcMac |-> m.srcMac, dstMac |-> m.dstMac, sock |-> NoSock, transform |-> 0]

\* The message of a packet before it is filled in.
LEMMA BlankPacket ==
    Blank(BodyLayout(PC.PACKET, TRUE))
        = [srcMac |-> Zeros(6), dstMac |-> Zeros(6), sock |-> NoSock, transform |-> 0]
<1> DEFINE k1 == <<"srcMac", "buf", 6>>
           k2 == <<"dstMac", "buf", 6>>
           k3 == <<"sock", "sock", 0>>
           k4 == <<"transform", "num", 2>>
           full == <<k1, k2, k3, k4>>
<1>1. BodyLayout(PC.PACKET, TRUE) = full
  <2>1. (<<k1, k2>> \o <<k3>>) \o <<k4>> = full
    <3> HIDE DEF k1, k2, k3, k4
    <3>1. <<k1, k2>> \o <<k3>> = <<k1, k2, k3>>
      BY TuplesJoined
    <3>2. <<k1, k2, k3>> \o <<k4>> = full
      BY TuplesJoined
    <3>3. QED
      BY <3>1, <3>2
  <2>2. BodyLayout(PC.PACKET, TRUE) = (<<k1, k2>> \o <<k3>>) \o <<k4>>
    BY DEF BodyLayout, PC
  <2>3. QED
    BY <2>1, <2>2
<1> DEFINE blank == Blank(full)
<1>2. Named(full, 4)
  BY DEF Named
<1>3. {full[j][1] : j \in 1..4} = {"srcMac", "dstMac", "sock", "transform"}
  OBVIOUS
<1>4. /\ BlankOf(full[1]) = Zeros(6) /\ BlankOf(full[2]) = Zeros(6)
      /\ BlankOf(full[3]) = NoSock /\ BlankOf(full[4]) = 0
  BY DEF BlankOf
<1>5. full[1][1] = "srcMac" /\ full[2][1] = "dstMac" /\ full[3][1] = "sock" /\ full[4][1] = "transform"
  OBVIOUS
<1> HIDE DEF full
<1>6. /\ DOMAIN blank = {"srcMac", "dstMac", "sock", "transform"}
      /\ blank = [f \in DOMAIN blank |-> blank[f]]
      /\ \A j \in 1..4 : blank[full[j][1]] = BlankOf(full[j])
  <2>1. PICK n : n = 4
    OBVIOUS
  <2>2. Named(full, n)
    BY <1>2, <2>1
  <2>3. DOMAIN blank = {full[j][1] : j \in 1..n} /\ blank = [f \in DOMAIN blank |-> blank[f]]
    BY <2>2, BlankDomain
  <2>4. ASSUME NEW j \in 1..n PROVE blank[full[j][1]] = BlankOf(full[j])
    BY <2>2, BlankField
  <2>5. QED
    BY <1>3, <2>1, <2>3, <2>4
<1>7. /\ blank["srcMac"] = Zeros(6) /\ blank["dstMac"] = Zeros(6)
      /\ blank["sock"] = NoSock /\ blank["transform"] = 0
  <2> HIDE DEF blank
  <2>1. blank[full[1][1]] = BlankOf(full[1]) /\ blank[full[2][1]] = BlankOf(full[2])
    BY <1>6
  <2>2. blank[full[3][1]] = BlankOf(full[3]) /\ blank[full[4][1]] = BlankOf(full[4])
    BY <1>6
  <2>3. QED
    BY <1>4, <1>5, <2>1, <2>2
<1> HIDE DEF blank
<1>8. blank = [srcMac |-> Zeros(6), dstMac |-> Zeros(6), sock |-> NoSock, transform |-> 0]
  BY <1>6, <1>7
<1>9. QED
  BY <1>1, <1>8 DEF blank

\* Without its last byte, the header says nothing of the transform: what is
\* left of it is not read.
LEMMA NamelessRead ==
    ASSUME NEW m, Telling(m), NEW b, Len(b) \in Nat, NEW i,
           At(b, i, m.srcMac), At(b, i + 6, m.dstMac), ~(i + 6 + 6 + 2 <= Len(b))
    PROVE  Decode(Short, Blank(BodyLayout(PC.PACKET, TRUE)), b, i) = <<Nameless(m), i + 6 + 6>>
<1> DEFINE k1 == <<"srcMac", "buf", 6>>
           k2 == <<"dstMac", "buf", 6>>
           k4 == <<"transform", "num", 2>>
           x == m.srcMac
           y == m.dstMac
           m0 == [srcMac |-> Zeros(6), dstMac |-> Zeros(6), sock |-> NoSock, transform |-> 0]
           m1 == [srcMac |-> x, dstMac |-> Zeros(6), sock |-> NoSock, transform |-> 0]
           m2 == [srcMac |-> x, dstMac |-> y, sock |-> NoSock, transform |-> 0]
           i1 == i + 6
           i2 == i + 6 + 6
<1>1. Len(x) = 6 /\ Len(y) = 6 /\ i \in Nat
  BY DEF Telling, IsBytes, At
<1>2. Taken(k1, m0, b, i, m1, i1)
  <2>1. \A old : Take(b, i, Len(x), old) = <<x, i + Len(x)>>
    BY TakeAt
  <2>2. \A old : Take(b, i, 6, old) = <<x, i1>>
    BY <1>1, <2>1
  <2>3. TakeField(k1, m0, b, i) = Take(b, i, 6, m0.srcMac)
    BY DEF TakeField
  <2> HIDE DEF x
  <2>4. [m0 EXCEPT !["srcMac"] = x] = m1
    OBVIOUS
  <2> HIDE DEF m0, m1, i1
  <2>5. TakeField(k1, m0, b, i) = <<x, i1>>
    BY <2>2, <2>3
  <2>6. SetField(m0, "srcMac", <<x, i1>>) = <<m1, i1>>
    BY <2>4 DEF SetField
  <2>7. QED
    BY <2>5, <2>6 DEF Taken
<1>3. Taken(k2, m1, b, i1, m2, i2)
  <2>1. \A old : Take(b, i1, Len(y), old) = <<y, i1 + Len(y)>>
    BY TakeAt
  <2>2. \A old : Take(b, i1, 6, old) = <<y, i2>>
    BY <1>1, <2>1
  <2>3. TakeField(k2, m1, b, i1) = Take(b, i1, 6, m1.dstMac)
    BY DEF TakeField
  <2> HIDE DEF x, y
  <2>4. [m1 EXCEPT !["dstMac"] = y] = m2
    OBVIOUS
  <2> HIDE DEF m1, m2, i1, i2
  <2>5. TakeField(k2, m1, b, i1) = <<y, i2>>
    BY <2>2, <2>3
  <2>6. SetField(m1, "dstMac", <<y, i2>>) = <<m2, i2>>
    BY <2>4 DEF SetField
  <2>7. QED
    BY <2>5, <2>6 DEF Taken
<1>4. Taken(k4, m2, b, i2, m2, i2)
  <2>1. TakeField(k4, m2, b, i2) = TakeNum(b, i2, 2, m2.transform)
    BY DEF TakeField
  <2>2. m2.transform = 0 /\ 0 \in Numbers(2)
    BY DEF Numbers, Word
  <2> HIDE DEF x, y
  <2>3. [m2 EXCEPT !["transform"] = 0] = m2
    OBVIOUS
  <2>4. ~(i2 + 2 <= Len(b))
    OBVIOUS
  <2> HIDE DEF m2, i2
  <2>5. TakeNum(b, i2, 2, m2.transform) = <<m2.transform, i2>>
    BY <2>2, <2>4, NumberGone
  <2>6. SetField(m2, "transform", <<0, i2>>) = <<m2, i2>>
    BY <2>3 DEF SetField
  <2>7. QED
    BY <2>1, <2>2, <2>5, <2>6 DEF Taken
<1>5. Blank(BodyLayout(PC.PACKET, TRUE)) = m0
  BY BlankPacket
<1>6. m2 = Nameless(m)
  BY DEF Nameless
<1> HIDE DEF m0, m1, m2, i1, i2
<1>7. Decode(Short, m0, b, i) = <<m2, i2>>
  <2>1. Three(Short, k1, k2, k4)
    BY ShortLayout DEF Three
  <2> HIDE DEF k1, k2, k4
  <2>2. QED
    BY <1>2, <1>3, <1>4, <2>1, ThreeTaken
<1>8. QED
  BY <1>5, <1>6, <1>7 DEF i2

\* The header of a packet that an edge sends.
LEMMA PacketHeader ==
    ASSUME NEW c \in CommonParts, c.pc = PC.PACKET, NEW m, Telling(m)
    PROVE  /\ EncodeN2N(c, m) = EncodeCommon(c) \o Encode(Short, m)
           /\ IsBytes(EncodeN2N(c, m), 34)
<1>1. HasOptionalSock(c.pc) /\ m.sock.family = 0
  BY DEF HasOptionalSock, Telling, NoSock
<1>2. BodyLayout(c.pc, HasOptionalSock(c.pc) => m.sock.family # 0) = Short
  <2> DEFINE there == HasOptionalSock(c.pc) => m.sock.family # 0
  <2>1. there = FALSE
    BY <1>1
  <2> HIDE DEF there
  <2>2. BodyLayout(c.pc, there) = BodyLayout(PC.PACKET, FALSE)
    BY <2>1
  <2>3. QED
    BY <2>2, ShortLayout DEF there
<1>3. EncodeN2N(c, m) = EncodeCommon(c) \o Encode(Short, m)
  BY <1>2 DEF EncodeN2N
<1>4. IsBytes(EncodeCommon(c) \o Encode(Short, m), 20 + 14)
  BY CommonLen, ShortLen, ConcatBytes
<1>5. QED
  BY <1>3, <1>4

\* With an IPv4 socket in it, as a supernode relays it, the header is 42 bytes long.
Long == << <<"srcMac", "buf", 6>>, <<"dstMac", "buf", 6>>, <<"sock", "sock", 0>>, <<"transform", "num", 2>> >>

LEMMA SockLen ==
    ASSUME NEW s \in IPv4
    PROVE  IsBytes(PutSock(s), 8)
<1> DEFINE x == Bytes(0, 2)
           y == Bytes(s.port, 2)
           z == s.addr
<1>1. s.family = AF_INET /\ s.port \in Numbers(2) /\ z \in [1..4 -> Byte] /\ 0 \in Numbers(2)
  BY DEF IPv4, Numbers, Word
<1>2. PutSock(s) = (x \o y) \o z
  BY <1>1 DEF PutSock
<1>3. IsBytes(x, 2) /\ IsBytes(y, 2)
  <2>1. \A v \in Numbers(2) : IsBytes(Bytes(v, 2), 2)
    BY NumberLen
  <2>2. QED
    BY <1>1, <2>1
<1> HIDE DEF x, y
<1>4. IsBytes(z, 4)
  <2>1. PICK n \in Nat : n = 4
    OBVIOUS
  <2>2. z \in [1..n -> Byte]
    BY <1>1, <2>1
  <2> HIDE DEF z
  <2>3. IsBytes(z, n)
    BY <2>2, BytesFunction
  <2>4. QED
    BY <2>1, <2>3
<1> HIDE DEF z
<1>5. IsBytes(x \o y, 2 + 2)
  BY <1>3, ConcatBytes
<1>6. IsBytes((x \o y) \o z, 2 + 2 + 4)
  BY <1>4, <1>5, ConcatBytes
<1>7. 2 + 2 + 4 = 8
  OBVIOUS
<1>8. QED
  BY <1>2, <1>6, <1>7

LEMMA LongLen ==
    ASSUME NEW m, IsBytes(m.srcMac, 6), IsBytes(m.dstMac, 6), m.sock \in IPv4, m.transform \in Numbers(2)
    PROVE  BodyLayout(PC.PACKET, TRUE) = Long /\ IsBytes(Encode(Long, m), 22)
<1> DEFINE k1 == <<"srcMac", "buf", 6>>
           k2 == <<"dstMac", "buf", 6>>
           k3 == <<"sock", "sock", 0>>
           k4 == <<"transform", "num", 2>>
           l == <<6, 6, 8, 2>>
<1>1. BodyLayout(PC.PACKET, TRUE) = Long
  <2>1. (<<k1, k2>> \o <<k3>>) \o <<k4>> = <<k1, k2, k3, k4>>
    <3> HIDE DEF k1, k2, k3, k4
    <3>1. <<k1, k2>> \o <<k3>> = <<k1, k2, k3>>
      BY TuplesJoined
    <3>2. <<k1, k2, k3>> \o <<k4>> = <<k1, k2, k3, k4>>
      BY TuplesJoined
    <3>3. QED
      BY <3>1, <3>2
  <2>2. BodyLayout(PC.PACKET, TRUE) = (<<k1, k2>> \o <<k3>>) \o <<k4>>
    BY DEF BodyLayout, PC
  <2>3. QED
    BY <2>1, <2>2 DEF Long
<1>2. /\ DOMAIN Long = 1..4 /\ Long = [j \in 1..4 |-> Long[j]]
      /\ Long[1] = k1 /\ Long[2] = k2 /\ Long[3] = k3 /\ Long[4] = k4
  BY DEF Long
<1>3. l[1] = 6 /\ l[2] = 6 /\ l[3] = 8 /\ l[4] = 2
  OBVIOUS
<1>4. /\ PutField(k1, m) = m.srcMac /\ PutField(k2, m) = m.dstMac
      /\ PutField(k3, m) = PutSock(m.sock) /\ PutField(k4, m) = Bytes(m.transform, 2)
  BY DEF PutField
<1> HIDE DEF k1, k2, k3, k4, l
<1>5. IsBytes(PutSock(m.sock), 8) /\ IsBytes(Bytes(m.transform, 2), 2)
  <2>1. \A v \in Numbers(2) : IsBytes(Bytes(v, 2), 2)
    BY NumberLen
  <2>2. QED
    BY <2>1, SockLen
<1>6. ASSUME NEW j \in 1..4 PROVE IsBytes(PutField(Long[j], m), l[j])
  <2>1. j = 1 \/ j = 2 \/ j = 3 \/ j = 4
    OBVIOUS
  <2>2. QED
    BY <1>2, <1>3, <1>4, <1>5, <2>1
<1>7. FieldsOf(Long, 4, m, l)
  BY <1>2, <1>6 DEF FieldsOf
<1>8. PICK p : /\ p[0] = 0 /\ \A j \in 1..4 : p[j] = p[j - 1] + l[j]
               /\ IsBytes(Encode(Long, m), p[4])
  BY <1>7, FieldsLen
<1>9. p[1] = 0 + 6 /\ p[2] = p[1] + 6 /\ p[3] = p[2] + 8 /\ p[4] = p[3] + 2
  <2>1. p[1] = p[1 - 1] + l[1] /\ p[2] = p[2 - 1] + l[2]
    BY <1>8
  <2>2. p[3] = p[3 - 1] + l[3] /\ p[4] = p[4 - 1] + l[4]
    BY <1>8
  <2>3. 1 - 1 = 0 /\ 2 - 1 = 1 /\ 3 - 1 = 2 /\ 4 - 1 = 3
    OBVIOUS
  <2>4. QED
    BY <1>3, <1>8, <2>1, <2>2, <2>3
<1>10. p[4] = 22
  BY <1>9
<1>11. QED
  BY <1>1, <1>8, <1>10

\* A body of k bytes behind the common part.
LEMMA HeaderLen ==
    ASSUME NEW c \in CommonParts, NEW m, NEW lay, NEW k, IsBytes(Encode(lay, m), k),
           BodyLayout(c.pc, HasOptionalSock(c.pc) => m.sock.family # 0) = lay
    PROVE  IsBytes(EncodeN2N(c, m), 20 + k)
<1>1. EncodeN2N(c, m) = EncodeCommon(c) \o Encode(lay, m)
  BY DEF EncodeN2N
<1>2. IsBytes(EncodeCommon(c) \o Encode(lay, m), 20 + k)
  BY CommonLen, ConcatBytes
<1>3. QED
  BY <1>1, <1>2

LEMMA RelayedHeader ==
    ASSUME NEW c \in CommonParts, c.pc = PC.PACKET, NEW m \in Messages(PC.PACKET), m.sock \in IPv4
    PROVE  IsBytes(EncodeN2N(c, m), 42)
<1>1. IsBytes(m.srcMac, 6) /\ IsBytes(m.dstMac, 6) /\ m.transform \in Numbers(2)
  BY DEF Messages, PC, BytesOf
<1>2. m.sock.family # 0
  BY DEF IPv4, AF_INET
<1> DEFINE there == HasOptionalSock(c.pc) => m.sock.family # 0
<1>3. there = TRUE
  BY <1>2
<1> HIDE DEF there
<1>4. BodyLayout(c.pc, there) = Long /\ IsBytes(Encode(Long, m), 22)
  BY <1>1, <1>3, LongLen
<1>5. IsBytes(EncodeN2N(c, m), 20 + 22)
  <2>1. PICK k : k = 22
    OBVIOUS
  <2>2. IsBytes(Encode(Long, m), k)
    BY <1>4, <2>1
  <2>3. IsBytes(EncodeN2N(c, m), 20 + k)
    BY <1>4, <2>2, HeaderLen DEF there
  <2>4. QED
    BY <2>1, <2>3
<1>6. QED
  BY <1>5

\* The messages of a handshake are 36 bytes long,
Greeting(m) ==
    \E x, y, z : /\ IsBytes(x, 4) /\ IsBytes(y, 6) /\ IsBytes(z, 6)
                 /\ m = [cookie |-> x, srcMac |-> y, dstMac |-> z, sock |-> NoSock]

LEMMA GreetingLen ==
    ASSUME NEW c \in CommonParts, c.pc \in {PC.REGISTER, PC.REGISTER_ACK}, NEW m, Greeting(m)
    PROVE  IsBytes(EncodeN2N(c, m), 36)
<1> DEFINE pc == c.pc
           first == IF pc = PC.REGISTER THEN "srcMac" ELSE "dstMac"
           second == IF pc = PC.REGISTER THEN "dstMac" ELSE "srcMac"
           k1 == <<"cookie", "buf", 4>>
           k2 == <<first, "buf", 6>>
           k3 == <<second, "buf", 6>>
           lay == <<k1, k2, k3>>
<1>1. PICK x, y, z : /\ IsBytes(x, 4) /\ IsBytes(y, 6) /\ IsBytes(z, 6)
                     /\ m = [cookie |-> x, srcMac |-> y, dstMac |-> z, sock |-> NoSock]
  BY DEF Greeting
<1>2. BodyLayout(pc, FALSE) = lay
  <2>1. <<k1, k2, k3>> \o <<>> = lay
    <3> HIDE DEF k1, k2, k3
    <3>1. QED
      BY TuplesJoined
  <2>2. BodyLayout(pc, FALSE) = <<k1, k2, k3>> \o <<>>
    <3>1. CASE pc = PC.REGISTER
      <4>1. first = "srcMac" /\ second = "dstMac"
        BY <3>1
      <4> HIDE DEF first, second
      <4>2. QED
        BY <3>1, <4>1, RegisterLayouts, Zenon
    <3>2. CASE pc = PC.REGISTER_ACK
      <4>1. first = "dstMac" /\ second = "srcMac"
        BY <3>2, RegisterLayouts
      <4> HIDE DEF first, second
      <4>2. QED
        BY <3>2, <4>1, RegisterLayouts, Zenon
    <3>3. QED
      BY <3>1, <3>2
  <2>3. QED
    BY <2>1, <2>2
<1>3. first \in {"srcMac", "dstMac"} /\ second \in {"srcMac", "dstMac"}
  OBVIOUS
<1> HIDE DEF first, second
<1>4. IsBytes(m["cookie"], 4) /\ IsBytes(m["srcMac"], 6) /\ IsBytes(m["dstMac"], 6) /\ m.sock.family = 0
  BY <1>1 DEF NoSock
<1>5. \A j \in 1..3 : lay[j][2] \in {"num", "buf"} /\ FieldFits(lay[j], m)
  BY <1>3, <1>4 DEF FieldFits
<1>6. lay = [j \in 1..3 |-> lay[j]] /\ lay[1][3] = 4 /\ lay[2][3] = 6 /\ lay[3][3] = 6
  OBVIOUS
<1> HIDE DEF lay
<1>7. FixedFields(lay, 3, m)
  BY <1>5, <1>6 DEF FixedFields
<1>8. PICK p : /\ p[0] = 0 /\ \A j \in 1..3 : p[j] = p[j - 1] + lay[j][3]
               /\ IsBytes(Encode(lay, m), p[3])
  BY <1>7, FixedLen
<1>9. p[1] = 0 + 4 /\ p[2] = p[1] + 6 /\ p[3] = p[2] + 6
  <2>1. p[1] = p[1 - 1] + lay[1][3] /\ p[2] = p[2 - 1] + lay[2][3]
    BY <1>8
  <2>2. p[3] = p[3 - 1] + lay[3][3]
    BY <1>8
  <2>3. 1 - 1 = 0 /\ 2 - 1 = 1 /\ 3 - 1 = 2
    OBVIOUS
  <2>4. QED
    BY <1>6, <1>8, <2>1, <2>2, <2>3
<1>10. 20 + p[3] = 36
  BY <1>9
<1>11. BodyLayout(c.pc, HasOptionalSock(c.pc) => m.sock.family # 0) = lay
  <2> DEFINE there == HasOptionalSock(c.pc) => m.sock.family # 0
  <2>1. there = FALSE
    BY <1>4 DEF HasOptionalSock
  <2> HIDE DEF there
  <2>2. BodyLayout(c.pc, there) = BodyLayout(pc, FALSE)
    BY <2>1
  <2>3. QED
    BY <1>2, <2>2 DEF there
<1>12. IsBytes(EncodeN2N(c, m), 20 + p[3])
  BY <1>8, <1>11, HeaderLen
<1>13. QED
  BY <1>10, <1>12

\* and a registration without a token 34.
LEMMA RegistrationLen ==
    ASSUME NEW c \in CommonParts, c.pc = PC.REGISTER_SUPER, NEW m \in Messages(PC.REGISTER_SUPER), m.toksize = 0
    PROVE  IsBytes(EncodeN2N(c, m), 34)
<1> DEFINE k1 == <<"cookie", "buf", 4>>
           k2 == <<"edgeMac", "buf", 6>>
           k3 == <<"scheme", "num", 2>>
           k4 == <<"toksize", "num", 2>>
           k5 == <<"token", "bytes", "toksize">>
           lay == <<k1, k2, k3, k4, k5>>
           l == <<4, 6, 2, 2, 0>>
<1>1. \A w : BodyLayout(PC.REGISTER_SUPER, w) = lay
  BY DEF BodyLayout, PC
<1>2. /\ IsBytes(m.cookie, 4) /\ IsBytes(m.edgeMac, 6) /\ IsBytes(m.token, 0)
      /\ m.scheme \in Numbers(2) /\ m.toksize \in Numbers(2)
  BY DEF Messages, PC, BytesOf
<1>3. /\ lay = [j \in 1..5 |-> lay[j]]
      /\ lay[1] = k1 /\ lay[2] = k2 /\ lay[3] = k3 /\ lay[4] = k4 /\ lay[5] = k5
  OBVIOUS
<1>4. l[1] = 4 /\ l[2] = 6 /\ l[3] = 2 /\ l[4] = 2 /\ l[5] = 0
  OBVIOUS
<1>5. /\ PutField(k1, m) = m.cookie /\ PutField(k2, m) = m.edgeMac /\ PutField(k5, m) = m.token
      /\ PutField(k3, m) = Bytes(m.scheme, 2) /\ PutField(k4, m) = Bytes(m.toksize, 2)
  BY DEF PutField
<1> HIDE DEF k1, k2, k3, k4, k5, l
<1> HIDE DEF lay
<1>6. IsBytes(Bytes(m.scheme, 2), 2) /\ IsBytes(Bytes(m.toksize, 2), 2)
  <2>1. \A v \in Numbers(2) : IsBytes(Bytes(v, 2), 2)
    BY NumberLen
  <2>2. QED
    BY <1>2, <2>1
<1>7. ASSUME NEW j \in 1..5 PROVE IsBytes(PutField(lay[j], m), l[j])
  <2>1. j = 1 \/ j = 2 \/ j = 3 \/ j = 4 \/ j = 5
    OBVIOUS
  <2>2. QED
    BY <1>2, <1>3, <1>4, <1>5, <1>6, <2>1
<1>8. FieldsOf(lay, 5, m, l)
  BY <1>3, <1>7 DEF FieldsOf
<1>9. PICK p : /\ p[0] = 0 /\ \A j \in 1..5 : p[j] = p[j - 1] + l[j]
               /\ IsBytes(Encode(lay, m), p[5])
  BY <1>8, FieldsLen
<1>10. p[1] = 0 + 4 /\ p[2] = p[1] + 6 /\ p[3] = p[2] + 2 /\ p[4] = p[3] + 2 /\ p[5] = p[4] + 0
  <2>1. p[1] = p[1 - 1] + l[1] /\ p[2] = p[2 - 1] + l[2]
    BY <1>9
  <2>2. p[3] = p[3 - 1] + l[3] /\ p[4] = p[4 - 1] + l[4] /\ p[5] = p[5 - 1] + l[5]
    BY <1>9
  <2>3. 1 - 1 = 0 /\ 2 - 1 = 1 /\ 3 - 1 = 2 /\ 4 - 1 = 3 /\ 5 - 1 = 4
    OBVIOUS
  <2>4. QED
    BY <1>4, <1>9, <2>1, <2>2, <2>3
<1>11. 20 + p[5] = 34
  BY <1>10
<1>12. IsBytes(EncodeN2N(c, m), 20 + p[5])
  BY <1>1, <1>9, HeaderLen
<1>13. QED
  BY <1>11, <1>12

\* What a receiver gets of a datagram of which its buffer holds the header.
RestOf(k, rest, x) == Len(x) <= Len(rest) /\ (k + Len(rest) <= PktBuf => x = rest)

LEMMA ReceivedParts ==
    ASSUME NEW h, NEW k, IsBytes(h, k), k <= PktBuf, NEW rest \in Seq(Byte)
    PROVE  \E x \in Seq(Byte) : Is(Received(h \o rest), h \o x) /\ RestOf(k, rest, x)
<1> DEFINE n == Len(rest)
           b == h \o rest
           l == PktBuf - k
<1>1. k \in Nat /\ h \in Seq(Byte) /\ Len(h) = k /\ n \in Nat /\ IsBytes(rest, n) /\ l \in Nat
  BY LenProperties, WireAssumption DEF IsBytes
<1>2. b \in Seq(Byte) /\ Len(b) = k + n
  BY <1>1, ConcatProperties
<1>3. CASE k + n <= PktBuf
  <2>1. Is(Received(b), b) /\ n <= n
    BY <1>1, <1>2, <1>3 DEF Received, Is
  <2>2. PICK x \in Seq(Byte) : x = rest
    OBVIOUS
  <2>3. Is(Received(h \o rest), h \o x) /\ Len(x) <= Len(rest)
    BY <2>1, <2>2, Zenon
  <2>4. QED
    BY <2>2, <2>3 DEF RestOf
<1>4. CASE ~(k + n <= PktBuf)
  <2> DEFINE x == SubSeq(rest, 1, l)
  <2>1. Received(b) = SubSeq(b, 1, PktBuf)
    BY <1>2, <1>4 DEF Received
  <2>2. l <= n /\ k + l = PktBuf /\ PktBuf \in Nat
    BY <1>1, <1>4, WireAssumption
  <2> HIDE DEF l, n, b
  <2>3. IsBytes(x, l)
    BY <1>1, <2>2, HeadPart
  <2>4. h \o x = SubSeq(b, 1, PktBuf)
    <3>1. h \o x \in Seq(Byte) /\ Len(h \o x) = PktBuf /\ x \in Seq(Byte) /\ Len(x) = l
      BY <1>1, <2>2, <2>3, ConcatProperties DEF IsBytes
    <3>2. \A j \in 1..PktBuf : (h \o x)[j] = IF j <= k THEN h[j] ELSE x[j - k]
      <4> HIDE DEF x
      <4>1. \A j \in 1..(Len(h) + Len(x)) : (h \o x)[j] = IF j <= Len(h) THEN h[j] ELSE x[j - Len(h)]
        BY <1>1, <3>1, ConcatProperties
      <4>2. QED
        BY <1>1, <2>2, <3>1, <4>1
    <3>3. \A j \in 1..Len(b) : b[j] = IF j <= k THEN h[j] ELSE rest[j - k]
      BY <1>1, <1>2, ConcatProperties DEF b
    <3>4. \A j \in 1..l : x[j] = rest[j]
      BY <1>1, <2>2, SubSeqProperties
    <3> DEFINE y == SubSeq(b, 1, PktBuf)
    <3>5. y \in Seq(Byte) /\ Len(y) = PktBuf /\ \A j \in 1..PktBuf : y[j] = b[j]
      BY <1>2, <1>4, <2>2, SubSeqProperties, ElementOfSeq
    <3> HIDE DEF x, y
    <3>6. ASSUME NEW j \in 1..PktBuf PROVE (h \o x)[j] = y[j]
      <4>1. j \in 1..Len(b)
        BY <1>1, <1>2, <1>4, <2>2
      <4>2. CASE j <= k
        BY <3>2, <3>3, <3>5, <4>1, <4>2
      <4>3. CASE ~(j <= k)
        <5>1. j - k \in 1..l
          BY <1>1, <2>2, <4>3
        <5>2. QED
          BY <3>2, <3>3, <3>4, <3>5, <4>1, <4>3, <5>1
      <4>4. QED
        BY <4>2, <4>3
    <3>7. IsBytes(h \o x, PktBuf) /\ IsBytes(y, PktBuf)
      BY <2>2, <3>1, <3>5 DEF IsBytes
    <3>8. h \o x = y
      BY <3>6, <3>7, BytesEqual
    <3>9. QED
      BY <3>8 DEF y
  <2> HIDE DEF x
  <2>5. x \in Seq(Byte) /\ Len(x) = l
    BY <2>3 DEF IsBytes
  <2>6. QED
    BY <1>4, <2>1, <2>2, <2>4, <2>5 DEF Is, n, b, RestOf
<1>5. QED
  BY <1>3, <1>4

\* What a receiver makes of a datagram.
Makes(b, c, m, rest) ==
    LET p == ParseBody(DecodeCommon(b), b) IN p.ok /\ p.cmn = c /\ p.msg = m /\ p.rest = rest

\* What was decoded.
LEMMA MadeOf ==
    ASSUME NEW b, NEW c, NEW m, NEW rest,
           Is(ParseBody(DecodeCommon(b), b), [ok |-> TRUE, cmn |-> c, msg |-> m, rest |-> rest])
    PROVE  Makes(b, c, m, rest)
<1> DEFINE p == ParseBody(DecodeCommon(b), b)
<1>1. Is(p, [ok |-> TRUE, cmn |-> c, msg |-> m, rest |-> rest])
  OBVIOUS
<1> HIDE DEF p
<1>2. p.ok /\ p.cmn = c /\ p.msg = m /\ p.rest = rest
  BY <1>1 DEF Is
<1>3. QED
  BY <1>2 DEF Makes, p

LEMMA WholeMade ==
    ASSUME NEW c, NEW m, N2NSays(c, m), NEW rest \in Seq(Byte), NEW b, Is(b, EncodeN2N(c, m) \o rest)
    PROVE  Makes(b, c, m, rest)
<1>1. Is(ParseBody(DecodeCommon(b), b), [ok |-> TRUE, cmn |-> c, msg |-> m, rest |-> rest])
  BY N2NRead DEF Is
<1>2. QED
  BY <1>1, MadeOf

\* When the last byte of the header of a packet is missing, as after a transform
\* that failed, the receiver reads transform 0, and the one byte that is left of
\* it as a frame (decode_PACKET in wire.c).
THEOREM CutMade ==
    ASSUME NEW c \in CommonParts, c.pc = PC.PACKET, ~Has(c.flags, N2N_FLAGS_SOCKET), NEW m, Telling(m),
           NEW w, IsBytes(w, 34), Is(w, EncodeN2N(c, m)), NEW b, Is(b, SubSeq(w, 1, 33))
    PROVE  \E rest : rest \in Seq(Byte) /\ Makes(b, c, Nameless(m), rest)
<1> DEFINE r == [version |-> N2N_PKT_VERSION, ttl |-> c.ttl, community |-> c.community,
                 flags |-> (c.pc % 32) + (c.flags \div 32) * 32]
           head == Encode(CommonLayout, r)
           body == Encode(Short, m)
           x == m.srcMac
           y == m.dstMac
           z == Bytes(m.transform, 2)
<1>1. /\ Carries(CommonLayout, 4, r, Blank(CommonLayout))
      /\ r.version = N2N_PKT_VERSION
      /\ [ttl |-> r.ttl, pc |-> r.flags % 32, flags |-> (r.flags \div 32) * 32, community |-> r.community] = c
  BY CommonCarried
<1>2. Is(w, head \o body)
  BY PacketHeader DEF Is, EncodeCommon
<1>3. head = EncodeCommon(c)
  BY DEF EncodeCommon
<1> HIDE DEF r, head
<1>4. \A idx : CommonOf(r, idx) = [cmn |-> c, idx |-> idx, ok |-> TRUE]
  BY <1>1, CommonBack
<1>5. IsBytes(head, 20) /\ IsBytes(body, 14)
  BY <1>3, CommonLen, ShortLen
<1> HIDE DEF body
<1>6. IsBytes(x, 6) /\ IsBytes(y, 6) /\ IsBytes(z, 2)
  <2>1. m.transform \in Numbers(2) /\ 2 \in {1, 2}
    BY DEF Telling
  <2>2. IsBytes(z, 2)
    BY <2>1, NumberLen
  <2>3. QED
    BY <2>2 DEF Telling
<1>7. At(w, 0, head) /\ At(w, 20, body)
  <2>1. w \in Seq(Byte) /\ Len(w) \in Nat
    BY DEF IsBytes
  <2>2. At(w, 0, w)
    BY WholeAt
  <2>3. At(w, 0, head \o body)
    BY <1>2, <2>2 DEF Is
  <2>4. At(w, 0, head) /\ At(w, 0 + 20, body)
    BY <1>5, <2>1, <2>3, BytesAt
  <2>5. QED
    BY <2>4
<1> DEFINE s == [j \in 1..3 |-> PutField(Short[j], m)]
<1>8. s[1] = x /\ s[2] = y /\ s[3] = z /\ body = FlattenSeq(s)
  <2>1. body = FlattenSeq(s)
    BY ShortLayout DEF Encode, body
  <2>2. PutField(Short[1], m) = x /\ PutField(Short[2], m) = y /\ PutField(Short[3], m) = z
    BY ShortLayout DEF PutField
  <2>3. QED
    BY <2>1, <2>2
<1>9. s \in [1..3 -> Seq(Byte)]
  <2>1. x \in Seq(Byte) /\ y \in Seq(Byte) /\ z \in Seq(Byte)
    BY <1>6 DEF IsBytes
  <2>2. DOMAIN s = 1..3 /\ s = [j \in 1..3 |-> s[j]]
    OBVIOUS
  <2> HIDE DEF s, x, y, z
  <2>3. \A j \in 1..3 : s[j] \in Seq(Byte)
    BY <1>8, <2>1
  <2>4. QED
    BY <2>2, <2>3
<1> HIDE DEF s, x, y, z
<1>10. PICK p : PartsAt(w, 20, 3, s, p)
  <2>1. Len(w) \in Nat
    BY DEF IsBytes
  <2>2. PICK n \in Nat, i \in Nat : n = 3 /\ i = 20
    OBVIOUS
  <2>3. At(w, i, FlattenSeq(s)) /\ s \in [1..n -> Seq(Byte)]
    BY <1>7, <1>8, <1>9, <2>2
  <2>4. \E p : PartsAt(w, i, n, s, p)
    BY <2>1, <2>3, PartsFound
  <2>5. QED
    BY <2>2, <2>4
<1>11. At(w, 20, x) /\ At(w, 26, y)
  <2>1. p[0] = 20 /\ \A j \in 1..3 : p[j] = p[j - 1] + Len(s[j]) /\ At(w, p[j - 1], s[j])
    BY <1>10 DEF PartsAt
  <2>2. p[1] = p[1 - 1] + Len(s[1]) /\ At(w, p[1 - 1], s[1]) /\ At(w, p[2 - 1], s[2])
    BY <2>1
  <2>3. 1 - 1 = 0 /\ 2 - 1 = 1
    OBVIOUS
  <2>4. p[1] = 20 + Len(x) /\ At(w, 20, x) /\ At(w, p[1], y)
    BY <1>8, <2>1, <2>2, <2>3
  <2>5. Len(x) = 6
    BY <1>6 DEF IsBytes
  <2>6. QED
    BY <2>4, <2>5
<1> DEFINE k == 33
<1>12. b = SubSeq(w, 1, k) /\ k \in Nat /\ k <= 34 /\ 0 + 20 <= k /\ 20 + 6 <= k /\ 26 + 6 <= k
  BY DEF Is
<1>13. Len(head) = 20 /\ Len(x) = 6 /\ Len(y) = 6
  BY <1>5, <1>6 DEF IsBytes
<1>14. IsBytes(b, k) /\ At(b, 0, head) /\ At(b, 20, x) /\ At(b, 26, y)
  <2> HIDE DEF k
  <2>1. 0 + Len(head) <= k /\ 20 + Len(x) <= k /\ 26 + Len(y) <= k
    BY <1>12, <1>13
  <2>2. IsBytes(SubSeq(w, 1, k), k) /\ At(SubSeq(w, 1, k), 0, head)
    BY <1>7, <1>12, <2>1, CutAt
  <2>3. At(SubSeq(w, 1, k), 20, x)
    BY <1>11, <1>12, <2>1, CutAt
  <2>4. At(SubSeq(w, 1, k), 26, y)
    BY <1>11, <1>12, <2>1, CutAt
  <2>5. QED
    BY <1>12, <2>2, <2>3, <2>4
<1>15. Len(b) = k /\ b \in Seq(Byte) /\ Len(b) \in Nat
  BY <1>14 DEF IsBytes
<1>16. DecodeCommon(b) = [cmn |-> c, idx |-> 20, ok |-> TRUE]
  <2> HIDE DEF k
  <2>1. Decode(CommonLayout, Blank(CommonLayout), b, 0) = <<r, 0 + Len(head)>>
    BY <1>1, <1>14, <1>15, MessageAt DEF head
  <2>2. 0 + Len(head) = 20
    BY <1>13
  <2> DEFINE q == Decode(CommonLayout, Blank(CommonLayout), b, 0)
  <2>6. DecodeCommon(b) = CommonOf(q[1], q[2])
    BY DEF DecodeCommon, CommonRead
  <2>7. q = <<r, 0 + Len(head)>>
    BY <2>1
  <2> HIDE DEF q
  <2>8. q = <<r, 20>>
    BY <2>2, <2>7, Zenon
  <2>5. q[1] = r /\ q[2] = 20
    BY <2>8
  <2>3. DecodeCommon(b) = CommonOf(r, 20)
    BY <2>5, <2>6
  <2>4. QED
    BY <1>4, <2>3
<1>17. DecodeN2N(c, b, 20) = <<Nameless(m), 32>>
  <2>1. ~(20 + 6 + 6 + 2 <= Len(b))
    BY <1>15
  <2> HIDE DEF k
  <2>2. At(b, 20, m.srcMac) /\ At(b, 20 + 6, m.dstMac)
    BY <1>14 DEF x, y
  <2>3. Decode(Short, Blank(BodyLayout(PC.PACKET, TRUE)), b, 20) = <<Nameless(m), 20 + 6 + 6>>
    BY <1>15, <2>1, <2>2, NamelessRead
  <2>4. BodyLayout(c.pc, Has(c.flags, N2N_FLAGS_SOCKET)) = Short
    <3> DEFINE there == Has(c.flags, N2N_FLAGS_SOCKET)
    <3>1. there = FALSE
      BY DEF Has
    <3> HIDE DEF there
    <3>2. BodyLayout(c.pc, there) = BodyLayout(PC.PACKET, FALSE)
      BY <3>1
    <3>3. QED
      BY <3>2, ShortLayout DEF there
  <2>5. DecodeN2N(c, b, 20) = <<Nameless(m), 20 + 6 + 6>>
    BY <2>3, <2>4 DEF DecodeN2N
  <2>6. 20 + 6 + 6 = 32
    OBVIOUS
  <2>7. QED
    BY <2>5, <2>6
<1> DEFINE rest == SubSeq(b, 32 + 1, Len(b))
<1>18. rest \in Seq(Byte)
  <2>1. \A j \in (32 + 1)..Len(b) : b[j] \in Byte
    <3>1. \A j \in 1..Len(b) : b[j] \in Byte
      BY <1>15, ElementOfSeq
    <3>2. \A j \in (32 + 1)..Len(b) : j \in 1..Len(b)
      BY <1>15
    <3>3. QED
      BY <3>1, <3>2
  <2>2. 32 + 1 \in Int /\ Len(b) \in Int
    BY <1>15
  <2>3. QED
    BY <2>1, <2>2, SubSeqProperties
<1> HIDE DEF k, rest
<1> DEFINE dc == DecodeCommon(b)
<1>19. Is(dc, [cmn |-> c, idx |-> 20, ok |-> TRUE])
  BY <1>16 DEF Is
<1>20. ParseBody(dc, b) = WholeN2N(dc, <<Nameless(m), 32>>, b)
  <2>1. ParseBody(dc, b) = WholeN2N(dc, DecodeN2N(dc.cmn, b, dc.idx), b)
    BY Zenon DEF ParseBody
  <2> HIDE DEF dc
  <2>2. dc.cmn = c /\ dc.idx = 20
    BY <1>19 DEF Is
  <2>3. QED
    BY <1>17, <2>1, <2>2, Zenon
<1>21. WholeN2N(dc, <<Nameless(m), 32>>, b) = [ok |-> TRUE, cmn |-> c, msg |-> Nameless(m), rest |-> rest]
  <2> HIDE DEF dc
  <2>1. PICK i, j : i = 20 /\ j = 32
    OBVIOUS
  <2>2. Is(dc, [cmn |-> c, idx |-> i, ok |-> TRUE])
    BY <1>19, <2>1
  <2>3. WholeN2N(dc, <<Nameless(m), j>>, b)
            = [ok |-> TRUE, cmn |-> c, msg |-> Nameless(m), rest |-> SubSeq(b, j + 1, Len(b))]
    <3> DEFINE said == Nameless(m)
               pair == <<said, j>>
    <3>1. pair[1] = said /\ pair[2] = j
      OBVIOUS
    <3> HIDE DEF said, pair
    <3>2. WholeN2N(dc, pair, b) = [ok |-> TRUE, cmn |-> c, msg |-> said, rest |-> SubSeq(b, j + 1, Len(b))]
      BY <2>2, <3>1, WholePair
    <3>3. QED
      BY <3>2 DEF said, pair
  <2>4. rest = SubSeq(b, j + 1, Len(b))
    BY <2>1 DEF rest
  <2>5. QED
    BY <2>1, <2>3, <2>4
<1>22. Is(ParseBody(DecodeCommon(b), b), [ok |-> TRUE, cmn |-> c, msg |-> Nameless(m), rest |-> rest])
  BY <1>20, <1>21 DEF Is
<1>23. Makes(b, c, Nameless(m), rest)
  BY <1>22, MadeOf
<1>24. QED
  BY <1>18, <1>23

---------------------------------------------------------------------------
(* Frames on their way.                                                    *)

\* Where the programs of Frames receive.
Receivers == {SnSock} \cup {Sock[e] : e \in Edges}

\* A frame that no buffer holds behind its header.
Oversize(transform, frame) ==
    Payload(transform, frame) \in Nat /\ 34 + Payload(transform, frame) > PktBuf

\* What is left of a frame behind a header of k bytes: it comes out at the other
\* end if the buffer holds both.
Arrives(transform, rest, frame, k) ==
    /\ Payload(transform, frame) \in Nat /\ Len(rest) <= Payload(transform, frame)
    /\ k + Payload(transform, frame) <= PktBuf => Reads(transform, rest, frame)

\* The header of an edge, and of the supernode that relays.
HeaderFrom(from) == IF from = SnSock THEN 42 ELSE 34

\* What comes of a datagram is understood as c, m and rest, and a frame in it
\* comes out at the other end if the buffers hold it - unless it was too long for
\* the sender's, and the header lost its last byte.
Tells(transform, d, c, m, rest) ==
    /\ N2NSays(c, m) /\ rest \in Seq(Byte) /\ Makes(Received(d.bytes), c, m, rest)
    /\ \/ /\ c.pc = PC.PACKET
          /\ \/ m.transform = 0 /\ Oversize(transform, d.meant.frame)
             \/ m.transform = transform /\ Arrives(transform, rest, d.meant.frame, HeaderFrom(d.from))
          /\ d.to = SnSock => c.ttl = 2 /\ d.from \in IPv4 /\ d.from # SnSock
       \/ c.pc \in {PC.REGISTER, PC.REGISTER_ACK}
       \/ c.pc = PC.REGISTER_SUPER /\ d.from = Peer.sock

Honest(transform, d) ==
    ~d.snm /\ d.to \in Receivers => \E c, m, rest : Tells(transform, d, c, m, rest)

\* A record that ends up in net.
Datagram(snm, from, to, bytes, cut, meant) ==
    [snm |-> snm, from |-> from, to |-> to, bytes |-> bytes, cut |-> cut, meant |-> meant]
Yes == TRUE
No == FALSE

\* Datagrams, field by field.
LEMMA DatagramFields ==
    ASSUME NEW snm, NEW from, NEW to, NEW bytes, NEW cut, NEW meant
    PROVE  /\ Datagram(snm, from, to, bytes, cut, meant).snm = snm
           /\ Datagram(snm, from, to, bytes, cut, meant).from = from
           /\ Datagram(snm, from, to, bytes, cut, meant).to = to
           /\ Datagram(snm, from, to, bytes, cut, meant).bytes = bytes
           /\ Datagram(snm, from, to, bytes, cut, meant).meant = meant
BY DEF Datagram

LEMMA OtherCut ==
    ASSUME NEW snm, NEW from, NEW to, NEW bytes, NEW cut, NEW meant, NEW x
    PROVE  [Datagram(snm, from, to, bytes, cut, meant) EXCEPT !.cut = x] = Datagram(snm, from, to, bytes, x, meant)
BY DEF Datagram

LEMMA OtherFrom ==
    ASSUME NEW snm, NEW from, NEW to, NEW bytes, NEW cut, NEW meant, NEW x
    PROVE  [Datagram(snm, from, to, bytes, cut, meant) EXCEPT !.from = x] = Datagram(snm, x, to, bytes, cut, meant)
BY DEF Datagram

Shortened(d, x, y) == [d EXCEPT !.cut = x, !.bytes = y]

LEMMA OtherBytes ==
    ASSUME NEW snm, NEW from, NEW to, NEW bytes, NEW cut, NEW meant, NEW x, NEW y
    PROVE  Shortened(Datagram(snm, from, to, bytes, cut, meant), x, y) = Datagram(snm, from, to, y, x, meant)
<1> DEFINE d == Datagram(snm, from, to, bytes, cut, meant)
           e == [d EXCEPT !.cut = x]
<1>1. e = Datagram(snm, from, to, bytes, x, meant)
  BY OtherCut
<1>2. [d EXCEPT !.cut = x, !.bytes = y] = [e EXCEPT !.bytes = y]
  <2> HIDE DEF d
  <2>1. QED
    OBVIOUS
<1> HIDE DEF e
<1>3. [e EXCEPT !.bytes = y] = Datagram(snm, from, to, y, x, meant)
  BY <1>1 DEF Datagram
<1>4. QED
  BY <1>2, <1>3 DEF d, Shortened

Meant(c, m, rest, frame) == [cmn |-> c, msg |-> m, rest |-> rest, frame |-> frame]

\* What is sent, in this form.
LEMMA N2NFields ==
    ASSUME NEW from, NEW to, NEW c, NEW m, NEW rest, NEW frame
    PROVE  /\ N2NDatagram(from, to, c, m, rest, frame)
                  = Datagram(No, from, to, EncodeN2N(c, m) \o rest, No, Meant(c, m, rest, frame))
           /\ Meant(c, m, rest, frame).frame = frame
BY DEF N2NDatagram, Datagram, Meant, No

LEMMA SnmFields ==
    ASSUME NEW from, NEW to, NEW h, NEW m
    PROVE  \E meant : SnmDatagram(from, to, h, m) = Datagram(Yes, from, to, EncodeSnm(h, m), No, meant)
BY DEF SnmDatagram, Datagram, Yes, No

\* What supernodes tell each other is nothing to the edges.
LEMMA SnmHonest ==
    ASSUME NEW transform, NEW from, NEW to, NEW h, NEW m
    PROVE  /\ Honest(transform, SnmDatagram(from, to, h, m))
           /\ \A x : Honest(transform, [SnmDatagram(from, to, h, m) EXCEPT !.from = x])
<1>1. PICK b, meant : SnmDatagram(from, to, h, m) = Datagram(Yes, from, to, b, No, meant)
  BY SnmFields
<1>2. Yes
  BY DEF Yes
<1>3. \A x : Datagram(Yes, x, to, b, No, meant).snm = Yes
  BY DatagramFields
<1>4. \A x : [SnmDatagram(from, to, h, m) EXCEPT !.from = x] = Datagram(Yes, x, to, b, No, meant)
  BY <1>1, OtherFrom
<1>5. \A x : Honest(transform, Datagram(Yes, x, to, b, No, meant))
  BY <1>2, <1>3 DEF Honest
<1>6. Honest(transform, SnmDatagram(from, to, h, m))
  BY <1>1, <1>5
<1>7. ASSUME NEW x PROVE Honest(transform, [SnmDatagram(from, to, h, m) EXCEPT !.from = x])
  BY <1>4, <1>5
<1>8. QED
  BY <1>6, <1>7

\* Of what arrives, less may be left when it is sent on.
LEMMA LessArrives ==
    ASSUME NEW transform, NEW rest \in Seq(Byte), NEW frame, NEW k \in Nat, Arrives(transform, rest, frame, k),
           NEW x \in Seq(Byte), RestOf(k, rest, x)
    PROVE  Arrives(transform, x, frame, k)
<1> DEFINE p == Payload(transform, frame)
           n == Len(rest)
           l == Len(x)
<1>1. p \in Nat /\ n <= p /\ (k + p <= PktBuf => Reads(transform, rest, frame))
  BY DEF Arrives
<1>2. n \in Nat /\ l \in Nat /\ l <= n /\ (k + n <= PktBuf => x = rest) /\ PktBuf \in Nat
  BY LenProperties, WireAssumption DEF RestOf
<1> HIDE DEF p, n, l
<1>3. l <= p
  BY <1>1, <1>2
<1>4. ASSUME k + p <= PktBuf PROVE Reads(transform, x, frame)
  <2>1. k + n <= PktBuf
    BY <1>1, <1>2, <1>4
  <2>2. QED
    BY <1>1, <1>2, <1>4, <2>1
<1>5. QED
  BY <1>1, <1>3, <1>4 DEF Arrives, p, l

LEMMA LongerArrives ==
    ASSUME NEW transform, NEW rest, NEW frame, Arrives(transform, rest, frame, 34)
    PROVE  Arrives(transform, rest, frame, 42)
<1> DEFINE p == Payload(transform, frame)
<1>1. p \in Nat /\ PktBuf \in Nat
  BY WireAssumption DEF Arrives
<1> HIDE DEF p
<1>2. 42 + p <= PktBuf => 34 + p <= PktBuf
  BY <1>1
<1>3. QED
  BY <1>2, Zenon DEF Arrives, p

\* What is understood, with a header of k bytes.
LEMMA SaidHonest ==
    ASSUME NEW transform, NEW from, NEW to, NEW c, NEW m, N2NSays(c, m), NEW rest \in Seq(Byte), NEW frame, NEW cut,
           NEW k, IsBytes(EncodeN2N(c, m), k), k <= 64,
           \/ /\ c.pc = PC.PACKET
              /\ \/ m.transform = 0 /\ Oversize(transform, frame)
                 \/ m.transform = transform /\ Arrives(transform, rest, frame, k) /\ k = HeaderFrom(from)
              /\ to = SnSock => c.ttl = 2 /\ from \in IPv4 /\ from # SnSock
           \/ c.pc \in {PC.REGISTER, PC.REGISTER_ACK}
           \/ c.pc = PC.REGISTER_SUPER /\ from = Peer.sock
    PROVE  /\ Honest(transform, N2NDatagram(from, to, c, m, rest, frame))
           /\ Honest(transform, [N2NDatagram(from, to, c, m, rest, frame) EXCEPT !.cut = cut])
<1> DEFINE b == EncodeN2N(c, m) \o rest
           meant == Meant(c, m, rest, frame)
<1>1. /\ N2NDatagram(from, to, c, m, rest, frame) = Datagram(No, from, to, b, No, meant)
      /\ meant.frame = frame
  BY N2NFields
<1>2. PICK got \in Seq(Byte) : Is(Received(b), EncodeN2N(c, m) \o got) /\ RestOf(k, rest, got)
  <2>1. k <= PktBuf /\ k \in Nat
    BY WireAssumption DEF IsBytes
  <2>2. QED
    BY <2>1, ReceivedParts
<1>6. Makes(Received(b), c, m, got)
  <2> DEFINE g == Received(b)
  <2>1. Is(g, EncodeN2N(c, m) \o got)
    BY <1>2, Zenon
  <2> HIDE DEF g
  <2>2. Makes(g, c, m, got)
    BY <2>1, WholeMade
  <2>3. QED
    BY <2>2 DEF g
<1>7. ASSUME Arrives(transform, rest, frame, k) PROVE Arrives(transform, got, frame, k)
  <2>1. k \in Nat
    BY DEF IsBytes
  <2>2. QED
    BY <1>2, <1>7, <2>1, LessArrives
<1> HIDE DEF b, meant
<1>3. [N2NDatagram(from, to, c, m, rest, frame) EXCEPT !.cut = cut] = Datagram(No, from, to, b, cut, meant)
  BY <1>1, OtherCut
<1>4. ASSUME NEW x PROVE Honest(transform, Datagram(No, from, to, b, x, meant))
  <2> DEFINE d == Datagram(No, from, to, b, x, meant)
  <2>1. d.from = from /\ d.to = to /\ d.bytes = b /\ d.meant = meant
    BY DatagramFields
  <2> HIDE DEF d
  <2>2. Tells(transform, d, c, m, got)
    BY <1>1, <1>6, <1>7, <2>1 DEF Tells
  <2>3. QED
    BY <2>2 DEF Honest, d
<1>5. QED
  BY <1>1, <1>3, <1>4

\* What lost its last byte.
LEMMA CutHonest ==
    ASSUME NEW transform, NEW from \in IPv4, from # SnSock, NEW to, NEW c \in CommonParts, c.pc = PC.PACKET, c.ttl = 2,
           ~Has(c.flags, N2N_FLAGS_SOCKET), NEW m, Telling(m), NEW frame, Oversize(transform, frame), NEW cut
    PROVE  LET d == N2NDatagram(from, to, c, m, <<>>, frame)
           IN  Honest(transform, [d EXCEPT !.cut = cut, !.bytes = SubSeq(@, 1, Len(@) - 1)])
<1> DEFINE w == EncodeN2N(c, m)
           none == <<>>
           meant == Meant(c, m, none, frame)
           d == N2NDatagram(from, to, c, m, <<>>, frame)
           b == SubSeq(d.bytes, 1, Len(d.bytes) - 1)
<1>2. IsBytes(w, 34)
  BY PacketHeader
<1>3. w \o none = w
  BY <1>2, ConcatEmptySeq DEF IsBytes
<1>1. d = Datagram(No, from, to, w \o none, No, meant) /\ meant.frame = frame
  <2>1. d = N2NDatagram(from, to, c, m, none, frame)
    OBVIOUS
  <2> HIDE DEF d, none
  <2>2. QED
    BY <2>1, N2NFields
<1> HIDE DEF none
<1> HIDE DEF w, meant
<1>4. d.bytes = w
  BY <1>1, <1>3, DatagramFields
<1>5. [d EXCEPT !.cut = cut, !.bytes = SubSeq(@, 1, Len(@) - 1)] = [d EXCEPT !.cut = cut, !.bytes = b]
  <2> HIDE DEF d
  <2>1. QED
    OBVIOUS
<1> HIDE DEF d
<1>6. Is(b, SubSeq(w, 1, 33))
  <2>1. Len(w) - 1 = 33
    BY <1>2 DEF IsBytes
  <2>2. QED
    BY <1>4, <2>1 DEF Is
<1> HIDE DEF b
<1>7. Shortened(d, cut, b) = Datagram(No, from, to, b, cut, meant)
  BY <1>1, OtherBytes
<1>15. Received(b) = b
  <2>1. IsBytes(b, 33)
    <3>1. IsBytes(SubSeq(w, 1, 33), 33)
      BY <1>2, HeadPart
    <3>2. QED
      BY <1>6, <3>1 DEF Is
  <2>2. Len(b) <= PktBuf
    BY <2>1, WireAssumption DEF IsBytes
  <2>3. QED
    BY <2>2 DEF Received
<1>8. PICK rest : rest \in Seq(Byte) /\ Makes(b, c, Nameless(m), rest)
  BY <1>2, <1>6, CutMade DEF Is, w
<1>9. N2NSays(c, Nameless(m))
  <2>1. Nameless(m) \in Messages(PC.PACKET)
    BY DEF Messages, PC, Nameless, Telling, BytesOf, Numbers, Word, IsBytes
  <2>2. Nameless(m).sock.family = 0
    BY DEF Nameless, NoSock
  <2>3. QED
    BY <2>1, <2>2 DEF N2NSays
<1> DEFINE x == Datagram(No, from, to, b, cut, meant)
<1>10. x.from = from /\ x.to = to /\ x.bytes = b /\ x.meant = meant
  BY DatagramFields
<1>11. Nameless(m).transform = 0
  BY DEF Nameless
<1> HIDE DEF x
<1>12. Tells(transform, x, c, Nameless(m), rest)
  BY <1>1, <1>8, <1>9, <1>10, <1>11, <1>15 DEF Tells
<1>13. Honest(transform, x)
  BY <1>12 DEF Honest
<1>14. QED
  <2>1. [d EXCEPT !.cut = cut, !.bytes = b] = x
    BY <1>7 DEF x, Shortened
  <2>2. QED
    BY <1>5, <1>13, <2>1 DEF d

---------------------------------------------------------------------------
(* What may be said.                                                       *)

\* A community in its field.
LEMMA PaddedBytes ==
    ASSUME NEW name \in CommNames
    PROVE  Padded(name) \in BytesOf(N2N_COMMUNITY_SIZE)
<1> DEFINE k == Len(name)
           l == N2N_COMMUNITY_SIZE - Len(name)
<1>1. name \in Seq(Byte) /\ k \in Nat /\ l \in Nat /\ k + l = N2N_COMMUNITY_SIZE
  <2>1. name \in Seq(Byte) /\ Len(name) <= N2N_COMMUNITY_SIZE
    BY DEF CommNames
  <2>2. Len(name) \in Nat /\ N2N_COMMUNITY_SIZE \in Nat
    BY <2>1, LenProperties DEF N2N_COMMUNITY_SIZE
  <2>3. QED
    BY <2>1, <2>2
<1>2. IsBytes(name, k)
  BY <1>1 DEF IsBytes
<1>3. IsBytes(Zeros(l), l)
  <2> HIDE DEF l
  <2>1. QED
    BY <1>1, ZerosBytes
<1>4. Padded(name) = name \o Zeros(l)
  BY DEF Padded
<1> HIDE DEF k, l
<1>5. IsBytes(Padded(name), N2N_COMMUNITY_SIZE)
  BY <1>1, <1>2, <1>3, <1>4, ConcatBytes
<1>6. QED
  BY <1>5 DEF BytesOf, IsBytes

\* The header of an edge.
LEMMA CommonSays ==
    ASSUME NEW pc \in {PC.REGISTER, PC.REGISTER_ACK, PC.PACKET}
    PROVE  /\ Common(pc) \in CommonParts /\ Common(pc).pc = pc /\ Common(pc).ttl = 2
           /\ ~Has(Common(pc).flags, N2N_FLAGS_SOCKET)
<1>1. Padded(Community) \in BytesOf(N2N_COMMUNITY_SIZE)
  BY PaddedBytes, FramesAssumption
<1>2. Common(pc).pc = pc /\ Common(pc).ttl = 2 /\ Common(pc).flags = 0
  BY DEF Common
<1>3. 0 \in {w \in Word : w % 32 = 0} /\ 2 \in Byte /\ pc \in {PC[x] : x \in DOMAIN PC}
  BY DEF Word, Byte, PC
<1>4. Common(pc) \in CommonParts
  BY <1>1, <1>3 DEF Common, CommonParts
<1>5. ~Has(0, N2N_FLAGS_SOCKET)
  BY DEF Has, N2N_FLAGS_SOCKET
<1>6. QED
  BY <1>2, <1>4, <1>5

\* The message of a frame.
LEMMA FrameSays ==
    ASSUME NEW m, Telling(m)
    PROVE  N2NSays(Common(PC.PACKET), m)
<1>1. PC.PACKET \in {PC.REGISTER, PC.REGISTER_ACK, PC.PACKET}
  OBVIOUS
<1>2. /\ Common(PC.PACKET) \in CommonParts /\ Common(PC.PACKET).pc = PC.PACKET
      /\ ~Has(Common(PC.PACKET).flags, N2N_FLAGS_SOCKET)
  BY <1>1, CommonSays
<1>3. m \in Messages(PC.PACKET)
  BY DEF Messages, PC, Telling, BytesOf, IsBytes
<1>4. m.sock.family = 0
  BY DEF Telling, NoSock
<1>5. QED
  BY <1>2, <1>3, <1>4 DEF N2NSays

\* The messages of a handshake can be said.
LEMMA GreetingSays ==
    ASSUME NEW pc \in {PC.REGISTER, PC.REGISTER_ACK}, NEW m, Greeting(m)
    PROVE  N2NSays(Common(pc), m)
<1>1. /\ Common(pc) \in CommonParts /\ Common(pc).pc = pc
      /\ ~Has(Common(pc).flags, N2N_FLAGS_SOCKET)
  BY CommonSays
<1>2. PICK x, y, z : /\ IsBytes(x, 4) /\ IsBytes(y, 6) /\ IsBytes(z, 6)
                     /\ m = [cookie |-> x, srcMac |-> y, dstMac |-> z, sock |-> NoSock]
  BY DEF Greeting
<1>3. x \in BytesOf(4) /\ y \in BytesOf(6) /\ z \in BytesOf(6)
  BY <1>2 DEF BytesOf, IsBytes
<1>4. m.sock.family = 0
  BY <1>2 DEF NoSock
<1>5. m \in [cookie : BytesOf(4), srcMac : BytesOf(6), dstMac : BytesOf(6), sock : Sockets \cup {NoSock}]
  BY <1>2, <1>3
<1>6. m \in Messages(pc)
  <2>1. m \in Messages(PC.REGISTER)
    BY <1>5 DEF Messages, PC
  <2>2. m \in Messages(PC.REGISTER_ACK)
    BY <1>5 DEF Messages, PC
  <2>3. pc = PC.REGISTER \/ pc = PC.REGISTER_ACK
    OBVIOUS
  <2>4. QED
    BY <2>1, <2>2, <2>3
<1>7. QED
  BY <1>1, <1>4, <1>5, <1>6 DEF N2NSays

\* What an edge sends in a handshake.
LEMMA GreetingHonest ==
    ASSUME NEW transform, NEW pc \in {PC.REGISTER, PC.REGISTER_ACK}, NEW m, Greeting(m), NEW from, NEW to
    PROVE  Honest(transform, N2NDatagram(from, to, Common(pc), m, <<>>, <<>>))
<1>1. N2NSays(Common(pc), m)
  BY GreetingSays
<1>2. Common(pc).pc = pc
  BY CommonSays
<1>3. PICK none : none = <<>>
  OBVIOUS
<1>4. none \in Seq(Byte)
  BY <1>3
<1>5. Common(pc).pc \in {PC.REGISTER, PC.REGISTER_ACK}
  BY <1>2
<1>8. PICK k : k = 36
  OBVIOUS
<1>9. IsBytes(EncodeN2N(Common(pc), m), k) /\ k <= 64
  BY <1>5, <1>8, CommonSays, GreetingLen
<1>6. Honest(transform, N2NDatagram(from, to, Common(pc), m, none, none))
  BY <1>1, <1>4, <1>5, <1>9, SaidHonest
<1>7. QED
  BY <1>3, <1>6

\* What an edge registers with.
LEMMA RegistrationHonest ==
    ASSUME NEW transform, NEW name \in Names, NEW cookie \in Cookies
    PROVE  Honest(transform,
               N2NDatagram(Peer.sock, SnSock,
                      [ttl |-> 2, pc |-> PC.REGISTER_SUPER, flags |-> 0, community |-> Padded(name)],
                      [cookie |-> cookie, edgeMac |-> Peer.mac, scheme |-> 0, toksize |-> 0, token |-> <<>>],
                      <<>>, <<>>))
<1> DEFINE c == [ttl |-> 2, pc |-> PC.REGISTER_SUPER, flags |-> 0, community |-> Padded(name)]
           m == [cookie |-> cookie, edgeMac |-> Peer.mac, scheme |-> 0, toksize |-> 0, token |-> <<>>]
<1>1. c \in CommonParts
  <2>1. Padded(name) \in BytesOf(N2N_COMMUNITY_SIZE)
    BY PaddedBytes, CommsAssumption
  <2>2. 0 \in {w \in Word : w % 32 = 0} /\ 2 \in Byte /\ PC.REGISTER_SUPER \in {PC[x] : x \in DOMAIN PC}
    BY DEF Word, Byte, PC
  <2>3. QED
    BY <2>1, <2>2 DEF CommonParts
<1>2. m \in Messages(PC.REGISTER_SUPER)
  <2>1. cookie \in BytesOf(4) /\ Peer.mac \in BytesOf(6)
    BY CommsAssumption DEF BytesOf, IsBytes
  <2>2. 0 \in Numbers(2)
    BY DEF Numbers, Word
  <2>3. <<>> \in Seq(Byte) /\ IsBytes(<<>>, 0)
    BY EmptySeq DEF IsBytes
  <2>4. m \in {x \in [cookie : BytesOf(4), edgeMac : BytesOf(6), scheme : Numbers(2), toksize : Numbers(2),
                      token : Seq(Byte)] : IsBytes(x.token, x.toksize)}
    BY <2>1, <2>2, <2>3
  <2>5. QED
    BY <2>4 DEF Messages, PC
<1>3. c.pc = PC.REGISTER_SUPER
  OBVIOUS
<1>4. ~HasOptionalSock(c.pc)
  BY DEF HasOptionalSock, PC
<1>10. m.toksize = 0
  OBVIOUS
<1> HIDE DEF c, m
<1>11. PICK k : k = 34
  OBVIOUS
<1>12. IsBytes(EncodeN2N(c, m), k) /\ k <= 64
  BY <1>1, <1>2, <1>3, <1>10, <1>11, RegistrationLen
<1>5. N2NSays(c, m)
  BY <1>1, <1>2, <1>3, <1>4 DEF N2NSays
<1>6. PICK none, from : none = <<>> /\ from = Peer.sock
  OBVIOUS
<1>7. none \in Seq(Byte)
  BY <1>6
<1>8. Honest(transform, N2NDatagram(from, SnSock, c, m, none, none))
  BY <1>3, <1>5, <1>6, <1>7, <1>12, SaidHonest
<1>9. QED
  BY <1>6, <1>8 DEF c, m

---------------------------------------------------------------------------
(* The inductive invariant.                                                *)

NetHonest == \A d \in net : Honest(mode, d)

\* The sets of datagrams that a step adds.
AllHonest(transform, S) == \A d \in S : Honest(transform, d)

\* Messages of supernodes, from whomever.
OfSns(x) == \E from, to, h, m : x = SnmDatagram(from, to, h, m)

\* They concern no edge with frames.
LEMMA SnsHonest ==
    ASSUME NEW transform, NEW S, \A x \in S : OfSns(x)
    PROVE  AllHonest(transform, S)
<1> SUFFICES ASSUME NEW x \in S PROVE Honest(transform, x)
  BY DEF AllHonest
<1>1. PICK from, to, h, m : x = SnmDatagram(from, to, h, m)
  BY DEF OfSns
<1>2. QED
  BY <1>1, SnmHonest

\* What the three handlers of process_sn_msg send.
LEMMA OutOf ==
    ASSUME NEW a, NEW b, NEW c, NEW out, NEW n
    PROVE  Effect(a, b, c, out, n).out = out
BY DEF Effect

LEMMA ReqOut ==
    ASSUME NEW d, NEW q
    PROVE  \A x \in AfterReq(d, q).out : OfSns(x)
<1> DEFINE edge  == Has(q.hdr.flags, E_FLAG)
           adv   == Has(q.hdr.flags, A_FLAG)
           name  == q.msg.comm_ptr[1]
           fresh == adv /\ edge /\ CommFind(comms, name) = 0
           a     == IF edge THEN sns ELSE AddSn(sns, d.from)
           b     == IF fresh THEN AddComm(comms, name) ELSE comms
           T     == IF fresh THEN ToSet(sns) ELSE {}
           none  == <<>>
           one   == <<name>>
           n     == 0
           asked == {Adv(d.from, none)} \cup {Adv(s, one) : s \in T}
           told  == {Rsp(d.from, q.hdr, q.msg)}
           out   == IF adv THEN asked ELSE told
<1>1. AfterReq(d, q) = Effect(a, b, fresh, out, n)
  BY DEF AfterReq
<1> HIDE DEF a, b, fresh, T, one, none, n, adv
<1>2. ASSUME NEW to, NEW names PROVE OfSns(Adv(to, names))
  BY Zenon DEF Adv, OfSns
<1>3. OfSns(Rsp(d.from, q.hdr, q.msg))
  BY Zenon DEF Rsp, OfSns
<1>4. \A x \in out : OfSns(x)
  <2>1. \A x \in asked : OfSns(x)
    BY <1>2
  <2>2. \A x \in told : OfSns(x)
    BY <1>3
  <2> HIDE DEF asked, told
  <2>3. QED
    BY <2>1, <2>2
<1> HIDE DEF out
<1>5. QED
  BY <1>1, <1>4, OutOf

LEMMA RspOut ==
    ASSUME NEW d, NEW q
    PROVE  \A x \in AfterRsp(d, q).out : OfSns(x)
<1> DEFINE all  == IF Has(q.hdr.flags, S_FLAG) THEN AddSns(sns, q.msg.sn_ptr) ELSE sns
           n    == Len(all) - Len(sns)
           note(list, name) == LET l == AddComm(list, name) IN AddToComm(l, CommFind(l, name), d.from)
           b    == IF Has(q.hdr.flags, C_FLAG) THEN FoldLeft(note, comms, q.msg.comm_ptr) ELSE comms
           no   == FALSE
           yes  == TRUE
           out  == {Req(all[i], seqNum + i, yes) : i \in 1..n}
<1>1. AfterRsp(d, q) = Effect(all, b, no, out, n)
  BY Zenon DEF AfterRsp
<1> HIDE DEF all, n, b, no, yes
<1>2. ASSUME NEW to, NEW seq, NEW want PROVE OfSns(Req(to, seq, want))
  BY Zenon DEF Req, OfSns
<1>3. \A x \in out : OfSns(x)
  <2> SUFFICES ASSUME NEW i \in 1..n PROVE OfSns(Req(all[i], seqNum + i, yes))
    OBVIOUS
  <2> DEFINE to == all[i]
             seq == seqNum + i
  <2> HIDE DEF to, seq
  <2>1. OfSns(Req(to, seq, yes))
    BY <1>2
  <2>2. QED
    BY <2>1 DEF to, seq
<1> HIDE DEF out
<1>4. QED
  BY <1>1, <1>3, OutOf

LEMMA AdvOut ==
    ASSUME NEW d, NEW q
    PROVE  \A x \in AfterAdv(d, q).out : OfSns(x)
<1> DEFINE addr == IF q.msg.sn.addr = Zeros(4) THEN [q.msg.sn EXCEPT !.addr = d.from.addr] ELSE q.msg.sn
           list == FoldLeft(LAMBDA l, name : AddToComm(l, CommFind(l, name), addr), comms, q.msg.comm_ptr)
           a    == AddSn(sns, d.from)
           save == list # comms
           says == list # comms /\ Has(q.hdr.flags, A_FLAG)
           out  == IF says THEN {Adv(d.from, NamesOf(list))} ELSE {}
           n    == 0
<1>1. AfterAdv(d, q) = Effect(a, list, save, out, n)
  BY Zenon DEF AfterAdv
<1> HIDE DEF addr, a, save, says, n
<1> HIDE DEF list
<1>2. ASSUME NEW to, NEW names PROVE OfSns(Adv(to, names))
  BY Zenon DEF Adv, OfSns
<1>3. \A x \in out : OfSns(x)
  BY <1>2
<1> HIDE DEF out
<1>4. QED
  BY <1>1, <1>3, OutOf

\* And process_sn_msg.
LEMMA AfterHonest ==
    ASSUME NEW transform, NEW d,
           ParseSnm(d).hdr.type \in {SNM.REQ, SNM.RSP, SNM.ADV}
    PROVE  AllHonest(transform, After(d).out)
<1> DEFINE p == ParseSnm(d)
           type == p.hdr.type
<1>1. /\ type = SNM.REQ => After(d) = AfterReq(d, p)
      /\ type = SNM.RSP => After(d) = AfterRsp(d, p)
      /\ type = SNM.ADV => After(d) = AfterAdv(d, p)
  BY DEF After, SNM
<1> HIDE DEF p
<1>2. type = SNM.REQ \/ type = SNM.RSP \/ type = SNM.ADV
  BY DEF p
<1>3. \A x \in After(d).out : OfSns(x)
  BY <1>1, <1>2, ReqOut, RspOut, AdvOut
<1>4. QED
  BY <1>3, SnsHonest

\* A supernode answers a registration to where it came from, and there is no edge
\* that receives frames.
LEMMA AnswerHonest ==
    ASSUME NEW transform, NEW d, d.from = Peer.sock, NEW c, NEW m, NEW rest, NEW frame
    PROVE  Honest(transform, N2NDatagram(SnSock, d.from, c, m, rest, frame))
<1> DEFINE x == N2NDatagram(SnSock, d.from, c, m, rest, frame)
<1>1. x.to = Peer.sock
  BY DEF N2NDatagram
<1>2. Peer.sock \notin Receivers
  BY PeerAssumption DEF Receivers
<1> HIDE DEF x
<1>3. Honest(transform, x)
  BY <1>1, <1>2 DEF Honest
<1>4. QED
  BY <1>3 DEF x

\* What a receiver makes of such a datagram.
LEMMA MadeParse ==
    ASSUME NEW transform, NEW d, NEW c, NEW m, NEW rest, Tells(transform, d, c, m, rest)
    PROVE  /\ Parse(d).ok /\ Parse(d).cmn = c /\ Parse(d).msg = m /\ Parse(d).rest = rest
           /\ N2NSays(c, m) /\ rest \in Seq(Byte)
BY DEF Tells, Makes, Parse, ParseBytes

\* Where a REGISTER_SUPER comes from.
LEMMA RegisterSuperFrom ==
    ASSUME NEW transform, NEW d, Honest(transform, d), ~d.snm, d.to = SnSock, Parse(d).cmn.pc = PC.REGISTER_SUPER
    PROVE  d.from = Peer.sock
<1>1. PICK c, m, rest : Tells(transform, d, c, m, rest)
  BY DEF Honest, Receivers
<1>2. Parse(d).cmn = c
  BY <1>1, MadeParse
<1>3. c.pc = PC.REGISTER_SUPER
  BY <1>2
<1>4. c.pc # PC.PACKET /\ c.pc \notin {PC.REGISTER, PC.REGISTER_ACK}
  BY <1>3 DEF PC
<1>5. QED
  BY <1>1, <1>4 DEF Tells

\* What a supernode answers a registration p with.
RegisterAnswer(d, p) ==
    LET k   == CommFind(comms, CStr(p.cmn.community))
        bak == IF k = 0 THEN <<>> ELSE comms[k].sns
    IN  N2NDatagram(SnSock, d.from,
            [ttl |-> 2, pc |-> PC.REGISTER_SUPER_ACK, community |-> p.cmn.community,
             flags |-> N2N_FLAGS_SOCKET + N2N_FLAGS_FROM_SUPERNODE],
            [cookie |-> p.msg.cookie, edgeMac |-> p.msg.edgeMac, lifetime |-> 120,
             sock |-> d.from, num_sn |-> Len(bak), sn_bak |-> bak], <<>>, <<>>)

LEMMA RegisterAnswered ==
    ASSUME NEW d, RecvRegisterSuper(d)
    PROVE  Answer({RegisterAnswer(d, Parse(d))})
<1> DEFINE Answered(q) == Answer({RegisterAnswer(d, q)})
<1>1. \E q \in {Parse(d)} : q.ok /\ q.cmn.pc = PC.REGISTER_SUPER /\ Answered(q)
  BY Zenon DEF RecvRegisterSuper, RegisterAnswer
<1> HIDE DEF Answered
<1>2. PICK q \in {Parse(d)} : Answered(q)
  BY <1>1
<1>3. q = Parse(d)
  BY <1>2
<1>4. QED
  BY <1>2, <1>3 DEF Answered

\* No step of a supernode, or of its partners, adds anything else.
LEMMA CommsHonest ==
    ASSUME NetHonest, CommsNext
    PROVE  \A d \in net' : Honest(mode, d)
<1> SUFFICES \E S : net' = net \cup S /\ AllHonest(mode, S)
  BY DEF NetHonest, AllHonest
<1>0. AllHonest(mode, {})
  BY DEF AllHonest
<1>13. ASSUME NEW x, OfSns(x) PROVE AllHonest(mode, {x})
  BY <1>13, SnsHonest
<1>14. ASSUME NEW x, Honest(mode, x) PROVE AllHonest(mode, {x})
  BY <1>14 DEF AllHonest
<1>1. CASE Start
  <2> DEFINE read == ReadSns(snFile)
             all  == AddSns(read, CmdLine)
             yes  == TRUE
             S    == {Req(all[i], i, yes) : i \in DOMAIN all}
  <2>1. Answer(S)
    BY <1>1, Zenon DEF Start
  <2> HIDE DEF read, yes
  <2> HIDE DEF all
  <2>2. ASSUME NEW to, NEW seq, NEW want PROVE OfSns(Req(to, seq, want))
    BY Zenon DEF Req, OfSns
  <2>3. ASSUME NEW x \in S PROVE OfSns(x)
    <3>1. PICK i \in DOMAIN all : x = Req(all[i], i, yes)
      OBVIOUS
    <3> DEFINE to == all[i]
    <3> HIDE DEF to
    <3>2. OfSns(Req(to, i, yes))
      BY <2>2
    <3>3. QED
      BY <3>1, <3>2 DEF to
  <2> HIDE DEF S
  <2>4. AllHonest(mode, S)
    BY <2>3, SnsHonest
  <2>5. QED
    BY <2>1, <2>4 DEF Answer
<1>2. CASE DiscoveryEnd
  <2> DEFINE names == NamesOf(Discovered)
             T     == IF Discovered = <<>> THEN {} ELSE ToSet(sns)
             S     == {Adv(s, names) : s \in T}
  <2>1. Answer(S)
    BY <1>2, Zenon DEF DiscoveryEnd
  <2> HIDE DEF names, T
  <2>2. ASSUME NEW to, NEW list PROVE OfSns(Adv(to, list))
    BY Zenon DEF Adv, OfSns
  <2>3. ASSUME NEW x \in S PROVE OfSns(x)
    <3>1. PICK s \in T : x = Adv(s, names)
      OBVIOUS
    <3>2. QED
      BY <2>2, <3>1
  <2> HIDE DEF S
  <2>4. AllHonest(mode, S)
    BY <2>3, SnsHonest
  <2>5. QED
    BY <2>1, <2>4 DEF Answer
<1>3. CASE Crash
  BY <1>0, <1>3 DEF Crash, Answer
<1>4. ASSUME NEW d \in net, RecvSnm(d) PROVE \E S : net' = net \cup S /\ AllHonest(mode, S)
  <2>1. Heeds(d) /\ net' = net \cup After(d).out
    BY <1>4 DEF RecvSnm, Answer
  <2>2. ParseSnm(d).hdr.type \in {SNM.REQ, SNM.RSP, SNM.ADV}
    BY <2>1 DEF Heeds
  <2>3. QED
    BY <2>1, <2>2, AfterHonest
<1>5. ASSUME NEW d \in net, RecvRegisterSuper(d) PROVE \E S : net' = net \cup S /\ AllHonest(mode, S)
  <2>1. ~d.snm /\ d.to = SnSock /\ Parse(d).cmn.pc = PC.REGISTER_SUPER
    BY <1>5 DEF RecvRegisterSuper
  <2>2. Honest(mode, d)
    BY DEF NetHonest
  <2>3. d.from = Peer.sock
    BY <2>1, <2>2, RegisterSuperFrom
  <2> DEFINE p    == Parse(d)
             k    == CommFind(comms, CStr(p.cmn.community))
             bak  == IF k = 0 THEN <<>> ELSE comms[k].sns
             c    == [ttl |-> 2, pc |-> PC.REGISTER_SUPER_ACK, community |-> p.cmn.community,
                      flags |-> N2N_FLAGS_SOCKET + N2N_FLAGS_FROM_SUPERNODE]
             m    == [cookie |-> p.msg.cookie, edgeMac |-> p.msg.edgeMac, lifetime |-> 120,
                      sock |-> d.from, num_sn |-> Len(bak), sn_bak |-> bak]
             none == <<>>
             x    == N2NDatagram(SnSock, d.from, c, m, none, none)
  <2>4. Answer({x})
    <3>1. Answer({RegisterAnswer(d, p)})
      BY <1>5, RegisterAnswered
    <3>2. RegisterAnswer(d, p) = x
      BY Zenon DEF RegisterAnswer
    <3> HIDE DEF x
    <3>3. QED
      BY <3>1, <3>2
  <2> HIDE DEF c, m, none
  <2>5. Honest(mode, x)
    BY <2>3, AnswerHonest
  <2> HIDE DEF x
  <2>6. QED
    BY <1>14, <2>4, <2>5 DEF Answer
<1>6. ASSUME NEW d \in net, CrashSaving(d) PROVE \E S : net' = net \cup S /\ AllHonest(mode, S)
  <2>1. Heeds(d) /\ (net' = net \cup After(d).out \/ net' = net \cup {})
    BY <1>6 DEF CrashSaving, Answer
  <2>2. ParseSnm(d).hdr.type \in {SNM.REQ, SNM.RSP, SNM.ADV}
    BY <2>1 DEF Heeds
  <2>3. QED
    BY <1>0, <2>1, <2>2, AfterHonest
<1>7. ASSUME NEW name \in Names, NEW cookie \in Cookies, EdgeRegisters(name, cookie)
      PROVE  \E S : net' = net \cup S /\ AllHonest(mode, S)
  <2>1. net' = net \cup {N2NDatagram(Peer.sock, SnSock,
                      [ttl |-> 2, pc |-> PC.REGISTER_SUPER, flags |-> 0, community |-> Padded(name)],
                      [cookie |-> cookie, edgeMac |-> Peer.mac, scheme |-> 0, toksize |-> 0, token |-> <<>>],
                      <<>>, <<>>)}
    BY <1>7 DEF EdgeRegisters, Originate
  <2>2. QED
    BY <1>14, <2>1, RegistrationHonest
<1>8. ASSUME NEW name, NEW stray, NEW discovering, EdgeAsks(name, stray, discovering)
      PROVE  \E S : net' = net \cup S /\ AllHonest(mode, S)
  <2>1. \E x : net' = net \cup {x} /\ OfSns(x)
    BY <1>8, Zenon DEF EdgeAsks, Originate, OfSns
  <2>2. QED
    BY <1>13, <2>1
<1>9. ASSUME NEW o, NEW want, OtherAsks(o, want) PROVE \E S : net' = net \cup S /\ AllHonest(mode, S)
  <2>1. net' = net \cup {[Req(SnmSock, 1, want) EXCEPT !.from = o.snm]}
    BY <1>9 DEF OtherAsks, Originate
  <2>2. \E from, to, h, m : net' = net \cup {[SnmDatagram(from, to, h, m) EXCEPT !.from = o.snm]}
    BY <2>1, Zenon DEF Req
  <2>3. QED
    BY <1>14, <2>2, SnmHonest
<1>10. ASSUME NEW o, NEW list, NEW names, OtherAnswers(o, list, names)
       PROVE  \E S : net' = net \cup S /\ AllHonest(mode, S)
  <2>1. PICK d \in net : \E hdr \in {ParseSnm(d).hdr} :
            /\ hdr.type = SNM.REQ
            /\ Originate({SnmDatagram(o.snm, SnmSock,
                          [hdr EXCEPT !.type = SNM.RSP],
                          [sn_num |-> Len(list), sn_ptr |-> list, comm_num |-> Len(names), comm_ptr |-> names])})
    BY <1>10, Zenon DEF OtherAnswers
  <2> DEFINE hdr == [ParseSnm(d).hdr EXCEPT !.type = SNM.RSP]
             m   == [sn_num |-> Len(list), sn_ptr |-> list, comm_num |-> Len(names), comm_ptr |-> names]
             y   == SnmDatagram(o.snm, SnmSock, hdr, m)
  <2>2. Originate({y})
    BY <2>1, Zenon
  <2> HIDE DEF hdr, m
  <2>3. OfSns(y)
    BY Zenon DEF OfSns
  <2> HIDE DEF y
  <2>4. \E x : net' = net \cup {x} /\ OfSns(x)
    BY <2>2, <2>3 DEF Originate
  <2>5. QED
    BY <1>13, <2>4
<1>11. ASSUME NEW o, NEW names, NEW want, OtherAdvertises(o, names, want)
       PROVE  \E S : net' = net \cup S /\ AllHonest(mode, S)
  <2>1. \E x : net' = net \cup {x} /\ OfSns(x)
    BY <1>11, Zenon DEF OtherAdvertises, Originate, OfSns
  <2>2. QED
    BY <1>13, <2>1
<1>12. QED
  BY <1>1, <1>2, <1>3, <1>4, <1>5, <1>6, <1>7, <1>8, <1>9, <1>10, <1>11 DEF CommsNext

Ciphers ==
    /\ mode \in Modes
    /\ enc = [e \in Edges |-> enc[e]] /\ dec = [e \in Edges |-> dec[e]]
    /\ \A e \in Edges : Cipher(enc[e]) /\ Cipher(dec[e])
TapHonest ==
    \A t \in tap : t.at \in Edges /\ (Needs(t.sent, t.relayed) <= PktBuf => SameFrame(mode, t.got, t.sent))
Faulty(w) ==
    w.at \in Receivers /\ w.past \in {"table", "buffer"} /\ Needs(w.frame, w.at = SnSock) > PktBuf
WildHonest == \A w \in wild : Faulty(w)
FramesInv == Ciphers /\ NetHonest /\ TapHonest /\ WildHonest

\* The ciphers before the first packet.
LEMMA NewCipher ==
    ASSUME NEW v, IsBytes(v, BLOCK)
    PROVE  Cipher([CipherState EXCEPT !.ivec = v])
<1> DEFINE z == ZeroBlock
           none == <<>>
           t == Idle(z, z, z, none)
<1>1. IsBytes(z, BLOCK)
  <2>1. IsBytes(Zeros(BLOCK), BLOCK)
    BY ZerosBytes DEF BLOCK
  <2>2. ZeroBlock = Zeros(BLOCK)
    BY DEF ZeroBlock, Zeros
  <2>3. QED
    BY <2>1, <2>2
<1>2. none \in Seq(Byte)
  OBVIOUS
<1>3. NewContext = t
  BY DEF NewContext, Idle
<1>4. [CipherState EXCEPT !.ivec = v] = Entry(t, v)
  BY <1>3 DEF CipherState, Entry
<1> HIDE DEF z
<1>5. Context(t)
  <2> HIDE DEF none
  <2>1. QED
    BY <1>1, <1>2 DEF Context
<1>6. t.output = none
  BY CtxFields
<1> HIDE DEF t
<1>7. Resting(t)
  BY <1>5, <1>6 DEF Resting
<1>8. QED
  BY <1>4, <1>7 DEF Cipher

\* The invariant holds at the beginning.
LEMMA InitHonest == Init => FramesInv
<1> SUFFICES ASSUME Init PROVE FramesInv
  OBVIOUS
<1>1. net = {} /\ wild = {} /\ tap = {} /\ mode \in Modes
  BY DEF Init, FramesInit, Modes
<1>2. PICK j : /\ j \in IF mode = TRANSFORM.AESCBC THEN Junk ELSE {<<Zeros(BLOCK), Zeros(BLOCK)>>}
               /\ enc = [e \in Edges |-> [CipherState EXCEPT !.ivec = j[1]]]
               /\ dec = [e \in Edges |-> [CipherState EXCEPT !.ivec = j[2]]]
  BY DEF Init, FramesInit
<1>3. IsBytes(j[1], BLOCK) /\ IsBytes(j[2], BLOCK)
  <2>1. CASE j \in Junk
    BY <2>1, FramesAssumption
  <2>2. CASE j = <<Zeros(BLOCK), Zeros(BLOCK)>>
    <3>1. IsBytes(Zeros(BLOCK), BLOCK)
      BY ZerosBytes DEF BLOCK
    <3>2. QED
      BY <2>2, <3>1
  <2>3. QED
    BY <1>2, <2>1, <2>2
<1> DEFINE x == [CipherState EXCEPT !.ivec = j[1]]
           y == [CipherState EXCEPT !.ivec = j[2]]
<1>4. Cipher(x) /\ Cipher(y)
  BY <1>3, NewCipher
<1> HIDE DEF x, y
<1>5. enc = [e \in Edges |-> x] /\ dec = [e \in Edges |-> y]
  BY <1>2 DEF x, y
<1>6. Ciphers
  BY <1>1, <1>4, <1>5 DEF Ciphers
<1>7. QED
  BY <1>1, <1>6 DEF FramesInv, NetHonest, TapHonest, WildHonest

---------------------------------------------------------------------------
(* The steps of Frames.                                                    *)

\* What a frame's datagram tells.
LEMMA FrameTold ==
    ASSUME mode \in Modes, NEW e \in Edges, NEW frame, NEW n, IsBytes(frame, n), n >= 14
    PROVE  Telling([srcMac |-> Mac[e], dstMac |-> SubSeq(frame, 1, 6), sock |-> NoSock, transform |-> mode])
<1>1. IsBytes(SubSeq(frame, 1, 6), 6)
  <2>1. n \in Nat
    BY DEF IsBytes
  <2>2. PICK k \in Nat : k = 6
    OBVIOUS
  <2>3. IsBytes(SubSeq(frame, 1, k), k)
    BY <2>1, <2>2, HeadPart
  <2>4. QED
    BY <2>2, <2>3
<1>2. IsBytes(Mac[e], 6)
  BY FramesAssumption
<1>3. mode \in Numbers(2)
  BY DEF Modes, TRANSFORM, Numbers, Word
<1>4. QED
  BY <1>1, <1>2, <1>3 DEF Telling

\* A frame that leaves no room for what the transform puts before it.
LEMMA TooLong ==
    ASSUME NEW transform, NEW frame, Payload(transform, frame) \in Nat, Payload(transform, frame) > PktBuf - 34
    PROVE  Oversize(transform, frame)
BY WireAssumption DEF Oversize

LEMMA WildFields ==
    ASSUME NEW at, NEW past, NEW frame
    PROVE  Wild(at, past, frame).at = at /\ Wild(at, past, frame).past = past /\ Wild(at, past, frame).frame = frame
BY DEF Wild

LEMMA OneWilder ==
    ASSUME WildHonest, NEW w, wild' = wild \/ wild' = wild \cup {w}, wild' = wild \/ Faulty(w), mode' = mode
    PROVE  WildHonest'
<1>1. ASSUME NEW x \in wild' PROVE Faulty(x)'
  <2>1. Faulty(x)
    BY <1>1 DEF WildHonest
  <2>2. QED
    BY <2>1 DEF Faulty, Needs
<1>2. QED
  BY <1>1 DEF WildHonest

\* What a supernode or edge does on account of a frame that is too long for it.
LEMMA Overrun ==
    ASSUME WildHonest, NEW at \in Receivers, NEW frame, NEW over \in BOOLEAN, Overruns(at, frame, over),
           over => Needs(frame, at = SnSock) > PktBuf, mode' = mode
    PROVE  WildHonest'
<1> DEFINE w == Wild(at, "buffer", frame)
<1>1. wild' = IF over THEN wild \cup {w} ELSE wild
  BY DEF Overruns
<1>2. w.at = at /\ w.past = "buffer" /\ w.frame = frame
  BY WildFields
<1> HIDE DEF w
<1>3. CASE over
  <2>1. Faulty(w)
    BY <1>2, <1>3 DEF Faulty
  <2>2. QED
    BY <1>1, <1>3, <2>1, OneWilder
<1>4. CASE ~over
  BY <1>1, <1>4, OneWilder
<1>5. QED
  BY <1>3, <1>4

\* The step of an edge that sends a frame.
LEMMA SendHonest ==
    ASSUME AesInverts, Ciphers, WildHonest, NEW e \in Edges, NEW frame \in TapFrames[e], NEW nonce \in Nonces, NEW to,
           SendFrame(e, frame, nonce, to)
    PROVE  /\ WildHonest'
           /\ \E x, s : /\ net' = net \cup {x} /\ Honest(mode, x)
                        /\ enc' = [enc EXCEPT ![e] = s] /\ Cipher(s)
<1> DEFINE c == Common(PC.PACKET)
           m == [srcMac |-> Mac[e], dstMac |-> SubSeq(frame, 1, 6), sock |-> NoSock, transform |-> mode]
           n == Len(frame)
           room == Room(Len(EncodeN2N(c, m)))
           r == Fwd(mode, enc[e], frame, nonce, room)
           d(out) == N2NDatagram(Sock[e], to, c, m, out, frame)
<1>1. /\ Originate({IF r.ok THEN d(r.out)
                    ELSE [d(r.out) EXCEPT !.cut = TRUE, !.bytes = SubSeq(@, 1, Len(@) - 1)]})
      /\ enc' = [enc EXCEPT ![e] = r.ctx] /\ Overruns(Sock[e], frame, Len(r.out) > room) /\ mode' = mode
  BY Zenon DEF SendFrame
<1>2. IsBytes(frame, n) /\ n >= 14 /\ n <= PktBuf
  <2>1. frame \in Seq(Byte) /\ Len(frame) \in 14..PktBuf
    BY FramesAssumption
  <2>2. QED
    BY <2>1, WireAssumption DEF IsBytes
<1>3. mode \in Modes /\ Cipher(enc[e])
  BY DEF Ciphers
<1>4. Telling(m)
  BY <1>2, <1>3, FrameTold
<1>5. /\ c \in CommonParts /\ c.pc = PC.PACKET /\ c.ttl = 2 /\ ~Has(c.flags, N2N_FLAGS_SOCKET)
  BY CommonSays
<1>6. m.transform = mode
  OBVIOUS
<1> HIDE DEF c, m, n
<1>7. room = PktBuf - 34
  <2>1. Len(EncodeN2N(c, m)) = 34
    BY <1>4, <1>5, PacketHeader DEF IsBytes
  <2>2. QED
    BY <2>1 DEF Room
<1>8. room \in Int /\ room <= PktBuf /\ 34 + room = PktBuf
  BY <1>7, WireAssumption
<1> HIDE DEF room
<1> DEFINE size == Payload(mode, frame)
<1>16. size \in Nat
  BY <1>2, <1>3, PayloadNat
<1> HIDE DEF size
<1>9. IsBytes(nonce, NONCE)
  BY FramesAssumption
<1>10. Sends(mode, r, frame, room)
  BY <1>2, <1>3, <1>8, <1>9, Across
<1>11. N2NSays(c, m)
  BY <1>4, FrameSays DEF c
<1>12. Sock[e] \in IPv4 /\ Sock[e] # SnSock /\ Sock[e] \in Receivers
  BY FramesAssumption DEF Receivers
<1> HIDE DEF r
<1>17. Len(r.out) <= size \/ r.out = <<>>
  BY <1>10, <1>16, Results DEF Sends, size
<1>18. WildHonest'
  <2> DEFINE over == Len(r.out) > room
  <2>1. over => 34 + size > PktBuf
    <3>1. Len(<<>>) = 0 /\ PktBuf \in Nat
      BY WireAssumption
    <3>2. QED
      BY <1>8, <1>16, <1>17, <3>1
  <2>2. over \in BOOLEAN
    OBVIOUS
  <2> HIDE DEF over
  <2>3. Needs(frame, Sock[e] = SnSock) = 34 + size
    BY <1>12 DEF Needs, size
  <2>4. Overruns(Sock[e], frame, over) /\ mode' = mode
    BY <1>1 DEF over
  <2>5. QED
    BY <1>12, <2>1, <2>2, <2>3, <2>4, Overrun
<1>13. CASE \E s : r = Failed(s) /\ Cipher(s) /\ size > room
  <2>1. PICK s : r = Failed(s) /\ Cipher(s) /\ size > room
    BY <1>13
  <2>2. ~r.ok /\ r.out = <<>> /\ r.ctx = s
    BY <2>1, Results
  <2>3. Oversize(mode, frame)
    BY <1>7, <1>16, <2>1, TooLong DEF size
  <2> DEFINE x == [d(<<>>) EXCEPT !.cut = TRUE, !.bytes = SubSeq(@, 1, Len(@) - 1)]
  <2>4. Honest(mode, x)
    <3>1. PICK cut : cut = TRUE
      OBVIOUS
    <3>2. Honest(mode, [d(<<>>) EXCEPT !.cut = cut, !.bytes = SubSeq(@, 1, Len(@) - 1)])
      BY <1>4, <1>5, <1>12, <2>3, CutHonest
    <3>3. QED
      BY <3>1, <3>2, Zenon
  <2>5. net' = net \cup {x} /\ enc' = [enc EXCEPT ![e] = s]
    BY <1>1, <2>2, Zenon DEF Originate
  <2> HIDE DEF x
  <2>6. QED
    BY <1>18, <2>1, <2>4, <2>5
<1>14. CASE \E o, s : /\ r = Success(o, s) /\ Cipher(s) /\ o \in Seq(Byte) /\ Len(o) = size
                      /\ size <= PktBuf => Reads(mode, o, frame)
  <2>1. PICK o, s : /\ r = Success(o, s) /\ Cipher(s) /\ o \in Seq(Byte) /\ Len(o) = size
                    /\ size <= PktBuf => Reads(mode, o, frame)
    BY <1>14
  <2>6. Arrives(mode, o, frame, 34)
    <3>1. Len(o) <= size /\ (34 + size <= PktBuf => Reads(mode, o, frame))
      BY <1>16, <2>1, WireAssumption
    <3>2. QED
      BY <1>16, <3>1 DEF Arrives, size
  <2>7. PICK k : k = 34
    OBVIOUS
  <2>8. IsBytes(EncodeN2N(c, m), k) /\ k <= 64 /\ k = HeaderFrom(Sock[e]) /\ Arrives(mode, o, frame, k)
    BY <1>4, <1>5, <1>12, <2>6, <2>7, PacketHeader DEF HeaderFrom
  <2>2. r.ok /\ r.out = o /\ r.ctx = s
    BY <2>1, Results
  <2> DEFINE x == d(o)
  <2>3. Honest(mode, x)
    BY <1>5, <1>6, <1>11, <1>12, <2>1, <2>8, SaidHonest
  <2>4. net' = net \cup {x} /\ enc' = [enc EXCEPT ![e] = s]
    BY <1>1, <2>2, Zenon DEF Originate
  <2> HIDE DEF x
  <2>5. QED
    BY <1>18, <2>1, <2>3, <2>4
<1>15. QED
  BY <1>10, <1>13, <1>14 DEF Sends, size

\* The step of an edge that receives a frame.
LEMMA RecvHonest ==
    ASSUME Ciphers, WildHonest, NEW e \in Edges, NEW d, ~d.snm, Honest(mode, d), RecvFrame(e, d)
    PROVE  /\ net' = net /\ TapHonest' /\ WildHonest'
           /\ dec' = dec \/ \E s : dec' = [dec EXCEPT ![e] = s] /\ Cipher(s)
<1> DEFINE frame == d.meant.frame
           size == Payload(mode, frame)
           relayed == d.from = SnSock
<1>1. d.to \in Receivers /\ mode' = mode /\ net' = net
  BY DEF RecvFrame, Receivers, Answer
<1>2. PICK c, m, rest : Tells(mode, d, c, m, rest)
  BY <1>1 DEF Honest
<1> DEFINE p == Parse(d)
           r == Rev(p.msg.transform, dec[e], p.rest)
<1>3. p.msg = m /\ p.cmn = c /\ p.rest = rest /\ rest \in Seq(Byte)
  BY <1>2, MadeParse
<1>4. /\ p.cmn.pc = PC.PACKET
      /\ IF InTable(p.msg.transform)
         THEN /\ dec' = [dec EXCEPT ![e] = r.ctx]
              /\ tap' = {[at |-> e, sent |-> frame, got |-> r.out, relayed |-> relayed]}
              /\ UNCHANGED wild
         ELSE /\ wild' = wild \cup {Wild(Sock[e], "table", frame)}
              /\ tap' = {}
              /\ UNCHANGED dec
  BY Zenon DEF RecvFrame
<1> HIDE DEF p, frame, size, relayed
<1>5. \/ m.transform = 0 /\ Oversize(mode, frame)
      \/ m.transform = mode /\ Arrives(mode, rest, frame, HeaderFrom(d.from))
  <2>1. c.pc = PC.PACKET
    BY <1>3, <1>4
  <2>2. c.pc \notin {PC.REGISTER, PC.REGISTER_ACK} /\ c.pc # PC.REGISTER_SUPER
    BY <2>1 DEF PC
  <2>3. QED
    BY <1>2, <2>2 DEF Tells, frame
<1>6. Sock[e] \in Receivers /\ Sock[e] # SnSock
  BY FramesAssumption DEF Receivers
<1>7. CASE m.transform = 0 /\ Oversize(mode, frame)
  <2> DEFINE w == Wild(Sock[e], "table", frame)
  <2>1. ~InTable(p.msg.transform)
    BY <1>3, <1>7 DEF InTable, TRANSFORM
  <2>2. w.at = Sock[e] /\ w.past = "table" /\ w.frame = frame
    BY WildFields
  <2>3. wild' = wild \cup {w} /\ tap' = {} /\ dec' = dec
    BY <1>4, <2>1
  <2> HIDE DEF w
  <2>4. Needs(frame, Sock[e] = SnSock) > PktBuf
    BY <1>6, <1>7 DEF Needs, Oversize
  <2>5. Faulty(w)
    BY <1>6, <2>2, <2>4 DEF Faulty
  <2>6. WildHonest'
    BY <1>1, <2>3, <2>5, OneWilder
  <2>7. QED
    BY <1>1, <2>3, <2>6 DEF TapHonest
<1>8. CASE m.transform = mode /\ Arrives(mode, rest, frame, HeaderFrom(d.from))
  <2> DEFINE t == [at |-> e, sent |-> frame, got |-> r.out, relayed |-> relayed]
  <2>1. mode \in Modes /\ Cipher(dec[e]) /\ InTable(p.msg.transform)
    BY <1>3, <1>8 DEF InTable, Ciphers, Modes
  <2>2. t.at = e /\ t.sent = frame /\ t.got = r.out /\ t.relayed = relayed
    OBVIOUS
  <2>3. dec' = [dec EXCEPT ![e] = r.ctx] /\ tap' = {t} /\ wild' = wild
    BY <1>4, <2>1
  <2>4. r = Rev(mode, dec[e], rest)
    BY <1>3, <1>8
  <2> HIDE DEF t, r
  <2>5. Cipher(r.ctx)
    BY <1>3, <2>1, <2>4, RevKeeps
  <2>6. ASSUME Needs(frame, relayed) <= PktBuf PROVE SameFrame(mode, r.out, frame)
    <3>1. HeaderFrom(d.from) + size <= PktBuf
      BY <2>6 DEF HeaderFrom, Needs, size, relayed
    <3>2. Reads(mode, rest, frame)
      BY <1>8, <3>1 DEF Arrives, size
    <3>3. PICK got, f : /\ Rev(mode, dec[e], rest) = Success(got, f) /\ Cipher(f)
                        /\ SameFrame(mode, got, frame)
      BY <2>1, <3>2 DEF Reads
    <3>4. r.out = got
      BY <2>4, <3>3, Results
    <3>5. QED
      BY <3>3, <3>4
  <2>7. TapHonest'
    <3>1. t.at \in Edges /\ (Needs(t.sent, t.relayed) <= PktBuf => SameFrame(mode, t.got, t.sent))
      BY <2>2, <2>6
    <3>2. QED
      BY <1>1, <2>3, <3>1 DEF TapHonest, Needs
  <2>8. WildHonest'
    BY <1>1, <2>3 DEF WildHonest, Faulty, Needs
  <2>9. QED
    BY <1>1, <2>3, <2>5, <2>7, <2>8
<1>9. QED
  BY <1>5, <1>7, <1>8

\* The step of the supernode that relays a frame.
LEMMA ForwardedSays ==
    ASSUME NEW c, NEW m, N2NSays(c, m), c.pc = PC.PACKET, c.ttl = 2, NEW s \in IPv4
    PROVE  LET cmn == [c EXCEPT !.ttl = @ - 1, !.flags = N2N_FLAGS_SOCKET + N2N_FLAGS_FROM_SUPERNODE]
               msg == [m EXCEPT !.sock = s]
           IN  N2NSays(cmn, msg) /\ IsBytes(EncodeN2N(cmn, msg), 42)
<1> DEFINE cmn == [c EXCEPT !.ttl = @ - 1, !.flags = N2N_FLAGS_SOCKET + N2N_FLAGS_FROM_SUPERNODE]
           msg == [m EXCEPT !.sock = s]
<1>1. c \in CommonParts /\ m \in Messages(c.pc)
  BY DEF N2NSays
<1>2. m \in [srcMac : BytesOf(6), dstMac : BytesOf(6), sock : Sockets \cup {NoSock}, transform : Numbers(2)]
  <2>1. m \in Messages(PC.PACKET)
    BY <1>1
  <2>2. QED
    BY <2>1 DEF Messages, PC
<1>3. msg \in [srcMac : BytesOf(6), dstMac : BytesOf(6), sock : Sockets \cup {NoSock}, transform : Numbers(2)]
      /\ msg.sock = s
  BY <1>2 DEF Sockets
<1>4. msg \in Messages(PC.PACKET)
  <2> HIDE DEF msg
  <2>1. QED
    BY <1>3 DEF Messages, PC
<1>5. /\ N2N_FLAGS_SOCKET + N2N_FLAGS_FROM_SUPERNODE \in {w \in Word : w % 32 = 0}
      /\ Has(N2N_FLAGS_SOCKET + N2N_FLAGS_FROM_SUPERNODE, N2N_FLAGS_SOCKET)
      /\ 2 - 1 \in Byte
  BY DEF N2N_FLAGS_SOCKET, N2N_FLAGS_FROM_SUPERNODE, Word, Has, Byte
<1> DEFINE flags == N2N_FLAGS_SOCKET + N2N_FLAGS_FROM_SUPERNODE
           less == 2 - 1
<1>6. /\ cmn = [ttl |-> less, pc |-> c.pc, flags |-> flags, community |-> c.community]
      /\ c.pc \in {PC[x] : x \in DOMAIN PC} /\ c.community \in BytesOf(N2N_COMMUNITY_SIZE)
  <2>1. c = [ttl |-> c.ttl, pc |-> c.pc, flags |-> c.flags, community |-> c.community]
    BY <1>1 DEF CommonParts
  <2>2. c.ttl - 1 = less
    OBVIOUS
  <2> HIDE DEF flags, less
  <2>3. cmn = [ttl |-> less, pc |-> c.pc, flags |-> flags, community |-> c.community]
    <3> DEFINE a == c.ttl
               b == c.pc
               x == c.flags
               y == c.community
    <3> HIDE DEF a, b, x, y
    <3>1. c = [ttl |-> a, pc |-> b, flags |-> x, community |-> y]
      BY <2>1 DEF a, b, x, y
    <3>2. [c EXCEPT !.ttl = @ - 1, !.flags = flags] = [ttl |-> a - 1, pc |-> b, flags |-> flags, community |-> y]
      <4>1. [c EXCEPT !.ttl = @ - 1, !.flags = flags] = [[c EXCEPT !.ttl = @ - 1] EXCEPT !.flags = flags]
        OBVIOUS
      <4>2. c.ttl = a
        BY <3>1
      <4> DEFINE k == a - 1
      <4> HIDE DEF k
      <4> DEFINE g == [c EXCEPT !.ttl = k]
      <4>3. g = [ttl |-> k, pc |-> b, flags |-> x, community |-> y]
        BY <3>1
      <4> HIDE DEF g
      <4>4. [g EXCEPT !.flags = flags] = [ttl |-> k, pc |-> b, flags |-> flags, community |-> y]
        BY <4>3
      <4>5. QED
        BY <4>1, <4>2, <4>4 DEF k, g
    <3>3. QED
      BY <2>2, <3>2 DEF a, b, y, flags
  <2> HIDE DEF cmn
  <2>4. QED
    BY <1>1, <2>3 DEF CommonParts
<1>7. cmn \in CommonParts /\ cmn.pc = PC.PACKET /\ Has(cmn.flags, N2N_FLAGS_SOCKET)
  <2> HIDE DEF flags, less, cmn
  <2>0. flags \in {w \in Word : w % 32 = 0} /\ Has(flags, N2N_FLAGS_SOCKET) /\ less \in Byte
    BY <1>5 DEF flags, less
  <2>1. cmn \in CommonParts
    BY <1>6, <2>0 DEF CommonParts
  <2>2. cmn.pc = c.pc /\ cmn.flags = flags
    BY <1>6
  <2>3. QED
    BY <2>0, <2>1, <2>2
<1>8. msg.sock.family # 0 /\ msg.sock \in IPv4
  BY <1>3 DEF IPv4, AF_INET
<1> HIDE DEF cmn, msg
<1>9. N2NSays(cmn, msg)
  BY <1>4, <1>7, <1>8 DEF N2NSays
<1>10. IsBytes(EncodeN2N(cmn, msg), 42)
  BY <1>4, <1>7, <1>8, RelayedHeader
<1>11. QED
  BY <1>9, <1>10 DEF cmn, msg

\* With its header encoded anew, a frame is what it was, and no longer than what
\* it needs.
LEMMA RelayedHonest ==
    ASSUME NEW transform, NEW d, d.to = SnSock, NEW c, NEW m, NEW rest,
           Tells(transform, d, c, m, rest), c.pc = PC.PACKET, NEW to
    PROVE  /\ to # SnSock => Honest(transform, Relayed(d, Parse(d), to))
           /\ Len(Relayed(d, Parse(d), to).bytes) > PktBuf => 42 + Payload(transform, d.meant.frame) > PktBuf
<1> DEFINE cmn == [c EXCEPT !.ttl = @ - 1, !.flags = N2N_FLAGS_SOCKET + N2N_FLAGS_FROM_SUPERNODE]
           msg == [m EXCEPT !.sock = d.from]
           frame == d.meant.frame
           cut == d.cut
           p == Parse(d)
           size == Payload(transform, frame)
<1>1. p.cmn = c /\ p.msg = m /\ p.rest = rest /\ N2NSays(c, m) /\ rest \in Seq(Byte)
  BY MadeParse
<1>2. /\ \/ m.transform = 0 /\ Oversize(transform, frame)
         \/ m.transform = transform /\ Arrives(transform, rest, frame, HeaderFrom(d.from))
      /\ c.ttl = 2 /\ d.from \in IPv4 /\ d.from # SnSock
  <2>1. c.pc \notin {PC.REGISTER, PC.REGISTER_ACK} /\ c.pc # PC.REGISTER_SUPER
    BY DEF PC
  <2>2. QED
    BY <2>1 DEF Tells
<1>3. Relayed(d, p, to) = [N2NDatagram(SnSock, to, cmn, msg, rest, frame) EXCEPT !.cut = cut]
  <2> HIDE DEF p
  <2>1. QED
    BY <1>1, Zenon DEF Relayed
<1>4. N2NSays(cmn, msg) /\ IsBytes(EncodeN2N(cmn, msg), 42)
  BY <1>1, <1>2, ForwardedSays
<1>5. cmn.pc = c.pc /\ msg.transform = m.transform
  <2>1. c \in CommonParts /\ m \in Messages(PC.PACKET)
    BY <1>1 DEF N2NSays
  <2>2. m \in [srcMac : BytesOf(6), dstMac : BytesOf(6), sock : Sockets \cup {NoSock}, transform : Numbers(2)]
    BY <2>1 DEF Messages, PC
  <2>3. msg.transform = m.transform
    BY <2>2
  <2>4. cmn.pc = c.pc
    BY <2>1 DEF CommonParts
  <2>5. QED
    BY <2>3, <2>4
<1> HIDE DEF cmn, msg, frame, cut, p
<1>6. PICK k, from : k = 42 /\ from = SnSock
  OBVIOUS
<1>7. \/ m.transform = 0 /\ Oversize(transform, frame)
      \/ m.transform = transform /\ Arrives(transform, rest, frame, k) /\ k = HeaderFrom(from)
  BY <1>2, <1>6, LongerArrives DEF HeaderFrom
<1>8. IsBytes(EncodeN2N(cmn, msg), k) /\ k <= 64
  BY <1>4, <1>6
<1>9. ASSUME to # SnSock PROVE Honest(transform, Relayed(d, p, to))
  <2>1. Honest(transform, [N2NDatagram(from, to, cmn, msg, rest, frame) EXCEPT !.cut = cut])
    BY <1>1, <1>4, <1>5, <1>7, <1>8, <1>9, SaidHonest
  <2>2. QED
    BY <1>3, <1>6, <2>1
<1>10. Relayed(d, p, to).bytes = EncodeN2N(cmn, msg) \o rest
  <2> DEFINE b == EncodeN2N(cmn, msg) \o rest
             meant == Meant(cmn, msg, rest, frame)
             x == Datagram(No, SnSock, to, b, cut, meant)
  <2>1. N2NDatagram(SnSock, to, cmn, msg, rest, frame) = Datagram(No, SnSock, to, b, No, meant)
    BY N2NFields
  <2> HIDE DEF b, meant
  <2>2. x.bytes = b
    BY DatagramFields
  <2>3. Relayed(d, p, to) = x
    BY <1>3, <2>1, OtherCut
  <2>4. QED
    BY <2>2, <2>3 DEF b
<1>11. ASSUME Len(Relayed(d, p, to).bytes) > PktBuf PROVE 42 + size > PktBuf
  <2> DEFINE h == EncodeN2N(cmn, msg)
  <2>4. h \in Seq(Byte) /\ Len(h) = 42
    BY <1>4 DEF IsBytes
  <2> HIDE DEF h
  <2>5. Len(h \o rest) = Len(h) + Len(rest)
    BY <1>1, <2>4, ConcatProperties
  <2>1. Len(EncodeN2N(cmn, msg) \o rest) = 42 + Len(rest) /\ Len(rest) \in Nat /\ PktBuf \in Nat
    BY <1>1, <2>4, <2>5, LenProperties, WireAssumption DEF h
  <2>2. 42 + Len(rest) > PktBuf
    BY <1>10, <1>11, <2>1
  <2>3. size \in Nat /\ (34 + size > PktBuf \/ Len(rest) <= size)
    BY <1>2 DEF Oversize, Arrives
  <2> HIDE DEF size
  <2>6. QED
    BY <2>1, <2>2, <2>3
<1>12. QED
  BY <1>9, <1>11 DEF p, frame

LEMMA RelayHonest ==
    ASSUME NetHonest, WildHonest, NEW d \in net, ~d.snm, RelayFrame(d)
    PROVE  WildHonest' /\ \E S : net' = net \cup S /\ AllHonest(mode, S)
<1> DEFINE T(p) == IF p.msg.dstMac = [i \in 1..6 |-> 255]
                   THEN {x \in Edges : Sock[x] # d.from}
                   ELSE {x \in Edges : Mac[x] = p.msg.dstMac}
           frame == d.meant.frame
<1>1. PICK p \in {Parse(d)} :
          /\ p.ok /\ p.cmn.pc = PC.PACKET
          /\ Answer({Relayed(d, p, Sock[e]) : e \in T(p)})
          /\ Overruns(SnSock, frame, Len(Relayed(d, p, SnSock).bytes) > PktBuf)
  BY Zenon DEF RelayFrame
<1> DEFINE Q == T(p)
           S == {Relayed(d, p, Sock[e]) : e \in Q}
           over == Len(Relayed(d, p, SnSock).bytes) > PktBuf
<1>2. d.to = SnSock /\ mode' = mode
  BY DEF RelayFrame
<1>3. p = Parse(d) /\ p.cmn.pc = PC.PACKET /\ Answer(S) /\ Overruns(SnSock, frame, over)
  BY <1>1
<1>4. Q \subseteq Edges /\ over \in BOOLEAN
  OBVIOUS
<1>5. PICK c, m, rest : Tells(mode, d, c, m, rest)
  BY <1>2 DEF NetHonest, Honest, Receivers
<1>6. c.pc = PC.PACKET
  BY <1>3, <1>5, MadeParse
<1> HIDE DEF Q, over
<1>7. ASSUME NEW e \in Edges PROVE Honest(mode, Relayed(d, p, Sock[e]))
  <2>1. Sock[e] # SnSock
    BY FramesAssumption
  <2>2. QED
    BY <1>2, <1>3, <1>5, <1>6, <2>1, RelayedHonest
<1>8. AllHonest(mode, S)
  BY <1>4, <1>7 DEF AllHonest
<1> HIDE DEF S
<1>9. over => Needs(frame, SnSock = SnSock) > PktBuf
  <2>1. over => 42 + Payload(mode, frame) > PktBuf
    BY <1>2, <1>3, <1>5, <1>6, RelayedHonest DEF over
  <2>2. Needs(frame, SnSock = SnSock) = 42 + Payload(mode, frame)
    BY DEF Needs
  <2>3. QED
    BY <2>1, <2>2
<1>10. WildHonest'
  <2>1. SnSock \in Receivers
    BY DEF Receivers
  <2> HIDE DEF frame
  <2>2. QED
    BY <1>2, <1>3, <1>4, <1>9, <2>1, Overrun
<1>11. QED
  BY <1>3, <1>8, <1>10 DEF Answer

\* The steps of a handshake.
LEMMA GreetHonest ==
    ASSUME NEW e \in Edges, NEW to, SendRegister(e, to)
    PROVE  \E x : net' = net \cup {x} /\ Honest(mode, x)
<1> DEFINE k == Bytes(123456789, 4)
           z == Zeros(6)
           m == [cookie |-> k, srcMac |-> Mac[e], dstMac |-> z, sock |-> NoSock]
           x == N2NDatagram(Sock[e], to, Common(PC.REGISTER), m, <<>>, <<>>)
<1>1. Originate({x})
  BY SMT DEF SendRegister
<1>2. IsBytes(k, 4)
  <2>1. k \in [1..4 -> Byte]
    BY SMT DEF Bytes, Byte
  <2>2. 4 \in Nat
    OBVIOUS
  <2> HIDE DEF k
  <2>3. QED
    BY <2>1, <2>2, BytesFunction
<1>3. IsBytes(z, 6) /\ IsBytes(Mac[e], 6)
  BY ZerosBytes, FramesAssumption
<1> HIDE DEF k, z
<1>4. Greeting(m)
  BY <1>2, <1>3 DEF Greeting
<1>5. PC.REGISTER \in {PC.REGISTER, PC.REGISTER_ACK}
  OBVIOUS
<1> HIDE DEF m
<1>6. Honest(mode, x)
  BY <1>4, <1>5, GreetingHonest
<1> HIDE DEF x
<1>7. QED
  BY <1>1, <1>6 DEF Originate

\* And the answer to it.
LEMMA GreetedHonest ==
    ASSUME NetHonest, NEW e \in Edges, NEW d \in net, ~d.snm, RecvRegister(e, d)
    PROVE  \E x : net' = net \cup {x} /\ Honest(mode, x)
<1> DEFINE p == Parse(d)
           m == [cookie |-> p.msg.cookie, srcMac |-> Mac[e], dstMac |-> p.msg.srcMac, sock |-> NoSock]
           x == N2NDatagram(Sock[e], d.from, Common(PC.REGISTER_ACK), m, <<>>, <<>>)
<1>1. d.to = Sock[e] /\ p.cmn.pc = PC.REGISTER /\ Answer({x})
  BY Zenon DEF RecvRegister
<1>2. PICK c, y, rest : Tells(mode, d, c, y, rest)
  BY <1>1 DEF NetHonest, Honest, Receivers
<1>3. p.msg = y /\ p.cmn = c /\ N2NSays(c, y)
  BY <1>2, MadeParse
<1>4. y \in Messages(PC.REGISTER)
  BY <1>1, <1>3 DEF N2NSays
<1>5. y \in [cookie : BytesOf(4), srcMac : BytesOf(6), dstMac : BytesOf(6), sock : Sockets \cup {NoSock}]
  BY <1>4 DEF Messages, PC
<1>6. IsBytes(p.msg.cookie, 4) /\ IsBytes(p.msg.srcMac, 6) /\ IsBytes(Mac[e], 6)
  BY <1>3, <1>5, FramesAssumption DEF BytesOf
<1> HIDE DEF p
<1>7. Greeting(m)
  BY <1>6 DEF Greeting
<1> HIDE DEF m
<1>8. PC.REGISTER_ACK \in {PC.REGISTER, PC.REGISTER_ACK}
  OBVIOUS
<1>9. Honest(mode, x)
  BY <1>7, <1>8, GreetingHonest
<1> HIDE DEF x
<1>10. QED
  BY <1>1, <1>9 DEF Answer

\* What the steps of Frames leave of the invariant, and what they may add to it.
LEMMA MoreHonest ==
    ASSUME NetHonest, NEW S, net' = net \cup S, AllHonest(mode, S), mode' = mode
    PROVE  NetHonest'
BY DEF NetHonest, AllHonest

LEMMA OneHonest ==
    ASSUME NetHonest, NEW x, net' = net \cup {x}, Honest(mode, x), mode' = mode
    PROVE  NetHonest'
BY DEF NetHonest

LEMMA CiphersKept ==
    ASSUME Ciphers, mode' = mode, enc' = enc, dec' = dec
    PROVE  Ciphers'
BY DEF Ciphers

LEMMA NothingRead ==
    ASSUME tap' = {}
    PROVE  TapHonest'
BY DEF TapHonest

LEMMA WildKept ==
    ASSUME WildHonest, mode' = mode, wild' = wild
    PROVE  WildHonest'
BY DEF WildHonest, Faulty, Needs

\* One cipher of them all.
LEMMA Replaced ==
    ASSUME NEW f, f = [e \in Edges |-> f[e]], \A e \in Edges : Cipher(f[e]), NEW e \in Edges, NEW s, Cipher(s),
           NEW g, g = [f EXCEPT ![e] = s]
    PROVE  g = [x \in Edges |-> g[x]] /\ \A x \in Edges : Cipher(g[x])
<1>1. g = [x \in Edges |-> IF x = e THEN s ELSE f[x]]
  OBVIOUS
<1>2. \A x \in Edges : g[x] = IF x = e THEN s ELSE f[x]
  BY <1>1
<1>3. g = [x \in Edges |-> g[x]]
  BY <1>1, <1>2
<1>4. QED
  BY <1>2, <1>3

\* Each step of Frames keeps the invariant.
LEMMA FramesStep ==
    ASSUME AesInverts, FramesInv, FramesNext
    PROVE  FramesInv'
<1>0. Ciphers /\ NetHonest /\ TapHonest /\ WildHonest
  BY DEF FramesInv
<1>1. ASSUME NEW e \in Edges, NEW frame \in TapFrames[e], NEW nonce \in Nonces, NEW to, SendFrame(e, frame, nonce, to)
      PROVE  FramesInv'
  <2>0. WildHonest'
    BY <1>0, <1>1, SendHonest
  <2>1. PICK x, s : /\ net' = net \cup {x} /\ Honest(mode, x)
                    /\ enc' = [enc EXCEPT ![e] = s] /\ Cipher(s)
    BY <1>0, <1>1, SendHonest
  <2>2. mode' = mode /\ dec' = dec /\ tap' = {}
    BY <1>1 DEF SendFrame
  <2>3. enc' = [y \in Edges |-> enc'[y]] /\ \A y \in Edges : Cipher(enc'[y])
    BY <1>0, <2>1, Replaced DEF Ciphers
  <2>4. Ciphers'
    BY <1>0, <2>2, <2>3 DEF Ciphers
  <2>5. QED
    BY <1>0, <2>0, <2>1, <2>2, <2>4, OneHonest, NothingRead DEF FramesInv
<1>2. ASSUME NEW e \in Edges, NEW to, SendRegister(e, to)
      PROVE  FramesInv'
  <2>1. PICK x : net' = net \cup {x} /\ Honest(mode, x)
    BY <1>2, GreetHonest
  <2>2. mode' = mode /\ enc' = enc /\ dec' = dec /\ wild' = wild /\ tap' = {}
    BY <1>2, SMT DEF SendRegister
  <2>3. QED
    BY <1>0, <2>1, <2>2, OneHonest, CiphersKept, NothingRead, WildKept DEF FramesInv
<1>3. ASSUME NEW d \in net, ~d.snm, RelayFrame(d)
      PROVE  FramesInv'
  <2>0. WildHonest'
    BY <1>0, <1>3, RelayHonest
  <2>1. PICK S : net' = net \cup S /\ AllHonest(mode, S)
    BY <1>0, <1>3, RelayHonest
  <2>2. mode' = mode /\ enc' = enc /\ dec' = dec /\ tap' = {}
    BY <1>3, Zenon DEF RelayFrame
  <2>3. QED
    BY <1>0, <2>0, <2>1, <2>2, MoreHonest, CiphersKept, NothingRead DEF FramesInv
<1>4. ASSUME NEW e \in Edges, NEW d \in net, ~d.snm, RecvFrame(e, d)
      PROVE  FramesInv'
  <2>1. Honest(mode, d)
    BY <1>0 DEF NetHonest
  <2>2. /\ net' = net /\ TapHonest' /\ WildHonest'
        /\ dec' = dec \/ \E s : dec' = [dec EXCEPT ![e] = s] /\ Cipher(s)
    BY <1>0, <1>4, <2>1, RecvHonest
  <2>3. mode' = mode /\ enc' = enc
    BY <1>4 DEF RecvFrame
  <2>4. NetHonest'
    BY <1>0, <2>2, <2>3 DEF NetHonest
  <2>5. Ciphers'
    <3>1. CASE dec' = dec
      BY <1>0, <2>3, <3>1, CiphersKept
    <3>2. CASE \E s : dec' = [dec EXCEPT ![e] = s] /\ Cipher(s)
      <4>1. dec' = [y \in Edges |-> dec'[y]] /\ \A y \in Edges : Cipher(dec'[y])
        BY <1>0, <3>2, Replaced DEF Ciphers
      <4>2. QED
        BY <1>0, <2>3, <4>1 DEF Ciphers
    <3>3. QED
      BY <2>2, <3>1, <3>2
  <2>6. QED
    BY <2>2, <2>4, <2>5 DEF FramesInv
<1>5. ASSUME NEW e \in Edges, NEW d \in net, ~d.snm, RecvRegister(e, d)
      PROVE  FramesInv'
  <2>1. PICK x : net' = net \cup {x} /\ Honest(mode, x)
    BY <1>0, <1>5, GreetedHonest
  <2>2. mode' = mode /\ enc' = enc /\ dec' = dec /\ wild' = wild /\ tap' = {}
    BY <1>5 DEF RecvRegister
  <2>3. QED
    BY <1>0, <2>1, <2>2, OneHonest, CiphersKept, NothingRead, WildKept DEF FramesInv
<1>6. QED
  BY <1>1, <1>2, <1>3, <1>4, <1>5 DEF FramesNext

\* The invariant holds in every state: whatever edges and supernodes have sent,
\* lost, repeated, cut off and relayed, what arrives of a packet holds a frame that
\* comes out as it went in, if the buffers hold the datagram it needs - PktBuf
\* bytes on the way of the packet, of which the header takes 34 or 42 and the
\* padding its part - and what arrives of a longer one is no more than was sent
\* (edge.c, sn.c, transform_tf.c, transform_aes.c).
THEOREM FramesHonest == AesInverts => (Spec => []FramesInv)
<1> SUFFICES ASSUME AesInverts PROVE Spec => []FramesInv
  OBVIOUS
<1>1. Init => FramesInv
  BY InitHonest
<1>2. FramesInv /\ [Next]_vars => FramesInv'
  <2> SUFFICES ASSUME FramesInv, [Next]_vars PROVE FramesInv'
    OBVIOUS
  <2>1. CASE FramesNext
    BY <2>1, FramesStep
  <2>2. CASE CommsNext /\ UNCHANGED framesVars
    <3>1. mode' = mode /\ enc' = enc /\ dec' = dec /\ wild' = wild /\ tap' = tap
      BY <2>2 DEF framesVars
    <3>2. NetHonest'
      BY <2>2, <3>1, CommsHonest DEF FramesInv, NetHonest
    <3>3. QED
      BY <3>1, <3>2, CiphersKept, WildKept DEF FramesInv, TapHonest, Needs
  <2>3. CASE UNCHANGED vars
    <3>1. mode' = mode /\ enc' = enc /\ dec' = dec /\ wild' = wild /\ tap' = tap /\ net' = net
      BY <2>3 DEF vars, framesVars
    <3>2. QED
      BY <3>1, CiphersKept, WildKept DEF FramesInv, NetHonest, TapHonest, Needs
  <2>4. QED
    BY <2>1, <2>2, <2>3 DEF Next
<1>3. QED
  BY <1>1, <1>2, PTL DEF Spec

\* What an edge writes to its TAP device is the frame that another edge read from
\* its own, but for the two MACs with AES, up to the last frame whose datagram the
\* buffers hold, directly or with the relay's longer header: for every size of the
\* buffers and number of edges, whatever frames and nonces, and every value of the
\* keys (handle_PACKET in edge.c).  Longer frames are excepted: they lose their end
\* to recvfrom, or run over a buffer, in the model as in the code.
THEOREM FramesIntactAlways == AesInverts => (Spec => []FramesIntact)
<1> SUFFICES ASSUME AesInverts PROVE Spec => []FramesIntact
  OBVIOUS
<1>1. FramesInv => FramesIntact
  BY DEF FramesInv, TapHonest, SameFrame, FramesIntact
<1>2. QED
  BY <1>1, FramesHonest, PTL

\* Only a frame whose datagram no buffer holds makes an edge or the supernode leave
\* its memory: the sender past the end of the buffer it encodes in, the receiver
\* before its table of transforms, the supernode past the end of the buffer it
\* relays from; there the datagram counts with the longer header (send_packet2net
\* and handle_PACKET in edge.c, transop_encode_aes, process_udp in sn.c).
THEOREM OnlyOversizeBreaksAlways == AesInverts => (Spec => []OnlyOversizeBreaks)
<1> SUFFICES ASSUME AesInverts PROVE Spec => []OnlyOversizeBreaks
  OBVIOUS
<1>1. FramesInv => OnlyOversizeBreaks
  BY DEF FramesInv, WildHonest, Faulty, OnlyOversizeBreaks
<1>2. QED
  BY <1>1, FramesHonest, PTL

\* The ciphers of the edges keep the form they have between two packets.
THEOREM FramesTypes == AesInverts => (Spec => []FramesTypeOK)
<1> SUFFICES ASSUME AesInverts PROVE Spec => []FramesTypeOK
  OBVIOUS
<1>1. FramesInv => FramesTypeOK
  <2> SUFFICES ASSUME FramesInv PROVE FramesTypeOK
    OBVIOUS
  <2>1. ASSUME NEW c, Cipher(c)
        PROVE  /\ Len(c.ivec) = BLOCK /\ Len(c.tf.plain) = BLOCK /\ Len(c.tf.crypt) = BLOCK
               /\ c.tf.output = <<>>
    <3>1. PICK t, v : c = Entry(t, v) /\ Resting(t) /\ IsBytes(v, BLOCK)
      BY <2>1 DEF Cipher
    <3>2. c.tf = t /\ c.ivec = v
      BY <3>1, EntryFields
    <3>3. PICK p, x, y, o : /\ IsBytes(p, BLOCK) /\ IsBytes(x, BLOCK)
                            /\ t = Busy(p, x, y, o) \/ t = Idle(p, x, y, o)
      BY <3>1 DEF Resting, Context
    <3>4. t.plain = p /\ t.crypt = x
      BY <3>3, CtxFields
    <3>5. Len(v) = BLOCK /\ Len(p) = BLOCK /\ Len(x) = BLOCK
      BY <3>1, <3>3 DEF IsBytes
    <3>6. t.output = <<>>
      BY <3>1 DEF Resting
    <3>7. QED
      BY <3>2, <3>4, <3>5, <3>6
  <2>2. \A c \in {enc[e] : e \in Edges} \cup {dec[e] : e \in Edges} : Cipher(c)
    BY DEF FramesInv, Ciphers
  <2>3. /\ mode \in Modes /\ \A t \in tap : t.at \in Edges
        /\ \A w \in wild : w.at \in Receivers /\ w.past \in {"table", "buffer"}
    BY DEF FramesInv, Ciphers, TapHonest, WildHonest, Faulty
  <2>4. QED
    BY <2>1, <2>2, <2>3 DEF FramesTypeOK, Modes, Receivers
<1>2. QED
  BY <1>1, FramesHonest, PTL

---------------------------------------------------------------------------
(* The lists of a supernode.                                               *)

LEMMA EndsWithRest ==
    ASSUME NEW s, NEW t, EndsWith(t, s), NEW x
    PROVE  EndsWith(<<x>> \o t, s)
<1> DEFINE u == <<x>> \o t
<1>1. Len(s) \in Nat /\ Len(t) \in Nat /\ Len(s) <= Len(t) /\ \A i \in 1..Len(s) : t[Len(t) - Len(s) + i] = s[i]
  BY ListIs DEF EndsWith
<1>2. List(u) /\ Len(u) = Len(t) + 1 /\ \A i \in 1..Len(t) : u[i + 1] = t[i]
  BY HeadList DEF EndsWith
<1> HIDE DEF u
<1>3. ASSUME NEW i \in 1..Len(s) PROVE u[Len(u) - Len(s) + i] = s[i]
  <2>1. Len(t) - Len(s) + i \in 1..Len(t) /\ Len(u) - Len(s) + i = (Len(t) - Len(s) + i) + 1
    BY <1>1, <1>2
  <2>2. QED
    BY <1>1, <1>2, <2>1
<1>4. Len(s) <= Len(u)
  BY <1>1, <1>2
<1>5. QED
  BY <1>2, <1>3, <1>4 DEF EndsWith, u

---------------------------------------------------------------------------
(* Communities and supernodes in lists.                                    *)

\* comm_find finds a community whose name begins with the one asked for, if there
\* is one.
LEMMA FoundIs ==
    ASSUME NEW list, List(list), NEW name
    PROVE  LET k == CommFind(list, name)
           IN  \/ k = 0 /\ \A i \in 1..Len(list) : ~IsPrefix(name, list[i].name)
               \/ k \in 1..Len(list) /\ IsPrefix(name, list[k].name)
<1> DEFINE I == {i \in 1..Len(list) : IsPrefix(name, list[i].name)}
<1>1. CommFind(list, name) = IF I # {} THEN Min(I) ELSE 0
  BY DEF CommFind, SelectInSeq
<1>2. CASE I = {}
  <2>1. CommFind(list, name) = 0
    BY <1>1, <1>2
  <2>2. \A i \in 1..Len(list) : ~IsPrefix(name, list[i].name)
    BY <1>2
  <2>3. QED
    BY <2>1, <2>2
<1>3. CASE I # {}
  <2>1. I \in SUBSET Nat
    BY ListIs
  <2>2. \E x \in I : \A y \in I : x <= y
    BY <1>3, <2>1, LeastNatural
  <2>3. Min(I) \in I
    <3> HIDE DEF I
    <3>1. QED
      BY <2>2 DEF Min
  <2>4. CommFind(list, name) \in I
    BY <1>1, <1>3, <2>3
  <2>5. QED
    BY <2>4
<1>4. QED
  BY <1>2, <1>3

\* A list of supernodes, each of them once.
Supernodes(l) == List(l) /\ \A i, j \in 1..Len(l) : l[i] = l[j] => i = j

LEMMA AddSnKeeps ==
    ASSUME NEW l, Supernodes(l), NEW s, NEW old, EndsWith(l, old)
    PROVE  Supernodes(AddSn(l, s)) /\ EndsWith(AddSn(l, s), old)
<1>1. List(l) /\ Len(l) \in Nat /\ DOMAIN l = 1..Len(l)
  BY ListIs DEF Supernodes
<1>2. CASE s \in ToSet(l)
  <2>1. AddSn(l, s) = l
    BY <1>2 DEF AddSn
  <2>2. QED
    BY <2>1
<1>3. CASE s \notin ToSet(l)
  <2> DEFINE t == <<s>> \o l
  <2>1. AddSn(l, s) = t
    BY <1>3 DEF AddSn
  <2>2. List(t) /\ Len(t) = Len(l) + 1 /\ t[1] = s /\ \A i \in 1..Len(l) : t[i + 1] = l[i]
    BY <1>1, HeadList
  <2>3. EndsWith(t, old)
    BY EndsWithRest
  <2>4. \A i \in 1..Len(l) : l[i] # s
    BY <1>1, <1>3 DEF ToSet
  <2> HIDE DEF t
  <2>5. ASSUME NEW i \in 1..Len(t), NEW j \in 1..Len(t), t[i] = t[j] PROVE i = j
    <3>1. ASSUME NEW x \in 1..Len(t), x # 1 PROVE x - 1 \in 1..Len(l) /\ t[x] = l[x - 1]
      <4>1. x - 1 \in 1..Len(l) /\ x = (x - 1) + 1
        BY <1>1, <2>2, <3>1
      <4>2. QED
        BY <2>2, <4>1
    <3>2. CASE i = 1 /\ j = 1
      BY <3>2
    <3>3. CASE i = 1 /\ j # 1
      BY <2>2, <2>4, <2>5, <3>1, <3>3
    <3>4. CASE i # 1 /\ j = 1
      BY <2>2, <2>4, <2>5, <3>1, <3>4
    <3>5. CASE i # 1 /\ j # 1
      <4>1. i - 1 \in 1..Len(l) /\ j - 1 \in 1..Len(l) /\ l[i - 1] = l[j - 1]
        BY <2>5, <3>1, <3>5
      <4>2. i - 1 = j - 1
        BY <4>1 DEF Supernodes
      <4>3. QED
        BY <4>2
    <3>6. QED
      BY <3>2, <3>3, <3>4, <3>5
  <2>6. QED
    BY <2>1, <2>2, <2>3, <2>5 DEF Supernodes
<1>4. QED
  BY <1>2, <1>3

\* A community, and a list of them, each name once.
CommEntry(c) == c = [name |-> c.name, sns |-> c.sns] /\ List(c.name) /\ List(c.sns) /\ Len(c.sns) <= MaxSn
Communities(l) ==
    /\ List(l) /\ \A i \in 1..Len(l) : CommEntry(l[i])
    /\ \A i, j \in 1..Len(l) : l[i].name = l[j].name => i = j

LEMMA AddCommKeeps ==
    ASSUME NEW l, Communities(l), NEW name, List(name), NEW old, EndsWith(l, old)
    PROVE  Communities(AddComm(l, name)) /\ EndsWith(AddComm(l, name), old)
<1>1. List(l) /\ Len(l) \in Nat /\ DOMAIN l = 1..Len(l)
  BY ListIs DEF Communities
<1>2. CASE CommFind(l, name) # 0
  <2>1. AddComm(l, name) = l
    BY <1>2 DEF AddComm
  <2>2. QED
    BY <2>1
<1>3. CASE CommFind(l, name) = 0
  <2> DEFINE none == <<>>
             c == [name |-> name, sns |-> none]
             t == <<c>> \o l
  <2>1. AddComm(l, name) = t
    BY <1>3 DEF AddComm
  <2>2. List(t) /\ Len(t) = Len(l) + 1 /\ t[1] = c /\ \A i \in 1..Len(l) : t[i + 1] = l[i]
    BY <1>1, HeadList
  <2>3. EndsWith(t, old)
    BY EndsWithRest
  <2>4. \A i \in 1..Len(l) : l[i].name # name
    <3>1. \A i \in 1..Len(l) : ~IsPrefix(name, l[i].name)
      BY <1>1, <1>3, FoundIs
    <3>2. QED
      BY <3>1, OwnPrefix
  <2>5. CommEntry(c) /\ c.name = name
    <3>1. none \in Seq({}) /\ Len(none) = 0
      BY EmptySeq
    <3>2. List(none) /\ Len(none) <= MaxSn
      BY <3>1, CommsAssumption DEF List
    <3> HIDE DEF none
    <3>3. QED
      BY <3>2 DEF CommEntry
  <2> HIDE DEF t, c
  <2>6. ASSUME NEW x \in 1..Len(t), x # 1 PROVE x - 1 \in 1..Len(l) /\ t[x] = l[x - 1]
    <3>1. x - 1 \in 1..Len(l) /\ x = (x - 1) + 1
      BY <1>1, <2>2, <2>6
    <3>2. QED
      BY <2>2, <3>1
  <2>7. ASSUME NEW i \in 1..Len(t) PROVE CommEntry(t[i])
    <3>1. CASE i = 1
      BY <2>2, <2>5, <3>1
    <3>2. CASE i # 1
      BY <2>6, <3>2 DEF Communities
    <3>3. QED
      BY <3>1, <3>2
  <2>8. ASSUME NEW i \in 1..Len(t), NEW j \in 1..Len(t), t[i].name = t[j].name PROVE i = j
    <3>1. CASE i = 1 /\ j = 1
      BY <3>1
    <3>2. CASE i = 1 /\ j # 1
      BY <2>2, <2>4, <2>5, <2>6, <2>8, <3>2
    <3>3. CASE i # 1 /\ j = 1
      BY <2>2, <2>4, <2>5, <2>6, <2>8, <3>3
    <3>4. CASE i # 1 /\ j # 1
      <4>1. i - 1 \in 1..Len(l) /\ j - 1 \in 1..Len(l) /\ l[i - 1].name = l[j - 1].name
        BY <2>6, <2>8, <3>4
      <4>2. i - 1 = j - 1
        BY <4>1 DEF Communities
      <4>3. QED
        BY <4>2
    <3>5. QED
      BY <3>1, <3>2, <3>3, <3>4
  <2>9. QED
    BY <2>1, <2>2, <2>3, <2>7, <2>8 DEF Communities
<1>4. QED
  BY <1>2, <1>3

LEMMA AddToCommKeeps ==
    ASSUME NEW l, Communities(l), NEW k, k = 0 \/ k \in 1..Len(l), NEW s
    PROVE  Communities(AddToComm(l, k, s)) /\ Len(AddToComm(l, k, s)) = Len(l)
<1>1. List(l) /\ Len(l) \in Nat /\ DOMAIN l = 1..Len(l) /\ l = [i \in 1..Len(l) |-> l[i]]
  BY ListIs DEF Communities
<1>2. CASE k = 0 \/ Len(l[k].sns) = MaxSn \/ s \in ToSet(l[k].sns)
  BY <1>2 DEF AddToComm
<1>3. CASE ~(k = 0 \/ Len(l[k].sns) = MaxSn \/ s \in ToSet(l[k].sns))
  <2> DEFINE c == l[k]
             n == Len(l)
             more == Append(c.sns, s)
             t == [l EXCEPT ![k].sns = Append(@, s)]
             new == [c EXCEPT !.sns = more]
  <2>1. AddToComm(l, k, s) = t
    BY <1>3 DEF AddToComm
  <2>2. k \in 1..n /\ CommEntry(c) /\ Len(c.sns) # MaxSn
    BY <1>3 DEF Communities
  <2>3. DOMAIN t = 1..n /\ t[k] = new /\ \A i \in 1..n : i # k => t[i] = l[i]
    BY <1>1, <2>2
  <2>4. t = [i \in 1..n |-> t[i]]
    BY <1>1
  <2> HIDE DEF t, n
  <2>5. List(t) /\ Len(t) = n
    BY <1>1, <2>3, <2>4, PlacesList DEF n
  <2>6. List(more) /\ Len(more) = Len(c.sns) + 1
    BY <2>2, EndList DEF CommEntry
  <2>7. Len(more) <= MaxSn
    <3>1. Len(c.sns) \in Nat /\ Len(c.sns) <= MaxSn
      BY <2>2, ListIs DEF CommEntry
    <3>2. QED
      BY <2>2, <2>6, <3>1, CommsAssumption
  <2>8. new = [name |-> c.name, sns |-> more]
    <3> HIDE DEF c, more
    <3>1. c = [name |-> c.name, sns |-> c.sns]
      BY <2>2 DEF CommEntry
    <3>2. QED
      BY <3>1
  <2> HIDE DEF more, new
  <2>9. CommEntry(new) /\ new.name = c.name
    BY <2>2, <2>6, <2>7, <2>8 DEF CommEntry
  <2>10. \A i \in 1..n : CommEntry(t[i]) /\ t[i].name = l[i].name
    <3> SUFFICES ASSUME NEW i \in 1..n PROVE CommEntry(t[i]) /\ t[i].name = l[i].name
      OBVIOUS
    <3>1. CASE i = k
      BY <2>3, <2>9, <3>1
    <3>2. CASE i # k
      BY <2>3, <3>2 DEF Communities, n
    <3>3. QED
      BY <3>1, <3>2
  <2>11. Communities(t)
    <3>1. \A i, j \in 1..n : t[i].name = t[j].name => i = j
      BY <2>10 DEF Communities, n
    <3>2. QED
      BY <2>5, <2>10, <3>1 DEF Communities
  <2>12. QED
    BY <2>1, <2>5, <2>11 DEF n
<1>4. QED
  BY <1>2, <1>3

\* A supernode of a community that is known.
LEMMA NotedKeeps ==
    ASSUME NEW l, Communities(l), NEW name, NEW s
    PROVE  Communities(Noted(l, name, s))
<1> DEFINE k == CommFind(l, name)
<1>1. k = 0 \/ k \in 1..Len(l)
  BY FoundIs DEF Communities
<1> HIDE DEF k
<1>2. Communities(AddToComm(l, k, s))
  BY <1>1, AddToCommKeeps
<1>3. QED
  BY <1>2 DEF Noted, k

---------------------------------------------------------------------------
(* The loops over lists, step by step.                                     *)

\* What a response and an advertisement tell of communities, what the end of the
\* discovery makes of the list, and how files are read.
Learned(list, names, s) ==
    FoldLeft(LAMBDA l, name : LET m == AddComm(l, name) IN AddToComm(m, CommFind(m, name), s), list, names)
Told(list, names, s) == FoldLeft(LAMBDA l, name : AddToComm(l, CommFind(l, name), s), list, names)
Found(list, others) ==
    FoldLeft(LAMBDA l, c : IF Len(l) < MaxComm /\ Len(c.sns) < MinSn THEN AddComm(l, c.name) ELSE l, list, others)
SnsRead(list, texts) == FoldLeft(LAMBDA l, t : AddSn(l, FromText(t)), list, texts)
CommsRead(list, entries, places) ==
    FoldLeft(LAMBDA l, i : <<[name |-> entries[i].name,
                              sns |-> [j \in DOMAIN entries[i].sns |-> FromText(entries[i].sns[j])]]>> \o l,
             list, places)

\* The folds of a supernode are of no other kind.
LEMMA CommFolds ==
    ASSUME NEW fold \in {"supernodes", "texts", "entries", "learned", "told", "discovered"},
           NEW b, NEW x, NEW item
    PROVE  Step(fold, b, x, item) = CommStep(fold, b, x, item)
<1>1. Step(fold, b, x, item) = CipherStep(fold, b, x, item)
  BY DEF Step
<1>2. CipherStep(fold, b, x, item) = CommStep(fold, b, x, item)
  BY DEF CipherStep
<1>3. QED
  BY <1>1, <1>2

LEMMA AddSnsFold ==
    ASSUME NEW base, NEW s, NEW n \in Nat, DOMAIN s = 1..n
    PROVE  \E g : Folds("supernodes", <<>>, base, s, n, g) /\ g[n] = AddSns(base, s)
<1> DEFINE Value(g, S) == IF S = {} THEN base ELSE AddSn(g[S \ {Max(S)}], s[Max(S)])
<1>1. \A g, S : FoldValue("supernodes", <<>>, base, s, g, S) = Value(g, S)
  <2>1. ASSUME NEW b, NEW x, NEW item
        PROVE  Step("supernodes", b, x, item) = AddSn(x, item)
    <3>1. Step("supernodes", b, x, item) = CommStep("supernodes", b, x, item)
      BY CommFolds
    <3>2. QED
      BY <3>1 DEF CommStep
  <2>2. QED
    BY <2>1 DEF FoldValue
<1>2. \E g : g = [S \in SUBSET (1..n) |-> Value(g, S)]
  <2> HIDE DEF Value
  <2>1. PICK g : FoldsUpTo("supernodes", <<>>, base, s, g, n)
    BY FoldExists
  <2>2. g = [S \in SUBSET (1..n) |-> FoldValue("supernodes", <<>>, base, s, g, S)]
    BY <2>1 DEF FoldsUpTo
  <2>3. g = [S \in SUBSET (1..n) |-> Value(g, S)]
    BY <1>1, <2>2
  <2>4. QED
    BY <2>3
<1> DEFINE iter == CHOOSE g : g = [S \in SUBSET (1..n) |-> Value(g, S)]
<1>3. iter = [S \in SUBSET (1..n) |-> Value(iter, S)]
  <2> HIDE DEF Value
  <2>1. QED
    BY <1>2
<1>4. AddSns(base, s) = iter[1..n]
  BY DEF AddSns, FoldLeft, MapThenFoldSet
<1> HIDE DEF iter, Value
<1>5. FoldsUpTo("supernodes", <<>>, base, s, iter, n)
  BY <1>1, <1>3 DEF FoldsUpTo
<1>6. QED
  BY <1>4, <1>5, FoldIsSequence

LEMMA SnsReadFold ==
    ASSUME NEW base, NEW s, NEW n \in Nat, DOMAIN s = 1..n
    PROVE  \E g : Folds("texts", <<>>, base, s, n, g) /\ g[n] = SnsRead(base, s)
<1> DEFINE Value(g, S) == IF S = {} THEN base ELSE AddSn(g[S \ {Max(S)}], FromText(s[Max(S)]))
<1>1. \A g, S : FoldValue("texts", <<>>, base, s, g, S) = Value(g, S)
  <2>1. ASSUME NEW b, NEW x, NEW item
        PROVE  Step("texts", b, x, item) = AddSn(x, FromText(item))
    <3>1. Step("texts", b, x, item) = CommStep("texts", b, x, item)
      BY CommFolds
    <3>2. QED
      BY <3>1 DEF CommStep
  <2>2. QED
    BY <2>1 DEF FoldValue
<1>2. \E g : g = [S \in SUBSET (1..n) |-> Value(g, S)]
  <2> HIDE DEF Value
  <2>1. PICK g : FoldsUpTo("texts", <<>>, base, s, g, n)
    BY FoldExists
  <2>2. g = [S \in SUBSET (1..n) |-> FoldValue("texts", <<>>, base, s, g, S)]
    BY <2>1 DEF FoldsUpTo
  <2>3. g = [S \in SUBSET (1..n) |-> Value(g, S)]
    BY <1>1, <2>2
  <2>4. QED
    BY <2>3
<1> DEFINE iter == CHOOSE g : g = [S \in SUBSET (1..n) |-> Value(g, S)]
<1>3. iter = [S \in SUBSET (1..n) |-> Value(iter, S)]
  <2> HIDE DEF Value
  <2>1. QED
    BY <1>2
<1>4. SnsRead(base, s) = iter[1..n]
  BY DEF SnsRead, FoldLeft, MapThenFoldSet
<1> HIDE DEF iter, Value
<1>5. FoldsUpTo("texts", <<>>, base, s, iter, n)
  BY <1>1, <1>3 DEF FoldsUpTo
<1>6. QED
  BY <1>4, <1>5, FoldIsSequence

LEMMA EntriesStep ==
    ASSUME NEW b, NEW x, NEW item
    PROVE  Step("entries", b, x, item) = <<Reread(b[item])>> \o x
<1>1. Step("entries", b, x, item) = CommStep("entries", b, x, item)
  BY CommFolds
<1>2. QED
  BY <1>1 DEF CommStep

LEMMA CommsReadFold ==
    ASSUME NEW base, NEW s, NEW n \in Nat, DOMAIN s = 1..n, NEW entries
    PROVE  \E g : Folds("entries", entries, base, s, n, g) /\ g[n] = CommsRead(base, entries, s)
<1> DEFINE Value(g, S) == IF S = {} THEN base ELSE 
                        <<[name |-> entries[s[Max(S)]].name,
                           sns |-> [j \in DOMAIN entries[s[Max(S)]].sns |-> FromText(entries[s[Max(S)]].sns[j])]]>>
                        \o g[S \ {Max(S)}]
<1>1. \A g, S : FoldValue("entries", entries, base, s, g, S) = Value(g, S)
  <2>1. ASSUME NEW x, NEW item
        PROVE  Step("entries", entries, x, item)
                 = <<[name |-> entries[item].name,
                      sns |-> [j \in DOMAIN entries[item].sns |-> FromText(entries[item].sns[j])]]>> \o x
    BY EntriesStep DEF Reread
  <2>2. ASSUME NEW g, NEW S
        PROVE  FoldValue("entries", entries, base, s, g, S) = Value(g, S)
    <3>1. Step("entries", entries, g[S \ {Max(S)}], s[Max(S)])
            = <<[name |-> entries[s[Max(S)]].name,
                 sns |-> [j \in DOMAIN entries[s[Max(S)]].sns |-> FromText(entries[s[Max(S)]].sns[j])]]>>
              \o g[S \ {Max(S)}]
      BY <2>1
    <3>2. QED
      BY <3>1, Zenon DEF FoldValue
  <2>3. QED
    BY <2>2
<1>2. \E g : g = [S \in SUBSET (1..n) |-> Value(g, S)]
  <2> HIDE DEF Value
  <2>1. PICK g : FoldsUpTo("entries", entries, base, s, g, n)
    BY FoldExists
  <2>2. g = [S \in SUBSET (1..n) |-> FoldValue("entries", entries, base, s, g, S)]
    BY <2>1 DEF FoldsUpTo
  <2>3. g = [S \in SUBSET (1..n) |-> Value(g, S)]
    BY <1>1, <2>2
  <2>4. QED
    BY <2>3
<1> DEFINE iter == CHOOSE g : g = [S \in SUBSET (1..n) |-> Value(g, S)]
<1>3. iter = [S \in SUBSET (1..n) |-> Value(iter, S)]
  <2> HIDE DEF Value
  <2>1. QED
    BY <1>2
<1>4. CommsRead(base, entries, s) = iter[1..n]
  BY DEF CommsRead, FoldLeft, MapThenFoldSet
<1> HIDE DEF iter, Value
<1>5. FoldsUpTo("entries", entries, base, s, iter, n)
  BY <1>1, <1>3 DEF FoldsUpTo
<1>6. QED
  BY <1>4, <1>5, FoldIsSequence

LEMMA LearnedFold ==
    ASSUME NEW base, NEW s, NEW n \in Nat, DOMAIN s = 1..n, NEW from
    PROVE  \E g : Folds("learned", from, base, s, n, g) /\ g[n] = Learned(base, s, from)
<1> DEFINE Value(g, S) == IF S = {} THEN base ELSE 
                        AddToComm(AddComm(g[S \ {Max(S)}], s[Max(S)]), CommFind(AddComm(g[S \ {Max(S)}], s[Max(S)]), s[Max(S)]), from)
<1>1. \A g, S : FoldValue("learned", from, base, s, g, S) = Value(g, S)
  <2>1. ASSUME NEW b, NEW x, NEW item
        PROVE  Step("learned", b, x, item) = Noted(AddComm(x, item), item, b)
    <3>1. Step("learned", b, x, item) = CommStep("learned", b, x, item)
      BY CommFolds
    <3>2. QED
      BY <3>1 DEF CommStep
  <2>2. QED
    BY <2>1 DEF FoldValue, Noted
<1>2. \E g : g = [S \in SUBSET (1..n) |-> Value(g, S)]
  <2> HIDE DEF Value
  <2>1. PICK g : FoldsUpTo("learned", from, base, s, g, n)
    BY FoldExists
  <2>2. g = [S \in SUBSET (1..n) |-> FoldValue("learned", from, base, s, g, S)]
    BY <2>1 DEF FoldsUpTo
  <2>3. g = [S \in SUBSET (1..n) |-> Value(g, S)]
    BY <1>1, <2>2
  <2>4. QED
    BY <2>3
<1> DEFINE iter == CHOOSE g : g = [S \in SUBSET (1..n) |-> Value(g, S)]
<1>3. iter = [S \in SUBSET (1..n) |-> Value(iter, S)]
  <2> HIDE DEF Value
  <2>1. QED
    BY <1>2
<1>4. Learned(base, s, from) = iter[1..n]
  BY DEF Learned, FoldLeft, MapThenFoldSet
<1> HIDE DEF iter, Value
<1>5. FoldsUpTo("learned", from, base, s, iter, n)
  BY <1>1, <1>3 DEF FoldsUpTo
<1>6. QED
  BY <1>4, <1>5, FoldIsSequence

LEMMA ToldFold ==
    ASSUME NEW base, NEW s, NEW n \in Nat, DOMAIN s = 1..n, NEW from
    PROVE  \E g : Folds("told", from, base, s, n, g) /\ g[n] = Told(base, s, from)
<1> DEFINE Value(g, S) == IF S = {} THEN base ELSE AddToComm(g[S \ {Max(S)}], CommFind(g[S \ {Max(S)}], s[Max(S)]), from)
<1>1. \A g, S : FoldValue("told", from, base, s, g, S) = Value(g, S)
  <2>1. ASSUME NEW b, NEW x, NEW item
        PROVE  Step("told", b, x, item) = Noted(x, item, b)
    <3>1. Step("told", b, x, item) = CommStep("told", b, x, item)
      BY CommFolds
    <3>2. QED
      BY <3>1 DEF CommStep
  <2>2. QED
    BY <2>1 DEF FoldValue, Noted
<1>2. \E g : g = [S \in SUBSET (1..n) |-> Value(g, S)]
  <2> HIDE DEF Value
  <2>1. PICK g : FoldsUpTo("told", from, base, s, g, n)
    BY FoldExists
  <2>2. g = [S \in SUBSET (1..n) |-> FoldValue("told", from, base, s, g, S)]
    BY <2>1 DEF FoldsUpTo
  <2>3. g = [S \in SUBSET (1..n) |-> Value(g, S)]
    BY <1>1, <2>2
  <2>4. QED
    BY <2>3
<1> DEFINE iter == CHOOSE g : g = [S \in SUBSET (1..n) |-> Value(g, S)]
<1>3. iter = [S \in SUBSET (1..n) |-> Value(iter, S)]
  <2> HIDE DEF Value
  <2>1. QED
    BY <1>2
<1>4. Told(base, s, from) = iter[1..n]
  BY DEF Told, FoldLeft, MapThenFoldSet
<1> HIDE DEF iter, Value
<1>5. FoldsUpTo("told", from, base, s, iter, n)
  BY <1>1, <1>3 DEF FoldsUpTo
<1>6. QED
  BY <1>4, <1>5, FoldIsSequence

LEMMA FoundFold ==
    ASSUME NEW base, NEW s, NEW n \in Nat, DOMAIN s = 1..n
    PROVE  \E g : Folds("discovered", <<>>, base, s, n, g) /\ g[n] = Found(base, s)
<1> DEFINE Value(g, S) == IF S = {} THEN base ELSE 
                        IF Len(g[S \ {Max(S)}]) < MaxComm /\ Len(s[Max(S)].sns) < MinSn
                        THEN AddComm(g[S \ {Max(S)}], s[Max(S)].name) ELSE g[S \ {Max(S)}]
<1>1. \A g, S : FoldValue("discovered", <<>>, base, s, g, S) = Value(g, S)
  <2>1. ASSUME NEW b, NEW x, NEW item
        PROVE  Step("discovered", b, x, item) = IF Len(x) < MaxComm /\ Len(item.sns) < MinSn THEN AddComm(x, item.name) ELSE x
    <3>1. Step("discovered", b, x, item) = CommStep("discovered", b, x, item)
      BY CommFolds
    <3>2. QED
      BY <3>1 DEF CommStep
  <2>2. QED
    BY <2>1 DEF FoldValue
<1>2. \E g : g = [S \in SUBSET (1..n) |-> Value(g, S)]
  <2> HIDE DEF Value
  <2>1. PICK g : FoldsUpTo("discovered", <<>>, base, s, g, n)
    BY FoldExists
  <2>2. g = [S \in SUBSET (1..n) |-> FoldValue("discovered", <<>>, base, s, g, S)]
    BY <2>1 DEF FoldsUpTo
  <2>3. g = [S \in SUBSET (1..n) |-> Value(g, S)]
    BY <1>1, <2>2
  <2>4. QED
    BY <2>3
<1> DEFINE iter == CHOOSE g : g = [S \in SUBSET (1..n) |-> Value(g, S)]
<1>3. iter = [S \in SUBSET (1..n) |-> Value(iter, S)]
  <2> HIDE DEF Value
  <2>1. QED
    BY <1>2
<1>4. Found(base, s) = iter[1..n]
  BY DEF Found, FoldLeft, MapThenFoldSet
<1> HIDE DEF iter, Value
<1>5. FoldsUpTo("discovered", <<>>, base, s, iter, n)
  BY <1>1, <1>3 DEF FoldsUpTo
<1>6. QED
  BY <1>4, <1>5, FoldIsSequence

---------------------------------------------------------------------------
(* What the loops keep.                                                    *)

\* The supernodes of a list are added at the head of another one.
LEMMA AddSnsKeeps ==
    ASSUME NEW base, Supernodes(base), NEW s, List(s)
    PROVE  Supernodes(AddSns(base, s)) /\ EndsWith(AddSns(base, s), base)
<1> DEFINE n == Len(s)
<1>1. n \in Nat /\ DOMAIN s = 1..n
  BY ListIs
<1> HIDE DEF n
<1>2. PICK g : Folds("supernodes", <<>>, base, s, n, g) /\ g[n] = AddSns(base, s)
  BY <1>1, AddSnsFold
<1> DEFINE T == {i \in Nat : i <= n => Supernodes(g[i]) /\ EndsWith(g[i], base)}
<1>3. 0 \in T
  <2>1. Supernodes(g[0]) /\ EndsWith(g[0], base)
    BY <1>2, EndsWithItself DEF Folds, Supernodes
  <2>2. QED
    BY <2>1
<1>4. ASSUME NEW i \in Nat, i \in T PROVE i + 1 \in T
  <2> SUFFICES ASSUME i + 1 <= n PROVE Supernodes(g[i + 1]) /\ EndsWith(g[i + 1], base)
    OBVIOUS
  <2>1. Supernodes(g[i]) /\ EndsWith(g[i], base)
    BY <1>1, <1>4
  <2>2. g[i + 1] = Step("supernodes", <<>>, g[i], s[i + 1])
    <3>1. i + 1 \in 1..n /\ (i + 1) - 1 = i
      BY <1>1
    <3>2. QED
      BY <1>2, <3>1 DEF Folds
  <2>3. g[i + 1] = AddSn(g[i], s[i + 1])
    BY <2>2, CommFolds DEF CommStep
  <2>4. QED
    BY <2>1, <2>3, AddSnKeeps
<1>5. n \in T
  <2> HIDE DEF T
  <2>1. QED
    BY <1>1, <1>3, <1>4, SetInduction
<1>6. QED
  BY <1>1, <1>2, <1>5

LEMMA SnsReadKeeps ==
    ASSUME NEW base, Supernodes(base), NEW s, List(s)
    PROVE  Supernodes(SnsRead(base, s)) /\ EndsWith(SnsRead(base, s), base)
<1> DEFINE n == Len(s)
<1>1. n \in Nat /\ DOMAIN s = 1..n
  BY ListIs
<1> HIDE DEF n
<1>2. PICK g : Folds("texts", <<>>, base, s, n, g) /\ g[n] = SnsRead(base, s)
  BY <1>1, SnsReadFold
<1> DEFINE T == {i \in Nat : i <= n => Supernodes(g[i]) /\ EndsWith(g[i], base)}
<1>3. 0 \in T
  <2>1. Supernodes(g[0]) /\ EndsWith(g[0], base)
    BY <1>2, EndsWithItself DEF Folds, Supernodes
  <2>2. QED
    BY <2>1
<1>4. ASSUME NEW i \in Nat, i \in T PROVE i + 1 \in T
  <2> SUFFICES ASSUME i + 1 <= n PROVE Supernodes(g[i + 1]) /\ EndsWith(g[i + 1], base)
    OBVIOUS
  <2>1. Supernodes(g[i]) /\ EndsWith(g[i], base)
    BY <1>1, <1>4
  <2>2. g[i + 1] = Step("texts", <<>>, g[i], s[i + 1])
    <3>1. i + 1 \in 1..n /\ (i + 1) - 1 = i
      BY <1>1
    <3>2. QED
      BY <1>2, <3>1 DEF Folds
  <2>3. g[i + 1] = AddSn(g[i], FromText(s[i + 1]))
    BY <2>2, CommFolds DEF CommStep
  <2>4. QED
    BY <2>1, <2>3, AddSnKeeps
<1>5. n \in T
  <2> HIDE DEF T
  <2>1. QED
    BY <1>1, <1>3, <1>4, SetInduction
<1>6. QED
  BY <1>1, <1>2, <1>5

\* Communities a response tells of, with the one that sent it.
LEMMA LearnedKeeps ==
    ASSUME NEW base, Communities(base), NEW s, List(s), \A i \in 1..Len(s) : List(s[i]), NEW from
    PROVE  Communities(Learned(base, s, from))
<1> DEFINE n == Len(s)
<1>1. n \in Nat /\ DOMAIN s = 1..n
  BY ListIs
<1> HIDE DEF n
<1>2. PICK g : Folds("learned", from, base, s, n, g) /\ g[n] = Learned(base, s, from)
  BY <1>1, LearnedFold
<1> DEFINE T == {i \in Nat : i <= n => Communities(g[i])}
<1>3. 0 \in T
  <2>1. Communities(g[0])
    BY <1>2 DEF Folds
  <2>2. QED
    BY <2>1
<1>4. ASSUME NEW i \in Nat, i \in T PROVE i + 1 \in T
  <2> SUFFICES ASSUME i + 1 <= n PROVE Communities(g[i + 1])
    OBVIOUS
  <2>1. Communities(g[i])
    BY <1>1, <1>4
  <2>2. g[i + 1] = Step("learned", from, g[i], s[i + 1])
    <3>1. i + 1 \in 1..n /\ (i + 1) - 1 = i
      BY <1>1
    <3>2. QED
      BY <1>2, <3>1 DEF Folds
  <2>3. g[i + 1] = Noted(AddComm(g[i], s[i + 1]), s[i + 1], from)
    BY <2>2, CommFolds DEF CommStep
  <2>4. List(s[i + 1])
    <3>1. i + 1 \in 1..n
      BY <1>1
    <3>2. QED
      BY <3>1 DEF n
  <2>5. List(g[i])
    BY <2>1 DEF Communities
  <2>6. Communities(AddComm(g[i], s[i + 1]))
    BY <2>1, <2>4, <2>5, AddCommKeeps, EndsWithItself
  <2>7. QED
    BY <2>3, <2>6, NotedKeeps
<1>5. n \in T
  <2> HIDE DEF T
  <2>1. QED
    BY <1>1, <1>3, <1>4, SetInduction
<1>6. QED
  BY <1>1, <1>2, <1>5

\* Communities an advertisement tells of.
LEMMA ToldKeeps ==
    ASSUME NEW base, Communities(base), NEW s, List(s), NEW from
    PROVE  Communities(Told(base, s, from))
<1> DEFINE n == Len(s)
<1>1. n \in Nat /\ DOMAIN s = 1..n
  BY ListIs
<1> HIDE DEF n
<1>2. PICK g : Folds("told", from, base, s, n, g) /\ g[n] = Told(base, s, from)
  BY <1>1, ToldFold
<1> DEFINE T == {i \in Nat : i <= n => Communities(g[i])}
<1>3. 0 \in T
  <2>1. Communities(g[0])
    BY <1>2 DEF Folds
  <2>2. QED
    BY <2>1
<1>4. ASSUME NEW i \in Nat, i \in T PROVE i + 1 \in T
  <2> SUFFICES ASSUME i + 1 <= n PROVE Communities(g[i + 1])
    OBVIOUS
  <2>1. Communities(g[i])
    BY <1>1, <1>4
  <2>2. g[i + 1] = Step("told", from, g[i], s[i + 1])
    <3>1. i + 1 \in 1..n /\ (i + 1) - 1 = i
      BY <1>1
    <3>2. QED
      BY <1>2, <3>1 DEF Folds
  <2>3. g[i + 1] = Noted(g[i], s[i + 1], from)
    BY <2>2, CommFolds DEF CommStep
  <2>4. QED
    BY <2>1, <2>3, NotedKeeps
<1>5. n \in T
  <2> HIDE DEF T
  <2>1. QED
    BY <1>1, <1>3, <1>4, SetInduction
<1>6. QED
  BY <1>1, <1>2, <1>5

\* The communities of a list are added at the head of another one, as long as there is room.
LEMMA FoundKeeps ==
    ASSUME NEW base, Communities(base), NEW s, List(s), Communities(s)
    PROVE  Communities(Found(base, s)) /\ EndsWith(Found(base, s), base)
<1> DEFINE n == Len(s)
<1>1. n \in Nat /\ DOMAIN s = 1..n
  BY ListIs
<1> HIDE DEF n
<1>2. PICK g : Folds("discovered", <<>>, base, s, n, g) /\ g[n] = Found(base, s)
  BY <1>1, FoundFold
<1> DEFINE T == {i \in Nat : i <= n => Communities(g[i]) /\ EndsWith(g[i], base)}
<1>3. 0 \in T
  <2>1. Communities(g[0]) /\ EndsWith(g[0], base)
    BY <1>2, EndsWithItself DEF Folds, Communities
  <2>2. QED
    BY <2>1
<1>4. ASSUME NEW i \in Nat, i \in T PROVE i + 1 \in T
  <2> SUFFICES ASSUME i + 1 <= n PROVE Communities(g[i + 1]) /\ EndsWith(g[i + 1], base)
    OBVIOUS
  <2>1. Communities(g[i]) /\ EndsWith(g[i], base)
    BY <1>1, <1>4
  <2>2. g[i + 1] = Step("discovered", <<>>, g[i], s[i + 1])
    <3>1. i + 1 \in 1..n /\ (i + 1) - 1 = i
      BY <1>1
    <3>2. QED
      BY <1>2, <3>1 DEF Folds
  <2>3. g[i + 1] = IF Len(g[i]) < MaxComm /\ Len(s[i + 1].sns) < MinSn THEN AddComm(g[i], s[i + 1].name) ELSE g[i]
    BY <2>2, CommFolds DEF CommStep
  <2>4. List(s[i + 1].name)
    <3>1. i + 1 \in 1..n
      BY <1>1
    <3>2. CommEntry(s[i + 1])
      BY <3>1 DEF n, Communities
    <3>3. QED
      BY <3>2 DEF CommEntry
  <2> DEFINE name == s[i + 1].name
  <2> HIDE DEF name
  <2>5. Communities(AddComm(g[i], name)) /\ EndsWith(AddComm(g[i], name), base)
    BY <2>1, <2>4, AddCommKeeps DEF name
  <2>6. g[i + 1] = AddComm(g[i], name) \/ g[i + 1] = g[i]
    BY <2>3 DEF name
  <2>7. QED
    BY <2>1, <2>5, <2>6
<1>5. n \in T
  <2> HIDE DEF T
  <2>1. QED
    BY <1>1, <1>3, <1>4, SetInduction
<1>6. QED
  BY <1>1, <1>2, <1>5

---------------------------------------------------------------------------
(* Files.                                                                  *)

\* The reversed list of supernodes is one.
LEMMA ReverseSupernodes ==
    ASSUME NEW l, Supernodes(l)
    PROVE  Supernodes(Reverse(l))
<1> DEFINE n == Len(l)
           t == Reverse(l)
<1>1. n \in Nat /\ t = [i \in 1..n |-> l[(n - i) + 1]]
  BY ListIs DEF Supernodes, Reverse
<1> HIDE DEF n, t
<1>2. List(t) /\ Len(t) = n
  BY <1>1, PlacesList
<1>3. ASSUME NEW i \in 1..n, NEW j \in 1..n, t[i] = t[j] PROVE i = j
  <2>1. (n - i) + 1 \in 1..n /\ (n - j) + 1 \in 1..n /\ l[(n - i) + 1] = l[(n - j) + 1]
    BY <1>1, <1>3
  <2>2. (n - i) + 1 = (n - j) + 1
    BY <2>1 DEF Supernodes, n
  <2>3. QED
    BY <1>1, <2>2
<1>4. QED
  BY <1>2, <1>3 DEF Supernodes, t

LEMMA NoSupernodes == Supernodes(<<>>)
<1>1. PICK none : none = <<>>
  OBVIOUS
<1>2. none \in Seq({}) /\ Len(none) = 0
  BY <1>1, EmptySeq
<1>3. List(none)
  BY <1>2 DEF List
<1>4. Supernodes(none)
  BY <1>2, <1>3 DEF Supernodes
<1>5. QED
  BY <1>1, <1>4

\* Whatever the file holds, no supernode is read twice.
LEMMA ReadSnsKeeps ==
    ASSUME NEW file, List(file)
    PROVE  Supernodes(ReadSns(file))
<1>1. PICK none : none = <<>>
  OBVIOUS
<1>2. Supernodes(none)
  BY <1>1, NoSupernodes
<1>3. Supernodes(SnsRead(none, file))
  BY <1>2, SnsReadKeeps
<1>4. ReadSns(file) = Reverse(SnsRead(none, file))
  BY <1>1, Zenon DEF ReadSns, SnsRead
<1>5. QED
  BY <1>3, <1>4, ReverseSupernodes

LEMMA WriteSnsIs ==
    ASSUME NEW l, List(l)
    PROVE  /\ List(WriteSns(l)) /\ Len(WriteSns(l)) = Len(l) /\ DOMAIN WriteSns(l) = 1..Len(l)
           /\ \A i \in 1..Len(l) : WriteSns(l)[i] = ToText(l[i])
<1> DEFINE n == Len(l)
           t == WriteSns(l)
<1>1. n \in Nat /\ DOMAIN l = 1..n
  BY ListIs
<1>2. t = [i \in 1..n |-> ToText(l[i])]
  BY <1>1 DEF WriteSns
<1> HIDE DEF n, t
<1>3. DOMAIN t = 1..n /\ \A i \in 1..n : t[i] = ToText(l[i])
  BY <1>2
<1>4. List(t) /\ Len(t) = n
  BY <1>1, <1>2, <1>3, PlacesList
<1>5. QED
  BY <1>3, <1>4 DEF n, t

\* An IPv4 socket is read as it was written (sock_to_cstr, sock_from_cstr).
LEMMA TextBack ==
    ASSUME NEW s \in IPv4
    PROVE  FromText(ToText(s)) = s
<1>1. s = [family |-> AF_INET, port |-> s.port, addr |-> s.addr] /\ s.addr \in [1..4 -> Byte]
  BY DEF IPv4
<1>2. s.family # AF_INET6
  <2>1. s.family = AF_INET
    BY DEF IPv4
  <2>2. QED
    BY <2>1 DEF AF_INET, AF_INET6
<1>3. ToText(s) = [dots |-> s.addr, port |-> s.port]
  BY <1>2 DEF ToText
<1>4. s.addr # <<>>
  <2>1. PICK none : none = <<>>
    OBVIOUS
  <2>2. none \in Seq({}) /\ Len(none) = 0
    BY <2>1, EmptySeq
  <2>3. DOMAIN none = {}
    BY <2>2, LenProperties
  <2>4. DOMAIN s.addr # {}
    BY <1>1
  <2>5. QED
    BY <2>1, <2>3, <2>4
<1>5. FromText(ToText(s)) = [family |-> AF_INET, port |-> s.port, addr |-> s.addr]
  BY <1>3, <1>4 DEF FromText
<1>6. QED
  BY <1>1, <1>5

\* A list of them is read as it was written.
LEMMA SnsBack ==
    ASSUME NEW l, Supernodes(l), \A i \in 1..Len(l) : l[i] \in IPv4
    PROVE  ReadSns(WriteSns(l)) = l
<1> DEFINE n == Len(l)
           s == WriteSns(l)
<1>1. n \in Nat /\ l = [i \in 1..n |-> l[i]]
  BY ListIs DEF Supernodes
<1>2. DOMAIN s = 1..n /\ \A i \in 1..n : s[i] = ToText(l[i])
  BY WriteSnsIs DEF Supernodes
<1>3. \A i \in 1..n : FromText(s[i]) = l[i]
  BY <1>2, TextBack
<1> HIDE DEF n, s
<1>4. PICK base : base = <<>>
  OBVIOUS
<1>5. PICK g : Folds("texts", <<>>, base, s, n, g) /\ g[n] = SnsRead(base, s)
  BY <1>1, <1>2, SnsReadFold
<1> DEFINE T == {i \in Nat : i <= n => Backwards(g[i], l, i)}
<1>6. 0 \in T
  <2>1. Backwards(g[0], l, 0)
    BY <1>4, <1>5, BackwardsNone DEF Folds
  <2>2. QED
    BY <2>1
<1>7. ASSUME NEW i \in Nat, i \in T PROVE i + 1 \in T
  <2> SUFFICES ASSUME i + 1 <= n PROVE Backwards(g[i + 1], l, i + 1)
    OBVIOUS
  <2>1. Backwards(g[i], l, i)
    BY <1>1, <1>7
  <2>2. i + 1 \in 1..n /\ (i + 1) - 1 = i
    BY <1>1
  <2>3. g[i + 1] = Step("texts", <<>>, g[i], s[i + 1])
    BY <1>5, <2>2 DEF Folds
  <2>4. g[i + 1] = AddSn(g[i], l[i + 1])
    BY <1>3, <2>2, <2>3, CommFolds DEF CommStep
  <2>5. l[i + 1] \notin ToSet(g[i])
    <3>1. DOMAIN g[i] = 1..i
      BY <2>1, ListIs DEF Backwards
    <3>2. ASSUME NEW j \in 1..i PROVE g[i][j] # l[i + 1]
      <4>1. g[i][j] = l[i + 1 - j]
        BY <2>1 DEF Backwards
      <4>2. n \in Nat
        BY <1>1
      <4>3. i + 1 - j \in 1..n /\ i + 1 - j # i + 1
        BY <2>2, <4>2
      <4>4. l[i + 1 - j] # l[i + 1]
        BY <2>2, <4>3 DEF Supernodes, n
      <4>5. QED
        BY <4>1, <4>4
    <3>3. QED
      BY <3>1, <3>2 DEF ToSet
  <2>6. g[i + 1] = <<l[i + 1]>> \o g[i]
    BY <2>4, <2>5 DEF AddSn
  <2>7. QED
    BY <2>1, <2>6, BackwardsNext
<1>8. n \in T
  <2> HIDE DEF T
  <2>1. QED
    BY <1>1, <1>6, <1>7, SetInduction
<1>9. Reverse(SnsRead(base, s)) = l
  <2>1. Backwards(SnsRead(base, s), l, n)
    BY <1>1, <1>5, <1>8
  <2>2. QED
    BY <1>1, <2>1, BackwardsReversed
<1>10. ReadSns(s) = Reverse(SnsRead(base, s))
  BY <1>4, Zenon DEF ReadSns, SnsRead
<1>11. QED
  BY <1>9, <1>10 DEF s

\* The entries of a file are read in their order.
LEMMA CommsReadIs ==
    ASSUME NEW n \in Nat, NEW entries
    PROVE  ReadComms([num |-> n, entries |-> entries]) = [i \in 1..n |-> Reread(entries[i])]
<1> DEFINE s == [i \in 1..n |-> i]
           all == [i \in 1..n |-> Reread(entries[i])]
<1>1. DOMAIN s = 1..n
  OBVIOUS
<1>2. \A i \in 1..n : s[i] = i /\ all[i] = Reread(entries[i])
  OBVIOUS
<1> HIDE DEF s, all
<1>3. PICK base : base = <<>>
  OBVIOUS
<1>4. PICK g : Folds("entries", entries, base, s, n, g) /\ g[n] = CommsRead(base, entries, s)
  BY <1>1, CommsReadFold
<1> DEFINE T == {i \in Nat : i <= n => Backwards(g[i], all, i)}
<1>5. 0 \in T
  <2>1. Backwards(g[0], all, 0)
    BY <1>3, <1>4, BackwardsNone DEF Folds
  <2>2. QED
    BY <2>1
<1>6. ASSUME NEW i \in Nat, i \in T PROVE i + 1 \in T
  <2> SUFFICES ASSUME i + 1 <= n PROVE Backwards(g[i + 1], all, i + 1)
    OBVIOUS
  <2>1. Backwards(g[i], all, i)
    BY <1>6
  <2>2. i + 1 \in 1..n /\ (i + 1) - 1 = i
    OBVIOUS
  <2>3. g[i + 1] = Step("entries", entries, g[i], s[i + 1])
    BY <1>4, <2>2 DEF Folds
  <2>4. g[i + 1] = <<all[i + 1]>> \o g[i]
    <3>1. g[i + 1] = <<Reread(entries[s[i + 1]])>> \o g[i]
      <4> DEFINE x == g[i]
                 item == s[i + 1]
      <4>1. Step("entries", entries, x, item) = <<Reread(entries[item])>> \o x
        <5> HIDE DEF x, item
        <5>1. QED
          BY EntriesStep
      <4>2. QED
        BY <2>3, <4>1
    <3>2. Reread(entries[s[i + 1]]) = all[i + 1]
      BY <1>2, <2>2
    <3>3. QED
      BY <3>1, <3>2
  <2>5. QED
    BY <2>1, <2>4, BackwardsNext
<1>7. n \in T
  <2> HIDE DEF T
  <2>1. QED
    BY <1>5, <1>6, SetInduction
<1>8. Reverse(CommsRead(base, entries, s)) = [i \in 1..n |-> all[i]]
  <2>1. Backwards(CommsRead(base, entries, s), all, n)
    BY <1>4, <1>7
  <2>2. QED
    BY <2>1, BackwardsReversed
<1>9. ReadComms([num |-> n, entries |-> entries]) = Reverse(CommsRead(base, entries, s))
  <2> DEFINE file == [num |-> n, entries |-> entries]
  <2>1. file.num = n /\ file.entries = entries
    OBVIOUS
  <2> HIDE DEF file
  <2>2. ReadComms(file) = Reverse(CommsRead(base, file.entries, [i \in 1..file.num |-> i]))
    BY <1>3, Zenon DEF ReadComms, CommsRead
  <2>3. [i \in 1..file.num |-> i] = s
    BY <2>1 DEF s
  <2>4. QED
    BY <2>1, <2>2, <2>3 DEF file
<1>10. QED
  BY <1>8, <1>9 DEF all

\* Communities are read as they were written, but for their sockets.
LEMMA CommsBack ==
    ASSUME NEW l, Communities(l)
    PROVE  /\ Communities(ReadComms(WriteComms(l)))
           /\ (\A i \in 1..Len(l) : \A j \in 1..Len(l[i].sns) : l[i].sns[j] \in IPv4)
                => ReadComms(WriteComms(l)) = l
<1> DEFINE n == Len(l)
           entries == [i \in DOMAIN l |-> [name |-> l[i].name, sns |-> WriteSns(l[i].sns)]]
           t == ReadComms(WriteComms(l))
<1>1. n \in Nat /\ DOMAIN l = 1..n /\ l = [i \in 1..n |-> l[i]]
  BY ListIs DEF Communities
<1>2. \A i \in 1..n : entries[i].name = l[i].name /\ entries[i].sns = WriteSns(l[i].sns)
  BY <1>1
<1>3. \A i \in 1..n : CommEntry(l[i])
  BY DEF Communities
<1>4. WriteComms(l) = [num |-> n, entries |-> entries]
  BY DEF WriteComms
<1> HIDE DEF n, entries
<1>5. t = [i \in 1..n |-> Reread(entries[i])]
  BY <1>1, <1>4, CommsReadIs
<1> HIDE DEF t
<1>6. ASSUME NEW i \in 1..n
      PROVE  LET sns0 == l[i].sns
                 m == Len(sns0)
             IN  /\ m \in Nat /\ m <= MaxSn
                 /\ t[i] = [name |-> l[i].name, sns |-> [j \in 1..m |-> FromText(ToText(sns0[j]))]]
  <2> DEFINE s == l[i].sns
             m == Len(s)
             w == entries[i].sns
  <2>1. List(s) /\ m <= MaxSn
    BY <1>3 DEF CommEntry
  <2>2. w = WriteSns(s)
    BY <1>2
  <2>3. m \in Nat
    BY <2>1, ListIs
  <2> HIDE DEF w
  <2>4. DOMAIN w = 1..m /\ \A j \in 1..m : w[j] = ToText(s[j])
    BY <2>1, <2>2, WriteSnsIs
  <2>5. Reread(entries[i]) = [name |-> l[i].name, sns |-> [j \in DOMAIN w |-> FromText(w[j])]]
    BY <1>2 DEF Reread, w
  <2> HIDE DEF s, m
  <2>6. [j \in DOMAIN w |-> FromText(w[j])] = [j \in 1..m |-> FromText(ToText(s[j]))]
    BY <2>4
  <2>7. t[i] = Reread(entries[i])
    BY <1>5
  <2>8. m \in Nat /\ m <= MaxSn /\ t[i] = [name |-> l[i].name, sns |-> [j \in 1..m |-> FromText(ToText(s[j]))]]
    BY <2>1, <2>3, <2>5, <2>6, <2>7
  <2>9. QED
    BY <2>8 DEF s, m
<1>7. List(t) /\ Len(t) = n
  <2>1. DOMAIN t = 1..n /\ t = [i \in 1..n |-> t[i]]
    BY <1>5
  <2>2. QED
    BY <1>1, <2>1, PlacesList
<1>8. ASSUME NEW i \in 1..n PROVE CommEntry(t[i]) /\ t[i].name = l[i].name
  <2> DEFINE s == l[i].sns
             m == Len(s)
             r == [j \in 1..m |-> FromText(ToText(s[j]))]
  <2>1. m \in Nat /\ m <= MaxSn /\ t[i] = [name |-> l[i].name, sns |-> r]
    BY <1>6
  <2> HIDE DEF s, m
  <2>2. DOMAIN r = 1..m /\ r = [j \in 1..m |-> r[j]]
    OBVIOUS
  <2> HIDE DEF r
  <2>3. List(r) /\ Len(r) = m
    BY <2>1, <2>2, PlacesList
  <2>4. List(l[i].name)
    BY <1>3 DEF CommEntry
  <2>5. QED
    BY <2>1, <2>3, <2>4 DEF CommEntry
<1>9. Communities(t)
  <2>1. \A i, j \in 1..n : t[i].name = t[j].name => i = j
    BY <1>8 DEF Communities, n
  <2>2. QED
    BY <1>7, <1>8, <2>1 DEF Communities
<1>10. ASSUME \A i \in 1..n : \A j \in 1..Len(l[i].sns) : l[i].sns[j] \in IPv4
       PROVE  t = l
  <2>1. ASSUME NEW i \in 1..n PROVE t[i] = l[i]
    <3> DEFINE s == l[i].sns
               m == Len(s)
               r == [j \in 1..m |-> FromText(ToText(s[j]))]
    <3>1. m \in Nat /\ t[i] = [name |-> l[i].name, sns |-> r]
      BY <1>6
    <3>2. l[i] = [name |-> l[i].name, sns |-> s] /\ List(s)
      BY <1>3 DEF CommEntry
    <3>3. \A j \in 1..m : s[j] \in IPv4
      BY <1>10
    <3>4. s = [j \in 1..m |-> s[j]]
      BY <3>2, ListIs
    <3> HIDE DEF s, m
    <3>5. r = s
      BY <3>3, <3>4, TextBack
    <3> HIDE DEF r
    <3>6. QED
      BY <3>1, <3>2, <3>5
  <2>2. t = [i \in 1..n |-> t[i]]
    BY <1>5
  <2>3. QED
    BY <1>1, <2>1, <2>2
<1>11. QED
  BY <1>9, <1>10 DEF t, n

---------------------------------------------------------------------------
(* The handlers of process_sn_msg.                                         *)

\* Edges ask for one community, and nobody else is taken for an edge.
Asking(d) ==
    /\ ~d.cut
    /\ d.meant.hdr.type = SNM.REQ /\ Has(d.meant.hdr.flags, E_FLAG)
          => \E name \in CommNames : d.meant.msg.comm_ptr = <<name>>
SnmNet == \A d \in net : d.snm => Asking(d)

LEMMA NameList ==
    ASSUME NEW name \in CommNames
    PROVE  List(name)
BY DEF CommNames, List

\* What the supernode makes of a datagram.
LEMMA Heard ==
    ASSUME Sayable, SnmNet, NEW d \in net, d.snm
    PROVE  /\ ParseSnm(d).hdr = d.meant.hdr /\ ParseSnm(d).msg = d.meant.msg
           /\ SnmSays(d.meant.hdr, d.meant.msg)
<1>1. ~d.cut
  BY DEF SnmNet, Asking
<1>2. SnmSays(d.meant.hdr, d.meant.msg) /\ Len(d.bytes) <= PktBuf
  BY <1>1 DEF Sayable
<1>3. ParseSnm(d) = [hdr |-> d.meant.hdr, msg |-> d.meant.msg, idx |-> Len(d.bytes)]
  BY <1>1, <1>2, SayableUnderstood DEF Understood
<1>4. QED
  BY <1>2, <1>3

LEMMA EffectIs ==
    ASSUME NEW a, NEW b, NEW c, NEW out, NEW n
    PROVE  LET e == Effect(a, b, c, out, n)
           IN  e.sns = a /\ e.comms = b /\ e.save = c /\ e.out = out /\ e.reqs = n
BY DEF Effect

Lists(e) == /\ Supernodes(e.sns) /\ Communities(e.comms)
            /\ e.reqs \in Nat

LEMMA ReqLists ==
    ASSUME Supernodes(sns), Communities(comms), NEW d, NEW q,
           Has(q.hdr.flags, E_FLAG) => List(q.msg.comm_ptr[1])
    PROVE  Lists(AfterReq(d, q))
<1> DEFINE edge  == Has(q.hdr.flags, E_FLAG)
           adv   == Has(q.hdr.flags, A_FLAG)
           name  == q.msg.comm_ptr[1]
           fresh == adv /\ edge /\ CommFind(comms, name) = 0
           a     == IF edge THEN sns ELSE AddSn(sns, d.from)
           b     == IF fresh THEN AddComm(comms, name) ELSE comms
           out   == IF adv THEN {Adv(d.from, <<>>)} \cup {Adv(s, <<name>>) : s \in IF fresh THEN ToSet(sns) ELSE {}}
                    ELSE {Rsp(d.from, q.hdr, q.msg)}
           n     == 0
<1>1. AfterReq(d, q) = Effect(a, b, fresh, out, n)
  BY Zenon DEF AfterReq
<1>2. Supernodes(a)
  <2>1. EndsWith(sns, sns)
    BY EndsWithItself DEF Supernodes
  <2>2. Supernodes(AddSn(sns, d.from))
    BY <2>1, AddSnKeeps
  <2>3. QED
    BY <2>2
<1>3. Communities(b)
  <2>1. CASE fresh
    <3>1. EndsWith(comms, comms)
      BY EndsWithItself DEF Communities
    <3>2. List(name)
      BY <2>1
    <3> HIDE DEF name
    <3>3. Communities(AddComm(comms, name))
      BY <3>1, <3>2, AddCommKeeps
    <3>4. QED
      BY <2>1, <3>3
  <2>2. CASE ~fresh
    BY <2>2
  <2>3. QED
    BY <2>1, <2>2
<1>4. n \in Nat
  OBVIOUS
<1> HIDE DEF edge, adv, name, fresh, a, b, out, n
<1>5. QED
  BY <1>1, <1>2, <1>3, <1>4, EffectIs DEF Lists

LEMMA RspLists ==
    ASSUME Supernodes(sns), Communities(comms), NEW d, NEW q, List(q.msg.sn_ptr), List(q.msg.comm_ptr),
           \A i \in 1..Len(q.msg.comm_ptr) : List(q.msg.comm_ptr[i])
    PROVE  Lists(AfterRsp(d, q))
<1> DEFINE all  == IF Has(q.hdr.flags, S_FLAG) THEN AddSns(sns, q.msg.sn_ptr) ELSE sns
           n    == Len(all) - Len(sns)
           note(list, name) == LET l == AddComm(list, name) IN AddToComm(l, CommFind(l, name), d.from)
           told == FoldLeft(note, comms, q.msg.comm_ptr)
           b    == IF Has(q.hdr.flags, C_FLAG) THEN told ELSE comms
           no   == FALSE
           out  == {Req(all[i], seqNum + i, TRUE) : i \in 1..n}
<1>1. AfterRsp(d, q) = Effect(all, b, no, out, n)
  BY Zenon DEF AfterRsp
<1>2. told = Learned(comms, q.msg.comm_ptr, d.from)
  BY Zenon DEF Learned
<1> HIDE DEF told
<1>3. Supernodes(all) /\ EndsWith(all, sns)
  <2>1. EndsWith(sns, sns)
    BY EndsWithItself DEF Supernodes
  <2>2. Supernodes(AddSns(sns, q.msg.sn_ptr)) /\ EndsWith(AddSns(sns, q.msg.sn_ptr), sns)
    BY AddSnsKeeps
  <2>3. QED
    BY <2>1, <2>2
<1>4. Communities(b)
  <2>1. Communities(Learned(comms, q.msg.comm_ptr, d.from))
    BY LearnedKeeps
  <2>2. QED
    BY <1>2, <2>1
<1> HIDE DEF all
<1>5. n \in Nat
  BY <1>3, ListIs DEF EndsWith
<1> HIDE DEF n, b, out, no
<1>6. QED
  BY <1>1, <1>3, <1>4, <1>5, EffectIs DEF Lists

LEMMA AdvLists ==
    ASSUME Supernodes(sns), Communities(comms), NEW d, NEW q, List(q.msg.comm_ptr)
    PROVE  Lists(AfterAdv(d, q))
<1> DEFINE addr == IF q.msg.sn.addr = Zeros(4) THEN [q.msg.sn EXCEPT !.addr = d.from.addr] ELSE q.msg.sn
           list == FoldLeft(LAMBDA l, name : AddToComm(l, CommFind(l, name), addr), comms, q.msg.comm_ptr)
           a    == AddSn(sns, d.from)
           save == list # comms
           out  == IF list # comms /\ Has(q.hdr.flags, A_FLAG) THEN {Adv(d.from, NamesOf(list))} ELSE {}
           n    == 0
<1>1. AfterAdv(d, q) = Effect(a, list, save, out, n)
  BY Zenon DEF AfterAdv
<1> HIDE DEF addr
<1>2. list = Told(comms, q.msg.comm_ptr, addr)
  BY Zenon DEF Told
<1> HIDE DEF list
<1>3. Communities(list)
  BY <1>2, ToldKeeps
<1>4. Supernodes(a)
  <2>1. EndsWith(sns, sns)
    BY EndsWithItself DEF Supernodes
  <2>2. QED
    BY <2>1, AddSnKeeps
<1>5. n \in Nat
  OBVIOUS
<1> HIDE DEF a, save, out, n
<1>6. QED
  BY <1>1, <1>3, <1>4, <1>5, EffectIs DEF Lists

LEMMA AfterLists ==
    ASSUME Sayable, SnmNet, Supernodes(sns), Communities(comms), NEW d \in net, Heeds(d)
    PROVE  Lists(After(d))
<1> DEFINE p == ParseSnm(d)
           type == p.hdr.type
<1>1. /\ type = SNM.REQ => After(d) = AfterReq(d, p)
      /\ type = SNM.RSP => After(d) = AfterRsp(d, p)
      /\ type = SNM.ADV => After(d) = AfterAdv(d, p)
  BY DEF After, SNM
<1>2. d.snm /\ (type = SNM.REQ \/ type = SNM.RSP \/ type = SNM.ADV)
  BY DEF Heeds
<1>3. p.hdr = d.meant.hdr /\ p.msg = d.meant.msg /\ SnmSays(p.hdr, p.msg)
  BY <1>2, Heard
<1> HIDE DEF p
<1>4. p.msg \in SnmMessages(type, p.hdr.flags)
  BY <1>3 DEF SnmSays
<1>5. CASE type = SNM.REQ
  <2>1. Has(p.hdr.flags, E_FLAG) => List(p.msg.comm_ptr[1])
    <3> SUFFICES ASSUME Has(p.hdr.flags, E_FLAG) PROVE List(p.msg.comm_ptr[1])
      OBVIOUS
    <3>1. PICK name \in CommNames : p.msg.comm_ptr = <<name>>
      BY <1>2, <1>3, <1>5 DEF SnmNet, Asking
    <3>2. p.msg.comm_ptr[1] = name
      BY <3>1
    <3>3. QED
      BY <3>2, NameList
  <2>2. QED
    BY <1>1, <1>5, <2>1, ReqLists
<1>6. CASE type = SNM.RSP
  <2>1. p.msg.sn_ptr \in Seq(Sockets) /\ p.msg.comm_ptr \in Seq(CommNames)
    BY <1>4, <1>6 DEF SnmMessages, SNM
  <2>2. List(p.msg.sn_ptr) /\ List(p.msg.comm_ptr)
    BY <2>1 DEF List
  <2>3. \A i \in 1..Len(p.msg.comm_ptr) : List(p.msg.comm_ptr[i])
    BY <2>1, NameList, ElementOfSeq
  <2>4. QED
    BY <1>1, <1>6, <2>2, <2>3, RspLists
<1>7. CASE type = SNM.ADV
  <2>1. p.msg.comm_ptr \in Seq(CommNames)
    BY <1>4, <1>7 DEF SnmMessages, SNM
  <2>2. List(p.msg.comm_ptr)
    BY <2>1 DEF List
  <2>3. QED
    BY <1>1, <1>7, <2>2, AdvLists
<1>8. QED
  BY <1>2, <1>5, <1>6, <1>7

---------------------------------------------------------------------------
(* What is sent.                                                           *)

\* An answer is about the community that was asked for, as far as comm_find goes.
Right(d, a) ==
    LET own    == {c \in ToSet(comms) : c.name = a.name}
        longer == {c \in ToSet(comms) : IsStrictPrefix(a.name, c.name)}
    IN  \/ \E c \in own \cup longer : a.sns = c.sns
        \/ own \cup longer = {} /\ a.sns = <<>> /\ ~d.snm

Fit(d) == /\ d.snm => Asking(d)
          /\ \A a \in About(d) : Right(d, a)

\* A datagram by what it says, without its bytes.
Saying(x, snm, cut, from, meant) == x.snm = snm /\ x.cut = cut /\ x.from = from /\ x.meant = meant

LEMMA DatagramSaying ==
    ASSUME NEW snm, NEW from, NEW to, NEW bytes, NEW cut, NEW meant
    PROVE  Saying(Datagram(snm, from, to, bytes, cut, meant), snm, cut, from, meant)
BY DEF Datagram, Saying

LEMMA SnmSaid ==
    ASSUME NEW from, NEW to, NEW h, NEW m
    PROVE  LET x == SnmDatagram(from, to, h, m)
           IN  x.snm /\ ~x.cut /\ x.from = from /\ x.meant.hdr = h /\ x.meant.msg = m
<1> DEFINE b == EncodeSnm(h, m)
           meant == [hdr |-> h, msg |-> m]
           x == SnmDatagram(from, to, h, m)
<1>1. x = Datagram(Yes, from, to, b, No, meant)
  BY Zenon DEF SnmDatagram, Datagram, Yes, No
<1>2. meant.hdr = h /\ meant.msg = m
  OBVIOUS
<1> HIDE DEF x, b, meant
<1>3. Saying(x, Yes, No, from, meant)
  BY <1>1, DatagramSaying
<1>4. Yes /\ ~No
  BY DEF Yes, No
<1>5. x.snm /\ ~x.cut /\ x.from = from /\ x.meant.hdr = h /\ x.meant.msg = m
  BY <1>2, <1>3, <1>4 DEF Saying
<1>6. QED
  BY <1>5 DEF x

LEMMA SnmFrom ==
    ASSUME NEW from, NEW to, NEW h, NEW m, NEW other
    PROVE  LET x == [SnmDatagram(from, to, h, m) EXCEPT !.from = other]
           IN  x.snm /\ ~x.cut /\ x.from = other /\ x.meant.hdr = h /\ x.meant.msg = m
<1> DEFINE b == EncodeSnm(h, m)
           meant == [hdr |-> h, msg |-> m]
<1>1. SnmDatagram(from, to, h, m) = Datagram(Yes, from, to, b, No, meant)
  BY Zenon DEF SnmDatagram, Datagram, Yes, No
<1>2. meant.hdr = h /\ meant.msg = m
  OBVIOUS
<1> HIDE DEF b, meant
<1> DEFINE x == [SnmDatagram(from, to, h, m) EXCEPT !.from = other]
<1>3. x = Datagram(Yes, other, to, b, No, meant)
  BY <1>1, OtherFrom
<1> HIDE DEF x
<1>4. Saying(x, Yes, No, other, meant)
  BY <1>3, DatagramSaying
<1>5. Yes /\ ~No
  BY DEF Yes, No
<1>6. x.snm /\ ~x.cut /\ x.from = other /\ x.meant.hdr = h /\ x.meant.msg = m
  BY <1>2, <1>4, <1>5 DEF Saying
<1>7. QED
  BY <1>6 DEF x

\* A message of a supernode that answers no edge.
LEMMA PlainFit ==
    ASSUME NEW x, x.snm, ~x.cut,
           ~(x.meant.hdr.type = SNM.REQ /\ Has(x.meant.hdr.flags, E_FLAG)),
           ~(x.from = SnmSock /\ x.meant.hdr.type = SNM.RSP /\ Has(x.meant.hdr.flags, A_FLAG))
    PROVE  Fit(x)
BY DEF Fit, About, Asking

LEMMA ReqFit ==
    ASSUME NEW to, NEW seq, NEW want \in BOOLEAN, NEW from
    PROVE  Fit([Req(to, seq, want) EXCEPT !.from = from]) /\ Fit(Req(to, seq, want))
<1> DEFINE h == [type |-> SNM.REQ, flags |-> S_FLAG + Flag(want, C_FLAG), seq_num |-> seq]
           m == [comm_num |-> 0, comm_ptr |-> <<>>]
           x == SnmDatagram(SnmSock, to, h, m)
           y == [SnmDatagram(SnmSock, to, h, m) EXCEPT !.from = from]
<1>1. h.type = SNM.REQ /\ ~Has(h.flags, E_FLAG)
  <2>1. CASE want
    <3>1. h.flags = S_FLAG + C_FLAG
      BY <2>1 DEF Flag
    <3>2. ~Has(S_FLAG + C_FLAG, E_FLAG)
      BY DEF Has, S_FLAG, C_FLAG, E_FLAG
    <3>3. QED
      BY <3>1, <3>2
  <2>2. CASE ~want
    <3>1. h.flags = S_FLAG + 0
      BY <2>2 DEF Flag
    <3>2. ~Has(S_FLAG + 0, E_FLAG)
      BY DEF Has, S_FLAG, E_FLAG
    <3>3. QED
      BY <3>1, <3>2
  <2>3. QED
    BY <2>1, <2>2
<1>2. h.type # SNM.RSP
  BY <1>1 DEF SNM
<1>3. Req(to, seq, want) = x
  BY Zenon DEF Req
<1> HIDE DEF h, m
<1>4. x.snm /\ ~x.cut /\ x.meant.hdr = h
  BY SnmSaid
<1>5. y.snm /\ ~y.cut /\ y.meant.hdr = h
  BY SnmFrom
<1> HIDE DEF x, y
<1>6. Fit(x) /\ Fit(y)
  BY <1>1, <1>2, <1>4, <1>5, PlainFit
<1>7. QED
  BY <1>3, <1>6 DEF x, y

LEMMA AdvFit ==
    ASSUME NEW to, NEW names
    PROVE  Fit(Adv(to, names))
<1> DEFINE h == [type |-> SNM.ADV, seq_num |-> 0,
                 flags |-> Flag(names # <<>>, N_FLAG) + Flag(disc # "READY", A_FLAG)]
           m == [sn |-> Local, comm_num |-> Len(names), comm_ptr |-> names]
           x == SnmDatagram(SnmSock, to, h, m)
<1>1. Adv(to, names) = x /\ h.type = SNM.ADV
  BY Zenon DEF Adv
<1> HIDE DEF h, m
<1>2. x.snm /\ ~x.cut /\ x.meant.hdr = h
  BY SnmSaid
<1> HIDE DEF x
<1>3. h.type # SNM.REQ /\ h.type # SNM.RSP
  BY <1>1 DEF SNM
<1>4. Fit(x)
  BY <1>2, <1>3, PlainFit
<1>5. QED
  BY <1>1, <1>4 DEF x

\* What was found is the community itself or one with a longer name.
LEMMA FoundRight ==
    ASSUME Communities(comms), NEW d, NEW a, CommFind(comms, a.name) # 0,
           a.sns = comms[CommFind(comms, a.name)].sns
    PROVE  Right(d, a)
<1> DEFINE k == CommFind(comms, a.name)
           c == comms[k]
<1>1. k \in 1..Len(comms) /\ IsPrefix(a.name, c.name)
  BY FoundIs DEF Communities
<1>2. c \in ToSet(comms)
  BY <1>1, ListIs DEF ToSet, Communities
<1>3. c.name = a.name \/ IsStrictPrefix(a.name, c.name)
  BY <1>1 DEF IsStrictPrefix
<1> HIDE DEF k, c
<1>4. a.sns = c.sns
  BY DEF k, c
<1>5. QED
  BY <1>2, <1>3, <1>4 DEF Right

LEMMA NoneRight ==
    ASSUME Communities(comms), NEW d, ~d.snm, NEW a, CommFind(comms, a.name) = 0, a.sns = <<>>
    PROVE  Right(d, a)
<1>1. \A i \in 1..Len(comms) : ~IsPrefix(a.name, comms[i].name) /\ List(comms[i].name)
  <2>1. List(comms) /\ \A i \in 1..Len(comms) : List(comms[i].name)
    BY DEF Communities, CommEntry
  <2> DEFINE name == a.name
             k == CommFind(comms, name)
  <2>2. k = 0
    OBVIOUS
  <2> HIDE DEF name
  <2>3. \/ k = 0 /\ \A i \in 1..Len(comms) : ~IsPrefix(name, comms[i].name)
        \/ k \in 1..Len(comms) /\ IsPrefix(name, comms[k].name)
    BY <2>1, FoundIs
  <2> HIDE DEF k
  <2>4. ~(0 \in 1..Len(comms))
    OBVIOUS
  <2>5. \A i \in 1..Len(comms) : ~IsPrefix(name, comms[i].name)
    BY <2>2, <2>3, <2>4
  <2>6. QED
    BY <2>1, <2>5 DEF name
<1>2. ASSUME NEW c \in ToSet(comms) PROVE c.name # a.name /\ ~IsStrictPrefix(a.name, c.name)
  <2>1. PICK i \in 1..Len(comms) : c = comms[i]
    BY ListIs DEF ToSet, Communities
  <2>2. ~IsPrefix(a.name, c.name) /\ List(c.name)
    BY <1>1, <2>1
  <2>3. QED
    BY <2>2, OwnPrefix DEF IsStrictPrefix
<1>3. QED
  BY <1>2 DEF Right

LEMMA RspFit ==
    ASSUME Communities(comms), NEW to, NEW hdr, NEW req
    PROVE  Fit(Rsp(to, hdr, req))
<1> DEFINE edge  == Has(hdr.flags, E_FLAG) /\ Has(hdr.flags, N_FLAG)
           k     == IF edge THEN CommFind(comms, req.comm_ptr[1]) ELSE 0
           wantS == k = 0 /\ Has(hdr.flags, S_FLAG)
           wantC == ~edge /\ Has(hdr.flags, C_FLAG)
           sn    == IF k # 0 THEN Append(comms[k].sns, Local) ELSE IF wantS THEN sns ELSE <<>>
           names == IF k # 0 THEN <<req.comm_ptr[1]>> ELSE IF wantC THEN NamesOf(comms) ELSE <<>>
           flags == Flag(wantS, S_FLAG) + Flag(wantC, C_FLAG) + Flag(k # 0, N_FLAG + A_FLAG)
           h     == [type |-> SNM.RSP, seq_num |-> hdr.seq_num, flags |-> flags]
           m     == [sn_num |-> Len(sn), sn_ptr |-> sn, comm_ptr |-> names,
                     comm_num |-> IF edge /\ k = 0 THEN Len(comms) ELSE Len(names)]
           x     == SnmDatagram(SnmSock, to, h, m)
<1>1. Rsp(to, hdr, req) = x
  BY Zenon DEF Rsp
<1>2. h.type = SNM.RSP /\ h.type # SNM.REQ /\ h.flags = flags
  <2>1. SNM.RSP # SNM.REQ
    BY DEF SNM
  <2> HIDE DEF flags
  <2>2. QED
    BY <2>1
<1>3. x.snm /\ ~x.cut /\ x.from = SnmSock /\ x.meant.hdr = h /\ x.meant.msg = m
  BY SnmSaid
<1>4. m.sn_ptr = sn /\ m.comm_ptr = names
  BY Zenon
<1>5. CASE k = 0
  <2>1. ~Has(flags, A_FLAG)
    <3> DEFINE f(s, c) == Flag(s, S_FLAG) + Flag(c, C_FLAG) + 0
    <3>1. \A s, c \in BOOLEAN : ~Has(f(s, c), A_FLAG)
      BY DEF Flag, S_FLAG, C_FLAG, A_FLAG, Has
    <3>2. wantS \in BOOLEAN /\ wantC \in BOOLEAN
      BY DEF Has
    <3>3. Flag(k # 0, N_FLAG + A_FLAG) = 0
      BY <1>5 DEF Flag
    <3> HIDE DEF wantS, wantC
    <3>4. ~Has(f(wantS, wantC), A_FLAG)
      BY <3>1, <3>2, Zenon
    <3>5. QED
      BY <3>3, <3>4
  <2> HIDE DEF x, h, m, flags
  <2>2. QED
    BY <1>1, <1>2, <1>3, <2>1, PlainFit
<1>6. CASE k # 0
  <2> DEFINE name == req.comm_ptr[1]
             a == [name |-> name, sns |-> comms[k].sns]
  <2>1. k = CommFind(comms, name)
    BY <1>6
  <2>2. names = <<name>> /\ sn = Append(comms[k].sns, Local)
    BY <1>6
  <2> HIDE DEF k, names, sn
  <2>3. List(comms[k].sns)
    BY <1>6, <2>1, FoundIs DEF Communities, CommEntry
  <2>4. Front(sn) = comms[k].sns /\ names[1] = name
    BY <2>2, <2>3, EndList
  <2> HIDE DEF x, h, m, name, flags
  <2>5. About(x) \subseteq {a}
    <3>1. About(x) \subseteq {[name |-> x.meant.msg.comm_ptr[1], sns |-> Front(x.meant.msg.sn_ptr)]}
      BY <1>3 DEF About
    <3>2. QED
      BY <1>3, <1>4, <2>4, <3>1
  <2>6. a.name = name /\ a.sns = comms[CommFind(comms, a.name)].sns
    BY <2>1
  <2> HIDE DEF a
  <2>7. Right(x, a)
    BY <1>6, <2>1, <2>6, FoundRight
  <2>8. Asking(x)
    BY <1>2, <1>3 DEF Asking
  <2>9. Fit(x)
    BY <2>5, <2>7, <2>8 DEF Fit
  <2>10. QED
    BY <1>1, <2>9
<1>7. QED
  BY <1>5, <1>6

\* What edges send to each other, to a supernode and through it answers no
\* registration with a supernode.
LEMMA OtherFit ==
    ASSUME NEW x, NEW c, NEW meant, Saying(x, No, No, x.from, meant) \/ Saying(x, No, x.cut, x.from, meant),
           meant.cmn = c, x.from # SnSock \/ c.pc # PC.REGISTER_SUPER_ACK
    PROVE  Fit(x)
<1>1. ~x.snm /\ x.meant = meant
  BY DEF Saying, No
<1>2. About(x) = {}
  BY <1>1 DEF About
<1>3. QED
  BY <1>1, <1>2 DEF Fit

LEMMA N2NFit ==
    ASSUME NEW from, NEW to, NEW c, NEW m, NEW rest, NEW frame,
           from # SnSock \/ c.pc # PC.REGISTER_SUPER_ACK
    PROVE  /\ Fit(N2NDatagram(from, to, c, m, rest, frame))
           /\ \A cut : Fit([N2NDatagram(from, to, c, m, rest, frame) EXCEPT !.cut = cut])
           /\ \A cut, bytes : Fit(Shortened(N2NDatagram(from, to, c, m, rest, frame), cut, bytes))
<1> DEFINE b == EncodeN2N(c, m) \o rest
           meant == Meant(c, m, rest, frame)
<1>1. N2NDatagram(from, to, c, m, rest, frame) = Datagram(No, from, to, b, No, meant)
  BY N2NFields
<1>2. meant.cmn = c
  BY DEF Meant
<1> HIDE DEF b, meant
<1>3. ASSUME NEW bytes, NEW cut PROVE Fit(Datagram(No, from, to, bytes, cut, meant))
  <2> DEFINE x == Datagram(No, from, to, bytes, cut, meant)
  <2>1. Saying(x, No, cut, from, meant)
    BY DatagramSaying
  <2> HIDE DEF x
  <2>2. x.cut = cut /\ x.from = from
    BY <2>1 DEF Saying
  <2>3. Saying(x, No, x.cut, x.from, meant)
    BY <2>1, <2>2
  <2>4. Fit(x)
    BY <1>2, <2>2, <2>3, OtherFit
  <2>5. QED
    BY <2>4 DEF x
<1>4. Fit(N2NDatagram(from, to, c, m, rest, frame))
  BY <1>1, <1>3
<1>5. ASSUME NEW cut PROVE Fit([N2NDatagram(from, to, c, m, rest, frame) EXCEPT !.cut = cut])
  <2>1. [N2NDatagram(from, to, c, m, rest, frame) EXCEPT !.cut = cut] = Datagram(No, from, to, b, cut, meant)
    BY <1>1, OtherCut
  <2>2. QED
    BY <1>3, <2>1
<1>6. ASSUME NEW cut, NEW bytes PROVE Fit(Shortened(N2NDatagram(from, to, c, m, rest, frame), cut, bytes))
  BY <1>1, <1>3, OtherBytes
<1>7. QED
  BY <1>4, <1>5, <1>6

\* A header that is decoded has the four fields of one.
LEMMA ParsedCommon ==
    ASSUME NEW d
    PROVE  \E t, pc, f, y : Parse(d).cmn = [ttl |-> t, pc |-> pc, flags |-> f, community |-> y]
<1> DEFINE b == Received(d.bytes)
<1> HIDE DEF b
<1> DEFINE r == Decode(CommonLayout, Blank(CommonLayout), b, 0)
           c == DecodeCommon(b)
<1>1. c = CommonOf(r[1], r[2])
  BY Zenon DEF DecodeCommon, CommonRead
<1> HIDE DEF r
<1>2. \E t, pc, f, y : c.cmn = [ttl |-> t, pc |-> pc, flags |-> f, community |-> y]
  <2> DEFINE t == r[1].ttl
             pc == r[1].flags % 32
             f == (r[1].flags \div 32) * 32
             y == r[1].community
  <2>1. CommonOf(r[1], r[2]).cmn = [ttl |-> t, pc |-> pc, flags |-> f, community |-> y]
    BY Zenon DEF CommonOf
  <2> HIDE DEF t, pc, f, y
  <2>2. QED
    BY <1>1, <2>1
<1> DEFINE q == DecodeN2N(c.cmn, b, c.idx)
<1>3. Parse(d) = WholeN2N(c, q, b)
  BY Zenon DEF Parse, ParseBytes, ParseBody, b
<1> HIDE DEF c, q
<1>4. Parse(d).cmn = c.cmn
  BY <1>3 DEF WholeN2N
<1>5. QED
  BY <1>2, <1>4

AllFit(S) == \A d \in S : Fit(d)

LEMMA FramesFit ==
    ASSUME FramesNext
    PROVE  \E S : net' = net \cup S /\ AllFit(S)
<1>0. AllFit({})
  BY DEF AllFit
<1>1. ASSUME NEW x, Fit(x), net' = net \cup {x} PROVE \E S : net' = net \cup S /\ AllFit(S)
  <2>1. AllFit({x})
    BY <1>1 DEF AllFit
  <2>2. QED
    BY <1>1, <2>1
<1>2. ASSUME NEW e \in Edges, NEW frame \in TapFrames[e], NEW nonce \in Nonces, NEW to, SendFrame(e, frame, nonce, to)
      PROVE  \E S : net' = net \cup S /\ AllFit(S)
  <2> DEFINE c == Common(PC.PACKET)
             m == [srcMac |-> Mac[e], dstMac |-> SubSeq(frame, 1, 6), sock |-> NoSock, transform |-> mode]
             d(out) == N2NDatagram(Sock[e], to, c, m, out, frame)
             r == Fwd(mode, enc[e], frame, nonce, Room(Len(EncodeN2N(c, m))))
             x == IF r.ok THEN d(r.out) ELSE [d(r.out) EXCEPT !.cut = TRUE, !.bytes = SubSeq(@, 1, Len(@) - 1)]
  <2>1. Originate({x})
    BY <1>2, Zenon DEF SendFrame
  <2>2. c.pc # PC.REGISTER_SUPER_ACK
    BY DEF Common, PC
  <2> HIDE DEF c, m, r
  <2>3. Fit(d(r.out))
    BY <2>2, N2NFit
  <2>4. Fit([d(r.out) EXCEPT !.cut = TRUE, !.bytes = SubSeq(@, 1, Len(@) - 1)])
    <3> DEFINE y == d(r.out)
               b == SubSeq(y.bytes, 1, Len(y.bytes) - 1)
    <3>1. PICK yes : yes = TRUE
      OBVIOUS
    <3>2. \A cut, bytes : Fit(Shortened(y, cut, bytes))
      BY <2>2, N2NFit
    <3>3. \E meant, z : y = Datagram(No, Sock[e], to, z, No, meant)
      BY N2NFields
    <3> HIDE DEF y
    <3>4. [y EXCEPT !.cut = yes, !.bytes = SubSeq(@, 1, Len(@) - 1)] = Shortened(y, yes, b)
      <4>1. PICK meant, z : y = Datagram(No, Sock[e], to, z, No, meant)
        BY <3>3
      <4> DEFINE w == [y EXCEPT !.cut = yes]
      <4>2. w = Datagram(No, Sock[e], to, z, yes, meant)
        BY <4>1, OtherCut
      <4>3. w.bytes = z /\ y.bytes = z
        BY <4>1, <4>2, DatagramFields
      <4>4. [y EXCEPT !.cut = yes, !.bytes = SubSeq(@, 1, Len(@) - 1)]
              = [w EXCEPT !.bytes = SubSeq(w.bytes, 1, Len(w.bytes) - 1)]
        OBVIOUS
      <4>5. Shortened(y, yes, b) = [w EXCEPT !.bytes = b]
        BY Zenon DEF Shortened
      <4> HIDE DEF w
      <4>6. SubSeq(w.bytes, 1, Len(w.bytes) - 1) = b
        BY <4>3
      <4>7. QED
        BY <4>4, <4>5, <4>6
    <3> HIDE DEF b
    <3>5. Fit([y EXCEPT !.cut = yes, !.bytes = SubSeq(@, 1, Len(@) - 1)])
      BY <3>2, <3>4
    <3>6. QED
      BY <3>1, <3>5, Zenon DEF y
  <2>5. Fit(x)
    BY <2>3, <2>4, Zenon
  <2> HIDE DEF x
  <2>6. QED
    BY <1>1, <2>1, <2>5 DEF Originate
<1>3. ASSUME NEW e \in Edges, NEW to, SendRegister(e, to)
      PROVE  \E S : net' = net \cup S /\ AllFit(S)
  <2> DEFINE c == Common(PC.REGISTER)
             none == <<>>
             m == [cookie |-> Bytes(123456789, 4), srcMac |-> Mac[e], dstMac |-> Zeros(6), sock |-> NoSock]
             x == N2NDatagram(Sock[e], to, c, m, none, none)
  <2>1. Originate({x})
    BY <1>3, SMT DEF SendRegister
  <2>2. c.pc # PC.REGISTER_SUPER_ACK
    BY DEF Common, PC
  <2> HIDE DEF c, m, none
  <2>3. Fit(x)
    BY <2>2, N2NFit
  <2> HIDE DEF x
  <2>4. QED
    BY <1>1, <2>1, <2>3 DEF Originate
<1>4. ASSUME NEW d, RelayFrame(d)
      PROVE  \E S : net' = net \cup S /\ AllFit(S)
  <2> DEFINE U(p) == IF p.msg.dstMac = [i \in 1..6 |-> 255]
                     THEN {x \in Edges : Sock[x] # d.from}
                     ELSE {x \in Edges : Mac[x] = p.msg.dstMac}
             frame == d.meant.frame
  <2>0. PICK p \in {Parse(d)} :
            /\ p.ok /\ p.cmn.pc = PC.PACKET
            /\ Answer({Relayed(d, p, Sock[e]) : e \in U(p)})
            /\ Overruns(SnSock, frame, Len(Relayed(d, p, SnSock).bytes) > PktBuf)
    BY <1>4, Zenon DEF RelayFrame
  <2> DEFINE T == U(p)
             cmn == [p.cmn EXCEPT !.ttl = @ - 1, !.flags = N2N_FLAGS_SOCKET + N2N_FLAGS_FROM_SUPERNODE]
             S == {Relayed(d, p, Sock[e]) : e \in T}
  <2>1. Answer(S) /\ p.cmn.pc = PC.PACKET /\ p = Parse(d)
    BY <2>0
  <2> HIDE DEF T
  <2>2. cmn.pc # PC.REGISTER_SUPER_ACK
    <3>1. \E t, pc, f, y : p.cmn = [ttl |-> t, pc |-> pc, flags |-> f, community |-> y]
      BY <2>1, ParsedCommon
    <3>2. cmn.pc = p.cmn.pc
      BY <3>1
    <3>3. QED
      BY <2>1, <3>2 DEF PC
  <2>3. ASSUME NEW to PROVE Fit(Relayed(d, p, to))
    <3> DEFINE m == [p.msg EXCEPT !.sock = d.from]
               cut == d.cut
               rest == p.rest
    <3>1. Relayed(d, p, to) = [N2NDatagram(SnSock, to, cmn, m, rest, frame) EXCEPT !.cut = cut]
      BY Zenon DEF Relayed
    <3> HIDE DEF cmn, m, cut, frame, rest
    <3>2. QED
      BY <2>2, <3>1, N2NFit
  <2>4. net' = net \cup S
    BY <2>1 DEF Answer
  <2>5. AllFit(S)
    BY <2>3 DEF AllFit
  <2>6. QED
    BY <2>4, <2>5
<1>5. ASSUME NEW e \in Edges, NEW d, RecvFrame(e, d)
      PROVE  \E S : net' = net \cup S /\ AllFit(S)
  <2>1. net' = net \cup {}
    BY <1>5 DEF RecvFrame, Answer
  <2>2. QED
    BY <1>0, <2>1
<1>6. ASSUME NEW e \in Edges, NEW d, RecvRegister(e, d)
      PROVE  \E S : net' = net \cup S /\ AllFit(S)
  <2> DEFINE c == Common(PC.REGISTER_ACK)
  <2>1. \E m, rest, frame : Answer({N2NDatagram(Sock[e], d.from, c, m, rest, frame)})
    BY <1>6, Zenon DEF RecvRegister
  <2>2. c.pc # PC.REGISTER_SUPER_ACK
    BY DEF Common, PC
  <2> HIDE DEF c
  <2>3. QED
    BY <1>1, <2>1, <2>2, N2NFit DEF Answer
<1>7. QED
  BY <1>2, <1>3, <1>4, <1>5, <1>6 DEF FramesNext

LEMMA ReqOutFit ==
    ASSUME Communities(comms), NEW d, NEW q
    PROVE  AllFit(AfterReq(d, q).out)
<1> DEFINE edge  == Has(q.hdr.flags, E_FLAG)
           adv   == Has(q.hdr.flags, A_FLAG)
           name  == q.msg.comm_ptr[1]
           fresh == adv /\ edge /\ CommFind(comms, name) = 0
           a     == IF edge THEN sns ELSE AddSn(sns, d.from)
           b     == IF fresh THEN AddComm(comms, name) ELSE comms
           T     == IF fresh THEN ToSet(sns) ELSE {}
           none  == <<>>
           one   == <<name>>
           n     == 0
           asked == {Adv(d.from, none)} \cup {Adv(s, one) : s \in T}
           told  == {Rsp(d.from, q.hdr, q.msg)}
           out   == IF adv THEN asked ELSE told
<1>1. AfterReq(d, q) = Effect(a, b, fresh, out, n)
  BY Zenon DEF AfterReq
<1> HIDE DEF a, b, fresh, T, one, none, n, adv
<1>2. AllFit(asked)
  BY AdvFit DEF AllFit
<1>3. AllFit(told)
  BY RspFit DEF AllFit
<1> HIDE DEF asked, told
<1>4. AllFit(out)
  BY <1>2, <1>3
<1> HIDE DEF out
<1>5. QED
  BY <1>1, <1>4, OutOf

LEMMA RspOutFit ==
    ASSUME NEW d, NEW q
    PROVE  AllFit(AfterRsp(d, q).out)
<1> DEFINE all  == IF Has(q.hdr.flags, S_FLAG) THEN AddSns(sns, q.msg.sn_ptr) ELSE sns
           n    == Len(all) - Len(sns)
           note(list, name) == LET l == AddComm(list, name) IN AddToComm(l, CommFind(l, name), d.from)
           b    == IF Has(q.hdr.flags, C_FLAG) THEN FoldLeft(note, comms, q.msg.comm_ptr) ELSE comms
           no   == FALSE
           yes  == TRUE
           out  == {Req(all[i], seqNum + i, yes) : i \in 1..n}
<1>1. AfterRsp(d, q) = Effect(all, b, no, out, n)
  BY Zenon DEF AfterRsp
<1>2. yes \in BOOLEAN
  OBVIOUS
<1> HIDE DEF all, n, b, no, yes
<1>3. ASSUME NEW i \in 1..n PROVE Fit(Req(all[i], seqNum + i, yes))
  <2> DEFINE to == all[i]
             seq == seqNum + i
  <2> HIDE DEF to, seq
  <2>1. Fit(Req(to, seq, yes))
    BY <1>2, ReqFit
  <2>2. QED
    BY <2>1 DEF to, seq
<1>4. AllFit(out)
  BY <1>3 DEF AllFit
<1> HIDE DEF out
<1>5. QED
  BY <1>1, <1>4, OutOf

LEMMA AdvOutFit ==
    ASSUME NEW d, NEW q
    PROVE  AllFit(AfterAdv(d, q).out)
<1> DEFINE addr == IF q.msg.sn.addr = Zeros(4) THEN [q.msg.sn EXCEPT !.addr = d.from.addr] ELSE q.msg.sn
           list == FoldLeft(LAMBDA l, name : AddToComm(l, CommFind(l, name), addr), comms, q.msg.comm_ptr)
           a    == AddSn(sns, d.from)
           save == list # comms
           says == list # comms /\ Has(q.hdr.flags, A_FLAG)
           out  == IF says THEN {Adv(d.from, NamesOf(list))} ELSE {}
           n    == 0
<1>1. AfterAdv(d, q) = Effect(a, list, save, out, n)
  BY Zenon DEF AfterAdv
<1> HIDE DEF addr, a, save, says, n
<1> HIDE DEF list
<1>2. AllFit(out)
  BY AdvFit DEF AllFit
<1> HIDE DEF out
<1>3. QED
  BY <1>1, <1>2, OutOf

LEMMA AfterFit ==
    ASSUME Communities(comms), NEW d, Heeds(d)
    PROVE  AllFit(After(d).out)
<1> DEFINE p == ParseSnm(d)
           type == p.hdr.type
<1>1. /\ type = SNM.REQ => After(d) = AfterReq(d, p)
      /\ type = SNM.RSP => After(d) = AfterRsp(d, p)
      /\ type = SNM.ADV => After(d) = AfterAdv(d, p)
  BY DEF After, SNM
<1>2. type = SNM.REQ \/ type = SNM.RSP \/ type = SNM.ADV
  BY DEF Heeds
<1> HIDE DEF p
<1>3. QED
  BY <1>1, <1>2, ReqOutFit, RspOutFit, AdvOutFit

\* An answer to a registration names the counterparts of its community.
LEMMA BackupsFit ==
    ASSUME Communities(comms), NEW c, NEW m, NEW to, NEW rest, NEW frame,
           m.sn_bak = LET k == CommFind(comms, CStr(c.community)) IN IF k = 0 THEN <<>> ELSE comms[k].sns
    PROVE  Fit(N2NDatagram(SnSock, to, c, m, rest, frame))
<1> DEFINE b == EncodeN2N(c, m) \o rest
           meant == Meant(c, m, rest, frame)
           x == N2NDatagram(SnSock, to, c, m, rest, frame)
           name == CStr(c.community)
           a == [name |-> name, sns |-> m.sn_bak]
           k == CommFind(comms, name)
<1>1. x = Datagram(No, SnSock, to, b, No, meant)
  BY N2NFields
<1>2. meant.cmn = c /\ meant.msg = m
  BY DEF Meant
<1> HIDE DEF x, b, meant
<1>3. ~x.snm /\ x.meant = meant
  <2>1. Saying(x, No, No, SnSock, meant)
    BY <1>1, DatagramSaying
  <2>2. QED
    BY <2>1 DEF Saying, No
<1>4. About(x) \subseteq {a}
  BY <1>2, <1>3 DEF About
<1>5. a.name = name /\ a.sns = IF k = 0 THEN <<>> ELSE comms[k].sns
  OBVIOUS
<1> HIDE DEF a
<1>6. Right(x, a)
  <2>1. CASE k = 0
    <3>1. CommFind(comms, a.name) = 0 /\ a.sns = <<>>
      BY <1>5, <2>1
    <3>2. QED
      BY <1>3, <3>1, NoneRight
  <2>2. CASE k # 0
    <3>1. CommFind(comms, a.name) # 0 /\ a.sns = comms[CommFind(comms, a.name)].sns
      BY <1>5, <2>2
    <3>2. QED
      BY <3>1, FoundRight
  <2>3. QED
    BY <2>1, <2>2
<1>7. Fit(x)
  BY <1>3, <1>4, <1>6 DEF Fit
<1>8. QED
  BY <1>7 DEF x

\* Every step of the supernode and of its partners.
LEMMA CommsFit ==
    ASSUME Sayable, SnmNet, Communities(comms), CommsNext
    PROVE  \E S : net' = net \cup S /\ AllFit(S)
<1>0. AllFit({})
  BY DEF AllFit
<1>13. ASSUME NEW x, Fit(x), net' = net \cup {x} PROVE \E S : net' = net \cup S /\ AllFit(S)
  <2>1. AllFit({x})
    BY <1>13 DEF AllFit
  <2>2. QED
    BY <1>13, <2>1
<1>1. CASE Start
  <2> DEFINE read == ReadSns(snFile)
             all  == AddSns(read, CmdLine)
             yes  == TRUE
             S    == {Req(all[i], i, yes) : i \in DOMAIN all}
  <2>1. Answer(S)
    BY <1>1, Zenon DEF Start
  <2>2. yes \in BOOLEAN
    OBVIOUS
  <2> HIDE DEF all, yes
  <2>3. ASSUME NEW i PROVE Fit(Req(all[i], i, yes))
    <3> DEFINE to == all[i]
    <3> HIDE DEF to
    <3>1. Fit(Req(to, i, yes))
      BY <2>2, ReqFit
    <3>2. QED
      BY <3>1 DEF to
  <2>4. AllFit(S)
    BY <2>3 DEF AllFit
  <2> HIDE DEF S
  <2>5. QED
    BY <2>1, <2>4 DEF Answer
<1>2. CASE DiscoveryEnd
  <2> DEFINE names == NamesOf(Discovered)
             T     == IF Discovered = <<>> THEN {} ELSE ToSet(sns)
             S     == {Adv(s, names) : s \in T}
  <2>1. Answer(S)
    BY <1>2, Zenon DEF DiscoveryEnd
  <2> HIDE DEF names, T
  <2>2. AllFit(S)
    BY AdvFit DEF AllFit
  <2> HIDE DEF S
  <2>3. QED
    BY <2>1, <2>2 DEF Answer
<1>3. CASE Crash
  BY <1>0, <1>3 DEF Crash, Answer
<1>4. ASSUME NEW d \in net, RecvSnm(d) PROVE \E S : net' = net \cup S /\ AllFit(S)
  <2>1. Heeds(d) /\ net' = net \cup After(d).out
    BY <1>4 DEF RecvSnm, Answer
  <2>2. QED
    BY <2>1, AfterFit
<1>5. ASSUME NEW d \in net, RecvRegisterSuper(d) PROVE \E S : net' = net \cup S /\ AllFit(S)
  <2> DEFINE p    == Parse(d)
             k    == CommFind(comms, CStr(p.cmn.community))
             bak  == IF k = 0 THEN <<>> ELSE comms[k].sns
             c    == [ttl |-> 2, pc |-> PC.REGISTER_SUPER_ACK, community |-> p.cmn.community,
                      flags |-> N2N_FLAGS_SOCKET + N2N_FLAGS_FROM_SUPERNODE]
             m    == [cookie |-> p.msg.cookie, edgeMac |-> p.msg.edgeMac, lifetime |-> 120,
                      sock |-> d.from, num_sn |-> Len(bak), sn_bak |-> bak]
             none == <<>>
             x    == N2NDatagram(SnSock, d.from, c, m, none, none)
  <2>1. Answer({x})
    <3>1. Answer({RegisterAnswer(d, p)})
      BY <1>5, RegisterAnswered
    <3>2. RegisterAnswer(d, p) = x
      BY Zenon DEF RegisterAnswer
    <3> HIDE DEF x
    <3>3. QED
      BY <3>1, <3>2
  <2> HIDE DEF p
  <2>2. m.sn_bak = bak /\ c.community = p.cmn.community
    OBVIOUS
  <2> HIDE DEF c, m, none
  <2>3. m.sn_bak = LET o == CommFind(comms, CStr(c.community)) IN IF o = 0 THEN <<>> ELSE comms[o].sns
    BY <2>2
  <2>4. Fit(x)
    BY <2>3, BackupsFit
  <2> HIDE DEF x
  <2>5. QED
    BY <1>13, <2>1, <2>4 DEF Answer
<1>6. ASSUME NEW d \in net, CrashSaving(d) PROVE \E S : net' = net \cup S /\ AllFit(S)
  <2>1. Heeds(d) /\ (net' = net \cup After(d).out \/ net' = net \cup {})
    BY <1>6 DEF CrashSaving, Answer
  <2>2. QED
    BY <1>0, <2>1, AfterFit
<1>7. ASSUME NEW name, NEW cookie, EdgeRegisters(name, cookie)
      PROVE  \E S : net' = net \cup S /\ AllFit(S)
  <2> DEFINE c == [ttl |-> 2, pc |-> PC.REGISTER_SUPER, flags |-> 0, community |-> Padded(name)]
             m == [cookie |-> cookie, edgeMac |-> Peer.mac, scheme |-> 0, toksize |-> 0, token |-> <<>>]
             none == <<>>
             from == Peer.sock
             x == N2NDatagram(from, SnSock, c, m, none, none)
  <2>1. Originate({x})
    BY <1>7, Zenon DEF EdgeRegisters
  <2>2. c.pc # PC.REGISTER_SUPER_ACK
    BY DEF PC
  <2> HIDE DEF c, m, none, from
  <2>3. Fit(x)
    BY <2>2, N2NFit
  <2> HIDE DEF x
  <2>4. QED
    BY <1>13, <2>1, <2>3 DEF Originate
<1>8. ASSUME NEW name \in Names, NEW stray, NEW discovering, EdgeAsks(name, stray, discovering)
      PROVE  \E S : net' = net \cup S /\ AllFit(S)
  <2> DEFINE set(flags, bit) == IF Has(flags, bit) THEN flags ELSE flags + bit
             h == [type |-> SNM.REQ, seq_num |-> 0,
                   flags |-> set(set(set(stray, E_FLAG), N_FLAG), IF discovering THEN S_FLAG ELSE A_FLAG)]
             m == [comm_num |-> 1, comm_ptr |-> <<name>>]
             x == SnmDatagram(Peer.snm, SnmSock, h, m)
  <2>1. Originate({x})
    BY <1>8, Zenon DEF EdgeAsks
  <2>2. h.type = SNM.REQ /\ m.comm_ptr = <<name>>
    BY Zenon
  <2>3. x.snm /\ ~x.cut /\ x.meant.hdr = h /\ x.meant.msg = m
    BY SnmSaid
  <2> HIDE DEF x, h, m
  <2>4. h.type # SNM.RSP
    BY <2>2 DEF SNM
  <2>5. Asking(x)
    <3>1. name \in CommNames
      BY CommsAssumption
    <3>2. QED
      BY <2>2, <2>3, <3>1 DEF Asking
  <2>6. About(x) = {}
    BY <2>3, <2>4 DEF About
  <2>7. Fit(x)
    BY <2>5, <2>6 DEF Fit
  <2>8. QED
    BY <1>13, <2>1, <2>7 DEF Originate
<1>9. ASSUME NEW o, NEW want \in BOOLEAN, OtherAsks(o, want) PROVE \E S : net' = net \cup S /\ AllFit(S)
  <2> DEFINE one == 1
             from == o.snm
             x == [Req(SnmSock, one, want) EXCEPT !.from = from]
  <2>1. net' = net \cup {x}
    BY <1>9 DEF OtherAsks, Originate
  <2> HIDE DEF one, from
  <2>2. Fit(x)
    BY ReqFit
  <2> HIDE DEF x
  <2>3. QED
    BY <1>13, <2>1, <2>2
<1>10. ASSUME NEW o \in Others, NEW list, NEW names, OtherAnswers(o, list, names)
       PROVE  \E S : net' = net \cup S /\ AllFit(S)
  <2>1. PICK d \in net : d.snm /\ \E hdr \in {ParseSnm(d).hdr} :
            /\ hdr.type = SNM.REQ
            /\ Originate({SnmDatagram(o.snm, SnmSock,
                          [hdr EXCEPT !.type = SNM.RSP],
                          [sn_num |-> Len(list), sn_ptr |-> list, comm_num |-> Len(names), comm_ptr |-> names])})
    BY <1>10, Zenon DEF OtherAnswers
  <2> DEFINE hdr == [ParseSnm(d).hdr EXCEPT !.type = SNM.RSP]
             m   == [sn_num |-> Len(list), sn_ptr |-> list, comm_num |-> Len(names), comm_ptr |-> names]
             x   == SnmDatagram(o.snm, SnmSock, hdr, m)
  <2>2. Originate({x})
    BY <2>1, Zenon
  <2>3. x.snm /\ ~x.cut /\ x.meant.hdr = hdr /\ x.from = o.snm
    BY SnmSaid
  <2>4. hdr.type # SNM.REQ
    <3>1. ParseSnm(d).hdr \in Headers
      BY <2>1, Heard DEF SnmSays
    <3>2. hdr.type = SNM.RSP
      BY <3>1 DEF Headers
    <3>3. QED
      BY <3>2 DEF SNM
  <2>5. o.snm # SnmSock
    BY CommsAssumption
  <2> HIDE DEF x, hdr, m
  <2>6. x.meant.hdr.type # SNM.REQ /\ x.from # SnmSock
    BY <2>3, <2>4, <2>5
  <2>7. Fit(x)
    BY <2>3, <2>6, PlainFit
  <2>8. QED
    BY <1>13, <2>2, <2>7 DEF Originate
<1>11. ASSUME NEW o \in Others, NEW names, NEW want, OtherAdvertises(o, names, want)
       PROVE  \E S : net' = net \cup S /\ AllFit(S)
  <2> DEFINE h == [type |-> SNM.ADV, seq_num |-> 0, flags |-> N_FLAG + Flag(want, A_FLAG)]
             m == [sn |-> [o.adv EXCEPT !.addr = Zeros(4)], comm_num |-> Len(names), comm_ptr |-> names]
             x == SnmDatagram(o.snm, SnmSock, h, m)
  <2>1. Originate({x})
    BY <1>11, Zenon DEF OtherAdvertises
  <2>2. h.type = SNM.ADV
    BY Zenon
  <2>3. x.snm /\ ~x.cut /\ x.meant.hdr = h
    BY SnmSaid
  <2> HIDE DEF x, h, m
  <2>4. h.type # SNM.REQ /\ h.type # SNM.RSP
    BY <2>2 DEF SNM
  <2>5. Fit(x)
    BY <2>3, <2>4, PlainFit
  <2>6. QED
    BY <1>13, <2>1, <2>5 DEF Originate
<1>12. QED
  BY <1>1, <1>2, <1>3, <1>4, <1>5, <1>6, <1>7, <1>8, <1>9, <1>10, <1>11 DEF CommsNext

---------------------------------------------------------------------------
(* The invariant: every list is one of the kind its name says, and each    *)
(* file holds the list that the last completed save of it was of.          *)

SavedLists == /\ stored = [sns |-> stored.sns, comms |-> stored.comms]
              /\ Supernodes(stored.sns) /\ Communities(stored.comms)
              /\ snFile = WriteSns(stored.sns)
              /\ commFile = WriteComms(stored.comms)
KeptLists == Supernodes(sns) /\ Communities(comms) /\ Communities(persist)
InRange == disc \in {"down", "DISCOVERY", "READY"} /\ crashes \in 0..MaxCrashes /\ seqNum \in Nat

CommsInv == InRange /\ KeptLists /\ SavedLists

LEMMA NoCommunities == Communities(<<>>)
<1>1. PICK none : none = <<>>
  OBVIOUS
<1>2. List(none) /\ Len(none) = 0
  <2>1. none \in Seq({}) /\ Len(none) = 0
    BY <1>1, EmptySeq
  <2>2. QED
    BY <2>1 DEF List
<1>3. Communities(none)
  BY <1>2 DEF Communities
<1>4. QED
  BY <1>1, <1>3

\* A file that has just been opened is that of an empty list.
LEMMA EmptyFiles == WriteSns(<<>>) = <<>> /\ WriteComms(<<>>) = NoFile
<1>1. PICK none : none = <<>>
  OBVIOUS
<1>2. Len(none) = 0 /\ DOMAIN none = {}
  BY <1>1, EmptySeq
<1>3. WriteSns(none) = none
  BY <1>1, <1>2 DEF WriteSns
<1> DEFINE entries == [i \in DOMAIN none |-> [name |-> none[i].name, sns |-> WriteSns(none[i].sns)]]
<1>4. entries = none
  BY <1>1, <1>2
<1>5. WriteComms(none) = [num |-> Len(none), entries |-> entries]
  BY Zenon DEF WriteComms
<1> HIDE DEF entries
<1>6. WriteComms(none) = [num |-> 0, entries |-> none]
  BY <1>2, <1>4, <1>5
<1>7. NoFile = [num |-> 0, entries |-> none]
  BY <1>1 DEF NoFile
<1>8. QED
  BY <1>1, <1>3, <1>6, <1>7

LEMMA CommsInvInit ==
    ASSUME CommsInit
    PROVE  CommsInv
<1>1. PICK none : none = <<>>
  OBVIOUS
<1>2. Supernodes(none) /\ Communities(none) /\ WriteSns(none) = none
  BY <1>1, NoSupernodes, NoCommunities, EmptyFiles
<1>3. Before \in Seq([name : CommNames, sns : Seq(Sockets)])
  BY CommsAssumption
<1>4. List(Before) /\ Len(Before) \in Nat /\ DOMAIN Before = 1..Len(Before)
  BY <1>3, ListIs DEF List
<1>5. Communities(Before)
  <2>1. ASSUME NEW i \in 1..Len(Before) PROVE CommEntry(Before[i])
    <3>1. Before[i] \in [name : CommNames, sns : Seq(Sockets)]
      BY <1>3, ElementOfSeq
    <3> DEFINE c == Before[i]
    <3>2. c = [name |-> c.name, sns |-> c.sns] /\ c.name \in CommNames /\ c.sns \in Seq(Sockets)
      BY <3>1
    <3>3. Len(c.sns) <= MaxSn
      BY <1>4, CommsAssumption
    <3> HIDE DEF c
    <3>4. List(c.name) /\ List(c.sns)
      BY <3>2, NameList DEF List
    <3>5. QED
      BY <3>2, <3>3, <3>4 DEF CommEntry, c
  <2>2. \A i, j \in 1..Len(Before) : Before[i].name = Before[j].name => i = j
    BY <1>4, CommsAssumption
  <2>3. QED
    BY <1>4, <2>1, <2>2 DEF Communities
<1>6. stored = [sns |-> none, comms |-> Before] /\ snFile = none /\ commFile = WriteComms(Before)
  BY <1>1 DEF CommsInit
<1>7. stored.sns = none /\ stored.comms = Before
  BY <1>6
<1>8. SavedLists
  BY <1>2, <1>5, <1>6, <1>7 DEF SavedLists
<1>9. KeptLists
  BY <1>1, <1>2 DEF KeptLists, CommsInit
<1>10. InRange
  BY CommsAssumption DEF InRange, CommsInit
<1>11. QED
  BY <1>8, <1>9, <1>10 DEF CommsInv

\* A save of one list or of both.
LEMMA Saved ==
    ASSUME NEW a, NEW b, Supernodes(a), Communities(b),
           stored' = [sns |-> a, comms |-> b], snFile' = WriteSns(a), commFile' = WriteComms(b)
    PROVE  SavedLists'
<1>1. (stored').sns = a /\ (stored').comms = b
  OBVIOUS
<1>2. QED
  BY <1>1 DEF SavedLists, Supernodes, Communities, CommEntry, List

\* A message of another supernode or of an edge.
LEMMA RecvSnmKeeps ==
    ASSUME Sayable, SnmNet, CommsInv, NEW d \in net, RecvSnm(d)
    PROVE  CommsInv'
<1> DEFINE e == After(d)
           a == IF e.sns # sns THEN e.sns ELSE stored.sns
           b == IF e.save THEN e.comms ELSE stored.comms
<1>1. /\ sns' = e.sns /\ comms' = e.comms /\ seqNum' = seqNum + e.reqs
      /\ snFile' = IF e.sns # sns THEN WriteSns(e.sns) ELSE snFile
      /\ commFile' = IF e.save THEN WriteComms(e.comms) ELSE commFile
      /\ stored' = [sns |-> a, comms |-> b]
      /\ UNCHANGED <<disc, persist, crashes>>
  BY Zenon DEF RecvSnm
<1>2. Supernodes(e.sns) /\ Communities(e.comms) /\ e.reqs \in Nat
  <2>1. Heeds(d)
    BY DEF RecvSnm
  <2>2. QED
    BY <2>1, AfterLists DEF CommsInv, KeptLists, Lists
<1> HIDE DEF e
<1>3. InRange'
  BY <1>1, <1>2 DEF CommsInv, InRange
<1>4. KeptLists'
  BY <1>1, <1>2 DEF CommsInv, KeptLists
<1>5. Supernodes(a) /\ snFile' = WriteSns(a)
  BY <1>1, <1>2 DEF CommsInv, SavedLists
<1>6. Communities(b) /\ commFile' = WriteComms(b)
  BY <1>1, <1>2 DEF CommsInv, SavedLists
<1> HIDE DEF a, b
<1>7. SavedLists'
  BY <1>1, <1>5, <1>6, Saved
<1>8. QED
  BY <1>3, <1>4, <1>7 DEF CommsInv

LEMMA DieKeeps ==
    ASSUME InRange, Die
    PROVE  InRange' /\ KeptLists'
<1>1. InRange'
  BY CommsAssumption DEF InRange, Die
<1>2. sns' = <<>> /\ comms' = <<>> /\ persist' = <<>>
  BY DEF Die
<1>3. KeptLists'
  BY <1>2, NoSupernodes, NoCommunities DEF KeptLists
<1>4. QED
  BY <1>1, <1>3

\* The process dies while it writes a file.
LEMMA CrashSavingKeeps ==
    ASSUME Sayable, SnmNet, CommsInv, NEW d \in net, CrashSaving(d)
    PROVE  CommsInv'
<1> DEFINE e == After(d)
           a == IF e.sns # sns THEN e.sns ELSE stored.sns
<1>0. PICK none : none = <<>>
  OBVIOUS
<1>1. Heeds(d) /\ Die
  BY DEF CrashSaving
<1>2. Supernodes(e.sns) /\ Communities(e.comms)
  BY <1>1, AfterLists DEF CommsInv, KeptLists, Lists
<1>3. InRange' /\ KeptLists'
  BY <1>1, DieKeeps DEF CommsInv
<1>4. \/ snFile' = <<>> /\ stored' = [stored EXCEPT !.sns = <<>>] /\ UNCHANGED commFile
      \/ /\ snFile' = IF e.sns # sns THEN WriteSns(e.sns) ELSE snFile
         /\ commFile' = NoFile
         /\ stored' = [sns |-> a, comms |-> <<>>]
  BY Zenon DEF CrashSaving
<1> HIDE DEF e
<1>5. Supernodes(none) /\ Communities(none) /\ WriteSns(none) = none /\ WriteComms(none) = NoFile
  BY <1>0, NoSupernodes, NoCommunities, EmptyFiles
<1>6. CASE snFile' = <<>> /\ stored' = [stored EXCEPT !.sns = <<>>] /\ UNCHANGED commFile
  <2> DEFINE b == stored.comms
  <2>1. stored' = [sns |-> none, comms |-> b]
    BY <1>0, <1>6 DEF CommsInv, SavedLists
  <2>2. Communities(b) /\ commFile' = WriteComms(b)
    BY <1>6 DEF CommsInv, SavedLists
  <2>3. snFile' = WriteSns(none)
    BY <1>0, <1>5, <1>6
  <2> HIDE DEF b
  <2>4. SavedLists'
    BY <1>5, <2>1, <2>2, <2>3, Saved
  <2>5. QED
    BY <1>3, <2>4 DEF CommsInv
<1>7. CASE /\ snFile' = IF e.sns # sns THEN WriteSns(e.sns) ELSE snFile
           /\ commFile' = NoFile
           /\ stored' = [sns |-> a, comms |-> <<>>]
  <2>1. Supernodes(a) /\ snFile' = WriteSns(a)
    BY <1>2, <1>7 DEF CommsInv, SavedLists
  <2> HIDE DEF a
  <2>2. stored' = [sns |-> a, comms |-> none] /\ commFile' = WriteComms(none)
    BY <1>0, <1>5, <1>7
  <2>3. SavedLists'
    BY <1>5, <2>1, <2>2, Saved
  <2>4. QED
    BY <1>3, <2>3 DEF CommsInv
<1>8. QED
  BY <1>4, <1>6, <1>7

\* The start reads both files.
LEMMA StartKeeps ==
    ASSUME CommsInv, Start
    PROVE  CommsInv' /\ EndsWith(sns', ReadSns(snFile))
<1> DEFINE read == ReadSns(snFile)
           all  == AddSns(read, CmdLine)
           a    == IF all # read THEN all ELSE stored.sns
           b    == stored.comms
<1>1. /\ disc' \in {"down", "DISCOVERY", "READY"}
      /\ sns' = all /\ comms' = <<>> /\ persist' = ReadComms(commFile)
      /\ seqNum' = Len(all)
      /\ snFile' = IF all # read THEN WriteSns(all) ELSE snFile
      /\ stored' = [stored EXCEPT !.sns = IF all # read THEN all ELSE @]
      /\ UNCHANGED <<commFile, crashes>>
  BY Zenon DEF Start
<1>2. Supernodes(read)
  <2>1. List(snFile)
    BY WriteSnsIs DEF CommsInv, SavedLists, Supernodes
  <2>2. QED
    BY <2>1, ReadSnsKeeps
<1>3. Supernodes(all) /\ EndsWith(all, read)
  <2>1. List(CmdLine)
    BY CommsAssumption DEF List
  <2> HIDE DEF read
  <2>2. QED
    BY <1>2, <2>1, AddSnsKeeps
<1>4. Communities(persist')
  <2>1. commFile = WriteComms(stored.comms) /\ Communities(stored.comms)
    BY DEF CommsInv, SavedLists
  <2>2. Communities(ReadComms(WriteComms(stored.comms)))
    BY <2>1, CommsBack
  <2>3. QED
    BY <1>1, <2>1, <2>2
<1> HIDE DEF all, read
<1>5. InRange'
  <2>1. Len(all) \in Nat
    BY <1>3, ListIs DEF Supernodes
  <2>2. QED
    BY <1>1, <2>1 DEF CommsInv, InRange
<1>6. KeptLists'
  BY <1>1, <1>3, <1>4, NoCommunities DEF KeptLists
<1>7. Supernodes(a) /\ snFile' = WriteSns(a)
  BY <1>1, <1>3 DEF CommsInv, SavedLists
<1>8. Communities(b) /\ commFile' = WriteComms(b)
  BY <1>1 DEF CommsInv, SavedLists
<1>9. stored' = [sns |-> a, comms |-> b]
  BY <1>1 DEF CommsInv, SavedLists
<1> HIDE DEF a, b
<1>10. SavedLists'
  BY <1>7, <1>8, <1>9, Saved
<1>11. QED
  BY <1>1, <1>3, <1>5, <1>6, <1>10 DEF CommsInv, read

\* The end of the discovery.
LEMMA DiscoveryEndKeeps ==
    ASSUME CommsInv, DiscoveryEnd
    PROVE  CommsInv' /\ EndsWith(comms', persist)
<1>1. disc' = "READY" /\ comms' = Discovered
      /\ UNCHANGED <<sns, persist, seqNum, snFile, commFile, crashes, stored>>
  BY Zenon DEF DiscoveryEnd
<1>2. Discovered = Found(persist, comms)
  BY Zenon DEF Discovered, Found
<1>3. Communities(comms') /\ EndsWith(comms', persist)
  <2>1. List(comms) /\ Communities(comms) /\ Communities(persist)
    BY DEF CommsInv, KeptLists, Communities
  <2>2. QED
    BY <1>1, <1>2, <2>1, FoundKeeps
<1>4. InRange'
  BY <1>1 DEF CommsInv, InRange
<1>5. KeptLists'
  BY <1>1, <1>3 DEF CommsInv, KeptLists
<1>6. SavedLists'
  BY <1>1 DEF CommsInv, SavedLists
<1>7. QED
  BY <1>3, <1>4, <1>5, <1>6 DEF CommsInv

LEMMA UnchangedKeeps ==
    ASSUME CommsInv, UNCHANGED commsVars
    PROVE  CommsInv'
BY DEF CommsInv, InRange, KeptLists, SavedLists, commsVars

LEMMA CommsInvStep ==
    ASSUME Sayable, SnmNet, CommsInv, CommsNext
    PROVE  CommsInv'
<1>1. CASE Start
  BY <1>1, StartKeeps
<1>2. CASE DiscoveryEnd
  BY <1>2, DiscoveryEndKeeps
<1>3. CASE Crash
  <2>1. InRange' /\ KeptLists'
    BY <1>3, DieKeeps DEF Crash, CommsInv
  <2>2. SavedLists'
    BY <1>3 DEF Crash, CommsInv, SavedLists
  <2>3. QED
    BY <2>1, <2>2 DEF CommsInv
<1>4. ASSUME NEW d \in net, RecvSnm(d) PROVE CommsInv'
  BY <1>4, RecvSnmKeeps
<1>5. ASSUME NEW d \in net, CrashSaving(d) PROVE CommsInv'
  BY <1>5, CrashSavingKeeps
<1>6. CASE UNCHANGED commsVars
  BY <1>6, UnchangedKeeps
<1>7. ASSUME NEW d \in net, RecvRegisterSuper(d) PROVE UNCHANGED commsVars
  BY <1>7, Zenon DEF RecvRegisterSuper
<1>8. ASSUME NEW name, NEW cookie, EdgeRegisters(name, cookie) PROVE UNCHANGED commsVars
  BY <1>8, Zenon DEF EdgeRegisters
<1>9. ASSUME NEW name, NEW stray, NEW discovering, EdgeAsks(name, stray, discovering) PROVE UNCHANGED commsVars
  BY <1>9, Zenon DEF EdgeAsks
<1>10. ASSUME NEW o, NEW want, OtherAsks(o, want) PROVE UNCHANGED commsVars
  BY <1>10, Zenon DEF OtherAsks
<1>11. ASSUME NEW o, NEW list, NEW names, OtherAnswers(o, list, names) PROVE UNCHANGED commsVars
  BY <1>11, Zenon DEF OtherAnswers
<1>12. ASSUME NEW o, NEW names, NEW want, OtherAdvertises(o, names, want) PROVE UNCHANGED commsVars
  BY <1>12, Zenon DEF OtherAdvertises
<1>13. QED
  BY <1>1, <1>2, <1>3, <1>4, <1>5, <1>6, <1>7, <1>8, <1>9, <1>10, <1>11, <1>12 DEF CommsNext

---------------------------------------------------------------------------
(* The supernode in the overlay.                                           *)

\* What a step sends.
LEMMA StepFit ==
    ASSUME Sayable, SnmNet, CommsInv, [Next]_vars
    PROVE  \E S : net' = net \cup S /\ AllFit(S)
<1>1. CASE FramesNext
  BY <1>1, FramesFit
<1>2. CASE CommsNext
  <2>1. Communities(comms)
    BY DEF CommsInv, KeptLists
  <2>2. QED
    BY <1>2, <2>1, CommsFit
<1>3. CASE UNCHANGED vars
  <2>1. net' = net \cup {}
    BY <1>3 DEF vars
  <2>2. AllFit({})
    BY DEF AllFit
  <2>3. QED
    BY <2>1, <2>2
<1>4. QED
  BY <1>1, <1>2, <1>3 DEF Next

LEMMA SnmNetStep ==
    ASSUME Sayable, SnmNet, CommsInv, [Next]_vars
    PROVE  SnmNet'
<1>1. PICK S : net' = net \cup S /\ AllFit(S)
  BY StepFit
<1>2. ASSUME NEW d \in net', d.snm PROVE Asking(d)
  <2>1. CASE d \in net
    BY <1>2, <2>1 DEF SnmNet
  <2>2. CASE d \in S
    BY <1>1, <1>2, <2>2 DEF AllFit, Fit
  <2>3. QED
    BY <1>1, <2>1, <2>2
<1>3. QED
  BY <1>2 DEF SnmNet, Asking

LEMMA ListsStep ==
    ASSUME Sayable, SnmNet, CommsInv, [Next]_vars
    PROVE  CommsInv'
<1>1. CASE FramesNext /\ UNCHANGED commsVars
  BY <1>1, UnchangedKeeps
<1>2. CASE CommsNext
  BY <1>2, CommsInvStep
<1>3. CASE UNCHANGED vars
  BY <1>3, UnchangedKeeps DEF vars
<1>4. QED
  BY <1>1, <1>2, <1>3 DEF Next

\* The invariant holds as long as what is sent can be said: a list of more than
\* 65535 entries cannot, nor a sequence number.
THEOREM ListsKept == Spec /\ []Sayable => [](SnmNet /\ CommsInv)
<1>1. Init => SnmNet /\ CommsInv
  BY CommsInvInit DEF Init, SnmNet
<1>2. SnmNet /\ CommsInv /\ Sayable /\ [Next]_vars => (SnmNet /\ CommsInv)'
  BY SnmNetStep, ListsStep
<1>3. QED
  BY <1>1, <1>2, PTL DEF Spec

\* No supernode and no community is twice in a list, whatever is received, and no
\* community has more counterparts than N2N_MAX_SN_PER_COMM: also when the lists
\* have been read from files, which the process may have died in writing, and at
\* the end of a discovery (sn_multiple.c).
THEOREM CommsTypes == Spec /\ []Sayable => []CommsTypeOK
<1>1. CommsInv => CommsTypeOK
  <2> SUFFICES ASSUME CommsInv PROVE CommsTypeOK
    OBVIOUS
  <2>1. IsInjective(sns)
    <3>1. Supernodes(sns) /\ DOMAIN sns = 1..Len(sns)
      BY ListIs DEF CommsInv, KeptLists, Supernodes
    <3>2. QED
      BY <3>1 DEF Supernodes, IsInjective
  <2>2. ASSUME NEW list, Communities(list)
        PROVE  IsInjective(NamesOf(list)) /\ \A k \in DOMAIN list : Len(list[k].sns) <= MaxSn
    <3>1. DOMAIN list = 1..Len(list)
      BY <2>2, ListIs DEF Communities
    <3>2. \A k \in DOMAIN list : Len(list[k].sns) <= MaxSn
      BY <2>2, <3>1 DEF Communities, CommEntry
    <3> DEFINE names == NamesOf(list)
    <3>3. DOMAIN names = DOMAIN list /\ \A i \in DOMAIN list : names[i] = list[i].name
      BY DEF NamesOf
    <3> HIDE DEF names
    <3>4. \A i, j \in DOMAIN list : list[i].name = list[j].name => i = j
      BY <2>2, <3>1 DEF Communities
    <3>5. IsInjective(names)
      BY <3>3, <3>4 DEF IsInjective
    <3>6. QED
      BY <3>2, <3>5 DEF names
  <2>3. Communities(comms) /\ Communities(persist)
    BY DEF CommsInv, KeptLists
  <2>4. QED
    BY <2>1, <2>2, <2>3 DEF CommsInv, InRange, CommsTypeOK
<1>2. QED
  BY <1>1, ListsKept, PTL

\* An edge gets the counterparts of its own community, or of one whose name begins
\* with that name, or, from a registration, none if there is no such community
\* (comm_find, process_sn_msg and process_udp in sn.c and sn_multiple.c).
THEOREM AnswersForCommunity == Spec /\ []Sayable => AnswerForCommunity
<1> DEFINE Answers == \A d \in net' \ net : \A a \in About(d) :
          LET own    == {c \in ToSet(comms) : c.name = a.name}
              longer == {c \in ToSet(comms) : IsStrictPrefix(a.name, c.name)}
          IN  \/ \E c \in own \cup longer : a.sns = c.sns
              \/ own \cup longer = {} /\ a.sns = <<>> /\ ~d.snm
<1>1. Sayable /\ SnmNet /\ CommsInv /\ [Next]_vars => [Answers]_<<net, comms>>
  <2> SUFFICES ASSUME Sayable, SnmNet, CommsInv, [Next]_vars PROVE Answers
    OBVIOUS
  <2>1. PICK S : net' = net \cup S /\ AllFit(S)
    BY StepFit
  <2>2. ASSUME NEW d \in net' \ net, NEW a \in About(d) PROVE Right(d, a)
    <3>1. d \in S
      BY <2>1
    <3>2. QED
      BY <2>1, <2>2, <3>1 DEF AllFit, Fit
  <2>3. QED
    BY <2>2, Zenon DEF Right
<1> HIDE DEF Answers
<1>2. Spec /\ []Sayable => [][Answers]_<<net, comms>>
  BY <1>1, ListsKept, PTL DEF Spec
<1>3. QED
  BY <1>2, Zenon DEF AnswerForCommunity, Answers

\* The text of an IPv6 socket has no address (sock_to_cstr in n2n.c), and what a
\* file of such sockets is read back as is another list.
SavedIPv4 == /\ \A i \in 1..Len(stored.sns) : stored.sns[i] \in IPv4
             /\ \A i \in 1..Len(stored.comms) : \A j \in 1..Len(stored.comms[i].sns) :
                    stored.comms[i].sns[j] \in IPv4

LEMMA ReadBackStep ==
    ASSUME CommsInv, SavedIPv4, [Next]_vars
    PROVE  /\ disc = "down" /\ disc' # "down" => persist' = stored.comms /\ IsSuffix(stored.sns, sns')
           /\ disc = "DISCOVERY" /\ disc' = "READY" => IsSuffix(persist, comms')
<1> DEFINE Both == /\ disc = "down" /\ disc' # "down" => persist' = stored.comms /\ IsSuffix(stored.sns, sns')
                   /\ disc = "DISCOVERY" /\ disc' = "READY" => IsSuffix(persist, comms')
<1>1. CASE Start
  <2>1. disc = "down" /\ persist' = ReadComms(commFile)
    BY <1>1 DEF Start
  <2>2. Supernodes(stored.sns) /\ Communities(stored.comms)
        /\ snFile = WriteSns(stored.sns) /\ commFile = WriteComms(stored.comms)
    BY DEF CommsInv, SavedLists
  <2>3. ReadComms(WriteComms(stored.comms)) = stored.comms
    BY <2>2, CommsBack DEF SavedIPv4
  <2>4. ReadSns(WriteSns(stored.sns)) = stored.sns
    BY <2>2, SnsBack DEF SavedIPv4
  <2>5. EndsWith(sns', stored.sns)
    <3>1. EndsWith(sns', ReadSns(snFile))
      BY <1>1, StartKeeps
    <3>2. QED
      BY <2>2, <2>4, <3>1
  <2>6. IsSuffix(stored.sns, sns')
    BY <2>5, SuffixIs
  <2>7. QED
    BY <2>1, <2>2, <2>3, <2>6
<1>2. CASE DiscoveryEnd
  <2>1. EndsWith(comms', persist)
    BY <1>2, DiscoveryEndKeeps
  <2>2. IsSuffix(persist, comms')
    BY <2>1, SuffixIs
  <2>3. disc = "DISCOVERY"
    BY <1>2 DEF DiscoveryEnd
  <2>4. QED
    BY <2>2, <2>3
<1>3. CASE disc' \in {disc, "down"}
  BY <1>3
<1>4. ASSUME CommsNext PROVE Start \/ DiscoveryEnd \/ disc' \in {disc, "down"}
  <2>1. ASSUME Die PROVE disc' = "down"
    BY <2>1 DEF Die
  <2>2. ASSUME UNCHANGED commsVars PROVE disc' = disc
    BY <2>2 DEF commsVars
  <2>3. ASSUME NEW d, RecvSnm(d) \/ RecvRegisterSuper(d) \/ CrashSaving(d) PROVE disc' \in {disc, "down"}
    <3>1. ASSUME RecvSnm(d) PROVE disc' = disc
      BY <3>1, Zenon DEF RecvSnm
    <3>2. ASSUME RecvRegisterSuper(d) PROVE UNCHANGED commsVars
      BY <3>2, Zenon DEF RecvRegisterSuper
    <3>3. ASSUME CrashSaving(d) PROVE Die
      BY <3>3, Zenon DEF CrashSaving
    <3>4. QED
      BY <2>1, <2>2, <2>3, <3>1, <3>2, <3>3
  <2>4. ASSUME NEW name, NEW cookie, EdgeRegisters(name, cookie) PROVE UNCHANGED commsVars
    BY <2>4, Zenon DEF EdgeRegisters
  <2>5. ASSUME NEW name, NEW stray, NEW discovering, EdgeAsks(name, stray, discovering) PROVE UNCHANGED commsVars
    BY <2>5, Zenon DEF EdgeAsks
  <2>6. ASSUME NEW o, NEW want, OtherAsks(o, want) PROVE UNCHANGED commsVars
    BY <2>6, Zenon DEF OtherAsks
  <2>7. ASSUME NEW o, NEW list, NEW names, OtherAnswers(o, list, names) PROVE UNCHANGED commsVars
    BY <2>7, Zenon DEF OtherAnswers
  <2>8. ASSUME NEW o, NEW names, NEW want, OtherAdvertises(o, names, want) PROVE UNCHANGED commsVars
    BY <2>8, Zenon DEF OtherAdvertises
  <2>9. ASSUME Crash PROVE Die
    BY <2>9 DEF Crash
  <2>10. QED
    BY <1>4, <2>1, <2>2, <2>3, <2>4, <2>5, <2>6, <2>7, <2>8, <2>9 DEF CommsNext
<1>5. CASE UNCHANGED commsVars
  BY <1>5 DEF commsVars
<1>6. CASE UNCHANGED vars
  BY <1>6 DEF vars, commsVars
<1>7. QED
  BY <1>1, <1>2, <1>3, <1>4, <1>5, <1>6 DEF Next

\* A supernode starts with the lists that the last completed saves were of, in
\* their order, or with an empty one after it died in a save, and keeps all of
\* its communities at the end of its discovery: for lists of every length
\* (load_snm_info and the functions for files in sn_multiple.c).
THEOREM ReadsBackAlways == Spec /\ []Sayable /\ []SavedIPv4 => ReadsBack
<1>1. CommsInv /\ SavedIPv4 /\ [Next]_vars
        => [/\ disc = "down" /\ disc' # "down" => persist' = stored.comms /\ IsSuffix(stored.sns, sns')
            /\ disc = "DISCOVERY" /\ disc' = "READY" => IsSuffix(persist, comms')]_commsVars
  BY ReadBackStep
<1>2. QED
  BY <1>1, ListsKept, PTL DEF Spec, ReadsBack

=============================================================================
