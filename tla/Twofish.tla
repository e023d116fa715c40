------------------------------ MODULE Twofish ------------------------------
(***************************************************************************)
(* The Twofish library (twofish.c) as far as the transforms use it:        *)
(* TwoFishEncryptRaw and TwoFishDecryptRaw on byte sequences, with CBC,    *)
(* ciphertext stealing and the context TWOFISH that outlives a call.       *)
(*                                                                         *)
(* The key schedule is any: sBox and subKeys are constants.  Words are     *)
(* sequences of four bytes, the least significant first.                   *)
(***************************************************************************)
EXTENDS Octets, SequencesExt

CONSTANTS
    sBox,      \* sBox[t][b]: the word of table t (0..3) for the byte b
    subKeys,   \* subKeys[i], i \in 0..(7 + 2 * Rounds), words
    Rounds     \* TwoFish_ROUNDS, an even number (16 in the program)

\* Words of the tables and of the keys, which are computed from the user's key.
TwofishWord(w) == w \in [1..4 -> 0..255]

ASSUME TwofishAssumption ==
    /\ Rounds \in Nat
    /\ \A t \in 0..3, b \in 0..255 : TwofishWord(sBox[t][b])
    /\ \A i \in 0..(7 + 2 * Rounds) : TwofishWord(subKeys[i])

BLOCK == 16

---------------------------------------------------------------------------
(* One block: _TwoFish_BlockCrypt16.                                       *)

Fe320(w) == XorWord(XorWord(sBox[0][w[1]], sBox[1][w[2]]), XorWord(sBox[2][w[3]], sBox[3][w[4]]))
Fe323(w) == XorWord(XorWord(sBox[0][w[4]], sBox[1][w[1]]), XorWord(sBox[2][w[2]], sBox[3][w[3]]))

\* What a round adds to the third and to the fourth word, with the keys from k on.
RoundSums(t0, t1, k) ==
    << Plus(Plus(t0, t1), subKeys[k]), Plus(Plus(Plus(t0, t1), t1), subKeys[k + 1]) >>
RoundKeys(a, b, k) == RoundSums(Fe320(a), Fe323(b), k)

\* A round, and the exchange of the halves: the loop of the code, which does two
\* rounds at a time, has the words change places instead.  r: the RoundKeys.
EncryptRound(x, r) ==
    <<RotateRight(XorWord(x[3], r[1])), XorWord(RotateLeft(x[4]), r[2]), x[1], x[2]>>
DecryptRound(x, r) ==
    <<XorWord(RotateLeft(x[3]), r[1]), RotateRight(XorWord(x[4], r[2])), x[1], x[2]>>

\* Words go in as x0..x3 and come out in the order x2, x3, x0, x1.  Decryption
\* takes the round keys backwards and the whitening keys the other way round.
Whiten(x, k) == [i \in 1..4 |-> XorWord(x[i], subKeys[k + i - 1])]
Words(block) == [i \in 1..4 |-> SubSeq(block, 4 * i - 3, 4 * i)]
Bytes16(x)   == x[1] \o x[2] \o x[3] \o x[4]
Exchange(x)  == <<x[3], x[4], x[1], x[2]>>

BlockRounds(block, decrypt) ==
    FoldLeft(LAMBDA x, n :
                 IF decrypt THEN DecryptRound(x, RoundKeys(x[1], x[2], 8 + 2 * (Rounds - n)))
                            ELSE EncryptRound(x, RoundKeys(x[1], x[2], 8 + 2 * (n - 1))),
             Whiten(Words(block), IF decrypt THEN 4 ELSE 0), [n \in 1..Rounds |-> n])

BlockCrypt16(block, decrypt) ==
    Bytes16(Whiten(Exchange(BlockRounds(block, decrypt)), IF decrypt THEN 0 ELSE 4))

---------------------------------------------------------------------------
(* Blocks in a chain.  A context keeps the last block that went in (plain) *)
(* and came out (crypt), and the one that went in before (prev); output    *)
(* lags one block behind, so that the last two can be exchanged.           *)

ZeroBlock == [i \in 1..BLOCK |-> 0]

\* _TwoFish_qBlockPush
Push(c, p, o) ==
    [defined |-> TRUE, plain |-> p, crypt |-> o, prev |-> c.plain,
     output |-> IF c.defined THEN c.output \o c.crypt ELSE c.output]

\* _TwoFish_BlockCrypt on a whole block
Chained(c, in, decrypt)   == IF ~decrypt /\ c.defined THEN XorSeq(in, c.crypt) ELSE in
Unchained(c, out, decrypt) == IF decrypt /\ c.defined THEN XorSeq(out, c.plain) ELSE out

WholeBlock(c, in, decrypt) ==
    Push(c, Chained(c, in, decrypt),
         Unchained(c, BlockCrypt16(Chained(c, in, decrypt), decrypt), decrypt))

\* _TwoFish_BlockCrypt on the rest: ciphertext stealing.  The block pushed last
\* is popped, and what takes its place is put out with the rest.
FilledUp(in, block) == in \o SubSeq(block, Len(in) + 1, BLOCK)

PutOut(c, p, o, rest) ==
    [defined |-> FALSE, plain |-> p, crypt |-> o, prev |-> c.plain,
     output |-> c.output \o o \o rest]

EncryptRest(c, in, pn) == PutOut(c, pn, BlockCrypt16(pn, FALSE), SubSeq(c.crypt, 1, Len(in)))

\* stolen: CBCplusCprime
DecryptRest(c, in, stolen) ==
    PutOut(c, FilledUp(in, stolen), XorSeq(BlockCrypt16(FilledUp(in, stolen), TRUE), c.prev),
           XorSeq(in, SubSeq(stolen, 1, Len(in))))

PartialBlock(c, in, decrypt) ==
    IF decrypt THEN DecryptRest(c, in, BlockCrypt16(c.plain, TRUE))
               ELSE EncryptRest(c, in, XorSeq(FilledUp(in, ZeroBlock), c.crypt))

\* the chain starts from where the last call left it
ResetCBCVariant(c) ==
    [defined |-> FALSE, plain |-> c.plain, crypt |-> c.crypt, prev |-> c.prev, output |-> <<>>]

\* _TwoFish_ResetCBC, and the new output buffer.  prev is cleared through plain.
ResetCBC(c) ==
    [defined |-> FALSE, plain |-> ZeroBlock, crypt |-> c.crypt, prev |-> c.prev, output |-> <<>>]

\* _TwoFish_CryptRawCBC
Flush(c) == IF c.defined THEN [c EXCEPT !.output = @ \o c.crypt] ELSE c

BlocksOf(in) ==
    [n \in 1..((Len(in) + BLOCK - 1) \div BLOCK) |->
        SubSeq(in, BLOCK * (n - 1) + 1, IF BLOCK * n < Len(in) THEN BLOCK * n ELSE Len(in))]

CryptRawCBC(c, in, decrypt) ==
    Flush(FoldLeft(LAMBDA d, b : IF Len(b) = BLOCK THEN WholeBlock(d, b, decrypt)
                                                   ELSE PartialBlock(d, b, decrypt),
                   c, BlocksOf(in)))

\* _TwoFish_CryptRaw16: one block, filled up with zeroes, whatever the length.
Single(c, p, o) == [defined |-> c.defined, plain |-> p, crypt |-> o, prev |-> c.prev, output |-> o]

CryptRaw16(c, in, decrypt) ==
    Single(c, FilledUp(in, c.plain), BlockCrypt16(FilledUp(in, c.plain), decrypt))

\* TwoFishEncryptRaw, TwoFishDecryptRaw: the context afterwards, with the output.
CryptRaw(c, in, decrypt) ==
    IF Len(in) = 0 THEN ResetCBC(c)
    ELSE IF Len(in) > BLOCK THEN CryptRawCBC(ResetCBC(c), in, decrypt)
    ELSE CryptRaw16(ResetCBC(c), in, decrypt)

\* TwoFishInit.  crypt and prev are not initialised, and are not read before
\* they are set; zeroes stand for what was in the memory.
NewContext == [defined |-> FALSE, plain |-> ZeroBlock, crypt |-> ZeroBlock, prev |-> ZeroBlock,
               output |-> <<>>]

=============================================================================
