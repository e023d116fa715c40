------------------------------- MODULE Octets -------------------------------
(***************************************************************************)
(* Bytes, sequences of bytes, and the words of four bytes that Twofish     *)
(* calculates with.                                                        *)
(***************************************************************************)
EXTENDS Integers, Sequences

Byte == 0..255
IsBytes(x, n) == n \in Nat /\ x \in Seq(Byte) /\ Len(x) = n

\* XOR bit by bit, by a table for half bytes.
Differs(a, b, bit) == IF (a \div bit) % 2 = (b \div bit) % 2 THEN 0 ELSE bit
NibbleXor == [a \in 0..15 |-> [b \in 0..15 |->
                  Differs(a, b, 8) + Differs(a, b, 4) + Differs(a, b, 2) + Differs(a, b, 1)]]

XorByte(a, b) == 16 * NibbleXor[a \div 16][b \div 16]
                     + NibbleXor[a % 16][b % 16]

XorSeq(s, t) == [i \in DOMAIN s |-> XorByte(s[i], t[i])]

---------------------------------------------------------------------------
(* Words modulo 2^32.                                                      *)

XorWord(a, b) == <<XorByte(a[1], b[1]), XorByte(a[2], b[2]), XorByte(a[3], b[3]), XorByte(a[4], b[4])>>

\* The sum of two words by halves, each of 16 bits.
Half(w, i) == w[i] + 256 * w[i + 1]
OfHalves(low, high) ==
    <<low % 256, (low \div 256) % 256, high % 256, (high \div 256) % 256>>

Plus(a, b) ==
    OfHalves(Half(a, 1) + Half(b, 1),
             Half(a, 3) + Half(b, 3) + ((Half(a, 1) + Half(b, 1)) \div 65536))

\* By one bit: byte i, with the bit that comes in from byte j.
RotateLeft(w) ==
    [i \in 1..4 |-> ((2 * w[i]) % 256) + (w[IF i = 1 THEN 4 ELSE i - 1] \div 128)]

RotateRight(w) ==
    [i \in 1..4 |-> (w[i] \div 2) + 128 * (w[IF i = 4 THEN 1 ELSE i + 1] % 2)]

=============================================================================
