---------------------------- MODULE Transforms ----------------------------
(***************************************************************************)
(* The three transforms a frame may go through on its way into a datagram  *)
(* and out of it: transform_null.c, transform_tf.c and transform_aes.c,    *)
(* their fwd and rev functions.  Which of them, and which key, an edge     *)
(* uses at what time is in Keys; here there is one key.                    *)
(*                                                                         *)
(* A cipher has a state for each direction that outlives a packet: the     *)
(* Twofish context, and the initialisation vector of AES.                  *)
(***************************************************************************)
EXTENDS Wire, Twofish

CONSTANTS
    SA,              \* number of the key: 4 bytes
    AesEncrypt(_),   \* one block through AES_encrypt of the OpenSSL library
    AesDecrypt(_)    \* and through AES_decrypt

ASSUME TransformsAssumption == SA \in [1..4 -> Byte]

\* n2n_transform_t, and transop_enum_to_index: transforms without an index
\* leave the table of the edge.
TRANSFORM == [NULL |-> 1, TWOFISH |-> 2, AESCBC |-> 3]

InTable(transform) == transform \in {TRANSFORM.NULL, TRANSFORM.TWOFISH, TRANSFORM.AESCBC}

NONCE == 4
OVERHEAD == 1 + 4      \* version and number of the key, in the clear

\* The result of a transform: its output, unless it failed with -1, and the
\* state of the cipher afterwards.
Result(ok, out, ctx) == [ok |-> ok, out |-> out, ctx |-> ctx]
Failed(ctx) == Result(FALSE, <<>>, ctx)

\* The version and the number of the key that transop_decode_X looks for.
Header == <<1>> \o SA

\* A packet too short for version, key and nonce, too long for the buffer, of
\* another version or with an unknown key.  twofish_find_sa, aes_find_sa
Undecodable(in) ==
    \/ Len(in) < OVERHEAD + NONCE
    \/ Len(in) - OVERHEAD > PktBuf
    \/ SubSeq(in, 1, OVERHEAD) # Header

\* What an encoder asks of the buffers for nonce and frame, and for its output.
Fits(frame, room) == Len(frame) + NONCE <= PktBuf /\ Len(frame) + NONCE + OVERHEAD <= room

---------------------------------------------------------------------------
(* transop_encode_null, transop_decode_null                                *)

EncodeNull(ctx, frame, room) == IF Len(frame) <= room THEN Result(TRUE, frame, ctx) ELSE Failed(ctx)
DecodeNull(ctx, in) == IF Len(in) <= PktBuf THEN Result(TRUE, in, ctx) ELSE Failed(ctx)

---------------------------------------------------------------------------
(* transop_encode_twofish, transop_decode_twofish                          *)

\* The output is the caller's buffer; the context keeps the rest.
Emptied(c) == [defined |-> c.defined, plain |-> c.plain, crypt |-> c.crypt, prev |-> c.prev,
               output |-> <<>>]
Packet(r)  == Result(TRUE, Header \o r.output, Emptied(r))
FrameOf(r) == Result(TRUE, SubSeq(r.output, NONCE + 1, Len(r.output)), Emptied(r))

EncodeTwofish(ctx, frame, nonce, room) ==
    IF ~Fits(frame, room) THEN Failed(ctx)
    ELSE Packet(CryptRaw(ctx, nonce \o frame, FALSE))

\* A packet that cannot be decoded becomes a frame of no bytes.
DecodeTwofish(ctx, in) ==
    IF Undecodable(in) THEN Result(TRUE, <<>>, ctx)
    ELSE FrameOf(CryptRaw(ctx, SubSeq(in, OVERHEAD + 1, Len(in)), TRUE))

---------------------------------------------------------------------------
(* transop_encode_aes, transop_decode_aes, with AES_cbc_encrypt of OpenSSL. *)

\* <<output, ivec>>: the vector becomes the last block of ciphertext.
CbcEncrypt(in, ivec) ==
    FoldLeft(LAMBDA acc, b : LET c == AesEncrypt(XorSeq(b, acc[2])) IN <<acc[1] \o c, c>>,
             <<<<>>, ivec>>, BlocksOf(in))

CbcDecrypt(in, ivec) ==
    FoldLeft(LAMBDA acc, b : <<acc[1] \o XorSeq(AesDecrypt(b), acc[2]), b>>,
             <<<<>>, ivec>>, BlocksOf(in))

\* memset(ivec, 0, sizeof(N2N_AES_IVEC_SIZE)): the size of an int, not of the
\* vector, is cleared.
ClearIvec(ivec) == Zeros(4) \o SubSeq(ivec, 5, BLOCK)

\* At least one byte of padding, the last of which tells how much there is; the
\* others are whatever was in the buffer, here zeroes.
Padding(len) == LET n == BLOCK - (len % BLOCK) IN Zeros(n - 1) \o <<n>>

\* The room asked for is that of Twofish: the padding is not counted, and the
\* output of a frame that passes may be longer than the room, by up to 7 bytes
\* with the sizes of the program.
EncodeAes(ivec, frame, nonce, room) ==
    IF ~Fits(frame, room) THEN Failed(ivec)
    ELSE LET text == nonce \o frame
             r    == CbcEncrypt(text \o Padding(Len(text)), ClearIvec(ivec))
         IN  Result(TRUE, Header \o r[1], r[2])

\* Padding that cannot be leaves the length as it is and the frame's buffer as
\* it was; with one key on both sides that happens to no packet that is whole,
\* nor with 2048 bytes of buffer to one that recvfrom cut off.
DecodeAes(ivec, in) ==
    LET body == SubSeq(in, OVERHEAD + 1, Len(in))
        r    == CbcDecrypt(body, ClearIvec(ivec))
        len  == Len(body) - r[1][Len(body)] - NONCE
    IN  IF Undecodable(in) \/ Len(body) % BLOCK # 0 THEN Result(TRUE, <<>>, ivec)
        ELSE IF len < 0 THEN Result(TRUE, Zeros(Len(body)), r[2])
        ELSE Result(TRUE, SubSeq(r[1], NONCE + 1, NONCE + len), r[2])

---------------------------------------------------------------------------
(* The entry of the transform in an edge's table: fwd and rev.             *)

CipherState == [tf |-> NewContext, ivec |-> Zeros(BLOCK)]

InTf(s, r)   == Result(r.ok, r.out, [s EXCEPT !.tf = r.ctx])
InIvec(s, r) == Result(r.ok, r.out, [s EXCEPT !.ivec = r.ctx])

Fwd(transform, s, frame, nonce, room) ==
    CASE transform = TRANSFORM.NULL    -> EncodeNull(s, frame, room)
      [] transform = TRANSFORM.TWOFISH -> InTf(s, EncodeTwofish(s.tf, frame, nonce, room))
      [] transform = TRANSFORM.AESCBC  -> InIvec(s, EncodeAes(s.ivec, frame, nonce, room))

Rev(transform, s, in) ==
    CASE transform = TRANSFORM.NULL    -> DecodeNull(s, in)
      [] transform = TRANSFORM.TWOFISH -> InTf(s, DecodeTwofish(s.tf, in))
      [] transform = TRANSFORM.AESCBC  -> InIvec(s, DecodeAes(s.ivec, in))

=============================================================================
