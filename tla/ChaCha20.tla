------------------------------ MODULE ChaCha20 ------------------------------
(***************************************************************************)
(* The ChaCha20 keystream: the scalar backend (src/crypto/chacha20.rs) and *)
(* the vector backends of simd/src/avx2.rs and simd/src/neon.rs.  A word   *)
(* has four bytes of two bits, so it is a number below 256; the rotations  *)
(* 16, 12, 8 and 7 become 4, 3, 2 and 1: two bytes, a byte and a half, one *)
(* byte, one byte less a bit.  Lengths are those of the code.              *)
(***************************************************************************)
EXTENDS Integers, Sequences, SequencesExt

CONSTANTS DOUBLE_ROUNDS,   \* 10
          SIGMA            \* the four constant words

Word == 256

bits(a, b, k) == IF (a \div k) % 2 = (b \div k) % 2 THEN 0 ELSE k
XorTable ==
  [a \in 0 .. 15 |-> [b \in 0 .. 15 |->
     bits(a, b, 1) + bits(a, b, 2) + bits(a, b, 4) + bits(a, b, 8)]]
xor(a, b) ==
  16 * XorTable[a \div 16][b \div 16] + XorTable[a % 16][b % 16]

plus(a, b) == (a + b) % Word

\* u32::rotate_left, and the same as two shifts (AVX2) or a shift and an insert
\* (NEON).
rotl(w, n) == ((w * 2 ^ n) % Word) + w \div 2 ^ (8 - n)

bytes(w) == <<w % 4, (w \div 4) % 4, (w \div 16) % 4, w \div 64>>

\* A byte shuffle: byte i of the result is byte order[i] of the word.
shuffle(w, order) ==
  LET b == bytes(w)
  IN  b[order[1]] + 4 * b[order[2]] + 16 * b[order[3]] + 64 * b[order[4]]

-----------------------------------------------------------------------------
(* Words and vectors of words: what a backend adds, mixes and rotates *)

mix_word(d, a, n) == rotl(xor(d, a), n)

\* Four lanes.
splat4(w) == <<w, w, w, w>>
count4(ctr) == <<ctr % Word, (ctr + 1) % Word, (ctr + 2) % Word, (ctr + 3) % Word>>
sum4(a, b) == <<plus(a[1], b[1]), plus(a[2], b[2]), plus(a[3], b[3]), plus(a[4], b[4])>>

\* AVX2 rotates by whole bytes with pshufb, NEON by reversing the half-words and
\* with a table; both shift for the rest.
rotl_avx2(w, n) ==
  CASE n = 4 -> shuffle(w, <<3, 4, 1, 2>>)
    [] n = 2 -> shuffle(w, <<4, 1, 2, 3>>)
    [] OTHER -> rotl(w, n)
rotl_neon(w, n) ==
  CASE n = 4 -> 16 * (w % 16) + w \div 16
    [] n = 2 -> shuffle(w, <<4, 1, 2, 3>>)
    [] OTHER -> rotl(w, n)

mix4_avx2(d, a, n) ==
  <<rotl_avx2(xor(d[1], a[1]), n), rotl_avx2(xor(d[2], a[2]), n),
    rotl_avx2(xor(d[3], a[3]), n), rotl_avx2(xor(d[4], a[4]), n)>>
mix4_neon(d, a, n) ==
  <<rotl_neon(xor(d[1], a[1]), n), rotl_neon(xor(d[2], a[2]), n),
    rotl_neon(xor(d[3], a[3]), n), rotl_neon(xor(d[4], a[4]), n)>>

\* Eight lanes: two halves of four, which no shuffle crosses.
lo(v) == v[1]
hi(v) == v[2]
splat8(w) == <<splat4(w), splat4(w)>>
sum8(a, b) == <<sum4(lo(a), lo(b)), sum4(hi(a), hi(b))>>
mix8(d, a, n) == <<mix4_avx2(lo(d), lo(a), n), mix4_avx2(hi(d), hi(a), n)>>

-----------------------------------------------------------------------------
(* The permutation of every backend *)

Words == INSTANCE ChaChaPermute WITH sum <- plus, mix <- mix_word
Avx2Lanes == INSTANCE ChaChaPermute WITH sum <- sum4, mix <- mix4_avx2
NeonLanes == INSTANCE ChaChaPermute WITH sum <- sum4, mix <- mix4_neon
Avx2x8Lanes == INSTANCE ChaChaPermute WITH sum <- sum8, mix <- mix8

-----------------------------------------------------------------------------
(* Blocks *)

\* Sixteen words, the permutation added to the state it started from.
block(key, ctr, nonce) ==
  LET state  == SIGMA \o key \o <<ctr>> \o nonce
      worked == Words!permute(state)
  IN  [i \in 1 .. 16 |-> plus(worked[i], state[i])]

\* The state: every word in all lanes, the counters one apart.
state4(key, nonce, ctr) ==
  LET w == SIGMA \o key
  IN  <<splat4(w[1]), splat4(w[2]), splat4(w[3]), splat4(w[4]),
        splat4(w[5]), splat4(w[6]), splat4(w[7]), splat4(w[8]),
        splat4(w[9]), splat4(w[10]), splat4(w[11]), splat4(w[12]),
        count4(ctr), splat4(nonce[1]), splat4(nonce[2]), splat4(nonce[3])>>

unpacklo32(a, b) == <<a[1], b[1], a[2], b[2]>>
unpackhi32(a, b) == <<a[3], b[3], a[4], b[4]>>
unpacklo64(a, b) == <<a[1], a[2], b[1], b[2]>>
unpackhi64(a, b) == <<a[3], a[4], b[3], b[4]>>

transpose4_avx2(a, b, c, d) ==
  LET t0 == unpacklo32(a, b)
      t1 == unpacklo32(c, d)
      t2 == unpackhi32(a, b)
      t3 == unpackhi32(c, d)
  IN  <<unpacklo64(t0, t1), unpackhi64(t0, t1), unpacklo64(t2, t3), unpackhi64(t2, t3)>>

trn1(a, b) == <<a[1], b[1], a[3], b[3]>>
trn2(a, b) == <<a[2], b[2], a[4], b[4]>>

transpose4_neon(a, b, c, d) ==
  <<unpacklo64(trn1(a, b), trn1(c, d)), unpacklo64(trn2(a, b), trn2(c, d)),
    unpackhi64(trn1(a, b), trn1(c, d)), unpackhi64(trn2(a, b), trn2(c, d))>>

\* The stores: row r of every group of four, for the blocks r in turn.
store4(g1, g2, g3, g4) ==
  LET blk(r) == g1[r] \o g2[r] \o g3[r] \o g4[r]
  IN  blk(1) \o blk(2) \o blk(3) \o blk(4)

\* Feed-forward, transposition and stores.
emit4_avx2(x, s) ==
  LET y(i) == sum4(x[i], s[i])
      group(g) == transpose4_avx2(y(4 * g + 1), y(4 * g + 2), y(4 * g + 3), y(4 * g + 4))
  IN  store4(group(0), group(1), group(2), group(3))
emit4_neon(x, s) ==
  LET y(i) == sum4(x[i], s[i])
      group(g) == transpose4_neon(y(4 * g + 1), y(4 * g + 2), y(4 * g + 3), y(4 * g + 4))
  IN  store4(group(0), group(1), group(2), group(3))

four_blocks_avx2(key, nonce, ctr) ==
  LET s == state4(key, nonce, ctr) IN emit4_avx2(Avx2Lanes!permute(s), s)

four_blocks_neon(key, nonce, ctr) ==
  LET s == state4(key, nonce, ctr) IN emit4_neon(NeonLanes!permute(s), s)

state8(key, nonce, ctr) ==
  LET w == SIGMA \o key
  IN  <<splat8(w[1]), splat8(w[2]), splat8(w[3]), splat8(w[4]),
        splat8(w[5]), splat8(w[6]), splat8(w[7]), splat8(w[8]),
        splat8(w[9]), splat8(w[10]), splat8(w[11]), splat8(w[12]),
        <<count4(ctr), count4(ctr + 4)>>,
        splat8(nonce[1]), splat8(nonce[2]), splat8(nonce[3])>>

\* Transposed within the halves; blocks 0..3 come from the low halves, 4..7 from
\* the high ones.
emit8(x, s) ==
  LET y(i) == sum8(x[i], s[i])
      group(g, half(_)) ==
        transpose4_avx2(half(y(4 * g + 1)), half(y(4 * g + 2)),
                        half(y(4 * g + 3)), half(y(4 * g + 4)))
      blocks(half(_)) == store4(group(0, half), group(1, half), group(2, half), group(3, half))
  IN  blocks(lo) \o blocks(hi)

eight_blocks(key, nonce, ctr) ==
  LET s == state8(key, nonce, ctr) IN emit8(Avx2x8Lanes!permute(s), s)

\* The keystream each of them makes at a time, by counter.
ONE(key, nonce) == [c \in 0 .. (Word - 1) |-> block(key, c, nonce)]
FOUR_AVX2(key, nonce) == [c \in 0 .. (Word - 1) |-> four_blocks_avx2(key, nonce, c)]
FOUR_NEON(key, nonce) == [c \in 0 .. (Word - 1) |-> four_blocks_neon(key, nonce, c)]
EIGHT(key, nonce) == [c \in 0 .. (Word - 1) |-> eight_blocks(key, nonce, c)]

-----------------------------------------------------------------------------
(* apply_keystream *)

\* xor_tail, and the inner loop of xor_in_place: the keystream words `ks' into
\* the bytes of `buf', as far as both go.
xor_tail(buf, ks) ==
  [i \in 1 .. Len(buf) |->
     IF i > 4 * Len(ks) THEN buf[i]
       ELSE XorTable[buf[i]][bytes(ks[((i - 1) \div 4) + 1])[((i - 1) % 4) + 1]]]

\* The chunks of `size' bytes of buf, each given the keystream ks of its counter,
\* and the part that is left.
strided(ks, size, ctr, buf) ==
  LET full == Len(buf) \div size
      done[k \in 0 .. full] ==
        IF k = 0 THEN <<>>
          ELSE done[k - 1] \o
               xor_tail(SubSeq(buf, (k - 1) * size + 1, k * size),
                        ks[(ctr + (k - 1) * (size \div 64)) % Word])
  IN  [out |-> done[full], tail |-> SubSeq(buf, full * size + 1, Len(buf)),
       ctr |-> (ctr + full * (size \div 64)) % Word]

\* xor_in_place, that is Scalar::apply_keystream.
scalar_tail(key, nonce, s) == s.out \o xor_tail(s.tail, block(key, s.ctr, nonce))
Scalar(key, nonce, ctr, buf) ==
  scalar_tail(key, nonce, strided(ONE(key, nonce), 64, ctr, buf))

\* Avx2 and Neon: strides of four blocks, one more for a tail of at least a
\* block, the scalar backend for less.
four_tail(ks, key, nonce, s) ==
  s.out \o IF Len(s.tail) >= 64 THEN xor_tail(s.tail, ks[s.ctr])
                                ELSE Scalar(key, nonce, s.ctr, s.tail)
four_way(ks, key, nonce, ctr, buf) ==
  four_tail(ks, key, nonce, strided(ks, 256, ctr, buf))
Avx2(key, nonce, ctr, buf) == four_way(FOUR_AVX2(key, nonce), key, nonce, ctr, buf)
Neon(key, nonce, ctr, buf) == four_way(FOUR_NEON(key, nonce), key, nonce, ctr, buf)

\* Mutant of eight_tail: tails of up to five blocks are given four.
eight_tail_short(key, nonce, s) ==
  s.out \o CASE Len(s.tail) > 256 + 64 -> xor_tail(s.tail, eight_blocks(key, nonce, s.ctr))
             [] Len(s.tail) \in 64 .. (256 + 64) ->
                  xor_tail(s.tail, four_blocks_avx2(key, nonce, s.ctr))
             [] OTHER -> Scalar(key, nonce, s.ctr, s.tail)

\* Avx2x8: strides of eight; of a tail, eight, four or less.
eight_tail(key, nonce, s) ==
  s.out \o CASE Len(s.tail) >= 256 -> xor_tail(s.tail, eight_blocks(key, nonce, s.ctr))
             [] Len(s.tail) \in 64 .. 255 ->
                  xor_tail(s.tail, four_blocks_avx2(key, nonce, s.ctr))
             [] OTHER -> Scalar(key, nonce, s.ctr, s.tail)

Avx2x8(key, nonce, ctr, buf) ==
  eight_tail(key, nonce, strided(EIGHT(key, nonce), 512, ctr, buf))

-----------------------------------------------------------------------------
\* Every backend is byte-identical to the scalar one, for every length of the
\* tail and when the block counter wraps inside a stride (the contract of
\* ChaChaImpl).
BackendsAgree(key, nonce, ctr, buf) ==
  LET expected == Scalar(key, nonce, ctr, buf)
  IN  /\ Avx2(key, nonce, ctr, buf) = expected
      /\ Avx2x8(key, nonce, ctr, buf) = expected
      /\ Neon(key, nonce, ctr, buf) = expected

=============================================================================
