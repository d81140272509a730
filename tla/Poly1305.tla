------------------------------ MODULE Poly1305 ------------------------------
(***************************************************************************)
(* The streaming Poly1305 authenticator (src/crypto/poly1305.rs): five     *)
(* limbs of W bits (26 in the code), blocks of BLOCK bytes of BYTE values  *)
(* that fill 5W - 2 bits (16 bytes, 128 bits).  The sums and products of   *)
(* the code stay inside its 64-bit words, so they are sums and products of *)
(* numbers here.                                                           *)
(***************************************************************************)
EXTENDS Integers, Sequences, SequencesExt

CONSTANTS W, BLOCK, BYTE

LimbSize == 2 ^ W
P == LimbSize ^ 5 - 5
TagSpace == BYTE ^ BLOCK

\* The little-endian number of a sequence of bytes.
number(bytes) ==
  LET n[k \in 1 .. (Len(bytes) + 1)] ==
        IF k > Len(bytes) THEN 0 ELSE bytes[k] + BYTE * n[k + 1]
  IN  n[1]

\* The five limbs of a number, least significant first.
limbs(n) ==
  <<n % LimbSize, (n \div LimbSize) % LimbSize, (n \div LimbSize ^ 2) % LimbSize,
    (n \div LimbSize ^ 3) % LimbSize, n \div LimbSize ^ 4>>

\* Poly1305::new, for an already clamped r.
new(r, s) == [r |-> limbs(r), h |-> limbs(0), pad |-> s, buf |-> <<>>]

-----------------------------------------------------------------------------
(* process_block *)

\* The I-th column of h * r: limbs that would land above the fifth come back
\* five times (2^130 = 5).
column(h, r, i) ==
  LET term(j) == IF j <= i THEN h[j] * r[i - j + 1] ELSE h[j] * (5 * r[6 + i - j])
  IN  term(1) + term(2) + term(3) + term(4) + term(5)

\* The sums of d and the carries of its lower limbs, from limb I upwards.
carried(d, i) ==
  LET up(j, below) == IF j <= i THEN d[j] ELSE d[j] + below \div LimbSize
      t2 == up(2, d[1])
      t3 == up(3, t2)
      t4 == up(4, t3)
  IN  <<d[1], t2, t3, t4, up(5, t4)>>

\* The carry chain from limb I to the last, whose carry folds into the first,
\* and one more carry from there.
carry_from(d, i) ==
  LET t == carried(d, i)
      low(j) == IF j < i THEN t[j] ELSE t[j] % LimbSize
      first == low(1) + 5 * (t[5] \div LimbSize)
  IN  <<first % LimbSize, low(2) + first \div LimbSize, low(3), low(4), low(5)>>

\* `hibit' is added to the last limb, just above the block: HIBIT, or 0.
process_block(p, block, hibit) ==
  LET n == limbs(number(block))
      h == <<p.h[1] + n[1], p.h[2] + n[2], p.h[3] + n[3], p.h[4] + n[4],
             p.h[5] + n[5] + hibit>>
      d == <<column(h, p.r, 1), column(h, p.r, 2), column(h, p.r, 3),
             column(h, p.r, 4), column(h, p.r, 5)>>
  IN  [p EXCEPT !.h = carry_from(d, 1)]

HIBIT == LimbSize \div 4

-----------------------------------------------------------------------------
\* Mutant of update: a block completed by topping up is not absorbed.
update_dropped(p, data) ==
  LET take == IF p.buf = <<>> THEN 0
                ELSE IF BLOCK - Len(p.buf) <= Len(data) THEN BLOCK - Len(p.buf)
                ELSE Len(data)
      rest == SubSeq(data, take + 1, Len(data))
      full == Len(rest) \div BLOCK
      piece(k) == SubSeq(rest, (k - 1) * BLOCK + 1, k * BLOCK)
      absorbed[k \in 0 .. full] ==
        IF k = 0 THEN p ELSE process_block(absorbed[k - 1], piece(k), HIBIT)
  IN  IF p.buf # <<>> /\ Len(p.buf) + take < BLOCK
        THEN [p EXCEPT !.buf = @ \o SubSeq(data, 1, take)]
        ELSE [absorbed[full] EXCEPT !.buf = SubSeq(rest, full * BLOCK + 1, Len(rest))]

\* update: top up a partial block first, absorb whole blocks, stash the tail.
update(p, data) ==
  LET take == IF p.buf = <<>> THEN 0
                ELSE IF BLOCK - Len(p.buf) <= Len(data) THEN BLOCK - Len(p.buf)
                ELSE Len(data)
      topped == p.buf \o SubSeq(data, 1, take)
      rest == SubSeq(data, take + 1, Len(data))
      full == Len(rest) \div BLOCK
      piece(k) == SubSeq(rest, (k - 1) * BLOCK + 1, k * BLOCK)
      q == IF p.buf = <<>> THEN p ELSE process_block(p, topped, HIBIT)
      absorbed[k \in 0 .. full] ==
        IF k = 0 THEN q ELSE process_block(absorbed[k - 1], piece(k), HIBIT)
  IN  IF p.buf # <<>> /\ Len(topped) < BLOCK
        THEN [p EXCEPT !.buf = topped]
        ELSE [absorbed[full] EXCEPT !.buf = SubSeq(rest, full * BLOCK + 1, Len(rest))]

zeros(n) == [i \in 1 .. n |-> 0]

\* update_padded: then zeros up to the block boundary.
update_padded(p, data) ==
  LET rem == Len(data) % BLOCK
      q == update(p, data)
  IN  IF rem = 0 THEN q ELSE update(q, zeros(BLOCK - rem))

-----------------------------------------------------------------------------
(* finalize *)

\* The last partial block: a one, zeros, and no high bit.
last_block(p) ==
  IF p.buf = <<>> THEN p
    ELSE process_block(p, p.buf \o <<1>> \o zeros(BLOCK - Len(p.buf) - 1), 0)

\* Repacking ORs the shifted limbs, so bits that overlap would be lost.
pack(h) ==
  LET bit(k) == \E i \in 0 .. 4 :
                  k >= W * i /\ (h[i + 1] \div 2 ^ (k - W * i)) % 2 = 1
      upto[k \in 0 .. (5 * W - 2)] ==
        IF k = 0 THEN 0 ELSE (IF bit(k - 1) THEN 2 ^ (k - 1) ELSE 0) + upto[k - 1]
  IN  upto[5 * W - 2]

\* g = h + 5 - 2^130, taken instead of h when it is not negative.
reduce(h) ==
  LET g == carried([h EXCEPT ![1] = @ + 5], 1)
  IN  IF g[5] >= LimbSize THEN [j \in 1 .. 5 |-> g[j] % LimbSize] ELSE h

finalize(p) ==
  (pack(reduce(carry_from(last_block(p).h, 2))) + p.pad) % TagSpace

-----------------------------------------------------------------------------
(* The reference: RFC 8439, section 2.5, over plain numbers *)

\* a * b % P by the bits of b, to stay within the checker's integers.
TimesModP(a, b) ==
  LET horner[k \in 0 .. (5 * W)] ==
        IF k = 5 * W THEN 0
          ELSE (a * ((b \div 2 ^ k) % 2) + ((2 * horner[k + 1]) % P)) % P
  IN  horner[0]

Tag(r, s, message) ==
  LET n == (Len(message) + BLOCK - 1) \div BLOCK
      last(k) == IF k * BLOCK <= Len(message) THEN k * BLOCK ELSE Len(message)
      coefficient(k) == number(SubSeq(message, (k - 1) * BLOCK + 1, last(k)) \o <<1>>)
      h[k \in 0 .. n] ==
        IF k = 0 THEN 0 ELSE TimesModP((h[k - 1] + coefficient(k)) % P, r)
  IN  ((h[n] % TagSpace) + s) % TagSpace

\* However the message is cut into updates, the limb arithmetic gives the tag
\* of the definition: partial blocks are topped up at every boundary, carries
\* fold back, and the one final subtraction of p is enough.
TagCorrect(r, s, chunks) ==
  finalize(FoldLeft(update, new(r, s), chunks)) = Tag(r, s, FlattenSeq(chunks))

=============================================================================
