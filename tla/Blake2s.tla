------------------------------ MODULE Blake2s -------------------------------
(***************************************************************************)
(* Streaming BLAKE2s (src/crypto/blake2s.rs).  The compression function is *)
(* free of collisions: its result is the record of its arguments.          *)
(***************************************************************************)
EXTENDS Integers, Sequences, SequencesExt, FiniteSetsExt

CONSTANTS BLOCK,   \* 64
          DIGEST   \* 32, the digest and the longest key

zeros(n) == [i \in 1 .. n |-> 0]
compress(h, block, t, last) == [h |-> h, block |-> block, t |-> t, last |-> last]

\* Core::new: the lengths go into the state, and a key is a block of its own,
\* buffered and not compressed yet.
new(out_len, key) ==
  [h |-> [out_len |-> out_len, key_len |-> Len(key)], t |-> 0,
   buf |-> key \o zeros(BLOCK - Len(key)),
   buf_len |-> IF key = <<>> THEN 0 ELSE BLOCK]

\* Copies what fits behind the buffered bytes; the rest of the buffer keeps what
\* earlier blocks left there.
fill(core, data) ==
  LET take == Min({BLOCK - core.buf_len, Len(data)})
      end  == core.buf_len + take
  IN  [core EXCEPT !.buf = SubSeq(@, 1, core.buf_len) \o SubSeq(data, 1, take)
                             \o SubSeq(@, end + 1, BLOCK),
                   !.buf_len = end]
flush(core) ==
  [core EXCEPT !.h = compress(@, core.buf, core.t + BLOCK, FALSE),
               !.t = @ + BLOCK, !.buf_len = 0]

\* A full block is compressed once more input follows, never before.  Each turn
\* of the loop takes what fits.
update(core, data) ==
  LET room(c) == IF c.buf_len = BLOCK THEN flush(c) ELSE c
      turn(r) ==
        LET c == room(r.core)
        IN  [core |-> fill(c, r.data),
             data |-> SubSeq(r.data, BLOCK - c.buf_len + 1, Len(r.data))]
      turns == (Len(data) \div BLOCK) + 2
      loop[k \in 0 .. turns] ==
        IF k = 0 THEN [core |-> core, data |-> data]
          ELSE LET r == loop[k - 1] IN IF r.data = <<>> THEN r ELSE turn(r)
  IN  loop[turns].core

\* Mutant of finalize: the rest of the buffer is not cleared.
finalize_stale(core) == compress(core.h, core.buf, core.t + core.buf_len, TRUE)

finalize(core) ==
  compress(core.h, SubSeq(core.buf, 1, core.buf_len) \o zeros(BLOCK - core.buf_len),
           core.t + core.buf_len, TRUE)

\* The bytes of a digest, the first n of them.
digest(h, n) == [i \in 1 .. n |-> <<h, i>>]

absorb(core, parts) == FoldLeft(update, core, parts)

\* hash and mac: one-shot forms of Blake2s256 and Blake2sMac.
hash(parts) == digest(finalize(absorb(new(DIGEST, <<>>), parts)), DIGEST)
mac(key, parts) ==
  LET short == IF Len(key) > DIGEST THEN hash(<<key>>) ELSE key
  IN  digest(finalize(absorb(new(DIGEST \div 2, short), parts)), DIGEST \div 2)

-----------------------------------------------------------------------------
\* The chain of compressions RFC 7693 prescribes for a message as a whole: every
\* block but the last is full, t counts the bytes up to its end, and the last
\* one, and only that, is flagged.
Reference(out_len, key, message) ==
  LET d == (IF key = <<>> THEN <<>> ELSE key \o zeros(BLOCK - Len(key))) \o message
      n == IF d = <<>> THEN 1 ELSE ((Len(d) - 1) \div BLOCK) + 1
      whole == d \o zeros(n * BLOCK - Len(d))
      h[k \in 0 .. n] ==
        IF k = 0 THEN [out_len |-> out_len, key_len |-> Len(key)]
          ELSE compress(h[k - 1], SubSeq(whole, (k - 1) * BLOCK + 1, k * BLOCK),
                        IF k = n THEN Len(d) ELSE k * BLOCK, k = n)
  IN  h[n]

\* A digest depends on the concatenation of its parts and not on where they
\* were cut: a block boundary at the end of a part is not taken for the end of
\* the message, and nothing of an earlier block stays in the buffer.
DigestOfMessage(key, parts) ==
  LET short == IF Len(key) > DIGEST
                 THEN digest(Reference(DIGEST, <<>>, key), DIGEST) ELSE key
  IN  /\ hash(parts) = digest(Reference(DIGEST, <<>>, FlattenSeq(parts)), DIGEST)
      /\ mac(key, parts) =
           digest(Reference(DIGEST \div 2, short, FlattenSeq(parts)), DIGEST \div 2)

=============================================================================
