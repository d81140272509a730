------------------------------- MODULE Aead ---------------------------------
(***************************************************************************)
(* ChaCha20-Poly1305 and XChaCha20-Poly1305 over caller-supplied buffers   *)
(* (src/crypto/aead.rs).  Cipher and authenticator are perfect here: a     *)
(* byte under the keystream carries the names of the pads on it, and a tag *)
(* byte is named by what was absorbed under which one-time key.            *)
(***************************************************************************)
EXTENDS Integers, Sequences

CONSTANTS TAG_LEN, BLOCK   \* 16 both; BLOCK is what the authenticator takes at a time

\* A byte, and the keystream bytes it was XORed with an odd number of times.
Plain(b) == [byte |-> b, pads |-> {}]

xored(cell, pad) ==
  [cell EXCEPT !.pads = (@ \ {pad}) \cup ({pad} \ @)]

\* ChaChaImpl::apply_keystream, from block `counter' of the keystream, whose
\* blocks are of 64 bytes.
KEYSTREAM_BLOCK == 64
apply_keystream(key, nonce, counter, buf) ==
  [i \in 1 .. Len(buf) |->
     xored(buf[i], <<key, nonce, counter + (i - 1) \div KEYSTREAM_BLOCK, i>>)]

\* The first bytes of block 0 key the authenticator.
poly_key(key, nonce) == <<key, nonce, 0>>

padded(data) ==
  LET rem == Len(data) % BLOCK
  IN  IF rem = 0 THEN data ELSE data \o [i \in 1 .. (BLOCK - rem) |-> Plain(0)]

\* Mutant of compute_tag: the lengths are not absorbed.
compute_tag_unsized(otk, aad, ciphertext) ==
  LET mac == <<otk, padded(aad) \o padded(ciphertext)>>
  IN  [i \in 1 .. TAG_LEN |-> xored(Plain(0), <<mac, i>>)]

\* Both parts padded to whole blocks, then their lengths.
compute_tag(otk, aad, ciphertext) ==
  LET mac == <<otk, padded(aad) \o padded(ciphertext)
                      \o <<Plain(Len(aad)), Plain(Len(ciphertext))>> >>
  IN  [i \in 1 .. TAG_LEN |-> xored(Plain(0), <<mac, i>>)]

Ok(n, out) == [res |-> "Ok", len |-> n, out |-> out]
Err(e, out) == [res |-> e, len |-> 0, out |-> out]

\* The buffer with its first bytes replaced.
over(out, data) == data \o SubSeq(out, Len(data) + 1, Len(out))

-----------------------------------------------------------------------------
seal_with(key, nonce, aad, plaintext, out) ==
  LET total == Len(plaintext) + TAG_LEN
      ct == apply_keystream(key, nonce, 1, plaintext)
  IN  IF total > Len(out) THEN Err("BufferTooSmall", out)
        ELSE Ok(total, over(out, ct \o compute_tag(poly_key(key, nonce), aad, ct)))

\* Mutant of seal_in_place_with: the tag is taken before the encryption.
seal_in_place_with_early(key, nonce, aad, pt_len, buf) ==
  LET total == pt_len + TAG_LEN
      pt == SubSeq(buf, 1, pt_len)
  IN  IF total > Len(buf) THEN Err("BufferTooSmall", buf)
        ELSE Ok(total, over(buf, apply_keystream(key, nonce, 1, pt)
                                   \o compute_tag(poly_key(key, nonce), aad, pt)))

\* The plaintext is staged in the buffer already.
seal_in_place_with(key, nonce, aad, pt_len, buf) ==
  LET total == pt_len + TAG_LEN
      ct == apply_keystream(key, nonce, 1, SubSeq(buf, 1, pt_len))
  IN  IF total > Len(buf) THEN Err("BufferTooSmall", buf)
        ELSE Ok(total, over(buf, ct \o compute_tag(poly_key(key, nonce), aad, ct)))

\* Too short, then too large for the output, then the tag, and only then the
\* plaintext.
open_with(key, nonce, aad, sealed, out) ==
  LET ct_len == Len(sealed) - TAG_LEN
      ct  == SubSeq(sealed, 1, ct_len)
      tag == SubSeq(sealed, ct_len + 1, Len(sealed))
  IN  IF ct_len < 0 THEN Err("AuthFailure", out)
      ELSE IF ct_len > Len(out) THEN Err("BufferTooSmall", out)
      ELSE IF compute_tag(poly_key(key, nonce), aad, ct) # tag THEN Err("AuthFailure", out)
      ELSE Ok(ct_len, over(out, apply_keystream(key, nonce, 1, ct)))

\* A nonce of two parts: the first makes the subkey, the second the nonce.
xchacha_derive(key, nonce) == [key |-> <<"hchacha20", key, nonce[1]>>, nonce |-> <<0, nonce[2]>>]

xseal(key, nonce, aad, plaintext, out) ==
  LET d == xchacha_derive(key, nonce) IN seal_with(d.key, d.nonce, aad, plaintext, out)

xopen(key, nonce, aad, sealed, out) ==
  LET d == xchacha_derive(key, nonce) IN open_with(d.key, d.nonce, aad, sealed, out)

-----------------------------------------------------------------------------
\* What is sealed opens to the plaintext, in every variant: in place or copied,
\* with the extended nonce, with room to spare or none.  Bytes of the buffer
\* beyond the result are not touched, no data is encrypted under the block that
\* keys the authenticator, and a buffer that is too small is left alone, the
\* plaintext staged in it for sealing in place included.
SealedOpens(key, nonce, aad, pt, out) ==
  LET s  == seal_with(key, nonce, aad, pt, out)
      x  == xseal(key, <<nonce, nonce>>, aad, pt, out)
      in_place == seal_in_place_with(key, nonce, aad, Len(pt), over(out, pt))
      message(r) == SubSeq(r.out, 1, r.len)
  IN  IF Len(pt) + TAG_LEN > Len(out)
        THEN /\ s = Err("BufferTooSmall", out) /\ x = s
             /\ in_place = Err("BufferTooSmall", over(out, pt))
        ELSE /\ open_with(key, nonce, aad, message(s), out) = Ok(Len(pt), over(out, pt))
             /\ xopen(key, <<nonce, nonce>>, aad, message(x), out) = Ok(Len(pt), over(out, pt))
             /\ in_place = s
             /\ SubSeq(s.out, s.len + 1, Len(out)) = SubSeq(out, s.len + 1, Len(out))
             /\ \A i \in 1 .. Len(pt) : \A p \in s.out[i].pads : p[3] # 0

\* Nothing else opens: another key, nonce or additional data, a byte changed,
\* moved between the additional data and the ciphertext, cut off or appended.
\* The output is then as it was.
TamperedRefused(key, nonce, aad, pt, out) ==
  LET s == seal_with(key, nonce, aad, pt, out)
      message == SubSeq(s.out, 1, s.len)
      n == Len(message)
      flipped(i) == [message EXCEPT ![i] = xored(@, <<"flip">>)]
      refused(k, c, a, m) == open_with(k, c, a, m, out) = Err("AuthFailure", out)
  IN  s.res = "Ok" =>
        /\ refused(key \o <<"other">>, nonce, aad, message)
        /\ refused(key, nonce \o <<"other">>, aad, message)
        /\ refused(key, nonce, aad \o <<Plain(0)>>, message)
        /\ aad # <<>> => refused(key, nonce, SubSeq(aad, 1, Len(aad) - 1), message)
        /\ \A i \in 1 .. n : refused(key, nonce, aad, flipped(i))
        /\ \A i \in 0 .. (n - 1) : refused(key, nonce, aad, SubSeq(message, 1, i))
        /\ n < Len(out) + TAG_LEN => refused(key, nonce, aad, message \o <<Plain(0)>>)
        /\ \A i \in 1 .. Len(pt) :
             refused(key, nonce, aad \o SubSeq(message, 1, i), SubSeq(message, i + 1, n))

=============================================================================
