-------------------------------- MODULE Kdf ---------------------------------
(***************************************************************************)
(* HMAC over BLAKE2s and the key derivations (src/crypto/kdf.rs).          *)
(***************************************************************************)
EXTENDS Integers, Sequences

CONSTANTS BLOCK,     \* 64
          hash(_)    \* the digest of a sequence of parts (Blake2s!hash)

zeros(n) == [i \in 1 .. n |-> 0]

hmac(key, parts) ==
  LET short == IF Len(key) > BLOCK THEN hash(<<key>>) ELSE key
      k_block == short \o zeros(BLOCK - Len(short))
      pad(c) == [i \in 1 .. BLOCK |-> <<"xor", c, k_block[i]>>]
  IN  hash(<<pad("opad"), hash(<<pad("ipad")>> \o parts)>>)

kdf1(key, input) == hmac(hmac(key, <<input>>), << <<1>> >>)

\* Mutant of kdf2: the second output is not chained to the first.
kdf2_unchained(key, input) ==
  LET t0 == hmac(key, <<input>>)
  IN  <<hmac(t0, << <<1>> >>), hmac(t0, << <<2>> >>)>>

kdf2(key, input) ==
  LET t0 == hmac(key, <<input>>)
      t1 == hmac(t0, << <<1>> >>)
  IN  <<t1, hmac(t0, <<t1, <<2>> >>)>>

kdf3(key, input) ==
  LET t0 == hmac(key, <<input>>)
      t1 == hmac(t0, << <<1>> >>)
      t2 == hmac(t0, <<t1, <<2>> >>)
  IN  <<t1, t2, hmac(t0, <<t2, <<3>> >>)>>

-----------------------------------------------------------------------------
\* What the handshake takes for granted (NoiseTerms!kdf): an output is named by
\* key, input and number.  The same number is the same output in all three
\* derivations, and outputs of other numbers, inputs or keys of the same length
\* are other values, whatever the bytes that go before the number are.
KdfSeparates(key, input, key2, input2) ==
  LET k == kdf3(key, input)
      k2 == kdf3(key2, input2)
  IN  /\ kdf1(key, input) = k[1] /\ kdf2(key, input) = <<k[1], k[2]>>
      /\ \A i, j \in 1 .. 3 :
           k[i] = k2[j] => i = j /\ key = key2 /\ input = input2

=============================================================================
