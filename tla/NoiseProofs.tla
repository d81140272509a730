---------------------------- MODULE NoiseProofs -----------------------------
(***************************************************************************)
(* The handshake and its key derivations, for all keys and inputs: the two *)
(* sides end with the same keys and with nobody else's, and derivations    *)
(* meet only on equal inputs.  MCPrimitives checks the same of small ones. *)
(***************************************************************************)
EXTENDS NoiseCalls, SequenceTheorems, TLAPS

-----------------------------------------------------------------------------
(* The handshake *)

\* Hashes are free terms: equal ones have equal parts.
LEMMA HashFree ==
  ASSUME NEW h, NEW x, NEW g, NEW y
  PROVE  Terms!hash(h, x) = Terms!hash(g, y) <=> h = g /\ x = y
  BY DEF Terms!hash

\* So are the outputs of the key derivations.
LEMMA KdfFree ==
  ASSUME NEW c, NEW x, NEW i, NEW d, NEW y, NEW j
  PROVE  Terms!kdf(c, x, i) = Terms!kdf(d, y, j) <=> c = d /\ x = y /\ i = j
  BY DEF Terms!kdf

\* A public key names its secret and is not of low order; the secret of a
\* Diffie-Hellman exchange names the two secrets.
LEMMA PublicFree ==
  ASSUME NEW s, NEW t
  PROVE  /\ Terms!x25519_base(s) = Terms!x25519_base(t) <=> s = t
         /\ Terms!x25519_base(s) # Terms!LowOrder
         /\ Terms!dh(t, Terms!x25519_base(s)) = {t, s}
<1>1. Terms!x25519_base(s) = Terms!x25519_base(t) <=> s = t
  BY DEF Terms!x25519_base
<1>2. Len(<<"pub", s>>) = 2 /\ Len(<<"low-order">>) = 1
  OBVIOUS
<1>3. Terms!x25519_base(s) # Terms!LowOrder
  BY <1>2 DEF Terms!x25519_base, Terms!LowOrder
<1>4. Terms!dh(t, Terms!x25519_base(s)) = {t, s}
  BY DEF Terms!x25519_base, Terms!dh
<1> QED BY <1>1, <1>3, <1>4

\* A ciphertext opens under its own key and transcript, to its plaintext.
LEMMA SealedTerm ==
  ASSUME NEW k, NEW h, NEW j, NEW g, NEW x
  PROVE  /\ Terms!opens(k, h, Terms!seal(j, g, x)) <=> k = j /\ h = g
         /\ Terms!seal(j, g, x)[4] = x
<1>1. Terms!seal(j, g, x)[4] = x
  BY DEF Terms!seal
<1>2. Terms!seal(j, g, x) = Terms!seal(k, h, x) <=> k = j /\ h = g
  BY DEF Terms!seal
<1> QED BY <1>1, <1>2 DEF Terms!opens

\* The transcript of an initiation by the static secret s, for the static secret
\* t, with the ephemeral e: chaining keys, hashes and the two ciphertexts.
ChainKey(e) == Terms!kdf(Terms!ck0, Terms!x25519_base(e), 1)
HashTo(t, e) ==
  Terms!hash(Terms!hash(Terms!h0, Terms!x25519_base(t)), Terms!x25519_base(e))
SealedStatic(s, t, e) ==
  Terms!seal(Terms!kdf(ChainKey(e), {e, t}, 2), HashTo(t, e), Terms!x25519_base(s))
HashStatic(s, t, e) == Terms!hash(HashTo(t, e), SealedStatic(s, t, e))
ChainStatic(t, e) == Terms!kdf(ChainKey(e), {e, t}, 1)
SealedTime(s, t, e, time) ==
  Terms!seal(Terms!kdf(ChainStatic(t, e), {s, t}, 2), HashStatic(s, t, e), time)
ChainEnd(s, t, e) == Terms!kdf(ChainStatic(t, e), {s, t}, 1)
HashEnd(s, t, e, time) == Terms!hash(HashStatic(s, t, e), SealedTime(s, t, e, time))

\* create_initiation of a party whose peer is not of low order.
LEMMA Created ==
  ASSUME NEW me, NEW t, me.peer = Terms!x25519_base(t), NEW index, NEW e, NEW time
  PROVE  Terms!create_initiation(me, index, e, time) =
           [res |-> "Ok",
            msg |-> [sender_index |-> index, ephemeral |-> Terms!x25519_base(e),
                     encrypted_static |-> SealedStatic(me.static, t, e),
                     encrypted_timestamp |-> SealedTime(me.static, t, e, time)],
            inflight |-> [local_index |-> index, eph_secret |-> e,
                          chain |-> ChainEnd(me.static, t, e),
                          hash |-> HashEnd(me.static, t, e, time)]]
<1>1. me.peer # Terms!LowOrder /\ \A s : Terms!dh(s, me.peer) = {s, t}
  BY PublicFree
<1>2. Terms!initiator_start(me.peer, Terms!x25519_base(e)) = [ck |-> ChainKey(e), h |-> HashTo(t, e)]
  BY DEF Terms!initiator_start, ChainKey, HashTo
<1>3. [ck |-> ChainKey(e), h |-> HashTo(t, e)].ck = ChainKey(e)
      /\ [ck |-> ChainKey(e), h |-> HashTo(t, e)].h = HashTo(t, e)
  OBVIOUS
<1> QED
  BY <1>1, <1>2, <1>3, Zenon DEF Terms!create_initiation, Terms!precomputed_ss, SealedStatic,
     HashStatic, ChainStatic, SealedTime, ChainEnd, HashEnd

\* Of a message whose parts have the ephemerals e1, e2 and e3, a party with the
\* peer q accepts exactly parts of one initiation, by that peer and for itself.
Accepts(me, q, msg, s, t, e1, e2, e3, time) ==
  LET c == Terms!consume_initiation(me, msg)
  IN  /\ c.res = "Ok" <=> e1 = e2 /\ e1 = e3 /\ t = me.static /\ s = q
      /\ c.res = "UnknownPeer" => s # q
      /\ c.res = "Ok" =>
           c = [res |-> "Ok", peer_index |-> msg.sender_index,
                static_public |-> Terms!x25519_base(s), timestamp |-> time,
                eph_public |-> Terms!x25519_base(e1),
                chain |-> ChainEnd(s, t, e1), hash |-> HashEnd(s, t, e1, time)]

\* consume_initiation opens what it can open, and nothing else.
LEMMA Consumed ==
  ASSUME NEW me, NEW q, me.peer = Terms!x25519_base(q),
         NEW msg, NEW s, NEW t, NEW e1, NEW e2, NEW e3, NEW time,
         msg.ephemeral = Terms!x25519_base(e1),
         msg.encrypted_static = SealedStatic(s, t, e2),
         msg.encrypted_timestamp = SealedTime(s, t, e3, time)
  PROVE  Accepts(me, q, msg, s, t, e1, e2, e3, time)
<1> DEFINE m == me.static
           es == {m, e1}
           ss == {m, q}
           h1 == Terms!hash(HashTo(m, e1), msg.encrypted_static)
           ck1 == Terms!kdf(ChainKey(e1), es, 1)
           first == Terms!opens(Terms!kdf(ChainKey(e1), es, 2), HashTo(m, e1),
                                msg.encrypted_static)
           second == Terms!opens(Terms!kdf(ck1, ss, 2), h1, msg.encrypted_timestamp)
           accepted ==
             [res |-> "Ok", peer_index |-> msg.sender_index,
              static_public |-> msg.encrypted_static[4],
              timestamp |-> msg.encrypted_timestamp[4], eph_public |-> msg.ephemeral,
              chain |-> Terms!kdf(ck1, ss, 1),
              hash |-> Terms!hash(h1, msg.encrypted_timestamp)]
           c == Terms!consume_initiation(me, msg)
<1>1. c = IF ~first THEN Terms!Err("AuthFailure")
          ELSE IF msg.encrypted_static[4] # me.peer THEN Terms!Err("UnknownPeer")
          ELSE IF ~second THEN Terms!Err("AuthFailure")
          ELSE accepted
  <2>1. msg.ephemeral # Terms!LowOrder /\ \A x : Terms!dh(x, msg.ephemeral) = {x, e1}
    BY PublicFree
  <2>2. \A x : Terms!dh(x, me.peer) = {x, q}
    BY PublicFree
  <2>3. Terms!responder_start(Terms!x25519_base(m), msg.ephemeral) =
          [ck |-> ChainKey(e1), h |-> HashTo(m, e1)]
    BY DEF Terms!responder_start, ChainKey, HashTo
  <2>4. [ck |-> ChainKey(e1), h |-> HashTo(m, e1)].ck = ChainKey(e1)
        /\ [ck |-> ChainKey(e1), h |-> HashTo(m, e1)].h = HashTo(m, e1)
    OBVIOUS
  <2> QED BY <2>1, <2>2, <2>3, <2>4, Zenon DEF Terms!consume_initiation, Terms!precomputed_ss
<1>2. msg.encrypted_static[4] = Terms!x25519_base(s) /\ msg.encrypted_timestamp[4] = time
  BY SealedTerm DEF SealedStatic, SealedTime
<1>3. \A a, b : ChainKey(a) = ChainKey(b) <=> a = b
  BY KdfFree, PublicFree DEF ChainKey
<1>4. \A a, b, x, y : HashTo(x, a) = HashTo(y, b) <=> x = y /\ a = b
  <2> TAKE a, b, x, y
  <2> DEFINE B(z) == Terms!x25519_base(z)
             G(z) == Terms!hash(Terms!h0, B(z))
  <2>1. HashTo(x, a) = HashTo(y, b) <=> G(x) = G(y) /\ B(a) = B(b)
    BY HashFree DEF HashTo
  <2>2. G(x) = G(y) <=> B(x) = B(y)
    BY HashFree
  <2>3. (B(x) = B(y) <=> x = y) /\ (B(a) = B(b) <=> a = b)
    BY PublicFree
  <2> QED BY <2>1, <2>2, <2>3
<1>5. first <=> e1 = e2 /\ t = m
  <2>1. first <=> /\ Terms!kdf(ChainKey(e1), es, 2) = Terms!kdf(ChainKey(e2), {e2, t}, 2)
                  /\ HashTo(m, e1) = HashTo(t, e2)
    BY SealedTerm DEF SealedStatic
  <2> QED BY <1>3, <1>4, <2>1, KdfFree
<1>6. (e1 = e2 /\ t = m) => (second <=> e1 = e3 /\ ss = {s, t})
  <2>1. second <=> /\ Terms!kdf(ck1, ss, 2) = Terms!kdf(ChainStatic(t, e3), {s, t}, 2)
                   /\ h1 = HashStatic(s, t, e3)
    BY SealedTerm DEF SealedTime
  <2>2. h1 = HashStatic(s, t, e3) <=>
          HashTo(m, e1) = HashTo(t, e3) /\ SealedStatic(s, t, e2) = SealedStatic(s, t, e3)
    BY HashFree DEF HashStatic
  <2>3. Terms!kdf(ck1, ss, 2) = Terms!kdf(ChainStatic(t, e3), {s, t}, 2) <=>
          ck1 = ChainStatic(t, e3) /\ ss = {s, t}
    BY KdfFree
  <2>4. ASSUME e1 = e3, t = m
        PROVE  ck1 = ChainStatic(t, e3)
    BY <2>4 DEF ChainStatic
  <2> SUFFICES ASSUME e1 = e2, t = m
               PROVE  second <=> e1 = e3 /\ ss = {s, t}
    OBVIOUS
  <2> HIDE DEF second, ss, ck1, h1
  <2>5. HashTo(m, e1) = HashTo(t, e3) <=> e1 = e3
    BY <1>4
  <2> QED BY <2>1, <2>2, <2>3, <2>4, <2>5
<1>7. c.res = "Ok" <=> first /\ msg.encrypted_static[4] = me.peer /\ second
  BY <1>1 DEF Terms!Err
<1>8. c.res = "UnknownPeer" => msg.encrypted_static[4] # me.peer
  BY <1>1 DEF Terms!Err
<1>9. c.res = "Ok" => c = accepted
  BY <1>1, <1>7
<1>10. msg.encrypted_static[4] = me.peer <=> s = q
  BY <1>2, PublicFree
<1> HIDE DEF first, second, c
<1>11. c.res = "Ok" <=> e1 = e2 /\ e1 = e3 /\ t = m /\ s = q
  BY <1>5, <1>6, <1>7, <1>10
<1>12. ASSUME c.res = "Ok"
       PROVE  accepted = [res |-> "Ok", peer_index |-> msg.sender_index,
                static_public |-> Terms!x25519_base(s), timestamp |-> time,
                eph_public |-> Terms!x25519_base(e1),
                chain |-> ChainEnd(s, t, e1), hash |-> HashEnd(s, t, e1, time)]
  <2>1. e1 = e2 /\ e1 = e3 /\ t = m /\ s = q
    BY <1>11, <1>12
  <2>2. es = {e1, t} /\ ss = {s, t}
    BY <2>1
  <2>3. ck1 = ChainStatic(t, e1)
    BY <2>1, <2>2 DEF ChainStatic
  <2>4. h1 = HashStatic(s, t, e1)
    BY <2>1 DEF HashStatic
  <2>5. Terms!kdf(ck1, ss, 1) = ChainEnd(s, t, e1)
    BY <2>2, <2>3 DEF ChainEnd
  <2>6. Terms!hash(h1, msg.encrypted_timestamp) = HashEnd(s, t, e1, time)
    BY <2>1, <2>4 DEF HashEnd
  <2> QED BY <1>2, <2>5, <2>6, Zenon
<1> QED BY <1>8, <1>9, <1>10, <1>11, <1>12 DEF c, Accepts

\* Two second halves of a transcript are the same only if all that is mixed in is.
Psk2Names(t, f, ee, se, psk, u, g, ff, sf, qsk) ==
  LET x == Terms!responder_psk2(t, f, ee, se, psk)
      y == Terms!responder_psk2(u, g, ff, sf, qsk)
      same == t.chain = u.chain /\ f = g /\ ee = ff /\ se = sf /\ psk = qsk
  IN  /\ x.k = y.k <=> same
      /\ x.ck = y.ck <=> same
      /\ same /\ t.hash = u.hash => x.h = y.h

\* psk2 forgets nothing of the ephemeral, the two secrets and the preshared key.
LEMMA Psk2Free ==
  ASSUME NEW t, NEW f, NEW ee, NEW se, NEW psk,
         NEW u, NEW g, NEW ff, NEW sf, NEW qsk
  PROVE  Psk2Names(t, f, ee, se, psk, u, g, ff, sf, qsk)
<1> DEFINE a1 == Terms!kdf(t.chain, f, 1)
           a2 == Terms!kdf(a1, ee, 1)
           a == Terms!kdf(a2, se, 1)
           b1 == Terms!kdf(u.chain, g, 1)
           b2 == Terms!kdf(b1, ff, 1)
           b == Terms!kdf(b2, sf, 1)
           x == Terms!responder_psk2(t, f, ee, se, psk)
           y == Terms!responder_psk2(u, g, ff, sf, qsk)
<1>1. /\ x.k = Terms!kdf(a, psk, 3) /\ x.ck = Terms!kdf(a, psk, 1)
      /\ x.h = Terms!hash(Terms!hash(t.hash, f), Terms!kdf(a, psk, 2))
  BY DEF Terms!responder_psk2
<1>2. /\ y.k = Terms!kdf(b, qsk, 3) /\ y.ck = Terms!kdf(b, qsk, 1)
      /\ y.h = Terms!hash(Terms!hash(u.hash, g), Terms!kdf(b, qsk, 2))
  BY DEF Terms!responder_psk2
<1>3. a1 = b1 <=> t.chain = u.chain /\ f = g
  BY KdfFree
<1> HIDE DEF a1, b1
<1>4. a2 = b2 <=> a1 = b1 /\ ee = ff
  BY KdfFree
<1> HIDE DEF a2, b2
<1>5. a = b <=> a2 = b2 /\ se = sf
  BY KdfFree
<1> HIDE DEF a, b, x, y
<1>6. (x.k = y.k <=> a = b /\ psk = qsk) /\ (x.ck = y.ck <=> a = b /\ psk = qsk)
  BY <1>1, <1>2, KdfFree
<1>7. a = b /\ psk = qsk /\ f = g /\ t.hash = u.hash => x.h = y.h
  BY <1>1, <1>2
<1> QED BY <1>3, <1>4, <1>5, <1>6, <1>7 DEF x, y, Psk2Names

\* The transcript both sides reach in the end.
Ended(s, t, e, time) ==
  [chain |-> ChainEnd(s, t, e), hash |-> HashEnd(s, t, e, time)]

\* Initiations with other ephemerals end in other chaining keys.
LEMMA EndsApart ==
  ASSUME NEW s, NEW t, NEW e, NEW f
  PROVE  ChainEnd(s, t, e) = ChainEnd(s, t, f) <=> e = f
<1>1. ChainEnd(s, t, e) = ChainEnd(s, t, f) <=> ChainStatic(t, e) = ChainStatic(t, f)
  BY KdfFree DEF ChainEnd
<1>2. ChainStatic(t, e) = ChainStatic(t, f) <=> ChainKey(e) = ChainKey(f) /\ {e, t} = {f, t}
  BY KdfFree DEF ChainStatic
<1>3. ChainKey(e) = ChainKey(f) <=> e = f
  BY KdfFree, PublicFree DEF ChainKey
<1> QED BY <1>1, <1>2, <1>3

\* psk2 looks at the transcript only.
LEMMA Psk2Of ==
  ASSUME NEW c, NEW s, NEW t, NEW e, NEW time, c.chain = ChainEnd(s, t, e),
         c.hash = HashEnd(s, t, e, time), NEW f, NEW ee, NEW se, NEW psk
  PROVE  Terms!responder_psk2(c, f, ee, se, psk) = Terms!responder_psk2(Ended(s, t, e, time), f, ee, se, psk)
<1>1. Ended(s, t, e, time).chain = c.chain /\ Ended(s, t, e, time).hash = c.hash
  BY DEF Ended
<1> QED BY <1>1, Zenon DEF Terms!responder_psk2

\* Both sides go through psk2 alike, each by its own code.
LEMMA Psk2Alike ==
  ASSUME NEW c, NEW f, NEW ee, NEW se, NEW psk
  PROVE  Terms!initiator_psk2(c, f, ee, se, psk) = Terms!responder_psk2(c, f, ee, se, psk)
  BY Zenon DEF Terms!initiator_psk2, Terms!responder_psk2

\* The answer to an accepted initiation.
Answer(c, s, t, e, time, me, index, f) ==
  LET x == Terms!responder_psk2(Ended(s, t, e, time), Terms!x25519_base(f), {f, e}, {f, s}, me.psk)
  IN  Terms!create_response(c, me, index, f) =
        [res |-> "Ok",
         msg |-> [sender_index |-> index, receiver_index |-> c.peer_index,
                  ephemeral |-> Terms!x25519_base(f),
                  encrypted_nothing |-> Terms!seal(x.k, x.h, "")],
         keys |-> [send |-> Terms!kdf(x.ck, "", 2), recv |-> Terms!kdf(x.ck, "", 1),
                   local_index |-> index, peer_index |-> c.peer_index,
                   is_initiator |-> FALSE]]

\* create_response continues the transcript it was given.
LEMMA Responded ==
  ASSUME NEW c, NEW s, NEW t, NEW e, NEW time, NEW me, NEW index, NEW f,
         c.chain = ChainEnd(s, t, e), c.hash = HashEnd(s, t, e, time),
         c.eph_public = Terms!x25519_base(e), c.static_public = Terms!x25519_base(s)
  PROVE  Answer(c, s, t, e, time, me, index, f)
<1>1. Terms!dh(f, c.eph_public) = {f, e} /\ Terms!dh(f, c.static_public) = {f, s}
  BY PublicFree
<1>2. Terms!responder_psk2(c, Terms!x25519_base(f), {f, e}, {f, s}, me.psk) =
        Terms!responder_psk2(Ended(s, t, e, time), Terms!x25519_base(f), {f, e}, {f, s}, me.psk)
  BY Psk2Of
<1>3. Terms!LowOrder \notin {c.eph_public, c.static_public}
  BY PublicFree
<1> QED BY <1>1, <1>2, <1>3, Zenon DEF Terms!create_response, Answer

\* What the initiator makes of an answer with the ephemeral f, sealed under k and h.
Finishes(inflight, s, t, e, time, me, msg, f, k, h) ==
  LET y == Terms!responder_psk2(Ended(s, t, e, time), Terms!x25519_base(f), {f, e}, {f, s}, me.psk)
      d == Terms!consume_response(inflight, me, msg)
  IN  /\ d.res = "Ok" <=> y.k = k /\ y.h = h
      /\ d.res = "Ok" =>
           d.keys = [send |-> Terms!kdf(y.ck, "", 1), recv |-> Terms!kdf(y.ck, "", 2),
                     local_index |-> inflight.local_index,
                     peer_index |-> msg.sender_index, is_initiator |-> TRUE]

\* consume_response opens what is sealed under its own transcript.
LEMMA Finished ==
  ASSUME NEW inflight, NEW s, NEW t, NEW e, NEW time, NEW me, NEW msg, NEW f,
         inflight.chain = ChainEnd(s, t, e), inflight.hash = HashEnd(s, t, e, time),
         inflight.eph_secret = e, me.static = s, msg.ephemeral = Terms!x25519_base(f),
         NEW k, NEW h, NEW x, msg.encrypted_nothing = Terms!seal(k, h, x)
  PROVE  Finishes(inflight, s, t, e, time, me, msg, f, k, h)
<1> DEFINE y == Terms!responder_psk2(Ended(s, t, e, time), Terms!x25519_base(f), {f, e}, {f, s}, me.psk)
           d == Terms!consume_response(inflight, me, msg)
           keys == [send |-> Terms!kdf(y.ck, "", 1), recv |-> Terms!kdf(y.ck, "", 2),
                    local_index |-> inflight.local_index,
                    peer_index |-> msg.sender_index, is_initiator |-> TRUE]
<1>1. Terms!dh(e, msg.ephemeral) = {f, e} /\ Terms!dh(s, msg.ephemeral) = {f, s}
  <2>1. Terms!dh(e, msg.ephemeral) = {e, f} /\ Terms!dh(s, msg.ephemeral) = {s, f}
    BY PublicFree
  <2>2. {e, f} = {f, e} /\ {s, f} = {f, s}
    OBVIOUS
  <2> QED BY <2>1, <2>2, Zenon
<1>2. Terms!initiator_psk2(inflight, Terms!x25519_base(f), {f, e}, {f, s}, me.psk) = y
  <2> DEFINE g == Terms!x25519_base(f)
             ee == {f, e}
             se == {f, s}
             psk == me.psk
  <2> HIDE DEF g, ee, se, psk
  <2>1. Terms!responder_psk2(inflight, g, ee, se, psk) =
          Terms!responder_psk2(Ended(s, t, e, time), g, ee, se, psk)
    BY Psk2Of
  <2>2. Terms!initiator_psk2(inflight, g, ee, se, psk) =
          Terms!responder_psk2(inflight, g, ee, se, psk)
    BY Psk2Alike
  <2> QED BY <2>1, <2>2 DEF g, ee, se, psk
<1>3. msg.ephemeral # Terms!LowOrder
  BY PublicFree
<1>4. d = IF ~Terms!opens(y.k, y.h, msg.encrypted_nothing) THEN Terms!Err("AuthFailure")
            ELSE [res |-> "Ok", keys |-> keys]
  <2> HIDE DEF y
  <2> QED BY <1>1, <1>2, <1>3, Zenon DEF Terms!consume_response
<1>5. Terms!opens(y.k, y.h, msg.encrypted_nothing) <=> y.k = k /\ y.h = h
  <2> HIDE DEF y
  <2> DEFINE a == y.k
             b == y.h
  <2> HIDE DEF a, b
  <2>1. Terms!opens(a, b, Terms!seal(k, h, x)) <=> a = k /\ b = h
    BY SealedTerm
  <2> QED BY <2>1 DEF a, b
<1> HIDE DEF y, keys, d
<1>6. d.res = "Ok" <=> Terms!opens(y.k, y.h, msg.encrypted_nothing)
  BY <1>4 DEF Terms!Err
<1>7. d.res = "Ok" => d.keys = keys
  BY <1>4, <1>6
<1> QED BY <1>5, <1>6, <1>7 DEF y, d, keys, Finishes

\* A low-order ephemeral is refused before anything else.
LEMMA LowRefused ==
  ASSUME NEW me, NEW inflight, NEW msg, msg.ephemeral = Terms!LowOrder
  PROVE  /\ Terms!consume_initiation(me, msg).res = "InvalidPublicKey"
         /\ Terms!consume_response(inflight, me, msg).res = "InvalidPublicKey"
<1>1. Terms!consume_initiation(me, msg) = Terms!Err("InvalidPublicKey")
  BY Zenon DEF Terms!consume_initiation
<1>2. Terms!consume_response(inflight, me, msg) = Terms!Err("InvalidPublicKey")
  BY Zenon DEF Terms!consume_response
<1> QED BY <1>1, <1>2 DEF Terms!Err

\* The fields of a spliced initiation.
LEMMA SplicedInitiation ==
  ASSUME NEW x1, NEW x2, NEW x3, NEW x4, NEW y1, NEW y2, NEW y3, NEW y4,
         NEW m \in SUBSET Terms!InitiationFields
  PROVE  LET a == [sender_index |-> x1, ephemeral |-> x2, encrypted_static |-> x3,
                   encrypted_timestamp |-> x4]
             b == [sender_index |-> y1, ephemeral |-> y2, encrypted_static |-> y3,
                   encrypted_timestamp |-> y4]
             c == Terms!spliced(a, b, m)
         IN  /\ c.sender_index = x1
             /\ c.ephemeral = IF "ephemeral" \in m THEN y2 ELSE x2
             /\ c.encrypted_static = IF "encrypted_static" \in m THEN y3 ELSE x3
             /\ c.encrypted_timestamp = IF "encrypted_timestamp" \in m THEN y4 ELSE x4
  BY DEF Terms!spliced, Terms!InitiationFields

\* The fields of a spliced response.
LEMMA SplicedResponse ==
  ASSUME NEW x1, NEW x2, NEW x3, NEW x4, NEW y1, NEW y2, NEW y3, NEW y4,
         NEW m \in SUBSET Terms!ResponseFields
  PROVE  LET a == [sender_index |-> x1, receiver_index |-> x2, ephemeral |-> x3,
                   encrypted_nothing |-> x4]
             b == [sender_index |-> y1, receiver_index |-> y2, ephemeral |-> y3,
                   encrypted_nothing |-> y4]
             c == Terms!spliced(a, b, m)
         IN  /\ c.sender_index = x1
             /\ c.ephemeral = IF "ephemeral" \in m THEN y3 ELSE x3
             /\ c.encrypted_nothing = IF "encrypted_nothing" \in m THEN y4 ELSE x4
  BY DEF Terms!spliced, Terms!ResponseFields

\* KeysAgree, for any names, ephemerals and timestamps.
Agreement(i, r, m1, m2, i1, i2, e1, e2, t1, t2, r1, r2, f1, f2) ==
  LET sent  == Terms!create_initiation(i, i1, e1, t1)
      other == Terms!create_initiation(i, i2, e2, t2)
      got   == Terms!consume_initiation(r, Terms!spliced(sent.msg, other.msg, m1))
      got_other == Terms!consume_initiation(r, other.msg)
      reply == Terms!create_response(got, r, r1, f1)
      reply_other == Terms!create_response(got_other, r, r2, f2)
      done  == Terms!consume_response(sent.inflight, i,
                                      Terms!spliced(reply.msg, reply_other.msg, m2))
      addressed == /\ i.peer = Terms!x25519_base(r.static)
                   /\ r.peer = Terms!x25519_base(i.static)
  IN  /\ got.res = "Ok" <=> addressed /\ m1 \in {{}, Terms!InitiationFields}
      /\ got.res = "Ok" => got.timestamp = IF m1 = {} THEN t1 ELSE t2
      /\ got.res = "UnknownPeer" => r.peer # Terms!x25519_base(i.static)
      /\ got.res = "Ok" =>
           (done.res = "Ok" <=> i.psk = r.psk /\ m1 = {} /\ m2 = {})
      /\ got.res = "Ok" /\ done.res = "Ok" =>
           /\ done.keys.send = reply.keys.recv /\ done.keys.recv = reply.keys.send
           /\ done.keys.local_index = reply.keys.peer_index
           /\ done.keys.peer_index = reply.keys.local_index
           /\ done.keys.send # done.keys.recv
           /\ {done.keys.send, done.keys.recv} \cap
                {reply_other.keys.send, reply_other.keys.recv} = {}

\* The first half: who accepts which initiation, and what it knows then.
InitiationKnown(i, r, ip, rp, m1, i1, i2, e1, e2, t1, t2) ==
  LET sent  == Terms!create_initiation(i, i1, e1, t1)
      other == Terms!create_initiation(i, i2, e2, t2)
      got   == Terms!consume_initiation(r, Terms!spliced(sent.msg, other.msg, m1))
      got_other == Terms!consume_initiation(r, other.msg)
      e == IF m1 = {} THEN e1 ELSE e2
      time == IF m1 = {} THEN t1 ELSE t2
      s == i.static
  IN  /\ sent.inflight = [local_index |-> i1, eph_secret |-> e1,
                          chain |-> ChainEnd(s, ip, e1), hash |-> HashEnd(s, ip, e1, t1)]
      /\ got.res = "Ok" <=> /\ ip = r.static /\ rp = s
                            /\ m1 \in {{}, Terms!InitiationFields}
      /\ got.res = "UnknownPeer" => rp # s
      /\ got.res = "Ok" =>
           /\ got = [res |-> "Ok", peer_index |-> i1,
                     static_public |-> Terms!x25519_base(s), timestamp |-> time,
                     eph_public |-> Terms!x25519_base(e),
                     chain |-> ChainEnd(s, ip, e), hash |-> HashEnd(s, ip, e, time)]
           /\ got_other = [res |-> "Ok", peer_index |-> i2,
                           static_public |-> Terms!x25519_base(s), timestamp |-> t2,
                           eph_public |-> Terms!x25519_base(e2),
                           chain |-> ChainEnd(s, ip, e2), hash |-> HashEnd(s, ip, e2, t2)]

\* Who accepts which initiation follows from whom it was made for and what was replaced.
LEMMA InitiationAgrees ==
  ASSUME NEW i, NEW r, NEW ip, NEW rp, i.peer = Terms!x25519_base(ip),
         r.peer = Terms!x25519_base(rp), NEW m1 \in SUBSET Terms!InitiationFields,
         NEW i1, NEW i2, NEW e1, NEW e2, e1 # e2, NEW t1, NEW t2
  PROVE  InitiationKnown(i, r, ip, rp, m1, i1, i2, e1, e2, t1, t2)
<1> DEFINE sent  == Terms!create_initiation(i, i1, e1, t1)
           other == Terms!create_initiation(i, i2, e2, t2)
           s == i.static
           a == [sender_index |-> i1, ephemeral |-> Terms!x25519_base(e1),
                 encrypted_static |-> SealedStatic(s, ip, e1),
                 encrypted_timestamp |-> SealedTime(s, ip, e1, t1)]
           b == [sender_index |-> i2, ephemeral |-> Terms!x25519_base(e2),
                 encrypted_static |-> SealedStatic(s, ip, e2),
                 encrypted_timestamp |-> SealedTime(s, ip, e2, t2)]
           inflight == [local_index |-> i1, eph_secret |-> e1,
                        chain |-> ChainEnd(s, ip, e1), hash |-> HashEnd(s, ip, e1, t1)]
           c == Terms!spliced(sent.msg, other.msg, m1)
           got == Terms!consume_initiation(r, c)
           got_other == Terms!consume_initiation(r, b)
           x1 == IF "ephemeral" \in m1 THEN e2 ELSE e1
           x2 == IF "encrypted_static" \in m1 THEN e2 ELSE e1
           x3 == IF "encrypted_timestamp" \in m1 THEN e2 ELSE e1
           time == IF "encrypted_timestamp" \in m1 THEN t2 ELSE t1
<1>1. sent.msg = a /\ sent.inflight = inflight /\ other.msg = b
  <2>1. sent = [res |-> "Ok", msg |-> a, inflight |-> inflight]
    BY Created, Zenon
  <2>2. other.msg = b
    BY Created
  <2> HIDE DEF sent, a, inflight
  <2> QED BY <2>1, <2>2
<1>2. c = Terms!spliced(a, b, m1)
  <2> HIDE DEF sent, other, a, b
  <2> QED BY <1>1
<1>3. /\ c.sender_index = i1
      /\ c.ephemeral = Terms!x25519_base(x1)
      /\ c.encrypted_static = SealedStatic(s, ip, x2)
      /\ c.encrypted_timestamp = SealedTime(s, ip, x3, time)
  <2> HIDE DEF c, s
  <2>1. /\ c.sender_index = i1
        /\ c.ephemeral = IF "ephemeral" \in m1 THEN Terms!x25519_base(e2)
                                               ELSE Terms!x25519_base(e1)
        /\ c.encrypted_static = IF "encrypted_static" \in m1 THEN SealedStatic(s, ip, e2)
                                                             ELSE SealedStatic(s, ip, e1)
        /\ c.encrypted_timestamp =
             IF "encrypted_timestamp" \in m1 THEN SealedTime(s, ip, e2, t2)
                                             ELSE SealedTime(s, ip, e1, t1)
    BY <1>2, SplicedInitiation
  <2> QED BY <2>1, Zenon
<1>4. b.sender_index = i2 /\ b.ephemeral = Terms!x25519_base(e2)
      /\ b.encrypted_static = SealedStatic(s, ip, e2)
      /\ b.encrypted_timestamp = SealedTime(s, ip, e2, t2)
  OBVIOUS
<1>5. (x1 = x2 /\ x1 = x3) <=> m1 \in {{}, Terms!InitiationFields}
  BY DEF Terms!InitiationFields
<1>6. m1 \in {{}, Terms!InitiationFields} =>
        /\ x1 = IF m1 = {} THEN e1 ELSE e2
        /\ time = IF m1 = {} THEN t1 ELSE t2
  BY DEF Terms!InitiationFields
<1> HIDE DEF c, b, x1, x2, x3, time, s
<1>7. /\ got.res = "Ok" <=> x1 = x2 /\ x1 = x3 /\ ip = r.static /\ s = rp
      /\ got.res = "UnknownPeer" => s # rp
      /\ got.res = "Ok" =>
           got = [res |-> "Ok", peer_index |-> c.sender_index,
                  static_public |-> Terms!x25519_base(s), timestamp |-> time,
                  eph_public |-> Terms!x25519_base(x1),
                  chain |-> ChainEnd(s, ip, x1), hash |-> HashEnd(s, ip, x1, time)]
  <2>1. Accepts(r, rp, c, s, ip, x1, x2, x3, time)
    BY <1>3, Consumed
  <2> QED BY <2>1 DEF Accepts
<1>8. /\ got_other.res = "Ok" <=> ip = r.static /\ s = rp
      /\ got_other.res = "Ok" =>
           got_other = [res |-> "Ok", peer_index |-> b.sender_index,
                        static_public |-> Terms!x25519_base(s), timestamp |-> t2,
                        eph_public |-> Terms!x25519_base(e2),
                        chain |-> ChainEnd(s, ip, e2), hash |-> HashEnd(s, ip, e2, t2)]
  <2>1. Accepts(r, rp, b, s, ip, e2, e2, e2, t2)
    BY <1>4, Consumed
  <2> QED BY <2>1 DEF Accepts
<1>9. got_other = Terms!consume_initiation(r, other.msg)
  BY <1>1, Zenon DEF b
<1> HIDE DEF got, got_other, sent, other, inflight
<1>10. got.res = "Ok" <=> ip = r.static /\ rp = s /\ m1 \in {{}, Terms!InitiationFields}
  BY <1>5, <1>7
<1>11. got.res = "Ok" =>
         /\ got = [res |-> "Ok", peer_index |-> i1,
                   static_public |-> Terms!x25519_base(s),
                   timestamp |-> IF m1 = {} THEN t1 ELSE t2,
                   eph_public |-> Terms!x25519_base(IF m1 = {} THEN e1 ELSE e2),
                   chain |-> ChainEnd(s, ip, IF m1 = {} THEN e1 ELSE e2),
                   hash |-> HashEnd(s, ip, IF m1 = {} THEN e1 ELSE e2,
                                    IF m1 = {} THEN t1 ELSE t2)]
         /\ got_other = [res |-> "Ok", peer_index |-> i2,
                         static_public |-> Terms!x25519_base(s), timestamp |-> t2,
                         eph_public |-> Terms!x25519_base(e2),
                         chain |-> ChainEnd(s, ip, e2), hash |-> HashEnd(s, ip, e2, t2)]
  BY <1>3, <1>4, <1>6, <1>7, <1>8, <1>10, Zenon
<1>12. got.res = "UnknownPeer" => rp # s
  BY <1>7
<1> QED BY <1>1, <1>9, <1>10, <1>11, <1>12, Zenon
       DEF got, c, sent, other, inflight, s, InitiationKnown

\* The second half: which answer finishes the handshake, and under which keys.
ResponseKnown(i, r, inflight, got, got_other, e, e1, m2, r1, r2, f1, f2) ==
  LET reply == Terms!create_response(got, r, r1, f1)
      reply_other == Terms!create_response(got_other, r, r2, f2)
      done  == Terms!consume_response(inflight, i,
                                      Terms!spliced(reply.msg, reply_other.msg, m2))
  IN  /\ done.res = "Ok" <=> i.psk = r.psk /\ e = e1 /\ m2 = {}
      /\ done.res = "Ok" =>
           /\ done.keys.send = reply.keys.recv /\ done.keys.recv = reply.keys.send
           /\ done.keys.local_index = inflight.local_index
           /\ reply.keys.peer_index = got.peer_index
           /\ done.keys.peer_index = reply.keys.local_index
           /\ done.keys.send # done.keys.recv
           /\ {done.keys.send, done.keys.recv} \cap
                {reply_other.keys.send, reply_other.keys.recv} = {}

\* Which answer is accepted follows from the initiation it answers and what was replaced.
LEMMA ResponseAgrees ==
  ASSUME NEW i, NEW r, NEW t, NEW e, NEW time, NEW e1, NEW e2, e1 # e2, NEW t1, NEW t2,
         e = e1 => time = t1, NEW f1, NEW f2, f1 # f2, NEW r1, NEW r2,
         NEW m2 \in SUBSET Terms!ResponseFields, NEW inflight, NEW got, NEW got_other,
         NEW s, s = i.static,
         inflight.chain = ChainEnd(s, t, e1), inflight.hash = HashEnd(s, t, e1, t1),
         inflight.eph_secret = e1,
         got.chain = ChainEnd(s, t, e), got.hash = HashEnd(s, t, e, time),
         got.eph_public = Terms!x25519_base(e), got.static_public = Terms!x25519_base(s),
         got_other.chain = ChainEnd(s, t, e2), got_other.hash = HashEnd(s, t, e2, t2),
         got_other.eph_public = Terms!x25519_base(e2),
         got_other.static_public = Terms!x25519_base(s)
  PROVE  ResponseKnown(i, r, inflight, got, got_other, e, e1, m2, r1, r2, f1, f2)
<1> DEFINE reply == Terms!create_response(got, r, r1, f1)
           reply_other == Terms!create_response(got_other, r, r2, f2)
           n == Terms!spliced(reply.msg, reply_other.msg, m2)
           done == Terms!consume_response(inflight, i, n)
           f == IF "ephemeral" \in m2 THEN f2 ELSE f1
           w == "encrypted_nothing" \in m2
           B(z) == Terms!x25519_base(z)
           x == Terms!responder_psk2(Ended(s, t, e, time), B(f1), {f1, e}, {f1, s}, r.psk)
           o == Terms!responder_psk2(Ended(s, t, e2, t2), B(f2), {f2, e2}, {f2, s}, r.psk)
           y == Terms!responder_psk2(Ended(s, t, e1, t1), B(f), {f, e1}, {f, s}, i.psk)
           k == IF w THEN o.k ELSE x.k
           h == IF w THEN o.h ELSE x.h
<1>1. /\ reply.msg = [sender_index |-> r1, receiver_index |-> got.peer_index,
                      ephemeral |-> B(f1), encrypted_nothing |-> Terms!seal(x.k, x.h, "")]
      /\ reply.keys.send = Terms!kdf(x.ck, "", 2) /\ reply.keys.recv = Terms!kdf(x.ck, "", 1)
      /\ reply.keys.local_index = r1 /\ reply.keys.peer_index = got.peer_index
  <2>1. Answer(got, s, t, e, time, r, r1, f1)
    BY Responded
  <2>2. reply = [res |-> "Ok",
                 msg |-> [sender_index |-> r1, receiver_index |-> got.peer_index,
                          ephemeral |-> B(f1), encrypted_nothing |-> Terms!seal(x.k, x.h, "")],
                 keys |-> [send |-> Terms!kdf(x.ck, "", 2), recv |-> Terms!kdf(x.ck, "", 1),
                           local_index |-> r1, peer_index |-> got.peer_index,
                           is_initiator |-> FALSE]]
    BY <2>1, Zenon DEF Answer
  <2> HIDE DEF reply, x, B
  <2> QED BY <2>2
<1>2. /\ reply_other.msg = [sender_index |-> r2, receiver_index |-> got_other.peer_index,
                      ephemeral |-> B(f2), encrypted_nothing |-> Terms!seal(o.k, o.h, "")]
      /\ reply_other.keys.send = Terms!kdf(o.ck, "", 2)
      /\ reply_other.keys.recv = Terms!kdf(o.ck, "", 1)
  <2>1. Answer(got_other, s, t, e2, t2, r, r2, f2)
    BY Responded
  <2>2. reply_other =
          [res |-> "Ok",
           msg |-> [sender_index |-> r2, receiver_index |-> got_other.peer_index,
                    ephemeral |-> B(f2), encrypted_nothing |-> Terms!seal(o.k, o.h, "")],
           keys |-> [send |-> Terms!kdf(o.ck, "", 2), recv |-> Terms!kdf(o.ck, "", 1),
                     local_index |-> r2, peer_index |-> got_other.peer_index,
                     is_initiator |-> FALSE]]
    BY <2>1, Zenon DEF Answer
  <2> HIDE DEF reply_other, o, B
  <2> QED BY <2>2
<1>3. /\ n.sender_index = r1 /\ n.ephemeral = B(f)
      /\ n.encrypted_nothing = Terms!seal(k, h, "")
  <2> DEFINE p1 == Terms!seal(x.k, x.h, "")
             p2 == Terms!seal(o.k, o.h, "")
             g1 == got.peer_index
             g2 == got_other.peer_index
             b1 == B(f1)
             b2 == B(f2)
             a == [sender_index |-> r1, receiver_index |-> g1, ephemeral |-> b1,
                   encrypted_nothing |-> p1]
             b == [sender_index |-> r2, receiver_index |-> g2, ephemeral |-> b2,
                   encrypted_nothing |-> p2]
  <2>1. n = Terms!spliced(a, b, m2)
    <3> HIDE DEF reply, reply_other, x, o, B
    <3> QED BY <1>1, <1>2, Zenon
  <2> HIDE DEF n, p1, p2, g1, g2, b1, b2
  <2>2. /\ n.sender_index = r1
        /\ n.ephemeral = IF "ephemeral" \in m2 THEN b2 ELSE b1
        /\ n.encrypted_nothing = IF "encrypted_nothing" \in m2 THEN p2 ELSE p1
    BY <2>1, SplicedResponse
  <2> HIDE DEF x, o
  <2> QED BY <2>2, Zenon DEF p1, p2, b1, b2
<1> HIDE DEF n, f, k, h
<1>4. Finishes(inflight, s, t, e1, t1, i, n, f, k, h)
  BY <1>3, Finished, Zenon
<1>5. /\ done.res = "Ok" <=> y.k = k /\ y.h = h
      /\ done.res = "Ok" =>
           done.keys = [send |-> Terms!kdf(y.ck, "", 1), recv |-> Terms!kdf(y.ck, "", 2),
                        local_index |-> inflight.local_index,
                        peer_index |-> n.sender_index, is_initiator |-> TRUE]
  BY <1>4, Zenon DEF Finishes

<1> HIDE DEF reply, reply_other, done, B
<1>6. /\ y.k = x.k <=> e1 = e /\ f = f1 /\ i.psk = r.psk
      /\ y.ck = x.ck <=> e1 = e /\ f = f1 /\ i.psk = r.psk
      /\ e1 = e /\ f = f1 /\ i.psk = r.psk => y.h = x.h
  <2> DEFINE u == Ended(s, t, e1, t1)
             v == Ended(s, t, e, time)
             same == /\ u.chain = v.chain /\ B(f) = B(f1) /\ {f, e1} = {f1, e}
                     /\ {f, s} = {f1, s} /\ i.psk = r.psk
  <2>0. Psk2Names(u, B(f), {f, e1}, {f, s}, i.psk, v, B(f1), {f1, e}, {f1, s}, r.psk)
    BY Psk2Free
  <2>1. /\ y.k = x.k <=> same
        /\ y.ck = x.ck <=> same
        /\ same /\ u.hash = v.hash => y.h = x.h
    BY <2>0, Zenon DEF Psk2Names
  <2>2. u.chain = ChainEnd(s, t, e1) /\ v.chain = ChainEnd(s, t, e)
        /\ u.hash = HashEnd(s, t, e1, t1) /\ v.hash = HashEnd(s, t, e, time)
    BY DEF Ended
  <2>3. u.chain = v.chain <=> e1 = e
    BY <2>2, EndsApart
  <2>4. B(f) = B(f1) <=> f = f1
    BY PublicFree DEF B
  <2>5. e1 = e => u.hash = v.hash
    BY <2>2
  <2> HIDE DEF u, v, x, y
  <2> QED BY <2>1, <2>3, <2>4, <2>5
<1>7. y.k # o.k
  <2> DEFINE u == Ended(s, t, e1, t1)
             v == Ended(s, t, e2, t2)
  <2>0. Psk2Names(u, B(f), {f, e1}, {f, s}, i.psk, v, B(f2), {f2, e2}, {f2, s}, r.psk)
    BY Psk2Free
  <2>1. y.k = o.k => u.chain = v.chain
    BY <2>0, Zenon DEF Psk2Names
  <2>2. u.chain = ChainEnd(s, t, e1) /\ v.chain = ChainEnd(s, t, e2)
    BY DEF Ended
  <2> HIDE DEF u, v, y, o
  <2> QED BY <2>1, <2>2, EndsApart
<1>8. x.ck # o.ck
  <2>0. Psk2Names(Ended(s, t, e, time), B(f1), {f1, e}, {f1, s}, r.psk,
                  Ended(s, t, e2, t2), B(f2), {f2, e2}, {f2, s}, r.psk)
    BY Psk2Free
  <2>1. x.ck = o.ck => B(f1) = B(f2)
    BY <2>0, Zenon DEF Psk2Names
  <2> HIDE DEF x, o
  <2> QED BY <2>1, PublicFree DEF B
<1> HIDE DEF x, o, y, w
<1>9. m2 = {} <=> f = f1 /\ ~ w
  BY DEF f, w, Terms!ResponseFields
<1>10. y.k = k /\ y.h = h <=> i.psk = r.psk /\ e = e1 /\ m2 = {}
  <2>1. CASE w
    BY <2>1, <1>7, <1>9 DEF k
  <2>2. CASE ~ w
    BY <2>2, <1>6, <1>9 DEF k, h
  <2> QED BY <2>1, <2>2
<1>11. done.res = "Ok" <=> i.psk = r.psk /\ e = e1 /\ m2 = {}
  BY <1>5, <1>10
<1>12. ASSUME done.res = "Ok"
       PROVE  /\ done.keys.send = reply.keys.recv /\ done.keys.recv = reply.keys.send
              /\ done.keys.local_index = inflight.local_index
              /\ reply.keys.peer_index = got.peer_index
              /\ done.keys.peer_index = reply.keys.local_index
              /\ done.keys.send # done.keys.recv
              /\ {done.keys.send, done.keys.recv} \cap
                   {reply_other.keys.send, reply_other.keys.recv} = {}
  <2> DEFINE empty == ""
             K(c, j) == Terms!kdf(c, empty, j)
             li == inflight.local_index
             keys == [send |-> K(y.ck, 1), recv |-> K(y.ck, 2), local_index |-> li,
                      peer_index |-> n.sender_index, is_initiator |-> TRUE]
  <2>1. y.ck = x.ck
    BY <1>6, <1>9, <1>11, <1>12
  <2>2. done.keys = keys
    BY <1>5, <1>12, Zenon
  <2>3. /\ reply.keys.send = K(x.ck, 2) /\ reply.keys.recv = K(x.ck, 1)
        /\ reply_other.keys.send = K(o.ck, 2) /\ reply_other.keys.recv = K(o.ck, 1)
    BY <1>1, <1>2, Zenon
  <2>4. \A a, b, j, l : K(a, j) = K(b, l) <=> a = b /\ j = l
    <3> HIDE DEF empty
    <3> QED BY KdfFree
  <2> HIDE DEF K
  <2>5. /\ done.keys.send = K(y.ck, 1) /\ done.keys.recv = K(y.ck, 2)
        /\ done.keys.local_index = li /\ done.keys.peer_index = n.sender_index
    BY <2>2
  <2>6. /\ done.keys.send # done.keys.recv
        /\ done.keys.send # reply_other.keys.send /\ done.keys.send # reply_other.keys.recv
        /\ done.keys.recv # reply_other.keys.send /\ done.keys.recv # reply_other.keys.recv
    BY <2>1, <2>3, <2>4, <2>5, <1>8
  <2>7. /\ done.keys.send = reply.keys.recv /\ done.keys.recv = reply.keys.send
        /\ done.keys.peer_index = reply.keys.local_index
        /\ reply.keys.peer_index = got.peer_index
    BY <2>1, <2>3, <2>5, <1>1, <1>3
  <2> QED BY <2>5, <2>6, <2>7, Zenon
<1> QED BY <1>11, <1>12 DEF reply, reply_other, done, n, ResponseKnown

\* The agreement holds whatever the indices, ephemerals, timestamps are called, as
\* long as the two handshakes have ephemerals of their own.
LEMMA HandshakeNamed ==
  ASSUME NEW i, NEW r, NEW ip, NEW rp, i.peer = Terms!x25519_base(ip),
         r.peer = Terms!x25519_base(rp), NEW m1 \in SUBSET Terms!InitiationFields,
         NEW m2 \in SUBSET Terms!ResponseFields, NEW i1, NEW i2, NEW e1, NEW e2, e1 # e2,
         NEW t1, NEW t2, NEW r1, NEW r2, NEW f1, NEW f2, f1 # f2
  PROVE  Agreement(i, r, m1, m2, i1, i2, e1, e2, t1, t2, r1, r2, f1, f2)
<1> DEFINE sent  == Terms!create_initiation(i, i1, e1, t1)
           other == Terms!create_initiation(i, i2, e2, t2)
           inflight == sent.inflight
           got   == Terms!consume_initiation(r, Terms!spliced(sent.msg, other.msg, m1))
           got_other == Terms!consume_initiation(r, other.msg)
           e == IF m1 = {} THEN e1 ELSE e2
           time == IF m1 = {} THEN t1 ELSE t2
           s == i.static
           B(z) == Terms!x25519_base(z)
           addressed == i.peer = B(r.static) /\ r.peer = B(s)
           known == [local_index |-> i1, eph_secret |-> e1,
                     chain |-> ChainEnd(s, ip, e1), hash |-> HashEnd(s, ip, e1, t1)]
           c1 == [res |-> "Ok", peer_index |-> i1, static_public |-> B(s),
                  timestamp |-> time, eph_public |-> B(e),
                  chain |-> ChainEnd(s, ip, e), hash |-> HashEnd(s, ip, e, time)]
           c2 == [res |-> "Ok", peer_index |-> i2, static_public |-> B(s),
                  timestamp |-> t2, eph_public |-> B(e2),
                  chain |-> ChainEnd(s, ip, e2), hash |-> HashEnd(s, ip, e2, t2)]
<1>1. InitiationKnown(i, r, ip, rp, m1, i1, i2, e1, e2, t1, t2)
  BY InitiationAgrees
<1>2. /\ inflight = known
      /\ got.res = "Ok" <=> ip = r.static /\ rp = s /\ m1 \in {{}, Terms!InitiationFields}
      /\ got.res = "UnknownPeer" => rp # s
      /\ got.res = "Ok" => got = c1 /\ got_other = c2
  BY <1>1, Zenon DEF InitiationKnown
<1> HIDE DEF inflight, got, got_other
<1>3. addressed <=> ip = r.static /\ rp = s
  BY PublicFree
<1>4. r.peer # B(s) <=> rp # s
  BY PublicFree
<1>5. e = e1 <=> m1 = {}
  OBVIOUS
<1>6. m1 = {} => time = t1
  OBVIOUS
<1>7. ASSUME got.res = "Ok"
      PROVE  /\ got.timestamp = IF m1 = {} THEN t1 ELSE t2
             /\ inflight.local_index = got.peer_index
             /\ ResponseKnown(i, r, inflight, got, got_other, e, e1, m2, r1, r2, f1, f2)
  <2> HIDE DEF s, e, time, B
  <2>1. /\ inflight.local_index = i1 /\ inflight.eph_secret = e1
        /\ inflight.chain = ChainEnd(s, ip, e1) /\ inflight.hash = HashEnd(s, ip, e1, t1)
    BY <1>2
  <2>2. /\ got.peer_index = i1 /\ got.static_public = B(s) /\ got.timestamp = time
        /\ got.eph_public = B(e) /\ got.chain = ChainEnd(s, ip, e)
        /\ got.hash = HashEnd(s, ip, e, time)
    BY <1>2, <1>7
  <2>3. /\ got_other.static_public = B(s) /\ got_other.eph_public = B(e2)
        /\ got_other.chain = ChainEnd(s, ip, e2) /\ got_other.hash = HashEnd(s, ip, e2, t2)
    BY <1>2, <1>7
  <2>4. s = i.static
    BY DEF s
  <2>5. e = e1 => time = t1
    BY <1>5, <1>6
  <2>6. ResponseKnown(i, r, inflight, got, got_other, e, e1, m2, r1, r2, f1, f2)
    BY <2>1, <2>2, <2>3, <2>4, <2>5, ResponseAgrees, Zenon DEF B
  <2> QED BY <2>1, <2>2, <2>6 DEF time
<1> DEFINE reply == Terms!create_response(got, r, r1, f1)
           reply_other == Terms!create_response(got_other, r, r2, f2)
           done == Terms!consume_response(inflight, i,
                                          Terms!spliced(reply.msg, reply_other.msg, m2))
<1>8. ASSUME got.res = "Ok"
      PROVE  /\ done.res = "Ok" <=> i.psk = r.psk /\ m1 = {} /\ m2 = {}
             /\ done.res = "Ok" =>
                  /\ done.keys.send = reply.keys.recv /\ done.keys.recv = reply.keys.send
                  /\ done.keys.local_index = reply.keys.peer_index
                  /\ done.keys.peer_index = reply.keys.local_index
                  /\ done.keys.send # done.keys.recv
                  /\ {done.keys.send, done.keys.recv} \cap
                       {reply_other.keys.send, reply_other.keys.recv} = {}
  <2>1. /\ done.res = "Ok" <=> i.psk = r.psk /\ e = e1 /\ m2 = {}
        /\ done.res = "Ok" =>
                  /\ done.keys.send = reply.keys.recv /\ done.keys.recv = reply.keys.send
                  /\ done.keys.local_index = inflight.local_index
                  /\ reply.keys.peer_index = got.peer_index
                  /\ done.keys.peer_index = reply.keys.local_index
                  /\ done.keys.send # done.keys.recv
                  /\ {done.keys.send, done.keys.recv} \cap
                       {reply_other.keys.send, reply_other.keys.recv} = {}
    BY <1>7, <1>8, Zenon DEF ResponseKnown
  <2> HIDE DEF done, reply, reply_other, e
  <2> QED BY <2>1, <1>5, <1>7, <1>8
<1> HIDE DEF reply, reply_other, done, addressed
<1>9. got.res = "Ok" <=> addressed /\ m1 \in {{}, Terms!InitiationFields}
  BY <1>2, <1>3, Zenon
<1>10. /\ got.res = "Ok" => got.timestamp = IF m1 = {} THEN t1 ELSE t2
       /\ got.res = "UnknownPeer" => r.peer # B(s)
  BY <1>2, <1>4, <1>7
<1> QED
  BY <1>8, <1>9, <1>10, Zenon
     DEF Agreement, reply, reply_other, done, got, got_other, inflight, addressed

\* Two parties with any static and preshared keys, each configured with any peer, and
\* messages of which any fields were replaced on the way: the responder accepts exactly
\* a whole initiation of its peer made for it, the initiator exactly a whole response to
\* its own initiation under its preshared key, and both then hold the same two keys,
\* different in the two directions and from those of another handshake
\* (create_initiation, consume_initiation, create_response, consume_response).
THEOREM HandshakeAgrees ==
  ASSUME NEW i \in Parties, NEW r \in Parties,
         NEW in_initiation \in SUBSET Terms!InitiationFields,
         NEW in_response \in SUBSET Terms!ResponseFields
  PROVE  Terms!KeysAgree(i, r, in_initiation, in_response)
<1>1. PICK ip \in Secrets : i.peer = Terms!x25519_base(ip)
  BY DEF Parties
<1>2. PICK rp \in Secrets : r.peer = Terms!x25519_base(rp)
  BY DEF Parties
<1> DEFINE m1 == in_initiation
           m2 == in_response
           sent == Terms!create_initiation(i, "i1", "e1", "t1")
<1>3. Agreement(i, r, m1, m2, "i1", "i2", "e1", "e2", "t1", "t2", "r1", "r2", "f1", "f2")
  <2> SUFFICES ASSUME NEW e1, NEW e2, NEW f1, NEW f2, e1 # e2, f1 # f2,
                      NEW i1, NEW i2, NEW t1, NEW t2, NEW r1, NEW r2
               PROVE  Agreement(i, r, m1, m2, i1, i2, e1, e2, t1, t2, r1, r2, f1, f2)
    BY Zenon
  <2> QED BY <1>1, <1>2, HandshakeNamed
<1>4. Terms!consume_initiation(r, [sent.msg EXCEPT !.ephemeral = Terms!LowOrder]).res
        = "InvalidPublicKey"
  <2> DEFINE low == [sent.msg EXCEPT !.ephemeral = Terms!LowOrder]
  <2>1. "ephemeral" \in DOMAIN sent.msg
    <3> SUFFICES ASSUME NEW i1, NEW e1, NEW t1
                 PROVE  "ephemeral" \in DOMAIN Terms!create_initiation(i, i1, e1, t1).msg
      BY Zenon
    <3> QED BY <1>1, Created
  <2> HIDE DEF sent
  <2>2. low.ephemeral = Terms!LowOrder
    BY <2>1, Zenon
  <2> HIDE DEF low
  <2>3. Terms!consume_initiation(r, low).res = "InvalidPublicKey"
    BY <2>2, LowRefused
  <2> QED BY <2>3 DEF low
<1>5. Terms!consume_response(sent.inflight, i, [ephemeral |-> Terms!LowOrder]).res
        = "InvalidPublicKey"
  <2> DEFINE low == [ephemeral |-> Terms!LowOrder]
  <2>1. low.ephemeral = Terms!LowOrder
    OBVIOUS
  <2> HIDE DEF low, sent
  <2>2. Terms!consume_response(sent.inflight, i, low).res = "InvalidPublicKey"
    BY <2>1, LowRefused
  <2> QED BY <2>2 DEF low
<1> QED BY <1>3, <1>4, <1>5, Zenon DEF Terms!KeysAgree, Agreement

-----------------------------------------------------------------------------
(* Sequences cut and joined *)

\* A sequence put before another is cut off again, from either side.
LEMMA CutConcat ==
  ASSUME NEW S, NEW s \in Seq(S), NEW t \in Seq(S)
  PROVE  /\ SubSeq(s \o t, 1, Len(s)) = s
         /\ SubSeq(s \o t, Len(s) + 1, Len(s) + Len(t)) = t
         /\ s \o t \in Seq(S) /\ Len(s \o t) = Len(s) + Len(t)
<1> DEFINE u == s \o t
<1>1. /\ u \in Seq(S) /\ Len(u) = Len(s) + Len(t) /\ Len(s) \in Nat /\ Len(t) \in Nat
      /\ \A i \in 1 .. Len(s) + Len(t) : u[i] = IF i <= Len(s) THEN s[i] ELSE t[i - Len(s)]
  BY ConcatProperties, LenProperties
<1> HIDE DEF u
<1>2. SubSeq(u, 1, Len(s)) = s
  <2>1. \A i \in 1 .. Len(s) : u[i] \in S
    BY <1>1, ElementOfSeq
  <2> DEFINE v == SubSeq(u, 1, Len(s))
  <2>2. /\ v \in Seq(S) /\ Len(v) = Len(s)
        /\ \A i \in 1 .. Len(s) : v[i] = u[i]
    BY <1>1, <2>1, SubSeqProperties
  <2> HIDE DEF v
  <2>3. \A i \in 1 .. Len(v) : v[i] = s[i]
    BY <1>1, <2>2
  <2>4. v = s
    BY <2>2, <2>3, SeqEqual
  <2> QED BY <2>4 DEF v
<1>3. SubSeq(u, Len(s) + 1, Len(s) + Len(t)) = t
  <2> DEFINE m == Len(s) + 1
             n == Len(s) + Len(t)
             v == SubSeq(u, m, n)
  <2>1. \A i \in m .. n : u[i] \in S
    BY <1>1, ElementOfSeq
  <2>2. m \in Int /\ n \in Int /\ n - m + 1 = Len(t) /\ (m <= n \/ Len(t) = 0)
    BY <1>1
  <2>3. /\ v \in Seq(S) /\ Len(v) = IF m <= n THEN n - m + 1 ELSE 0
        /\ \A i \in 1 .. n - m + 1 : v[i] = u[m + i - 1]
    <3> HIDE DEF m, n
    <3> QED BY <2>1, <2>2, SubSeqProperties
  <2>4. Len(v) = Len(t)
    BY <2>2, <2>3, <1>1
  <2> HIDE DEF v
  <2>5. ASSUME NEW i \in 1 .. Len(v) PROVE v[i] = t[i]
    <3>1. v[i] = u[m + i - 1] /\ m + i - 1 = Len(s) + i
      BY <2>2, <2>3, <2>4, <1>1
    <3>2. /\ Len(s) + i \in 1 .. Len(s) + Len(t) /\ ~ (Len(s) + i <= Len(s))
          /\ Len(s) + i - Len(s) = i
      BY <2>4, <1>1
    <3>3. u[Len(s) + i] = t[i]
      BY <3>2, <1>1
    <3> QED BY <3>1, <3>3
  <2>6. v = t
    BY <2>3, <2>4, <2>5, SeqEqual
  <2> QED BY <2>6 DEF v
<1> QED BY <1>1, <1>2, <1>3 DEF u

\* A sequence over a set is one over a larger set.
LEMMA Wider ==
  ASSUME NEW S, NEW T, S \subseteq T, NEW s \in Seq(S)
  PROVE  s \in Seq(T)
<1>1. Len(s) \in Nat /\ s \in [1 .. Len(s) -> S]
  BY LenProperties
<1>2. s \in [1 .. Len(s) -> T]
  BY <1>1
<1> QED BY <1>1, <1>2, SeqDef

\* A function on an initial segment is a sequence.
LEMMA AsSeq ==
  ASSUME NEW S, NEW n \in Nat, NEW f \in [1 .. n -> S]
  PROVE  f \in Seq(S) /\ Len(f) = n
  BY SeqDef

-----------------------------------------------------------------------------
(* The key derivations *)

\* The parts of two messages are the same when the first are as long.
LEMMA SplitAlike ==
  ASSUME NEW S, NEW s \in Seq(S), NEW t \in Seq(S), NEW s2 \in Seq(S), NEW t2 \in Seq(S)
  PROVE  Len(s) = Len(s2) /\ s \o t = s2 \o t2 => s = s2 /\ t = t2
<1>1. /\ SubSeq(s \o t, 1, Len(s)) = s
      /\ SubSeq(s \o t, Len(s) + 1, Len(s) + Len(t)) = t /\ Len(s \o t) = Len(s) + Len(t)
  BY CutConcat
<1>2. /\ SubSeq(s2 \o t2, 1, Len(s2)) = s2
      /\ SubSeq(s2 \o t2, Len(s2) + 1, Len(s2) + Len(t2)) = t2
      /\ Len(s2 \o t2) = Len(s2) + Len(t2)
  BY CutConcat
<1>3. Len(s) \in Nat /\ Len(t) \in Nat /\ Len(s2) \in Nat /\ Len(t2) \in Nat
  BY LenProperties
<1>4. ASSUME Len(s) = Len(s2), s \o t = s2 \o t2 PROVE s = s2 /\ t = t2
  <2>1. Len(t) = Len(t2)
    BY <1>1, <1>2, <1>3, <1>4
  <2> QED BY <1>1, <1>2, <1>4, <2>1
<1> QED BY <1>4

Splits(s, t, s2, t2) == Len(s) = Len(s2) /\ s \o t = s2 \o t2 => s = s2 /\ t = t2

\* The same, of messages with different bytes in them.
LEMMA SplitApart ==
  ASSUME NEW A, NEW B, NEW C, NEW D, NEW s \in Seq(A), NEW t \in Seq(B),
         NEW s2 \in Seq(C), NEW t2 \in Seq(D)
  PROVE  Splits(s, t, s2, t2)
<1> DEFINE S == A \cup B \cup C \cup D
<1>1. A \subseteq S /\ B \subseteq S /\ C \subseteq S /\ D \subseteq S
  OBVIOUS
<1> HIDE DEF S
<1>2. s \in Seq(S) /\ t \in Seq(S) /\ s2 \in Seq(S) /\ t2 \in Seq(S)
  BY <1>1, Wider
<1> QED BY <1>2, SplitAlike DEF Splits

\* The bytes of a digest.
DigestCells(parts) == {Digest(parts)[i] : i \in 1 .. DIGEST}

\* A digest is a sequence of DIGEST bytes.
LEMMA DigestBytes ==
  ASSUME NEW parts
  PROVE  Digest(parts) \in Seq(DigestCells(parts)) /\ Len(Digest(parts)) = DIGEST
<1> DEFINE d == Digest(parts)
           C == DigestCells(parts)
<1>1. DOMAIN d = 1 .. DIGEST /\ d = [i \in 1 .. DIGEST |-> d[i]]
  BY DEF Digest
<1>2. d \in [1 .. DIGEST -> C]
  <2> HIDE DEF d
  <2>1. \A i \in 1 .. DIGEST : d[i] \in C
    BY DEF DigestCells, d
  <2> HIDE DEF C
  <2> QED BY <1>1, <2>1
<1> HIDE DEF d, C
<1>3. DIGEST \in Nat
  BY SizeAssumption
<1>4. d \in Seq(C) /\ Len(d) = DIGEST
  BY <1>2, <1>3, AsSeq
<1> QED BY <1>4 DEF d, C

\* Other bytes have another digest.
LEMMA DigestNames ==
  ASSUME NEW p, NEW q, Digest(p) = Digest(q)
  PROVE  Absorbed3(p) = Absorbed3(q)
<1> DEFINE a == Absorbed3(p)
           b == Absorbed3(q)
           h == "hash"
<1>1. Digest(p) = [i \in 1 .. DIGEST |-> <<h, a, i>>] /\ Digest(q) = [i \in 1 .. DIGEST |-> <<h, b, i>>]
  BY Zenon DEF Digest
<1> HIDE DEF a, b, h
<1>2. [i \in 1 .. DIGEST |-> <<h, a, i>>][1] = [i \in 1 .. DIGEST |-> <<h, b, i>>][1]
  BY <1>1
<1>3. <<h, a, 1>> = <<h, b, 1>>
  BY <1>2, SizeAssumption
<1>4. a = b
  BY <1>3
<1> QED BY <1>4 DEF a, b

\* What is absorbed of one part,
LEMMA AbsorbedOne ==
  ASSUME NEW x
  PROVE  Absorbed3(<<x>>) = x
  BY DEF Absorbed3

\* of two,
LEMMA AbsorbedTwo ==
  ASSUME NEW x, NEW y
  PROVE  Absorbed3(<<x, y>>) = x \o y /\ Absorbed3(<<x>> \o <<y>>) = x \o y
<1>1. Absorbed3(<<x, y>>) = x \o y
  <2> DEFINE e == <<x, y>>
  <2>1. Len(e) = 2 /\ e[1] = x /\ e[2] = y
    OBVIOUS
  <2> HIDE DEF e
  <2>2. Absorbed3(e) = e[1] \o e[2]
    BY <2>1 DEF Absorbed3
  <2> QED BY <2>1, <2>2 DEF e
<1>2. Absorbed3(<<x>> \o <<y>>) = x \o y
  <2> DEFINE e == <<x>> \o <<y>>
  <2>1. Len(e) = 2 /\ e[1] = x /\ e[2] = y
    OBVIOUS
  <2> HIDE DEF e
  <2>2. Absorbed3(e) = e[1] \o e[2]
    BY <2>1 DEF Absorbed3
  <2> QED BY <2>1, <2>2 DEF e
<1> QED BY <1>1, <1>2

\* What hash absorbs of three parts.
AbsorbsThree(x, y, z) == Absorbed3(<<x>> \o <<y, z>>) = x \o y \o z

\* Three parts are absorbed in their order.
LEMMA AbsorbedThree ==
  ASSUME NEW x, NEW y, NEW z
  PROVE  AbsorbsThree(x, y, z)
<1> DEFINE e == <<x>> \o <<y, z>>
<1>1. Len(e) = 3 /\ e[1] = x /\ e[2] = y /\ e[3] = z
  OBVIOUS
<1> HIDE DEF e
<1>2. Absorbed3(e) = e[1] \o e[2] \o e[3]
  BY <1>1 DEF Absorbed3
<1> QED BY <1>1, <1>2 DEF e, AbsorbsThree

\* The key padded to a block, and the two blocks that HMAC makes of it.
KeyBlock(key) ==
  LET short == IF Len(key) > BLOCK THEN Digest(<<key>>) ELSE key
  IN  short \o Derive!zeros(BLOCK - Len(short))
PadBlock(c, key) == [i \in 1 .. BLOCK |-> <<"xor", c, KeyBlock(key)[i]>>]
PadCells(c, key) == {PadBlock(c, key)[i] : i \in 1 .. BLOCK}
Inner(key) == PadBlock("ipad", key)
Outer(key) == PadBlock("opad", key)

\* They are blocks.
LEMMA PadBytes ==
  ASSUME NEW c, NEW key
  PROVE  PadBlock(c, key) \in Seq(PadCells(c, key)) /\ Len(PadBlock(c, key)) = BLOCK
<1> DEFINE d == PadBlock(c, key)
           C == PadCells(c, key)
<1>1. DOMAIN d = 1 .. BLOCK /\ d = [i \in 1 .. BLOCK |-> d[i]]
  BY DEF PadBlock
<1>2. d \in [1 .. BLOCK -> C]
  <2> HIDE DEF d
  <2>1. \A i \in 1 .. BLOCK : d[i] \in C
    BY DEF PadCells, d
  <2> HIDE DEF C
  <2> QED BY <1>1, <2>1
<1> HIDE DEF d, C
<1>3. BLOCK \in Nat
  BY SizeAssumption
<1>4. d \in Seq(C) /\ Len(d) = BLOCK
  BY <1>2, <1>3, AsSeq
<1> QED BY <1>4 DEF d, C

\* hmac, with its parts named.
LEMMA HmacDef ==
  ASSUME NEW key, NEW parts
  PROVE  Derive!hmac(key, parts) = Digest(<<Outer(key), Digest(<<Inner(key)>> \o parts)>>)
  BY Zenon DEF Derive!hmac, Outer, Inner, PadBlock, KeyBlock

\* Two equal results of hmac were keyed and fed alike.
LEMMA HmacNames ==
  ASSUME NEW a, NEW b, NEW p, NEW q, Derive!hmac(a, p) = Derive!hmac(b, q)
  PROVE  Outer(a) = Outer(b) /\ Absorbed3(<<Inner(a)>> \o p) = Absorbed3(<<Inner(b)>> \o q)
<1> DEFINE ip == <<Inner(a)>> \o p
           iq == <<Inner(b)>> \o q
           oa == Outer(a)
           ob == Outer(b)
           da == Digest(ip)
           db == Digest(iq)
<1>1. Digest(<<oa, da>>) = Digest(<<ob, db>>)
  BY HmacDef, Zenon
<1>2. Absorbed3(<<oa, da>>) = Absorbed3(<<ob, db>>)
  <2> HIDE DEF oa, da, ob, db
  <2> QED BY <1>1, DigestNames
<1>3. oa \o da = ob \o db
  <2> HIDE DEF oa, da, ob, db
  <2> QED BY <1>2, AbsorbedTwo
<1>4. /\ oa \in Seq(PadCells("opad", a)) /\ ob \in Seq(PadCells("opad", b)) /\ Len(oa) = Len(ob)
  BY PadBytes DEF Outer
<1>5. /\ da \in Seq(DigestCells(ip)) /\ db \in Seq(DigestCells(iq))
  BY DigestBytes
<1>6. oa = ob /\ da = db
  <2> DEFINE A == PadCells("opad", a)
             B == PadCells("opad", b)
             C == DigestCells(ip)
             D == DigestCells(iq)
  <2>1. oa \in Seq(A) /\ da \in Seq(C) /\ ob \in Seq(B) /\ db \in Seq(D) /\ Len(oa) = Len(ob)
    BY <1>4, <1>5
  <2> HIDE DEF oa, da, ob, db, A, B, C, D
  <2>2. oa \in Seq(A) /\ da \in Seq(C) /\ ob \in Seq(B) /\ db \in Seq(D)
    BY <2>1
  <2>3. Splits(oa, da, ob, db)
    BY <2>2, SplitApart
  <2> QED BY <1>3, <2>1, <2>3, Zenon DEF Splits
<1>7. Absorbed3(ip) = Absorbed3(iq)
  <2> HIDE DEF ip, iq
  <2> QED BY <1>6, DigestNames
<1> QED BY <1>6, <1>7

\* The key block begins with the key, or with its digest when it is longer.
LEMMA KeyBlockBegins ==
  ASSUME NEW B, NEW key \in Seq(B)
  PROVE  /\ Len(key) <= BLOCK => \A i \in 1 .. Len(key) : KeyBlock(key)[i] = key[i]
         /\ Len(key) > BLOCK => \A i \in 1 .. DIGEST : KeyBlock(key)[i] = Digest(<<key>>)[i]
<1>1. ASSUME NEW C, NEW s \in Seq(C), Len(s) <= BLOCK
      PROVE  \A i \in 1 .. Len(s) : (s \o Derive!zeros(BLOCK - Len(s)))[i] = s[i]
  <2> DEFINE k == BLOCK - Len(s)
             z == Derive!zeros(k)
             S == C \cup {0}
             d == s \o z
  <2>1. k \in Nat /\ Len(s) \in Nat
    BY <1>1, SizeAssumption, LenProperties
  <2>2. z \in [1 .. k -> {0}]
    <3> HIDE DEF k
    <3> QED BY DEF Derive!zeros
  <2> HIDE DEF z, k
  <2>3. z \in Seq({0}) /\ Len(z) = k
    BY <2>1, <2>2, AsSeq
  <2>4. C \subseteq S /\ {0} \subseteq S
    OBVIOUS
  <2> HIDE DEF S
  <2>5. s \in Seq(S) /\ z \in Seq(S)
    BY <2>3, <2>4, Wider
  <2>6. \A i \in 1 .. Len(s) + Len(z) : d[i] = IF i <= Len(s) THEN s[i] ELSE z[i - Len(s)]
    BY <2>5, ConcatProperties
  <2> HIDE DEF d
  <2>7. \A i \in 1 .. Len(s) : i \in 1 .. Len(s) + Len(z) /\ i <= Len(s)
    BY <2>1, <2>3
  <2>8. \A i \in 1 .. Len(s) : d[i] = s[i]
    BY <2>6, <2>7
  <2> QED BY <2>8 DEF d, z, k
<1>2. ASSUME Len(key) <= BLOCK PROVE \A i \in 1 .. Len(key) : KeyBlock(key)[i] = key[i]
  <2>1. ~ (Len(key) > BLOCK)
    BY <1>2, SizeAssumption, LenProperties
  <2>2. KeyBlock(key) = key \o Derive!zeros(BLOCK - Len(key))
    BY <2>1, Zenon DEF KeyBlock
  <2>3. \A i \in 1 .. Len(key) : (key \o Derive!zeros(BLOCK - Len(key)))[i] = key[i]
    BY <1>1, <1>2
  <2> QED BY <2>2, <2>3
<1>3. ASSUME Len(key) > BLOCK PROVE \A i \in 1 .. DIGEST : KeyBlock(key)[i] = Digest(<<key>>)[i]
  <2> DEFINE p == <<key>>
             s == Digest(p)
             C == DigestCells(p)
  <2>1. KeyBlock(key) = s \o Derive!zeros(BLOCK - Len(s))
    BY <1>3, Zenon DEF KeyBlock
  <2>2. s \in Seq(C) /\ Len(s) = DIGEST
    <3> HIDE DEF p
    <3> QED BY DigestBytes
  <2> HIDE DEF s, C
  <2>3. Len(s) <= BLOCK
    BY <2>2, SizeAssumption
  <2>4. \A i \in 1 .. Len(s) : (s \o Derive!zeros(BLOCK - Len(s)))[i] = s[i]
    BY <1>1, <2>2, <2>3
  <2>5. \A i \in 1 .. DIGEST : KeyBlock(key)[i] = s[i]
    BY <2>1, <2>2, <2>4
  <2> QED BY <2>5 DEF s
<1> QED BY <1>2, <1>3

\* Keys of the same length with the same block are the same.
LEMMA PadNames ==
  ASSUME NEW A, NEW B, NEW a \in Seq(A), NEW b \in Seq(B), Len(a) = Len(b), NEW c,
         PadBlock(c, a) = PadBlock(c, b)
  PROVE  a = b
<1> DEFINE ka == KeyBlock(a)
           kb == KeyBlock(b)
           x == "xor"
<1>1. PadBlock(c, a) = [i \in 1 .. BLOCK |-> <<x, c, ka[i]>>] /\ PadBlock(c, b) = [i \in 1 .. BLOCK |-> <<x, c, kb[i]>>]
  BY Zenon DEF PadBlock
<1> HIDE DEF ka, kb, x
<1>2. ASSUME NEW i \in 1 .. BLOCK PROVE ka[i] = kb[i]
  <2>1. PadBlock(c, a)[i] = <<x, c, ka[i]>> /\ PadBlock(c, b)[i] = <<x, c, kb[i]>>
    BY <1>1
  <2>2. <<x, c, ka[i]>> = <<x, c, kb[i]>>
    BY <2>1
  <2> QED BY <2>2
<1>3. Len(a) \in Nat
  BY LenProperties
<1>4. CASE Len(a) <= BLOCK
  <2>1. \A i \in 1 .. Len(a) : ka[i] = a[i]
    BY <1>4, KeyBlockBegins DEF ka
  <2>2. \A i \in 1 .. Len(b) : kb[i] = b[i]
    BY <1>4, KeyBlockBegins DEF kb
  <2>3. \A i \in 1 .. Len(a) : a[i] = b[i]
    <3>1. SUFFICES ASSUME NEW i \in 1 .. Len(a) PROVE a[i] = b[i]
      OBVIOUS
    <3>2. i \in 1 .. BLOCK /\ i \in 1 .. Len(b)
      BY <1>3, <1>4, SizeAssumption
    <3>3. ka[i] = kb[i]
      BY <1>2, <3>2
    <3> QED BY <2>1, <2>2, <3>2, <3>3
  <2> DEFINE S == A \cup B
  <2>4. A \subseteq S /\ B \subseteq S
    OBVIOUS
  <2> HIDE DEF S
  <2>5. a \in Seq(S) /\ b \in Seq(S)
    BY <2>4, Wider
  <2> QED BY <2>3, <2>5, SeqEqual
<1>5. CASE ~ (Len(a) <= BLOCK)
  <2> DEFINE pa == <<a>>
             pb == <<b>>
             da == Digest(pa)
             db == Digest(pb)
  <2>0. Len(a) > BLOCK /\ Len(b) > BLOCK
    BY <1>3, <1>5, SizeAssumption
  <2>1. \A i \in 1 .. DIGEST : ka[i] = da[i]
    BY <2>0, KeyBlockBegins DEF ka
  <2>2. \A i \in 1 .. DIGEST : kb[i] = db[i]
    BY <2>0, KeyBlockBegins DEF kb
  <2> HIDE DEF pa, pb
  <2>3. da = [i \in 1 .. DIGEST |-> da[i]] /\ db = [i \in 1 .. DIGEST |-> db[i]]
    BY DEF Digest
  <2> HIDE DEF da, db
  <2>4. \A i \in 1 .. DIGEST : da[i] = db[i]
    <3>1. SUFFICES ASSUME NEW i \in 1 .. DIGEST PROVE da[i] = db[i]
      OBVIOUS
    <3>2. i \in 1 .. BLOCK
      BY SizeAssumption
    <3>3. ka[i] = kb[i]
      BY <1>2, <3>2
    <3> QED BY <2>1, <2>2, <3>3
  <2>5. da = db
    BY <2>3, <2>4
  <2>6. Absorbed3(pa) = Absorbed3(pb)
    BY <2>5, DigestNames DEF da, db
  <2> QED BY <2>6, AbsorbedOne DEF pa, pb
<1> QED BY <1>4, <1>5

\* A sequence of DIGEST bytes.
IsDigest(d) == \E C : d \in Seq(C) /\ Len(d) = DIGEST

\* A result of hmac is DIGEST bytes.
LEMMA HmacBytes ==
  ASSUME NEW key, NEW parts
  PROVE  IsDigest(Derive!hmac(key, parts))
<1> DEFINE p == <<Outer(key), Digest(<<Inner(key)>> \o parts)>>
<1>1. Derive!hmac(key, parts) = Digest(p)
  BY HmacDef
<1> HIDE DEF p
<1> QED BY <1>1, DigestBytes DEF IsDigest

\* Messages that are the same end alike.
LEMMA SameLast ==
  ASSUME NEW A, NEW B, NEW x \in Seq(A), NEW y \in Seq(B), NEW i, NEW j, x \o <<i>> = y \o <<j>>
  PROVE  i = j
<1> DEFINE S == A \cup B \cup {i, j}
           si == <<i>>
           sj == <<j>>
<1>1. si \in Seq(S) /\ sj \in Seq(S) /\ Len(si) = 1 /\ Len(sj) = 1 /\ si[1] = i /\ sj[1] = j
  OBVIOUS
<1>2. A \subseteq S /\ B \subseteq S
  OBVIOUS
<1> HIDE DEF S, si, sj
<1>3. x \in Seq(S) /\ y \in Seq(S)
  BY <1>2, Wider
<1>4. /\ Len(x \o si) = Len(x) + Len(si) /\ SubSeq(x \o si, Len(x) + 1, Len(x) + Len(si)) = si
  <2>1. x \in Seq(S) /\ si \in Seq(S)
    BY <1>1, <1>3
  <2> QED BY <2>1, CutConcat
<1>5. /\ Len(y \o sj) = Len(y) + Len(sj) /\ SubSeq(y \o sj, Len(y) + 1, Len(y) + Len(sj)) = sj
  <2>1. y \in Seq(S) /\ sj \in Seq(S)
    BY <1>1, <1>3
  <2> QED BY <2>1, CutConcat
<1>6. Len(x) \in Nat /\ Len(y) \in Nat
  BY LenProperties
<1>7. x \o si = y \o sj
  BY DEF si, sj
<1>8. Len(x) = Len(y)
  BY <1>1, <1>4, <1>5, <1>6, <1>7
<1>9. si = sj
  BY <1>1, <1>4, <1>5, <1>7, <1>8
<1> QED BY <1>1, <1>9

\* The output k of number i under the extracted key t.
OutputOf(k, t, i) ==
  \E q, C, x : /\ k = Derive!hmac(t, q) /\ x \in Seq(C)
               /\ Absorbed3(<<Inner(t)>> \o q) = x \o <<i>>

\* An output tells its number and key.
LEMMA OutputNames ==
  ASSUME NEW t, NEW u, IsDigest(t), IsDigest(u), NEW k, NEW i, NEW j,
         OutputOf(k, t, i), OutputOf(k, u, j)
  PROVE  i = j /\ t = u
<1>1. PICK q, C, x : /\ k = Derive!hmac(t, q) /\ x \in Seq(C)
                     /\ Absorbed3(<<Inner(t)>> \o q) = x \o <<i>>
  BY Zenon DEF OutputOf
<1>2. PICK r, D, y : /\ k = Derive!hmac(u, r) /\ y \in Seq(D)
                     /\ Absorbed3(<<Inner(u)>> \o r) = y \o <<j>>
  BY Zenon DEF OutputOf
<1>3. Derive!hmac(t, q) = Derive!hmac(u, r)
  BY <1>1, <1>2
<1>4. Outer(t) = Outer(u) /\ Absorbed3(<<Inner(t)>> \o q) = Absorbed3(<<Inner(u)>> \o r)
  BY <1>3, HmacNames
<1>5. x \o <<i>> = y \o <<j>>
  BY <1>1, <1>2, <1>4
<1>6. i = j
  <2>1. x \in Seq(C) /\ y \in Seq(D)
    BY <1>1, <1>2
  <2> QED BY <1>5, <2>1, SameLast
<1>7. t = u
  <2>1. PICK E : t \in Seq(E) /\ Len(t) = DIGEST
    BY DEF IsDigest
  <2>2. PICK F : u \in Seq(F) /\ Len(u) = DIGEST
    BY DEF IsDigest
  <2> DEFINE c == "opad"
  <2>3. PadBlock(c, t) = PadBlock(c, u)
    BY <1>4 DEF Outer
  <2> HIDE DEF c
  <2>4. Len(t) = Len(u)
    BY <2>1, <2>2
  <2> QED BY <2>1, <2>2, <2>3, <2>4, PadNames
<1> QED BY <1>6, <1>7

\* The first output, and one that is chained to the output y before it.
LEMMA Outputs ==
  ASSUME NEW t, NEW y, IsDigest(y), NEW i
  PROVE  OutputOf(Derive!hmac(t, << <<i>> >>), t, i) /\ OutputOf(Derive!hmac(t, <<y, <<i>> >>), t, i)
<1> DEFINE n == <<i>>
           C == PadCells("ipad", t)
           p == Inner(t)
<1>1. p \in Seq(C)
  BY PadBytes DEF Inner
<1> HIDE DEF n, C, p
<1>2. Absorbed3(<<p>> \o <<n>>) = p \o n
  BY AbsorbedTwo
<1>3. Absorbed3(<<p>> \o <<y, n>>) = p \o y \o n
  <2>1. AbsorbsThree(p, y, n)
    BY AbsorbedThree
  <2> QED BY <2>1 DEF AbsorbsThree
<1>4. OutputOf(Derive!hmac(t, <<n>>), t, i)
  BY <1>1, <1>2, Zenon DEF OutputOf, n, p
<1>5. PICK D : y \in Seq(D)
  BY DEF IsDigest
<1> DEFINE S == C \cup D
<1>6. C \subseteq S /\ D \subseteq S
  OBVIOUS
<1> HIDE DEF S
<1>7. p \in Seq(S) /\ y \in Seq(S)
  BY <1>1, <1>5, <1>6, Wider
<1>8. p \o y \in Seq(S)
  BY <1>7, CutConcat
<1>9. OutputOf(Derive!hmac(t, <<y, n>>), t, i)
  BY <1>3, <1>8, Zenon DEF OutputOf, n, p
<1> QED BY <1>4, <1>9 DEF n

\* Equal extracted keys come from the same key and input.
LEMMA ExtractNames ==
  ASSUME NEW B, NEW key \in Seq(B), NEW key2 \in Seq(B), Len(key) = Len(key2),
         NEW input \in Seq(B), NEW input2 \in Seq(B),
         Derive!hmac(key, <<input>>) = Derive!hmac(key2, <<input2>>)
  PROVE  key = key2 /\ input = input2
<1> DEFINE p == <<input>>
           q == <<input2>>
           c == "opad"
<1>1. Outer(key) = Outer(key2) /\ Absorbed3(<<Inner(key)>> \o p) = Absorbed3(<<Inner(key2)>> \o q)
  <2> HIDE DEF p, q
  <2>1. Derive!hmac(key, p) = Derive!hmac(key2, q)
    BY DEF p, q
  <2> QED BY <2>1, HmacNames
<1>2. key = key2
  <2>1. PadBlock(c, key) = PadBlock(c, key2)
    BY <1>1 DEF Outer
  <2> HIDE DEF c
  <2> QED BY <2>1, PadNames
<1> DEFINE i == Inner(key)
           C == PadCells("ipad", key)
<1>3. i \in Seq(C)
  BY PadBytes DEF Inner
<1> HIDE DEF i, C
<1>4. Absorbed3(<<i>> \o <<input>>) = Absorbed3(<<i>> \o <<input2>>)
  BY <1>1, <1>2 DEF i
<1>5. i \o input = i \o input2
  BY <1>4, AbsorbedTwo
<1>6. Splits(i, input, i, input2)
  BY <1>3, SplitApart
<1>7. input = input2
  BY <1>5, <1>6, Zenon DEF Splits
<1> QED BY <1>2, <1>7

\* The outputs of the key derivations are what the handshake takes them for, for
\* all keys and inputs: named by the key, the input and the number.
THEOREM DerivationsSeparate ==
  ASSUME NEW B, NEW key \in Seq(B), NEW key2 \in Seq(B), Len(key) = Len(key2),
         NEW input \in Seq(B), NEW input2 \in Seq(B)
  PROVE  Derive!KdfSeparates(key, input, key2, input2)
<1> DEFINE t == Derive!hmac(key, <<input>>)
           k1 == Derive!hmac(t, << <<1>> >>)
           k2 == Derive!hmac(t, <<k1, <<2>> >>)
           k3 == Derive!hmac(t, <<k2, <<3>> >>)
           u == Derive!hmac(key2, <<input2>>)
           l1 == Derive!hmac(u, << <<1>> >>)
           l2 == Derive!hmac(u, <<l1, <<2>> >>)
           l3 == Derive!hmac(u, <<l2, <<3>> >>)
           k == Derive!kdf3(key, input)
           l == Derive!kdf3(key2, input2)
<1>1. /\ k = <<k1, k2, k3>> /\ l = <<l1, l2, l3>>
      /\ Derive!kdf1(key, input) = k1 /\ Derive!kdf2(key, input) = <<k1, k2>>
  BY Zenon DEF Derive!kdf1, Derive!kdf2, Derive!kdf3
<1>2. IsDigest(t) /\ IsDigest(k1) /\ IsDigest(k2) /\ IsDigest(u) /\ IsDigest(l1) /\ IsDigest(l2)
  BY HmacBytes
<1>3. OutputOf(k1, t, 1) /\ OutputOf(k2, t, 2) /\ OutputOf(k3, t, 3)
  <2> HIDE DEF t
  <2>1. OutputOf(k1, t, 1)
    BY <1>2, Outputs
  <2> HIDE DEF k1
  <2>2. OutputOf(k2, t, 2)
    BY <1>2, Outputs
  <2> HIDE DEF k2
  <2>3. OutputOf(k3, t, 3)
    BY <1>2, Outputs
  <2> QED BY <2>1, <2>2, <2>3
<1>4. OutputOf(l1, u, 1) /\ OutputOf(l2, u, 2) /\ OutputOf(l3, u, 3)
  <2> HIDE DEF u
  <2>1. OutputOf(l1, u, 1)
    BY <1>2, Outputs
  <2> HIDE DEF l1
  <2>2. OutputOf(l2, u, 2)
    BY <1>2, Outputs
  <2> HIDE DEF l2
  <2>3. OutputOf(l3, u, 3)
    BY <1>2, Outputs
  <2> QED BY <2>1, <2>2, <2>3
<1> HIDE DEF t, u, k1, k2, k3, l1, l2, l3, k, l
<1>5. ASSUME NEW i \in 1 .. 3, NEW j \in 1 .. 3, k[i] = l[j]
      PROVE  i = j /\ key = key2 /\ input = input2
  <2>1. OutputOf(k[i], t, i) /\ OutputOf(l[j], u, j)
    <3>1. /\ k[1] = k1 /\ k[2] = k2 /\ k[3] = k3 /\ l[1] = l1 /\ l[2] = l2 /\ l[3] = l3
      BY <1>1
    <3>2. (i = 1 \/ i = 2 \/ i = 3) /\ (j = 1 \/ j = 2 \/ j = 3)
      OBVIOUS
    <3> QED BY <1>3, <1>4, <3>1, <3>2
  <2> DEFINE o == k[i]
  <2>2. OutputOf(o, t, i) /\ OutputOf(o, u, j)
    BY <1>5, <2>1
  <2> HIDE DEF o
  <2>3. i = j /\ t = u
    BY <1>2, <2>2, OutputNames
  <2>4. key = key2 /\ input = input2
    BY <2>3, ExtractNames DEF t, u
  <2> QED BY <2>3, <2>4
<1>6. k[1] = k1 /\ k[2] = k2
  BY <1>1
<1> QED BY <1>1, <1>5, <1>6, Zenon DEF Derive!KdfSeparates, k, l

-----------------------------------------------------------------------------
(* Every call *)

\* The arguments of a handshake or a derivation are of their sets.
Called ==
  /\ call.on = "handshake" =>
       call.args \in Initiators \X Responders \X (SUBSET Terms!InitiationFields)
                       \X (SUBSET Terms!ResponseFields)
  /\ call.on = "derive" =>
       call.args \in DerivationKeys \X DerivationInputs \X DerivationKeys \X DerivationInputs

\* They are chosen from those sets and kept until the call returns.
LEMMA CallsTyped == NoiseSpec => []Called
<1>1. Idle => Called
  BY DEF Idle, NoCall, Called
<1>2. Called /\ [HandshakeCall \/ DeriveCall \/ Return]_call => Called'
  <2> SUFFICES ASSUME Called, [HandshakeCall \/ DeriveCall \/ Return]_call PROVE Called'
    OBVIOUS
  <2>1. CASE HandshakeCall
    BY <2>1 DEF HandshakeCall, Call, Called
  <2>2. CASE DeriveCall
    BY <2>2 DEF DeriveCall, Call, Called
  <2>3. CASE Return
    BY <2>3 DEF Return, NoCall, Called
  <2>4. CASE UNCHANGED call
    BY <2>4 DEF Called
  <2> QED BY <2>1, <2>2, <2>3, <2>4
<1> QED BY <1>1, <1>2, PTL DEF NoiseSpec

\* Whoever the two parties are, and whatever fields of another handshake are put
\* in the messages: it completes exactly between parties configured with each
\* other, on unmixed messages and one preshared key, and then both have the same
\* keys (src/noise.rs).
THEOREM HandshakesAlwaysAgree == NoiseSpec => []KeysAgree
<1>1. Called => KeysAgree
  <2> SUFFICES ASSUME Called, call.on = "handshake"
               PROVE  Terms!KeysAgree(call.args[1], call.args[2], call.args[3], call.args[4])
    BY DEF KeysAgree
  <2>1. /\ call.args[1] \in Initiators /\ call.args[2] \in Responders
        /\ call.args[3] \in SUBSET Terms!InitiationFields
        /\ call.args[4] \in SUBSET Terms!ResponseFields
    BY DEF Called
  <2>2. call.args[1] \in Parties /\ call.args[2] \in Parties
    BY <2>1, PartyAssumption, Zenon
  <2> QED BY <2>1, <2>2, HandshakeAgrees
<1> QED BY <1>1, CallsTyped, PTL

\* For keys of any one length and inputs of any, no two derivations meet but on
\* the same key, input and number (src/crypto/kdf.rs).
THEOREM DerivationsAlwaysSeparate == NoiseSpec => []KdfSeparates
<1>1. Called => KdfSeparates
  <2> SUFFICES ASSUME Called, call.on = "derive"
               PROVE  Derive!KdfSeparates(call.args[1], call.args[2], call.args[3], call.args[4])
    BY DEF KdfSeparates
  <2>1. /\ call.args[1] \in DerivationKeys /\ call.args[2] \in DerivationInputs
        /\ call.args[3] \in DerivationKeys /\ call.args[4] \in DerivationInputs
    BY DEF Called
  <2> DEFINE B == 0 .. 255
  <2>2. /\ call.args[1] \in Seq(B) /\ call.args[2] \in Seq(B)
        /\ call.args[3] \in Seq(B) /\ call.args[4] \in Seq(B)
    BY <2>1, DerivationAssumption
  <2>3. Len(call.args[1]) = Len(call.args[3])
    BY <2>1, DerivationAssumption
  <2> HIDE DEF B
  <2> QED BY <2>2, <2>3, DerivationsSeparate
<1> QED BY <1>1, CallsTyped, PTL

=============================================================================
