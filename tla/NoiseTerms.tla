---------------------------- MODULE NoiseTerms ------------------------------
(***************************************************************************)
(* The handshake computations of src/noise.rs over terms.  Hash, key       *)
(* derivation and AEAD are free of collisions; a shared secret is the set  *)
(* of the two scalars, so both sides compute the same.  It carries out     *)
(* what module Noise takes for granted: whose message opens under whose    *)
(* transcript, and which keys come out.                                    *)
(***************************************************************************)
EXTENDS Sequences

hash(h, part) == <<"hash", h, part>>
kdf(ck, input, i) == <<"kdf", ck, input, i>>   \* the i-th output (Kdf!KdfSeparates)
x25519_base(secret) == <<"pub", secret>>
seal(k, h, plaintext) == <<"sealed", k, h, plaintext>>
opens(k, h, ciphertext) == ciphertext = seal(k, h, ciphertext[4])

\* shared_secret is refused on a low-order point.
LowOrder == <<"low-order">>
dh(secret, public) == {secret, public[2]}

ck0 == <<"Construction">>
h0 == hash(ck0, "Identifier")

Err(e) == [res |-> e]

-----------------------------------------------------------------------------
\* The transcript up to `es'.  The two sides do not share code: the initiator
\* mixes in its peer's key and the ephemeral it drew, the responder its own key
\* and the ephemeral it was sent.
initiator_start(peer_public, eph_public) ==
  [ck |-> kdf(ck0, eph_public, 1), h |-> hash(hash(h0, peer_public), eph_public)]

responder_start(local_public, ephemeral) ==
  [ck |-> kdf(ck0, ephemeral, 1), h |-> hash(hash(h0, local_public), ephemeral)]

\* A party: its static secret, the peer it is configured with, the preshared key.
precomputed_ss(party) == dh(party.static, party.peer)

create_initiation(me, local_index, eph_secret, timestamp) ==
  LET s  == initiator_start(me.peer, x25519_base(eph_secret))
      es == dh(eph_secret, me.peer)
      ck1 == kdf(s.ck, es, 1)
      encrypted_static == seal(kdf(s.ck, es, 2), s.h, x25519_base(me.static))
      h1 == hash(s.h, encrypted_static)
      ss == precomputed_ss(me)
      encrypted_timestamp == seal(kdf(ck1, ss, 2), h1, timestamp)
  IN  IF me.peer = LowOrder THEN Err("InvalidPublicKey")
        ELSE [res |-> "Ok",
              msg |-> [sender_index |-> local_index, ephemeral |-> x25519_base(eph_secret),
                       encrypted_static |-> encrypted_static,
                       encrypted_timestamp |-> encrypted_timestamp],
              inflight |-> [local_index |-> local_index, eph_secret |-> eph_secret,
                            chain |-> kdf(ck1, ss, 1), hash |-> hash(h1, encrypted_timestamp)]]

\* The static key is compared between the two AEADs.
consume_initiation(me, msg) ==
  LET s  == responder_start(x25519_base(me.static), msg.ephemeral)
      es == dh(me.static, msg.ephemeral)
      ck1 == kdf(s.ck, es, 1)
      static_public == msg.encrypted_static[4]
      h1 == hash(s.h, msg.encrypted_static)
      ss == precomputed_ss(me)
  IN  IF msg.ephemeral = LowOrder THEN Err("InvalidPublicKey")
      ELSE IF ~ opens(kdf(s.ck, es, 2), s.h, msg.encrypted_static) THEN Err("AuthFailure")
      ELSE IF static_public # me.peer THEN Err("UnknownPeer")
      ELSE IF ~ opens(kdf(ck1, ss, 2), h1, msg.encrypted_timestamp) THEN Err("AuthFailure")
      ELSE [res |-> "Ok", peer_index |-> msg.sender_index, static_public |-> static_public,
            timestamp |-> msg.encrypted_timestamp[4], eph_public |-> msg.ephemeral,
            chain |-> kdf(ck1, ss, 1), hash |-> hash(h1, msg.encrypted_timestamp)]

\* The second half of the transcript, e, ee, se and psk, as the responder goes
\* through it,
responder_psk2(consumed, eph_public, ee, se, psk) ==
  LET ck == kdf(kdf(kdf(consumed.chain, eph_public, 1), ee, 1), se, 1)
  IN  [ck |-> kdf(ck, psk, 1), k |-> kdf(ck, psk, 3),
       h |-> hash(hash(consumed.hash, eph_public), kdf(ck, psk, 2))]

\* Mutant of initiator_psk2: se before ee.
initiator_psk2_swapped(inflight, ephemeral, ee, se, psk) ==
  LET ck == kdf(kdf(kdf(inflight.chain, ephemeral, 1), se, 1), ee, 1)
  IN  [ck |-> kdf(ck, psk, 1), k |-> kdf(ck, psk, 3),
       h |-> hash(hash(inflight.hash, ephemeral), kdf(ck, psk, 2))]

\* and as the initiator does.
initiator_psk2(inflight, ephemeral, ee, se, psk) ==
  LET ck == kdf(kdf(kdf(inflight.chain, ephemeral, 1), ee, 1), se, 1)
  IN  [ck |-> kdf(ck, psk, 1), k |-> kdf(ck, psk, 3),
       h |-> hash(hash(inflight.hash, ephemeral), kdf(ck, psk, 2))]

\* A key of low order is refused here too, though consume_initiation lets none
\* come this far.
create_response(consumed, me, local_index, eph_secret) ==
  LET eph_public == x25519_base(eph_secret)
      t == responder_psk2(consumed, eph_public, dh(eph_secret, consumed.eph_public),
                          dh(eph_secret, consumed.static_public), me.psk)
  IN  IF LowOrder \in {consumed.eph_public, consumed.static_public}
        THEN Err("InvalidPublicKey")
        ELSE [res |-> "Ok",
              msg |-> [sender_index |-> local_index, receiver_index |-> consumed.peer_index,
                       ephemeral |-> eph_public, encrypted_nothing |-> seal(t.k, t.h, "")],
              keys |-> [send |-> kdf(t.ck, "", 2), recv |-> kdf(t.ck, "", 1),
                        local_index |-> local_index, peer_index |-> consumed.peer_index,
                        is_initiator |-> FALSE]]

consume_response(inflight, me, msg) ==
  LET t == initiator_psk2(inflight, msg.ephemeral, dh(inflight.eph_secret, msg.ephemeral),
                          dh(me.static, msg.ephemeral), me.psk)
  IN  IF msg.ephemeral = LowOrder THEN Err("InvalidPublicKey")
      ELSE IF ~ opens(t.k, t.h, msg.encrypted_nothing) THEN Err("AuthFailure")
      ELSE [res |-> "Ok",
            keys |-> [send |-> kdf(t.ck, "", 1), recv |-> kdf(t.ck, "", 2),
                      local_index |-> inflight.local_index, peer_index |-> msg.sender_index,
                      is_initiator |-> TRUE]]

-----------------------------------------------------------------------------
\* A message with some fields taken from another.
spliced(msg, other, fields) ==
  [f \in DOMAIN msg |-> IF f \in fields THEN other[f] ELSE msg[f]]

InitiationFields == {"ephemeral", "encrypted_static", "encrypted_timestamp"}
ResponseFields == {"ephemeral", "encrypted_nothing"}

\* An initiator `i' and a responder `r', and two handshakes with ephemerals of
\* their own; on the way, fields of the first are replaced by those of the second.
\* The responder accepts exactly a whole initiation of its configured peer made
\* for it.  The initiator accepts exactly a whole response, under its preshared
\* key, to the initiation it has in flight.  Then each sends under the key the
\* other receives with, the two directions differ, and no key is one of the
\* other handshake.  A low-order ephemeral is refused as such.
KeysAgree(i, r, in_initiation, in_response) ==
  LET sent  == create_initiation(i, "i1", "e1", "t1")
      other == create_initiation(i, "i2", "e2", "t2")
      got   == consume_initiation(r, spliced(sent.msg, other.msg, in_initiation))
      got_other == consume_initiation(r, other.msg)
      reply == create_response(got, r, "r1", "f1")
      reply_other == create_response(got_other, r, "r2", "f2")
      done  == consume_response(sent.inflight, i,
                                spliced(reply.msg, reply_other.msg, in_response))
      addressed == i.peer = x25519_base(r.static) /\ r.peer = x25519_base(i.static)
  IN  /\ got.res = "Ok" <=> addressed /\ in_initiation \in {{}, InitiationFields}
      /\ got.res = "Ok" => got.timestamp = IF in_initiation = {} THEN "t1" ELSE "t2"
      /\ got.res = "UnknownPeer" => r.peer # x25519_base(i.static)
      /\ got.res = "Ok" =>
           (done.res = "Ok" <=> i.psk = r.psk /\ in_initiation = {} /\ in_response = {})
      /\ got.res = "Ok" /\ done.res = "Ok" =>
           /\ done.keys.send = reply.keys.recv /\ done.keys.recv = reply.keys.send
           /\ done.keys.local_index = reply.keys.peer_index
           /\ done.keys.peer_index = reply.keys.local_index
           /\ done.keys.send # done.keys.recv
           /\ {done.keys.send, done.keys.recv} \cap
                {reply_other.keys.send, reply_other.keys.recv} = {}
      /\ consume_initiation(r, [sent.msg EXCEPT !.ephemeral = LowOrder]).res = "InvalidPublicKey"
      /\ consume_response(sent.inflight, i, [ephemeral |-> LowOrder]).res = "InvalidPublicKey"

=============================================================================
