----------------------------- MODULE NoiseCalls -----------------------------
(***************************************************************************)
(* Handshakes between any two parties (src/noise.rs) and derivations from  *)
(* any keys (src/crypto/kdf.rs).                                           *)
(***************************************************************************)
EXTENDS Integers, Sequences, Calls

CONSTANTS Secrets, PresharedKeys, Initiators, Responders,
          BLOCK, DIGEST,                      \* 64 and 32
          DerivationKeys, DerivationInputs

Terms == INSTANCE NoiseTerms

\* Parties with any static and preshared keys, each configured with some peer.
Parties ==
  [static : Secrets, peer : {Terms!x25519_base(s) : s \in Secrets}, psk : PresharedKeys]

ASSUME PartyAssumption == Initiators \subseteq Parties /\ Responders \subseteq Parties

ASSUME SizeAssumption ==
  BLOCK \in Nat /\ DIGEST \in Nat /\ 0 < DIGEST /\ DIGEST <= BLOCK

ASSUME DerivationAssumption ==
  /\ DerivationKeys \cup DerivationInputs \subseteq Seq(0 .. 255)
  /\ \A k, l \in DerivationKeys : Len(k) = Len(l)

\* A digest: a name for the bytes absorbed, however they were cut
\* (DigestOfMessage).  The derivations absorb up to three parts.
Absorbed3(parts) ==
  CASE Len(parts) = 1 -> parts[1]
    [] Len(parts) = 2 -> parts[1] \o parts[2]
    [] Len(parts) = 3 -> parts[1] \o parts[2] \o parts[3]
Digest(parts) == [i \in 1 .. DIGEST |-> <<"hash", Absorbed3(parts), i>>]

Derive == INSTANCE Kdf WITH hash <- Digest

\* Two parties, and the fields of the initiation and of the response that are
\* those of another handshake.
HandshakeCall ==
  Call("handshake", Initiators \X Responders \X (SUBSET Terms!InitiationFields)
                      \X (SUBSET Terms!ResponseFields))
DeriveCall ==
  Call("derive", DerivationKeys \X DerivationInputs \X DerivationKeys \X DerivationInputs)

NoiseSpec == Idle /\ [][HandshakeCall \/ DeriveCall \/ Return]_call

-----------------------------------------------------------------------------
\* Both sides derive the same keys from a whole handshake between the configured
\* parties, and none from any other (src/noise.rs).
KeysAgree ==
  call.on = "handshake" =>
    Terms!KeysAgree(call.args[1], call.args[2], call.args[3], call.args[4])

\* An output of the key derivations is named by key, input and number
\* (src/crypto/kdf.rs).
KdfSeparates ==
  call.on = "derive" =>
    Derive!KdfSeparates(call.args[1], call.args[2], call.args[3], call.args[4])

=============================================================================
