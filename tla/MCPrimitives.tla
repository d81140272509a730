---------------------------- MODULE MCPrimitives ----------------------------
(***************************************************************************)
(* The pure algorithms over bounded inputs: a state is one call, and each  *)
(* property compares what the code computes with a reference.              *)
(***************************************************************************)
EXTENDS FieldCalls, MessageCalls, NoiseCalls

Pattern(kind, i, bound) ==
  CASE kind = "zero" -> 0 [] kind = "high" -> bound - 1 [] kind = "mixed" -> (i * 37 + 5) % bound
Patterned(kind, n, bound) == [i \in 1 .. n |-> Pattern(kind, i, bound)]

\* A message cut in three, anywhere.
Cut(m, a, b) == <<SubSeq(m, 1, a), SubSeq(m, a + 1, b), SubSeq(m, b + 1, Len(m))>>
Cuts(n) == {<<a, b>> \in (0 .. n) \X (0 .. n) : a <= b}

-----------------------------------------------------------------------------
(* Poly1305: five limbs of six bits, blocks of four bytes of seven bits *)

MAC == INSTANCE Poly1305 WITH W <- 6, BLOCK <- 4, BYTE <- 128

Keys == {0, 1, 2 + 64 * 3 + 64 * 64 * 60, 64 ^ 5 \div 4 - 1}

MacCall ==
  \E kind \in {"zero", "high", "mixed"}, n \in 0 .. 9 : \E c \in Cuts(n) :
    Call("mac", Keys \X {0, MAC!TagSpace - 1}
                  \X {Cut(Patterned(kind, n, 128), c[1], c[2])})

\* The tag is the polynomial evaluated modulo the prime, however the message was
\* cut into updates: limb carries, the final reduction and the partial last block
\* (src/crypto/poly1305.rs).
TagCorrect == call.on = "mac" => MAC!TagCorrect(call.args[1], call.args[2], call.args[3])

-----------------------------------------------------------------------------
(* The field: five limbs of four bits, modulo 2^20 - 5 *)

Lefts_ == [1 .. 5 -> {0, 1, 11, 15, 16, 31}]
Rights_ == {<<5, 3, 15, 9, 2>>, <<15, 15, 15, 15, 15>>, <<31, 31, 31, 31, 31>>}

ChainCall == Call("chain", 46281 .. 46340)

\* invert raises to p - 2; the moduli together exceed 2^256.
InvertChain == call.on = "chain" => ChainInverts(call.args)

-----------------------------------------------------------------------------
(* The ladder, modulo 61 with scalars of seven bits: like the real one, the  *)
(* curve has eight and its twist four times a prime number of points         *)

fadd(a, b) == (a + b) % 61
fsub(a, b) == (a - b) % 61
fmul(a, b) == (a * b) % 61
fsquare(a) == (a * a) % 61
finvert(a) == IF a = 0 THEN 0 ELSE CHOOSE b \in 1 .. 60 : (a * b) % 61 = 1

Curve == INSTANCE X25519 WITH
  add <- fadd, sub <- fsub, mul <- fmul, square <- fsquare, mul_small <- fmul,
  invert <- finvert, ZERO <- 0, ONE <- 1, A24 <- 2, BITS <- 7

CurveCall == Call("curve", (0 .. 127) \X (0 .. 60))

\* The ladder computes the multiple of the point that the group law gives, with
\* the swap owed at the end (src/crypto/x25519.rs).
LadderCorrect == call.on = "curve" => Curve!LadderCorrect(call.args[1], call.args[2])

\* A point whose order divides the cofactor is refused, whatever the private key.
LowOrderRefused == call.on = "curve" => Curve!LowOrderRefused(call.args[1], call.args[2])

\* Two sides that exchange public values share a secret.
SecretsAgree ==
  call.on = "curve" =>
    Curve!SecretsAgree(call.args[1], (call.args[1] * 5 + 3) % 128, call.args[2])

-----------------------------------------------------------------------------
(* ChaCha20: words of eight bits, two double rounds *)

Stream == INSTANCE ChaCha20 WITH DOUBLE_ROUNDS <- 2, SIGMA <- <<101, 50, 121, 107>>

Key == <<1, 2, 3, 4, 250, 6, 77, 8>>
Nonce == <<9, 100, 201>>
Lengths == {0, 1, 63, 64, 65, 255, 256, 257, 319, 320, 321, 511, 512, 513, 575, 576,
            767, 768, 769}

StreamCall == Call("stream", Lengths \X {0, 250, 254})

\* The vector backends produce the bytes of the scalar one, at every boundary of
\* their strides and when the counter wraps inside one (simd/src/).
BackendsAgree ==
  call.on = "stream" =>
    Stream!BackendsAgree(Key, Nonce, call.args[2], Patterned("mixed", call.args[1], 4))

-----------------------------------------------------------------------------
(* BLAKE2s: blocks of four bytes, digests of two *)

Hash == INSTANCE Blake2s WITH BLOCK <- 4, DIGEST <- 2

HashCall ==
  \E n \in 0 .. 9, k \in {0, 1, 2, 3, 5} : \E c \in Cuts(n) :
    Call("hash", {[i \in 1 .. k |-> 20 + i]} \X {Cut([i \in 1 .. n |-> i], c[1], c[2])})

\* A digest or MAC depends on the bytes absorbed and not on how they were cut;
\* the last block alone is flagged and nothing stale is in it
\* (src/crypto/blake2s.rs).
DigestOfMessage == call.on = "hash" => Hash!DigestOfMessage(call.args[1], call.args[2])

-----------------------------------------------------------------------------
(* The key derivations; of inputs that begin alike some have the bytes that  *)
(* number the outputs                                                        *)

DerivationKeys_ == {<<1, 2, 3>>, <<1, 2, 2>>}
DerivationInputs_ == {<<>>, <<1>>, <<1, 2>>, <<3>>}

-----------------------------------------------------------------------------
(* The AEAD, around the boundaries of its blocks of 16 bytes *)

Key32 == [i \in 1 .. 32 |-> 200 + i]
Cells(first, n) == [i \in 1 .. n |-> AEAD!Plain((first + i) % 256)]

Seals_ ==
  {[key |-> Key32, nonce |-> [i \in 1 .. 12 |-> i], aad |-> Cells(0, a),
    pt |-> Cells(50, n), out |-> Cells(100, n + room)] :
     a \in {0, 1, 15, 16, 17}, n \in {0, 1, 15, 16, 17, 33}, room \in {0, 15, 16, 17, 33}}

-----------------------------------------------------------------------------
(* The codec: every byte of a field is another *)

Numbered(first, n) == [i \in 1 .. n |-> (first + i) % 256]

FieldsOf(x) ==
  [sender_index |-> x, receiver_index |-> 2147483647 - x, counter |-> x,
   ephemeral |-> Numbered(0, 32), encrypted_static |-> Numbered(32, 48),
   encrypted_timestamp |-> Numbered(80, 28), encrypted_nothing |-> Numbered(108, 16),
   nonce |-> Numbered(124, 24), encrypted_cookie |-> Numbered(148, 32)]

Builds_ ==
  {[kind |-> kind, out |-> Numbered(180, room), f |-> FieldsOf(x)] :
     kind \in Kinds, x \in {0, 255, 256, 305419896, 2147483647},
     room \in {31, 32, 33, 63, 64, 65, 91, 92, 93, 147, 148, 149}}

\* A payload of n bytes: an IP packet that says so, or something else.
Packet(version, n) ==
  LET header == CASE version = 4 -> <<69, 0, 0, n>>
                  [] version = 6 -> <<96, 0, 0, 0, 0, n - 40>>
                  [] version = 0 -> <<>>
  IN  [i \in 1 .. n |->
         AEAD!Plain(IF i <= Len(header) THEN header[i] ELSE IF i = 1 THEN 16 ELSE 7)]

Payloads ==
  {Packet(4, n) : n \in 20 .. 50} \cup {Packet(6, n) : n \in 40 .. 60}
    \cup {Packet(0, n) : n \in 0 .. 20}

Sends_ ==
  {[key |-> Key32, f |-> FieldsOf(305419896), payload |-> payload, mtu |-> mtu,
    out |-> Cells(100, padded_len(Len(payload), mtu) + TRANSPORT_OVERHEAD - 1 + room)] :
     payload \in Payloads, mtu \in {0, 21, 33, 45, 50}, room \in {0, 1, 8}}

-----------------------------------------------------------------------------
(* Two parties of three, that may be configured with each other or not *)

Secrets_ == {"I", "R", "X"}
PresharedKeys_ == {"q", "other"}
Initiators_ == {i \in Parties : i.static = "I" /\ i.psk = "q"}
Responders_ == {r \in Parties : r.static = "R"}

-----------------------------------------------------------------------------
Next ==
  \/ Return \/ MacCall \/ FieldCall \/ ChainCall \/ CurveCall \/ StreamCall \/ HashCall
  \/ DeriveCall \/ SealCall \/ BuildCall \/ SendCall \/ HandshakeCall

Spec == Idle /\ [][Next]_call

=============================================================================
