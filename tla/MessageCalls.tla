---------------------------- MODULE MessageCalls ----------------------------
(***************************************************************************)
(* Sealing, building and sending, with any arguments the types of          *)
(* src/crypto/aead.rs, src/message.rs and src/tunnel.rs admit.             *)
(***************************************************************************)
EXTENDS Message, Calls

CONSTANTS Seals,    \* of seal, in its three forms
          Builds,   \* of the builders of the four messages
          Sends     \* of encapsulate, once a session is there

u8 == 0 .. 255
u32 == {x \in Nat : x \div 65536 < 65536}
u64 == {x \in Nat : ((x \div 65536) \div 65536) \div 65536 < 65536}

\* A field of n bytes, and bytes that no keystream is on.
Bytes(Byte, n) == {s \in Seq(Byte) : Len(s) = n}
Plains(Byte) == {AEAD!Plain(b) : b \in Byte}

Kinds == {"HandshakeInitiation", "HandshakeResponse", "CookieReply", "TransportData"}

Fields ==
  [sender_index : u32, receiver_index : u32, counter : u64,
   ephemeral : Bytes(u8, 32), encrypted_static : Bytes(u8, 48),
   encrypted_timestamp : Bytes(u8, 28), encrypted_nothing : Bytes(u8, 16),
   nonce : Bytes(u8, 24), encrypted_cookie : Bytes(u8, 32)]

ASSUME SealAssumption ==
  Seals \subseteq [key : Seq(u8), nonce : Seq(u8), aad : Seq(Plains(u8)),
                   pt : Seq(Plains(u8)), out : Seq(Plains(u8))]

ASSUME BuildAssumption == Builds \subseteq [kind : Kinds, out : Seq(u8), f : Fields]

\* What is sent is an IP packet of the length its header says, or of no such
\* length: a shorter one is cut to it on arrival.
ASSUME SendAssumption ==
  /\ Sends \subseteq [key : Seq(u8), f : Fields, payload : Seq(Plains(u8)), mtu : Nat,
                      out : Seq(Plains(u8))]
  /\ \A s \in Sends : ip_packet_len(s.payload) \in {0, Len(s.payload)}

SealCall == Call("seal", Seals)
BuildCall == Call("build", Builds)
SendCall == Call("send", Sends)

MessageSpec == Idle /\ [][SealCall \/ BuildCall \/ SendCall \/ Return]_call

-----------------------------------------------------------------------------
\* What is sealed, copied or in place or under an extended nonce, opens again
\* (src/crypto/aead.rs).
SealedOpens ==
  call.on = "seal" =>
    AEAD!SealedOpens(call.args.key, call.args.nonce, call.args.aad, call.args.pt, call.args.out)

\* Anything else is refused and leaves the output alone.
TamperedRefused ==
  call.on = "seal" =>
    AEAD!TamperedRefused(call.args.key, call.args.nonce, call.args.aad, call.args.pt,
                         call.args.out)

\* Parsing undoes building, and nothing else parses (src/message.rs).
BuiltParses ==
  call.on = "build" => Parses(call.args.kind, call.args.out, call.args.f)

\* A packet arrives as it was sent, through padding, sealing, parsing, opening
\* and trimming (src/tunnel.rs, src/message.rs, embed/src/lib.rs).
PacketSurvives ==
  call.on = "send" =>
    Arrives(call.args.key, call.args.f, call.args.payload, call.args.mtu, call.args.out)

=============================================================================
