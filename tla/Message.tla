------------------------------ MODULE Message -------------------------------
(***************************************************************************)
(* The wire formats (src/message.rs) and the padding of transport data     *)
(* (src/tunnel.rs).  A datagram is a sequence of bytes; a byte of a field  *)
(* is its name and position, so parsing shows which bytes went where.      *)
(***************************************************************************)
EXTENDS Integers, Sequences

AEAD == INSTANCE Aead WITH TAG_LEN <- 16, BLOCK <- 16

HANDSHAKE_INITIATION_LEN == 148
HANDSHAKE_RESPONSE_LEN == 92
COOKIE_REPLY_LEN == 64
TRANSPORT_OVERHEAD == 32

\* to_le_bytes and from_le_bytes, of an index and of a counter.
le_bytes4(x) == <<x % 256, (x \div 256) % 256, (x \div 65536) % 256, (x \div 16777216) % 256>>
le_bytes8(x) == le_bytes4(x) \o le_bytes4((x \div 65536) \div 65536)
le_u32(b) == b[1] + 256 * (b[2] + 256 * (b[3] + 256 * b[4]))
le_u64(b) ==
  b[1] + 256 * (b[2] + 256 * (b[3] + 256 * (b[4]
       + 256 * (b[5] + 256 * (b[6] + 256 * (b[7] + 256 * b[8]))))))

\* take: the n bytes behind the first k.
take(d, k, n) == SubSeq(d, k + 1, k + n)

\* The fields after the four bytes of the type, in the order the parser takes
\* them.  Indices and counters are numbers on the wire.
HandshakeInitiation(d) ==
  [sender_index |-> le_u32(take(d, 4, 4)), ephemeral |-> take(d, 8, 32),
   encrypted_static |-> take(d, 40, 48), encrypted_timestamp |-> take(d, 88, 28),
   mac1 |-> take(d, 116, 16), mac2 |-> take(d, 132, 16)]
HandshakeResponse(d) ==
  [sender_index |-> le_u32(take(d, 4, 4)), receiver_index |-> le_u32(take(d, 8, 4)),
   ephemeral |-> take(d, 12, 32), encrypted_nothing |-> take(d, 44, 16),
   mac1 |-> take(d, 60, 16), mac2 |-> take(d, 76, 16)]
CookieReply(d) ==
  [receiver_index |-> le_u32(take(d, 4, 4)), nonce |-> take(d, 8, 24),
   encrypted_cookie |-> take(d, 32, 32)]
TransportData(d) ==
  [receiver_index |-> le_u32(take(d, 4, 4)), counter |-> le_u64(take(d, 8, 8))]

Numbers == {"sender_index", "receiver_index", "counter"}

InvalidPacket == [kind |-> "InvalidPacket"]

\* Mutant of type_word: the reserved bytes are not looked at.
type_word_lenient(d) == SubSeq(d, 1, 1) \o <<0, 0, 0>>

\* The type, and three reserved bytes that must be zero.
type_word(d) == SubSeq(d, 1, 4)

\* The type with its three reserved zeros, when there are four bytes, then the
\* length, then the fields and the parts the MACs cover.
parse(d) ==
  LET type == type_word(d)
  IN  IF Len(d) < 4 THEN InvalidPacket ELSE
      CASE type = <<1, 0, 0, 0>> ->
             IF Len(d) # HANDSHAKE_INITIATION_LEN THEN InvalidPacket
               ELSE [kind |-> "HandshakeInitiation", fields |-> HandshakeInitiation(d),
                     alpha |-> take(d, 0, 116), beta |-> take(d, 0, 116 + 16)]
        [] type = <<2, 0, 0, 0>> ->
             IF Len(d) # HANDSHAKE_RESPONSE_LEN THEN InvalidPacket
               ELSE [kind |-> "HandshakeResponse", fields |-> HandshakeResponse(d),
                     alpha |-> take(d, 0, 60), beta |-> take(d, 0, 60 + 16)]
        [] type = <<3, 0, 0, 0>> ->
             IF Len(d) # COOKIE_REPLY_LEN THEN InvalidPacket
               ELSE [kind |-> "CookieReply", fields |-> CookieReply(d)]
        [] type = <<4, 0, 0, 0>> ->
             IF Len(d) < TRANSPORT_OVERHEAD THEN InvalidPacket
               ELSE [kind |-> "TransportData", fields |-> TransportData(d),
                     ciphertext |-> SubSeq(d, 17, Len(d))]
        [] OTHER -> InvalidPacket

\* peek: the kind, and the numbers a router needs.
peek(d) ==
  LET m == parse(d)
  IN  IF m = InvalidPacket THEN m
        ELSE [kind |-> m.kind,
              fields |-> [n \in DOMAIN m.fields \cap Numbers |-> m.fields[n]]]

-----------------------------------------------------------------------------
(* Builders, into a buffer: the message, or nothing when it does not fit *)

BufferTooSmall == <<>>
zeros(n) == [i \in 1 .. n |-> 0]

\* Arguments f: a function from field names to values.
build_initiation(out, f) ==
  IF Len(out) < HANDSHAKE_INITIATION_LEN THEN BufferTooSmall
    ELSE <<1, 0, 0, 0>> \o le_bytes4(f["sender_index"]) \o f["ephemeral"]
           \o f["encrypted_static"] \o f["encrypted_timestamp"] \o zeros(32)

build_response(out, f) ==
  IF Len(out) < HANDSHAKE_RESPONSE_LEN THEN BufferTooSmall
    ELSE <<2, 0, 0, 0>> \o le_bytes4(f["sender_index"]) \o le_bytes4(f["receiver_index"])
           \o f["ephemeral"] \o f["encrypted_nothing"] \o zeros(32)

build_cookie_reply(out, f) ==
  IF Len(out) < COOKIE_REPLY_LEN THEN BufferTooSmall
    ELSE <<3, 0, 0, 0>> \o le_bytes4(f["receiver_index"]) \o f["nonce"]
           \o f["encrypted_cookie"]

\* The header only; what follows it stays.
write_transport_header(out, f) ==
  IF Len(out) < TRANSPORT_OVERHEAD THEN BufferTooSmall
    ELSE <<4, 0, 0, 0>> \o le_bytes4(f["receiver_index"]) \o le_bytes8(f["counter"])
           \o SubSeq(out, 17, Len(out))

\* The MACs are the last 32 bytes of either handshake message.
mac_slots(msg) ==
  LET len == Len(msg)
  IN  IF len \notin {HANDSHAKE_INITIATION_LEN, HANDSHAKE_RESPONSE_LEN} THEN InvalidPacket ELSE
      [alpha |-> SubSeq(msg, 1, len - 32), mac1 |-> SubSeq(msg, len - 31, len - 16),
       mac2 |-> SubSeq(msg, len - 15, len)]

-----------------------------------------------------------------------------
(* Transport data *)

\* Up to a multiple of 16, but not past the MTU (0: none is set), and never less
\* than the payload.
padded_len(payload_len, mtu) ==
  LET aligned == ((payload_len + 15) \div 16) * 16
  IN  IF mtu = 0 \/ aligned <= mtu THEN aligned
        ELSE IF mtu > payload_len THEN mtu ELSE payload_len

transport_datagram_len(payload_len) == padded_len(payload_len, 0) + TRANSPORT_OVERHEAD

nonce_from_counter(counter) == <<0, 0, 0, 0>> \o le_bytes8(counter)

\* Mutant of stage: the padding keeps what the buffer held.
stage_stale(out, payload, padded) ==
  SubSeq(out, 1, 16) \o payload \o SubSeq(out, 17 + Len(payload), Len(out))

\* Payload and zero padding, behind the place of the header.
stage(out, payload, padded) ==
  SubSeq(out, 1, 16) \o payload
    \o [i \in 1 .. (padded - Len(payload)) |-> AEAD!Plain(0)]
    \o SubSeq(out, 17 + padded, Len(out))

\* The send path of Tunnel::encapsulate, once a session is there.
encapsulate(key, f, payload, mtu, out) ==
  LET padded == padded_len(Len(payload), mtu)
      staged == stage(write_transport_header(out, f), payload, padded)
      sealed == AEAD!seal_in_place_with(key, nonce_from_counter(f["counter"]), <<>>,
                                        padded, SubSeq(staged, 17, Len(staged)))
  IN  IF Len(out) < padded + TRANSPORT_OVERHEAD THEN BufferTooSmall
        ELSE SubSeq(staged, 1, 16) \o SubSeq(sealed.out, 1, sealed.len)

\* The length an IP header claims, 0 when it is not self-consistent.
ip_packet_len(payload) ==
  LET at(i) == payload[i].byte
      be16(i) == 256 * at(i) + at(i + 1)
      ihl_bytes == 4 * (at(1) % 16)
      claimed ==
        CASE at(1) \div 16 = 4 /\ Len(payload) >= 4 ->
               IF ihl_bytes >= 20 /\ be16(3) >= ihl_bytes THEN be16(3) ELSE 0
          [] at(1) \div 16 = 6 /\ Len(payload) >= 40 -> be16(5) + 40
          [] OTHER -> 0
  IN  IF payload = <<>> \/ claimed > Len(payload) THEN 0 ELSE claimed

\* The receive path: parsed, opened into `out', and trimmed as the adapter does.
decapsulate(key, datagram, out) ==
  LET m == parse(datagram)
      opened == AEAD!open_with(key, nonce_from_counter(m.fields["counter"]), <<>>,
                               m.ciphertext, out)
      data == SubSeq(opened.out, 1, opened.len)
      n == ip_packet_len(data)
  IN  IF opened.res # "Ok" THEN <<opened.res>>
        ELSE SubSeq(data, 1, IF n = 0 THEN Len(data) ELSE n)

-----------------------------------------------------------------------------
(* Properties *)

Builder(kind, out, f) ==
  CASE kind = "HandshakeInitiation" -> build_initiation(out, f)
    [] kind = "HandshakeResponse" -> build_response(out, f)
    [] kind = "CookieReply" -> build_cookie_reply(out, f)
    [] kind = "TransportData" -> write_transport_header(out, f)

\* What a builder writes is what the parser reads, whatever the buffer held: the
\* same kind and fields, zero MACs, the same bytes under the MACs on both sides.
\* The router's summary agrees.  A message cut or lengthened by a byte, or with
\* a reserved byte set, is refused (a longer transport message is a message), and
\* so is one cut inside its type.
Parses(kind, out, f) ==
  LET d == Builder(kind, out, f)
      m == parse(d)
      handshake == kind \in {"HandshakeInitiation", "HandshakeResponse"}
      own == DOMAIN m.fields \ {"mac1", "mac2"}
  IN  d # BufferTooSmall =>
        /\ m.kind = kind
        /\ \A name \in own : m.fields[name] = f[name]
        /\ handshake => /\ m.fields["mac1"] = zeros(16) /\ m.fields["mac2"] = zeros(16)
                        /\ m.alpha = mac_slots(d).alpha
                        /\ m.beta = mac_slots(d).alpha \o mac_slots(d).mac1
                        /\ d = m.beta \o mac_slots(d).mac2
        /\ peek(d) = [kind |-> kind, fields |-> [n \in own \cap Numbers |-> f[n]]]
        /\ \A i \in 2 .. 4 : parse([d EXCEPT ![i] = 1]) = InvalidPacket
        /\ \A n \in 0 .. 3 : parse(SubSeq(d, 1, n)) = InvalidPacket
        /\ kind # "TransportData" => /\ parse(d \o <<0>>) = InvalidPacket
                                     /\ parse(SubSeq(d, 1, Len(d) - 1)) = InvalidPacket

\* A packet the application sends is the packet the peer's application gets:
\* padded, sealed, parsed, opened and trimmed, the padding of a packet that is
\* not IP is all that is added to it, and it is zero whatever the buffer held.
\* The datagram is within the MTU when the packet is, and the size the caller is
\* told to provide is enough.
Arrives(key, f, payload, mtu, out) ==
  LET d == encapsulate(key, f, payload, mtu, out)
      got == decapsulate(key, d, out)
  IN  /\ (d = BufferTooSmall) <=> (Len(out) < padded_len(Len(payload), mtu) + TRANSPORT_OVERHEAD)
      /\ Len(out) >= transport_datagram_len(Len(payload)) => d # BufferTooSmall
      /\ d # BufferTooSmall =>
           /\ mtu # 0 /\ Len(payload) <= mtu => Len(d) <= mtu + TRANSPORT_OVERHEAD
           /\ SubSeq(got, 1, Len(payload)) = payload
           /\ ip_packet_len(payload) = Len(payload) => got = payload
           /\ \A i \in (Len(payload) + 1) .. Len(got) : got[i] = AEAD!Plain(0)

=============================================================================
