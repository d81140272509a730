----------------------------- MODULE SideProofs -----------------------------
(***************************************************************************)
(* What holds of two tunnels that talk to each other, and that each move   *)
(* of one of them keeps it.  The statements are about one side `me' with   *)
(* slots x and its peer with slots z, so that module PeersProofs can use   *)
(* them for either; ms are the datagrams sent so far.                      *)
(***************************************************************************)
EXTENDS Tunnel, Moves, TLAPS

-----------------------------------------------------------------------------
(* What the operations do to the slots, as moves over this record of them. *)

Slots ==
  [ previous |-> previous, current |-> current, next |-> next,
    inflight |-> inflight, greatest |-> greatest_timestamp,
    sent |-> last_sent_tai64n ]

\* Whitening a wall-clock reading leaves a timestamp.
LEMMA TaiType ==
  ASSUME NEW wall \in Nat
  PROVE  tai64n(wall) \in Nat
<1>1. wall % WHITENER \in 0 .. (WHITENER - 1)
  BY MessageAssumption
<1>2. wall = WHITENER * (wall \div WHITENER) + (wall % WHITENER)
  BY MessageAssumption
<1>3. wall \div WHITENER \in Nat
  BY MessageAssumption
<1>4. WHITENER * (wall \div WHITENER) \in Nat
  BY <1>3, MessageAssumption
<1> QED
  BY <1>1, <1>2, <1>4 DEF tai64n

\* The fields of the record, before and after a step.
LEMMA SlotsFields ==
  /\ Slots.previous = previous /\ Slots.current = current /\ Slots.next = next
  /\ Slots.inflight = inflight /\ Slots.greatest = greatest_timestamp
  /\ Slots.sent = last_sent_tai64n
  /\ Slots'.previous = previous' /\ Slots'.current = current' /\ Slots'.next = next'
  /\ Slots'.inflight = inflight' /\ Slots'.greatest = greatest_timestamp'
  /\ Slots'.sent = last_sent_tai64n'
BY DEF Slots

\* A datagram dropped.
LEMMA MovesReject ==
  ASSUME NEW error \in Results \ (Initiated \cup Transported \cup Received \cup {"Reply"}),
         Reject(error)
  PROVE  QuietMove(Slots, Slots', ret')
BY SlotsFields DEF Reject, protocol, sessions, timestamps, QuietMove, KeptOrDropped, SameTimes

\* An initiation leaves, or an error comes before it.
LEMMA MovesInitiation ==
  ASSUME NEW tm, NEW nx, NEW now, NEW wall \in Nat, NEW driven, NEW reason \in Initiated,
         last_sent_tai64n \in Nat \cup {None},
         previous' = previous, current' = current, next' \in {next, None},
         send_initiation(tm, nx, now, wall, driven, reason)
  PROVE  QuietMove(Slots, Slots', ret') \/ InitiateMove(Slots, Slots', ret')
<1>1. KeptOrDropped(Slots, Slots') /\ Slots'.greatest = Slots.greatest
  BY SlotsFields DEF KeptOrDropped, send_initiation
<1>2. CASE ret' \in LocalErrors /\ UNCHANGED <<inflight, last_sent_tai64n>>
  BY <1>1, <1>2, SlotsFields
     DEF QuietMove, SameTimes, LocalErrors, Initiated, Transported, Received
<1>3. CASE /\ last_sent_tai64n' =
                IF last_sent_tai64n # None /\ tai64n(wall) <= last_sent_tai64n
                  THEN tick(last_sent_tai64n) ELSE tai64n(wall)
           /\ \E index, eph : inflight' = create_initiation(index, eph)
           /\ ret' = reason
  <2>1. tai64n(wall) \in Nat
    BY TaiType
  <2>2. /\ last_sent_tai64n' \in Nat
        /\ last_sent_tai64n # None => last_sent_tai64n < last_sent_tai64n'
    BY <1>3, <2>1 DEF tick
  <2> QED
    BY <1>1, <1>3, <2>2, SlotsFields, Zenon DEF InitiateMove
<1> QED
  BY <1>2, <1>3, Zenon DEF send_initiation

\* A keepalive leaves on the current session, or the buffer is too small.
LEMMA MovesKeepalive ==
  ASSUME NEW tm, NEW now, NEW reason \in Transported, current # None,
         next' \in {next, None}, send_keepalive(tm, now, reason)
  PROVE  QuietMove(Slots, Slots', ret') \/ SendMove(Slots, Slots', ret')
<1>1. CASE ret' = "BufferTooSmall" /\ UNCHANGED current
  BY <1>1, SlotsFields DEF send_keepalive, timestamps, QuietMove, KeptOrDropped, SameTimes,
     Initiated, Transported, Received
<1>2. CASE ret' = reason /\ current' = next_counter(current)
  BY <1>2, SlotsFields DEF send_keepalive, timestamps, SendMove, SameTimes
<1> QED
  BY <1>1, <1>2, Zenon DEF send_keepalive

\* encapsulate and initiate_handshake.
LEMMA MovesCalls ==
  ASSUME NEW clock, NEW wall \in Nat, NEW empty, last_sent_tai64n \in Nat \cup {None},
         Encapsulate(clock, wall, empty) \/ InitiateHandshake(clock, wall)
  PROVE  \/ QuietMove(Slots, Slots', ret') \/ InitiateMove(Slots, Slots', ret')
         \/ SendMove(Slots, Slots', ret')
<1> DEFINE now == clamp_now(clock)
<1>1. CASE EncapsulateHandshake(now, wall)
  <2>1. CASE /\ ret' = "NotEstablished"
             /\ UNCHANGED <<inflight, timestamps, sessions>>
    BY <2>1, SlotsFields DEF sessions, timestamps, QuietMove, KeptOrDropped, SameTimes,
       Initiated, Transported, Received
  <2>2. ASSUME NEW tm, UNCHANGED sessions,
               send_initiation(tm, next, now, wall, FALSE, "HandshakeInitiation")
        PROVE  QuietMove(Slots, Slots', ret') \/ InitiateMove(Slots, Slots', ret')
    BY <2>2, MovesInitiation, Zenon DEF sessions, Initiated
  <2> QED
    BY <1>1, <2>1, <2>2, Zenon DEF EncapsulateHandshake
<1>2. CASE EncapsulateTransport(now, empty)
  <2>1. CASE ret' = "BufferTooSmall" /\ UNCHANGED current
    BY <1>2, <2>1, SlotsFields DEF EncapsulateTransport, timestamps, QuietMove, KeptOrDropped,
       SameTimes, Initiated, Transported, Received
  <2>2. CASE ret' = "Transport" /\ current' = next_counter(current)
    BY <1>2, <2>2, SlotsFields DEF EncapsulateTransport, current_usable, timestamps,
       SendMove, SameTimes, Transported
  <2> QED
    BY <1>2, <2>1, <2>2, Zenon DEF EncapsulateTransport
<1>3. CASE InitiateHandshake(clock, wall)
  <2>1. CASE Reject("HandshakeRateLimited")
    <3>1. "HandshakeRateLimited" \in
            Results \ (Initiated \cup Transported \cup Received \cup {"Reply"})
      BY DEF Results, Initiated, Transported, Received
    <3> QED
      BY <2>1, <3>1, MovesReject
  <2>2. ASSUME NEW tm, UNCHANGED sessions,
               send_initiation(tm, next, now, wall, FALSE, "HandshakeInitiation")
        PROVE  QuietMove(Slots, Slots', ret') \/ InitiateMove(Slots, Slots', ret')
    BY <2>2, MovesInitiation, Zenon DEF sessions, Initiated
  <2> QED
    BY <1>3, <2>1, <2>2, Zenon DEF InitiateHandshake
<1> QED
  BY <1>1, <1>2, <1>3, Zenon DEF Encapsulate

\* poll.
LEMMA MovesPoll ==
  ASSUME NEW clock, NEW wall \in Nat, last_sent_tai64n \in Nat \cup {None},
         Poll(clock, wall)
  PROVE  \/ QuietMove(Slots, Slots', ret') \/ InitiateMove(Slots, Slots', ret')
         \/ SendMove(Slots, Slots', ret')
<1> DEFINE t == clamp_now(clock)
<1>1. next_at(t) \in {next, None}
  BY DEF next_at
<1>2. CASE PollDiscard(t)
  BY <1>2, SlotsFields DEF PollDiscard, discard_all_sessions, timestamps, QuietMove,
     KeptOrDropped, SameTimes, Initiated, Transported, Received
<1>3. ASSUME NEW tm, NEW reason \in {"Idle", "HandshakeExpired"},
             PollSilent(t, tm, reason), inflight' \in {inflight, None}
      PROVE  QuietMove(Slots, Slots', ret')
  BY <1>1, <1>3, SlotsFields DEF PollSilent, timestamps, QuietMove, KeptOrDropped, SameTimes,
     Initiated, Transported, Received
<1>4. ASSUME NEW tm, NEW reason \in Initiated, PollSend(t, wall, tm, reason)
      PROVE  QuietMove(Slots, Slots', ret') \/ InitiateMove(Slots, Slots', ret')
  BY <1>1, <1>4, MovesInitiation, Zenon DEF PollSend
<1>5. CASE PollRetransmit(t, wall)
  BY <1>3, <1>4, <1>5, Zenon DEF PollRetransmit, Initiated
<1>6. CASE PollInitiate(t, wall) \/ PollRevive(t, wall)
  BY <1>4, <1>6, Zenon DEF PollInitiate, PollRevive, Initiated
<1>7. CASE PollKeepalive(t) \/ PollPersistent(t)
  <2>1. current # None
    BY <1>7, Zenon DEF PollKeepalive, PollPersistent, ConfirmNow, PassiveNow, PersistentNow,
       current_usable
  <2>2. PICK reason \in Transported : send_keepalive(timers_rekeyed, t, reason)
    BY <1>7, Zenon DEF PollKeepalive, PollPersistent, Transported
  <2>3. next' \in {next, None}
    BY <1>1, <1>7, Zenon DEF PollKeepalive, PollPersistent
  <2> QED
    BY <2>1, <2>2, <2>3, MovesKeepalive
<1>8. CASE PollIdle(t)
  BY <1>3, <1>8, Zenon DEF PollIdle
<1> QED
  BY <1>2, <1>5, <1>6, <1>7, <1>8, Zenon DEF Poll

\* An initiation delivered while the caller is not under load.
LEMMA MovesDecapsulateInitiation ==
  ASSUME NEW clock, NEW m, NEW remote, DecapsulateInitiation(clock, m, FALSE, remote)
  PROVE  QuietMove(Slots, Slots', ret') \/ RespondMove(Slots, Slots', ret', m)
<1> DEFINE errors == Results \ (Initiated \cup Transported \cup Received \cup {"Reply"})
<1>1. {"InvalidMac1", "UnknownPeer", "AuthFailure", "ReplayedTimestamp"} \subseteq errors
  BY DEF Results, Initiated, Transported, Received
<1>2. ASSUME NEW error \in errors, Reject(error) PROVE QuietMove(Slots, Slots', ret')
  BY <1>2, MovesReject
<1>3. CASE consume_initiation(m) # "Ok" /\ Reject(consume_initiation(m))
  <2>1. consume_initiation(m) \in errors
    BY <1>1, <1>3 DEF consume_initiation
  <2> HIDE DEF errors
  <2> QED
    BY <1>2, <1>3, <2>1
<1>4. ASSUME NEW now, RespondTo(m, now)
      PROVE  QuietMove(Slots, Slots', ret') \/ RespondMove(Slots, Slots', ret', m)
  <2>1. CASE ret' \in LocalErrors /\ UNCHANGED protocol
    BY <2>1, SlotsFields DEF protocol, sessions, timestamps, QuietMove, KeptOrDropped, SameTimes,
       LocalErrors, Initiated, Transported, Received
  <2>2. CASE /\ \E index, eph : next' = new_session(index, m.sender_index,
                                       create_response(m, eph), FALSE, now)
             /\ greatest_timestamp' = m.timestamp
             /\ ret' = "Reply"
             /\ UNCHANGED <<inflight, last_sent_tai64n, previous, current>>
    BY <2>2, SlotsFields, Zenon DEF RespondMove
  <2> QED
    BY <1>4, <2>1, <2>2, Zenon DEF RespondTo
<1> HIDE DEF errors
<1> QED
  BY <1>1, <1>2, <1>3, <1>4, Zenon DEF DecapsulateInitiation, mac2_passes

\* A response delivered while the caller is not under load.
LEMMA MovesDecapsulateResponse ==
  ASSUME NEW clock, NEW m, NEW remote, DecapsulateResponse(clock, m, FALSE, remote)
  PROVE  QuietMove(Slots, Slots', ret') \/ CompleteMove(Slots, Slots', ret', m)
<1> DEFINE errors == Results \ (Initiated \cup Transported \cup Received \cup {"Reply"})
<1>1. {"InvalidMac1", "NoPendingHandshake", "AuthFailure"} \subseteq errors
  BY DEF Results, Initiated, Transported, Received
<1>2. ASSUME NEW error \in errors, Reject(error) PROVE QuietMove(Slots, Slots', ret')
  BY <1>2, MovesReject
<1>3. ASSUME NEW now, HasIndex(inflight, m.receiver_index), response_opens(inflight, m),
             CompleteHandshake(m, now)
      PROVE  CompleteMove(Slots, Slots', ret', m)
  <2>1. /\ inflight # None /\ inflight.local_index = m.receiver_index
        /\ inflight.ephemeral = m.answers
    BY <1>3 DEF HasIndex, response_opens
  <2> QED
    BY <1>3, <2>1, SlotsFields, Zenon DEF CompleteHandshake, timestamps, CompleteMove, SameTimes
<1> HIDE DEF errors
<1> QED
  BY <1>1, <1>2, <1>3, Zenon DEF DecapsulateResponse, mac2_passes

\* A transport message delivered.
LEMMA MovesDecapsulateTransport ==
  ASSUME NEW clock, NEW m, DecapsulateTransport(clock, m)
  PROVE  QuietMove(Slots, Slots', ret') \/ AcceptMove(Slots, Slots', ret', m)
<1> DEFINE errors == Results \ (Initiated \cup Transported \cup Received \cup {"Reply"})
           s == session_with_index(m.receiver_index)
<1>1. {"UnknownReceiverIndex", "Expired", "Replay", "BufferTooSmall", "AuthFailure"}
        \subseteq errors
  BY DEF Results, LocalErrors, Initiated, Transported, Received
<1>2. ASSUME NEW error \in errors, Reject(error) PROVE QuietMove(Slots, Slots', ret')
  BY <1>2, MovesReject
<1>3. s # None => s \in {previous, current, next}
  BY DEF session_with_index
<1> HIDE DEF errors, s
<1>4. ASSUME NEW now, s # None, replay_check(s.replay, m.counter), opens_under(s, m),
             PromoteNext(s, m, now) \/ AcceptInPlace(s, m, now),
             UNCHANGED timestamps
      PROVE  AcceptMove(Slots, Slots', ret', m)
  <2>1. /\ m.key = s.key /\ m.from_initiator = ~s.is_initiator
        /\ m.counter \notin s.replay
    BY <1>4, Zenon DEF replay_check, opens_under
  <2>2. SameTimes(Slots, Slots')
    BY <1>4, SlotsFields DEF timestamps, SameTimes
  <2>3. ret' \in Received
    BY <1>4 DEF PromoteNext, AcceptInPlace, ReceivePath, Received
  <2>4. inflight' \in {inflight, None}
    BY <1>4, Zenon DEF PromoteNext, AcceptInPlace
  <2>5. s \in {Slots.previous, Slots.current, Slots.next} \ {None}
    BY <1>3, <1>4, SlotsFields
  <2>6. CASE PromoteNext(s, m, now)
    BY <2>1, <2>2, <2>3, <2>4, <2>5, <2>6, SlotsFields, Zenon DEF PromoteNext, AcceptMove
  <2>7. CASE AcceptInPlace(s, m, now)
    BY <2>1, <2>2, <2>3, <2>4, <2>5, <2>7, SlotsFields, Zenon DEF AcceptInPlace, AcceptMove
  <2> QED
    BY <1>4, <2>6, <2>7
<1> QED
  BY <1>1, <1>2, <1>4, Zenon DEF DecapsulateTransport, s

\* What a call does is one of these moves.
LEMMA MovesOfCall ==
  ASSUME NEW clock, NEW wall \in Nat, NEW empty, last_sent_tai64n \in Nat \cup {None},
         \/ Encapsulate(clock, wall, empty) \/ Poll(clock, wall)
         \/ InitiateHandshake(clock, wall)
  PROVE  CallMove(Slots, Slots', ret')
BY MovesCalls, MovesPoll, Zenon DEF CallMove

\* And so is what a delivery does.
LEMMA MovesOfDelivery ==
  ASSUME NEW clock, NEW m, NEW remote,
         \/ m.kind = "initiation" /\ DecapsulateInitiation(clock, m, FALSE, remote)
         \/ m.kind = "response" /\ DecapsulateResponse(clock, m, FALSE, remote)
         \/ m.kind = "transport" /\ DecapsulateTransport(clock, m)
  PROVE  DeliverMove(Slots, Slots', ret', m)
BY MovesDecapsulateInitiation, MovesDecapsulateResponse, MovesDecapsulateTransport, Zenon
   DEF DeliverMove

-----------------------------------------------------------------------------
(* What two tunnels promise each other *)

\* own[me] is what side `me' draws its ephemerals from.
Disjoint(own) == own["a"] \cap own["b"] = {}

-----------------------------------------------------------------------------
(* What holds of a session s of side `me', when `ms' is on the wire, the    *)
(* ephemerals `seen' were drawn and the nonces `acc' accepted.              *)

\* s is a record of these fields.
Shape(s) ==
  s \in [ local_index : {s.local_index}, peer_index : {s.peer_index}, key : {s.key},
          is_initiator : BOOLEAN, send_counter : Nat, replay : {s.replay},
          created : {s.created}, confirmed : {s.confirmed} ]

\* Each side's ephemeral stands in the place of its role.
Roles(own, s, me, seen) ==
  /\ s.key.initiator \in seen \cap own[IF s.is_initiator THEN me ELSE Peer(me)]
  /\ s.key.responder \in seen \cap own[IF s.is_initiator THEN Peer(me) ELSE me]

\* The counters used so far are below the one kept.
Unused(s, ms) ==
  \A m \in ms :
    m.kind = "transport" /\ m.key = s.key /\ m.from_initiator = s.is_initiator =>
      m.counter < s.send_counter

\* The replay window has all that was accepted, and only what was sent.
Recorded(s, ms, acc) ==
  \A m \in ms :
    /\ m.kind = "transport" /\ m.key = s.key /\ m.from_initiator = ~s.is_initiator
    /\ nonce(m) \in acc
    => m.counter \in s.replay

Genuine(s, ms) ==
  \A c \in s.replay : \E m \in ms :
    /\ m.kind = "transport" /\ m.key = s.key /\ m.from_initiator = ~s.is_initiator
    /\ m.counter = c

\* The response that made the session carried its two indices.
Agreed(s, ms) ==
  /\ s.is_initiator =>
       \E m \in ms :
         /\ m.kind = "response" /\ m.ephemeral = s.key.responder
         /\ m.sender_index = s.peer_index /\ m.receiver_index = s.local_index
  /\ ~s.is_initiator =>
       \A m \in ms : m.kind = "response" /\ m.ephemeral = s.key.responder =>
         m.sender_index = s.local_index /\ m.receiver_index = s.peer_index

SessionInv(own, s, me, ms, seen, acc) ==
  /\ Shape(s) /\ Roles(own, s, me, seen)
  /\ Unused(s, ms) /\ Recorded(s, ms, acc) /\ Genuine(s, ms)
  /\ Agreed(s, ms)

-----------------------------------------------------------------------------
(* What holds of side `me' with slots x. *)

Held(x) == {x.previous, x.current, x.next} \ {None}

\* No two slots share a key.
KeysDistinct(x) ==
  /\ x.previous # None /\ x.current # None => x.previous.key # x.current.key
  /\ x.previous # None /\ x.next # None => x.previous.key # x.next.key
  /\ x.current # None /\ x.next # None => x.current.key # x.next.key

\* The ephemeral in flight has made no session yet.
FlightInv(own, x, me, ms, seen, acc) ==
  x.inflight # None =>
    /\ x.inflight.ephemeral \in seen \cap own[me]
    /\ \A s \in Held(x) : s.key.initiator # x.inflight.ephemeral
    /\ \A m \in ms :
         m.kind = "transport" /\ m.key.initiator = x.inflight.ephemeral =>
           m.from_initiator = FALSE /\ nonce(m) \notin acc

SideInv(own, x, me, ms, seen, acc) ==
  /\ KeysDistinct(x)
  /\ \A s \in Held(x) : SessionInv(own, s, me, ms, seen, acc)
  /\ FlightInv(own, x, me, ms, seen, acc)

\* What is on the wire was drawn, and an ephemeral by the side that sent it.
MessageInv(own, m, seen) ==
  /\ m.kind \in {"initiation", "response", "transport"} /\ m.to \in Sides
  /\ m.kind \in {"initiation", "response"} => m.ephemeral \in seen \cap own[Peer(m.to)]
  /\ m.kind = "transport" =>
       m.key.initiator \in seen /\ m.key.responder \in seen /\ m.counter \in Nat

NetInv(own, ms, seen, acc) ==
  (\A m \in ms : MessageInv(own, m, seen)) /\ acc \subseteq Nonces(ms)

\* Timestamps of our initiations are at most the last one sent, which only the
\* handshake in flight carries.
Stamped(x, me, ms) ==
  \A m \in ms : m.kind = "initiation" /\ m.to = Peer(me) =>
    /\ m.timestamp \in Nat /\ x.sent # None /\ m.timestamp <= x.sent
    /\ x.inflight # None /\ m.timestamp = x.sent =>
         m.ephemeral = x.inflight.ephemeral

\* The greatest timestamp seen came with an initiation that was answered.
Answered(x, me, ms) ==
  x.greatest # None =>
    \E m, r \in ms :
      /\ m.kind = "initiation" /\ m.to = me /\ m.timestamp = x.greatest
      /\ r.kind = "response" /\ r.answers = m.ephemeral

Both(own, x, z, me, ms, seen, acc) ==
  /\ NetInv(own, ms, seen, acc)
  /\ SideInv(own, x, me, ms, seen, acc) /\ SideInv(own, z, Peer(me), ms, seen, acc)

-----------------------------------------------------------------------------
(* Facts about the definitions *)

\* The two sides are each other's peer and draw from disjoint sets.
LEMMA SidesDiffer ==
  ASSUME NEW own, Disjoint(own), NEW me \in Sides
  PROVE  /\ Peer(me) \in Sides /\ Peer(Peer(me)) = me /\ Peer(me) # me
         /\ own[me] \cap own[Peer(me)] = {}
BY DEF Disjoint, Sides, Peer

\* A key that both sides hold is held in opposite roles.
LEMMA RolesDiffer ==
  ASSUME NEW own, Disjoint(own), NEW me \in Sides, NEW s, NEW t, NEW seen, Shape(s), Shape(t),
         Roles(own, s, me, seen), Roles(own, t, Peer(me), seen), s.key = t.key
  PROVE  s.is_initiator # t.is_initiator
<1>1. own[me] \cap own[Peer(me)] = {} /\ Peer(Peer(me)) = me
  BY SidesDiffer
<1> QED
  BY <1>1 DEF Shape, Roles

\* A nonce names a key, a direction and a counter.
LEMMA NonceFields ==
  ASSUME NEW m, NEW n, nonce(m) = nonce(n)
  PROVE  m.key = n.key /\ m.from_initiator = n.from_initiator /\ m.counter = n.counter
BY DEF nonce

\* What was accepted is on the wire.
LEMMA AcceptedSent ==
  ASSUME NEW own, NEW ms, NEW seen, NEW acc, NetInv(own, ms, seen, acc), NEW m, nonce(m) \in acc
  PROVE  \E n \in ms : /\ n.kind = "transport" /\ nonce(n) = nonce(m)
                       /\ n.key = m.key /\ n.from_initiator = m.from_initiator
                       /\ n.counter = m.counter
<1>1. PICK n \in ms : n.kind = "transport" /\ nonce(n) = nonce(m)
  BY DEF NetInv, Nonces
<1> QED
  BY <1>1, NonceFields

\* Two sessions of one side with one key are one.
LEMMA KeyNamesSession ==
  ASSUME NEW x, KeysDistinct(x), NEW s \in Held(x), NEW t \in Held(x), s.key = t.key
  PROVE  s = t
BY DEF KeysDistinct, Held

\* Sending moves a session's counter, and nothing else the invariant reads.
LEMMA SentSession ==
  ASSUME NEW s, Shape(s), NEW t, t = next_counter(s)
  PROVE  /\ Shape(t)
         /\ t.local_index = s.local_index /\ t.peer_index = s.peer_index
         /\ t.key = s.key /\ t.is_initiator = s.is_initiator
         /\ t.send_counter = s.send_counter + 1 /\ t.replay = s.replay
BY DEF Shape, next_counter

\* Accepting a counter records it, and changes nothing else the invariant reads.
LEMMA AcceptedSession ==
  ASSUME NEW s, Shape(s), NEW c, NEW t, t = accept_transport(s, c)
  PROVE  /\ Shape(t)
         /\ t.local_index = s.local_index /\ t.peer_index = s.peer_index
         /\ t.key = s.key /\ t.is_initiator = s.is_initiator
         /\ t.send_counter = s.send_counter /\ t.replay = s.replay \cup {c}
BY Zenon DEF Shape, accept_transport

-----------------------------------------------------------------------------
(* What a step leaves alone *)

\* New datagrams do not disturb a session unless one is sent under its own half
\* of the key, or is a response with an ephemeral already drawn.
LEMMA SessionFrame ==
  ASSUME NEW own, NEW s, NEW me, NEW ms, NEW new, NEW seen, NEW seen2, NEW acc,
         NetInv(own, ms, seen, acc), SessionInv(own, s, me, ms, seen, acc), seen \subseteq seen2,
         \A m \in new : m.kind = "transport" /\ m.key = s.key =>
           m.from_initiator # s.is_initiator,
         \A m \in new : m.kind = "response" => m.ephemeral \notin seen
  PROVE  SessionInv(own, s, me, ms \cup new, seen2, acc)
<1>1. Shape(s) /\ Roles(own, s, me, seen2)
  BY DEF SessionInv, Roles
<1>2. Unused(s, ms \cup new)
  BY DEF SessionInv, Unused
<1>3. Recorded(s, ms \cup new, acc)
  <2>1. SUFFICES ASSUME NEW m, m.kind = "transport", m.key = s.key,
                        m.from_initiator = ~s.is_initiator, nonce(m) \in acc
                 PROVE  m.counter \in s.replay
    BY Zenon DEF Recorded
  <2>2. PICK n \in ms : /\ n.kind = "transport" /\ nonce(n) = nonce(m)
                        /\ n.key = m.key /\ n.from_initiator = m.from_initiator
                        /\ n.counter = m.counter
    BY <2>1, AcceptedSent
  <2> QED
    BY <2>1, <2>2, Zenon DEF SessionInv, Recorded
<1>4. Genuine(s, ms \cup new)
  BY DEF SessionInv, Genuine
<1>5. Agreed(s, ms \cup new)
  <2>1. s.key.responder \in seen
    BY DEF SessionInv, Roles
  <2> QED
    BY <2>1 DEF SessionInv, Agreed
<1> QED
  BY <1>1, <1>2, <1>3, <1>4, <1>5 DEF SessionInv

\* Accepting a datagram does not disturb a session that it is not for.
LEMMA SessionAccepted ==
  ASSUME NEW own, NEW s, NEW me, NEW ms, NEW seen, NEW acc, NEW m0,
         SessionInv(own, s, me, ms, seen, acc),
         m0.key = s.key => m0.from_initiator # ~s.is_initiator
  PROVE  SessionInv(own, s, me, ms, seen, acc \cup {nonce(m0)})
<1>1. Recorded(s, ms, acc \cup {nonce(m0)})
  <2>1. SUFFICES ASSUME NEW m \in ms, m.kind = "transport", m.key = s.key,
                        m.from_initiator = ~s.is_initiator,
                        nonce(m) \in acc \cup {nonce(m0)}
                 PROVE  m.counter \in s.replay
    BY Zenon DEF Recorded
  <2>2. nonce(m) # nonce(m0)
    BY <2>1, NonceFields
  <2> QED
    BY <2>1, <2>2 DEF SessionInv, Recorded
<1> QED
  BY <1>1 DEF SessionInv

\* The handshake in flight is as it was, or gone.
LEMMA FlightFrame ==
  ASSUME NEW own, NEW x, NEW y, NEW me, NEW ms, NEW new, NEW seen, NEW seen2, NEW acc,
         NetInv(own, ms, seen, acc), FlightInv(own, x, me, ms, seen, acc), seen \subseteq seen2,
         y.inflight \in {x.inflight, None},
         x.inflight # None =>
           /\ \A s \in Held(y) : s.key.initiator # x.inflight.ephemeral
           /\ \A m \in new :
                m.kind = "transport" /\ m.key.initiator = x.inflight.ephemeral =>
                  m.from_initiator = FALSE
  PROVE  FlightInv(own, y, me, ms \cup new, seen2, acc)
<1>1. SUFFICES ASSUME y.inflight # None
               PROVE  FlightInv(own, y, me, ms \cup new, seen2, acc)
  BY Zenon DEF FlightInv
<1>2. y.inflight = x.inflight /\ x.inflight # None
  BY <1>1
<1>3. ASSUME NEW m \in ms \cup new, m.kind = "transport",
             m.key.initiator = x.inflight.ephemeral
      PROVE  m.from_initiator = FALSE /\ nonce(m) \notin acc
  <2>1. m.from_initiator = FALSE
    BY <1>2, <1>3 DEF FlightInv
  <2>2. nonce(m) \notin acc
    <3>1. SUFFICES ASSUME nonce(m) \in acc PROVE FALSE
      OBVIOUS
    <3>2. PICK n \in ms : /\ n.kind = "transport" /\ nonce(n) = nonce(m)
                          /\ n.key = m.key
      BY <3>1, AcceptedSent
    <3> QED
      BY <1>2, <1>3, <3>1, <3>2 DEF FlightInv
  <2> QED
    BY <2>1, <2>2
<1> QED
  BY <1>2, <1>3, Zenon DEF FlightInv

\* The other side, when `new' is sent by this one.
LEMMA OtherFrame ==
  ASSUME NEW own, NEW z, NEW me, NEW ms, NEW new, NEW seen, NEW seen2, NEW acc,
         NetInv(own, ms, seen, acc), SideInv(own, z, me, ms, seen, acc), seen \subseteq seen2,
         \A s \in Held(z) : \A m \in new : m.kind = "transport" /\ m.key = s.key =>
           m.from_initiator # s.is_initiator,
         \A m \in new : m.kind = "response" => m.ephemeral \notin seen,
         \A m \in new : m.kind = "transport" /\ m.from_initiator # FALSE =>
           m.key.initiator \notin own[me]
  PROVE  SideInv(own, z, me, ms \cup new, seen2, acc)
<1>1. ASSUME NEW s \in Held(z) PROVE SessionInv(own, s, me, ms \cup new, seen2, acc)
  BY <1>1, SessionFrame, Zenon DEF SideInv
<1>2. FlightInv(own, z, me, ms \cup new, seen2, acc)
  <2>1. FlightInv(own, z, me, ms, seen, acc)
    BY DEF SideInv
  <2>2. ASSUME z.inflight # None
        PROVE  /\ \A s \in Held(z) : s.key.initiator # z.inflight.ephemeral
               /\ z.inflight.ephemeral \in own[me]
    BY <2>1, <2>2 DEF FlightInv
  <2>3. z.inflight # None =>
          \A m \in new : m.kind = "transport" /\ m.key.initiator = z.inflight.ephemeral =>
            m.from_initiator = FALSE
    BY <2>2, Zenon
  <2> QED
    BY <2>1, <2>2, <2>3, FlightFrame, Zenon
<1> QED
  BY <1>1, <1>2, Zenon DEF SideInv

-----------------------------------------------------------------------------
(* The steps of side `me', one kind at a time: x and y are its slots before *)
(* and after, z the slots of the other side.                                *)

\* New datagrams on the wire.
LEMMA NetFrame ==
  ASSUME NEW own, NEW ms, NEW new, NEW seen, NEW seen2, NEW acc, NetInv(own, ms, seen, acc),
         seen \subseteq seen2, \A m \in new : MessageInv(own, m, seen2)
  PROVE  NetInv(own, ms \cup new, seen2, acc)
<1>1. \A m \in ms : MessageInv(own, m, seen2)
  BY DEF NetInv, MessageInv
<1>2. acc \subseteq Nonces(ms \cup new)
  BY DEF NetInv, Nonces
<1> QED
  BY <1>1, <1>2 DEF NetInv

\* Sessions kept or dropped.
LEMMA HeldKept ==
  ASSUME NEW x, NEW y, KeptOrDropped(x, y)
  PROVE  Held(y) \subseteq Held(x) /\ (KeysDistinct(x) => KeysDistinct(y))
BY DEF KeptOrDropped, Held, KeysDistinct

\* A call that sends and accepts nothing.
LEMMA StepQuiet ==
  ASSUME NEW own, NEW x, NEW y, NEW z, NEW me, NEW r, NEW ms, NEW seen, NEW acc,
         Both(own, x, z, me, ms, seen, acc), QuietMove(x, y, r)
  PROVE  Both(own, y, z, me, ms, seen, acc)
<1>1. Held(y) \subseteq Held(x) /\ KeysDistinct(y)
  BY HeldKept DEF Both, SideInv, QuietMove
<1>2. y.inflight \in {x.inflight, None}
  BY DEF QuietMove
<1>3. FlightInv(own, y, me, ms, seen, acc)
  BY <1>1, <1>2, Zenon DEF Both, SideInv, FlightInv
<1> QED
  BY <1>1, <1>3 DEF Both, SideInv

\* A handshake starts.
LEMMA StepInitiates ==
  ASSUME NEW own, Disjoint(own), NEW me \in Sides, NEW x, NEW y, NEW z, NEW r,
         NEW ms, NEW seen, NEW acc,
         Both(own, x, z, me, ms, seen, acc), InitiateMove(x, y, r),
         y.inflight.ephemeral \in own[me] \ seen
  PROVE  Both(own, y, z, me, ms \cup {Initiation(Peer(me), y.inflight, y.sent)},
              seen \cup {y.inflight.ephemeral}, acc)
<1> DEFINE new == {Initiation(Peer(me), y.inflight, y.sent)}
           eph == y.inflight.ephemeral
           seen2 == seen \cup {eph}
<1>1. \A m \in new : m.kind = "initiation" /\ m.to = Peer(me) /\ m.ephemeral = eph
  BY DEF Initiation
<1>2. /\ NetInv(own, ms, seen, acc) /\ SideInv(own, x, me, ms, seen, acc)
      /\ SideInv(own, z, Peer(me), ms, seen, acc)
  BY Zenon DEF Both
<1>3. /\ Held(y) \subseteq Held(x) /\ KeysDistinct(y)
      /\ eph \in own[me] /\ eph \notin seen
  BY <1>2, HeldKept, Zenon DEF SideInv, InitiateMove
<1> HIDE DEF new, eph
<1>4. NetInv(own, ms \cup new, seen2, acc)
  <2>1. ASSUME NEW m \in new PROVE MessageInv(own, m, seen2)
    BY <1>1, <1>3, SidesDiffer, Zenon DEF MessageInv
  <2> QED
    BY <1>2, <2>1, NetFrame, Zenon
<1>5. SideInv(own, z, Peer(me), ms \cup new, seen2, acc)
  BY <1>1, <1>2, OtherFrame, Zenon
<1>6. ASSUME NEW s \in Held(y) PROVE SessionInv(own, s, me, ms \cup new, seen2, acc)
  BY <1>1, <1>2, <1>3, SessionFrame, Zenon DEF SideInv
<1>7. FlightInv(own, y, me, ms \cup new, seen2, acc)
  <2>1. \A s \in Held(y) : s.key.initiator # eph
    BY <1>2, <1>3, Zenon DEF SideInv, SessionInv, Roles
  <2>2. \A m \in ms \cup new : m.kind = "transport" => m.key.initiator # eph
    BY <1>1, <1>2, <1>3, Zenon DEF NetInv, MessageInv
  <2> QED
    BY <1>3, <2>1, <2>2 DEF FlightInv, eph
<1> QED
  BY <1>3, <1>4, <1>5, <1>6, <1>7, Zenon DEF Both, SideInv, new, eph

\* An initiation is answered: the new session has a key no one has used.
LEMMA StepResponds ==
  ASSUME NEW own, Disjoint(own), NEW me \in Sides, NEW x, NEW y, NEW z, NEW r,
         NEW ms, NEW seen, NEW acc,
         NEW i \in ms, i.kind = "initiation", i.to = me,
         Both(own, x, z, me, ms, seen, acc), RespondMove(x, y, r, i),
         y.next.key.responder \in own[me] \ seen
  PROVE  Both(own, y, z, me, ms \cup {Response(Peer(me), y.next)},
              seen \cup {y.next.key.responder}, acc)
<1> DEFINE new == {Response(Peer(me), y.next)}
           n == y.next
           eph == n.key.responder
           seen2 == seen \cup {eph}
<1>1. /\ Shape(n) /\ n.key.initiator = i.ephemeral /\ n.is_initiator = FALSE
      /\ n.peer_index = i.sender_index /\ n.send_counter = 0 /\ n.replay = {}
  <2>1. PICK index, e, now :
          n = new_session(index, i.sender_index, create_response(i, e), FALSE, now)
    BY Zenon DEF RespondMove
  <2>2. create_response(i, e).initiator = i.ephemeral
    BY DEF create_response
  <2>3. /\ Shape(n) /\ n.key = create_response(i, e) /\ n.is_initiator = FALSE
        /\ n.peer_index = i.sender_index /\ n.send_counter = 0 /\ n.replay = {}
    <3> HIDE DEF n
    <3> QED
      BY <2>1 DEF Shape, new_session
  <2> QED
    BY <2>2, <2>3
<1>2. \A m \in new : /\ m.kind = "response" /\ m.to = Peer(me) /\ m.ephemeral = eph
                     /\ m.sender_index = n.local_index
                     /\ m.receiver_index = n.peer_index
  BY DEF Response
<1>3. /\ NetInv(own, ms, seen, acc) /\ SideInv(own, x, me, ms, seen, acc)
      /\ SideInv(own, z, Peer(me), ms, seen, acc)
  BY Zenon DEF Both
<1>4. /\ eph \in own[me] /\ eph \notin seen
      /\ i.ephemeral \in seen /\ i.ephemeral \in own[Peer(me)]
  BY <1>3, Zenon DEF NetInv, MessageInv
<1>5. /\ Held(y) \subseteq Held(x) \cup {n}
      /\ y.previous = x.previous /\ y.current = x.current
      /\ y.inflight = x.inflight
  BY Zenon DEF RespondMove, Held
<1>6. \A s \in Held(x) : s.key.initiator \in seen /\ s.key.responder \in seen
  BY <1>3, Zenon DEF SideInv, SessionInv, Roles
<1> HIDE DEF new, eph
<1>7. KeysDistinct(y)
  <2>1. \A s \in Held(x) : s.key # n.key
    BY <1>4, <1>6, Zenon DEF eph
  <2> QED
    BY <1>3, <1>5, <2>1, Zenon DEF SideInv, KeysDistinct, Held
<1>8. NetInv(own, ms \cup new, seen2, acc)
  <2>1. ASSUME NEW m \in new PROVE MessageInv(own, m, seen2)
    BY <1>2, <1>4, SidesDiffer, Zenon DEF MessageInv
  <2> QED
    BY <1>3, <2>1, NetFrame, Zenon
<1>9. SideInv(own, z, Peer(me), ms \cup new, seen2, acc)
  BY <1>2, <1>3, <1>4, OtherFrame, Zenon
<1>10. ASSUME NEW s \in Held(x) PROVE SessionInv(own, s, me, ms \cup new, seen2, acc)
  BY <1>2, <1>3, <1>4, SessionFrame, Zenon DEF SideInv
<1>11. SessionInv(own, n, me, ms \cup new, seen2, acc)
  <2>1. Roles(own, n, me, seen2)
    BY <1>1, <1>4 DEF Roles, eph
  <2>2. \A m \in ms \cup new : m.kind = "transport" => m.key # n.key
    BY <1>2, <1>3, <1>4, Zenon DEF NetInv, MessageInv, eph
  <2>3. Unused(n, ms \cup new) /\ Recorded(n, ms \cup new, acc) /\ Genuine(n, ms \cup new)
    BY <1>1, <2>2, Zenon DEF Unused, Recorded, Genuine
  <2>4. \A m \in ms : m.kind = "response" => m.ephemeral # eph
    BY <1>3, <1>4, Zenon DEF NetInv, MessageInv
  <2>5. Agreed(n, ms \cup new)
    BY <1>1, <1>2, <2>4, Zenon DEF Agreed, eph
  <2> QED
    BY <1>1, <2>1, <2>3, <2>5 DEF SessionInv
<1>12. FlightInv(own, y, me, ms \cup new, seen2, acc)
  <2>1. FlightInv(own, x, me, ms, seen, acc)
    BY <1>3, Zenon DEF SideInv
  <2>2. ASSUME x.inflight # None
        PROVE  \A s \in Held(y) : s.key.initiator # x.inflight.ephemeral
    BY <1>1, <1>4, <1>5, <2>1, <2>2, SidesDiffer DEF FlightInv
  <2>3. \A m \in new : m.kind # "transport"
    BY <1>2, Zenon
  <2> QED
    BY <1>3, <1>5, <2>1, <2>2, <2>3, FlightFrame, Zenon
<1> QED
  BY <1>5, <1>7, <1>8, <1>9, <1>10, <1>11, <1>12, Zenon DEF Both, SideInv, new, eph

\* A response completes the handshake in flight, whose ephemeral was in no key.
LEMMA StepCompletes ==
  ASSUME NEW own, Disjoint(own), NEW me \in Sides, NEW x, NEW y, NEW z, NEW r,
         NEW ms, NEW seen, NEW acc,
         NEW i \in ms, i.kind = "response", i.to = me,
         Both(own, x, z, me, ms, seen, acc), CompleteMove(x, y, r, i)
  PROVE  Both(own, y, z, me, ms, seen, acc)
<1> DEFINE n == y.current
           eph == x.inflight.ephemeral
<1>1. /\ Shape(n) /\ n.key.initiator = eph /\ n.key.responder = i.ephemeral
      /\ n.is_initiator = TRUE /\ n.local_index = i.receiver_index
      /\ n.peer_index = i.sender_index /\ n.send_counter = 0 /\ n.replay = {}
  <2>1. PICK now :
          n = new_session(x.inflight.local_index, i.sender_index,
                             consume_response(x.inflight, i), TRUE, now)
    BY Zenon DEF CompleteMove
  <2>2. /\ consume_response(x.inflight, i).initiator = eph
        /\ consume_response(x.inflight, i).responder = i.ephemeral
        /\ x.inflight.local_index = i.receiver_index
    BY Zenon DEF consume_response, CompleteMove
  <2>3. /\ Shape(n) /\ n.key = consume_response(x.inflight, i) /\ n.is_initiator = TRUE
        /\ n.local_index = x.inflight.local_index
        /\ n.peer_index = i.sender_index /\ n.send_counter = 0 /\ n.replay = {}
    <3> HIDE DEF n
    <3> QED
      BY <2>1, Zenon DEF Shape, new_session
  <2> QED
    BY <2>2, <2>3, Zenon
<1>2. /\ NetInv(own, ms, seen, acc) /\ SideInv(own, x, me, ms, seen, acc)
      /\ SideInv(own, z, Peer(me), ms, seen, acc)
  BY Zenon DEF Both
<1>3. /\ Held(y) \subseteq Held(x) \cup {n} /\ x.inflight # None
      /\ y.previous = x.current /\ y.next = x.next /\ y.inflight = None
  BY Zenon DEF CompleteMove, Held
<1>4. /\ eph \in seen /\ eph \in own[me]
      /\ \A s \in Held(x) : s.key.initiator # eph
      /\ \A m \in ms : m.kind = "transport" /\ m.key.initiator = eph =>
           m.from_initiator = FALSE /\ nonce(m) \notin acc
  BY <1>2, <1>3 DEF SideInv, FlightInv
<1>5. i.ephemeral \in seen /\ i.ephemeral \in own[Peer(me)]
  BY <1>2, Zenon DEF NetInv, MessageInv
<1> HIDE DEF eph
<1>6. KeysDistinct(y)
  <2>1. \A s \in Held(x) : s.key # n.key
    BY <1>1, <1>4, Zenon
  <2> QED
    BY <1>2, <1>3, <2>1, Zenon DEF SideInv, KeysDistinct, Held
<1>7. SessionInv(own, n, me, ms, seen, acc)
  <2>1. Roles(own, n, me, seen)
    BY <1>1, <1>4, <1>5, Zenon DEF Roles
  <2>2. ASSUME NEW m \in ms, m.kind = "transport", m.key = n.key
        PROVE  m.from_initiator = FALSE /\ nonce(m) \notin acc
    BY <1>1, <1>4, <2>2, Zenon
  <2>3. Unused(n, ms) /\ Recorded(n, ms, acc) /\ Genuine(n, ms)
    BY <1>1, <2>2, Zenon DEF Unused, Recorded, Genuine
  <2>4. Agreed(n, ms)
    BY <1>1, Zenon DEF Agreed
  <2> QED
    BY <1>1, <2>1, <2>3, <2>4, Zenon DEF SessionInv
<1>8. FlightInv(own, y, me, ms, seen, acc)
  BY <1>3, Zenon DEF FlightInv
<1> QED
  BY <1>2, <1>3, <1>6, <1>7, <1>8, Zenon DEF Both, SideInv

\* A transport message leaves on the current session, under a nonce not used so
\* far.
LEMMA StepSends ==
  ASSUME NEW own, Disjoint(own), NEW me \in Sides, NEW x, NEW y, NEW z, NEW r,
         NEW ms, NEW seen, NEW acc, NEW empty,
         Both(own, x, z, me, ms, seen, acc), SendMove(x, y, r)
  PROVE  LET d == Transport(Peer(me), x.current, empty) IN
         /\ Both(own, y, z, me, ms \cup {d}, seen, acc)
         /\ nonce(d) \notin Nonces(ms)
<1> DEFINE d == Transport(Peer(me), x.current, empty)
           s == x.current
           n == y.current
           new == {d}
<1>1. /\ d.kind = "transport" /\ d.to = Peer(me) /\ d.key = s.key
      /\ d.from_initiator = s.is_initiator /\ d.counter = s.send_counter
  BY Zenon DEF Transport
<1>2. /\ NetInv(own, ms, seen, acc) /\ SideInv(own, x, me, ms, seen, acc)
      /\ SideInv(own, z, Peer(me), ms, seen, acc)
  BY Zenon DEF Both
<1>3. /\ s # None /\ n = next_counter(s)
      /\ y.previous = x.previous /\ y.next \in {x.next, None}
      /\ y.inflight = x.inflight
  BY Zenon DEF SendMove
<1>4. s \in Held(x) /\ SessionInv(own, s, me, ms, seen, acc)
  BY <1>2, <1>3 DEF Held, SideInv
<1>5. /\ Shape(s) /\ Roles(own, s, me, seen) /\ Unused(s, ms)
      /\ Recorded(s, ms, acc) /\ Genuine(s, ms) /\ Agreed(s, ms)
  BY <1>4, Zenon DEF SessionInv
<1>6. s.is_initiator \in BOOLEAN /\ s.send_counter \in Nat
  BY <1>5, Zenon DEF Shape
<1> HIDE DEF d, s, n
<1>7. /\ Shape(n) /\ n.key = s.key /\ n.is_initiator = s.is_initiator
      /\ n.local_index = s.local_index /\ n.peer_index = s.peer_index
      /\ n.send_counter = s.send_counter + 1 /\ n.replay = s.replay
  BY <1>3, <1>5, SentSession
<1>8. nonce(d) \notin Nonces(ms)
  <2>1. SUFFICES ASSUME NEW m \in ms, m.kind = "transport", nonce(m) = nonce(d)
                 PROVE  FALSE
    BY Zenon DEF Nonces
  <2>2. m.key = s.key /\ m.from_initiator = s.is_initiator /\ m.counter = s.send_counter
    BY <1>1, <2>1, NonceFields, Zenon
  <2>3. s.send_counter < s.send_counter
    BY <1>5, <2>1, <2>2, Zenon DEF Unused
  <2> QED
    BY <1>6, <2>3
<1>9. KeysDistinct(y) /\ \A t \in Held(y) : t = n \/ (t \in Held(x) /\ t.key # s.key)
  BY <1>2, <1>3, <1>7, Zenon DEF SideInv, KeysDistinct, Held, s, n
<1>10. NetInv(own, ms \cup new, seen, acc)
  <2>1. s.key.initiator \in seen /\ s.key.responder \in seen
    BY <1>5, Zenon DEF Roles
  <2>2. MessageInv(own, d, seen)
    BY <1>1, <1>6, <2>1, SidesDiffer, Zenon DEF MessageInv
  <2> QED
    BY <1>2, <2>2, NetFrame, Zenon
<1>11. SideInv(own, z, Peer(me), ms \cup new, seen, acc)
  <2>1. ASSUME NEW t \in Held(z), d.key = t.key PROVE d.from_initiator # t.is_initiator
    <3>1. Shape(t) /\ Roles(own, t, Peer(me), seen)
      BY <1>2 DEF SideInv, SessionInv
    <3> QED
      BY <1>1, <1>5, <2>1, <3>1, RolesDiffer, Zenon
  <2>2. d.from_initiator # FALSE => d.key.initiator \notin own[Peer(me)]
    BY <1>1, <1>5, <1>6, SidesDiffer, Zenon DEF Roles
  <2> QED
    BY <1>1, <1>2, <2>1, <2>2, OtherFrame, Zenon
<1>12. ASSUME NEW t \in Held(x), t.key # s.key
       PROVE  SessionInv(own, t, me, ms \cup new, seen, acc)
  BY <1>1, <1>2, <1>12, SessionFrame, Zenon DEF SideInv
<1>13. SessionInv(own, n, me, ms \cup new, seen, acc)
  <2>1. Roles(own, n, me, seen)
    BY <1>5, <1>7, Zenon DEF Roles
  <2>2. Unused(n, ms \cup new)
    <3>1. ASSUME NEW m \in ms, m.kind = "transport", m.key = s.key,
                 m.from_initiator = s.is_initiator
          PROVE  m.counter < s.send_counter + 1
      <4>1. m.counter < s.send_counter /\ m.counter \in Nat
        BY <1>2, <1>5, <3>1, Zenon DEF Unused, NetInv, MessageInv
      <4> QED
        BY <1>6, <4>1
    <3>2. d.counter < s.send_counter + 1
      BY <1>1, <1>6
    <3> QED
      BY <1>7, <3>1, <3>2, Zenon DEF Unused
  <2>3. Recorded(n, ms \cup new, acc)
    <3>1. d.from_initiator # ~s.is_initiator
      BY <1>1, <1>6, Zenon
    <3> QED
      BY <1>5, <1>7, <3>1, Zenon DEF Recorded
  <2>4. Genuine(n, ms \cup new)
    <3>1. SUFFICES ASSUME NEW c \in s.replay
                   PROVE  \E m \in ms \cup new :
                            /\ m.kind = "transport" /\ m.key = s.key
                            /\ m.from_initiator = ~s.is_initiator /\ m.counter = c
      BY <1>7, Zenon DEF Genuine
    <3> QED
      BY <1>5, <3>1, Zenon DEF Genuine
  <2>5. Agreed(n, ms \cup new)
    BY <1>1, <1>5, <1>7, Zenon DEF Agreed
  <2> QED
    BY <1>7, <2>1, <2>2, <2>3, <2>4, <2>5, Zenon DEF SessionInv
<1>14. FlightInv(own, y, me, ms \cup new, seen, acc)
  <2>1. FlightInv(own, x, me, ms, seen, acc)
    BY <1>2, Zenon DEF SideInv
  <2>2. ASSUME x.inflight # None
        PROVE  /\ \A t \in Held(y) : t.key.initiator # x.inflight.ephemeral
               /\ d.key.initiator # x.inflight.ephemeral
    <3>1. \A t \in Held(x) : t.key.initiator # x.inflight.ephemeral
      BY <2>1, <2>2, Zenon DEF FlightInv
    <3> QED
      BY <1>1, <1>4, <1>7, <1>9, <3>1, Zenon
  <2> QED
    BY <1>2, <1>3, <2>1, <2>2, FlightFrame, Zenon
<1> QED
  BY <1>8, <1>9, <1>10, <1>11, <1>12, <1>13, <1>14, Zenon DEF Both, SideInv, d

\* Accepting a datagram that is not for the handshake in flight.
LEMMA FlightAccepted ==
  ASSUME NEW own, NEW x, NEW me, NEW ms, NEW seen, NEW acc, NEW d,
         FlightInv(own, x, me, ms, seen, acc),
         x.inflight # None /\ d.from_initiator = FALSE =>
           d.key.initiator # x.inflight.ephemeral
  PROVE  FlightInv(own, x, me, ms, seen, acc \cup {nonce(d)})
<1>1. SUFFICES ASSUME x.inflight # None
               PROVE  FlightInv(own, x, me, ms, seen, acc \cup {nonce(d)})
  BY Zenon DEF FlightInv
<1>2. ASSUME NEW m \in ms, m.kind = "transport",
             m.key.initiator = x.inflight.ephemeral
      PROVE  m.from_initiator = FALSE /\ nonce(m) \notin acc \cup {nonce(d)}
  <2>1. m.from_initiator = FALSE /\ nonce(m) \notin acc
    BY <1>1, <1>2 DEF FlightInv
  <2>2. nonce(m) # nonce(d)
    BY <1>1, <1>2, <2>1, NonceFields
  <2> QED
    BY <2>1, <2>2
<1> QED
  BY <1>1, <1>2, Zenon DEF FlightInv

\* A transport message is accepted, for the first time.
LEMMA StepAccepts ==
  ASSUME NEW own, Disjoint(own), NEW me \in Sides, NEW x, NEW y, NEW z, NEW r,
         NEW ms, NEW seen, NEW acc, NEW d \in ms, d.kind = "transport",
         Both(own, x, z, me, ms, seen, acc), AcceptMove(x, y, r, d)
  PROVE  /\ Both(own, y, z, me, ms, seen, acc \cup {nonce(d)})
         /\ nonce(d) \notin acc
<1> DEFINE acc2 == acc \cup {nonce(d)}
<1>1. PICK s \in Held(x) :
        LET put(slot) == IF slot = s THEN accept_transport(s, d.counter) ELSE slot IN
        /\ d.key = s.key /\ d.from_initiator = ~s.is_initiator
        /\ d.counter \notin s.replay
        /\ \/ /\ s = x.next
              /\ y.previous = x.current
              /\ y.current = accept_transport(s, d.counter)
              /\ y.next = None
           \/ /\ y.previous = put(x.previous)
              /\ y.current = put(x.current)
              /\ y.next = put(x.next)
        /\ y.inflight \in {x.inflight, None}
  BY Zenon DEF AcceptMove, Held
<1>0. PICK n : n = accept_transport(s, d.counter)
  OBVIOUS
<1>2. /\ NetInv(own, ms, seen, acc) /\ SideInv(own, x, me, ms, seen, acc)
      /\ SideInv(own, z, Peer(me), ms, seen, acc)
  BY DEF Both
<1>3. /\ Shape(s) /\ Roles(own, s, me, seen) /\ Unused(s, ms)
      /\ Recorded(s, ms, acc) /\ Genuine(s, ms) /\ Agreed(s, ms)
  BY <1>2, Zenon DEF SideInv, SessionInv
<1>4. s.is_initiator \in BOOLEAN /\ s # None
  BY <1>3, Zenon DEF Shape, Held
<1>5. /\ Shape(n) /\ n.key = s.key /\ n.is_initiator = s.is_initiator
      /\ n.local_index = s.local_index /\ n.peer_index = s.peer_index
      /\ n.send_counter = s.send_counter /\ n.replay = s.replay \cup {d.counter}
  BY <1>0, <1>3, AcceptedSession
<1>6. nonce(d) \notin acc
  BY <1>1, <1>3, Zenon DEF Recorded
<1>7. KeysDistinct(y) /\ \A t \in Held(y) : t = n \/ (t \in Held(x) /\ t.key # s.key)
  <2>1. KeysDistinct(x)
    BY <1>2, Zenon DEF SideInv
  <2>2. CASE /\ s = x.next /\ y.previous = x.current /\ y.current = n /\ y.next = None
    BY <1>4, <1>5, <2>1, <2>2, Zenon DEF KeysDistinct, Held
  <2>3. CASE /\ y.previous = IF x.previous = s THEN n ELSE x.previous
             /\ y.current = IF x.current = s THEN n ELSE x.current
             /\ y.next = IF x.next = s THEN n ELSE x.next
    <3>1. CASE s = x.previous
      BY <1>4, <1>5, <2>1, <2>3, <3>1, Zenon DEF KeysDistinct, Held
    <3>2. CASE s = x.current
      BY <1>4, <1>5, <2>1, <2>3, <3>2, Zenon DEF KeysDistinct, Held
    <3>3. CASE s = x.next
      BY <1>4, <1>5, <2>1, <2>3, <3>3, Zenon DEF KeysDistinct, Held
    <3> QED
      BY <3>1, <3>2, <3>3, Zenon DEF Held
  <2> QED
    BY <1>0, <1>1, <2>2, <2>3, Zenon
<1>8. NetInv(own, ms, seen, acc2)
  BY <1>2, Zenon DEF NetInv, Nonces
<1>9. SideInv(own, z, Peer(me), ms, seen, acc2)
  <2>1. ASSUME NEW t \in Held(z) PROVE SessionInv(own, t, Peer(me), ms, seen, acc2)
    <3>1. SessionInv(own, t, Peer(me), ms, seen, acc)
      BY <1>2, Zenon DEF SideInv
    <3>2. Shape(t) /\ Roles(own, t, Peer(me), seen) /\ t.is_initiator \in BOOLEAN
      BY <3>1, Zenon DEF SessionInv, Shape
    <3>3. d.key = t.key => d.from_initiator # ~t.is_initiator
      BY <1>1, <1>3, <1>4, <3>2, RolesDiffer, Zenon
    <3> QED
      BY <3>1, <3>3, SessionAccepted, Zenon
  <2>2. FlightInv(own, z, Peer(me), ms, seen, acc2)
    <3>1. FlightInv(own, z, Peer(me), ms, seen, acc)
      BY <1>2, Zenon DEF SideInv
    <3>2. d.from_initiator = FALSE => d.key.initiator \notin own[Peer(me)]
      BY <1>1, <1>3, <1>4, SidesDiffer, Zenon DEF Roles
    <3>3. z.inflight # None => z.inflight.ephemeral \in own[Peer(me)]
      BY <3>1, Zenon DEF FlightInv
    <3> QED
      BY <3>1, <3>2, <3>3, FlightAccepted, Zenon
  <2> QED
    BY <1>2, <2>1, <2>2, Zenon DEF SideInv
<1>10. ASSUME NEW t \in Held(x), t.key # s.key
       PROVE  SessionInv(own, t, me, ms, seen, acc2)
  BY <1>1, <1>2, <1>10, SessionAccepted, Zenon DEF SideInv
<1>11. SessionInv(own, n, me, ms, seen, acc2)
  <2>1. Roles(own, n, me, seen) /\ Unused(n, ms)
    BY <1>3, <1>5, Zenon DEF Roles, Unused
  <2>2. Recorded(n, ms, acc2)
    <3>1. SUFFICES ASSUME NEW m \in ms, m.kind = "transport", m.key = s.key,
                          m.from_initiator = ~s.is_initiator, nonce(m) \in acc2
                   PROVE  m.counter \in s.replay \cup {d.counter}
      BY <1>5, Zenon DEF Recorded
    <3>2. CASE nonce(m) \in acc
      BY <1>3, <3>1, <3>2, Zenon DEF Recorded
    <3>3. CASE nonce(m) = nonce(d)
      BY <3>3, NonceFields, Zenon
    <3> QED
      BY <3>1, <3>2, <3>3, Zenon
  <2>3. Genuine(n, ms)
    <3>1. SUFFICES ASSUME NEW c \in n.replay
                   PROVE  \E m \in ms :
                            /\ m.kind = "transport" /\ m.key = n.key
                            /\ m.from_initiator = ~n.is_initiator /\ m.counter = c
      BY Zenon DEF Genuine
    <3>2. CASE c \in s.replay
      <4>1. PICK m \in ms : /\ m.kind = "transport" /\ m.key = s.key
                            /\ m.from_initiator = ~s.is_initiator /\ m.counter = c
        BY <1>3, <3>2, Zenon DEF Genuine
      <4> QED
        BY <1>5, <4>1, Zenon
    <3>3. CASE c = d.counter
      BY <1>1, <1>5, <3>3, Zenon
    <3> QED
      BY <1>5, <3>1, <3>2, <3>3
  <2>4. Agreed(n, ms)
    BY <1>3, <1>5, Zenon DEF Agreed
  <2> QED
    BY <1>5, <2>1, <2>2, <2>3, <2>4, Zenon DEF SessionInv
<1>12. FlightInv(own, y, me, ms, seen, acc2)
  <2>1. FlightInv(own, x, me, ms, seen, acc)
    BY <1>2, Zenon DEF SideInv
  <2>2. x.inflight # None => \A t \in Held(x) : t.key.initiator # x.inflight.ephemeral
    BY <2>1, Zenon DEF FlightInv
  <2>3. FlightInv(own, x, me, ms, seen, acc2)
    BY <1>1, <2>1, <2>2, FlightAccepted, Zenon
  <2>4. x.inflight # None => \A t \in Held(y) : t.key.initiator # x.inflight.ephemeral
    BY <1>5, <1>7, <2>2, Zenon
  <2>5. CASE y.inflight = None
    BY <2>5, Zenon DEF FlightInv
  <2>6. CASE y.inflight = x.inflight
    BY <2>3, <2>4, <2>6, Zenon DEF FlightInv
  <2> QED
    BY <1>1, <2>5, <2>6, Zenon
<1> HIDE DEF acc2
<1>13. Both(own, y, z, me, ms, seen, acc2)
  BY <1>7, <1>8, <1>9, <1>10, <1>11, <1>12, Zenon DEF Both, SideInv
<1> QED
  BY <1>6, <1>13 DEF acc2

\* What goes out, by the result of the call.
LEMMA OutByResult ==
  ASSUME NEW me, NEW x, NEW y, NEW r
  PROVE  /\ r \in Initiated => Out(me, x, y, r) = {Initiation(Peer(me), y.inflight, y.sent)}
         /\ r = "Reply" => Out(me, x, y, r) = {Response(Peer(me), y.next)}
         /\ r \in Transported => Out(me, x, y, r) = {Transport(Peer(me), x.current, r # "Transport")}
         /\ r \notin Initiated \cup Transported \cup {"Reply"} => Out(me, x, y, r) = {}
BY Zenon DEF Out, Sent, Initiated, Transported

\* An initiation draws its ephemeral and uses no nonce.
LEMMA InitiationDraws ==
  ASSUME NEW to, NEW fl, NEW ts
  PROVE  /\ Drawn({Initiation(to, fl, ts)}) = {fl.ephemeral}
         /\ Nonces({Initiation(to, fl, ts)}) = {}
<1>1. /\ Initiation(to, fl, ts).kind = "initiation"
      /\ Initiation(to, fl, ts).ephemeral = fl.ephemeral
  BY Zenon DEF Initiation
<1> QED
  BY <1>1, Zenon DEF Drawn, Nonces

\* So does a response.
LEMMA ResponseDraws ==
  ASSUME NEW to, NEW s
  PROVE  /\ Drawn({Response(to, s)}) = {s.key.responder}
         /\ Nonces({Response(to, s)}) = {}
<1>1. /\ Response(to, s).kind = "response"
      /\ Response(to, s).ephemeral = s.key.responder
  BY DEF Response
<1> QED
  BY <1>1, Zenon DEF Drawn, Nonces

\* A transport message draws nothing and uses its nonce.
LEMMA TransportDraws ==
  ASSUME NEW d, d.kind = "transport"
  PROVE  Drawn({d}) = {} /\ Nonces({d}) = {nonce(d)}
BY DEF Drawn, Nonces

\* And nothing sent draws nothing.
LEMMA NothingDraws == Drawn({}) = {} /\ Nonces({}) = {}
BY DEF Drawn, Nonces

\* A call of the application or of its timers.
LEMMA SideCalls ==
  ASSUME NEW own, Disjoint(own), NEW me \in Sides, NEW x, NEW y, NEW z, NEW r,
         NEW ms, NEW seen, NEW acc,
         Both(own, x, z, me, ms, seen, acc), CallMove(x, y, r),
         Drawn(Out(me, x, y, r)) \subseteq own[me] \ seen
  PROVE  /\ Both(own, y, z, me, ms \cup Out(me, x, y, r),
                 seen \cup Drawn(Out(me, x, y, r)), acc)
         /\ Nonces(Out(me, x, y, r)) \cap Nonces(ms) = {}
<1>1. CASE QuietMove(x, y, r)
  <2>1. Out(me, x, y, r) = {}
    BY <1>1, OutByResult, Zenon DEF QuietMove
  <2>2. Both(own, y, z, me, ms, seen, acc)
    BY <1>1, StepQuiet, Zenon
  <2>3. ms \cup Out(me, x, y, r) = ms /\ seen \cup Drawn(Out(me, x, y, r)) = seen
    BY <2>1, NothingDraws, Zenon
  <2> QED
    BY <2>1, <2>2, <2>3, NothingDraws, Zenon
<1>2. CASE InitiateMove(x, y, r)
  <2>1. Out(me, x, y, r) = {Initiation(Peer(me), y.inflight, y.sent)}
    BY <1>2, OutByResult, Zenon DEF InitiateMove
  <2>2. /\ Drawn(Out(me, x, y, r)) = {y.inflight.ephemeral}
        /\ Nonces(Out(me, x, y, r)) = {}
    <3>1. /\ Drawn({Initiation(Peer(me), y.inflight, y.sent)}) = {y.inflight.ephemeral}
          /\ Nonces({Initiation(Peer(me), y.inflight, y.sent)}) = {}
      BY InitiationDraws, Zenon
    <3> QED
      BY <2>1, <3>1, Zenon
  <2>3. y.inflight.ephemeral \in own[me] \ seen
    BY <2>2
  <2>4. Both(own, y, z, me, ms \cup {Initiation(Peer(me), y.inflight, y.sent)},
             seen \cup {y.inflight.ephemeral}, acc)
    BY <1>2, <2>3, StepInitiates, Zenon
  <2> QED
    BY <2>1, <2>2, <2>4, Zenon
<1>3. CASE SendMove(x, y, r)
  <2> DEFINE d == Transport(Peer(me), x.current, r # "Transport")
  <2>1. Out(me, x, y, r) = {d}
    <3>1. r \in Transported
      BY <1>3, Zenon DEF SendMove
    <3> QED
      BY <3>1, OutByResult
  <2>2. Drawn({d}) = {} /\ Nonces({d}) = {nonce(d)}
    <3>1. d.kind = "transport"
      BY Zenon DEF Transport
    <3> HIDE DEF d
    <3> QED
      BY <3>1, TransportDraws, Zenon
  <2>3. Both(own, y, z, me, ms \cup {d}, seen, acc) /\ nonce(d) \notin Nonces(ms)
    BY <1>3, StepSends, Zenon
  <2> HIDE DEF d
  <2>4. seen \cup Drawn({d}) = seen /\ Nonces({d}) \cap Nonces(ms) = {}
    BY <2>2, <2>3, Zenon
  <2> QED
    BY <2>1, <2>3, <2>4, Zenon
<1> QED
  BY <1>1, <1>2, <1>3, Zenon DEF CallMove

\* A datagram of the wire arrives.
LEMMA SideDelivers ==
  ASSUME NEW own, Disjoint(own), NEW me \in Sides, NEW x, NEW y, NEW z, NEW r,
         NEW ms, NEW seen, NEW acc, NEW m \in ms, m.to = me,
         Both(own, x, z, me, ms, seen, acc), DeliverMove(x, y, r, m),
         Drawn(Out(me, x, y, r)) \subseteq own[me] \ seen
  PROVE  /\ Both(own, y, z, me, ms \cup Out(me, x, y, r),
                 seen \cup Drawn(Out(me, x, y, r)), acc \cup Nonces(In(r, m)))
         /\ Nonces(Out(me, x, y, r)) \cap Nonces(ms) = {}
         /\ Nonces(In(r, m)) \cap acc = {}
<1>1. ASSUME Out(me, x, y, r) = {}, In(r, m) = {}, Both(own, y, z, me, ms, seen, acc)
      PROVE  /\ Both(own, y, z, me, ms \cup Out(me, x, y, r),
                     seen \cup Drawn(Out(me, x, y, r)), acc \cup Nonces(In(r, m)))
             /\ Nonces(Out(me, x, y, r)) \cap Nonces(ms) = {}
             /\ Nonces(In(r, m)) \cap acc = {}
  <2>1. Drawn({}) = {} /\ Nonces({}) = {}
    BY NothingDraws, Zenon
  <2>2. ms \cup {} = ms /\ seen \cup {} = seen /\ acc \cup {} = acc
    OBVIOUS
  <2> QED
    BY <1>1, <2>1, <2>2, Zenon
<1>2. CASE QuietMove(x, y, r)
  <2>1. Out(me, x, y, r) = {} /\ In(r, m) = {}
    BY <1>2, OutByResult, Zenon DEF QuietMove, In, Received
  <2> QED
    BY <1>1, <1>2, <2>1, StepQuiet, Zenon
<1>3. CASE m.kind = "initiation" /\ RespondMove(x, y, r, m)
  <2>1. /\ Out(me, x, y, r) = {Response(Peer(me), y.next)} /\ In(r, m) = {}
    BY <1>3, OutByResult, Zenon DEF RespondMove, In
  <2>2. /\ Drawn(Out(me, x, y, r)) = {y.next.key.responder}
        /\ Nonces(Out(me, x, y, r)) = {} /\ Nonces(In(r, m)) = {}
    BY <2>1, ResponseDraws, NothingDraws, Zenon
  <2>3. y.next.key.responder \in own[me] \ seen /\ acc \cup {} = acc
    BY <2>2, Zenon
  <2>4. Both(own, y, z, me, ms \cup {Response(Peer(me), y.next)},
             seen \cup {y.next.key.responder}, acc)
    BY <1>3, <2>3, StepResponds, Zenon
  <2> QED
    BY <2>1, <2>2, <2>3, <2>4, Zenon
<1>4. CASE m.kind = "response" /\ CompleteMove(x, y, r, m)
  <2>1. Out(me, x, y, r) = {} /\ In(r, m) = {}
    <3>1. r = "HandshakeComplete"
      BY <1>4, Zenon DEF CompleteMove
    <3> QED
      BY <3>1, OutByResult DEF In, Initiated, Transported
  <2> QED
    BY <1>1, <1>4, <2>1, StepCompletes, Zenon
<1>5. CASE m.kind = "transport" /\ AcceptMove(x, y, r, m)
  <2>1. r \in Received
    BY <1>5, Zenon DEF AcceptMove
  <2>2. Out(me, x, y, r) = {} /\ In(r, m) = {m}
    BY <2>1, OutByResult, Zenon DEF In, Received, Initiated, Transported
  <2>3. /\ Both(own, y, z, me, ms, seen, acc \cup {nonce(m)})
        /\ nonce(m) \notin acc
    BY <1>5, StepAccepts, Zenon
  <2>4. Nonces({m}) = {nonce(m)}
    BY <1>5, TransportDraws, Zenon
  <2>5. Drawn({}) = {} /\ Nonces({}) = {}
    BY NothingDraws
  <2>6. ms \cup {} = ms /\ seen \cup {} = seen /\ {nonce(m)} \cap acc = {}
    BY <2>3
  <2> QED
    BY <2>2, <2>3, <2>4, <2>5, <2>6, Zenon
<1> QED
  BY <1>2, <1>3, <1>4, <1>5, Zenon DEF DeliverMove

\* What holds of the timestamps of side `me'; of those it sent only while
\* `kept', that is, before it forgets them in a restart.
TimesOk(x, me, ms, kept) ==
  /\ x.sent \in Nat \cup {None}
  /\ Answered(x, me, ms)
  /\ kept => Stamped(x, me, ms)

\* What the other side puts on the wire is not addressed to it.
LEMMA TimesOther ==
  ASSUME NEW me \in Sides, NEW x, NEW y, NEW z, NEW r, NEW ms, NEW kept,
         TimesOk(z, Peer(me), ms, kept)
  PROVE  TimesOk(z, Peer(me), ms \cup Out(me, x, y, r), kept)
<1>1. \A m \in Out(me, x, y, r) : m.to = Peer(me)
  BY DEF Out, Sent, Initiation, Response, Transport
<1>2. Peer(Peer(me)) # Peer(me)
  BY Zenon DEF Peer, Sides
<1> QED
  BY <1>1, <1>2, Zenon DEF TimesOk, Answered, Stamped

\* A call keeps the timestamps in order.
LEMMA TimesCalls ==
  ASSUME NEW me \in Sides, NEW x, NEW y, NEW r, NEW ms, NEW kept,
         TimesOk(x, me, ms, kept), CallMove(x, y, r)
  PROVE  TimesOk(y, me, ms \cup Out(me, x, y, r), kept)
<1> DEFINE out == Out(me, x, y, r)
<1>1. y.greatest = x.greatest
  BY Zenon DEF CallMove, QuietMove, InitiateMove, SendMove, SameTimes
<1>2. Answered(y, me, ms \cup out)
  <2> HIDE DEF out
  <2> QED
    BY <1>1, Zenon DEF TimesOk, Answered
<1>3. CASE InitiateMove(x, y, r)
  <2>1. y.sent \in Nat /\ (x.sent # None => x.sent < y.sent)
    BY <1>3, Zenon DEF InitiateMove
  <2>2. out = {Initiation(Peer(me), y.inflight, y.sent)}
    BY <1>3, OutByResult, Zenon DEF InitiateMove
  <2>3. \A m \in out : m.timestamp = y.sent /\ m.ephemeral = y.inflight.ephemeral
    BY <2>2 DEF Initiation
  <2> HIDE DEF out
  <2>4. ASSUME kept, NEW m \in ms, m.kind = "initiation", m.to = Peer(me)
        PROVE  m.timestamp \in Nat /\ m.timestamp < y.sent
    <3>1. m.timestamp \in Nat /\ x.sent # None /\ m.timestamp <= x.sent
      BY <2>4 DEF TimesOk, Stamped
    <3>2. x.sent \in Nat
      BY <3>1, Zenon DEF TimesOk
    <3> QED
      BY <2>1, <3>1, <3>2
  <2>5. y.sent # None
    BY <2>1, NoneAssumption
  <2>6. kept => Stamped(y, me, ms \cup out)
    BY <2>1, <2>3, <2>4, <2>5 DEF Stamped
  <2> QED
    BY <1>2, <2>1, <2>6, Zenon DEF TimesOk, out
<1>4. CASE QuietMove(x, y, r) \/ SendMove(x, y, r)
  <2>1. y.sent = x.sent /\ y.inflight \in {x.inflight, None}
    BY <1>4, Zenon DEF QuietMove, SendMove, SameTimes
  <2>2. \A m \in out : m.kind # "initiation"
    <3>1. r \notin Initiated \cup {"Reply"}
      BY <1>4, Zenon DEF QuietMove, SendMove, Initiated, Transported
    <3>2. out = {} \/ out = {Transport(Peer(me), x.current, r # "Transport")}
      BY <3>1, OutByResult
    <3> QED
      BY <3>2 DEF Transport
  <2> HIDE DEF out
  <2>3. kept => Stamped(y, me, ms \cup out)
    BY <2>1, <2>2, Zenon DEF TimesOk, Stamped
  <2> QED
    BY <1>2, <2>1, <2>3, Zenon DEF TimesOk, out
<1> QED
  BY <1>3, <1>4, Zenon DEF CallMove

\* So does a delivery: it raises the greatest timestamp only with an answer.
LEMMA TimesDelivers ==
  ASSUME NEW me \in Sides, NEW x, NEW y, NEW r, NEW ms, NEW kept,
         NEW m \in ms, m.to = me,
         TimesOk(x, me, ms, kept), DeliverMove(x, y, r, m)
  PROVE  TimesOk(y, me, ms \cup Out(me, x, y, r), kept)
<1> DEFINE out == Out(me, x, y, r)
<1>1. y.sent = x.sent /\ y.inflight \in {x.inflight, None} /\ r \notin Initiated
  BY Zenon DEF DeliverMove, QuietMove, RespondMove, CompleteMove, AcceptMove, SameTimes,
     Initiated, Received
<1>2. \A d \in out : d.kind # "initiation"
  BY <1>1 DEF Out, Sent, Response, Transport, Initiated
<1>3. kept => Stamped(y, me, ms \cup out)
  <2> HIDE DEF out
  <2> QED
    BY <1>1, <1>2, Zenon DEF TimesOk, Stamped
<1>4. Answered(y, me, ms \cup out)
  <2>1. CASE y.greatest = x.greatest
    <3> HIDE DEF out
    <3> QED
      BY <2>1, Zenon DEF TimesOk, Answered
  <2>2. CASE m.kind = "initiation" /\ RespondMove(x, y, r, m)
    <3>1. y.greatest = m.timestamp /\ y.next.key.initiator = m.ephemeral
      BY <2>2 DEF RespondMove, new_session, create_response
    <3>2. out = {Response(Peer(me), y.next)}
      BY <2>2, OutByResult, Zenon DEF RespondMove
    <3>3. /\ Response(Peer(me), y.next).kind = "response"
          /\ Response(Peer(me), y.next).answers = y.next.key.initiator
      BY Zenon DEF Response
    <3>4. PICK d \in out : d.kind = "response" /\ d.answers = m.ephemeral
      BY <3>1, <3>2, <3>3, Zenon
    <3> HIDE DEF out
    <3> QED
      BY <2>2, <3>1, <3>4, Zenon DEF Answered
  <2> QED
    BY <2>1, <2>2, Zenon DEF DeliverMove, QuietMove, CompleteMove, AcceptMove, SameTimes
<1> QED
  BY <1>1, <1>3, <1>4, Zenon DEF TimesOk

-----------------------------------------------------------------------------
(* The two sides together.  kx and kz say whose timestamps are still known. *)

PairInv(own, x, z, me, ms, seen, acc, kx, kz) ==
  /\ Both(own, x, z, me, ms, seen, acc)
  /\ TimesOk(x, me, ms, kx) /\ TimesOk(z, Peer(me), ms, kz)

\* Either side may be told first.
LEMMA PairSwaps ==
  ASSUME NEW own, NEW me \in Sides, NEW x, NEW z, NEW ms, NEW seen, NEW acc,
         NEW kx, NEW kz, PairInv(own, x, z, me, ms, seen, acc, kx, kz)
  PROVE  PairInv(own, z, x, Peer(me), ms, seen, acc, kz, kx)
<1>1. Peer(Peer(me)) = me
  BY DEF Peer, Sides
<1> QED
  BY <1>1, Zenon DEF PairInv, Both

\* Before anything is sent.
LEMMA PairStarts ==
  ASSUME NEW own, NEW me, NEW x, NEW z, NEW kx, NEW kz,
         x.previous = None, x.current = None, x.next = None, x.inflight = None,
         x.greatest = None, x.sent = None,
         z.previous = None, z.current = None, z.next = None, z.inflight = None,
         z.greatest = None, z.sent = None
  PROVE  PairInv(own, x, z, me, {}, {}, {}, kx, kz)
<1>1. NetInv(own, {}, {}, {})
  BY DEF NetInv, Nonces
<1>2. Held(x) = {} /\ Held(z) = {}
  BY DEF Held
<1>3. SideInv(own, x, me, {}, {}, {}) /\ SideInv(own, z, Peer(me), {}, {}, {})
  BY <1>2, Zenon DEF SideInv, KeysDistinct, FlightInv
<1>4. TimesOk(x, me, {}, kx) /\ TimesOk(z, Peer(me), {}, kz)
  BY DEF TimesOk, Answered, Stamped
<1> QED
  BY <1>1, <1>3, <1>4, Zenon DEF PairInv, Both

\* A side that restarts forgets its sessions and the timestamps it sent.
LEMMA PairRestarts ==
  ASSUME NEW own, NEW me, NEW x, NEW z, NEW y, NEW ms, NEW seen, NEW acc, NEW kx, NEW kz,
         PairInv(own, x, z, me, ms, seen, acc, kx, kz),
         y.previous = None, y.current = None, y.next = None, y.inflight = None,
         y.greatest = None, y.sent = None
  PROVE  PairInv(own, x, y, me, ms, seen, acc, kx, FALSE)
<1>1. Held(y) = {}
  BY DEF Held
<1>2. SideInv(own, y, Peer(me), ms, seen, acc)
  BY <1>1, Zenon DEF SideInv, KeysDistinct, FlightInv
<1>3. TimesOk(y, Peer(me), ms, FALSE)
  BY Zenon DEF TimesOk, Answered
<1> QED
  BY <1>2, <1>3, Zenon DEF PairInv, Both

\* A step of the pair that sends `out' and accepts `in' keeps the invariant, reuses
\* no nonce and accepts none twice.
PairSteps(own, x, z, me, out, in, ms, seen, acc, kx, kz) ==
  /\ PairInv(own, x, z, me, ms \cup out, seen \cup Drawn(out), acc \cup Nonces(in), kx, kz)
  /\ Nonces(out) \cap Nonces(ms) = {}
  /\ Nonces(in) \cap acc = {}

\* A call on one side.
LEMMA PairCalls ==
  ASSUME NEW own, Disjoint(own), NEW me \in Sides, NEW x, NEW y, NEW z, NEW r,
         NEW ms, NEW seen, NEW acc, NEW kx, NEW kz,
         PairInv(own, x, z, me, ms, seen, acc, kx, kz), CallMove(x, y, r),
         Drawn(Out(me, x, y, r)) \subseteq own[me] \ seen
  PROVE  PairSteps(own, y, z, me, Out(me, x, y, r), {}, ms, seen, acc, kx, kz)
<1>1. /\ Both(own, x, z, me, ms, seen, acc)
      /\ TimesOk(x, me, ms, kx) /\ TimesOk(z, Peer(me), ms, kz)
  BY Zenon DEF PairInv
<1>2. /\ Both(own, y, z, me, ms \cup Out(me, x, y, r),
              seen \cup Drawn(Out(me, x, y, r)), acc)
      /\ Nonces(Out(me, x, y, r)) \cap Nonces(ms) = {}
  BY <1>1, SideCalls, Zenon
<1>3. /\ TimesOk(y, me, ms \cup Out(me, x, y, r), kx)
      /\ TimesOk(z, Peer(me), ms \cup Out(me, x, y, r), kz)
  BY <1>1, TimesCalls, TimesOther, Zenon
<1>4. acc \cup Nonces({}) = acc /\ Nonces({}) \cap acc = {}
  BY DEF Nonces
<1> QED
  BY <1>2, <1>3, <1>4, Zenon DEF PairInv, PairSteps

\* A delivery to one side.
LEMMA PairDelivers ==
  ASSUME NEW own, Disjoint(own), NEW me \in Sides, NEW x, NEW y, NEW z, NEW r,
         NEW ms, NEW seen, NEW acc, NEW kx, NEW kz, NEW m \in ms, m.to = me,
         PairInv(own, x, z, me, ms, seen, acc, kx, kz), DeliverMove(x, y, r, m),
         Drawn(Out(me, x, y, r)) \subseteq own[me] \ seen
  PROVE  PairSteps(own, y, z, me, Out(me, x, y, r), In(r, m), ms, seen, acc, kx, kz)
<1>1. /\ Both(own, x, z, me, ms, seen, acc)
      /\ TimesOk(x, me, ms, kx) /\ TimesOk(z, Peer(me), ms, kz)
  BY Zenon DEF PairInv
<1>2. /\ Both(own, y, z, me, ms \cup Out(me, x, y, r),
              seen \cup Drawn(Out(me, x, y, r)), acc \cup Nonces(In(r, m)))
      /\ Nonces(Out(me, x, y, r)) \cap Nonces(ms) = {}
      /\ Nonces(In(r, m)) \cap acc = {}
  BY <1>1, SideDelivers, Zenon
<1>3. /\ TimesOk(y, me, ms \cup Out(me, x, y, r), kx)
      /\ TimesOk(z, Peer(me), ms \cup Out(me, x, y, r), kz)
  BY <1>1, TimesDelivers, TimesOther, Zenon
<1> QED
  BY <1>2, <1>3, Zenon DEF PairInv, PairSteps

\* The pair's step, told of the other side.
LEMMA PairStepSwaps ==
  ASSUME NEW own, NEW me \in Sides, NEW x, NEW z, NEW out, NEW in,
         NEW ms, NEW seen, NEW acc, NEW kx, NEW kz,
         PairSteps(own, x, z, me, out, in, ms, seen, acc, kx, kz)
  PROVE  PairSteps(own, z, x, Peer(me), out, in, ms, seen, acc, kz, kx)
BY PairSwaps, Zenon DEF PairSteps

\* A call on the other side.
LEMMA PairPeerCalls ==
  ASSUME NEW own, Disjoint(own), NEW me \in Sides, NEW you, you = Peer(me),
         NEW x, NEW y, NEW z, NEW r, NEW ms, NEW seen, NEW acc, NEW kx, NEW kz,
         PairInv(own, x, z, me, ms, seen, acc, kx, kz), CallMove(z, y, r),
         Drawn(Out(you, z, y, r)) \subseteq own[you] \ seen
  PROVE  PairSteps(own, x, y, me, Out(you, z, y, r), {}, ms, seen, acc, kx, kz)
<1>1. you \in Sides /\ Peer(you) = me
  BY DEF Sides, Peer
<1>2. PairInv(own, z, x, you, ms, seen, acc, kz, kx)
  BY PairSwaps, Zenon
<1>3. PairSteps(own, y, x, you, Out(you, z, y, r), {}, ms, seen, acc, kz, kx)
  BY <1>1, <1>2, PairCalls, Zenon
<1>4. PairSteps(own, x, y, Peer(you), Out(you, z, y, r), {}, ms, seen, acc, kx, kz)
  BY <1>1, <1>3, PairStepSwaps, Zenon
<1> QED
  BY <1>1, <1>4, Zenon

\* A delivery to the other side.
LEMMA PairPeerDelivers ==
  ASSUME NEW own, Disjoint(own), NEW me \in Sides, NEW you, you = Peer(me),
         NEW x, NEW y, NEW z, NEW r, NEW ms, NEW seen, NEW acc, NEW kx, NEW kz,
         NEW m \in ms, m.to = you,
         PairInv(own, x, z, me, ms, seen, acc, kx, kz), DeliverMove(z, y, r, m),
         Drawn(Out(you, z, y, r)) \subseteq own[you] \ seen
  PROVE  PairSteps(own, x, y, me, Out(you, z, y, r), In(r, m), ms, seen, acc, kx, kz)
<1>1. you \in Sides /\ Peer(you) = me
  BY DEF Sides, Peer
<1>2. PairInv(own, z, x, you, ms, seen, acc, kz, kx)
  BY PairSwaps, Zenon
<1>3. PairSteps(own, y, x, you, Out(you, z, y, r), In(r, m), ms, seen, acc, kz, kx)
  BY <1>1, <1>2, PairDelivers, Zenon
<1>4. PairSteps(own, x, y, Peer(you), Out(you, z, y, r), In(r, m), ms, seen, acc, kx, kz)
  BY <1>1, <1>3, PairStepSwaps, Zenon
<1> QED
  BY <1>1, <1>4, Zenon

\* A counter one side recorded is below the peer's next one.
LEMMA RecordedBelow ==
  ASSUME NEW own, NEW ms, NEW seen, NEW acc, NEW s, NEW t,
         NetInv(own, ms, seen, acc), Shape(t), Genuine(s, ms), Unused(t, ms),
         s.key = t.key, t.is_initiator = ~s.is_initiator
  PROVE  s.replay \subseteq 0 .. (t.send_counter - 1)
<1>1. SUFFICES ASSUME NEW c \in s.replay PROVE c \in 0 .. (t.send_counter - 1)
  OBVIOUS
<1>2. PICK m \in ms : /\ m.kind = "transport" /\ m.key = s.key
                      /\ m.from_initiator = ~s.is_initiator /\ m.counter = c
  BY <1>1, Zenon DEF Genuine
<1>3. m.counter < t.send_counter
  BY <1>2, Zenon DEF Unused
<1>4. m.counter \in Nat
  BY <1>2, Zenon DEF NetInv, MessageInv
<1>5. t.send_counter \in Nat
  BY DEF Shape
<1> QED
  BY <1>2, <1>3, <1>4, <1>5

\* Sessions s and t are the two ends of one.
Matches(s, t) ==
  /\ s.is_initiator # t.is_initiator
  /\ s.local_index = t.peer_index /\ s.peer_index = t.local_index
  /\ s.replay \subseteq 0 .. (t.send_counter - 1)
  /\ t.replay \subseteq 0 .. (s.send_counter - 1)

\* Sessions of the two sides that share a key are.
LEMMA PairAgrees ==
  ASSUME NEW own, Disjoint(own), NEW me \in Sides, NEW x, NEW z,
         NEW ms, NEW seen, NEW acc, NEW kx, NEW kz,
         PairInv(own, x, z, me, ms, seen, acc, kx, kz),
         NEW s \in Held(x), NEW t \in Held(z), s.key = t.key
  PROVE  Matches(s, t)
<1>1. /\ NetInv(own, ms, seen, acc)
      /\ Shape(s) /\ Roles(own, s, me, seen) /\ Unused(s, ms) /\ Genuine(s, ms) /\ Agreed(s, ms)
      /\ Shape(t) /\ Roles(own, t, Peer(me), seen) /\ Unused(t, ms) /\ Genuine(t, ms)
      /\ Agreed(t, ms)
  BY Zenon DEF PairInv, Both, SideInv, SessionInv
<1>2. s.is_initiator # t.is_initiator
  BY <1>1, RolesDiffer, Zenon
<1>3. s.is_initiator \in BOOLEAN /\ t.is_initiator \in BOOLEAN
  BY <1>1 DEF Shape
<1>4. t.is_initiator = ~s.is_initiator /\ s.is_initiator = ~t.is_initiator
  BY <1>2, <1>3, Zenon
<1>5. s.local_index = t.peer_index /\ s.peer_index = t.local_index
  BY <1>1, <1>3, <1>4, Zenon DEF Agreed
<1>6. s.replay \subseteq 0 .. (t.send_counter - 1)
  BY <1>1, <1>4, RecordedBelow, Zenon
<1>7. t.replay \subseteq 0 .. (s.send_counter - 1)
  BY <1>1, <1>4, RecordedBelow, Zenon
<1> QED
  BY <1>2, <1>5, <1>6, <1>7, Zenon DEF Matches

\* The handshake x has in flight has a timestamp above all z has seen, or it was
\* answered.
Fresh(x, z, ms) ==
  \/ z.greatest = None \/ z.greatest < x.sent
  \/ \E m \in ms : m.kind = "response" /\ m.answers = x.inflight.ephemeral

\* So it is, by the timestamps sent and answered.
LEMMA PairFresh ==
  ASSUME NEW own, NEW me \in Sides, NEW x, NEW z, NEW ms, NEW seen, NEW acc, NEW kz,
         PairInv(own, x, z, me, ms, seen, acc, TRUE, kz),
         x.inflight # None
  PROVE  Fresh(x, z, ms)
<1>1. /\ Stamped(x, me, ms) /\ x.sent \in Nat \cup {None}
      /\ Answered(z, Peer(me), ms)
  BY Zenon DEF PairInv, TimesOk
<1>2. SUFFICES ASSUME z.greatest # None, ~(z.greatest < x.sent)
               PROVE  \E m \in ms : m.kind = "response" /\ m.answers = x.inflight.ephemeral
  BY Zenon DEF Fresh
<1>3. PICK m, r \in ms :
        /\ m.kind = "initiation" /\ m.to = Peer(me) /\ m.timestamp = z.greatest
        /\ r.kind = "response" /\ r.answers = m.ephemeral
  BY <1>1, <1>2, Zenon DEF Answered
<1>4. m.timestamp \in Nat /\ x.sent # None /\ m.timestamp <= x.sent
  BY <1>1, <1>3, Zenon DEF Stamped
<1>5. m.timestamp = x.sent
  <2>1. x.sent \in Nat /\ ~(m.timestamp < x.sent)
    BY <1>1, <1>2, <1>3, <1>4, Zenon
  <2> QED
    BY <1>4, <2>1
<1>6. m.ephemeral = x.inflight.ephemeral
  BY <1>1, <1>3, <1>5, Zenon DEF Stamped
<1> QED
  BY <1>3, <1>6, Zenon

\* The same of the peer's handshake in flight.
LEMMA PairPeerFresh ==
  ASSUME NEW own, NEW me \in Sides, NEW x, NEW z, NEW ms, NEW seen, NEW acc, NEW kx,
         PairInv(own, x, z, me, ms, seen, acc, kx, TRUE),
         z.inflight # None
  PROVE  Fresh(z, x, ms)
<1>1. Peer(me) \in Sides
  BY DEF Sides, Peer
<1>2. PairInv(own, z, x, Peer(me), ms, seen, acc, TRUE, kx)
  BY PairSwaps, Zenon
<1> QED
  BY <1>1, <1>2, PairFresh, Zenon

=============================================================================
