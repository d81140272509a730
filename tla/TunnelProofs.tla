---------------------------- MODULE TunnelProofs ----------------------------
(***************************************************************************)
(* Theorems about Tunnel, for every value of its constants.                *)
(***************************************************************************)
EXTENDS Tunnel, TLAPS

-----------------------------------------------------------------------------
(* The operators the actions are built from *)

\* The durations of consts.rs are naturals, and None is no instant.
LEMMA ConstTypes ==
  /\ None \notin Int
  /\ MAX_TICKS \in Nat /\ 0 < MAX_TICKS
  /\ REKEY_AFTER_TIME \in Nat /\ REJECT_AFTER_TIME \in Nat
  /\ REKEY_ATTEMPT_TIME \in Nat /\ REKEY_TIMEOUT \in Nat
  /\ KEEPALIVE_TIMEOUT \in Nat /\ REKEY_TIMEOUT_JITTER_MAX \in Nat
  /\ COOKIE_LIFETIME \in Nat /\ SESSION_DISCARD_TIME \in Nat
  /\ DEAD_PEER_TIMEOUT \in Nat /\ REKEY_AFTER_TIME_RECV \in Nat
BY NoneAssumption, DurationAssumption, PositiveAssumption, ClockAssumption
   DEF SESSION_DISCARD_TIME, DEAD_PEER_TIMEOUT, REKEY_AFTER_TIME_RECV

\* Saturating addition stays in the u64 range.
LEMMA AddNanosType ==
  ASSUME NEW t \in Ticks, NEW n \in Nat
  PROVE  add_nanos(t, n) \in Ticks
BY ConstTypes DEF add_nanos, Ticks

\* Whitening a wall-clock reading leaves a timestamp.
LEMMA TaiType ==
  ASSUME NEW wall \in Nat
  PROVE  tai64n(wall) \in Nat
<1>1. wall % WHITENER \in 0 .. (WHITENER - 1)
  BY MessageAssumption
<1>2. wall = WHITENER * (wall \div WHITENER) + (wall % WHITENER)
  BY MessageAssumption
<1>3. wall \div WHITENER \in Nat
  BY MessageAssumption
<1>4. WHITENER * (wall \div WHITENER) \in Nat
  BY <1>3, MessageAssumption
<1> QED
  BY <1>1, <1>2, <1>4 DEF tai64n

\* The methods of Timers keep its type.
LEMMA NoteTypes ==
  ASSUME NEW tm \in Timers, NEW now \in Ticks
  PROVE  /\ note_data_tx(tm, now) \in Timers
         /\ note_keepalive_tx(tm, now) \in Timers
         /\ \A e \in BOOLEAN : note_rx(tm, now, e) \in Timers
         /\ \A j \in Nat : note_initiation_tx(tm, now, j) \in Timers
         /\ note_handshake_complete(tm) \in Timers
         /\ note_gave_up(tm) \in Timers
<1>1. /\ note_data_tx(tm, now) \in Timers
      /\ note_keepalive_tx(tm, now) \in Timers
  BY DEF Timers, note_data_tx, note_keepalive_tx, OptTicks
<1>2. \A e \in BOOLEAN : note_rx(tm, now, e) \in Timers
  BY DEF Timers, note_rx, OptTicks
<1>3. ASSUME NEW j \in Nat
      PROVE  note_initiation_tx(tm, now, j) \in Timers
  <2>1. add_nanos(add_nanos(now, REKEY_TIMEOUT), j) \in Ticks
    BY AddNanosType, ConstTypes
  <2> QED
    BY <2>1, ZenonT(60) DEF Timers, note_initiation_tx, OptTicks
<1>4. /\ note_handshake_complete(tm) \in Timers
      /\ note_gave_up(tm) \in Timers
  BY DEF Timers, note_handshake_complete, note_gave_up, OptTicks
<1> QED
  BY <1>1, <1>2, <1>3, <1>4

\* A session keeps its type when it is created, sends and receives.
LEMMA SessionTypes ==
  /\ \A local \in Indices, peer \in PeerIndices, key \in Keys,
        is_initiator \in BOOLEAN, now \in Ticks :
       new_session(local, peer, key, is_initiator, now) \in Sessions
  /\ \A s \in Sessions : next_counter(s) \in Sessions
  /\ \A s \in Sessions, c \in Nat : accept_transport(s, c) \in Sessions
<1>1. ASSUME NEW local \in Indices, NEW peer \in PeerIndices, NEW key \in Keys,
             NEW is_initiator \in BOOLEAN, NEW now \in Ticks
      PROVE  new_session(local, peer, key, is_initiator, now) \in Sessions
  BY DEF Sessions, new_session
<1>2. ASSUME NEW s \in Sessions
      PROVE  next_counter(s) \in Sessions
  BY DEF Sessions, next_counter
<1>3. ASSUME NEW s \in Sessions, NEW c \in Nat
      PROVE  accept_transport(s, c) \in Sessions
  BY DEF Sessions, accept_transport
<1> QED
  BY <1>1, <1>2, <1>3

\* A jar keeps its type when it rotates.
LEMMA JarType ==
  ASSUME NEW jar \in Jars, NEW now \in Ticks
  PROVE  rotate_if_needed(jar, now) \in Jars
BY DEF Jars, rotate_if_needed

\* What the caller's clock reads stays below saturation.
LEMMA ReadingsBelow == Readings \subseteq 0 .. (MAX_TICKS - 1)
<1>1. \A clock \in Readings : clock \in Clock \/ clock = 0
  BY DEF Readings
<1>2. 0 \in 0 .. (MAX_TICKS - 1)
  BY ConstTypes
<1> QED
  BY <1>1, <1>2, ClockAssumption

\* The clamped clock is a tick below u64::MAX, and does not run backwards.
LEMMA ClampBelow ==
  ASSUME TypeOK, NEW clock \in 0 .. (MAX_TICKS - 1)
  PROVE  /\ clamp_now(clock) \in Ticks
         /\ clamp_now(clock) \in 0 .. (MAX_TICKS - 1)
         /\ last_now \in Ticks /\ last_now <= clamp_now(clock)
BY ConstTypes DEF TypeOK, clamp_now, Ticks

\* The same for the readings of the model.
LEMMA ClampType ==
  ASSUME TypeOK, NEW clock \in Readings
  PROVE  /\ clamp_now(clock) \in Ticks
         /\ clamp_now(clock) \in 0 .. (MAX_TICKS - 1)
         /\ last_now \in Ticks /\ last_now <= clamp_now(clock)
BY ReadingsBelow, ClampBelow

-----------------------------------------------------------------------------
(* Type correctness *)

\* What send_initiation assigns has its type.
LEMMA SendInitiationType ==
  ASSUME TypeOK, NEW tm \in Timers, NEW nx, NEW now \in Ticks,
         NEW wall \in Nat, NEW timer_driven, NEW reason \in Results,
         send_initiation(tm, nx, now, wall, timer_driven, reason)
  PROVE  /\ inflight' \in InFlight \cup {None}
         /\ last_init_mac1' \in Ephemerals \cup {None}
         /\ last_resp_mac1' \in Ephemerals \cup {None}
         /\ cookie' \in LastCookies \cup {None}
         /\ cookie_jar' \in Jars
         /\ greatest_timestamp' \in Nat \cup {None}
         /\ last_sent_tai64n' \in Nat \cup {None}
         /\ timers' \in Timers
         /\ ret' \in Results
<1>1. CASE /\ timers' = tm
           /\ ret' \in LocalErrors
           /\ UNCHANGED <<inflight, last_init_mac1, last_sent_tai64n>>
  BY <1>1 DEF send_initiation, TypeOK, Results
<1>2. ASSUME NEW index \in fresh_index(nx), NEW eph \in Ephemerals,
             NEW jitter \in 0 .. REKEY_TIMEOUT_JITTER_MAX,
             last_sent_tai64n' =
               IF last_sent_tai64n # None /\ tai64n(wall) <= last_sent_tai64n
                 THEN tick(last_sent_tai64n) ELSE tai64n(wall),
             last_init_mac1' = eph,
             inflight' = create_initiation(index, eph),
             timers' = note_initiation_tx(tm, now, jitter),
             ret' = reason
      PROVE  /\ inflight' \in InFlight
             /\ last_init_mac1' \in Ephemerals
             /\ last_sent_tai64n' \in Nat
             /\ timers' \in Timers
             /\ ret' \in Results
  <2>1. timers' \in Timers
    BY <1>2, NoteTypes, ConstTypes
  <2>2. last_sent_tai64n' \in Nat
    BY <1>2, TaiType DEF TypeOK, tick
  <2>3. inflight' \in InFlight
    BY <1>2 DEF InFlight, fresh_index, create_initiation
  <2> QED
    BY <1>2, <2>1, <2>2, <2>3
<1> QED
  BY <1>1, <1>2 DEF send_initiation, TypeOK

\* What send_keepalive assigns has its type.
LEMMA SendKeepaliveType ==
  ASSUME TypeOK, NEW tm \in Timers, NEW now \in Ticks, NEW reason \in Results,
         current_usable(now), send_keepalive(tm, now, reason)
  PROVE  /\ current' \in Sessions \cup {None}
         /\ timers' \in Timers
         /\ ret' \in Results
<1>1. next_counter(current) \in Sessions
  BY SessionTypes DEF TypeOK, current_usable
<1>2. \A t2 \in Timers, s \in Sessions : rekey_after_send(t2, s, now) \in Timers
  BY DEF rekey_after_send, Timers
<1> QED
  BY <1>1, <1>2, NoteTypes DEF send_keepalive, TypeOK, Results, LocalErrors

\* A step that changes nothing but the clock clamp and the returned value.
LEMMA RejectType ==
  ASSUME TypeOK, UNCHANGED protocol, ret' \in Results,
         last_now' \in 0 .. (MAX_TICKS - 1)
  PROVE  TypeOK'
BY DEF TypeOK, protocol, sessions, macs, timestamps

\* encapsulate keeps every field typed, whichever path it takes.
LEMMA EncapsulateType ==
  ASSUME TypeOK, NEW clock \in Readings, NEW wall \in WallClock,
         NEW empty \in BOOLEAN, Encapsulate(clock, wall, empty)
  PROVE  TypeOK'
<1> DEFINE now == clamp_now(clock)
<1>1. now \in Ticks /\ now \in 0 .. (MAX_TICKS - 1)
  BY ClampType
<1>2. last_now' = now
  BY DEF Encapsulate
<1>3. wall \in Nat
  BY InputAssumption
<1> HIDE DEF now
<1>4. CASE EncapsulateHandshake(now, wall)
  <2>1. CASE /\ timers' = [[timers EXCEPT !.gave_up = FALSE] EXCEPT
                              !.attempt_started = IF inflight # None THEN now ELSE @]
             /\ ret' = "NotEstablished"
             /\ UNCHANGED <<inflight, macs, timestamps>>
    <3>1. timers' \in Timers
      BY <2>1, <1>1, ZenonT(60) DEF TypeOK, Timers, OptTicks
    <3> QED
      BY <1>1, <1>2, <1>4, <2>1, <3>1
         DEF TypeOK, EncapsulateHandshake, sessions, macs, timestamps, Results
  <2>2. CASE send_initiation([[timers EXCEPT !.gave_up = FALSE] EXCEPT
                                !.attempt_started = None], next,
                             now, wall, FALSE, "HandshakeInitiation")
    <3>1. [[timers EXCEPT !.gave_up = FALSE] EXCEPT !.attempt_started = None]
            \in Timers
      BY DEF TypeOK, Timers, OptTicks
    <3>2. "HandshakeInitiation" \in Results
      BY DEF Results
    <3> QED
      BY <1>1, <1>2, <1>3, <1>4, <2>2, <3>1, <3>2, SendInitiationType
         DEF TypeOK, EncapsulateHandshake, sessions
  <2> QED
    BY <1>4, <2>1, <2>2 DEF EncapsulateHandshake
<1>5. CASE EncapsulateTransport(now, empty)
  <2>1. next_counter(current) \in Sessions
    BY <1>5, SessionTypes DEF TypeOK, EncapsulateTransport, current_usable
  <2>2. \A t2 \in Timers, s \in Sessions : rekey_after_send(t2, s, now) \in Timers
    BY DEF rekey_after_send, Timers
  <2>3. timers' \in Timers /\ current' \in Sessions \cup {None} /\ ret' \in Results
    <3>1. /\ note_data_tx(timers, now) \in Timers
          /\ note_keepalive_tx(timers, now) \in Timers
      BY <1>1, NoteTypes DEF TypeOK
    <3> QED
      BY <1>5, <2>1, <2>2, <3>1 DEF EncapsulateTransport, TypeOK, Results, LocalErrors
  <2> QED
    BY <1>1, <1>2, <1>5, <2>3
       DEF TypeOK, EncapsulateTransport, macs, timestamps
<1> QED
  BY <1>4, <1>5 DEF Encapsulate, now

\* Answering with a cookie reply changes at most the jar.
LEMMA CookieReplyType ==
  ASSUME TypeOK, NEW now \in Ticks, last_now' \in 0 .. (MAX_TICKS - 1),
         build_cookie_reply(now),
         UNCHANGED <<inflight, last_init_mac1, last_resp_mac1, cookie,
                     timestamps, sessions, timers, recv_rekey_done,
                     last_handshake_at>>
  PROVE  TypeOK'
<1>1. cookie_jar' \in Jars /\ ret' \in Results
  BY JarType DEF build_cookie_reply, TypeOK, Results, LocalErrors
<1> QED
  BY <1>1 DEF TypeOK, timestamps, sessions

\* An initiation is accepted or refused with one of two errors.
LEMMA Verdict ==
  ASSUME NEW m
  PROVE  consume_initiation(m) \in {"Ok", "UnknownPeer", "AuthFailure"}
BY DEF consume_initiation

\* decapsulate of an initiation keeps every field typed.
LEMMA DecapsulateInitiationType ==
  ASSUME TypeOK, NEW clock \in Readings, NEW m \in Initiations, NEW under_load,
         NEW remote, DecapsulateInitiation(clock, m, under_load, remote)
  PROVE  TypeOK'
<1> DEFINE now == clamp_now(clock)
<1>1. now \in Ticks /\ now \in 0 .. (MAX_TICKS - 1) /\ last_now' = now
  BY ClampType DEF DecapsulateInitiation
<1>2. m.sender_index \in PeerIndices /\ m.ephemeral \in Ephemerals
        /\ m.timestamp \in Nat
  BY InputAssumption DEF Initiations
<1> HIDE DEF now
<1>3. CASE build_cookie_reply(now) /\
           UNCHANGED <<inflight, last_init_mac1, last_resp_mac1, cookie,
                       timestamps, sessions, timers, recv_rekey_done,
                       last_handshake_at>>
  BY <1>1, <1>3, CookieReplyType
<1>4. ASSUME NEW error \in Results, Reject(error)
      PROVE  TypeOK'
  BY <1>1, <1>4, RejectType DEF Reject
<1>5. CASE RespondTo(m, now)
  <2>1. CASE ret' \in LocalErrors /\ UNCHANGED protocol
    BY <1>1, <2>1, RejectType DEF Results
  <2>2. ASSUME NEW index \in fresh_index(next), NEW eph \in Ephemerals,
               next' = new_session(index, m.sender_index, create_response(m, eph),
                                   FALSE, now),
               last_resp_mac1' = eph,
               greatest_timestamp' = m.timestamp,
               ret' = "Reply",
               UNCHANGED <<inflight, last_init_mac1, cookie, cookie_jar,
                           last_sent_tai64n, previous, current, timers,
                           recv_rekey_done, last_handshake_at>>
        PROVE  TypeOK'
    <3>1. next' \in Sessions
      BY <1>1, <1>2, <2>2, SessionTypes
         DEF fresh_index, Keys, create_response
    <3> QED
      BY <1>1, <1>2, <2>2, <3>1 DEF TypeOK, Results
  <2> QED
    BY <1>5, <2>1, <2>2 DEF RespondTo
<1>6. /\ "InvalidMac1" \in Results /\ "AuthFailure" \in Results
      /\ "ReplayedTimestamp" \in Results
      /\ consume_initiation(m) # "Ok" => consume_initiation(m) \in Results
  BY Verdict DEF Results
<1> QED
  BY <1>3, <1>4, <1>5, <1>6 DEF DecapsulateInitiation, now

\* decapsulate of a response keeps every field typed.
LEMMA DecapsulateResponseType ==
  ASSUME TypeOK, NEW clock \in Readings, NEW m \in Responses, NEW under_load,
         NEW remote, DecapsulateResponse(clock, m, under_load, remote)
  PROVE  TypeOK'
<1> DEFINE now == clamp_now(clock)
<1>1. now \in Ticks /\ now \in 0 .. (MAX_TICKS - 1) /\ last_now' = now
  BY ClampType DEF DecapsulateResponse
<1>2. m.sender_index \in PeerIndices /\ m.ephemeral \in Ephemerals
  BY DEF Responses
<1> HIDE DEF now
<1>3. CASE build_cookie_reply(now) /\
           UNCHANGED <<inflight, last_init_mac1, last_resp_mac1, cookie,
                       timestamps, sessions, timers, recv_rekey_done,
                       last_handshake_at>>
  BY <1>1, <1>3, CookieReplyType
<1>4. ASSUME NEW error \in Results, Reject(error)
      PROVE  TypeOK'
  BY <1>1, <1>4, RejectType DEF Reject
<1>5. CASE HasIndex(inflight, m.receiver_index) /\ CompleteHandshake(m, now)
  <2>1. inflight \in InFlight
    BY <1>5 DEF TypeOK, HasIndex
  <2>2. current' \in Sessions
    BY <1>1, <1>2, <1>5, <2>1, SessionTypes
       DEF CompleteHandshake, InFlight, Keys, consume_response
  <2>3. timers' \in Timers
    <3>1. note_handshake_complete(timers) \in Timers
      BY <1>1, NoteTypes DEF TypeOK
    <3> QED
      BY <1>5, <3>1 DEF CompleteHandshake, Timers
  <2> QED
    BY <1>1, <1>5, <2>2, <2>3
       DEF TypeOK, CompleteHandshake, Results, OptTicks, macs, timestamps
<1>6. /\ "InvalidMac1" \in Results /\ "AuthFailure" \in Results
      /\ "NoPendingHandshake" \in Results
  BY DEF Results
<1> QED
  BY <1>3, <1>4, <1>5, <1>6 DEF DecapsulateResponse, now

\* decapsulate of a cookie reply keeps every field typed.
LEMMA DecapsulateCookieReplyType ==
  ASSUME TypeOK, NEW clock \in Readings, NEW m \in CookieReplies,
         DecapsulateCookieReply(clock, m)
  PROVE  TypeOK'
<1> DEFINE now == clamp_now(clock)
<1>1. now \in Ticks /\ now \in 0 .. (MAX_TICKS - 1) /\ last_now' = now
  BY ClampType DEF DecapsulateCookieReply
<1> HIDE DEF now
<1>2. ASSUME NEW error \in Results, Reject(error)
      PROVE  TypeOK'
  BY <1>1, <1>2, RejectType DEF Reject
<1>3. CASE /\ cookie' = [value |-> m.value, received_at |-> now]
           /\ ret' = "CookieStored"
           /\ UNCHANGED <<inflight, last_init_mac1, last_resp_mac1, cookie_jar,
                          timestamps, sessions, timers, recv_rekey_done,
                          last_handshake_at>>
  <2>1. cookie' \in LastCookies
    BY <1>1, <1>3, InputAssumption DEF LastCookies, CookieReplies
  <2> QED
    BY <1>1, <1>3, <2>1 DEF TypeOK, Results, timestamps, sessions
<1>4. /\ "UnknownReceiverIndex" \in Results /\ "NoPendingHandshake" \in Results
      /\ "InvalidCookie" \in Results
  BY DEF Results
<1> QED
  BY <1>2, <1>3, <1>4 DEF DecapsulateCookieReply, now

\* The tail of handle_transport keeps the type of what it assigns.
LEMMA ReceivePathType ==
  ASSUME NEW cur, NEW done \in BOOLEAN, NEW tm \in Timers, NEW now \in Ticks,
         NEW m \in Transports, ReceivePath(cur, done, tm, now, m),
         cur \in Sessions \cup {None}
  PROVE  timers' \in Timers /\ recv_rekey_done' \in BOOLEAN /\ ret' \in Results
<1> DEFINE fires == /\ ~done /\ cur # None /\ cur.is_initiator
                    /\ age(cur, now) >= REKEY_AFTER_TIME_RECV
<1>1. fires \in BOOLEAN
  OBVIOUS
<1>2. m.empty \in BOOLEAN
  BY DEF Transports
<1> HIDE DEF fires
<1>3. /\ recv_rekey_done' = (done \/ fires)
      /\ timers' = note_rx([tm EXCEPT !.rekey_due = @ \/ fires], now, m.empty)
      /\ ret' = IF m.empty THEN "Keepalive" ELSE "Data"
  BY DEF ReceivePath, fires
<1>4. [tm EXCEPT !.rekey_due = @ \/ fires] \in Timers
  BY <1>1 DEF Timers
<1>5. timers' \in Timers
  BY <1>2, <1>3, <1>4, NoteTypes
<1>6. ret' \in Results
  BY <1>3 DEF Results
<1> QED
  BY <1>1, <1>3, <1>5, <1>6

\* What the AEAD is tried on is one of the occupied slots.
LEMMA SessionWithIndex ==
  ASSUME NEW index, session_with_index(index) # None
  PROVE  /\ session_with_index(index) \in {next, current, previous}
         /\ HasIndex(session_with_index(index), index)
BY DEF session_with_index, HasIndex

\* decapsulate of a transport message keeps every field typed.
LEMMA DecapsulateTransportType ==
  ASSUME TypeOK, NEW clock \in Readings, NEW m \in Transports,
         DecapsulateTransport(clock, m)
  PROVE  TypeOK'
<1> DEFINE now == clamp_now(clock)
           s == session_with_index(m.receiver_index)
<1>1. now \in Ticks /\ now \in 0 .. (MAX_TICKS - 1) /\ last_now' = now
  BY ClampType DEF DecapsulateTransport
<1>2. m.counter \in Nat
  BY InputAssumption DEF Transports
<1>3. s # None => s \in Sessions
  BY SessionWithIndex DEF TypeOK
<1> HIDE DEF now, s
<1>4. ASSUME NEW error \in Results, Reject(error)
      PROVE  TypeOK'
  BY <1>1, <1>4, RejectType DEF Reject
<1>5. CASE s # None /\ PromoteNext(s, m, now) /\ UNCHANGED <<macs, timestamps>>
  <2>1. accept_transport(s, m.counter) \in Sessions
    BY <1>2, <1>3, <1>5, SessionTypes
  <2>2. note_handshake_complete(timers) \in Timers
    BY <1>1, NoteTypes DEF TypeOK
  <2>3. timers' \in Timers /\ recv_rekey_done' \in BOOLEAN /\ ret' \in Results
    BY <1>1, <1>5, <2>1, <2>2, ReceivePathType DEF PromoteNext
  <2> QED
    BY <1>1, <1>5, <2>1, <2>3 DEF TypeOK, PromoteNext, OptTicks, macs, timestamps
<1>6. CASE s # None /\ AcceptInPlace(s, m, now) /\ UNCHANGED <<macs, timestamps>>
  <2> DEFINE put(slot) == IF slot = s THEN accept_transport(s, m.counter) ELSE slot
  <2>1. accept_transport(s, m.counter) \in Sessions
    BY <1>2, <1>3, <1>6, SessionTypes
  <2>2. \A slot \in Sessions \cup {None} : put(slot) \in Sessions \cup {None}
    BY <2>1
  <2>3. /\ next' = put(next) /\ current' = put(current) /\ previous' = put(previous)
        /\ UNCHANGED <<inflight, last_handshake_at>>
        /\ ReceivePath(put(current), recv_rekey_done, timers, now, m)
    BY <1>6 DEF AcceptInPlace
  <2> HIDE DEF put
  <2>4. timers' \in Timers /\ recv_rekey_done' \in BOOLEAN /\ ret' \in Results
    BY <1>1, <2>2, <2>3, ReceivePathType DEF TypeOK
  <2> QED
    BY <1>1, <1>6, <2>2, <2>3, <2>4 DEF TypeOK, macs, timestamps
<1>7. /\ "UnknownReceiverIndex" \in Results /\ "Expired" \in Results
      /\ "Replay" \in Results /\ "BufferTooSmall" \in Results
      /\ "AuthFailure" \in Results
  BY DEF Results, LocalErrors
<1> QED
  BY <1>4, <1>5, <1>6, <1>7 DEF DecapsulateTransport, now, s

\* A datagram that does not parse changes only the clock clamp.
LEMMA DecapsulateMalformedType ==
  ASSUME TypeOK, NEW clock \in Readings, DecapsulateMalformed(clock)
  PROVE  TypeOK'
<1>1. last_now' \in 0 .. (MAX_TICKS - 1) /\ ret' \in Results /\ UNCHANGED protocol
  BY ClampType DEF DecapsulateMalformed, Reject, Results
<1> QED
  BY <1>1, RejectType

\* The timer adjustments poll makes on its way keep the type.
LEMMA PollTimersType ==
  ASSUME TypeOK, NEW t \in Ticks
  PROVE  /\ timers_rekeyed \in Timers
         /\ timers_disarmed(t) \in Timers
         /\ [timers EXCEPT !.attempt_started = None] \in Timers
         /\ [timers EXCEPT !.gave_up = FALSE, !.attempt_started = None] \in Timers
         /\ [timers_disarmed(t) EXCEPT !.gave_up = FALSE,
                                       !.attempt_started = None] \in Timers
<1>1. timers_rekeyed \in Timers
  BY ZenonT(60) DEF TypeOK, timers_rekeyed, Timers
<1>2. timers_disarmed(t) \in Timers
  BY <1>1, ZenonT(60) DEF timers_disarmed, Timers, OptTicks
<1>3. \A tm \in Timers :
        /\ [tm EXCEPT !.attempt_started = None] \in Timers
        /\ [tm EXCEPT !.gave_up = FALSE, !.attempt_started = None] \in Timers
  BY ZenonT(60) DEF Timers, OptTicks
<1> QED
  BY <1>1, <1>2, <1>3 DEF TypeOK

\* discard_all_sessions keeps every field typed.
LEMMA DiscardType ==
  ASSUME TypeOK, discard_all_sessions, ret' \in Results,
         last_now' \in 0 .. (MAX_TICKS - 1)
  PROVE  TypeOK'
<1>1. timers' \in Timers
  BY DEF TypeOK, discard_all_sessions, default_timers, Timers, OptTicks
<1> QED
  BY <1>1 DEF TypeOK, discard_all_sessions, timestamps

\* A branch of poll that sends an initiation keeps every field typed.
LEMMA PollSendType ==
  ASSUME TypeOK, NEW t \in Ticks, NEW wall \in Nat, NEW tm \in Timers,
         NEW reason \in Results, PollSend(t, wall, tm, reason),
         last_now' \in 0 .. (MAX_TICKS - 1)
  PROVE  TypeOK'
<1>1. next' \in Sessions \cup {None}
  BY DEF TypeOK, PollSend, next_at
<1>2. send_initiation(tm, next_at(t), t, wall, TRUE, reason)
  BY DEF PollSend
<1>3. /\ inflight' \in InFlight \cup {None}
      /\ last_init_mac1' \in Ephemerals \cup {None}
      /\ last_resp_mac1' \in Ephemerals \cup {None}
      /\ cookie' \in LastCookies \cup {None}
      /\ cookie_jar' \in Jars
      /\ greatest_timestamp' \in Nat \cup {None}
      /\ last_sent_tai64n' \in Nat \cup {None}
      /\ timers' \in Timers
      /\ ret' \in Results
  BY <1>2, SendInitiationType
<1> QED
  BY <1>1, <1>3 DEF TypeOK, PollSend

\* A branch of poll that sends nothing keeps every field typed.
LEMMA PollSilentType ==
  ASSUME TypeOK, NEW t, NEW tm \in Timers, NEW result \in Results,
         PollSilent(t, tm, result), inflight' \in InFlight \cup {None},
         last_now' \in 0 .. (MAX_TICKS - 1)
  PROVE  TypeOK'
BY DEF TypeOK, PollSilent, next_at, macs, timestamps

\* A branch of poll that sends a keepalive keeps every field typed.
LEMMA PollKeepaliveType ==
  ASSUME TypeOK, NEW t \in Ticks, NEW reason \in Results, current_usable(t),
         send_keepalive(timers_rekeyed, t, reason), next' = next_at(t),
         last_now' \in 0 .. (MAX_TICKS - 1)
  PROVE  TypeOK'
<1>1. current' \in Sessions \cup {None} /\ timers' \in Timers /\ ret' \in Results
  BY PollTimersType, SendKeepaliveType
<1>2. next' \in Sessions \cup {None}
  BY DEF TypeOK, next_at
<1> QED
  BY <1>1, <1>2 DEF TypeOK, send_keepalive, macs, timestamps

\* poll keeps every field typed, whichever branch it takes.
LEMMA PollType ==
  ASSUME TypeOK, NEW clock \in 0 .. (MAX_TICKS - 1), NEW wall \in WallClock,
         Poll(clock, wall)
  PROVE  TypeOK'
<1> DEFINE t == clamp_now(clock)
<1>1. t \in Ticks /\ last_now' \in 0 .. (MAX_TICKS - 1)
  BY ClampBelow DEF Poll
<1>2. wall \in Nat
  BY InputAssumption
<1>3. /\ "SessionsExpired" \in Results /\ "HandshakeExpired" \in Results
      /\ "HandshakeRetransmit" \in Results /\ "HandshakeInitiation" \in Results
      /\ "SendKeepalive" \in Results /\ "PersistentKeepalive" \in Results
      /\ "Idle" \in Results
  BY DEF Results
<1>4. timers \in Timers /\ note_gave_up(timers) \in Timers
  BY <1>1, NoteTypes DEF TypeOK
<1> HIDE DEF t
<1>5. CASE PollDiscard(t)
  BY <1>1, <1>3, <1>5, DiscardType DEF PollDiscard
<1>6. CASE PollRetransmit(t, wall)
  <2>1. CASE inflight' = None /\ PollSilent(t, note_gave_up(timers), "HandshakeExpired")
    BY <1>1, <1>3, <1>4, <2>1, PollSilentType
  <2>2. CASE PollSend(t, wall, timers, "HandshakeRetransmit")
    BY <1>1, <1>2, <1>3, <1>4, <2>2, PollSendType
  <2> QED
    BY <1>6, <2>1, <2>2 DEF PollRetransmit
<1>7. CASE PollInitiate(t, wall)
  BY <1>1, <1>2, <1>3, <1>7, PollTimersType, PollSendType DEF PollInitiate
<1>8. CASE PollKeepalive(t)
  BY <1>1, <1>3, <1>8, PollKeepaliveType DEF PollKeepalive, ConfirmNow, PassiveNow
<1>9. CASE PollPersistent(t)
  BY <1>1, <1>3, <1>9, PollKeepaliveType DEF PollPersistent, PersistentNow
<1>10. CASE PollRevive(t, wall)
  BY <1>1, <1>2, <1>3, <1>10, PollTimersType, PollSendType DEF PollRevive
<1>11. CASE PollIdle(t)
  <2>1. inflight' \in InFlight \cup {None}
    BY <1>11 DEF PollIdle, TypeOK
  <2> QED
    BY <1>1, <1>3, <1>11, <2>1, PollTimersType, PollSilentType DEF PollIdle
<1> QED
  BY <1>5, <1>6, <1>7, <1>8, <1>9, <1>10, <1>11 DEF Poll, t

\* initiate_handshake keeps every field typed.
LEMMA InitiateHandshakeType ==
  ASSUME TypeOK, NEW clock \in Readings, NEW wall \in WallClock,
         InitiateHandshake(clock, wall)
  PROVE  TypeOK'
<1> DEFINE now == clamp_now(clock)
           tm == [timers EXCEPT !.gave_up = FALSE, !.attempt_started = None]
<1>1. now \in Ticks /\ last_now' \in 0 .. (MAX_TICKS - 1)
  BY ClampType DEF InitiateHandshake
<1>2. wall \in Nat /\ tm \in Timers
  BY <1>1, InputAssumption, PollTimersType
<1>3. "HandshakeRateLimited" \in Results /\ "HandshakeInitiation" \in Results
  BY DEF Results
<1> HIDE DEF now, tm
<1>4. CASE Reject("HandshakeRateLimited")
  BY <1>1, <1>3, <1>4, RejectType DEF Reject
<1>5. CASE /\ UNCHANGED <<sessions, recv_rekey_done, last_handshake_at>>
           /\ send_initiation(tm, next, now, wall, FALSE, "HandshakeInitiation")
  BY <1>1, <1>2, <1>3, <1>5, SendInitiationType DEF TypeOK, sessions
<1> QED
  BY <1>4, <1>5 DEF InitiateHandshake, now, tm

\* A new tunnel is typed.
LEMMA TypeInit == Init => TypeOK
<1>1. default_timers(None) \in Timers
  BY DEF default_timers, Timers, OptTicks
<1>2. new_jar \in Jars /\ 0 \in 0 .. (MAX_TICKS - 1)
  BY ConstTypes DEF new_jar, Jars, Ticks
<1> QED
  BY <1>1, <1>2 DEF Init, TypeOK, OptTicks, Results

\* Every method keeps every field typed.
LEMMA TypeStep ==
  ASSUME TypeOK, [Next]_vars
  PROVE  TypeOK'
<1>1. CASE UNCHANGED vars
  BY <1>1 DEF TypeOK, vars, protocol, sessions, macs, timestamps
<1>2. CASE Reset
  BY <1>2, DiscardType DEF Reset, TypeOK, Results
<1>3. ASSUME NEW clock \in Readings, NEW wall \in WallClock,
             \/ \E empty \in BOOLEAN : Encapsulate(clock, wall, empty)
             \/ Poll(clock, wall)
             \/ InitiateHandshake(clock, wall)
      PROVE  TypeOK'
  BY <1>3, ReadingsBelow, EncapsulateType, PollType, InitiateHandshakeType
<1>4. ASSUME NEW clock \in Readings, NEW under_load, NEW remote,
             \/ \E m \in Initiations :
                  DecapsulateInitiation(clock, m, under_load, remote)
             \/ \E m \in Responses :
                  DecapsulateResponse(clock, m, under_load, remote)
      PROVE  TypeOK'
  BY <1>4, DecapsulateInitiationType, DecapsulateResponseType
<1>5. ASSUME NEW clock \in Readings,
             \/ \E m \in CookieReplies : DecapsulateCookieReply(clock, m)
             \/ \E m \in Transports : DecapsulateTransport(clock, m)
             \/ DecapsulateMalformed(clock)
      PROVE  TypeOK'
  BY <1>5, DecapsulateCookieReplyType, DecapsulateTransportType,
     DecapsulateMalformedType
<1> QED
  BY <1>1, <1>2, <1>3, <1>4, <1>5 DEF Next

\* Every field of the tunnel keeps its type through every method, whatever
\* the clock, the wall clock, the datagrams and the entropy source.
THEOREM TypeCorrect == Spec => []TypeOK
BY TypeInit, TypeStep, PTL DEF Spec

-----------------------------------------------------------------------------
(* The cookie jar *)

\* Secrets are numbered from 0, the unprimed one: neither secret a jar would
\* verify under is that one.
JarDrawn ==
  /\ cookie_jar.primed => cookie_jar.secret # 0
  /\ cookie_jar.has_previous => cookie_jar.previous # 0

\* No method but build_cookie_reply touches the jar, and that one rotates it.
LEMMA JarMoves ==
  ASSUME [Next]_vars
  PROVE  \/ cookie_jar' = cookie_jar
         \/ \E now : cookie_jar' = rotate_if_needed(cookie_jar, now)
<1>1. CASE UNCHANGED vars \/ Reset
  BY <1>1 DEF vars, protocol, macs, Reset, discard_all_sessions
<1>2. ASSUME NEW tm, NEW nx, NEW now, NEW wall, NEW driven, NEW reason,
             send_initiation(tm, nx, now, wall, driven, reason)
      PROVE  cookie_jar' = cookie_jar
  BY <1>2 DEF send_initiation
<1>3. ASSUME NEW clock, NEW wall, NEW empty, Encapsulate(clock, wall, empty)
      PROVE  cookie_jar' = cookie_jar
  BY <1>2, <1>3 DEF Encapsulate, EncapsulateHandshake, EncapsulateTransport,
                    macs
<1>4. ASSUME NEW clock, NEW wall, InitiateHandshake(clock, wall)
      PROVE  cookie_jar' = cookie_jar
  BY <1>2, <1>4 DEF InitiateHandshake, Reject, protocol, macs
<1>5. ASSUME NEW clock, NEW wall, Poll(clock, wall)
      PROVE  cookie_jar' = cookie_jar
  <2>1. ASSUME NEW t, NEW tm, NEW reason, PollSend(t, wall, tm, reason)
        PROVE  cookie_jar' = cookie_jar
    BY <1>2, <2>1 DEF PollSend
  <2>2. ASSUME NEW t, NEW tm, NEW result,
               PollSilent(t, tm, result) \/ send_keepalive(tm, t, result)
        PROVE  cookie_jar' = cookie_jar
    BY <2>2 DEF PollSilent, send_keepalive, macs
  <2>3. ASSUME NEW t, PollDiscard(t)
        PROVE  cookie_jar' = cookie_jar
    BY <2>3 DEF PollDiscard, discard_all_sessions
  <2> QED
    BY <1>5, <2>1, <2>2, <2>3
       DEF Poll, PollRetransmit, PollInitiate, PollKeepalive, PollPersistent,
           PollRevive, PollIdle
<1>6. ASSUME NEW clock, NEW m, NEW under_load, NEW remote,
             \/ DecapsulateInitiation(clock, m, under_load, remote)
             \/ DecapsulateResponse(clock, m, under_load, remote)
      PROVE  \/ cookie_jar' = cookie_jar
             \/ \E now : cookie_jar' = rotate_if_needed(cookie_jar, now)
  <2>1. CASE UNCHANGED protocol
    BY <2>1 DEF protocol, macs
  <2>2. ASSUME NEW now, build_cookie_reply(now)
        PROVE  \/ cookie_jar' = cookie_jar
               \/ cookie_jar' = rotate_if_needed(cookie_jar, now)
    BY <2>2 DEF build_cookie_reply
  <2>3. ASSUME NEW now, RespondTo(m, now) \/ CompleteHandshake(m, now)
        PROVE  cookie_jar' = cookie_jar
    BY <2>3 DEF RespondTo, CompleteHandshake, protocol, macs
  <2>4. CASE DecapsulateInitiation(clock, m, under_load, remote)
    BY <2>1, <2>2, <2>3, <2>4, Zenon DEF DecapsulateInitiation, Reject
  <2>5. CASE DecapsulateResponse(clock, m, under_load, remote)
    BY <2>1, <2>2, <2>3, <2>5, Zenon DEF DecapsulateResponse, Reject
  <2> QED
    BY <1>6, <2>4, <2>5
<1>7. ASSUME NEW clock, NEW m,
             \/ DecapsulateCookieReply(clock, m)
             \/ DecapsulateTransport(clock, m)
             \/ DecapsulateMalformed(clock)
      PROVE  cookie_jar' = cookie_jar
  BY <1>7 DEF DecapsulateCookieReply, DecapsulateTransport,
              DecapsulateMalformed, Reject, protocol, macs
<1> QED
  BY <1>1, <1>3, <1>4, <1>5, <1>6, <1>7 DEF Next

\* The secret an unprimed jar holds never authenticates a handshake: the jar
\* verifies under its previous secret only when that one, too, was drawn.
THEOREM ZeroSecretRefused == Spec => []UnprimedSecretRefused
<1>1. Init => JarDrawn
  BY DEF Init, new_jar, JarDrawn
<1>2. TypeOK /\ JarDrawn /\ [Next]_vars => JarDrawn'
  <2> SUFFICES ASSUME TypeOK, JarDrawn, [Next]_vars
               PROVE  JarDrawn'
    OBVIOUS
  <2>1. ASSUME NEW now, cookie_jar' = rotate_if_needed(cookie_jar, now)
        PROVE  JarDrawn'
    <3>1. cookie_jar \in Jars
      BY DEF TypeOK
    <3>2. CASE cookie_jar' = cookie_jar
      BY <3>2 DEF JarDrawn
    <3>3. CASE /\ cookie_jar'.secret = cookie_jar.secret + 1
               /\ cookie_jar'.previous = cookie_jar.secret
               /\ cookie_jar'.has_previous = cookie_jar.primed
      BY <3>1, <3>3 DEF JarDrawn, Jars
    <3> QED
      BY <2>1, <3>2, <3>3 DEF rotate_if_needed
  <2> QED
    BY <2>1, JarMoves DEF JarDrawn
<1>3. TypeOK /\ JarDrawn => UnprimedSecretRefused
  BY DEF TypeOK, Jars, JarDrawn, UnprimedSecretRefused, verify_mac2
<1> QED
  BY <1>1, <1>2, <1>3, TypeCorrect, PTL DEF Spec

-----------------------------------------------------------------------------
(* The slots: only sessions the peer has proven to hold rotate into         *)
(* current, and no two slots share a receiver index.  Each needs the other: *)
(* an accepted transport message replaces the slot it was matched to, which *)
(* is one slot only because indices are distinct, and stays out of the next *)
(* slot only because what is there is unconfirmed.  The lemmas follow the   *)
(* ways in which a method can move sessions between slots.                  *)

SlotInv == ConfirmedByPeer /\ IndicesDistinct

\* Methods that leave every slot alone, or empty the next one (the prologue of
\* poll), or drop the handshake in flight.
LEMMA SlotsKept ==
  ASSUME SlotInv, next' \in {next, None}, inflight' \in {inflight, None},
         UNCHANGED <<current, previous>>
  PROVE  SlotInv'
BY DEF SlotInv, ConfirmedByPeer, IndicesDistinct, HasIndex

\* send_initiation puts a fresh index in flight.
LEMMA SlotsInitiation ==
  ASSUME SlotInv, NEW tm, NEW nx \in {next, None}, NEW now, NEW wall, NEW driven,
         NEW reason, send_initiation(tm, nx, now, wall, driven, reason),
         next' = nx, UNCHANGED <<current, previous>>
  PROVE  SlotInv'
<1>1. CASE UNCHANGED inflight
  BY <1>1, SlotsKept
<1>2. ASSUME NEW index \in fresh_index(nx), NEW eph,
             inflight' = create_initiation(index, eph)
      PROVE  SlotInv'
  <2>1. inflight'.local_index = index
    BY <1>2 DEF create_initiation
  <2>2. \A s \in {next', current', previous'} : ~HasIndex(s, index)
    BY <1>2 DEF fresh_index
  <2> QED
    BY <2>1, <2>2 DEF SlotInv, ConfirmedByPeer, IndicesDistinct, HasIndex
<1> QED
  BY <1>1, <1>2 DEF send_initiation

\* A transport send advances the counter of current and nothing else in it.
LEMMA SlotsSend ==
  ASSUME TypeOK, SlotInv, current # None, current' = next_counter(current),
         next' \in {next, None}, UNCHANGED <<inflight, previous>>
  PROVE  SlotInv'
<1>1. /\ current \in Sessions
      /\ current'.local_index = current.local_index
      /\ current'.confirmed = current.confirmed
      /\ current'.is_initiator = current.is_initiator
      /\ current'.replay = current.replay
  BY DEF TypeOK, Sessions, next_counter
<1> QED
  BY <1>1 DEF SlotInv, ConfirmedByPeer, IndicesDistinct, HasIndex

\* RespondTo fills the next slot with an unconfirmed session, fresh index.
LEMMA SlotsRespond ==
  ASSUME SlotInv, NEW m, NEW now, RespondTo(m, now)
  PROVE  SlotInv'
<1>1. CASE UNCHANGED protocol
  BY <1>1, SlotsKept DEF protocol, sessions
<1>2. ASSUME NEW index \in fresh_index(next), NEW eph,
             next' = new_session(index, m.sender_index, create_response(m, eph),
                                 FALSE, now),
             UNCHANGED <<inflight, current, previous>>
      PROVE  SlotInv'
  <2>1. /\ next'.local_index = index
        /\ next'.is_initiator = FALSE /\ next'.confirmed = FALSE
        /\ next'.send_counter = 0 /\ next'.replay = {}
    BY <1>2 DEF new_session
  <2>2. \A s \in {inflight, current, previous} : ~HasIndex(s, index)
    BY <1>2 DEF fresh_index
  <2> QED
    BY <1>2, <2>1, <2>2 DEF SlotInv, ConfirmedByPeer, IndicesDistinct, HasIndex
<1> QED
  BY <1>1, <1>2 DEF RespondTo

\* CompleteHandshake moves the index in flight to current.
LEMMA SlotsComplete ==
  ASSUME SlotInv, NEW m, NEW now, inflight # None, CompleteHandshake(m, now)
  PROVE  SlotInv'
<1>1. /\ current'.local_index = inflight.local_index
      /\ current'.is_initiator = TRUE /\ current'.confirmed = TRUE
  BY DEF CompleteHandshake, new_session
<1>2. inflight' = None /\ previous' = current /\ next' = next
  BY DEF CompleteHandshake
<1> QED
  BY <1>1, <1>2 DEF SlotInv, ConfirmedByPeer, IndicesDistinct, HasIndex

\* What accepting a transport message leaves of a session.
LEMMA AcceptTransport ==
  ASSUME NEW s \in Sessions, NEW c
  PROVE  /\ accept_transport(s, c).local_index = s.local_index
         /\ accept_transport(s, c).is_initiator = s.is_initiator
         /\ accept_transport(s, c).confirmed = TRUE
         /\ accept_transport(s, c).replay # {}
BY DEF accept_transport, Sessions

\* PromoteNext moves next to current; AcceptInPlace updates current or previous.
LEMMA SlotsTransport ==
  ASSUME TypeOK, SlotInv, NEW clock \in Readings, NEW m \in Transports,
         DecapsulateTransport(clock, m)
  PROVE  SlotInv'
<1> DEFINE now == clamp_now(clock)
           s == session_with_index(m.receiver_index)
<1>1. s # None => /\ s \in Sessions /\ s \in {next, current, previous}
                  /\ s.local_index = m.receiver_index
  BY SessionWithIndex DEF TypeOK, HasIndex
<1> HIDE DEF now, s
<1>2. CASE UNCHANGED protocol
  BY <1>2, SlotsKept DEF protocol, sessions
<1>3. CASE s # None /\ PromoteNext(s, m, now)
  <2>1. /\ current'.local_index = next.local_index
        /\ current'.confirmed = TRUE /\ current'.replay # {}
    BY <1>1, <1>3, AcceptTransport DEF PromoteNext
  <2>2. next' = None /\ inflight' = None /\ previous' = current /\ next # None
    BY <1>1, <1>3 DEF PromoteNext
  <2> QED
    BY <2>1, <2>2 DEF SlotInv, ConfirmedByPeer, IndicesDistinct, HasIndex
<1>4. CASE s # None /\ AcceptInPlace(s, m, now)
  <2>1. s # next
    BY <1>1, <1>4 DEF AcceptInPlace, SlotInv, ConfirmedByPeer
  <2>2. next' = next /\ inflight' = inflight
    BY <1>4, <2>1 DEF AcceptInPlace
  <2>3. /\ current' = IF current = s THEN accept_transport(s, m.counter) ELSE current
        /\ previous' = IF previous = s THEN accept_transport(s, m.counter) ELSE previous
    BY <1>4 DEF AcceptInPlace
  <2>4. current = None \/ current # previous
    BY DEF SlotInv, IndicesDistinct, HasIndex
  <2>5. CASE s = current
    <3>1. previous' = previous
      BY <1>4, <2>3, <2>4, <2>5
    <3>2. /\ current'.local_index = current.local_index
          /\ current'.confirmed = TRUE /\ current'.replay # {}
      BY <1>1, <1>4, <2>3, <2>5, AcceptTransport
    <3> QED
      BY <1>4, <2>2, <2>5, <3>1, <3>2
         DEF SlotInv, ConfirmedByPeer, IndicesDistinct, HasIndex
  <2>6. CASE s = previous
    <3>1. current' = current
      BY <1>4, <2>3, <2>4, <2>6
    <3>2. /\ previous'.local_index = previous.local_index
          /\ previous'.confirmed = TRUE /\ previous'.replay # {}
      BY <1>1, <1>4, <2>3, <2>6, AcceptTransport
    <3> QED
      BY <1>4, <2>2, <2>6, <3>1, <3>2
         DEF SlotInv, ConfirmedByPeer, IndicesDistinct, HasIndex
  <2> QED
    BY <1>1, <1>4, <2>1, <2>5, <2>6
<1> QED
  BY <1>2, <1>3, <1>4 DEF DecapsulateTransport, Reject, now, s

\* Every method keeps the two slot invariants.
LEMMA SlotsStep ==
  ASSUME TypeOK, SlotInv, [Next]_vars
  PROVE  SlotInv'
<1>1. CASE UNCHANGED vars
  BY <1>1, SlotsKept DEF vars, protocol, sessions
<1>2. CASE Reset
  BY <1>2 DEF Reset, discard_all_sessions, SlotInv, ConfirmedByPeer,
              IndicesDistinct, HasIndex
<1>3. ASSUME NEW clock, NEW wall, NEW empty, Encapsulate(clock, wall, empty)
      PROVE  SlotInv'
  <2> DEFINE now == clamp_now(clock)
  <2>1. CASE EncapsulateHandshake(now, wall)
    <3> HIDE DEF now
    <3>1. CASE UNCHANGED inflight
      BY <2>1, <3>1, SlotsKept DEF EncapsulateHandshake, sessions
    <3>2. ASSUME NEW tm, send_initiation(tm, next, now, wall, FALSE,
                                         "HandshakeInitiation")
          PROVE  SlotInv'
      BY <2>1, <3>2, SlotsInitiation DEF EncapsulateHandshake, sessions
    <3> QED
      BY <2>1, <3>1, <3>2 DEF EncapsulateHandshake
  <2>2. CASE EncapsulateTransport(now, empty)
    BY <2>2, SlotsSend, SlotsKept DEF EncapsulateTransport, current_usable
  <2> QED
    BY <1>3, <2>1, <2>2 DEF Encapsulate
<1>4. ASSUME NEW clock, NEW wall, InitiateHandshake(clock, wall)
      PROVE  SlotInv'
  <2>1. CASE UNCHANGED protocol
    BY <2>1, SlotsKept DEF protocol, sessions
  <2>2. ASSUME NEW tm, UNCHANGED sessions,
               send_initiation(tm, next, clamp_now(clock), wall, FALSE,
                               "HandshakeInitiation")
        PROVE  SlotInv'
    BY <2>2, SlotsInitiation DEF sessions
  <2> QED
    BY <1>4, <2>1, <2>2 DEF InitiateHandshake, Reject
<1>5. ASSUME NEW clock, NEW wall, Poll(clock, wall)
      PROVE  SlotInv'
  <2> DEFINE t == clamp_now(clock)
  <2>1. next_at(t) \in {next, None}
    BY DEF next_at
  <2> HIDE DEF t
  <2>2. CASE PollDiscard(t)
    BY <2>2 DEF PollDiscard, discard_all_sessions, SlotInv, ConfirmedByPeer,
                IndicesDistinct, HasIndex
  <2>3. ASSUME NEW tm, NEW result, PollSilent(t, tm, result),
               inflight' \in {inflight, None}
        PROVE  SlotInv'
    BY <2>1, <2>3, SlotsKept DEF PollSilent
  <2>4. ASSUME NEW tm, NEW reason, PollSend(t, wall, tm, reason)
        PROVE  SlotInv'
    BY <2>1, <2>4, SlotsInitiation DEF PollSend
  <2>5. ASSUME NEW tm, NEW reason, current # None,
               send_keepalive(tm, t, reason), next' = next_at(t)
        PROVE  SlotInv'
    BY <2>1, <2>5, SlotsSend, SlotsKept DEF send_keepalive
  <2>6. CASE PollRetransmit(t, wall)
    BY <2>3, <2>4, <2>6 DEF PollRetransmit
  <2>7. CASE PollInitiate(t, wall) \/ PollRevive(t, wall)
    BY <2>4, <2>7 DEF PollInitiate, PollRevive
  <2>8. CASE PollKeepalive(t)
    BY <2>5, <2>8 DEF PollKeepalive, ConfirmNow, PassiveNow, current_usable
  <2>9. CASE PollPersistent(t)
    BY <2>5, <2>9 DEF PollPersistent, PersistentNow, current_usable
  <2>10. CASE PollIdle(t)
    BY <2>3, <2>10 DEF PollIdle
  <2> QED
    BY <1>5, <2>2, <2>6, <2>7, <2>8, <2>9, <2>10 DEF Poll, t
<1>6. ASSUME NEW clock, NEW m, NEW under_load, NEW remote,
             \/ DecapsulateInitiation(clock, m, under_load, remote)
             \/ DecapsulateResponse(clock, m, under_load, remote)
      PROVE  SlotInv'
  <2>1. CASE UNCHANGED <<inflight, sessions>>
    BY <2>1, SlotsKept DEF sessions
  <2>2. CASE UNCHANGED protocol
    BY <2>1, <2>2 DEF protocol
  <2>3. CASE RespondTo(m, clamp_now(clock))
    BY <2>3, SlotsRespond
  <2>4. CASE inflight # None /\ CompleteHandshake(m, clamp_now(clock))
    BY <2>4, SlotsComplete
  <2> QED
    BY <1>6, <2>1, <2>2, <2>3, <2>4
       DEF DecapsulateInitiation, DecapsulateResponse, Reject, HasIndex
<1>7. ASSUME NEW clock, NEW m, DecapsulateCookieReply(clock, m)
      PROVE  SlotInv'
  BY <1>7, SlotsKept DEF DecapsulateCookieReply, Reject, protocol, sessions
<1>8. ASSUME NEW clock, DecapsulateMalformed(clock)
      PROVE  SlotInv'
  BY <1>8, SlotsKept DEF DecapsulateMalformed, Reject, protocol, sessions
<1> QED
  BY <1>1, <1>2, <1>3, <1>4, <1>5, <1>6, <1>7, <1>8, SlotsTransport DEF Next

\* A responder's session reaches current or previous only through an
\* authentic transport message on it, and nothing is sent on it before: for
\* every number of indices, counters and ephemerals, and every schedule.
THEOREM PeerConfirmsSessions == Spec => []ConfirmedByPeer
<1>1. Init => SlotInv
  BY DEF Init, SlotInv, ConfirmedByPeer, IndicesDistinct, HasIndex
<1>2. TypeOK /\ SlotInv /\ [Next]_vars => SlotInv'
  BY SlotsStep
<1>3. SlotInv => ConfirmedByPeer
  BY DEF SlotInv
<1> QED
  BY <1>1, <1>2, <1>3, TypeCorrect, PTL DEF Spec

\* A receiver index names at most one session or handshake of the tunnel,
\* however the slots are refilled and rotated.
THEOREM IndexNamesOneSlot == Spec => []IndicesDistinct
<1>1. Init => SlotInv
  BY DEF Init, SlotInv, ConfirmedByPeer, IndicesDistinct, HasIndex
<1>2. TypeOK /\ SlotInv /\ [Next]_vars => SlotInv'
  BY SlotsStep
<1>3. SlotInv => IndicesDistinct
  BY DEF SlotInv
<1> QED
  BY <1>1, <1>2, <1>3, TypeCorrect, PTL DEF Spec

=============================================================================
