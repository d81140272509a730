------------------------------- MODULE Tunnel -------------------------------
(***************************************************************************)
(* The sans-I/O tunnel to one peer (src/tunnel.rs).  The variables are the *)
(* mutable fields of struct Tunnel; each public method that changes state  *)
(* is an action whose parameters are its inputs: the clock reading, the    *)
(* wall clock, the datagram, the caller's load signal.  What the entropy   *)
(* source and the caller's buffer decide (indices, ephemerals, jitter,     *)
(* failures) is chosen inside the action.  `ret' is the value returned by  *)
(* the last call.                                                          *)
(*                                                                         *)
(* The peer of this module is any environment: Next offers every datagram  *)
(* over the constant sets, authentic or not, at any time.                  *)
(***************************************************************************)
EXTENDS Timers, Noise, Cookie

CONSTANTS
  PersistentKeepalive,   \* Config::persistent_keepalive in ticks, or None
  Clock,                 \* readings of the caller's monotonic clock
  WallClock,             \* readings of the caller's wall clock
  Timestamps,            \* TAI64N timestamps of the peer's initiations
  Counters,              \* transport counters the peer may use
  LoadSignals,           \* values of `under_load'
  Faults,                \* the checks a datagram may fail: "mac1", "noise", "peer"
  PeerCookies            \* cookies the peer's replies carry

\* Clock readings stay below u64::MAX ticks (584 years): at u64::MAX every
\* deadline saturates to the present.
ASSUME ClockAssumption ==
  0 < MAX_TICKS /\ Clock \subseteq 0 .. (MAX_TICKS - 1)

ASSUME InputAssumption ==
  /\ PersistentKeepalive \in (Nat \ {0}) \cup {None}
  /\ WallClock \subseteq Nat
  /\ Timestamps \subseteq Nat
  /\ Counters \subseteq Nat
  /\ LoadSignals \subseteq BOOLEAN
  /\ Faults \subseteq {"mac1", "noise", "peer"}
  /\ PeerCookies \subseteq Cookies

VARIABLES
  inflight, last_init_mac1, last_resp_mac1, cookie, cookie_jar,
  greatest_timestamp, last_sent_tai64n,
  previous, current, next,
  timers, recv_rekey_done, last_now,
  last_handshake_at,     \* Stats::last_handshake_at
  ret

sessions == <<previous, current, next>>
macs == <<last_init_mac1, last_resp_mac1, cookie, cookie_jar>>
timestamps == <<greatest_timestamp, last_sent_tai64n>>

\* Everything but the clamp on the clock and the returned value.
protocol == <<inflight, macs, timestamps, sessions, timers, recv_rekey_done,
              last_handshake_at>>

vars == <<protocol, last_now, ret>>

ASSUME SomeAssumption == None \notin InFlight

LocalErrors == {"BufferTooSmall", "EntropyFailure"}

Results ==
  LocalErrors \cup
  { "None", "Transport", "HandshakeInitiation", "NotEstablished",
    "HandshakeRateLimited", "InvalidPacket", "InvalidMac1", "AuthFailure",
    "UnknownPeer", "ReplayedTimestamp", "NoPendingHandshake", "UnknownReceiverIndex",
    "InvalidCookie", "Expired", "Replay", "Reply", "HandshakeComplete",
    "CookieStored", "Data", "Keepalive", "Idle", "HandshakeExpired",
    "SessionsExpired", "HandshakeRetransmit", "SendKeepalive",
    "PersistentKeepalive" }

TypeOK ==
  /\ inflight \in InFlight \cup {None}
  /\ last_init_mac1 \in Ephemerals \cup {None}
  /\ last_resp_mac1 \in Ephemerals \cup {None}
  /\ cookie \in LastCookies \cup {None}
  /\ cookie_jar \in Jars
  /\ greatest_timestamp \in Nat \cup {None}
  /\ last_sent_tai64n \in Nat \cup {None}
  /\ previous \in Sessions \cup {None}
  /\ current \in Sessions \cup {None}
  /\ next \in Sessions \cup {None}
  /\ timers \in Timers
  /\ recv_rekey_done \in BOOLEAN
  /\ last_now \in 0 .. (MAX_TICKS - 1)
  /\ last_handshake_at \in OptTicks
  /\ ret \in Results

\* Tunnel::with_backend
Init ==
  /\ inflight = None
  /\ last_init_mac1 = None /\ last_resp_mac1 = None
  /\ cookie = None /\ cookie_jar = new_jar
  /\ greatest_timestamp = None /\ last_sent_tai64n = None
  /\ previous = None /\ current = None /\ next = None
  /\ timers = default_timers(None)
  /\ recv_rekey_done = FALSE
  /\ last_now = 0
  /\ last_handshake_at = None
  /\ ret = "None"

-----------------------------------------------------------------------------
(* Internals shared by the methods. *)

clamp_now(clock) == IF clock < last_now THEN last_now ELSE clock

current_usable(now) == current # None /\ usable_for_send(current, now)

\* The index of an occupied slot or of the handshake in flight.
HasIndex(s, index) == s # None /\ s.local_index = index

\* Mutant of fresh_index: the handshake in flight is not looked at.
fresh_index_slots(nx) ==
  { index \in Indices : \A s \in {nx, current, previous} : ~HasIndex(s, index) }

\* fresh_index, when `nx' is what the next slot holds at the call.  The draw
\* that fails 32 times is the EntropyFailure of the caller.
fresh_index(nx) ==
  { index \in Indices : \A s \in {nx, current, previous, inflight} :
                          ~HasIndex(s, index) }

\* send_initiation with timers `tm' and next slot `nx', returning `reason'.
\* All entropy and the buffer check come before the first assignment.
send_initiation(tm, nx, now, wall, timer_driven, reason) ==
  /\ UNCHANGED <<last_resp_mac1, cookie, cookie_jar, greatest_timestamp>>
  /\ \/ /\ timers' = tm
        /\ ret' \in LocalErrors
        /\ UNCHANGED <<inflight, last_init_mac1, last_sent_tai64n>>
     \/ \E index \in fresh_index(nx), eph \in Ephemerals,
           jitter \in 0 .. REKEY_TIMEOUT_JITTER_MAX :
          /\ ~timer_driven => jitter = 0
          /\ last_sent_tai64n' =
               IF last_sent_tai64n # None /\ tai64n(wall) <= last_sent_tai64n
                 THEN tick(last_sent_tai64n) ELSE tai64n(wall)
          /\ last_init_mac1' = eph
          /\ inflight' = create_initiation(index, eph)
          /\ timers' = note_initiation_tx(tm, now, jitter)
          /\ ret' = reason

\* The Rekey-After rule at the end of every transport send.
rekey_after_send(tm, s, now) ==
  [tm EXCEPT !.rekey_due = \/ @
                           \/ s.send_counter >= REKEY_AFTER_MESSAGES
                           \/ s.is_initiator /\ age(s, now) >= REKEY_AFTER_TIME]

\* send_keepalive on a usable current session.
send_keepalive(tm, now, reason) ==
  /\ UNCHANGED <<inflight, macs, timestamps, previous, recv_rekey_done,
                 last_handshake_at>>
  /\ \/ /\ ret' = "BufferTooSmall"
        /\ timers' = tm
        /\ UNCHANGED current
     \/ /\ current' = next_counter(current)
        /\ timers' = rekey_after_send(note_keepalive_tx(tm, now),
                                      next_counter(current), now)
        /\ ret' = reason

discard_all_sessions ==
  /\ previous' = None /\ current' = None /\ next' = None
  /\ inflight' = None
  /\ cookie' = None
  /\ last_init_mac1' = None /\ last_resp_mac1' = None
  /\ recv_rekey_done' = FALSE
  /\ timers' = default_timers(timers.last_initiation_tx)
  /\ UNCHANGED <<cookie_jar, timestamps, last_handshake_at>>

newest_session_created(p, c, n) ==
  LET created(s) == IF s = None THEN None ELSE s.created
  IN  opt_max(created(p), opt_max(created(c), created(n)))

-----------------------------------------------------------------------------
(* encapsulate *)

\* No usable session: the payload is refused or turned into an initiation.
EncapsulateHandshake(now, wall) ==
  LET tm == [timers EXCEPT !.gave_up = FALSE] IN
  /\ ~current_usable(now)
  /\ UNCHANGED <<sessions, recv_rekey_done, last_handshake_at>>
  /\ \/ /\ inflight # None \/ ~initiation_allowed(timers, now)
        /\ timers' = [tm EXCEPT !.attempt_started =
                                   IF inflight # None THEN now ELSE @]
        /\ ret' = "NotEstablished"
        /\ UNCHANGED <<inflight, macs, timestamps>>
     \/ /\ inflight = None
        /\ initiation_allowed(timers, now)
        /\ send_initiation([tm EXCEPT !.attempt_started = None], next,
                           now, wall, FALSE, "HandshakeInitiation")

EncapsulateTransport(now, empty) ==
  /\ current_usable(now)
  /\ UNCHANGED <<inflight, macs, timestamps, previous, next, recv_rekey_done,
                 last_handshake_at>>
  /\ \/ /\ ret' = "BufferTooSmall"
        /\ UNCHANGED <<current, timers>>
     \/ /\ current' = next_counter(current)
        /\ timers' = rekey_after_send(IF empty THEN note_keepalive_tx(timers, now)
                                               ELSE note_data_tx(timers, now),
                                      next_counter(current), now)
        /\ ret' = "Transport"

Encapsulate(clock, wall, empty) ==
  LET now == clamp_now(clock) IN
  /\ last_now' = now
  /\ EncapsulateHandshake(now, wall) \/ EncapsulateTransport(now, empty)

-----------------------------------------------------------------------------
(* decapsulate, by kind of datagram *)

\* build_cookie_reply: the buffer first, then the entropy a rotation needs.
build_cookie_reply(now) ==
  \/ /\ ret' = "BufferTooSmall"
     /\ UNCHANGED cookie_jar
  \/ /\ rotation_due(cookie_jar, now)
     /\ ret' = "EntropyFailure"
     /\ UNCHANGED cookie_jar
  \/ /\ cookie_jar' = rotate_if_needed(cookie_jar, now)
     /\ ret' = "Reply"

\* Handshake messages without a good mac2 are not processed under load.
mac2_passes(m, under_load, remote) ==
  under_load => verify_mac2(cookie_jar, remote, m.mac2)

\* A datagram dropped with `error': nothing but the clock clamp changes.
Reject(error) == ret' = error /\ UNCHANGED protocol

\* An authentic initiation newer than all before it: build the response and
\* install its session in the next slot.
RespondTo(m, now) ==
  \/ ret' \in LocalErrors /\ UNCHANGED protocol
  \/ \E index \in fresh_index(next), eph \in Ephemerals :
       /\ next' = new_session(index, m.sender_index, create_response(m, eph),
                              FALSE, now)
       /\ last_resp_mac1' = eph
       /\ greatest_timestamp' = m.timestamp
       /\ ret' = "Reply"
       /\ UNCHANGED <<inflight, last_init_mac1, cookie, cookie_jar,
                      last_sent_tai64n, previous, current, timers,
                      recv_rekey_done, last_handshake_at>>

DecapsulateInitiation(clock, m, under_load, remote) ==
  LET now == clamp_now(clock) IN
  /\ last_now' = now
  /\ \/ m.fault = "mac1" /\ Reject("InvalidMac1")
     \/ /\ m.fault # "mac1"
        /\ ~mac2_passes(m, under_load, remote)
        /\ build_cookie_reply(now)
        /\ UNCHANGED <<inflight, last_init_mac1, last_resp_mac1, cookie,
                       timestamps, sessions, timers, recv_rekey_done,
                       last_handshake_at>>
     \/ /\ m.fault # "mac1"
        /\ mac2_passes(m, under_load, remote)
        /\ \/ /\ consume_initiation(m) # "Ok"
              /\ Reject(consume_initiation(m))
           \/ /\ consume_initiation(m) = "Ok"
              /\ greatest_timestamp # None /\ m.timestamp <= greatest_timestamp
              /\ Reject("ReplayedTimestamp")
           \/ /\ consume_initiation(m) = "Ok"
              /\ greatest_timestamp # None => greatest_timestamp < m.timestamp
              /\ RespondTo(m, now)

\* consume_response succeeded: the new session becomes current.
CompleteHandshake(m, now) ==
  /\ inflight' = None
  /\ previous' = current
  /\ current' = new_session(inflight.local_index, m.sender_index,
                            consume_response(inflight, m), TRUE, now)
  /\ recv_rekey_done' = FALSE
  /\ timers' = [note_handshake_complete(timers) EXCEPT
                  !.confirm_keepalive_due = TRUE]
  /\ last_handshake_at' = now
  /\ ret' = "HandshakeComplete"
  /\ UNCHANGED <<macs, timestamps, next>>

DecapsulateResponse(clock, m, under_load, remote) ==
  LET now == clamp_now(clock) IN
  /\ last_now' = now
  /\ \/ m.fault = "mac1" /\ Reject("InvalidMac1")
     \/ /\ m.fault # "mac1"
        /\ ~HasIndex(inflight, m.receiver_index)
        /\ Reject("NoPendingHandshake")
     \/ /\ m.fault # "mac1"
        /\ HasIndex(inflight, m.receiver_index)
        /\ ~mac2_passes(m, under_load, remote)
        /\ build_cookie_reply(now)
        /\ UNCHANGED <<inflight, last_init_mac1, last_resp_mac1, cookie,
                       timestamps, sessions, timers, recv_rekey_done,
                       last_handshake_at>>
     \/ /\ m.fault # "mac1"
        /\ HasIndex(inflight, m.receiver_index)
        /\ mac2_passes(m, under_load, remote)
        /\ \/ ~response_opens(inflight, m) /\ Reject("AuthFailure")
           \/ response_opens(inflight, m) /\ CompleteHandshake(m, now)

\* A cookie reply opens under the mac1 of the message that provoked it.
DecapsulateCookieReply(clock, m) ==
  LET now == clamp_now(clock)
      known == \E s \in {inflight, next, current, previous} :
                 HasIndex(s, m.receiver_index)
      opens == m.fault = "none" /\ m.mac1 \in {last_init_mac1, last_resp_mac1}
  IN
  /\ last_now' = now
  /\ \/ ~known /\ Reject("UnknownReceiverIndex")
     \/ /\ known /\ ~opens
        /\ Reject(IF last_init_mac1 = None /\ last_resp_mac1 = None
                    THEN "NoPendingHandshake" ELSE "InvalidCookie")
     \/ /\ known /\ opens
        /\ cookie' = [value |-> m.value, received_at |-> now]
        /\ ret' = "CookieStored"
        /\ UNCHANGED <<inflight, last_init_mac1, last_resp_mac1, cookie_jar,
                       timestamps, sessions, timers, recv_rekey_done,
                       last_handshake_at>>

\* session_with_index: next, then current, then previous.
session_with_index(index) ==
  CASE HasIndex(next, index) -> next
    [] ~HasIndex(next, index) /\ HasIndex(current, index) -> current
    [] ~HasIndex(next, index) /\ ~HasIndex(current, index)
         /\ HasIndex(previous, index) -> previous
    [] OTHER -> None

\* The AEAD opens under the receive half of the session's key.
opens_under(s, m) ==
  m.fault = "none" /\ m.key = s.key /\ m.from_initiator = ~s.is_initiator

\* Tail of handle_transport: the receive-path rekey of section 6.2, judged on
\* the current session `cur' as it now is, then note_rx.
ReceivePath(cur, done, tm, now, m) ==
  LET fires == /\ ~done /\ cur # None /\ cur.is_initiator
               /\ age(cur, now) >= REKEY_AFTER_TIME_RECV
  IN  /\ recv_rekey_done' = (done \/ fires)
      /\ timers' = note_rx([tm EXCEPT !.rekey_due = @ \/ fires], now, m.empty)
      /\ ret' = IF m.empty THEN "Keepalive" ELSE "Data"

\* First authentic transport on an unconfirmed session of the next slot.
PromoteNext(s, m, now) ==
  /\ s = next /\ ~s.confirmed
  /\ previous' = current
  /\ current' = accept_transport(s, m.counter)
  /\ next' = None
  /\ inflight' = None
  /\ last_handshake_at' = now
  /\ ReceivePath(accept_transport(s, m.counter), FALSE,
                 note_handshake_complete(timers), now, m)

\* Any other authentic transport: the session stays in its slot.
AcceptInPlace(s, m, now) ==
  LET put(slot) == IF slot = s THEN accept_transport(s, m.counter) ELSE slot IN
  /\ ~(s = next /\ ~s.confirmed)
  /\ next' = put(next)
  /\ current' = put(current)
  /\ previous' = put(previous)
  /\ UNCHANGED <<inflight, last_handshake_at>>
  /\ ReceivePath(put(current), recv_rekey_done, timers, now, m)

\* handle_transport
DecapsulateTransport(clock, m) ==
  LET now == clamp_now(clock)
      s == session_with_index(m.receiver_index)
  IN
  /\ last_now' = now
  /\ \/ s = None /\ Reject("UnknownReceiverIndex")
     \/ /\ s # None
        /\ m.counter >= REJECT_AFTER_MESSAGES \/ age(s, now) >= REJECT_AFTER_TIME
        /\ Reject("Expired")
     \/ /\ s # None
        /\ m.counter < REJECT_AFTER_MESSAGES /\ age(s, now) < REJECT_AFTER_TIME
        /\ \/ ~replay_check(s.replay, m.counter) /\ Reject("Replay")
           \/ /\ replay_check(s.replay, m.counter) /\ ~m.empty
              /\ Reject("BufferTooSmall")
           \/ /\ replay_check(s.replay, m.counter) /\ ~opens_under(s, m)
              /\ Reject("AuthFailure")
           \/ /\ replay_check(s.replay, m.counter) /\ opens_under(s, m)
              /\ PromoteNext(s, m, now) \/ AcceptInPlace(s, m, now)
              /\ UNCHANGED <<macs, timestamps>>

\* message::parse refuses the datagram.
DecapsulateMalformed(clock) ==
  /\ last_now' = clamp_now(clock)
  /\ Reject("InvalidPacket")

-----------------------------------------------------------------------------
(* poll: the first branch with work performs it; branches without work may  *)
(* still clear what they find stale on the way to Idle.                     *)

\* The next slot after the prologue of poll.
next_at(t) ==
  IF next # None /\ age(next, t) >= REJECT_AFTER_TIME THEN None ELSE next

DiscardDue(t) ==
  some_elapsed(newest_session_created(previous, current, next_at(t)), t,
               SESSION_DISCARD_TIME)

RetransmitDue(t) ==
  /\ inflight # None
  /\ timers.retransmit_at # None /\ t >= timers.retransmit_at

RekeyNow(t) ==
  timers.rekey_due /\ inflight = None /\ initiation_allowed(timers, t)

DeadPeerNow(t) ==
  inflight = None /\ dead_peer_due(timers, t) /\ initiation_allowed(timers, t)

ConfirmNow(t) == timers.confirm_keepalive_due /\ current_usable(t)

PassiveNow(t) == passive_keepalive_due(timers, t) /\ current_usable(t)

\* What the persistent interval is counted from.
persistent_base ==
  IF timers.last_any_tx # None THEN timers.last_any_tx ELSE current.created

PersistentNow(t) ==
  /\ PersistentKeepalive # None
  /\ current_usable(t)
  /\ since(t, persistent_base) >= PersistentKeepalive

ReviveNow(t) ==
  /\ PersistentKeepalive # None
  /\ ~current_usable(t)
  /\ inflight = None
  /\ initiation_allowed(timers, t)
  /\ persistent_revive_allowed(timers, t, PersistentKeepalive)

HasWork(t) ==
  \/ DiscardDue(t) \/ RetransmitDue(t) \/ RekeyNow(t) \/ DeadPeerNow(t)
  \/ ConfirmNow(t) \/ PassiveNow(t) \/ PersistentNow(t) \/ ReviveNow(t)

\* A rekey wanted while a handshake already runs is satisfied.
timers_rekeyed ==
  [timers EXCEPT !.rekey_due = @ /\ inflight = None]

\* Mutant of timers_disarmed: what could not be sent stays armed.
timers_armed(t) == timers_rekeyed

\* Past both keepalive branches: what could not be sent is disarmed.
timers_disarmed(t) ==
  [timers_rekeyed EXCEPT
     !.confirm_keepalive_due = FALSE,
     !.last_data_rx = IF passive_keepalive_due(timers, t) THEN None ELSE @]

\* A branch that sends nothing.
PollSilent(t, tm, result) ==
  /\ next' = next_at(t)
  /\ timers' = tm
  /\ ret' = result
  /\ UNCHANGED <<macs, timestamps, previous, current, recv_rekey_done,
                 last_handshake_at>>

\* A branch that sends an initiation.
PollSend(t, wall, tm, reason) ==
  /\ next' = next_at(t)
  /\ UNCHANGED <<previous, current, recv_rekey_done, last_handshake_at>>
  /\ send_initiation(tm, next_at(t), t, wall, TRUE, reason)

PollDiscard(t) ==
  /\ DiscardDue(t)
  /\ discard_all_sessions
  /\ ret' = "SessionsExpired"

PollRetransmit(t, wall) ==
  /\ ~DiscardDue(t)
  /\ RetransmitDue(t)
  /\ \/ /\ attempt_exhausted(timers, t)
        /\ inflight' = None
        /\ PollSilent(t, note_gave_up(timers), "HandshakeExpired")
     \/ /\ ~attempt_exhausted(timers, t)
        /\ PollSend(t, wall, timers, "HandshakeRetransmit")

PollInitiate(t, wall) ==
  /\ ~DiscardDue(t) /\ ~RetransmitDue(t)
  /\ RekeyNow(t) \/ DeadPeerNow(t)
  /\ PollSend(t, wall, [timers EXCEPT !.attempt_started = None],
              "HandshakeInitiation")

HandshakesQuiet(t) ==
  ~DiscardDue(t) /\ ~RetransmitDue(t) /\ ~RekeyNow(t) /\ ~DeadPeerNow(t)

PollKeepalive(t) ==
  /\ HandshakesQuiet(t)
  /\ ConfirmNow(t) \/ PassiveNow(t)
  /\ next' = next_at(t)
  /\ send_keepalive(timers_rekeyed, t, "SendKeepalive")

PollPersistent(t) ==
  /\ HandshakesQuiet(t) /\ ~ConfirmNow(t) /\ ~PassiveNow(t)
  /\ PersistentNow(t)
  /\ next' = next_at(t)
  /\ send_keepalive(timers_rekeyed, t, "PersistentKeepalive")

PollRevive(t, wall) ==
  /\ HandshakesQuiet(t) /\ ~ConfirmNow(t) /\ ~PassiveNow(t)
  /\ ReviveNow(t)
  /\ PollSend(t, wall, [timers_disarmed(t) EXCEPT !.gave_up = FALSE,
                                                  !.attempt_started = None],
              "HandshakeInitiation")

PollIdle(t) ==
  /\ ~HasWork(t)
  /\ PollSilent(t, timers_disarmed(t), "Idle")
  /\ UNCHANGED inflight

Poll(clock, wall) ==
  LET t == clamp_now(clock) IN
  /\ last_now' = t
  /\ \/ PollDiscard(t)
     \/ PollRetransmit(t, wall)
     \/ PollInitiate(t, wall)
     \/ PollKeepalive(t)
     \/ PollPersistent(t)
     \/ PollRevive(t, wall)
     \/ PollIdle(t)

-----------------------------------------------------------------------------
(* next_wake: the earliest of seven candidates, None when none is armed. *)

plus(x, d) == IF x = None THEN None ELSE add_nanos(x, d)

pacing_at ==
  IF timers.last_initiation_tx = None THEN 0
    ELSE add_nanos(timers.last_initiation_tx, REKEY_TIMEOUT)

wake_immediate ==
  IF timers.rekey_due /\ inflight = None THEN pacing_at
    ELSE IF timers.confirm_keepalive_due THEN 0 ELSE None

wake_retransmit == IF inflight # None THEN timers.retransmit_at ELSE None

wake_dead_peer ==
  IF inflight = None /\ dead_peer_at(timers) # None
    THEN opt_max(dead_peer_at(timers), pacing_at) ELSE None

\* Mutant of wake_discard: not among the candidates.
wake_discard_forgotten == None

wake_discard ==
  plus(newest_session_created(previous, current, next), SESSION_DISCARD_TIME)

wake_next_expire ==
  IF next = None THEN None ELSE add_nanos(next.created, REJECT_AFTER_TIME)

\* Mutant of wake_persistent: any current session counts as usable.
wake_persistent_held ==
  IF PersistentKeepalive = None \/ current = None THEN None
    ELSE add_nanos(persistent_base, PersistentKeepalive)

wake_persistent ==
  IF PersistentKeepalive = None THEN None
    ELSE IF current_usable(last_now)
      THEN add_nanos(persistent_base, PersistentKeepalive)
      ELSE IF inflight # None THEN None
        ELSE IF ~timers.gave_up THEN pacing_at
          ELSE IF timers.last_initiation_tx = None THEN 0
            ELSE add_nanos(timers.last_initiation_tx, PersistentKeepalive)

next_wake ==
  opt_min(wake_immediate, opt_min(wake_retransmit, opt_min(wake_dead_peer,
    opt_min(passive_keepalive_at(timers), opt_min(wake_discard,
      opt_min(wake_next_expire, wake_persistent))))))

-----------------------------------------------------------------------------
(* The remaining methods *)

InitiateHandshake(clock, wall) ==
  LET now == clamp_now(clock) IN
  /\ last_now' = now
  /\ \/ ~initiation_allowed(timers, now) /\ Reject("HandshakeRateLimited")
     \/ /\ initiation_allowed(timers, now)
        /\ UNCHANGED <<sessions, recv_rekey_done, last_handshake_at>>
        /\ send_initiation([timers EXCEPT !.gave_up = FALSE,
                                          !.attempt_started = None],
                           next, now, wall, FALSE, "HandshakeInitiation")

\* reset takes no clock and returns nothing.
Reset ==
  /\ discard_all_sessions
  /\ ret' = "None"
  /\ UNCHANGED last_now

-----------------------------------------------------------------------------
(* Datagrams.  `fault' is the check the datagram fails (see Noise), "none"  *)
(* for a genuine one; any fault of a cookie reply or of a transport is in   *)
(* its AEAD tag.  A genuine response answers one of our ephemerals; a       *)
(* genuine cookie reply, the message that carried `mac1'.                   *)

\* Every secret the jar has drawn, for every remote; None is all zeros.
Mac2s == [secret : 0 .. cookie_jar.secret, remote : Remotes] \cup {None}

Verdicts == Faults \cup {"none"}

Initiations ==
  [ sender_index : PeerIndices, ephemeral : Ephemerals,
    timestamp : Timestamps, fault : Verdicts, mac2 : Mac2s ]

Responses ==
  [ sender_index : PeerIndices, receiver_index : Indices,
    ephemeral : Ephemerals, answers : Ephemerals, fault : Verdicts,
    mac2 : Mac2s ]

CookieReplies ==
  [ receiver_index : Indices, mac1 : Ephemerals, value : PeerCookies,
    fault : Verdicts ]

Transports ==
  [ receiver_index : Indices, counter : Counters, key : Keys,
    from_initiator : BOOLEAN, fault : Verdicts, empty : BOOLEAN ]

\* What the caller's clock may read.  Readings at or before last_now are all
\* clamped to it; 0 stands for them.
Readings == {clock \in Clock : clock > last_now} \cup {0}

Next ==
  \/ \E clock \in Readings, wall \in WallClock :
       \/ \E empty \in BOOLEAN : Encapsulate(clock, wall, empty)
       \/ Poll(clock, wall)
       \/ InitiateHandshake(clock, wall)
  \/ \E clock \in Readings, under_load \in LoadSignals, remote \in Remotes :
       \/ \E m \in Initiations :
            DecapsulateInitiation(clock, m, under_load, remote)
       \/ \E m \in Responses :
            DecapsulateResponse(clock, m, under_load, remote)
  \/ \E clock \in Readings :
       \/ \E m \in CookieReplies : DecapsulateCookieReply(clock, m)
       \/ \E m \in Transports : DecapsulateTransport(clock, m)
       \/ DecapsulateMalformed(clock)
  \/ Reset

Spec == Init /\ [][Next]_vars

-----------------------------------------------------------------------------
(* Properties *)

\* Once poll has answered Idle, next_wake lies strictly in the future: an
\* embedder that sleeps until next_wake and polls until Idle cannot spin on a
\* deadline poll does not serve (tunnel.rs:888-893 describes one such loop).
IdleNeverBusy ==
  ret = "Idle" => next_wake = None \/ next_wake > last_now

\* next_wake is no later than the first instant at which poll would do
\* something: sleeping until it never delays a retransmission, a rekey, a
\* keepalive or a discard.
NoLateWake ==
  \A t \in last_now .. (MAX_TICKS - 1) :
    HasWork(t) => next_wake # None /\ next_wake <= t

\* Initiations leave at least REKEY_TIMEOUT apart, whichever of encapsulate,
\* poll and initiate_handshake sends them and whatever is discarded or reset
\* in between (timers.rs:107 "under any circumstances"); the instant of the
\* last one is never forgotten or moved.
PacedInitiations ==
  [][ IF ret' \in {"HandshakeInitiation", "HandshakeRetransmit"}
        THEN /\ timers'.last_initiation_tx = last_now'
             /\ timers.last_initiation_tx # None =>
                  last_now' - timers.last_initiation_tx >= REKEY_TIMEOUT
        ELSE timers'.last_initiation_tx = timers.last_initiation_tx ]_vars

\* Key confirmation: a session we answered as responder reaches current or
\* previous only after an authentic transport arrived on it, and nothing was
\* sent on it before; the next slot holds only such unproven sessions.
ConfirmedByPeer ==
  /\ \A s \in {current, previous} \ {None} :
       s.confirmed /\ (~s.is_initiator => s.replay # {})
  /\ next # None =>
       /\ ~next.is_initiator /\ ~next.confirmed
       /\ next.send_counter = 0 /\ next.replay = {}

\* The receiver index of a datagram names at most one of the three sessions
\* and the handshake in flight, though slots are refilled and rotated by
\* different methods and fresh_index looks only at the moment of the draw.
IndicesDistinct ==
  /\ \A s \in {current, previous} \ {None} : ~HasIndex(next, s.local_index)
  /\ current # None => ~HasIndex(previous, current.local_index)
  /\ inflight # None => \A s \in {next, current, previous} :
                          ~HasIndex(s, inflight.local_index)

\* A handshake nobody answers is abandoned: after an Idle poll the attempt in
\* flight is no older than REKEY_ATTEMPT_TIME and one (jittered) retransmission.
AttemptBounded ==
  ret = "Idle" /\ inflight # None /\ timers.attempt_started # None =>
    last_now - timers.attempt_started
      < REKEY_ATTEMPT_TIME + REKEY_TIMEOUT + REKEY_TIMEOUT_JITTER_MAX

\* The all-zero secret of a jar not yet primed never authenticates a
\* handshake, whatever rotations, entropy failures and resets come before
\* (cookie.rs:90-91): a mac2 anyone can compute is no proof of an address.
UnprimedSecretRefused ==
  \A remote \in Remotes :
    ~verify_mac2(cookie_jar, remote, [secret |-> 0, remote |-> remote])

=============================================================================
