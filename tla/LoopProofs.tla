----------------------------- MODULE LoopProofs -----------------------------
(***************************************************************************)
(* Tunnel under its timers, the adapter around it and the loop that drives *)
(* both, for every value of the constants and every sequence of clock      *)
(* readings: initiations are paced, an attempt is bounded, a poll that     *)
(* answers Idle leaves no deadline behind, next_wake is never late, the    *)
(* adapter's queue implements PacketQueue, and the loop drains it.         *)
(*                                                                         *)
(* None of the timing properties is inductive.  PaceInv below says what    *)
(* the timers of a reachable tunnel have in common, over its handshake in  *)
(* flight, its Timers record and the last clock reading.                   *)
(***************************************************************************)
EXTENDS PollLoop, TunnelProofs

\* A retransmission is armed REKEY_TIMEOUT to REKEY_TIMEOUT plus the jitter
\* after the last initiation (or saturated), and neither that initiation nor
\* the last data received lies in the future; a handshake in flight has one
\* armed, and was last sent inside its attempt window; a tunnel that gave up
\* may send again at once.
PaceInv(fl, tm, now) ==
  /\ tm.last_initiation_tx # None => tm.last_initiation_tx <= now
  /\ tm.last_data_rx # None => tm.last_data_rx <= now
  /\ tm.retransmit_at # None =>
       /\ tm.last_initiation_tx # None
       /\ \/ tm.retransmit_at = MAX_TICKS
          \/ tm.last_initiation_tx + REKEY_TIMEOUT <= tm.retransmit_at
       /\ tm.retransmit_at
            <= tm.last_initiation_tx + REKEY_TIMEOUT + REKEY_TIMEOUT_JITTER_MAX
  /\ fl # None => tm.retransmit_at # None
  /\ fl # None /\ tm.attempt_started # None =>
       \/ tm.last_initiation_tx <= tm.attempt_started
       \/ tm.last_initiation_tx - tm.attempt_started < REKEY_ATTEMPT_TIME
  /\ fl = None /\ tm.gave_up => initiation_allowed(tm, now)

TimersPaced == PaceInv(inflight, timers, last_now)

-----------------------------------------------------------------------------
(* How the steps of the methods move PaceInv *)

\* Waiting keeps PaceInv.
LEMMA PaceWait ==
  ASSUME NEW fl, NEW tm \in Timers, NEW n1 \in Ticks, NEW n2 \in Ticks, n1 <= n2,
         PaceInv(fl, tm, n1)
  PROVE  PaceInv(fl, tm, n2)
<1>1. tm.last_initiation_tx \in OptTicks /\ tm.last_data_rx \in OptTicks
  BY DEF Timers
<1> QED
  BY <1>1, ConstTypes, PositiveAssumption
     DEF PaceInv, initiation_allowed, none_or_elapsed, since, OptTicks, Ticks

\* So does any change of the fields PaceInv does not read, or clearing gave_up.
LEMMA PaceOther ==
  ASSUME NEW fl, NEW tm, NEW tm2, NEW now, PaceInv(fl, tm, now),
         tm2.last_initiation_tx = tm.last_initiation_tx,
         tm2.last_data_rx = tm.last_data_rx,
         tm2.retransmit_at = tm.retransmit_at,
         tm2.attempt_started \in {tm.attempt_started, None},
         tm2.gave_up => tm.gave_up
  PROVE  PaceInv(fl, tm2, now)
BY DEF PaceInv, initiation_allowed

\* Where the armed retransmission lies.
LEMMA ArmedRetransmit ==
  ASSUME NEW now \in Ticks, NEW jitter \in 0 .. REKEY_TIMEOUT_JITTER_MAX
  PROVE  LET at == add_nanos(add_nanos(now, REKEY_TIMEOUT), jitter) IN
         /\ at \in Ticks
         /\ at = MAX_TICKS \/ now + REKEY_TIMEOUT <= at
         /\ at <= now + REKEY_TIMEOUT + REKEY_TIMEOUT_JITTER_MAX
BY ConstTypes DEF add_nanos, Ticks

\* send_initiation establishes PaceInv when the attempt window of `tm' is fresh
\* or not exhausted; when it fails it must hold already.
LEMMA PaceSend ==
  ASSUME NEW tm \in Timers, NEW nx, NEW now \in Ticks, NEW wall, NEW driven,
         NEW reason, send_initiation(tm, nx, now, wall, driven, reason),
         PaceInv(inflight, tm, now), ~attempt_exhausted(tm, now)
  PROVE  PaceInv(inflight', timers', now)
<1>1. CASE timers' = tm /\ UNCHANGED inflight
  BY <1>1
<1>2. ASSUME NEW index \in Indices, NEW eph \in Ephemerals,
             NEW jitter \in 0 .. REKEY_TIMEOUT_JITTER_MAX,
             inflight' = create_initiation(index, eph),
             timers' = note_initiation_tx(tm, now, jitter)
      PROVE  PaceInv(inflight', timers', now)
  <2>1. inflight' # None
    BY <1>2, SomeAssumption DEF InFlight, create_initiation
  <2> DEFINE at == add_nanos(add_nanos(now, REKEY_TIMEOUT), jitter)
  <2>2. /\ timers'.last_initiation_tx = now
        /\ timers'.last_data_rx = tm.last_data_rx
        /\ timers'.retransmit_at = at
        /\ timers'.attempt_started =
             IF tm.attempt_started = None THEN now ELSE tm.attempt_started
    BY <1>2 DEF note_initiation_tx, Timers
  <2>3. /\ at \in Ticks
        /\ at = MAX_TICKS \/ now + REKEY_TIMEOUT <= at
        /\ at <= now + REKEY_TIMEOUT + REKEY_TIMEOUT_JITTER_MAX
    BY ArmedRetransmit
  <2> HIDE DEF at
  <2>4. now # None /\ at # None
    BY <2>3, ConstTypes DEF Ticks
  <2>5. tm.attempt_started # None =>
          \/ now <= tm.attempt_started
          \/ now - tm.attempt_started < REKEY_ATTEMPT_TIME
    <3>1. tm.attempt_started \in Ticks \cup {None}
      BY DEF Timers, OptTicks
    <3> QED
      BY <3>1, ConstTypes DEF attempt_exhausted, some_elapsed, since, Ticks
  <2> QED
    BY <2>1, <2>2, <2>3, <2>4, <2>5 DEF PaceInv, Ticks
<1> QED
  BY <1>1, <1>2 DEF send_initiation, fresh_index

\* A tunnel whose Timers were reset satisfies PaceInv.
LEMMA PaceReset ==
  ASSUME TypeOK, TimersPaced, discard_all_sessions
  PROVE  PaceInv(inflight', timers', last_now)
<1>1. /\ timers'.last_initiation_tx = timers.last_initiation_tx
      /\ timers'.retransmit_at = None /\ timers'.attempt_started = None
      /\ timers'.last_data_rx = None
      /\ timers'.gave_up = FALSE /\ inflight' = None
  BY DEF discard_all_sessions, default_timers
<1> QED
  BY <1>1 DEF TimersPaced, PaceInv

\* Sending and receiving transport messages does not touch what PaceInv reads,
\* but for clearing gave_up.
LEMMA PaceNote ==
  ASSUME NEW tm \in Timers, NEW fl, NEW now \in Ticks, NEW t, NEW s,
         PaceInv(fl, tm, now)
  PROVE  /\ PaceInv(fl, note_data_tx(tm, t), now)
         /\ PaceInv(fl, note_keepalive_tx(tm, t), now)
         /\ PaceInv(fl, rekey_after_send(tm, s, t), now)
         /\ \A e \in BOOLEAN : PaceInv(fl, note_rx(tm, now, e), now)
<1>1. PaceInv(fl, note_data_tx(tm, t), now)
  BY DEF note_data_tx, Timers, PaceInv, initiation_allowed
<1>2. PaceInv(fl, note_keepalive_tx(tm, t), now)
  BY DEF note_keepalive_tx, Timers, PaceInv, initiation_allowed
<1>3. PaceInv(fl, rekey_after_send(tm, s, t), now)
  BY DEF rekey_after_send, Timers, PaceInv, initiation_allowed
<1>4. ASSUME NEW e \in BOOLEAN
      PROVE  PaceInv(fl, note_rx(tm, now, e), now)
  BY DEF note_rx, Timers, PaceInv, initiation_allowed, Ticks
<1> QED
  BY <1>1, <1>2, <1>3, <1>4

\* encapsulate: a payload while a handshake is in flight restarts its window.
LEMMA PaceEncapsulate ==
  ASSUME TypeOK, TimersPaced, NEW clock \in Readings, NEW wall \in WallClock,
         NEW empty \in BOOLEAN, Encapsulate(clock, wall, empty)
  PROVE  TimersPaced'
<1> DEFINE now == clamp_now(clock)
<1>1. now \in Ticks /\ last_now' = now /\ last_now \in Ticks /\ last_now <= now
  BY ClampType DEF Encapsulate
<1>2. timers \in Timers
  BY DEF TypeOK
<1> HIDE DEF now
<1>3. PaceInv(inflight, timers, now)
  BY <1>1, <1>2, PaceWait DEF TimersPaced
<1>4. CASE EncapsulateHandshake(now, wall)
  <2>1. CASE /\ timers' = [[timers EXCEPT !.gave_up = FALSE] EXCEPT
                              !.attempt_started = IF inflight # None THEN now ELSE @]
             /\ UNCHANGED inflight
    <3>1. /\ timers'.last_initiation_tx = timers.last_initiation_tx
          /\ timers'.last_data_rx = timers.last_data_rx
          /\ timers'.retransmit_at = timers.retransmit_at
          /\ timers'.attempt_started =
               IF inflight # None THEN now ELSE timers.attempt_started
          /\ timers'.gave_up = FALSE
      BY <1>2, <2>1 DEF Timers
    <3> QED
      BY <1>1, <1>3, <2>1, <3>1 DEF TimersPaced, PaceInv
  <2>2. CASE send_initiation([[timers EXCEPT !.gave_up = FALSE] EXCEPT
                                !.attempt_started = None], next,
                             now, wall, FALSE, "HandshakeInitiation")
    <3> DEFINE tm == [[timers EXCEPT !.gave_up = FALSE] EXCEPT
                        !.attempt_started = None]
    <3>1. /\ tm \in Timers
          /\ tm.last_initiation_tx = timers.last_initiation_tx
          /\ tm.last_data_rx = timers.last_data_rx
          /\ tm.retransmit_at = timers.retransmit_at
          /\ tm.attempt_started = None
          /\ tm.gave_up = FALSE
      BY <1>2, Zenon DEF Timers, OptTicks
    <3> HIDE DEF tm
    <3>2. PaceInv(inflight, tm, now) /\ ~attempt_exhausted(tm, now)
      BY <1>3, <3>1, PaceOther DEF attempt_exhausted, some_elapsed
    <3> QED
      BY <1>1, <2>2, <3>1, <3>2, PaceSend, Zenon DEF tm, TimersPaced
  <2> QED
    BY <1>4, <2>1, <2>2, Zenon DEF EncapsulateHandshake
<1>5. CASE EncapsulateTransport(now, empty)
  <2>1. CASE UNCHANGED timers /\ UNCHANGED inflight
    BY <1>1, <1>3, <2>1 DEF TimersPaced
  <2>2. ASSUME NEW tm \in {note_keepalive_tx(timers, now), note_data_tx(timers, now)},
               timers' = rekey_after_send(tm, next_counter(current), now),
               UNCHANGED inflight
        PROVE  TimersPaced'
    <3>1. tm \in Timers
      BY <1>1, <1>2, NoteTypes
    <3>2. PaceInv(inflight, tm, now)
      BY <1>1, <1>2, <1>3, PaceNote
    <3>3. PaceInv(inflight, timers', now)
      BY <1>1, <2>2, <3>1, <3>2, PaceNote
    <3> QED
      BY <1>1, <2>2, <3>3 DEF TimersPaced
  <2> QED
    BY <1>5, <2>1, <2>2 DEF EncapsulateTransport
<1> QED
  BY <1>4, <1>5 DEF Encapsulate, now

\* initiate_handshake opens a fresh attempt window.
LEMMA PaceInitiate ==
  ASSUME TypeOK, TimersPaced, NEW clock \in Readings, NEW wall \in WallClock,
         InitiateHandshake(clock, wall)
  PROVE  TimersPaced'
<1> DEFINE now == clamp_now(clock)
           tm == [timers EXCEPT !.gave_up = FALSE, !.attempt_started = None]
<1>1. now \in Ticks /\ last_now' = now /\ last_now \in Ticks /\ last_now <= now
  BY ClampType DEF InitiateHandshake
<1>2. timers \in Timers
  BY DEF TypeOK
<1> HIDE DEF now
<1>3. PaceInv(inflight, timers, now)
  BY <1>1, <1>2, PaceWait DEF TimersPaced
<1>4. /\ tm \in Timers
      /\ tm.last_initiation_tx = timers.last_initiation_tx
      /\ tm.last_data_rx = timers.last_data_rx
      /\ tm.retransmit_at = timers.retransmit_at
      /\ tm.attempt_started = None
      /\ tm.gave_up = FALSE
  BY <1>2, Zenon DEF Timers, OptTicks
<1> HIDE DEF tm
<1>5. CASE UNCHANGED protocol
  BY <1>1, <1>3, <1>5 DEF TimersPaced, protocol
<1>6. CASE send_initiation(tm, next, now, wall, FALSE, "HandshakeInitiation")
  <2>1. PaceInv(inflight, tm, now) /\ ~attempt_exhausted(tm, now)
    BY <1>3, <1>4, PaceOther DEF attempt_exhausted, some_elapsed
  <2> QED
    BY <1>1, <1>4, <1>6, <2>1, PaceSend, Zenon DEF TimersPaced
<1> QED
  BY <1>5, <1>6, Zenon DEF InitiateHandshake, Reject, now, tm

\* Completing a handshake leaves nothing in flight and nothing armed.
LEMMA PaceComplete ==
  ASSUME NEW tm \in Timers, NEW fl, NEW now, PaceInv(fl, tm, now)
  PROVE  PaceInv(None, note_handshake_complete(tm), now)
BY DEF note_handshake_complete, Timers, PaceInv, initiation_allowed

\* The tail of handle_transport.
LEMMA PaceReceive ==
  ASSUME NEW fl, NEW cur, NEW done, NEW tm \in Timers, NEW now \in Ticks,
         NEW m \in Transports, PaceInv(fl, tm, now),
         ReceivePath(cur, done, tm, now, m)
  PROVE  PaceInv(fl, timers', now)
<1>1. PICK f \in BOOLEAN :
        timers' = note_rx([tm EXCEPT !.rekey_due = @ \/ f], now, m.empty)
  BY Zenon DEF ReceivePath
<1> DEFINE tm2 == [tm EXCEPT !.rekey_due = @ \/ f]
<1>2. tm2 \in Timers
  BY DEF Timers
<1>3. PaceInv(fl, tm2, now)
  BY DEF Timers, PaceInv, initiation_allowed
<1>4. m.empty \in BOOLEAN
  BY DEF Transports
<1> HIDE DEF tm2
<1> QED
  BY <1>1, <1>2, <1>3, <1>4, PaceNote DEF tm2

\* decapsulate: a datagram never arms anything; a completed handshake disarms.
LEMMA PaceDecapsulate ==
  ASSUME TypeOK, TimersPaced, NEW clock \in Readings,
         \/ \E m \in Initiations, under_load \in LoadSignals, remote \in Remotes :
              DecapsulateInitiation(clock, m, under_load, remote)
         \/ \E m \in Responses, under_load \in LoadSignals, remote \in Remotes :
              DecapsulateResponse(clock, m, under_load, remote)
         \/ \E m \in CookieReplies : DecapsulateCookieReply(clock, m)
         \/ \E m \in Transports : DecapsulateTransport(clock, m)
         \/ DecapsulateMalformed(clock)
  PROVE  TimersPaced'
<1> DEFINE now == clamp_now(clock)
<1>1. now \in Ticks /\ last_now' = now /\ last_now \in Ticks /\ last_now <= now
  BY ClampType, Zenon DEF DecapsulateInitiation, DecapsulateResponse,
       DecapsulateCookieReply, DecapsulateTransport, DecapsulateMalformed
<1>2. timers \in Timers
  BY DEF TypeOK
<1> HIDE DEF now
<1>3. PaceInv(inflight, timers, now)
  BY <1>1, <1>2, PaceWait DEF TimersPaced
<1>4. CASE UNCHANGED <<inflight, timers>>
  BY <1>1, <1>3, <1>4 DEF TimersPaced
<1>5. CASE UNCHANGED protocol
  BY <1>4, <1>5 DEF protocol
<1>6. ASSUME NEW m, CompleteHandshake(m, now)
      PROVE  TimersPaced'
  <2>1. PaceInv(None, note_handshake_complete(timers), now)
    BY <1>2, <1>3, PaceComplete
  <2>2. note_handshake_complete(timers) \in Timers
    BY <1>1, <1>2, NoteTypes
  <2>3. inflight' = None /\ timers' = [note_handshake_complete(timers) EXCEPT
                                         !.confirm_keepalive_due = TRUE]
    BY <1>6 DEF CompleteHandshake
  <2>4. PaceInv(None, timers', now)
    BY <2>1, <2>2, <2>3 DEF Timers, PaceInv, initiation_allowed
  <2> QED
    BY <1>1, <2>3, <2>4 DEF TimersPaced
<1>7. ASSUME NEW m \in Transports, NEW s, PromoteNext(s, m, now)
      PROVE  TimersPaced'
  <2>1. PaceInv(None, note_handshake_complete(timers), now)
    BY <1>2, <1>3, PaceComplete
  <2>2. note_handshake_complete(timers) \in Timers
    BY <1>1, <1>2, NoteTypes
  <2> QED
    BY <1>1, <1>7, <2>1, <2>2, PaceReceive, Zenon DEF PromoteNext, TimersPaced
<1>8. ASSUME NEW m \in Transports, NEW s, AcceptInPlace(s, m, now)
      PROVE  TimersPaced'
  <2>1. UNCHANGED inflight /\ PaceInv(inflight, timers', now)
    BY <1>1, <1>2, <1>3, <1>8, PaceReceive DEF AcceptInPlace
  <2> QED
    BY <1>1, <2>1 DEF TimersPaced
<1>9. CASE \E m \in Initiations, under_load \in LoadSignals, remote \in Remotes :
             DecapsulateInitiation(clock, m, under_load, remote)
  BY <1>4, <1>5, <1>9, Zenon DEF DecapsulateInitiation, RespondTo, Reject
<1>10. CASE \E m \in Responses, under_load \in LoadSignals, remote \in Remotes :
              DecapsulateResponse(clock, m, under_load, remote)
  BY <1>4, <1>5, <1>6, <1>10 DEF DecapsulateResponse, Reject, now
<1>11. CASE \E m \in Transports : DecapsulateTransport(clock, m)
  BY <1>5, <1>7, <1>8, <1>11 DEF DecapsulateTransport, Reject, now
<1>12. CASE \/ \E m \in CookieReplies : DecapsulateCookieReply(clock, m)
            \/ DecapsulateMalformed(clock)
  BY <1>4, <1>5, <1>12 DEF DecapsulateCookieReply, DecapsulateMalformed, Reject
<1> QED
  BY <1>9, <1>10, <1>11, <1>12

\* The adjustments poll makes to the timers on its way.
LEMMA PaceAdjust ==
  ASSUME TypeOK, NEW t \in Ticks, PaceInv(inflight, timers, t)
  PROVE  /\ PaceInv(inflight, timers_rekeyed, t)
         /\ PaceInv(inflight, timers_disarmed(t), t)
         /\ PaceInv(inflight, [timers EXCEPT !.attempt_started = None], t)
         /\ PaceInv(inflight, [timers_disarmed(t) EXCEPT !.gave_up = FALSE,
                                                         !.attempt_started = None], t)
<1>1. timers \in Timers /\ timers_rekeyed \in Timers /\ timers_disarmed(t) \in Timers
  BY PollTimersType DEF TypeOK
<1>2. PaceInv(inflight, timers_rekeyed, t)
  BY <1>1 DEF timers_rekeyed, Timers, PaceInv, initiation_allowed
<1>3. PaceInv(inflight, timers_disarmed(t), t)
  BY <1>1, <1>2 DEF timers_disarmed, Timers, PaceInv, initiation_allowed
<1>4. PaceInv(inflight, [timers EXCEPT !.attempt_started = None], t)
  BY <1>1 DEF Timers, PaceInv, initiation_allowed
<1>5. PaceInv(inflight, [timers_disarmed(t) EXCEPT !.gave_up = FALSE,
                                                   !.attempt_started = None], t)
  BY <1>1, <1>3 DEF Timers, PaceInv, initiation_allowed
<1> QED
  BY <1>2, <1>3, <1>4, <1>5

\* A retransmission falls due only when an initiation may be sent: the deadline
\* lies REKEY_TIMEOUT after the last one, and the clock is below saturation.
LEMMA RetransmitPaced ==
  ASSUME TypeOK, NEW t \in 0 .. (MAX_TICKS - 1), PaceInv(inflight, timers, t),
         RetransmitDue(t)
  PROVE  initiation_allowed(timers, t)
<1>1. /\ timers.last_initiation_tx \in Ticks \cup {None}
      /\ timers.retransmit_at \in Ticks \cup {None}
  BY DEF TypeOK, Timers, OptTicks
<1> QED
  BY <1>1, ConstTypes
     DEF RetransmitDue, PaceInv, initiation_allowed, none_or_elapsed, since, Ticks

\* poll keeps the timers paced, whichever branch it takes.
LEMMA PacePoll ==
  ASSUME TypeOK, TimersPaced, NEW clock \in 0 .. (MAX_TICKS - 1),
         NEW wall \in WallClock, Poll(clock, wall)
  PROVE  TimersPaced'
<1> DEFINE t == clamp_now(clock)
<1>1. /\ t \in Ticks /\ last_now' = t /\ last_now \in Ticks /\ last_now <= t
      /\ t \in 0 .. (MAX_TICKS - 1)
  BY ClampBelow DEF Poll
<1>2. timers \in Timers
  BY DEF TypeOK
<1> HIDE DEF t
<1>3. PaceInv(inflight, timers, t)
  BY <1>1, <1>2, PaceWait DEF TimersPaced
<1>4. CASE PollDiscard(t)
  <2>1. PaceInv(inflight', timers', last_now) /\ timers' \in Timers
    BY <1>1, <1>4, PaceReset, DiscardType, Zenon DEF PollDiscard, discard_all_sessions,
       TypeOK, default_timers, Timers, OptTicks
  <2> QED
    BY <1>1, <2>1, PaceWait, Zenon DEF TimersPaced
<1>5. ASSUME NEW tm \in Timers, NEW reason, PollSend(t, wall, tm, reason),
             PaceInv(inflight, tm, t), ~attempt_exhausted(tm, t)
      PROVE  TimersPaced'
  BY <1>1, <1>5, PaceSend, Zenon DEF PollSend, TimersPaced
<1>6. CASE PollRetransmit(t, wall)
  <2>1. CASE inflight' = None /\ PollSilent(t, note_gave_up(timers), "HandshakeExpired")
    <3>1. initiation_allowed(timers, t)
      BY <1>1, <1>3, <1>6, RetransmitPaced DEF PollRetransmit
    <3>2. PaceInv(None, note_gave_up(timers), t)
      BY <1>2, <1>3, <3>1 DEF note_gave_up, Timers, PaceInv, initiation_allowed
    <3> QED
      BY <1>1, <2>1, <3>2 DEF PollSilent, TimersPaced
  <2>2. CASE ~attempt_exhausted(timers, t) /\
             PollSend(t, wall, timers, "HandshakeRetransmit")
    BY <1>2, <1>3, <1>5, <2>2
  <2> QED
    BY <1>6, <2>1, <2>2 DEF PollRetransmit
<1>7. CASE PollInitiate(t, wall)
  <2> DEFINE tm == [timers EXCEPT !.attempt_started = None]
  <2>1. tm \in Timers /\ PaceInv(inflight, tm, t)
    BY <1>1, <1>3, PaceAdjust, PollTimersType, Zenon
  <2>2. ~attempt_exhausted(tm, t)
    BY <1>2 DEF attempt_exhausted, some_elapsed, Timers
  <2> QED
    BY <1>5, <1>7, <2>1, <2>2, Zenon DEF PollInitiate
<1>8. CASE PollRevive(t, wall)
  <2> DEFINE tm == [timers_disarmed(t) EXCEPT !.gave_up = FALSE,
                                              !.attempt_started = None]
  <2>1. tm \in Timers /\ PaceInv(inflight, tm, t)
    BY <1>1, <1>3, PaceAdjust, PollTimersType, Zenon
  <2>2. ~attempt_exhausted(tm, t)
    BY <1>1, PollTimersType, Zenon DEF attempt_exhausted, some_elapsed, Timers
  <2> QED
    BY <1>5, <1>8, <2>1, <2>2, Zenon DEF PollRevive
<1>9. ASSUME NEW reason, send_keepalive(timers_rekeyed, t, reason)
      PROVE  TimersPaced'
  <2>1. timers_rekeyed \in Timers /\ PaceInv(inflight, timers_rekeyed, t)
    BY <1>1, <1>3, PaceAdjust, PollTimersType, Zenon
  <2>2. /\ note_keepalive_tx(timers_rekeyed, t) \in Timers
        /\ PaceInv(inflight, note_keepalive_tx(timers_rekeyed, t), t)
    BY <1>1, <2>1, NoteTypes, PaceNote
  <2>3. PaceInv(inflight, timers', t)
    BY <1>1, <1>9, <2>1, <2>2, PaceNote, Zenon DEF send_keepalive
  <2> QED
    BY <1>1, <1>9, <2>3, Zenon DEF send_keepalive, TimersPaced
<1>10. CASE PollIdle(t)
  BY <1>1, <1>3, <1>10, PaceAdjust, Zenon DEF PollIdle, PollSilent, TimersPaced
<1> QED
  BY <1>4, <1>6, <1>7, <1>8, <1>9, <1>10 DEF Poll, PollKeepalive, PollPersistent, t

\* Every method keeps the timers paced.
LEMMA PaceStep ==
  ASSUME TypeOK, TimersPaced, [Next]_vars
  PROVE  TimersPaced'
<1>1. CASE UNCHANGED vars
  BY <1>1 DEF vars, protocol, TimersPaced
<1>2. CASE Reset
  BY <1>2, PaceReset DEF Reset, TimersPaced
<1>3. ASSUME NEW clock \in Readings, NEW wall \in WallClock,
             \/ \E empty \in BOOLEAN : Encapsulate(clock, wall, empty)
             \/ Poll(clock, wall)
             \/ InitiateHandshake(clock, wall)
      PROVE  TimersPaced'
  BY <1>3, ReadingsBelow, PaceEncapsulate, PacePoll, PaceInitiate
<1> QED
  BY <1>1, <1>2, <1>3, PaceDecapsulate DEF Next

\* A new tunnel has sent and received nothing.
LEMMA PaceStart == Init => TimersPaced
BY DEF Init, TimersPaced, PaceInv, default_timers

\* Every reachable tunnel satisfies PaceInv.
THEOREM AlwaysPaced == Spec => []TimersPaced
BY PaceStart, PaceStep, TypeCorrect, PTL DEF Spec

-----------------------------------------------------------------------------
(* Pacing *)

\* The results that carry an initiation.
Sent == {"HandshakeInitiation", "HandshakeRetransmit"}

\* One step of PacedInitiations.
PacedStep ==
  IF ret' \in Sent
    THEN /\ timers'.last_initiation_tx = last_now'
         /\ timers.last_initiation_tx # None =>
              last_now' - timers.last_initiation_tx >= REKEY_TIMEOUT
    ELSE timers'.last_initiation_tx = timers.last_initiation_tx

\* An initiation sent when initiation_allowed keeps the pace.
LEMMA SendPaced ==
  ASSUME TypeOK, NEW tm \in Timers, NEW nx, NEW now \in Ticks, NEW wall, NEW driven,
         NEW reason \in Sent, send_initiation(tm, nx, now, wall, driven, reason),
         last_now' = now, initiation_allowed(timers, now),
         tm.last_initiation_tx = timers.last_initiation_tx
  PROVE  PacedStep
<1>1. \/ ret' \in LocalErrors /\ timers' = tm
      \/ ret' = reason /\ timers'.last_initiation_tx = now
  BY Zenon DEF send_initiation, note_initiation_tx, Timers
<1>2. timers.last_initiation_tx \in Ticks \cup {None}
  BY DEF TypeOK, Timers, OptTicks
<1> QED
  BY <1>1, <1>2, ConstTypes, PositiveAssumption
     DEF PacedStep, Sent, LocalErrors, initiation_allowed, none_or_elapsed, since, Ticks

\* Sending, receiving and completing do not touch the last initiation.
LEMMA LastInitiationKept ==
  ASSUME NEW tm \in Timers, NEW now, NEW s
  PROVE  /\ note_data_tx(tm, now).last_initiation_tx = tm.last_initiation_tx
         /\ note_keepalive_tx(tm, now).last_initiation_tx = tm.last_initiation_tx
         /\ rekey_after_send(tm, s, now).last_initiation_tx = tm.last_initiation_tx
         /\ note_handshake_complete(tm).last_initiation_tx = tm.last_initiation_tx
         /\ note_gave_up(tm).last_initiation_tx = tm.last_initiation_tx
BY DEF note_data_tx, note_keepalive_tx, rekey_after_send, note_handshake_complete,
       note_gave_up, Timers

\* So does the Rekey-After rule, by itself.
LEMMA RekeyKeepsInitiation ==
  ASSUME NEW tm \in Timers, NEW now, NEW s
  PROVE  rekey_after_send(tm, s, now).last_initiation_tx = tm.last_initiation_tx
BY DEF rekey_after_send, Timers

\* encapsulate checks the pace itself.
LEMMA EncapsulatePaced ==
  ASSUME TypeOK, NEW clock \in Readings, NEW wall, NEW empty,
         Encapsulate(clock, wall, empty)
  PROVE  PacedStep
<1> DEFINE now == clamp_now(clock)
           tm == [[timers EXCEPT !.gave_up = FALSE] EXCEPT !.attempt_started = None]
<1>1. now \in Ticks /\ last_now' = now
  BY ClampType DEF Encapsulate
<1>2. timers \in Timers
  BY DEF TypeOK
<1>3. tm \in Timers /\ tm.last_initiation_tx = timers.last_initiation_tx
  BY <1>2, Zenon DEF Timers, OptTicks
<1> HIDE DEF now
<1>4. CASE /\ ret' = "NotEstablished"
           /\ timers' = [[timers EXCEPT !.gave_up = FALSE] EXCEPT
                           !.attempt_started = IF inflight # None THEN now ELSE @]
  BY <1>2, <1>4 DEF PacedStep, Sent, Timers
<1>5. CASE /\ initiation_allowed(timers, now)
           /\ send_initiation(tm, next, now, wall, FALSE, "HandshakeInitiation")
  BY <1>1, <1>3, <1>5, SendPaced, Zenon DEF Sent
<1>6. CASE EncapsulateTransport(now, empty)
  <2> DEFINE noted == IF empty THEN note_keepalive_tx(timers, now)
                               ELSE note_data_tx(timers, now)
             after == rekey_after_send(noted, next_counter(current), now)
  <2>1. noted \in Timers
    BY <1>1, <1>2, NoteTypes
  <2>2. noted.last_initiation_tx = timers.last_initiation_tx
    BY <1>2, LastInitiationKept
  <2> HIDE DEF noted
  <2>3. after.last_initiation_tx = timers.last_initiation_tx
    BY <2>1, <2>2, RekeyKeepsInitiation
  <2>4. timers' = timers \/ timers' = after
    BY <1>6 DEF EncapsulateTransport, noted
  <2> HIDE DEF after
  <2>5. timers'.last_initiation_tx = timers.last_initiation_tx
    BY <2>3, <2>4
  <2> QED
    BY <1>6, <2>5 DEF PacedStep, Sent, EncapsulateTransport
<1> QED
  BY <1>4, <1>5, <1>6, Zenon DEF Encapsulate, EncapsulateHandshake, now

\* So does initiate_handshake.
LEMMA InitiatePaced ==
  ASSUME TypeOK, NEW clock \in Readings, NEW wall, InitiateHandshake(clock, wall)
  PROVE  PacedStep
<1> DEFINE now == clamp_now(clock)
           tm == [timers EXCEPT !.gave_up = FALSE, !.attempt_started = None]
<1>1. now \in Ticks /\ last_now' = now
  BY ClampType DEF InitiateHandshake
<1>2. tm \in Timers /\ tm.last_initiation_tx = timers.last_initiation_tx
  BY <1>1, PollTimersType, Zenon DEF TypeOK, Timers
<1> HIDE DEF now, tm
<1>3. CASE Reject("HandshakeRateLimited")
  BY <1>3 DEF Reject, protocol, PacedStep, Sent
<1>4. CASE /\ initiation_allowed(timers, now)
           /\ send_initiation(tm, next, now, wall, FALSE, "HandshakeInitiation")
  BY <1>1, <1>2, <1>4, SendPaced, Zenon DEF Sent
<1> QED
  BY <1>3, <1>4, Zenon DEF InitiateHandshake, now, tm

\* poll checks the pace in every branch but the retransmission, whose deadline
\* implies it.
LEMMA PollPaced ==
  ASSUME TypeOK, TimersPaced, NEW clock \in 0 .. (MAX_TICKS - 1), NEW wall,
         Poll(clock, wall)
  PROVE  PacedStep
<1> DEFINE t == clamp_now(clock)
<1>1. /\ t \in Ticks /\ last_now' = t /\ last_now \in Ticks /\ last_now <= t
      /\ t \in 0 .. (MAX_TICKS - 1)
  BY ClampBelow DEF Poll
<1>2. timers \in Timers /\ timers_rekeyed \in Timers /\ timers_disarmed(t) \in Timers
  BY <1>1, PollTimersType, Zenon DEF TypeOK
<1>3. /\ timers_rekeyed.last_initiation_tx = timers.last_initiation_tx
      /\ timers_disarmed(t).last_initiation_tx = timers.last_initiation_tx
  BY <1>2 DEF timers_rekeyed, timers_disarmed, Timers
<1> HIDE DEF t
<1>4. PaceInv(inflight, timers, t)
  BY <1>1, <1>2, PaceWait DEF TimersPaced
<1>5. CASE /\ timers'.last_initiation_tx = timers.last_initiation_tx
           /\ ret' \notin Sent
  BY <1>5, Zenon DEF PacedStep
<1>6. ASSUME NEW tm \in Timers, NEW reason \in Sent, PollSend(t, wall, tm, reason),
             tm.last_initiation_tx = timers.last_initiation_tx,
             initiation_allowed(timers, t)
      PROVE  PacedStep
  BY <1>1, <1>6, SendPaced, Zenon DEF PollSend
<1>7. CASE PollDiscard(t)
  BY <1>5, <1>7 DEF PollDiscard, discard_all_sessions, default_timers, Sent
<1>8. CASE PollRetransmit(t, wall)
  <2>1. initiation_allowed(timers, t)
    BY <1>1, <1>4, <1>8, RetransmitPaced DEF PollRetransmit
  <2> QED
    BY <1>2, <1>5, <1>6, <1>8, <2>1, LastInitiationKept, Zenon
       DEF PollRetransmit, PollSilent, Sent
<1>9. CASE PollInitiate(t, wall)
  <2> DEFINE tm == [timers EXCEPT !.attempt_started = None]
  <2>1. tm \in Timers /\ tm.last_initiation_tx = timers.last_initiation_tx
    BY <1>2 DEF Timers, OptTicks
  <2> QED
    BY <1>6, <1>9, <2>1, Zenon DEF PollInitiate, RekeyNow, DeadPeerNow, Sent
<1>10. CASE PollRevive(t, wall)
  <2> DEFINE tm == [timers_disarmed(t) EXCEPT !.gave_up = FALSE,
                                              !.attempt_started = None]
  <2>1. tm \in Timers /\ tm.last_initiation_tx = timers.last_initiation_tx
    <3>1. tm \in Timers
      BY <1>1, PollTimersType, Zenon
    <3>2. tm.last_initiation_tx = timers_disarmed(t).last_initiation_tx
      BY <1>2 DEF Timers
    <3> QED
      BY <1>3, <3>1, <3>2
  <2> QED
    BY <1>6, <1>10, <2>1, Zenon DEF PollRevive, ReviveNow, Sent
<1>11. ASSUME NEW reason \in {"SendKeepalive", "PersistentKeepalive"},
              send_keepalive(timers_rekeyed, t, reason)
       PROVE  PacedStep
  <2> DEFINE noted == note_keepalive_tx(timers_rekeyed, t)
             after == rekey_after_send(noted, next_counter(current), t)
  <2>1. noted \in Timers
    BY <1>1, <1>2, NoteTypes
  <2>2. noted.last_initiation_tx = timers.last_initiation_tx
    BY <1>2, <1>3, LastInitiationKept
  <2> HIDE DEF noted
  <2>3. after.last_initiation_tx = timers.last_initiation_tx
    BY <2>1, <2>2, RekeyKeepsInitiation
  <2>4. /\ timers' = timers_rekeyed \/ timers' = after
        /\ ret' = "BufferTooSmall" \/ ret' = reason
    BY <1>11 DEF send_keepalive, noted
  <2> HIDE DEF after
  <2>5. timers'.last_initiation_tx = timers.last_initiation_tx
    BY <1>3, <2>3, <2>4
  <2>6. ret' \notin Sent
    BY <1>11, <2>4 DEF Sent
  <2> QED
    BY <1>5, <2>5, <2>6
<1>12. CASE PollIdle(t)
  BY <1>3, <1>5, <1>12 DEF PollIdle, PollSilent, Sent
<1> QED
  BY <1>7, <1>8, <1>9, <1>10, <1>11, <1>12
     DEF Poll, PollKeepalive, PollPersistent, t

\* A datagram never sends an initiation.
LEMMA DecapsulatePaced ==
  ASSUME TypeOK, NEW clock \in Readings,
         \/ \E m \in Initiations, under_load \in LoadSignals, remote \in Remotes :
              DecapsulateInitiation(clock, m, under_load, remote)
         \/ \E m \in Responses, under_load \in LoadSignals, remote \in Remotes :
              DecapsulateResponse(clock, m, under_load, remote)
         \/ \E m \in CookieReplies : DecapsulateCookieReply(clock, m)
         \/ \E m \in Transports : DecapsulateTransport(clock, m)
         \/ DecapsulateMalformed(clock)
  PROVE  PacedStep
<1>1. timers \in Timers /\ note_handshake_complete(timers) \in Timers
  BY ClampType, NoteTypes DEF TypeOK
<1>2. CASE /\ UNCHANGED timers \/ UNCHANGED protocol
           /\ ret' \notin Sent
  BY <1>2 DEF PacedStep, protocol
<1>3. ASSUME NEW m, NEW now, CompleteHandshake(m, now)
      PROVE  PacedStep
  BY <1>1, <1>3 DEF CompleteHandshake, note_handshake_complete, PacedStep, Sent, Timers
<1>4. ASSUME NEW tm \in {timers, note_handshake_complete(timers)}, NEW cur,
             NEW done, NEW now, NEW m, ReceivePath(cur, done, tm, now, m)
      PROVE  PacedStep
  <2>1. tm \in Timers /\ tm.last_initiation_tx = timers.last_initiation_tx
    BY <1>1, LastInitiationKept, Zenon
  <2> QED
    BY <1>4, <2>1 DEF ReceivePath, note_rx, PacedStep, Sent, Timers
<1>5. CASE \E m \in Initiations, under_load \in LoadSignals, remote \in Remotes :
             DecapsulateInitiation(clock, m, under_load, remote)
  BY <1>2, <1>5, Verdict, Zenon DEF DecapsulateInitiation, RespondTo, Reject, build_cookie_reply,
     LocalErrors, Sent
<1>6. CASE \E m \in Responses, under_load \in LoadSignals, remote \in Remotes :
             DecapsulateResponse(clock, m, under_load, remote)
  BY <1>2, <1>3, <1>6, Zenon DEF DecapsulateResponse, Reject, build_cookie_reply, Sent
<1>7. CASE \E m \in Transports : DecapsulateTransport(clock, m)
  BY <1>2, <1>4, <1>7, Zenon DEF DecapsulateTransport, PromoteNext, AcceptInPlace, Reject,
     Sent
<1>8. CASE \/ \E m \in CookieReplies : DecapsulateCookieReply(clock, m)
           \/ DecapsulateMalformed(clock)
  BY <1>2, <1>8 DEF DecapsulateCookieReply, DecapsulateMalformed, Reject, Sent
<1> QED
  BY <1>5, <1>6, <1>7, <1>8

\* Initiations leave at least REKEY_TIMEOUT apart "under any circumstances"
\* (timers.rs:107): for every schedule of calls, jitter, reset and discard.
THEOREM InitiationsPaced == Spec => PacedInitiations
<1>1. ASSUME TypeOK, TimersPaced, [Next]_vars
      PROVE  [PacedStep]_vars
  <2>1. CASE Reset
    BY <2>1 DEF Reset, discard_all_sessions, default_timers, PacedStep, Sent
  <2>2. ASSUME NEW clock \in Readings, NEW wall \in WallClock,
               \/ \E empty \in BOOLEAN : Encapsulate(clock, wall, empty)
               \/ Poll(clock, wall)
               \/ InitiateHandshake(clock, wall)
        PROVE  PacedStep
    BY <1>1, <2>2, ReadingsBelow, EncapsulatePaced, PollPaced, InitiatePaced
  <2> QED
    BY <1>1, <2>1, <2>2, DecapsulatePaced DEF Next
<1> QED
  BY <1>1, TypeCorrect, AlwaysPaced, PTL DEF Spec, PacedInitiations, PacedStep, Sent

-----------------------------------------------------------------------------
(* What an Idle poll leaves behind *)

\* Only poll answers Idle, and only when it has no work.
LEMMA IdleFromPoll ==
  ASSUME Next, ret' = "Idle"
  PROVE  \E clock \in Readings : last_now' = clamp_now(clock)
                                 /\ PollIdle(clamp_now(clock))
<1>1. ASSUME NEW tm, NEW nx, NEW now, NEW wall, NEW driven \in BOOLEAN,
             send_initiation(tm, nx, now, wall, driven, "HandshakeInitiation")
      PROVE  FALSE
  BY <1>1 DEF send_initiation, LocalErrors
<1>2. ASSUME NEW t, NEW wall, NEW tm, NEW reason \in {"HandshakeInitiation",
             "HandshakeRetransmit"}, PollSend(t, wall, tm, reason)
      PROVE  FALSE
  BY <1>2 DEF PollSend, send_initiation, LocalErrors
<1>3. ASSUME NEW clock \in Readings, NEW wall, Poll(clock, wall)
      PROVE  PollIdle(clamp_now(clock)) /\ last_now' = clamp_now(clock)
  BY <1>2, <1>3 DEF Poll, PollDiscard, PollRetransmit, PollInitiate,
     PollKeepalive, PollPersistent, PollRevive, PollSilent, send_keepalive
<1>4. ASSUME NEW clock, NEW wall, NEW empty, Encapsulate(clock, wall, empty)
      PROVE  FALSE
  BY <1>1, <1>4, Zenon DEF Encapsulate, EncapsulateHandshake, EncapsulateTransport
<1>5. ASSUME NEW clock, NEW wall, InitiateHandshake(clock, wall)
      PROVE  FALSE
  BY <1>1, <1>5, Zenon DEF InitiateHandshake, Reject
<1>6. ASSUME NEW clock, NEW m, NEW under_load, NEW remote,
             \/ DecapsulateInitiation(clock, m, under_load, remote)
             \/ DecapsulateResponse(clock, m, under_load, remote)
      PROVE  FALSE
  BY <1>6, Verdict DEF DecapsulateInitiation, DecapsulateResponse, RespondTo,
     CompleteHandshake, build_cookie_reply, Reject, LocalErrors
<1>7. ASSUME NEW clock, NEW m, \/ DecapsulateCookieReply(clock, m)
                               \/ DecapsulateTransport(clock, m)
                               \/ DecapsulateMalformed(clock)
      PROVE  FALSE
  BY <1>7 DEF DecapsulateCookieReply, DecapsulateTransport, DecapsulateMalformed,
     PromoteNext, AcceptInPlace, ReceivePath, Reject
<1> QED
  BY <1>3, <1>4, <1>5, <1>6, <1>7 DEF Next, Reset

\* After an Idle poll the attempt in flight is younger than REKEY_ATTEMPT_TIME
\* and one jittered retransmission: a handshake nobody answers is abandoned.
THEOREM AttemptsEnd == Spec => []AttemptBounded
<1>1. Init => AttemptBounded
  BY DEF Init, AttemptBounded
<1>2. ASSUME TypeOK, TimersPaced, TimersPaced', TypeOK', AttemptBounded, [Next]_vars
      PROVE  AttemptBounded'
  <2>1. CASE UNCHANGED vars
    BY <1>2, <2>1 DEF vars, protocol, AttemptBounded
  <2>2. CASE Next /\ ret' = "Idle" /\ inflight' # None /\ timers'.attempt_started # None
    <3>1. PICK clock \in Readings : last_now' = clamp_now(clock)
                                    /\ PollIdle(clamp_now(clock))
      BY <2>2, IdleFromPoll
    <3> DEFINE t == clamp_now(clock)
    <3>2. t \in Ticks
      BY <1>2, ClampType
    <3> HIDE DEF t
    <3>3. inflight' = inflight /\ timers' = timers_disarmed(t) /\ ~RetransmitDue(t)
            /\ last_now' = t
      BY <3>1 DEF PollIdle, PollSilent, HasWork, t
    <3>4. timers'.retransmit_at = timers.retransmit_at
      BY <1>2, <3>3, Zenon DEF timers_disarmed, timers_rekeyed, TypeOK, Timers
    <3>5. timers'.retransmit_at # None /\ t < timers'.retransmit_at
      <4>1. timers.retransmit_at \in Ticks \cup {None}
        BY <1>2, Zenon DEF TypeOK, Timers, OptTicks
      <4> QED
        BY <1>2, <2>2, <3>2, <3>3, <3>4, <4>1
           DEF RetransmitDue, TimersPaced, PaceInv, Ticks
    <3>6. /\ timers'.retransmit_at \in Ticks \cup {None}
          /\ timers'.last_initiation_tx \in Ticks \cup {None}
          /\ timers'.attempt_started \in Ticks \cup {None}
      BY <1>2 DEF TypeOK, Timers, OptTicks
    <3>7. /\ timers'.last_initiation_tx # None
          /\ timers'.retransmit_at <= timers'.last_initiation_tx + REKEY_TIMEOUT
                                        + REKEY_TIMEOUT_JITTER_MAX
          /\ \/ timers'.last_initiation_tx <= timers'.attempt_started
             \/ timers'.last_initiation_tx - timers'.attempt_started
                  < REKEY_ATTEMPT_TIME
      BY <1>2, <2>2, <3>5 DEF TimersPaced, PaceInv
    <3> QED
      BY <2>2, <3>2, <3>3, <3>5, <3>6, <3>7, ConstTypes DEF AttemptBounded, Ticks
  <2> QED
    BY <1>2, <2>1, <2>2 DEF AttemptBounded
<1> QED
  BY <1>1, <1>2, TypeCorrect, AlwaysPaced, PTL DEF Spec

\* The state an Idle poll leaves: no work, and nothing stale.
IdleState ==
  /\ ~HasWork(last_now)
  /\ next # None => age(next, last_now) < REJECT_AFTER_TIME
  /\ ~timers.confirm_keepalive_due
  /\ ~passive_keepalive_due(timers, last_now)

\* An Idle poll clears what it cannot serve and leaves the rest as it was.
LEMMA PollIdleState ==
  ASSUME TypeOK, NEW t \in Ticks, PollIdle(t), last_now' = t
  PROVE  IdleState'
<1>1. /\ ~HasWork(t)
      /\ next' = next_at(t) /\ timers' = timers_disarmed(t)
      /\ UNCHANGED <<inflight, previous, current>>
  BY DEF PollIdle, PollSilent
<1>2. timers \in Timers
  BY DEF TypeOK
<1>3. /\ timers'.last_data_tx = timers.last_data_tx
      /\ timers'.last_data_rx =
           IF passive_keepalive_due(timers, t) THEN None ELSE timers.last_data_rx
      /\ timers'.last_any_tx = timers.last_any_tx
      /\ timers'.last_any_rx = timers.last_any_rx
      /\ timers'.retransmit_at = timers.retransmit_at
      /\ timers'.last_initiation_tx = timers.last_initiation_tx
      /\ timers'.rekey_due => timers.rekey_due
      /\ timers'.confirm_keepalive_due = FALSE
      /\ timers'.gave_up = timers.gave_up
  BY <1>1, <1>2 DEF timers_disarmed, timers_rekeyed, Timers
<1>4. next_at(t)' = next_at(t) /\ DiscardDue(t)' = DiscardDue(t)
  BY <1>1, Zenon DEF next_at, DiscardDue
<1>5. ~RetransmitDue(t)' /\ ~RekeyNow(t)' /\ ~DeadPeerNow(t)'
  BY <1>1, <1>3, Zenon DEF HasWork, RetransmitDue, RekeyNow, DeadPeerNow,
     initiation_allowed, dead_peer_due, tx_unanswered
<1>6. ~passive_keepalive_due(timers', t)
  BY <1>3 DEF passive_keepalive_due, rx_unanswered
<1>7. current_usable(t)' = current_usable(t)
  BY <1>1 DEF current_usable
<1>8. ~ConfirmNow(t)' /\ ~PassiveNow(t)'
  BY <1>3, <1>6, Zenon DEF ConfirmNow, PassiveNow
<1>9. ~PersistentNow(t)'
  BY <1>1, <1>3, <1>7, Zenon DEF HasWork, PersistentNow, persistent_base
<1>10. ~ReviveNow(t)'
  BY <1>1, <1>3, <1>7, Zenon DEF HasWork, ReviveNow, initiation_allowed,
     persistent_revive_allowed
<1>11. ~HasWork(t)'
  BY <1>1, <1>4, <1>5, <1>8, <1>9, <1>10 DEF HasWork
<1>12. next' # None => age(next', t) < REJECT_AFTER_TIME
  <2>1. next' # None => next' = next /\ next \in Sessions
                          /\ ~(age(next, t) >= REJECT_AFTER_TIME)
    BY <1>1 DEF next_at, TypeOK
  <2>2. next' # None => next.created \in Ticks
    BY <2>1 DEF Sessions
  <2> QED
    BY <2>1, <2>2, ConstTypes DEF age, since, Ticks
<1> QED
  BY <1>3, <1>6, <1>11, <1>12 DEF IdleState

\* A deadline that has not elapsed at t lies after t, saturated or not.
LEMMA NotElapsed ==
  ASSUME NEW x \in Ticks, NEW d \in Nat, NEW t \in 0 .. (MAX_TICKS - 1),
         ~(since(t, x) >= d), 0 < d
  PROVE  add_nanos(x, d) \in Ticks /\ add_nanos(x, d) > t
BY ConstTypes DEF since, add_nanos, Ticks

\* The earlier of two future instants is in the future.
LEMMA MinLater ==
  ASSUME NEW a \in OptTicks, NEW b \in OptTicks, NEW t \in Ticks,
         a = None \/ a > t, b = None \/ b > t
  PROVE  opt_min(a, b) \in OptTicks /\ (opt_min(a, b) = None \/ opt_min(a, b) > t)
BY DEF opt_min

\* Every candidate of next_wake lies in the future of an idle tunnel.
LEMMA IdleWakes ==
  ASSUME TypeOK, TimersPaced, IdleState
  PROVE  next_wake = None \/ next_wake > last_now
<1> DEFINE t == last_now
           Later(x) == x \in OptTicks /\ (x = None \/ x > t)
<1>1. t \in 0 .. (MAX_TICKS - 1) /\ t \in Ticks
  BY ConstTypes DEF TypeOK, Ticks
<1>2. /\ timers.last_data_tx \in Ticks \cup {None}
      /\ timers.last_data_rx \in Ticks \cup {None}
      /\ timers.last_any_tx \in Ticks \cup {None}
      /\ timers.last_any_rx \in Ticks \cup {None}
      /\ timers.retransmit_at \in Ticks \cup {None}
      /\ timers.last_initiation_tx \in Ticks \cup {None}
      /\ timers.gave_up \in BOOLEAN
  BY DEF TypeOK, Timers, OptTicks
<1>3. /\ REJECT_AFTER_TIME \in Nat /\ 0 < REJECT_AFTER_TIME
      /\ SESSION_DISCARD_TIME \in Nat /\ 0 < SESSION_DISCARD_TIME
      /\ DEAD_PEER_TIMEOUT \in Nat /\ 0 < DEAD_PEER_TIMEOUT
      /\ KEEPALIVE_TIMEOUT \in Nat /\ 0 < KEEPALIVE_TIMEOUT
      /\ REKEY_TIMEOUT \in Nat /\ 0 < REKEY_TIMEOUT
  BY ConstTypes, PositiveAssumption DEF SESSION_DISCARD_TIME, DEAD_PEER_TIMEOUT
<1>4. /\ ~DiscardDue(t) /\ ~RetransmitDue(t) /\ ~RekeyNow(t) /\ ~DeadPeerNow(t)
      /\ ~PersistentNow(t) /\ ~ReviveNow(t)
  BY DEF IdleState, HasWork
<1>5. ASSUME NEW x \in Ticks, NEW d \in Nat, 0 < d, ~(since(t, x) >= d)
      PROVE  Later(add_nanos(x, d))
  BY <1>1, <1>5, NotElapsed DEF OptTicks
<1>6. ~initiation_allowed(timers, t) => pacing_at \in Ticks /\ pacing_at > t
  BY <1>1, <1>2, <1>3, NotElapsed, Zenon DEF initiation_allowed, none_or_elapsed, pacing_at
<1> HIDE DEF t
<1>7. Later(wake_immediate)
  BY <1>4, <1>6 DEF wake_immediate, RekeyNow, IdleState, OptTicks
<1>8. Later(wake_retransmit)
  BY <1>1, <1>2, <1>4 DEF wake_retransmit, RetransmitDue, OptTicks, Ticks
<1>9. Later(wake_dead_peer)
  <2>1. SUFFICES ASSUME inflight = None, dead_peer_at(timers) # None
                 PROVE  Later(opt_max(dead_peer_at(timers), pacing_at))
    BY Zenon DEF wake_dead_peer, OptTicks
  <2>2. /\ timers.last_data_tx \in Ticks
        /\ dead_peer_at(timers) = add_nanos(timers.last_data_tx, DEAD_PEER_TIMEOUT)
        /\ ~timers.gave_up /\ tx_unanswered(timers)
    BY <1>2, <2>1 DEF dead_peer_at
  <2>3. pacing_at \in Ticks /\ dead_peer_at(timers) \in Ticks
    <3>1. 0 \in Ticks
      BY ConstTypes DEF Ticks
    <3> QED
      BY <1>2, <1>3, <2>2, <3>1, AddNanosType DEF pacing_at
  <2>4. dead_peer_at(timers) > t \/ pacing_at > t
    <3>1. CASE ~initiation_allowed(timers, t)
      BY <1>6, <3>1
    <3>2. CASE ~(since(t, timers.last_data_tx) >= DEAD_PEER_TIMEOUT)
      BY <1>1, <1>3, <2>2, <3>2, NotElapsed, Zenon
    <3> QED
      BY <1>4, <2>1, <2>2, <3>1, <3>2, ConstTypes DEF DeadPeerNow, dead_peer_due, Ticks
  <2> QED
    BY <1>1, <2>3, <2>4, ConstTypes DEF opt_max, OptTicks, Ticks
<1>10. Later(passive_keepalive_at(timers))
  BY <1>2, <1>3, <1>5 DEF passive_keepalive_at, passive_keepalive_due, IdleState,
     OptTicks, t
<1>11. next_at(t) = next
  <2>1. next # None => next.created \in Ticks
    BY DEF TypeOK, Sessions
  <2>2. next # None => age(next, t) < REJECT_AFTER_TIME
    BY <1>3 DEF IdleState, t
  <2>3. next # None => ~(age(next, t) >= REJECT_AFTER_TIME)
    BY <1>1, <2>1, <2>2, ConstTypes DEF age, since, Ticks
  <2> QED
    BY <2>3 DEF next_at
<1>12. Later(wake_discard)
  <2> DEFINE newest == newest_session_created(previous, current, next)
  <2>1. newest \in Ticks \cup {None}
    <3>1. \A s \in {previous, current, next} : s # None => s.created \in Ticks
      BY DEF TypeOK, Sessions
    <3>2. \A a, b \in Ticks \cup {None} : opt_max(a, b) \in Ticks \cup {None}
      BY DEF opt_max
    <3> QED
      BY <3>1, <3>2 DEF newest_session_created
  <2>2. newest # None => ~(since(t, newest) >= SESSION_DISCARD_TIME)
    BY <1>4, <1>11 DEF DiscardDue, some_elapsed
  <2> HIDE DEF newest
  <2> QED
    BY <1>3, <1>5, <2>1, <2>2 DEF wake_discard, plus, OptTicks, newest
<1>13. Later(wake_next_expire)
  <2>1. next # None => next.created \in Ticks
    BY DEF TypeOK, Sessions
  <2>2. next # None => ~(since(t, next.created) >= REJECT_AFTER_TIME)
    BY <1>1, <1>3, <2>1 DEF IdleState, age, since, Ticks, t
  <2> QED
    BY <1>3, <1>5, <2>1, <2>2 DEF wake_next_expire, OptTicks
<1>14. Later(wake_persistent)
  <2>1. SUFFICES ASSUME PersistentKeepalive # None
                 PROVE  Later(wake_persistent)
    BY DEF wake_persistent, OptTicks
  <2>2. PersistentKeepalive \in Nat /\ 0 < PersistentKeepalive
    BY <2>1, InputAssumption
  <2>3. CASE current_usable(t)
    <3>1. persistent_base \in Ticks
      BY <1>2, <2>3, Zenon DEF persistent_base, current_usable, TypeOK, Sessions
    <3>2. ~(since(t, persistent_base) >= PersistentKeepalive)
      BY <1>4, <2>1, <2>3, Zenon DEF PersistentNow
    <3> QED
      BY <1>5, <2>1, <2>2, <2>3, <3>1, <3>2, Zenon DEF wake_persistent, t
  <2>4. CASE ~current_usable(t) /\ inflight # None
    BY <2>1, <2>4, Zenon DEF wake_persistent, OptTicks, t
  <2>5. CASE ~current_usable(t) /\ inflight = None /\ ~timers.gave_up
    <3>1. ~initiation_allowed(timers, t)
      BY <1>4, <2>1, <2>5, Zenon DEF ReviveNow, persistent_revive_allowed
    <3> QED
      BY <1>6, <2>1, <2>5, <3>1 DEF wake_persistent, OptTicks, t
  <2>6. CASE ~current_usable(t) /\ inflight = None /\ timers.gave_up
    <3>1. initiation_allowed(timers, t)
      BY <2>6 DEF TimersPaced, PaceInv, t
    <3>2. /\ timers.last_initiation_tx # None
          /\ ~(since(t, timers.last_initiation_tx) >= PersistentKeepalive)
      BY <1>4, <2>1, <2>6, <3>1
         DEF ReviveNow, persistent_revive_allowed, none_or_elapsed
    <3> QED
      BY <1>2, <1>5, <2>1, <2>2, <2>6, <3>2 DEF wake_persistent, t
  <2> QED
    BY <1>2, <2>3, <2>4, <2>5, <2>6
<1>15. ASSUME NEW a, NEW b, Later(a), Later(b)
       PROVE  Later(opt_min(a, b))
  BY <1>1, <1>15, MinLater
<1> HIDE DEF Later
<1>16. Later(next_wake)
  BY <1>7, <1>8, <1>9, <1>10, <1>12, <1>13, <1>14, <1>15 DEF next_wake
<1> QED
  BY <1>16 DEF Later, t

\* Once poll has answered Idle, next_wake lies strictly in the future, for
\* every configuration and history: an embedder that sleeps until next_wake and
\* polls until Idle never spins.
THEOREM IdleMeansQuiet == Spec => []IdleNeverBusy
<1> DEFINE Inv == ret = "Idle" => IdleState
<1>1. Init => Inv
  BY DEF Init
<1>2. ASSUME TypeOK, Inv, [Next]_vars
      PROVE  Inv'
  <2>1. CASE UNCHANGED vars
    BY <1>2, <2>1, Zenon DEF vars, protocol, sessions, IdleState, HasWork, DiscardDue,
       RetransmitDue, RekeyNow, DeadPeerNow, ConfirmNow, PassiveNow, PersistentNow,
       ReviveNow, current_usable, persistent_base, next_at
  <2>2. CASE Next /\ ret' = "Idle"
    <3>1. PICK clock \in Readings : last_now' = clamp_now(clock)
                                    /\ PollIdle(clamp_now(clock))
      BY <2>2, IdleFromPoll
    <3> QED
      BY <1>2, <3>1, ClampType, PollIdleState
  <2> QED
    BY <1>2, <2>1, <2>2, Zenon
<1>3. TypeOK /\ TimersPaced /\ Inv => IdleNeverBusy
  BY IdleWakes, Zenon DEF IdleNeverBusy
<1> HIDE DEF Inv
<1> QED
  BY <1>1, <1>2, <1>3, TypeCorrect, AlwaysPaced, PTL DEF Spec

-----------------------------------------------------------------------------
(* A wanted rekey does not hide the confirming keepalive.  next_wake waits  *)
(* for the pacing of initiations when a rekey is wanted, and would wait too *)
(* long for a keepalive that is due at once: the two are never wanted       *)
(* together before the pacing is over.                                      *)

\* `cur' is the current session.  A session we initiated is younger than the
\* last initiation only if that one was given up since.
ConfirmInv(fl, tm, cur, now) ==
  fl = None =>
    /\ cur # None /\ cur.is_initiator /\ tm.last_initiation_tx # None =>
         tm.last_initiation_tx <= cur.created \/ initiation_allowed(tm, now)
    /\ tm.rekey_due /\ tm.confirm_keepalive_due => initiation_allowed(tm, now)

ConfirmsPaced == ConfirmInv(inflight, timers, current, last_now)

\* Waiting keeps ConfirmInv.
LEMMA ConfirmWait ==
  ASSUME NEW fl, NEW cur, NEW tm \in Timers, NEW n1 \in Ticks, NEW n2 \in Ticks,
         n1 <= n2, ConfirmInv(fl, tm, cur, n1)
  PROVE  ConfirmInv(fl, tm, cur, n2)
<1>1. tm.last_initiation_tx \in Ticks \cup {None}
  BY DEF Timers, OptTicks
<1>2. initiation_allowed(tm, n1) => initiation_allowed(tm, n2)
  BY <1>1, ConstTypes, PositiveAssumption
     DEF initiation_allowed, none_or_elapsed, since, Ticks
<1> QED
  BY <1>2 DEF ConfirmInv

\* So does a step that sends no initiation and asks for no rekey while a
\* keepalive is due, and leaves the role and age of the current session.
LEMMA ConfirmKept ==
  ASSUME NEW fl, NEW tm, NEW tm2, NEW cur, NEW cur2, NEW now,
         ConfirmInv(fl, tm, cur, now),
         tm2.last_initiation_tx = tm.last_initiation_tx,
         tm2.rekey_due /\ tm2.confirm_keepalive_due =>
           tm.rekey_due /\ tm.confirm_keepalive_due,
         cur2 # None /\ cur2.is_initiator =>
           cur # None /\ cur.is_initiator /\ cur2.created = cur.created
  PROVE  ConfirmInv(fl, tm2, cur2, now)
BY Zenon DEF ConfirmInv, initiation_allowed

\* send_initiation puts a handshake in flight, or leaves the timers it was given.
LEMMA ConfirmSend ==
  ASSUME NEW tm, NEW nx, NEW now, NEW wall, NEW driven, NEW reason,
         send_initiation(tm, nx, now, wall, driven, reason), UNCHANGED current,
         ConfirmInv(inflight, timers, current, now),
         tm.last_initiation_tx = timers.last_initiation_tx,
         tm.rekey_due /\ tm.confirm_keepalive_due =>
           timers.rekey_due /\ timers.confirm_keepalive_due
  PROVE  ConfirmInv(inflight', timers', current', now)
<1>1. CASE timers' = tm /\ UNCHANGED inflight
  BY <1>1, ConfirmKept, Zenon
<1>2. ASSUME NEW index \in Indices, NEW eph \in Ephemerals,
             inflight' = create_initiation(index, eph)
      PROVE  inflight' # None
  <2>1. create_initiation(index, eph) \in InFlight
    BY <1>2 DEF InFlight, create_initiation
  <2> QED
    BY <1>2, <2>1, SomeAssumption
<1> QED
  BY <1>1, <1>2, Zenon DEF send_initiation, fresh_index, ConfirmInv

\* A transport send leaves no keepalive due.
LEMMA ConfirmTransport ==
  ASSUME TypeOK, NEW tm \in Timers, NEW now \in Ticks, NEW tm2 \in Timers,
         NEW s, current # None, current' = next_counter(current),
         UNCHANGED inflight,
         ConfirmInv(inflight, timers, current, now),
         tm.last_initiation_tx = timers.last_initiation_tx,
         tm2 \in {note_keepalive_tx(tm, now), note_data_tx(tm, now)},
         timers' = rekey_after_send(tm2, s, now)
  PROVE  ConfirmInv(inflight', timers', current', now)
<1>1. tm2.confirm_keepalive_due = FALSE
        /\ tm2.last_initiation_tx = timers.last_initiation_tx
  BY Zenon DEF note_keepalive_tx, note_data_tx, Timers
<1>2. timers'.confirm_keepalive_due = FALSE
        /\ timers'.last_initiation_tx = timers.last_initiation_tx
  BY <1>1 DEF rekey_after_send, Timers
<1>3. current'.is_initiator = current.is_initiator
        /\ current'.created = current.created
  BY DEF TypeOK, Sessions, next_counter
<1> QED
  BY <1>2, <1>3, ConfirmKept, Zenon

\* encapsulate and initiate_handshake.
LEMMA ConfirmCalls ==
  ASSUME TypeOK, ConfirmsPaced, NEW clock \in Readings, NEW wall \in WallClock,
         \/ \E empty \in BOOLEAN : Encapsulate(clock, wall, empty)
         \/ InitiateHandshake(clock, wall)
  PROVE  ConfirmsPaced'
<1> DEFINE now == clamp_now(clock)
<1>1. now \in Ticks /\ last_now' = now /\ last_now \in Ticks /\ last_now <= now
  BY ClampType, Zenon DEF Encapsulate, InitiateHandshake
<1>2. timers \in Timers
  BY DEF TypeOK
<1> HIDE DEF now
<1>3. ConfirmInv(inflight, timers, current, now)
  BY <1>1, <1>2, ConfirmWait DEF ConfirmsPaced
<1>4. SUFFICES ConfirmInv(inflight', timers', current', now)
  BY <1>1 DEF ConfirmsPaced
<1>5. CASE UNCHANGED <<inflight, timers, current>>
  BY <1>3, <1>5
<1>6. CASE EncapsulateHandshake(now, wall)
  <2> DEFINE tm1 == [[timers EXCEPT !.gave_up = FALSE] EXCEPT
                        !.attempt_started = IF inflight # None THEN now ELSE @]
             tm2 == [[timers EXCEPT !.gave_up = FALSE] EXCEPT !.attempt_started = None]
  <2>1. \A tm \in {tm1, tm2} :
          /\ tm.last_initiation_tx = timers.last_initiation_tx
          /\ tm.rekey_due = timers.rekey_due
          /\ tm.confirm_keepalive_due = timers.confirm_keepalive_due
    BY <1>2, Zenon DEF Timers
  <2>2. \/ timers' = tm1 /\ UNCHANGED inflight
        \/ send_initiation(tm2, next, now, wall, FALSE, "HandshakeInitiation")
    BY <1>6, Zenon DEF EncapsulateHandshake
  <2>3. UNCHANGED current
    BY <1>6, Zenon DEF EncapsulateHandshake, sessions
  <2> HIDE DEF tm1, tm2
  <2> QED
    <3>1. CASE timers' = tm1 /\ UNCHANGED inflight
      BY <1>3, <2>1, <2>3, <3>1, ConfirmKept
    <3>2. CASE send_initiation(tm2, next, now, wall, FALSE, "HandshakeInitiation")
      <4>1. /\ tm2.last_initiation_tx = timers.last_initiation_tx
            /\ tm2.rekey_due = timers.rekey_due
            /\ tm2.confirm_keepalive_due = timers.confirm_keepalive_due
        BY <2>1
      <4> QED
        BY <1>3, <2>3, <3>2, <4>1, ConfirmSend, Zenon
    <3> QED
      BY <2>2, <3>1, <3>2, Zenon
<1>7. ASSUME NEW empty, EncapsulateTransport(now, empty)
      PROVE  ConfirmInv(inflight', timers', current', now)
  <2>1. note_keepalive_tx(timers, now) \in Timers /\ note_data_tx(timers, now) \in Timers
    BY <1>1, <1>2, NoteTypes
  <2>2. current # None
    BY <1>7, Zenon DEF EncapsulateTransport, current_usable
  <2> QED
    BY <1>1, <1>2, <1>3, <1>5, <1>7, <2>1, <2>2, ConfirmTransport
       DEF EncapsulateTransport
<1>8. CASE InitiateHandshake(clock, wall)
  <2> DEFINE tm == [timers EXCEPT !.gave_up = FALSE, !.attempt_started = None]
  <2>1. /\ tm.last_initiation_tx = timers.last_initiation_tx
        /\ tm.rekey_due = timers.rekey_due
        /\ tm.confirm_keepalive_due = timers.confirm_keepalive_due
    BY <1>2 DEF Timers
  <2>2. \/ UNCHANGED protocol
        \/ UNCHANGED sessions /\
           send_initiation(tm, next, now, wall, FALSE, "HandshakeInitiation")
    BY <1>8, Zenon DEF InitiateHandshake, Reject, now
  <2> HIDE DEF tm
  <2> QED
    BY <1>3, <1>5, <2>1, <2>2, ConfirmSend, Zenon DEF protocol, sessions
<1> QED
  BY <1>6, <1>7, <1>8 DEF Encapsulate, now

\* decapsulate: a completed handshake clears a wanted rekey, and the receive
\* path asks for one only on a session old enough for the pacing to be over.
LEMMA ConfirmDecapsulate ==
  ASSUME TypeOK, TimersPaced, ConfirmedByPeer, ConfirmsPaced, NEW clock \in Readings,
         \/ \E m \in Initiations, under_load \in LoadSignals, remote \in Remotes :
              DecapsulateInitiation(clock, m, under_load, remote)
         \/ \E m \in Responses, under_load \in LoadSignals, remote \in Remotes :
              DecapsulateResponse(clock, m, under_load, remote)
         \/ \E m \in CookieReplies : DecapsulateCookieReply(clock, m)
         \/ \E m \in Transports : DecapsulateTransport(clock, m)
         \/ DecapsulateMalformed(clock)
  PROVE  ConfirmsPaced'
<1> DEFINE now == clamp_now(clock)
<1>1. now \in Ticks /\ last_now' = now /\ last_now \in Ticks /\ last_now <= now
  BY ClampType, Zenon DEF DecapsulateInitiation, DecapsulateResponse,
       DecapsulateCookieReply, DecapsulateTransport, DecapsulateMalformed
<1>2. timers \in Timers
  BY Zenon DEF TypeOK
<1> HIDE DEF now
<1>3. ConfirmInv(inflight, timers, current, now) /\ PaceInv(inflight, timers, now)
  BY <1>1, <1>2, ConfirmWait, PaceWait DEF ConfirmsPaced, TimersPaced
<1>4. SUFFICES ConfirmInv(inflight', timers', current', now)
  BY <1>1 DEF ConfirmsPaced
<1>5. CASE UNCHANGED <<inflight, timers, current>>
  BY <1>3, <1>5, Zenon
<1>6. CASE UNCHANGED protocol
  BY <1>5, <1>6, Zenon DEF protocol, sessions
<1>7. ASSUME NEW m, CompleteHandshake(m, now)
      PROVE  ConfirmInv(inflight', timers', current', now)
  <2>1. timers'.rekey_due = FALSE
          /\ timers'.last_initiation_tx = timers.last_initiation_tx
    BY <1>2, <1>7 DEF CompleteHandshake, note_handshake_complete, Timers
  <2>2. current'.created = now
    BY <1>7, Zenon DEF CompleteHandshake, new_session
  <2>3. timers.last_initiation_tx # None => timers.last_initiation_tx <= now
    BY <1>3, Zenon DEF PaceInv
  <2> QED
    BY <2>1, <2>2, <2>3, Zenon DEF ConfirmInv
<1>8. ASSUME NEW m \in Transports, NEW s, PromoteNext(s, m, now), s # None
      PROVE  ConfirmInv(inflight', timers', current', now)
  <2>1. s = next /\ s \in Sessions /\ ~s.is_initiator
    BY <1>8, Zenon DEF PromoteNext, ConfirmedByPeer, TypeOK
  <2>2. /\ accept_transport(s, m.counter).is_initiator = s.is_initiator
        /\ current' = accept_transport(s, m.counter)
    BY <1>8, <2>1, Zenon DEF PromoteNext, accept_transport, Sessions
  <2> DEFINE tm == note_handshake_complete(timers)
  <2>3. tm \in Timers /\ tm.rekey_due = FALSE
    BY <1>1, <1>2, NoteTypes, Zenon DEF note_handshake_complete, Timers
  <2> HIDE DEF tm
  <2>4. timers' = note_rx([tm EXCEPT !.rekey_due = @ \/ FALSE], now, m.empty)
    BY <1>8, <2>1, <2>2 DEF PromoteNext, ReceivePath, tm
  <2>5. timers'.rekey_due = FALSE
    BY <2>3, <2>4 DEF note_rx, Timers
  <2> QED
    BY <2>1, <2>2, <2>5, Zenon DEF ConfirmInv
<1>9. ASSUME NEW m \in Transports, NEW s, AcceptInPlace(s, m, now), s # None,
             s \in {next, current, previous}
      PROVE  ConfirmInv(inflight', timers', current', now)
  <2>1. s \in Sessions /\ inflight' = inflight
    BY <1>9 DEF TypeOK, AcceptInPlace
  <2>2. current' # None => /\ current # None
                           /\ current'.is_initiator = current.is_initiator
                           /\ current'.created = current.created
    BY <1>9, <2>1 DEF AcceptInPlace, accept_transport, Sessions
  <2>3. PICK f \in BOOLEAN :
          /\ timers' = note_rx([timers EXCEPT !.rekey_due = @ \/ f], now, m.empty)
          /\ f => /\ current' # None /\ current'.is_initiator
                  /\ age(current', now) >= REKEY_AFTER_TIME_RECV
    BY <1>9, Zenon DEF AcceptInPlace, ReceivePath
  <2>4. /\ timers'.last_initiation_tx = timers.last_initiation_tx
        /\ timers'.rekey_due = (timers.rekey_due \/ f)
        /\ timers'.confirm_keepalive_due = timers.confirm_keepalive_due
    BY <1>2, <2>3 DEF note_rx, Timers
  <2>5. CASE f /\ inflight = None
    <3>1. /\ current # None /\ current \in Sessions /\ current.is_initiator
          /\ since(now, current.created) >= REKEY_AFTER_TIME_RECV
      BY <2>2, <2>3, <2>5, Zenon DEF TypeOK, age
    <3>2. current.created \in Ticks /\ timers.last_initiation_tx \in Ticks \cup {None}
      BY <1>2, <3>1, Zenon DEF Sessions, Timers, OptTicks
    <3>3. \/ timers.last_initiation_tx = None
          \/ timers.last_initiation_tx <= current.created
          \/ initiation_allowed(timers, now)
      BY <1>3, <2>5, <3>1, Zenon DEF ConfirmInv
    <3>4. initiation_allowed(timers, now)
      <4>1. CASE timers.last_initiation_tx = None
        BY <4>1 DEF initiation_allowed, none_or_elapsed
      <4>2. CASE /\ timers.last_initiation_tx # None
                 /\ timers.last_initiation_tx <= current.created
        <5> DEFINE sent_at == timers.last_initiation_tx
                   made_at == current.created
        <5>1. sent_at \in Ticks /\ made_at \in Ticks /\ sent_at <= made_at
          BY <3>2, <4>2
        <5>2. since(now, made_at) >= REKEY_AFTER_TIME_RECV
          BY <3>1
        <5> HIDE DEF sent_at, made_at
        <5>3. since(now, sent_at) >= REKEY_TIMEOUT
          BY <1>1, <5>1, <5>2, ConstTypes, RecvAssumption, PositiveAssumption
             DEF since, Ticks
        <5> QED
          BY <5>3 DEF initiation_allowed, none_or_elapsed, sent_at
      <4> QED
        BY <3>3, <4>1, <4>2
    <3> QED
      BY <2>4, <3>4, Zenon DEF ConfirmInv, initiation_allowed
  <2>6. CASE ~f
    BY <1>3, <2>1, <2>2, <2>4, <2>6, ConfirmKept, Zenon
  <2>7. CASE inflight # None
    BY <2>1, <2>7, Zenon DEF ConfirmInv
  <2> QED
    BY <2>5, <2>6, <2>7, Zenon
<1>10. CASE \E m \in Initiations, under_load \in LoadSignals, remote \in Remotes :
              DecapsulateInitiation(clock, m, under_load, remote)
  BY <1>5, <1>6, <1>10, Zenon DEF DecapsulateInitiation, RespondTo, Reject, sessions
<1>11. CASE \E m \in Responses, under_load \in LoadSignals, remote \in Remotes :
              DecapsulateResponse(clock, m, under_load, remote)
  BY <1>5, <1>6, <1>7, <1>11, Zenon DEF DecapsulateResponse, Reject, sessions, now
<1>12. CASE \E m \in Transports : DecapsulateTransport(clock, m)
  <2>1. PICK m \in Transports : DecapsulateTransport(clock, m)
    BY <1>12, Zenon
  <2> DEFINE s == session_with_index(m.receiver_index)
  <2>2. s = None \/ s \in {next, current, previous}
    BY SessionWithIndex, Zenon DEF TypeOK
  <2> HIDE DEF s
  <2> QED
    BY <1>6, <1>8, <1>9, <2>1, <2>2, Zenon DEF DecapsulateTransport, Reject, now, s
<1>13. CASE \/ \E m \in CookieReplies : DecapsulateCookieReply(clock, m)
            \/ DecapsulateMalformed(clock)
  BY <1>5, <1>6, <1>13, Zenon DEF DecapsulateCookieReply, DecapsulateMalformed, Reject, sessions
<1> QED
  BY <1>10, <1>11, <1>12, <1>13

\* poll: giving a handshake up and discarding leave nothing wanted.
LEMMA ConfirmPoll ==
  ASSUME TypeOK, TimersPaced, ConfirmsPaced, NEW clock \in 0 .. (MAX_TICKS - 1),
         NEW wall \in WallClock, Poll(clock, wall)
  PROVE  ConfirmsPaced'
<1> DEFINE t == clamp_now(clock)
<1>1. /\ t \in Ticks /\ last_now' = t /\ last_now \in Ticks /\ last_now <= t
      /\ t \in 0 .. (MAX_TICKS - 1)
  BY ClampBelow, Zenon DEF Poll
<1>2. timers \in Timers /\ timers_rekeyed \in Timers /\ timers_disarmed(t) \in Timers
  BY <1>1, PollTimersType, Zenon DEF TypeOK
<1> HIDE DEF t
<1>3. ConfirmInv(inflight, timers, current, t) /\ PaceInv(inflight, timers, t)
  BY <1>1, <1>2, ConfirmWait, PaceWait DEF ConfirmsPaced, TimersPaced
<1>4. SUFFICES ConfirmInv(inflight', timers', current', t)
  BY <1>1, Zenon DEF ConfirmsPaced
<1>5. CASE PollDiscard(t)
  BY <1>5, Zenon DEF PollDiscard, discard_all_sessions, default_timers, ConfirmInv
<1>6. ASSUME NEW tm, NEW reason, PollSend(t, wall, tm, reason),
             tm.last_initiation_tx = timers.last_initiation_tx,
             tm.rekey_due /\ tm.confirm_keepalive_due =>
               timers.rekey_due /\ timers.confirm_keepalive_due
      PROVE  ConfirmInv(inflight', timers', current', t)
  BY <1>3, <1>6, ConfirmSend, Zenon DEF PollSend
<1>7. CASE PollRetransmit(t, wall)
  <2>1. CASE inflight' = None /\ PollSilent(t, note_gave_up(timers), "HandshakeExpired")
    <3>1. initiation_allowed(timers, t)
      BY <1>1, <1>3, <1>7, RetransmitPaced DEF PollRetransmit
    <3>2. timers'.last_initiation_tx = timers.last_initiation_tx
      BY <1>2, <2>1 DEF PollSilent, note_gave_up, Timers
    <3> QED
      BY <3>1, <3>2, Zenon DEF ConfirmInv, initiation_allowed
  <2>2. CASE PollSend(t, wall, timers, "HandshakeRetransmit")
    BY <1>6, <2>2
  <2> QED
    BY <1>7, <2>1, <2>2, Zenon DEF PollRetransmit
<1>8. CASE PollInitiate(t, wall)
  <2> DEFINE tm == [timers EXCEPT !.attempt_started = None]
  <2>1. /\ tm.last_initiation_tx = timers.last_initiation_tx
        /\ tm.rekey_due = timers.rekey_due
        /\ tm.confirm_keepalive_due = timers.confirm_keepalive_due
    BY <1>2 DEF Timers
  <2> QED
    BY <1>6, <1>8, <2>1, Zenon DEF PollInitiate
<1>9. /\ timers_rekeyed.last_initiation_tx = timers.last_initiation_tx
      /\ timers_disarmed(t).last_initiation_tx = timers.last_initiation_tx
      /\ timers_disarmed(t).confirm_keepalive_due = FALSE
      /\ timers_rekeyed.rekey_due /\ timers_rekeyed.confirm_keepalive_due =>
           timers.rekey_due /\ timers.confirm_keepalive_due
  BY <1>2 DEF timers_rekeyed, timers_disarmed, Timers
<1>10. CASE PollRevive(t, wall)
  <2> DEFINE tm == [timers_disarmed(t) EXCEPT !.gave_up = FALSE,
                                              !.attempt_started = None]
  <2>1. /\ tm.last_initiation_tx = timers.last_initiation_tx
        /\ tm.confirm_keepalive_due = FALSE
    BY <1>2, <1>9 DEF Timers
  <2> QED
    BY <1>6, <1>10, <2>1, Zenon DEF PollRevive
<1>11. ASSUME NEW reason, send_keepalive(timers_rekeyed, t, reason), current # None
       PROVE  ConfirmInv(inflight', timers', current', t)
  <2>1. CASE timers' = timers_rekeyed /\ UNCHANGED <<current, inflight>>
    BY <1>3, <1>9, <2>1, ConfirmKept, Zenon
  <2>2. note_keepalive_tx(timers_rekeyed, t) \in Timers
    BY <1>1, <1>2, NoteTypes, Zenon
  <2> QED
    BY <1>1, <1>2, <1>3, <1>9, <1>11, <2>1, <2>2, ConfirmTransport, Zenon DEF send_keepalive
<1>12. CASE PollKeepalive(t) \/ PollPersistent(t)
  BY <1>11, <1>12 DEF PollKeepalive, PollPersistent, ConfirmNow, PassiveNow,
     PersistentNow, current_usable
<1>13. CASE PollIdle(t)
  <2>1. timers' = timers_disarmed(t) /\ UNCHANGED <<inflight, current>>
    BY <1>13 DEF PollIdle, PollSilent
  <2> QED
    BY <1>3, <1>9, <2>1, ConfirmKept, Zenon
<1> QED
  BY <1>5, <1>7, <1>8, <1>10, <1>12, <1>13, Zenon DEF Poll, t

\* In every reachable tunnel a wanted rekey may be sent at once, or no keepalive
\* is due that it would hide.
THEOREM AlwaysConfirmed == Spec => []ConfirmsPaced
<1>1. Init => ConfirmsPaced
  <2>1. default_timers(None).rekey_due = FALSE
    BY DEF default_timers
  <2> QED
    BY <2>1 DEF Init, ConfirmsPaced, ConfirmInv
<1>2. ASSUME TypeOK, TimersPaced, ConfirmedByPeer, ConfirmsPaced, [Next]_vars
      PROVE  ConfirmsPaced'
  <2>1. CASE UNCHANGED vars
    BY <1>2, <2>1, Zenon DEF vars, protocol, sessions, ConfirmsPaced
  <2>2. CASE Reset
    BY <2>2, Zenon DEF Reset, discard_all_sessions, default_timers, ConfirmsPaced, ConfirmInv
  <2>3. ASSUME NEW clock \in Readings, NEW wall \in WallClock,
               \/ \E empty \in BOOLEAN : Encapsulate(clock, wall, empty)
               \/ Poll(clock, wall)
               \/ InitiateHandshake(clock, wall)
        PROVE  ConfirmsPaced'
    BY <1>2, <2>3, ReadingsBelow, ConfirmCalls, ConfirmPoll
  <2> QED
    BY <1>2, <2>1, <2>2, <2>3, ConfirmDecapsulate DEF Next
<1> QED
  BY <1>1, <1>2, TypeCorrect, AlwaysPaced, PeerConfirmsSessions, PTL, Zenon DEF Spec

-----------------------------------------------------------------------------
(* next_wake is no later than the work it announces *)

\* A deadline that has elapsed at t lies at or before t.
LEMMA Elapsed ==
  ASSUME NEW x \in Ticks, NEW d \in Nat, NEW t \in Ticks, since(t, x) >= d, 0 < d
  PROVE  add_nanos(x, d) \in Ticks /\ add_nanos(x, d) <= t
BY ConstTypes DEF since, add_nanos, Ticks

\* The earlier of two optional instants is reached when either is.
LEMMA MinReached ==
  ASSUME NEW a \in OptTicks, NEW b \in OptTicks, NEW t \in Ticks
  PROVE  /\ opt_min(a, b) \in OptTicks
         /\ (a # None /\ a <= t) \/ (b # None /\ b <= t) =>
              opt_min(a, b) # None /\ opt_min(a, b) <= t
<1>1. a \in Ticks \cup {None} /\ b \in Ticks \cup {None}
  BY Zenon DEF OptTicks
<1> QED
  BY <1>1, ConstTypes DEF opt_min, OptTicks, Ticks

\* When a session or an attempt was last seen, and the pacing deadline.
LEMMA InstantTypes ==
  ASSUME TypeOK
  PROVE  /\ timers.last_data_tx \in Ticks \cup {None}
         /\ timers.last_data_rx \in Ticks \cup {None}
         /\ timers.last_any_tx \in Ticks \cup {None}
         /\ timers.last_any_rx \in Ticks \cup {None}
         /\ timers.retransmit_at \in Ticks \cup {None}
         /\ timers.last_initiation_tx \in Ticks \cup {None}
         /\ pacing_at \in Ticks
         /\ current # None => persistent_base \in Ticks
         /\ \A s \in {previous, current, next} : s # None => s.created \in Ticks
         /\ newest_session_created(previous, current, next) \in Ticks \cup {None}
<1>1. /\ timers.last_data_tx \in Ticks \cup {None}
      /\ timers.last_data_rx \in Ticks \cup {None}
      /\ timers.last_any_tx \in Ticks \cup {None}
      /\ timers.last_any_rx \in Ticks \cup {None}
      /\ timers.retransmit_at \in Ticks \cup {None}
      /\ timers.last_initiation_tx \in Ticks \cup {None}
  BY DEF TypeOK, Timers, OptTicks
<1>2. 0 \in Ticks
  BY ConstTypes DEF Ticks
<1>3. pacing_at \in Ticks
  BY <1>1, <1>2, ConstTypes, AddNanosType, Zenon DEF pacing_at
<1>4. ASSUME NEW s \in {previous, current, next}, s # None
      PROVE  s.created \in Ticks
  <2>1. s \in Sessions
    BY <1>4 DEF TypeOK
  <2> QED
    BY <2>1 DEF Sessions
<1>5. current # None => persistent_base \in Ticks
  BY <1>1, <1>4 DEF persistent_base
<1>6. \A a, b \in Ticks \cup {None} : opt_max(a, b) \in Ticks \cup {None}
  BY DEF opt_max
<1>7. newest_session_created(previous, current, next) \in Ticks \cup {None}
  BY <1>4, <1>6 DEF newest_session_created
<1> QED
  BY <1>1, <1>3, <1>4, <1>5, <1>7, Zenon

\* Each candidate of next_wake is an optional instant.
LEMMA WakeTypes ==
  ASSUME TypeOK
  PROVE  /\ wake_immediate \in OptTicks
         /\ wake_retransmit \in OptTicks
         /\ wake_dead_peer \in OptTicks
         /\ passive_keepalive_at(timers) \in OptTicks
         /\ wake_discard \in OptTicks
         /\ wake_next_expire \in OptTicks
         /\ wake_persistent \in OptTicks
<1>1. 0 \in Ticks
  BY ConstTypes DEF Ticks
<1>2. \A x \in Ticks, d \in Nat : add_nanos(x, d) \in Ticks
  BY AddNanosType, Zenon
<1>3. wake_immediate \in OptTicks /\ wake_retransmit \in OptTicks
  BY <1>1, InstantTypes, Zenon DEF wake_immediate, wake_retransmit, OptTicks
<1>4. wake_dead_peer \in OptTicks
  <2>1. dead_peer_at(timers) \in Ticks \cup {None}
    BY <1>2, InstantTypes, ConstTypes, Zenon DEF dead_peer_at
  <2>2. \A a, b \in Ticks : opt_max(a, b) \in Ticks
    BY NoneAssumption, Zenon DEF opt_max, Ticks
  <2> QED
    BY <2>1, <2>2, InstantTypes, Zenon DEF wake_dead_peer, OptTicks
<1>5. passive_keepalive_at(timers) \in OptTicks
  BY <1>2, InstantTypes, ConstTypes, Zenon DEF passive_keepalive_at, OptTicks
<1>6. wake_discard \in OptTicks /\ wake_next_expire \in OptTicks
  BY <1>2, InstantTypes, ConstTypes, Zenon DEF wake_discard, plus, wake_next_expire, OptTicks
<1>7. wake_persistent \in OptTicks
  <2>1. PersistentKeepalive # None => PersistentKeepalive \in Nat
    BY InputAssumption
  <2> QED
    BY <1>1, <1>2, <2>1, InstantTypes, Zenon DEF wake_persistent, current_usable, OptTicks
<1> QED
  BY <1>3, <1>4, <1>5, <1>6, <1>7

\* The work of poll that next_wake announces: all of it, but the handshake that
\* revives a persistent keepalive once a session still usable at the last call
\* has lapsed.
AnnouncedWork(t) ==
  \/ DiscardDue(t) \/ RetransmitDue(t) \/ RekeyNow(t) \/ DeadPeerNow(t)
  \/ ConfirmNow(t) \/ PassiveNow(t) \/ PersistentNow(t)
  \/ ReviveNow(t) /\ ~current_usable(last_now)

WakesInTime ==
  \A t \in last_now .. (MAX_TICKS - 1) :
    AnnouncedWork(t) => next_wake # None /\ next_wake <= t

\* Whatever branch of poll has work at t, its candidate is reached at t.
LEMMA WorkAnnounced == TypeOK /\ ConfirmsPaced => WakesInTime
<1> SUFFICES ASSUME TypeOK, ConfirmsPaced, NEW t \in last_now .. (MAX_TICKS - 1), AnnouncedWork(t)
             PROVE  next_wake # None /\ next_wake <= t
  BY Zenon DEF WakesInTime
<1> DEFINE Reached(x) == x # None /\ x <= t
<1>1. t \in Ticks /\ last_now \in Ticks /\ last_now <= t
  BY ConstTypes DEF TypeOK, Ticks
<1>2. /\ REJECT_AFTER_TIME \in Nat /\ 0 < REJECT_AFTER_TIME
      /\ SESSION_DISCARD_TIME \in Nat /\ 0 < SESSION_DISCARD_TIME
      /\ DEAD_PEER_TIMEOUT \in Nat /\ 0 < DEAD_PEER_TIMEOUT
      /\ KEEPALIVE_TIMEOUT \in Nat /\ 0 < KEEPALIVE_TIMEOUT
      /\ REKEY_TIMEOUT \in Nat /\ 0 < REKEY_TIMEOUT
  BY ConstTypes, PositiveAssumption DEF SESSION_DISCARD_TIME, DEAD_PEER_TIMEOUT
<1>3. ASSUME NEW x \in Ticks, NEW d \in Nat, 0 < d, since(t, x) >= d
      PROVE  Reached(add_nanos(x, d))
  <2>1. add_nanos(x, d) \in Ticks /\ add_nanos(x, d) <= t
    BY <1>1, <1>3, Elapsed
  <2> QED
    BY <2>1, NoneAssumption DEF Ticks
<1>4. 0 # None /\ 0 <= t
  BY <1>1, NoneAssumption DEF Ticks
<1>5. initiation_allowed(timers, t) => Reached(pacing_at)
  BY <1>2, <1>3, <1>4, InstantTypes, Zenon DEF initiation_allowed, none_or_elapsed, pacing_at
<1>6. DiscardDue(t) => Reached(wake_discard) \/ Reached(wake_next_expire)
  <2>1. CASE next_at(t) = next
    BY <1>2, <1>3, <2>1, InstantTypes, Zenon DEF DiscardDue, some_elapsed, wake_discard, plus
  <2>2. CASE next_at(t) # next
    BY <1>2, <1>3, <2>2, InstantTypes DEF next_at, age, wake_next_expire
  <2> QED
    BY <2>1, <2>2, Zenon
<1>7. RetransmitDue(t) => Reached(wake_retransmit)
  <2>1. RetransmitDue(t) => timers.retransmit_at \in Ticks
    BY InstantTypes DEF RetransmitDue
  <2> QED
    BY <1>1, <2>1, Zenon DEF RetransmitDue, wake_retransmit, Ticks
<1>8. RekeyNow(t) => Reached(wake_immediate)
  BY <1>5 DEF RekeyNow, wake_immediate
<1>9. ConfirmNow(t) => Reached(wake_immediate)
  <2>1. CASE timers.rekey_due /\ inflight = None
    <3>1. ConfirmNow(t) => initiation_allowed(timers, last_now)
      BY <2>1, Zenon DEF ConfirmNow, ConfirmsPaced, ConfirmInv
    <3>2. initiation_allowed(timers, last_now) => initiation_allowed(timers, t)
      BY <1>1, ConstTypes, InstantTypes DEF initiation_allowed, none_or_elapsed, since,
         Ticks
    <3> QED
      BY <1>5, <2>1, <3>1, <3>2, Zenon DEF wake_immediate
  <2>2. CASE ~(timers.rekey_due /\ inflight = None)
    BY <1>4, <2>2 DEF ConfirmNow, wake_immediate
  <2> QED
    BY <2>1, <2>2, Zenon
<1>10. DeadPeerNow(t) => Reached(wake_dead_peer)
  <2>1. SUFFICES ASSUME DeadPeerNow(t)
                 PROVE  Reached(wake_dead_peer)
    OBVIOUS
  <2>2. Reached(pacing_at)
    BY <1>5, <2>1, Zenon DEF DeadPeerNow
  <2>3. Reached(dead_peer_at(timers))
    BY <1>2, <1>3, <2>1, InstantTypes, Zenon DEF DeadPeerNow, dead_peer_due, dead_peer_at
  <2> QED
    BY <2>1, <2>2, <2>3 DEF DeadPeerNow, wake_dead_peer, opt_max
<1>11. PassiveNow(t) => Reached(passive_keepalive_at(timers))
  BY <1>2, <1>3, InstantTypes, Zenon DEF PassiveNow, passive_keepalive_due, passive_keepalive_at
<1>12. current_usable(t) => current_usable(last_now)
  <2>1. current # None => current.created \in Ticks
    BY InstantTypes, Zenon
  <2> QED
    BY <1>1, <1>2, <2>1 DEF current_usable, usable_for_send, age, since, Ticks
<1>13. PersistentNow(t) => Reached(wake_persistent)
  <2>1. SUFFICES ASSUME PersistentNow(t)
                 PROVE  Reached(wake_persistent)
    OBVIOUS
  <2>2. PersistentKeepalive \in Nat /\ 0 < PersistentKeepalive
    BY <2>1, InputAssumption DEF PersistentNow
  <2>3. current_usable(last_now) /\ persistent_base \in Ticks
    BY <1>12, <2>1, InstantTypes DEF PersistentNow, current_usable
  <2> QED
    BY <1>3, <2>1, <2>2, <2>3 DEF PersistentNow, wake_persistent
<1>14. ReviveNow(t) /\ ~current_usable(last_now) => Reached(wake_persistent)
  <2>1. SUFFICES ASSUME ReviveNow(t), ~current_usable(last_now)
                 PROVE  Reached(wake_persistent)
    OBVIOUS
  <2>2. PersistentKeepalive \in Nat /\ 0 < PersistentKeepalive
    BY <2>1, InputAssumption DEF ReviveNow
  <2>3. CASE ~timers.gave_up
    BY <1>5, <2>1, <2>3, Zenon DEF ReviveNow, wake_persistent
  <2>4. CASE timers.gave_up
    BY <1>3, <1>4, <2>1, <2>2, <2>4, InstantTypes, Zenon DEF ReviveNow, wake_persistent,
       persistent_revive_allowed, none_or_elapsed
  <2> QED
    BY <2>3, <2>4
<1> DEFINE m6 == opt_min(wake_next_expire, wake_persistent)
           m5 == opt_min(wake_discard, m6)
           m4 == opt_min(passive_keepalive_at(timers), m5)
           m3 == opt_min(wake_dead_peer, m4)
           m2 == opt_min(wake_retransmit, m3)
<1>15. m6 \in OptTicks /\ (Reached(wake_next_expire) \/ Reached(wake_persistent) => Reached(m6))
  BY <1>1, WakeTypes, MinReached, Zenon
<1> HIDE DEF m6
<1>16. m5 \in OptTicks /\ (Reached(wake_discard) \/ Reached(m6) => Reached(m5))
  BY <1>1, <1>15, WakeTypes, MinReached, Zenon
<1> HIDE DEF m5
<1>17. m4 \in OptTicks /\ (Reached(passive_keepalive_at(timers)) \/ Reached(m5) => Reached(m4))
  BY <1>1, <1>16, WakeTypes, MinReached, Zenon
<1> HIDE DEF m4
<1>18. m3 \in OptTicks /\ (Reached(wake_dead_peer) \/ Reached(m4) => Reached(m3))
  BY <1>1, <1>17, WakeTypes, MinReached, Zenon
<1> HIDE DEF m3
<1>19. m2 \in OptTicks /\ (Reached(wake_retransmit) \/ Reached(m3) => Reached(m2))
  BY <1>1, <1>18, WakeTypes, MinReached, Zenon
<1> HIDE DEF m2
<1>20. Reached(wake_immediate) \/ Reached(m2) => Reached(next_wake)
  <2>1. next_wake = opt_min(wake_immediate, m2)
    BY Zenon DEF next_wake, m2, m3, m4, m5, m6
  <2> QED
    BY <1>1, <1>19, <2>1, WakeTypes, MinReached
<1> HIDE DEF Reached
<1>21. Reached(next_wake)
  BY <1>6, <1>7, <1>8, <1>9, <1>10, <1>11, <1>13, <1>14, <1>15, <1>16, <1>17, <1>18,
     <1>19, <1>20 DEF AnnouncedWork
<1> QED
  BY <1>21 DEF Reached

\* Sleeping until next_wake delays nothing poll would do, in any configuration:
\* but for reviving a persistent keepalive once the session has lapsed, no
\* branch has work before next_wake.
THEOREM WakesAnnounced == Spec => []WakesInTime
BY WorkAnnounced, TypeCorrect, AlwaysConfirmed, PTL

\* Without a persistent keepalive next_wake is never later than any work of poll.
THEOREM NeverLate ==
  ASSUME PersistentKeepalive = None
  PROVE  Spec => []NoLateWake
<1>1. WakesInTime => NoLateWake
  BY DEF WakesInTime, NoLateWake, HasWork, AnnouncedWork, ReviveNow, PersistentNow
<1> QED
  BY <1>1, WakesAnnounced, PTL, Z3

-----------------------------------------------------------------------------
(* The adapter's queue *)

\* What a step may do to the queue.
QueueStep ==
  [Queue!Arrive \/ Queue!Drain \/ Queue!Flush]_<<packet_queue, sent, handed>>

\* encapsulate: a packet is sent, queued while there is room, or lost.
LEMMA EncapsulateQueues ==
  ASSUME NEW clock, NEW wall, NEW empty \in BOOLEAN,
         TunnEncapsulate(clock, wall, empty)
  PROVE  QueueStep
<1>1. CASE empty
  BY <1>1 DEF TunnEncapsulate, QueueStep
<1>2. CASE ~empty
  <2>1. handed' = handed + 1
    BY <1>2 DEF TunnEncapsulate
  <2>2. \/ sent' = sent \cup {handed'} /\ packet_queue' = packet_queue
        \/ queue_packet(handed') /\ sent' = sent
        \/ packet_queue' = packet_queue /\ sent' = sent
    BY <1>2 DEF TunnEncapsulate
  <2> QED
    BY <2>1, <2>2 DEF QueueStep, Queue!Arrive, queue_packet
<1> QED
  BY <1>1, <1>2

\* drain_queue_step: the head is sent, or everything stays.
LEMMA DrainTakesHead ==
  ASSUME NEW clock, NEW wall, DrainQueueStep(clock, wall)
  PROVE  QueueStep
<1>1. handed' = handed
  BY DEF DrainQueueStep
<1>2. CASE UNCHANGED <<packet_queue, sent>>
  BY <1>1, <1>2 DEF QueueStep
<1>3. CASE DrainHead(clock, wall)
  <2>1. CASE ret' = "Transport"
    BY <1>1, <1>3, <2>1 DEF DrainHead, QueueStep, Queue!Drain
  <2>2. CASE ret' # "Transport"
    BY <1>1, <1>3, <2>2, Zenon DEF DrainHead, QueueStep, drain_failed
  <2> QED
    BY <2>1, <2>2
<1> QED
  BY <1>2, <1>3 DEF DrainQueueStep

\* Every other call leaves the queue alone, but for the timers, which may give
\* up the handshake and the queue with it.
LEMMA TimersFlush ==
  ASSUME NEW clock, NEW wall, UpdateTimers(clock, wall)
  PROVE  QueueStep
BY DEF UpdateTimers, QueueStep, Queue!Flush

\* Every step of the adapter is a step of the queue, or leaves it alone.
LEMMA StepsImplement == [TunnNext]_tunnVars => QueueStep
<1>1. ASSUME NEW clock \in Readings, NEW wall \in WallClock, Finish(clock, wall)
      PROVE  QueueStep
  <2>1. CASE CompletePoll(wall)
    BY <2>1 DEF CompletePoll, queueVars, QueueStep
  <2> QED
    BY <1>1, <2>1, DrainTakesHead DEF Finish
<1>2. ASSUME NEW clock \in Readings, TunnDecapsulate(clock)
      PROVE  QueueStep
  BY <1>2 DEF TunnDecapsulate, QueueStep
<1>3. ASSUME NEW clock \in Readings, NEW wall \in WallClock,
             FormatHandshakeInitiation(clock, wall)
      PROVE  QueueStep
  BY <1>3 DEF FormatHandshakeInitiation, queueVars, QueueStep
<1>4. CASE UNCHANGED tunnVars
  BY <1>4 DEF tunnVars, queueVars, QueueStep
<1> QED
  BY <1>1, <1>2, <1>3, <1>4, EncapsulateQueues, DrainTakesHead, TimersFlush
  DEF TunnNext

\* The queue of Tunn is first-in first-out and bounded, whatever the session
\* does while it is drained: no packet is sent twice, overtaken, or lost but
\* with the whole queue (embed/src/lib.rs:382-415).
THEOREM QueueKept == TunnSpec => QueueImplements
<1>1. TunnInit => Queue!Init
  BY Zenon DEF TunnInit, Queue!Init
<1> QED
  BY <1>1, StepsImplement, PTL DEF TunnSpec, QueueImplements, Queue!Spec, QueueStep

-----------------------------------------------------------------------------
(* The loop *)

\* What the loop does to the tunnel is a call of its interface.
LEMMA LoopMoves ==
  ASSUME TypeOK, [LoopNext]_loopVars
  PROVE  \/ [Next]_vars
         \/ \E clock \in 0 .. (MAX_TICKS - 1), wall \in WallClock : Poll(clock, wall)
<1>1. CASE UNCHANGED loopVars
  BY <1>1, Zenon DEF loopVars, tunnVars
<1>2. CASE Wake
  BY <1>2, LoopAssumption, Zenon DEF Wake, ServeTimers, UpdateTimers
<1>3. ASSUME NEW clock \in Readings, NEW wall \in WallClock, DrainQueueStep(clock, wall)
      PROVE  [Next]_vars
  BY <1>3, Zenon DEF DrainQueueStep, DrainHead, Next
<1>4. CASE RecvFinish
  <2>1. last_now \in 0 .. (MAX_TICKS - 1)
    BY DEF TypeOK
  <2> QED
    BY <1>3, <1>4, <2>1 DEF RecvFinish, Finish, CompletePoll
<1>5. CASE DrainQueue
  BY <1>3, <1>5 DEF DrainQueue
<1>6. CASE Recv
  BY <1>6 DEF Recv, TunnDecapsulate, Next
<1>7. CASE Outbound \/ Start
  BY <1>7, Zenon DEF Outbound, Start, TunnEncapsulate, FormatHandshakeInitiation, Next
<1>8. CASE Quiesce
  BY <1>8 DEF Quiesce, tunnVars
<1> QED
  BY <1>1, <1>2, <1>4, <1>5, <1>6, <1>7, <1>8 DEF LoopNext, Turn

\* The tunnel in the loop keeps what every tunnel keeps.
LEMMA LoopPaced == LoopSpec => [](TypeOK /\ TimersPaced)
<1>1. LoopInit => TypeOK /\ TimersPaced
  BY TypeInit, PaceStart DEF LoopInit, TunnInit
<1>2. TypeOK /\ TimersPaced /\ [LoopNext]_loopVars => TypeOK' /\ TimersPaced'
  BY LoopMoves, TypeStep, PaceStep, PollType, PacePoll
<1> QED
  BY <1>1, <1>2, PTL DEF LoopSpec

\* Where the loop may be while a call or the drain it started is unfinished.
DrainInv ==
  /\ queue_drainable => arm \in {"recv", "drain"}
  /\ stage # "ready" => arm = "recv"

\* drain_queue_step sends a packet or clears the flag.
LEMMA DrainStepServes ==
  ASSUME NEW clock, NEW wall, DrainQueueStep(clock, wall), queue_drainable'
  PROVE  result' = "WriteToNetwork"
BY DEF DrainQueueStep, DrainHead, drain_failed

\* The loop leaves its recv and drain arms only with the queue served.
LEMMA DrainInvStep ==
  ASSUME DrainInv, [LoopNext]_loopVars
  PROVE  DrainInv'
<1>1. CASE UNCHANGED loopVars
  BY <1>1, Zenon DEF loopVars, tunnVars, queueVars, DrainInv
<1>2. CASE Wake
  BY <1>2 DEF Wake, ServeTimers, UpdateTimers, DrainInv
<1>3. CASE RecvFinish
  <2>1. CASE \E wall \in WallClock : CompletePoll(wall)
    BY <1>3, <2>1 DEF RecvFinish, AfterRecv, CompletePoll, DrainInv
  <2>2. CASE \E clock \in Readings, wall \in WallClock : DrainQueueStep(clock, wall)
    <3>1. stage' = "ready"
      BY <2>2, Zenon DEF DrainQueueStep
    <3> QED
      BY <1>3, <2>2, <3>1, DrainStepServes DEF RecvFinish, AfterRecv, DrainInv
  <2> QED
    BY <1>3, <2>1, <2>2 DEF RecvFinish, Finish
<1>4. CASE DrainQueue
  <2>1. stage' = "ready"
    BY <1>4 DEF DrainQueue, DrainQueueStep
  <2> QED
    BY <1>4, <2>1, DrainStepServes DEF DrainQueue, DrainInv
<1>5. CASE Recv
  <2>1. ~queue_drainable /\ stage = "ready"
    BY <1>5 DEF Recv, Busy, TunnDecapsulate, DrainInv
  <2>2. \/ stage' = "poll"
        \/ queue_drainable' = queue_drainable /\ stage' = stage
    BY <1>5 DEF Recv, TunnDecapsulate
  <2> QED
    BY <1>5, <2>1, <2>2 DEF Recv, AfterRecv, DrainInv
<1>6. CASE Outbound
  BY <1>6 DEF Outbound, TunnEncapsulate, DrainInv
<1>7. CASE Start
  BY <1>7 DEF Start, FormatHandshakeInitiation, queueVars, DrainInv
<1>8. CASE Quiesce
  BY <1>8 DEF Quiesce, tunnVars, queueVars, DrainInv
<1> QED
  BY <1>1, <1>2, <1>3, <1>4, <1>5, <1>6, <1>7, <1>8, Zenon DEF LoopNext, Turn

\* The loop never goes back to its select with a queue left to drain, whatever
\* fails while it drains (tokio.rs:250-264).
THEOREM QueueServed == LoopSpec => []DrainServed
<1>1. LoopInit => DrainInv
  BY DEF LoopInit, TunnInit, DrainInv
<1>2. DrainInv => DrainServed
  BY Zenon DEF DrainInv, DrainServed
<1> QED
  BY <1>1, <1>2, DrainInvStep, PTL, Zenon DEF LoopSpec

-----------------------------------------------------------------------------
(* A burst of the timer arm.  One turn of its inner loop takes at most a    *)
(* tick.  When no deadline is shorter than three of them, a burst is at     *)
(* most one initiation and one keepalive: each holds back the next of its   *)
(* kind for longer than the burst lasts.                                    *)

Keepalives == {"SendKeepalive", "PersistentKeepalive"}

\* An initiation, or a keepalive, was sent at most n ticks ago; no data came
\* after the keepalive.
RecentInitiation(n) ==
  timers.last_initiation_tx # None /\ last_now - timers.last_initiation_tx <= n

RecentKeepalive(n) ==
  /\ ~timers.confirm_keepalive_due
  /\ timers.last_any_tx # None /\ last_now - timers.last_any_tx <= n
  /\ timers.last_data_rx # None => timers.last_data_rx <= timers.last_any_tx

BurstInv ==
  /\ burst \in 0 .. 2
  /\ arm # "timers" => burst = 0
  /\ burst = 1 => RecentInitiation(0) \/ RecentKeepalive(0)
  /\ burst = 2 => RecentInitiation(1) /\ RecentKeepalive(1)

\* What poll notes when it sends, and what it leaves alone.
LEMMA PollNotes ==
  ASSUME TypeOK, NEW clock \in 0 .. (MAX_TICKS - 1), NEW wall, Poll(clock, wall)
  PROVE  /\ ret' \in Sent =>
              /\ timers'.last_any_tx = timers.last_any_tx
              /\ timers'.confirm_keepalive_due => timers.confirm_keepalive_due
              /\ timers'.last_data_rx \in {timers.last_data_rx, None}
         /\ ret' \in Keepalives =>
              /\ timers'.last_any_tx = last_now'
              /\ timers'.confirm_keepalive_due = FALSE
              /\ timers'.last_data_rx = timers.last_data_rx
              /\ timers'.last_initiation_tx = timers.last_initiation_tx
              /\ \/ ConfirmNow(last_now') \/ PassiveNow(last_now')
                 \/ PersistentNow(last_now')
<1> DEFINE t == clamp_now(clock)
<1>1. t \in Ticks /\ last_now' = t
  BY ClampBelow, Zenon DEF Poll
<1>2. timers \in Timers /\ timers_rekeyed \in Timers /\ timers_disarmed(t) \in Timers
  BY <1>1, PollTimersType, Zenon DEF TypeOK
<1> HIDE DEF t
<1>3. CASE ret' \notin Sent \cup Keepalives
  BY <1>3, Zenon
<1>4. ASSUME NEW tm \in Timers, NEW reason \in Sent, PollSend(t, wall, tm, reason),
             tm.last_any_tx = timers.last_any_tx,
             tm.confirm_keepalive_due => timers.confirm_keepalive_due,
             tm.last_data_rx \in {timers.last_data_rx, None}
      PROVE  /\ ret' \notin Keepalives
             /\ timers'.last_any_tx = timers.last_any_tx
             /\ timers'.confirm_keepalive_due => timers.confirm_keepalive_due
             /\ timers'.last_data_rx \in {timers.last_data_rx, None}
  <2>1. ret' \notin Keepalives
    BY <1>4, Zenon DEF PollSend, send_initiation, LocalErrors, Keepalives, Sent
  <2>2. /\ timers'.last_any_tx = tm.last_any_tx
        /\ timers'.confirm_keepalive_due = tm.confirm_keepalive_due
        /\ timers'.last_data_rx = tm.last_data_rx
    BY <1>4, Zenon DEF PollSend, send_initiation, note_initiation_tx, Timers
  <2> QED
    BY <1>4, <2>1, <2>2, Zenon
<1>5. CASE PollDiscard(t) \/ PollIdle(t)
  BY <1>3, <1>5, Zenon DEF PollDiscard, PollIdle, PollSilent, Sent, Keepalives
<1>6. CASE PollRetransmit(t, wall)
  <2>1. CASE PollSilent(t, note_gave_up(timers), "HandshakeExpired")
    BY <1>3, <2>1, Zenon DEF PollSilent, Sent, Keepalives
  <2> QED
    BY <1>2, <1>4, <1>6, <2>1, Zenon DEF PollRetransmit, Sent
<1>7. CASE PollInitiate(t, wall)
  <2> DEFINE tm == [timers EXCEPT !.attempt_started = None]
  <2>1. /\ tm \in Timers
        /\ tm.last_any_tx = timers.last_any_tx
        /\ tm.confirm_keepalive_due = timers.confirm_keepalive_due
        /\ tm.last_data_rx = timers.last_data_rx
    BY <1>2 DEF Timers, OptTicks
  <2> HIDE DEF tm
  <2>2. PollSend(t, wall, tm, "HandshakeInitiation")
    BY <1>7, Zenon DEF PollInitiate, tm
  <2> QED
    BY <1>4, <2>1, <2>2, Zenon DEF Sent
<1>8. CASE PollRevive(t, wall)
  <2> DEFINE tm == [timers_disarmed(t) EXCEPT !.gave_up = FALSE,
                                              !.attempt_started = None]
  <2>1. /\ timers_disarmed(t).last_any_tx = timers.last_any_tx
        /\ timers_disarmed(t).confirm_keepalive_due = FALSE
        /\ timers_disarmed(t).last_data_rx \in {timers.last_data_rx, None}
    BY <1>2 DEF timers_disarmed, timers_rekeyed, Timers
  <2>2. /\ tm \in Timers
        /\ tm.last_any_tx = timers_disarmed(t).last_any_tx
        /\ tm.confirm_keepalive_due = timers_disarmed(t).confirm_keepalive_due
        /\ tm.last_data_rx = timers_disarmed(t).last_data_rx
    BY <1>2, Zenon DEF Timers, OptTicks
  <2> HIDE DEF tm
  <2>3. PollSend(t, wall, tm, "HandshakeInitiation")
    BY <1>8 DEF PollRevive, tm
  <2> QED
    BY <1>4, <2>1, <2>2, <2>3, Zenon DEF Sent
<1>9. ASSUME NEW reason \in Keepalives, send_keepalive(timers_rekeyed, t, reason)
      PROVE  \/ ret' \notin Sent \cup Keepalives
             \/ /\ ret' \notin Sent
                /\ timers'.last_any_tx = t
                /\ timers'.confirm_keepalive_due = FALSE
                /\ timers'.last_data_rx = timers.last_data_rx
                /\ timers'.last_initiation_tx = timers.last_initiation_tx
  <2> DEFINE tm == note_keepalive_tx(timers_rekeyed, t)
  <2>1. /\ tm \in Timers /\ tm.last_any_tx = t
        /\ tm.confirm_keepalive_due = FALSE
        /\ tm.last_data_rx = timers_rekeyed.last_data_rx
        /\ tm.last_initiation_tx = timers_rekeyed.last_initiation_tx
    BY <1>1, <1>2, NoteTypes, Zenon DEF note_keepalive_tx, Timers
  <2>2. /\ timers_rekeyed.last_data_rx = timers.last_data_rx
        /\ timers_rekeyed.last_initiation_tx = timers.last_initiation_tx
    BY <1>2 DEF timers_rekeyed, Timers
  <2> HIDE DEF tm
  <2>3. ASSUME timers' = rekey_after_send(tm, next_counter(current), t)
        PROVE  /\ timers'.last_any_tx = tm.last_any_tx
               /\ timers'.confirm_keepalive_due = tm.confirm_keepalive_due
               /\ timers'.last_data_rx = tm.last_data_rx
               /\ timers'.last_initiation_tx = tm.last_initiation_tx
    BY <2>1, <2>3, Zenon DEF rekey_after_send, Timers
  <2> QED
    BY <1>9, <2>1, <2>2, <2>3, Zenon DEF send_keepalive, Keepalives, Sent, tm
<1>10. CASE PollKeepalive(t) \/ PollPersistent(t)
  BY <1>1, <1>9, <1>10, Zenon DEF PollKeepalive, PollPersistent, Keepalives
<1> QED
  BY <1>5, <1>6, <1>7, <1>8, <1>10, Zenon DEF Poll, t

\* One turn of the timer arm: what was just sent is not sent again.
LEMMA BurstServe ==
  ASSUME 2 < REKEY_TIMEOUT, PersistentKeepalive = None \/ 2 < PersistentKeepalive,
         TypeOK, TimersPaced, BurstInv, NEW clock \in 0 .. (MAX_TICKS - 1),
         burst > 0 => clock <= last_now + 1, ServeTimers(clock)
  PROVE  BurstInv'
<1>1. PICK wall \in WallClock : UpdateTimers(clock, wall)
  BY Zenon DEF ServeTimers
<1>2. Poll(clock, wall) /\ result' = poll_result(ret')
  BY <1>1, Zenon DEF UpdateTimers
<1> DEFINE t == last_now'
<1>3. /\ t \in Ticks /\ last_now \in Ticks /\ last_now <= t
      /\ burst > 0 => t <= last_now + 1
  <2>1. t = clamp_now(clock)
    BY <1>2, Zenon DEF Poll
  <2>2. burst > 0 => clamp_now(clock) <= last_now + 1
    BY DEF clamp_now, TypeOK
  <2> QED
    BY <2>1, <2>2, ClampBelow, Zenon
<1>4. PacedStep
  BY <1>2, PollPaced, Zenon
<1>5. /\ timers.last_data_rx \in Ticks \cup {None}
      /\ timers.last_any_tx \in Ticks \cup {None}
      /\ timers.last_initiation_tx \in Ticks \cup {None}
  BY InstantTypes, Zenon
<1>6. timers.last_data_rx # None => timers.last_data_rx <= t
  BY <1>3, <1>5 DEF TimersPaced, PaceInv, Ticks
<1> HIDE DEF t
<1>7. CASE result' # "WriteToNetwork"
  BY <1>7 DEF ServeTimers, BurstInv
<1>8. CASE ret' \in Sent /\ result' = "WriteToNetwork"
  <2>1. arm' = "timers" /\ burst' = burst + 1
    BY <1>8 DEF ServeTimers
  <2>2. /\ timers'.last_initiation_tx = t
        /\ timers.last_initiation_tx # None =>
             t - timers.last_initiation_tx >= REKEY_TIMEOUT
    BY <1>4, <1>8, Zenon DEF PacedStep, t
  <2>3. RecentInitiation(0)' /\ RecentInitiation(1)'
    <3>1. t # None /\ t - t <= 0 /\ t - t <= 1
      BY <1>3, ConstTypes DEF Ticks
    <3> QED
      BY <2>2, <3>1 DEF RecentInitiation, t
  <2>4. burst # 2 /\ (burst = 1 => RecentKeepalive(0))
    BY <1>3, <1>5, <2>2, ConstTypes DEF BurstInv, RecentInitiation, Ticks
  <2>5. burst = 1 => RecentKeepalive(1)'
    <3>1. /\ timers'.last_any_tx = timers.last_any_tx
          /\ timers'.confirm_keepalive_due => timers.confirm_keepalive_due
          /\ timers'.last_data_rx \in {timers.last_data_rx, None}
      BY <1>2, <1>8, PollNotes, Zenon
    <3> QED
      BY <1>3, <1>5, <2>4, <3>1 DEF RecentKeepalive, t, Ticks
  <2> QED
    BY <2>1, <2>3, <2>4, <2>5 DEF BurstInv
<1>9. CASE ret' \in Keepalives /\ result' = "WriteToNetwork"
  <2>1. arm' = "timers" /\ burst' = burst + 1
    BY <1>9 DEF ServeTimers
  <2>2. /\ timers'.last_any_tx = t
        /\ timers'.confirm_keepalive_due = FALSE
        /\ timers'.last_data_rx = timers.last_data_rx
        /\ timers'.last_initiation_tx = timers.last_initiation_tx
        /\ ConfirmNow(t) \/ PassiveNow(t) \/ PersistentNow(t)
    BY <1>2, <1>9, PollNotes, Zenon DEF t
  <2>3. RecentKeepalive(0)' /\ RecentKeepalive(1)'
    <3>1. t # None /\ t - t <= 0 /\ t - t <= 1
      BY <1>3, ConstTypes DEF Ticks
    <3>2. last_now' = t
      BY DEF t
    <3> QED
      BY <1>6, <2>2, <3>1, <3>2, Zenon DEF RecentKeepalive
  <2>4. ASSUME NEW n \in 0 .. 1, RecentKeepalive(n), burst > 0
        PROVE  FALSE
    <3>1. timers.last_any_tx \in Ticks /\ since(t, timers.last_any_tx) <= 2
      BY <1>3, <1>5, <2>4 DEF RecentKeepalive, since, Ticks
    <3>2. ~ConfirmNow(t)
      BY <2>4, Zenon DEF RecentKeepalive, ConfirmNow
    <3>3. ~PassiveNow(t)
      BY <1>5, <2>4, <3>1 DEF RecentKeepalive, PassiveNow, passive_keepalive_due,
         rx_unanswered, Ticks
    <3>4. ~PersistentNow(t)
      <4>1. PersistentNow(t) =>
              /\ PersistentKeepalive # None
              /\ since(t, timers.last_any_tx) >= PersistentKeepalive
        BY <2>4 DEF RecentKeepalive, PersistentNow, persistent_base
      <4>2. PersistentKeepalive # None => PersistentKeepalive \in Nat
        BY InputAssumption
      <4> QED
        BY <1>3, <3>1, <4>1, <4>2 DEF since, Ticks
    <3> QED
      BY <2>2, <3>2, <3>3, <3>4, Zenon
  <2>5. burst # 2 /\ (burst = 1 => RecentInitiation(0))
    BY <2>4 DEF BurstInv
  <2>6. burst = 1 => RecentInitiation(1)'
    BY <1>3, <1>5, <2>2, <2>5 DEF RecentInitiation, t, Ticks
  <2> QED
    BY <2>1, <2>3, <2>5, <2>6 DEF BurstInv
<1> QED
  BY <1>2, <1>7, <1>8, <1>9 DEF poll_result, Sends, Sent, Keepalives

\* Outside the timer arm the burst is over.
LEMMA BurstStep ==
  ASSUME 2 < REKEY_TIMEOUT, PersistentKeepalive = None \/ 2 < PersistentKeepalive,
         TypeOK, TimersPaced, BurstInv, [LoopNext]_loopVars
  PROVE  BurstInv'
<1>1. CASE UNCHANGED loopVars
  BY <1>1, Zenon DEF loopVars, tunnVars, vars, protocol, BurstInv, RecentInitiation,
     RecentKeepalive
<1>2. CASE Wake
  <2>1. CASE arm = "select"
    <3>1. PICK clock \in 0 .. (MAX_TICKS - 1) : ServeTimers(clock)
      BY <1>2, <2>1, LoopAssumption DEF Wake
    <3>2. burst = 0
      BY <2>1 DEF BurstInv
    <3> QED
      BY <3>1, <3>2, BurstServe
  <2>2. CASE arm = "timers"
    <3>1. PICK clock \in 0 .. (MAX_TICKS - 1) :
            clock \in {0, last_now + 1} /\ ServeTimers(clock)
      BY <1>2, <2>2, LoopAssumption, Zenon DEF Wake
    <3>2. clock <= last_now + 1
      BY <3>1 DEF TypeOK
    <3> QED
      BY <3>1, <3>2, BurstServe
  <2> QED
    BY <1>2, <2>1, <2>2 DEF Wake
<1>3. CASE burst' = burst /\ arm # "timers" /\ arm' # "timers"
  BY <1>3 DEF BurstInv
<1> QED
  BY <1>1, <1>2, <1>3, Zenon DEF LoopNext, Turn, RecvFinish, DrainQueue, Recv, Outbound,
     Start, Quiesce, Busy, AfterRecv

\* Woken however late, the loop sends at most an initiation and a keepalive
\* before it sleeps again: "loop until Idle" cannot keep it from its select
\* while a turn takes less than a third of REKEY_TIMEOUT (5 s) and of the
\* persistent interval.
THEOREM BurstEnds ==
  ASSUME 2 < REKEY_TIMEOUT, PersistentKeepalive = None \/ 2 < PersistentKeepalive
  PROVE  LoopSpec => []PollDrains
<1>1. LoopInit => BurstInv
  BY DEF LoopInit, BurstInv
<1>2. BurstInv => PollDrains
  BY DEF BurstInv, PollDrains
<1>3. TypeOK /\ TimersPaced /\ BurstInv /\ [LoopNext]_loopVars => BurstInv'
  BY BurstStep
<1> QED
  BY <1>1, <1>2, <1>3, LoopPaced, PTL DEF LoopSpec

=============================================================================
