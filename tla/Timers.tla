------------------------------- MODULE Timers -------------------------------
(***************************************************************************)
(* Timer bookkeeping (src/timers.rs).  A Timers record says when things    *)
(* last happened; the operators below are the methods of the struct, one   *)
(* for each, as functions from the record to the record or to a Boolean.   *)
(***************************************************************************)
EXTENDS Time

Timers ==
  [ last_data_tx          : OptTicks,
    last_data_rx          : OptTicks,
    last_any_tx           : OptTicks,
    last_any_rx           : OptTicks,
    attempt_started       : OptTicks,
    retransmit_at         : OptTicks,
    last_initiation_tx    : OptTicks,
    rekey_due             : BOOLEAN,
    confirm_keepalive_due : BOOLEAN,
    gave_up               : BOOLEAN ]

\* Timers { last_initiation_tx: last, ..Timers::default() }
default_timers(last) ==
  [ last_data_tx          |-> None,
    last_data_rx          |-> None,
    last_any_tx           |-> None,
    last_any_rx           |-> None,
    attempt_started       |-> None,
    retransmit_at         |-> None,
    last_initiation_tx    |-> last,
    rekey_due             |-> FALSE,
    confirm_keepalive_due |-> FALSE,
    gave_up               |-> FALSE ]

note_data_tx(tm, now) ==
  [tm EXCEPT !.last_data_tx = now, !.last_any_tx = now,
             !.confirm_keepalive_due = FALSE, !.gave_up = FALSE]

note_keepalive_tx(tm, now) ==
  [tm EXCEPT !.last_any_tx = now, !.confirm_keepalive_due = FALSE]

note_rx(tm, now, is_keepalive) ==
  [tm EXCEPT !.last_any_rx = now,
             !.last_data_rx = IF is_keepalive THEN @ ELSE now,
             !.gave_up = FALSE]

\* Mutant of note_initiation_tx: Rekey-Timeout left out of the deadline.
note_initiation_tx_at_once(tm, now, jitter) ==
  [tm EXCEPT !.attempt_started = IF @ = None THEN now ELSE @,
             !.last_initiation_tx = now,
             !.retransmit_at = add_nanos(now, jitter),
             !.rekey_due = FALSE]

\* jitter.min(REKEY_TIMEOUT_JITTER_MAX) is the identity on the jitters drawn.
note_initiation_tx(tm, now, jitter) ==
  [tm EXCEPT !.attempt_started = IF @ = None THEN now ELSE @,
             !.last_initiation_tx = now,
             !.retransmit_at = add_nanos(add_nanos(now, REKEY_TIMEOUT), jitter),
             !.rekey_due = FALSE]

note_handshake_complete(tm) ==
  [tm EXCEPT !.attempt_started = None, !.retransmit_at = None,
             !.rekey_due = FALSE, !.gave_up = FALSE]

note_gave_up(tm) ==
  [tm EXCEPT !.attempt_started = None, !.retransmit_at = None,
             !.rekey_due = FALSE, !.gave_up = TRUE]

\* Mutant of attempt_exhausted: the window counted from the last initiation.
attempt_exhausted_restarted(tm, now) ==
  some_elapsed(tm.last_initiation_tx, now, REKEY_ATTEMPT_TIME)

attempt_exhausted(tm, now) ==
  some_elapsed(tm.attempt_started, now, REKEY_ATTEMPT_TIME)

\* Mutant of initiation_allowed: no pacing before the first of an attempt.
initiation_allowed_fresh(tm, now) ==
  tm.attempt_started # None =>
    none_or_elapsed(tm.last_initiation_tx, now, REKEY_TIMEOUT)

initiation_allowed(tm, now) ==
  none_or_elapsed(tm.last_initiation_tx, now, REKEY_TIMEOUT)

\* Nothing at all was sent since the last data arrived (None: never).
rx_unanswered(tm) == tm.last_any_tx # None => tm.last_any_tx < tm.last_data_rx

passive_keepalive_due(tm, now) ==
  /\ tm.last_data_rx # None
  /\ rx_unanswered(tm)
  /\ since(now, tm.last_data_rx) >= KEEPALIVE_TIMEOUT

passive_keepalive_at(tm) ==
  IF tm.last_data_rx # None /\ rx_unanswered(tm)
    THEN add_nanos(tm.last_data_rx, KEEPALIVE_TIMEOUT) ELSE None

\* Nothing at all was received since the last data was sent.
tx_unanswered(tm) == tm.last_any_rx # None => tm.last_any_rx < tm.last_data_tx

dead_peer_due(tm, now) ==
  /\ ~tm.gave_up
  /\ tm.last_data_tx # None
  /\ tx_unanswered(tm)
  /\ since(now, tm.last_data_tx) >= DEAD_PEER_TIMEOUT

\* Mutant of dead_peer_at: counted from the last message instead of the data.
dead_peer_at_any(tm) ==
  IF ~tm.gave_up /\ tm.last_data_tx # None /\ tx_unanswered(tm)
    THEN add_nanos(tm.last_any_tx, DEAD_PEER_TIMEOUT) ELSE None

dead_peer_at(tm) ==
  IF ~tm.gave_up /\ tm.last_data_tx # None /\ tx_unanswered(tm)
    THEN add_nanos(tm.last_data_tx, DEAD_PEER_TIMEOUT) ELSE None

persistent_revive_allowed(tm, now, interval) ==
  tm.gave_up => none_or_elapsed(tm.last_initiation_tx, now, interval)

=============================================================================
