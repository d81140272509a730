------------------------------- MODULE Consts -------------------------------
(***************************************************************************)
(* The protocol constants of src/consts.rs.  Durations are natural numbers *)
(* of an unspecified tick (nanoseconds in the code); the relations between *)
(* derived durations are those of the source.                              *)
(***************************************************************************)
EXTENDS Integers

CONSTANTS
  None,                      \* Option::None
  MAX_TICKS,                 \* u64::MAX, where Ticks arithmetic saturates
  REKEY_AFTER_MESSAGES,
  REJECT_AFTER_MESSAGES,
  REKEY_AFTER_TIME,
  REJECT_AFTER_TIME,
  REKEY_ATTEMPT_TIME,
  REKEY_TIMEOUT,
  KEEPALIVE_TIMEOUT,
  REKEY_TIMEOUT_JITTER_MAX,
  COOKIE_LIFETIME,
  WINDOW_BITS,               \* src/replay.rs: width of the anti-replay window
  WHITENER                   \* src/time.rs: wall-clock granularity of TAI64N

ASSUME NoneAssumption == None \notin Int

ASSUME DurationAssumption ==
  /\ MAX_TICKS \in Nat
  /\ REKEY_AFTER_TIME \in Nat
  /\ REJECT_AFTER_TIME \in Nat
  /\ REKEY_ATTEMPT_TIME \in Nat
  /\ REKEY_TIMEOUT \in Nat
  /\ KEEPALIVE_TIMEOUT \in Nat
  /\ REKEY_TIMEOUT_JITTER_MAX \in Nat
  /\ COOKIE_LIFETIME \in Nat

\* All four are positive in the code; the subtraction that defines
\* REKEY_AFTER_TIME_RECV is a compile-time u64 expression and so not negative.
ASSUME PositiveAssumption ==
  /\ 0 < REKEY_TIMEOUT
  /\ 0 < KEEPALIVE_TIMEOUT
  /\ 0 < COOKIE_LIFETIME
  /\ KEEPALIVE_TIMEOUT + REKEY_TIMEOUT <= REJECT_AFTER_TIME

ASSUME MessageAssumption ==
  /\ REKEY_AFTER_MESSAGES \in Nat
  /\ REJECT_AFTER_MESSAGES \in Nat
  /\ WINDOW_BITS \in Nat \ {0}
  /\ WHITENER \in Nat \ {0}

SESSION_DISCARD_TIME == REJECT_AFTER_TIME * 3

REKEY_AFTER_TIME_RECV == REJECT_AFTER_TIME - KEEPALIVE_TIMEOUT - REKEY_TIMEOUT

DEAD_PEER_TIMEOUT == KEEPALIVE_TIMEOUT + REKEY_TIMEOUT

\* 5 s and 165 s in the code: by the time the receive path asks for a rekey,
\* the initiation that made the session no longer holds back the next one.
ASSUME RecvAssumption == REKEY_TIMEOUT <= REKEY_AFTER_TIME_RECV

=============================================================================
