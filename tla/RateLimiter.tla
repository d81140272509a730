---------------------------- MODULE RateLimiter ----------------------------
(***************************************************************************)
(* The handshake counter shared by the tunnels of an interface             *)
(* (embed/src/rate_limiter.rs).  Threads run its methods concurrently; a   *)
(* step of this module is one atomic operation or one reading of the       *)
(* clock, so threads interleave wherever the code lets them.               *)
(***************************************************************************)
EXTENDS Integers, FiniteSets

CONSTANTS
  Threads,
  LIMIT,          \* handshakes per window before under_load engages
  RESET_PERIOD,   \* in ticks of the clock (one second in the code)
  MaxTime,        \* bound on the clock, for model checking
  MaxCount,       \* bound on the counter, for model checking
  MaxForced       \* bound on the calls of reset, for model checking

ASSUME LimiterAssumption ==
  /\ IsFiniteSet(Threads)
  /\ LIMIT \in Nat
  /\ RESET_PERIOD \in Nat \ {0}
  /\ MaxTime \in Nat /\ MaxCount \in Nat /\ MaxForced \in Nat

VARIABLES
  count, last_reset_ns,   \* the two atomics
  elapsed,                \* epoch.elapsed(), the clock all threads read
  place,                  \* where each thread stands in a method
  now_ns, last,           \* locals of maybe_reset and reset
  admitted,               \* history: calls of note_handshake that answered false
  zeroed,                 \* history: stores of zero to count
  forced                  \* history: calls of reset

locals == <<place, now_ns, last>>
limiterVars == <<count, last_reset_ns, elapsed, locals, admitted, zeroed, forced>>

Places == {"out", "load", "swap", "zero", "stamp", "store"}

LimiterTypeOK ==
  /\ count \in Nat /\ last_reset_ns \in Nat /\ elapsed \in Nat
  /\ place \in [Threads -> Places]
  /\ now_ns \in [Threads -> Nat] /\ last \in [Threads -> Nat]
  /\ admitted \in Nat /\ zeroed \in Nat /\ forced \in Nat

\* RateLimiter::new
LimiterInit ==
  /\ count = 0 /\ last_reset_ns = 0 /\ elapsed = 0
  /\ place = [t \in Threads |-> "out"]
  /\ now_ns = [t \in Threads |-> 0] /\ last = [t \in Threads |-> 0]
  /\ admitted = 0 /\ zeroed = 0 /\ forced = 0

goto(t, to) == place' = [place EXCEPT ![t] = to]

\* One fetch_add; the answer is judged on the value before it.
note_handshake(t) ==
  /\ place[t] = "out" /\ count < MaxCount
  /\ count' = count + 1
  /\ admitted' = IF count >= LIMIT THEN admitted ELSE admitted + 1
  /\ UNCHANGED <<last_reset_ns, elapsed, locals, zeroed, forced>>

-----------------------------------------------------------------------------
(* maybe_reset: clock, load, compare_exchange, store *)

ReadClock(t) ==
  /\ place[t] = "out"
  /\ now_ns' = [now_ns EXCEPT ![t] = elapsed]
  /\ goto(t, "load")
  /\ UNCHANGED <<count, last_reset_ns, elapsed, last, admitted, zeroed, forced>>

\* saturating_sub: a reading before `last' has elapsed by zero.
period_over(now, since) == since <= now /\ now - since >= RESET_PERIOD

LoadLast(t) ==
  /\ place[t] = "load"
  /\ last' = [last EXCEPT ![t] = last_reset_ns]
  /\ goto(t, IF period_over(now_ns[t], last_reset_ns) THEN "swap" ELSE "out")
  /\ UNCHANGED <<count, last_reset_ns, elapsed, now_ns, admitted, zeroed, forced>>

\* Mutant of CompareExchange: a plain store, which every caller wins.
CompareExchange_store(t) ==
  /\ place[t] = "swap"
  /\ last_reset_ns' = now_ns[t]
  /\ goto(t, "zero")
  /\ UNCHANGED <<count, elapsed, now_ns, last, admitted, zeroed, forced>>

CompareExchange(t) ==
  /\ place[t] = "swap"
  /\ \/ /\ last_reset_ns = last[t]
        /\ last_reset_ns' = now_ns[t]
        /\ goto(t, "zero")
     \/ /\ last_reset_ns # last[t]
        /\ goto(t, "out")
        /\ UNCHANGED last_reset_ns
  /\ UNCHANGED <<count, elapsed, now_ns, last, admitted, zeroed, forced>>

StoreZero(t) ==
  /\ place[t] = "zero"
  /\ count' = 0
  /\ zeroed' = zeroed + 1
  /\ goto(t, "out")
  /\ UNCHANGED <<last_reset_ns, elapsed, now_ns, last, admitted, forced>>

-----------------------------------------------------------------------------
(* reset: store, clock, store *)

ForceZero(t) ==
  /\ place[t] = "out" /\ forced < MaxForced
  /\ count' = 0
  /\ zeroed' = zeroed + 1
  /\ forced' = forced + 1
  /\ goto(t, "stamp")
  /\ UNCHANGED <<last_reset_ns, elapsed, now_ns, last, admitted>>

ForceRead(t) ==
  /\ place[t] = "stamp"
  /\ now_ns' = [now_ns EXCEPT ![t] = elapsed]
  /\ goto(t, "store")
  /\ UNCHANGED <<count, last_reset_ns, elapsed, last, admitted, zeroed, forced>>

ForceStamp(t) ==
  /\ place[t] = "store"
  /\ last_reset_ns' = now_ns[t]
  /\ goto(t, "out")
  /\ UNCHANGED <<count, elapsed, now_ns, last, admitted, zeroed, forced>>

Tick ==
  /\ elapsed < MaxTime
  /\ elapsed' = elapsed + 1
  /\ UNCHANGED <<count, last_reset_ns, locals, admitted, zeroed, forced>>

LimiterNext ==
  \/ Tick
  \/ \E t \in Threads :
       \/ note_handshake(t)
       \/ ReadClock(t) \/ LoadLast(t) \/ CompareExchange(t) \/ StoreZero(t)
       \/ ForceZero(t) \/ ForceRead(t) \/ ForceStamp(t)

LimiterSpec == LimiterInit /\ [][LimiterNext]_limiterVars

-----------------------------------------------------------------------------
\* However threads interleave inside maybe_reset, the limiter admits no more
\* than LIMIT handshakes per period in the long run: at most LIMIT for each
\* time the count was zeroed, and, while nobody calls reset, the count is
\* zeroed at most once per elapsed period ("only one caller wins the CAS",
\* rate_limiter.rs:65).
AdmissionBounded ==
  /\ admitted <= LIMIT * (zeroed + 1)
  /\ forced = 0 => zeroed * RESET_PERIOD <= elapsed

=============================================================================
