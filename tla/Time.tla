-------------------------------- MODULE Time --------------------------------
(***************************************************************************)
(* Caller-supplied time (src/time.rs): the saturating arithmetic of Ticks  *)
(* and the whitened, ratcheted TAI64N timestamp.                           *)
(***************************************************************************)
EXTENDS Consts

Ticks == 0 .. MAX_TICKS

\* Option<Ticks>
OptTicks == Ticks \cup {None}

\* Mutant of add_nanos: no saturation.
add_nanos_unchecked(t, n) == t + n

\* Ticks::add_nanos: saturates at the top of the u64 range.
add_nanos(t, n) == IF t + n <= MAX_TICKS THEN t + n ELSE MAX_TICKS

\* Ticks::since: zero when `earlier' is in the future.
since(t, earlier) == IF earlier <= t THEN t - earlier ELSE 0

\* Option::is_some_and(|x| since(now, x) >= d) and Option::is_none_or(..)
some_elapsed(x, now, d) == x # None /\ since(now, x) >= d
none_or_elapsed(x, now, d) == x # None => since(now, x) >= d

\* The earlier (later) of two optional instants, None being absent: what
\* `.into_iter().flatten().min()' (`.max()') computes two at a time.
opt_min(a, b) ==
  IF a = None THEN b ELSE IF b = None THEN a ELSE IF a <= b THEN a ELSE b

opt_max(a, b) ==
  IF a = None THEN b ELSE IF b = None THEN a ELSE IF b <= a THEN a ELSE b

\* Tai64N::from_unix: the wall clock with its low (24) bits masked off.
\* A wall-clock reading is the 96-bit TAI64N number it would be unmasked.
tai64n(wall) == wall - (wall % WHITENER)

\* Mutant of tick: the increment is lost.
tick_lost(timestamp) == timestamp

\* Tai64N::tick: the 96-bit successor, which lands in the masked bits.
tick(timestamp) == timestamp + 1

=============================================================================
