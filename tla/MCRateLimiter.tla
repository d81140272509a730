---------------------------- MODULE MCRateLimiter ----------------------------
(* Instances of RateLimiter for TLC. *)
EXTENDS RateLimiter, TLC

Symmetry == Permutations(Threads)

\* Without the locals no step will read again.
LiveLocals ==
  <<count, last_reset_ns, elapsed, place, admitted, zeroed, forced,
    [t \in Threads |-> IF place[t] \in {"load", "swap", "store"} THEN now_ns[t] ELSE 0],
    [t \in Threads |-> IF place[t] = "swap" THEN last[t] ELSE 0]>>

=============================================================================
