---------------------------- MODULE MCCookieGate ----------------------------
(* An instance of CookieGate for TLC. *)
EXTENDS CookieGate, TLC

Symmetry == Permutations(Remotes)

\* What the gate answered last is read by nothing.
View == <<jar, now, held, minted, nonce_counter, nonces>>

MCClock == 0 .. (MAX_TICKS - 1)

\* The first nonce carries twice.
MCSeeds == {<<1, 1, 0>>}

=============================================================================
