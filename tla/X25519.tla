------------------------------ MODULE X25519 --------------------------------
(***************************************************************************)
(* Scalar multiplication on a Montgomery curve (x25519 and shared_secret   *)
(* of src/crypto/x25519.rs).  The field is a parameter: its operations are *)
(* those of Fe25519, or plain arithmetic modulo a small prime.  BITS is    *)
(* 255, A24 121665; a scalar is a number of BITS + 1 bits.                 *)
(***************************************************************************)
EXTENDS Integers

CONSTANTS add(_, _), sub(_, _), mul(_, _), square(_), mul_small(_, _), invert(_),
          ZERO, ONE, A24, BITS

bit(k, t) == (k \div 2 ^ t) % 2

\* Mutant of clamp_scalar: the low bits are kept.
clamp_scalar_low(k) == (k % (2 ^ (BITS - 1))) + 2 ^ (BITS - 1)

\* The three low bits cleared, the top one too, and the one below it set.
clamp_scalar(k) ==
  LET low == k % (2 ^ (BITS - 1)) IN (low - (low % 8)) + 2 ^ (BITS - 1)

\* Fe::cswap, both coordinates.
cswap(swap, s) ==
  IF swap = 1 THEN [s EXCEPT !.x2 = s.x3, !.z2 = s.z3, !.x3 = s.x2, !.z3 = s.z2]
              ELSE s

\* One ladder step on x2 : z2 and x3 : z3, whose difference is x1.
ladder_step(x1, s) ==
  LET a  == add(s.x2, s.z2)
      aa == square(a)
      b  == sub(s.x2, s.z2)
      bb == square(b)
      e  == sub(aa, bb)
      da == mul(sub(s.x3, s.z3), a)
      cb == mul(add(s.x3, s.z3), b)
  IN  [x2 |-> mul(aa, bb),
       z2 |-> mul(e, add(aa, mul_small(e, A24))),
       x3 |-> square(add(da, cb)),
       z3 |-> mul(x1, square(sub(da, cb)))]

\* Mutant of ladder: the swap owed by the last step is not undone.
ladder_owing(k, x1) ==
  LET start == [x2 |-> ONE, z2 |-> ZERO, x3 |-> x1, z3 |-> ONE]
      state[t \in 0 .. BITS] ==
        IF t = BITS THEN start
          ELSE LET due == IF t = BITS - 1 THEN bit(k, t) ELSE (bit(k, t + 1) + bit(k, t)) % 2
               IN  ladder_step(x1, cswap(due, state[t + 1]))
  IN  state[0]

\* The steps from the top bit down.  The pairs stay swapped while bits repeat,
\* and are swapped when a bit differs from the one above it; a last swap undoes
\* what the lowest bit owes.
ladder(k, x1) ==
  LET start == [x2 |-> ONE, z2 |-> ZERO, x3 |-> x1, z3 |-> ONE]
      state[t \in 0 .. BITS] ==
        IF t = BITS THEN start
          ELSE LET due == IF t = BITS - 1 THEN bit(k, t) ELSE (bit(k, t + 1) + bit(k, t)) % 2
               IN  ladder_step(x1, cswap(due, state[t + 1]))
  IN  cswap(bit(k, 0), state[0])

\* The affine coordinate, zero when z2 is.
scalar_mult(k, x1) == LET s == ladder(k, x1) IN mul(s.x2, invert(s.z2))

x25519(k, x1) == scalar_mult(clamp_scalar(k), x1)

\* Zero is refused (InvalidPublicKey).
checked(x) == [refused |-> x = ZERO, secret |-> x]

\* Mutant of shared_secret: the top bit is set for the public key only.
shared_secret_topless(k, x1) == checked(scalar_mult(k - (k % 8), x1))

shared_secret(k, x1) == checked(x25519(k, x1))

-----------------------------------------------------------------------------
(* The reference: the group of B y^2 = x^3 + A x^2 + x, by affine addition *)

times_A(x) == add(mul_small(x, 4 * A24), add(x, x))

Infinity == [inf |-> TRUE, x |-> ZERO, y |-> ZERO]

\* Every x1 is the coordinate of (x1, 1) on the curve whose B is the right-hand
\* side at x1, or of a point with y = 0 when that is zero.
Curve(x1) == add(mul(square(x1), x1), add(mul(x1, times_A(x1)), x1))
Point(x1) ==
  [inf |-> FALSE, x |-> x1, y |-> IF Curve(x1) = ZERO THEN ZERO ELSE ONE]

Plus(B, p, q) ==
  LET slope ==
        IF p.x = q.x
          THEN mul(add(add(mul_small(square(p.x), 3), mul_small(times_A(p.x), 2)), ONE),
                   invert(mul_small(mul(B, p.y), 2)))
          ELSE mul(sub(q.y, p.y), invert(sub(q.x, p.x)))
      x == sub(sub(mul(B, square(slope)), times_A(ONE)), add(p.x, q.x))
  IN  CASE p.inf -> q
        [] q.inf -> p
        [] ~p.inf /\ ~q.inf /\ p.x = q.x /\ add(p.y, q.y) = ZERO -> Infinity
        [] OTHER -> [inf |-> FALSE, x |-> x,
                     y |-> sub(mul(slope, sub(p.x, x)), p.y)]

Multiple(n, x1) ==
  LET B == IF Curve(x1) = ZERO THEN ONE ELSE Curve(x1)
      m[j \in 0 .. n] ==
        IF j = 0 THEN Infinity
          ELSE LET half == m[j \div 2]
                   even == Plus(B, half, half)
               IN  IF j % 2 = 0 THEN even ELSE Plus(B, Point(x1), even)
  IN  m[n]

\* The ladder multiplies: for every scalar and every coordinate, of the curve,
\* of its twist and of low order, its affine result is that of the group.
LadderCorrect(k, x1) == scalar_mult(k, x1) = Multiple(k, x1).x

\* A point whose order divides the cofactor 8 gives no shared secret, whatever
\* the private key: the low bits of a clamped scalar are zero.
LowOrderRefused(k, x1) ==
  Multiple(8, x1).inf => shared_secret(k, x1).refused

\* Both ends of a Diffie-Hellman exchange of public values get the same answer.
SecretsAgree(j, k, x1) ==
  \A of_j \in {x25519(j, x1)}, of_k \in {x25519(k, x1)} :
    shared_secret(j, of_k) = shared_secret(k, of_j)

=============================================================================
