------------------------------ MODULE Fe25519 -------------------------------
(***************************************************************************)
(* Field elements in five limbs (Fe of src/crypto/x25519.rs): Limb is      *)
(* 2^51, FOLD 19, the field that of p = Limb^5 - FOLD.  Elements are not   *)
(* kept reduced; an operation that takes or gives a limb out of its bounds *)
(* would wrap in the code's u64 and u128 words, so the operators here are  *)
(* those of the code as long as the bounds hold.                           *)
(***************************************************************************)
EXTENDS Integers, Sequences

CONSTANTS Limb, FOLD

\* Fe::from_bytes: the five limbs of a number, whatever lies above dropped.
from_bytes(n) ==
  <<n % Limb, (n \div Limb) % Limb, (n \div (Limb * Limb)) % Limb,
    (n \div (Limb * Limb * Limb)) % Limb,
    (n \div (Limb * Limb * Limb * Limb)) % Limb>>

add(a, b) ==
  <<a[1] + b[1], a[2] + b[2], a[3] + b[3], a[4] + b[4], a[5] + b[5]>>

\* Twice p, limb by limb, added before a subtraction.
TWO_P0 == 2 * Limb - 2 * FOLD
TWO_P1234 == 2 * Limb - 2

sub(a, b) ==
  <<a[1] + TWO_P0 - b[1], a[2] + TWO_P1234 - b[2], a[3] + TWO_P1234 - b[3],
    a[4] + TWO_P1234 - b[4], a[5] + TWO_P1234 - b[5]>>

\* Fe::carry: one pass upwards, the last carry folded into the first limb, and
\* one carry more.
carried(t) ==
  LET u1 == t[2] + (t[1] \div Limb)
      u2 == t[3] + (u1 \div Limb)
      u3 == t[4] + (u2 \div Limb)
  IN  <<t[1], u1, u2, u3, t[5] + (u3 \div Limb)>>

folded(u) == (u[1] % Limb) + (u[5] \div Limb) * FOLD

carry(t) ==
  LET u == carried(t)
  IN  <<folded(u) % Limb, (u[2] % Limb) + (folded(u) \div Limb),
        u[3] % Limb, u[4] % Limb, u[5] % Limb>>

\* Schoolbook columns, what lies above the fifth limb folded.
columns(a, b) ==
  LET b1_19 == b[2] * FOLD
      b2_19 == b[3] * FOLD
      b3_19 == b[4] * FOLD
      b4_19 == b[5] * FOLD
  IN  <<a[1] * b[1] + a[2] * b4_19 + a[3] * b3_19 + a[4] * b2_19 + a[5] * b1_19,
        a[1] * b[2] + a[2] * b[1] + a[3] * b4_19 + a[4] * b3_19 + a[5] * b2_19,
        a[1] * b[3] + a[2] * b[2] + a[3] * b[1] + a[4] * b4_19 + a[5] * b3_19,
        a[1] * b[4] + a[2] * b[3] + a[3] * b[2] + a[4] * b[1] + a[5] * b4_19,
        a[1] * b[5] + a[2] * b[4] + a[3] * b[3] + a[4] * b[2] + a[5] * b[1]>>

mul(a, b) == carry(columns(a, b))

\* Mutant of square_columns: the second column's own square is doubled too.
square_columns_doubled(a) ==
  <<a[1] * a[1] + (2 * a[2]) * (a[5] * FOLD) + (2 * a[3]) * (a[4] * FOLD),
    (2 * a[1]) * a[2] + (2 * a[3]) * (a[5] * FOLD) + (2 * a[4]) * (a[4] * FOLD),
    (2 * a[1]) * a[3] + a[2] * a[2] + (2 * a[4]) * (a[5] * FOLD),
    (2 * a[1]) * a[4] + (2 * a[2]) * a[3] + a[5] * (a[5] * FOLD),
    (2 * a[1]) * a[5] + (2 * a[2]) * a[4] + a[3] * a[3]>>

\* The same columns with their symmetric terms doubled.
square_columns(a) ==
  <<a[1] * a[1] + (2 * a[2]) * (a[5] * FOLD) + (2 * a[3]) * (a[4] * FOLD),
    (2 * a[1]) * a[2] + (2 * a[3]) * (a[5] * FOLD) + a[4] * (a[4] * FOLD),
    (2 * a[1]) * a[3] + a[2] * a[2] + (2 * a[4]) * (a[5] * FOLD),
    (2 * a[1]) * a[4] + (2 * a[2]) * a[3] + a[5] * (a[5] * FOLD),
    (2 * a[1]) * a[5] + (2 * a[2]) * a[4] + a[3] * a[3]>>

square(a) == carry(square_columns(a))

mul_small(a, k) == carry(<<a[1] * k, a[2] * k, a[3] * k, a[4] * k, a[5] * k>>)

\* Mutant of CHAIN: one squaring too few.
CHAIN_short ==
  << <<1, 1, 0>>, <<2, 2, 1>>, <<3, 0, 2>>, <<4, 1, 3>>, <<5, 5, 5>>,
     <<6, 10, 6>>, <<7, 20, 7>>, <<8, 10, 6>>, <<9, 50, 9>>, <<10, 100, 10>>,
     <<11, 49, 9>>, <<12, 5, 4>> >>

\* The chain of Fe::invert.  Its elements are numbered, z being the first; each
\* further one <<x, n, y>> is element x squared n times, multiplied by element
\* y (0: not multiplied).  In order they are z2, z9, z11, z_5_0, z_10_0, z_20_0,
\* z_40_0, z_50_0, z_100_0, z_200_0, z_250_0 and the inverse.
CHAIN ==
  << <<1, 1, 0>>, <<2, 2, 1>>, <<3, 0, 2>>, <<4, 1, 3>>, <<5, 5, 5>>,
     <<6, 10, 6>>, <<7, 20, 7>>, <<8, 10, 6>>, <<9, 50, 9>>, <<10, 100, 10>>,
     <<11, 50, 9>>, <<12, 5, 4>> >>

nsquare(x, n) ==
  LET f[j \in 0 .. n] == IF j = 0 THEN x ELSE square(f[j - 1]) IN f[n]

invert(z) ==
  LET e[i \in 1 .. 13] ==
        IF i = 1 THEN z
          ELSE LET c == CHAIN[i - 1]
               IN  IF c[3] = 0 THEN nsquare(e[c[1]], c[2])
                     ELSE mul(nsquare(e[c[1]], c[2]), e[c[3]])
  IN  e[13]

-----------------------------------------------------------------------------
(* to_bytes *)

\* 1 iff the value is at least p: the carry out of value + FOLD.
exceeds(l) ==
  LET q1 == (l[1] + FOLD) \div Limb
      q2 == (l[2] + q1) \div Limb
      q3 == (l[3] + q2) \div Limb
      q4 == (l[4] + q3) \div Limb
  IN  (l[5] + q4) \div Limb

Value(l) ==
  l[1] + Limb * (l[2] + Limb * (l[3] + Limb * (l[4] + Limb * l[5])))

\* Mutant of to_bytes: p is never subtracted.
to_bytes_unreduced(a) == Value(carry(a))

\* FOLD times q is added and carried up, and what leaves the fifth limb dropped.
to_bytes(a) ==
  LET l  == carry(a)
      l0 == l[1] + exceeds(l) * FOLD
      l1 == l[2] + l0 \div Limb
      l2 == l[3] + l1 \div Limb
      l3 == l[4] + l2 \div Limb
      l4 == l[5] + l3 \div Limb
  IN  Value(<<l0 % Limb, l1 % Limb, l2 % Limb, l3 % Limb, l4 % Limb>>)

-----------------------------------------------------------------------------
(* The field the limbs stand for *)

p == Limb * Limb * Limb * Limb * Limb - FOLD

Residue(a) == Value(a) % p

\* x * y % p by the limbs of y, within the checker's integers.
Product(x, y) ==
  LET up(n, d) == (x * d + ((Limb * n) % p)) % p
      d == from_bytes(y)
  IN  up(up(up(up(up(0, d[5]), d[4]), d[3]), d[2]), d[1])

\* Every operation computes in the field whatever the representatives, and the
\* two multipliers agree: columns, folds and carries lose nothing.
Computes(a, b) ==
  /\ Residue(add(a, b)) = (Residue(a) + Residue(b)) % p
  /\ Residue(sub(a, b)) = (Residue(a) - Residue(b)) % p
  /\ Residue(mul(a, b)) = Product(Residue(a), Residue(b))
  /\ square(a) = mul(a, a)
  /\ mul_small(a, 7) = mul(a, from_bytes(7))

\* The bounds of the code's comments.  Weakly reduced: what carry leaves, and
\* what sub takes.  Wide: what add and sub give, and what the multipliers take.
Element(a, bound) ==
  /\ DOMAIN a = 1 .. 5
  /\ \A i \in 1 .. 5 : a[i] \in Nat /\ a[i] < bound
Weak(a) == Element(a, Limb + 8192)
Wide(a) == Element(a, 3 * Limb + 8192)

\* The addition chain raises to p - 2 = 2^255 - 21: computed modulo m, which
\* over enough m pins down the whole exponent (the chain is not scaled).
ChainInverts(m) ==
  LET power[j \in 0 .. 255] ==   \* 2^j modulo m
        IF j = 0 THEN 1
          ELSE LET half == power[j \div 2]
               IN  (((half * half) % m) * (1 + (j % 2))) % m
      exponent[i \in 1 .. 13] ==
        IF i = 1 THEN 1
          ELSE LET c == CHAIN[i - 1]
                   squared == (exponent[c[1]] * power[c[2]]) % m
               IN  IF c[3] = 0 THEN squared ELSE (squared + exponent[c[3]]) % m
  IN  exponent[13] = (power[255] - 21) % m

\* The encoding of a weakly reduced element is the one canonical one, also for
\* values just below and above p and 2^255.
Encodes(a) == to_bytes(a) = Residue(a)

=============================================================================
