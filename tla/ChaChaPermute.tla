---------------------------- MODULE ChaChaPermute ----------------------------
(***************************************************************************)
(* The ChaCha20 permutation (permute and the qr! macros of                 *)
(* src/crypto/chacha20.rs, simd/src/avx2.rs and simd/src/neon.rs) over the *)
(* words or the vectors of words of one backend.                           *)
(***************************************************************************)
EXTENDS Integers, Sequences

CONSTANTS DOUBLE_ROUNDS,   \* 10
          sum(_, _),       \* the backend's addition
          mix(_, _, _)     \* mix(d, a, n): d xor a, rotated left by n

\* The quarter rounds of a double round: columns, then diagonals.
QUARTERS ==
  <<<<1, 5, 9, 13>>, <<2, 6, 10, 14>>, <<3, 7, 11, 15>>, <<4, 8, 12, 16>>,
    <<1, 6, 11, 16>>, <<2, 7, 12, 13>>, <<3, 8, 9, 14>>, <<4, 5, 10, 15>>>>

\* qr!, twice half of it.
half_qr(x, q, n, m) ==
  LET a == sum(x[q[1]], x[q[2]])
      d == mix(x[q[4]], a, n)
      c == sum(x[q[3]], d)
  IN  [x EXCEPT ![q[1]] = a, ![q[4]] = d, ![q[3]] = c, ![q[2]] = mix(@, c, m)]
qr(x, q) == half_qr(half_qr(x, q, 4, 3), q, 2, 1)

permute(state) ==
  LET x[k \in 0 .. (8 * DOUBLE_ROUNDS)] ==
        IF k = 0 THEN state ELSE qr(x[k - 1], QUARTERS[((k - 1) % 8) + 1])
  IN  x[8 * DOUBLE_ROUNDS]

=============================================================================
