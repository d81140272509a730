----------------------------- MODULE WordProofs -----------------------------
(***************************************************************************)
(* Proofs about the code that packs numbers into machine words.            *)
(*                                                                         *)
(* The replay window (replay.rs): the ring bitmap answers as the set of    *)
(* all counters accepted so far, for every window, word size and counter.  *)
(*                                                                         *)
(* The field limbs (crypto/x25519.rs): no sum, difference or product of    *)
(* the ladder leaves the machine word the code computes it in.             *)
(* The limbs hold what field arithmetic says they hold, `to_bytes' gives   *)
(* the one encoding of it, and a step of the ladder over limbs is the step *)
(* over the integers modulo p.                                             *)
(***************************************************************************)
EXTENDS ReplayWindow, FieldCalls, TLAPS

-----------------------------------------------------------------------------
(* Arithmetic *)

\* Quotient and remainder.
LEMMA DivMod ==
  ASSUME NEW n \in Nat, NEW d \in Nat \ {0}
  PROVE  /\ n \div d \in Nat
         /\ n % d \in 0 .. (d - 1)
         /\ n = d * (n \div d) + (n % d)
  BY Z3

\* A product with a positive factor outgrows the other factor's multiples.
LEMMA MulMono ==
  ASSUME NEW d \in Nat \ {0}, NEW x \in Int, NEW y \in Int, x <= y
  PROVE  d * x \in Int /\ d * y \in Int /\ d * x <= d * y
  BY Z3

\* Quotients are ordered as the numbers.
LEMMA DivMono ==
  ASSUME NEW d \in Nat \ {0}, NEW x \in Nat, NEW y \in Nat, x <= y
  PROVE  x \div d <= y \div d
<1> DEFINE u == x \div d
           v == y \div d
<1>1. u \in Nat /\ x % d \in 0 .. (d - 1) /\ x = d * u + (x % d)
  BY DivMod
<1>2. v \in Nat /\ y % d \in 0 .. (d - 1) /\ y = d * v + (y % d)
  BY DivMod
<1> HIDE DEF u, v
<1>3. u <= v
  <2> SUFFICES ASSUME v + 1 <= u PROVE FALSE
    BY <1>1, <1>2
  <2>1. d * (v + 1) <= d * u
    BY <1>1, <1>2, MulMono
  <2>2. d * (v + 1) = d * v + d
    BY <1>2, Z3
  <2>3. d * v \in Int /\ d * u \in Int
    BY <1>1, <1>2, MulMono
  <2> QED BY <1>1, <1>2, <2>1, <2>2, <2>3
<1> QED BY <1>3 DEF u, v

\* A number is known from its quotient and its remainder.
LEMMA DivModUnique ==
  ASSUME NEW d \in Nat \ {0}, NEW x \in Nat, NEW y \in Nat,
         x \div d = y \div d, x % d = y % d
  PROVE  x = y
<1>1. x = d * (x \div d) + (x % d)
  BY DivMod
<1>2. y = d * (y \div d) + (y % d)
  BY DivMod
<1> QED BY <1>1, <1>2

\* Remainders of integers, negative ones included.
LEMMA IntMod ==
  ASSUME NEW x \in Int, NEW d \in Nat \ {0}
  PROVE  x \div d \in Int /\ x % d \in 0 .. (d - 1) /\ x = d * (x \div d) + (x % d)
  BY Z3

\* A number between two multiples is neither.
LEMMA NoMultiple ==
  ASSUME NEW d \in Nat \ {0}, NEW k \in Int, d * k < d, 0 - d < d * k
  PROVE  k = 0
<1>1. CASE k >= 1
  BY <1>1, Z3
<1>2. CASE k <= 0 - 1
  BY <1>2, Z3
<1> QED BY <1>1, <1>2, Z3

\* Quotient and remainder are the only ones.
LEMMA ModUnique ==
  ASSUME NEW d \in Nat \ {0}, NEW x \in Int, NEW q \in Int, NEW r \in 0 .. (d - 1),
         x = d * q + r
  PROVE  x % d = r /\ x \div d = q
<1> DEFINE u == x \div d
           v == x % d
<1>1. u \in Int /\ v \in 0 .. (d - 1) /\ x = d * u + v
  BY IntMod
<1> HIDE DEF u, v
<1>2. d * (u - q) = r - v
  BY <1>1, Z3
<1>3. u - q = 0
  <2>1. u - q \in Int /\ d * (u - q) < d /\ 0 - d < d * (u - q)
    BY <1>1, <1>2, Z3
  <2> QED BY <2>1, NoMultiple
<1>4. u = q /\ v = r
  BY <1>1, <1>3, <1>2, Z3
<1> QED BY <1>4 DEF u, v

\* Numbers that differ by a multiple have one remainder.
LEMMA ModSame ==
  ASSUME NEW d \in Nat \ {0}, NEW x \in Int, NEW y \in Int, NEW k \in Int,
         x = y + k * d
  PROVE  x % d = y % d
<1> DEFINE u == y \div d
           v == y % d
<1>1. u \in Int /\ v \in 0 .. (d - 1) /\ y = d * u + v
  BY IntMod
<1> HIDE DEF u, v
<1>2. u + k \in Int /\ x = d * (u + k) + v
  BY <1>1, Z3
<1>3. x % d = v
  BY <1>1, <1>2, ModUnique
<1> QED BY <1>3 DEF v

\* A remainder may be taken of a summand or of a factor first.
LEMMA ModSum ==
  ASSUME NEW d \in Nat \ {0}, NEW x \in Int, NEW y \in Int
  PROVE  /\ ((x % d) + y) % d = (x + y) % d
         /\ ((x % d) - y) % d = (x - y) % d
         /\ (y - (x % d)) % d = (y - x) % d
         /\ ((x % d) * y) % d = (x * y) % d
<1> DEFINE u == x \div d
           v == x % d
<1>1. u \in Int /\ v \in Int /\ x = d * u + v
  BY IntMod
<1> HIDE DEF u, v
<1>2. v + y = (x + y) + (0 - u) * d /\ v - y = (x - y) + (0 - u) * d
      /\ y - v = (y - x) + u * d
  BY <1>1, Z3
<1>3. v * y = x * y + (0 - (u * y)) * d /\ v * y \in Int /\ x * y \in Int /\ u * y \in Int
  BY <1>1, Z3
<1>4. (v + y) % d = (x + y) % d
  <2> DEFINE m == v + y
             n == x + y
             k == 0 - u
  <2>1. m \in Int /\ n \in Int /\ k \in Int /\ m = n + k * d
    BY <1>1, <1>2
  <2> HIDE DEF m, n, k
  <2>2. m % d = n % d
    BY <2>1, ModSame
  <2> QED BY <2>2 DEF m, n
<1>5. (v - y) % d = (x - y) % d
  <2> DEFINE m == v - y
             n == x - y
             k == 0 - u
  <2>1. m \in Int /\ n \in Int /\ k \in Int /\ m = n + k * d
    BY <1>1, <1>2
  <2> HIDE DEF m, n, k
  <2>2. m % d = n % d
    BY <2>1, ModSame
  <2> QED BY <2>2 DEF m, n
<1>6. (y - v) % d = (y - x) % d
  <2> DEFINE m == y - v
             n == y - x
             k == u
  <2>1. m \in Int /\ n \in Int /\ k \in Int /\ m = n + k * d
    BY <1>1, <1>2
  <2> HIDE DEF m, n, k
  <2>2. m % d = n % d
    BY <2>1, ModSame
  <2> QED BY <2>2 DEF m, n
<1>7. (v * y) % d = (x * y) % d
  <2> DEFINE m == v * y
             n == x * y
             k == 0 - (u * y)
  <2>1. m \in Int /\ n \in Int /\ k \in Int /\ m = n + k * d
    BY <1>3
  <2> HIDE DEF m, n, k
  <2>2. m % d = n % d
    BY <2>1, ModSame
  <2> QED BY <2>2 DEF m, n
<1> QED BY <1>4, <1>5, <1>6, <1>7 DEF v

\* Dividing twice is dividing by the product.
LEMMA DivDiv ==
  ASSUME NEW n \in Nat, NEW d \in Nat \ {0}, NEW e \in Nat \ {0}
  PROVE  d * e \in Nat \ {0} /\ n \div (d * e) = (n \div d) \div e
<1> DEFINE q == n \div d
           r == n % d
           u == q \div e
           v == q % e
           m == d * e
           s == d * v + r
<1>1. q \in Nat /\ r \in 0 .. (d - 1) /\ n = d * q + r
  BY DivMod
<1> HIDE DEF q, r
<1>2. u \in Nat /\ v \in 0 .. (e - 1) /\ q = e * u + v
  BY <1>1, DivMod
<1> HIDE DEF u, v
<1>3. m \in Nat \ {0}
  BY Z3
<1>4. s \in 0 .. (m - 1)
  <2>1. d * v \in Nat /\ d * v <= d * (e - 1) /\ d * (e - 1) = m - d
    BY <1>2, Z3
  <2> QED BY <1>1, <1>3, <2>1
<1>5. n = m * u + s
  BY <1>1, <1>2, Z3
<1> HIDE DEF m, s
<1>6. n \div m = u
  BY <1>2, <1>3, <1>4, <1>5, ModUnique
<1> QED BY <1>3, <1>6 DEF u, q, m


\* One digit after the other.
LEMMA DivPowers ==
  ASSUME NEW n \in Nat, NEW L \in Nat \ {0}
  PROVE  /\ n \div (L * L) = (n \div L) \div L
         /\ n \div (L * L * L) = (n \div (L * L)) \div L
         /\ n \div (L * L * L * L) = (n \div (L * L * L)) \div L
<1>1. \A A \in Nat \ {0} : A * L \in Nat \ {0} /\ n \div (A * L) = (n \div A) \div L
  BY DivDiv
<1>2. L * L \in Nat \ {0} /\ L * L * L \in Nat \ {0}
  BY <1>1, Zenon
<1> QED BY <1>1, <1>2, Zenon

\* Two numbers less than d apart with the same remainder are the same.
LEMMA ModNear ==
  ASSUME NEW d \in Nat \ {0}, NEW x \in Nat, NEW y \in Nat,
         x <= y, y < x + d, x % d = y % d
  PROVE  x = y
<1> DEFINE u == x \div d
           v == y \div d
           r == x % d
<1>1. u \in Nat /\ r \in 0 .. (d - 1) /\ x = d * u + r
  BY DivMod
<1>2. v \in Nat /\ y = d * v + r
  BY DivMod
<1>3. u <= v
  BY DivMono
<1> HIDE DEF u, v, r
<1>4. d * u \in Int /\ d * v \in Int
  BY <1>1, <1>2, MulMono
<1>5. v <= u
  <2> SUFFICES ASSUME u + 1 <= v PROVE FALSE
    BY <1>1, <1>2
  <2>1. d * (u + 1) <= d * v
    BY <1>1, <1>2, MulMono
  <2>2. d * (u + 1) = d * u + d
    BY <1>1, Z3
  <2> QED BY <1>1, <1>2, <1>4, <2>1, <2>2
<1>6. u = v
  BY <1>1, <1>2, <1>3, <1>5
<1> QED BY <1>1, <1>2, <1>6

-----------------------------------------------------------------------------
(* The ring *)

\* The ring has a word more than the window fills.
LEMMA Ring ==
  /\ WORD_BITS \in Nat \ {0}
  /\ WORDS \in Nat \ {0}
  /\ WORD_BITS * (WORDS - 1) = WINDOW_BITS
<1>1. WORD_BITS \in Nat \ {0} /\ WINDOW_BITS \in Nat /\ WINDOW_BITS % WORD_BITS = 0
  BY WordAssumption, MessageAssumption
<1> DEFINE k == WINDOW_BITS \div WORD_BITS
<1>2. k \in Nat /\ WINDOW_BITS = WORD_BITS * k + 0
  BY <1>1, DivMod
<1>3. WORDS = k + 1
  BY DEF WORDS
<1> HIDE DEF k
<1>4. WORD_BITS * k \in Int
  BY <1>1, <1>2, MulMono
<1> QED BY <1>1, <1>2, <1>3, <1>4

\* Counters less than a window apart lie in words less than a ring apart.
LEMMA WordsApart ==
  ASSUME NEW x \in Nat, NEW y \in Nat, y - x < WINDOW_BITS
  PROVE  y \div WORD_BITS < (x \div WORD_BITS) + WORDS
<1> DEFINE W == WORD_BITS
           u == x \div W
           v == y \div W
           k == WORDS - 1
<1>1. W \in Nat \ {0} /\ k \in Nat /\ W * k = WINDOW_BITS
  BY Ring
<1>2. u \in Nat /\ x % W \in 0 .. (W - 1) /\ x = W * u + (x % W)
  BY <1>1, DivMod
<1>3. v \in Nat /\ y % W \in 0 .. (W - 1) /\ y = W * v + (y % W)
  BY <1>1, DivMod
<1> HIDE DEF W, u, v, k
<1>4. v <= u + k
  <2> SUFFICES ASSUME u + k + 1 <= v PROVE FALSE
    BY <1>1, <1>2, <1>3
  <2>1. W * (u + k + 1) <= W * v
    BY <1>1, <1>2, <1>3, MulMono
  <2>2. W * (u + k + 1) = W * u + W * k + W
    BY <1>1, <1>2, Z3
  <2>3. W * u \in Int /\ W * v \in Int /\ W * k \in Int
    BY <1>1, <1>2, <1>3, MulMono
  <2> QED BY <1>1, <1>2, <1>3, <2>1, <2>2, <2>3
<1>5. v < u + WORDS
  BY <1>1, <1>2, <1>3, <1>4, Ring DEF k
<1> QED BY <1>5 DEF W, u, v

\* Where the bit of a counter is.
LEMMA WordType ==
  ASSUME NEW x \in Nat
  PROVE  /\ x \div WORD_BITS \in Nat
         /\ word(x) \in 0 .. (WORDS - 1)
         /\ x % WORD_BITS \in 0 .. (WORD_BITS - 1)
<1>1. x \div WORD_BITS \in Nat /\ x % WORD_BITS \in 0 .. (WORD_BITS - 1)
  BY Ring, DivMod
<1> QED BY <1>1, Ring, DivMod DEF word

\* Two words less than a ring apart do not share a place.
LEMMA OwnWord ==
  ASSUME NEW v \in Nat, NEW w \in Nat, v < w + WORDS, w < v + WORDS,
         v % WORDS = w % WORDS
  PROVE  v = w
<1>1. CASE v <= w
  BY <1>1, Ring, ModNear
<1>2. CASE w <= v
  BY <1>2, Ring, ModNear
<1> QED BY <1>1, <1>2

\* Nor do two counters in such words share a bit.
LEMMA OwnBit ==
  ASSUME NEW x \in Nat, NEW y \in Nat,
         x \div WORD_BITS < (y \div WORD_BITS) + WORDS,
         y \div WORD_BITS < (x \div WORD_BITS) + WORDS,
         word(x) = word(y), x % WORD_BITS = y % WORD_BITS
  PROVE  x = y
<1>1. x \div WORD_BITS = y \div WORD_BITS
  BY WordType, OwnWord DEF word
<1> QED BY <1>1, Ring, DivModUnique

-----------------------------------------------------------------------------
(* The inductive invariant *)

\* The counters the bitmap answers for: those of the window, and those above
\* `top' that share its word.
Covered(c, top) == top - c < WINDOW_BITS /\ c \div WORD_BITS <= top \div WORD_BITS

Marked(map, c) == c % WORD_BITS \in map[word(c)]

\* A map is exact below `top' when it marks what was accepted, and only that.
Exact(map, top, acc) == \A c \in Nat : Covered(c, top) => (Marked(map, c) <=> c \in acc)

Remembers ==
  /\ ~primed => accepted = {}
  /\ primed => /\ greatest \in accepted
               /\ \A c \in accepted : c <= greatest
               /\ Exact(bitmap, greatest, accepted)

WindowInv == TypeOK /\ Remembers

Maps == [0 .. (WORDS - 1) -> SUBSET (0 .. (WORD_BITS - 1))]

\* The empty map is a map, and marks nothing.
LEMMA EmptyMap == Empty \in Maps /\ \A c \in Nat : ~Marked(Empty, c)
<1>1. Empty \in Maps
  BY DEF Empty, Maps
<1>2. ASSUME NEW c \in Nat PROVE ~Marked(Empty, c)
  BY WordType DEF Marked, Empty
<1> QED BY <1>1, <1>2

\* Setting a bit marks its counter and no other covered one.
LEMMA SetBit ==
  ASSUME NEW map \in Maps, NEW counter \in Nat, NEW top \in Nat,
         Covered(counter, top), NEW c \in Nat, Covered(c, top)
  PROVE  /\ set_bit(map, counter) \in Maps
         /\ Marked(set_bit(map, counter), c) <=> c = counter \/ Marked(map, c)
<1>1. /\ word(counter) \in 0 .. (WORDS - 1) /\ word(c) \in 0 .. (WORDS - 1)
      /\ counter % WORD_BITS \in 0 .. (WORD_BITS - 1)
  BY WordType
<1>2. set_bit(map, counter) \in Maps
  BY <1>1 DEF set_bit, Maps
<1>3. set_bit(map, counter)[word(c)] =
        IF word(c) = word(counter) THEN map[word(c)] \cup {counter % WORD_BITS}
                                   ELSE map[word(c)]
  BY <1>1 DEF set_bit, Maps
<1>4. word(c) = word(counter) /\ c % WORD_BITS = counter % WORD_BITS => c = counter
  <2>1. /\ counter \div WORD_BITS \in Nat /\ c \div WORD_BITS \in Nat
        /\ top \div WORD_BITS \in Nat /\ WORDS \in Nat
    BY WordType, Ring
  <2>2. /\ counter \div WORD_BITS <= top \div WORD_BITS
        /\ c \div WORD_BITS <= top \div WORD_BITS
    BY DEF Covered
  <2>3. /\ top \div WORD_BITS < (counter \div WORD_BITS) + WORDS
        /\ top \div WORD_BITS < (c \div WORD_BITS) + WORDS
    BY WordsApart DEF Covered
  <2>4. /\ c \div WORD_BITS < (counter \div WORD_BITS) + WORDS
        /\ counter \div WORD_BITS < (c \div WORD_BITS) + WORDS
    BY <2>1, <2>2, <2>3
  <2> QED BY <2>4, OwnBit
<1>5. Marked(set_bit(map, counter), c) <=> c = counter \/ Marked(map, c)
  BY <1>3, <1>4 DEF Marked
<1> QED BY <1>2, <1>5

\* Sliding keeps the bits that are still covered and clears the new ones.
LEMMA Slide ==
  ASSUME TypeOK, primed, Remembers, NEW counter \in Nat, counter > greatest
  PROVE  slide(counter) \in Maps /\ Exact(slide(counter), counter, accepted)
<1>1. bitmap \in Maps /\ greatest \in Nat /\ accepted \subseteq Nat
  BY WordAssumption DEF TypeOK, Maps
<1>2. CASE counter - greatest >= WINDOW_BITS
  <2>1. slide(counter) = Empty
    BY <1>2 DEF slide
  <2>2. ASSUME NEW c \in Nat, Covered(c, counter) PROVE c \notin accepted
    <3>1. greatest < c
      BY <1>1, <1>2, <2>2, MessageAssumption DEF Covered
    <3> QED BY <3>1, <1>1 DEF Remembers
  <2> QED BY <2>1, <2>2, EmptyMap DEF Exact
<1>3. CASE counter - greatest < WINDOW_BITS
  <2> DEFINE skipped == (greatest \div WORD_BITS) + 1 .. counter \div WORD_BITS
             cleared(w) == \E x \in skipped : x % WORDS = w
  <2>1. slide(counter) = [w \in 0 .. (WORDS - 1) |->
                            IF cleared(w) THEN {} ELSE bitmap[w]]
    BY <1>1, <1>3, MessageAssumption DEF slide, Maps
  <2>2. slide(counter) \in Maps
    <3> HIDE DEF cleared
    <3> QED BY <1>1, <2>1 DEF Maps
  <2>3. ASSUME NEW c \in Nat, Covered(c, counter)
        PROVE  Marked(slide(counter), c) <=> c \in accepted
    <3>1. /\ c \div WORD_BITS \in Nat /\ counter \div WORD_BITS \in Nat
          /\ greatest \div WORD_BITS \in Nat /\ WORDS \in Nat \ {0}
          /\ word(c) \in 0 .. (WORDS - 1)
      BY <1>1, WordType, Ring
    <3>2. /\ c \div WORD_BITS <= counter \div WORD_BITS
          /\ counter \div WORD_BITS < (c \div WORD_BITS) + WORDS
      BY <2>3, WordsApart DEF Covered
    <3>3. slide(counter)[word(c)] = IF cleared(word(c)) THEN {} ELSE bitmap[word(c)]
      BY <2>1, <3>1
    <3>4. CASE c \div WORD_BITS <= greatest \div WORD_BITS
      <4>1. Covered(c, greatest)
        BY <1>1, <2>3, <3>4, MessageAssumption DEF Covered
      <4>2. ~cleared(word(c))
        <5> SUFFICES ASSUME NEW x \in skipped, x % WORDS = word(c) PROVE FALSE
          OBVIOUS
        <5>1. x \in Nat /\ x < (c \div WORD_BITS) + WORDS /\ c \div WORD_BITS < x
          BY <3>1, <3>2, <3>4
        <5>2. x = c \div WORD_BITS
          BY <3>1, <5>1, OwnWord DEF word
        <5> QED BY <3>1, <5>1, <5>2
      <4>3. Marked(slide(counter), c) <=> Marked(bitmap, c)
        BY <3>3, <4>2 DEF Marked
      <4> QED BY <4>1, <4>3 DEF Remembers, Exact
    <3>5. CASE c \div WORD_BITS > greatest \div WORD_BITS
      <4>1. c \div WORD_BITS \in skipped
        BY <3>1, <3>2, <3>5
      <4>2. cleared(word(c))
        BY <4>1 DEF word
      <4>3. ~Marked(slide(counter), c)
        BY <3>3, <4>2 DEF Marked
      <4>4. greatest < c
        <5> SUFFICES ASSUME c <= greatest PROVE FALSE
          BY <1>1
        <5>1. c \div WORD_BITS <= greatest \div WORD_BITS
          BY <1>1, DivMono, Ring
        <5> QED BY <3>1, <3>5, <5>1
      <4>5. c \notin accepted
        BY <1>1, <4>4 DEF Remembers
      <4> QED BY <4>3, <4>5
    <3> QED BY <3>1, <3>4, <3>5
  <2> QED BY <2>2, <2>3 DEF Exact
<1> QED BY <1>1, <1>2, <1>3, MessageAssumption

\* A counter is covered by itself and by a greater one inside the window.
LEMMA CoveredBelow ==
  ASSUME NEW counter \in Nat, NEW top \in Nat, counter <= top,
         top - counter < WINDOW_BITS
  PROVE  Covered(counter, top)
  BY DivMono, Ring DEF Covered

\* From an exact map, one with the new counter set.
LEMMA SetExact ==
  ASSUME NEW map \in Maps, NEW acc, NEW counter \in Nat, NEW top \in Nat,
         Covered(counter, top), Exact(map, top, acc)
  PROVE  /\ set_bit(map, counter) \in Maps
         /\ Exact(set_bit(map, counter), top, acc \cup {counter})
<1>1. set_bit(map, counter) \in Maps
  BY SetBit
<1>2. ASSUME NEW c \in Nat, Covered(c, top)
      PROVE  Marked(set_bit(map, counter), c) <=> c \in acc \cup {counter}
  BY <1>2, SetBit DEF Exact
<1> QED BY <1>1, <1>2 DEF Exact

\* An accepted counter keeps the invariant.
LEMMA AcceptRemembers ==
  ASSUME WindowInv, NEW counter \in Counters, accept(counter)
  PROVE  WindowInv'
<1>1. /\ counter \in Nat /\ bitmap \in Maps /\ greatest \in Nat
      /\ accepted \subseteq Counters /\ accepted \subseteq Nat
  BY WordAssumption DEF WindowInv, TypeOK, Maps
<1>2. check(counter) \in BOOLEAN
  BY DEF check
<1>3. CASE ~check(counter)
  <2>1. UNCHANGED <<greatest, primed, bitmap, accepted>>
    BY <1>3 DEF accept, vars
  <2>2. TypeOK'
    BY <2>1 DEF WindowInv, TypeOK
  <2>3. Remembers'
    BY <2>1 DEF WindowInv, Remembers, Exact, Marked, Covered, word
  <2> QED BY <2>2, <2>3 DEF WindowInv
<1>4. CASE check(counter)
  <2>1. primed' /\ primed' \in BOOLEAN /\ accepted' = accepted \cup {counter}
    BY <1>4 DEF accept
  <2>2. Covered(counter, counter)
    BY <1>1, CoveredBelow, MessageAssumption
  <2>3. /\ bitmap' \in Maps /\ greatest' \in Nat
        /\ greatest' \in accepted'
        /\ \A c \in accepted' : c <= greatest'
        /\ Exact(bitmap', greatest', accepted')
    <3>1. CASE ~primed
      <4>1. bitmap' = set_bit(Empty, counter) /\ greatest' = counter
        BY <1>4, <3>1 DEF accept
      <4>2. accepted = {}
        BY <3>1 DEF WindowInv, Remembers
      <4>3. Exact(Empty, counter, accepted)
        BY <4>2, EmptyMap DEF Exact
      <4> QED BY <1>1, <2>1, <2>2, <4>1, <4>2, <4>3, SetExact, EmptyMap
    <3>2. CASE primed /\ counter > greatest
      <4>1. bitmap' = set_bit(slide(counter), counter) /\ greatest' = counter
        BY <1>4, <3>2 DEF accept
      <4>2. slide(counter) \in Maps /\ Exact(slide(counter), counter, accepted)
        BY <1>1, <3>2, Slide DEF WindowInv
      <4>3. bitmap' \in Maps /\ Exact(bitmap', greatest', accepted')
        BY <1>1, <2>1, <2>2, <4>1, <4>2, SetExact
      <4>4. \A c \in accepted' : c <= greatest'
        BY <1>1, <2>1, <3>2, <4>1 DEF WindowInv, Remembers
      <4> QED BY <1>1, <2>1, <4>1, <4>3, <4>4
    <3>3. CASE primed /\ counter <= greatest
      <4>1. bitmap' = set_bit(bitmap, counter) /\ greatest' = greatest
        BY <1>1, <1>4, <3>3 DEF accept
      <4>2. Covered(counter, greatest)
        BY <1>1, <1>4, <3>3, CoveredBelow DEF check
      <4>3. bitmap' \in Maps /\ Exact(bitmap', greatest', accepted')
        BY <1>1, <2>1, <3>3, <4>1, <4>2, SetExact DEF WindowInv, Remembers
      <4>4. greatest' \in accepted' /\ \A c \in accepted' : c <= greatest'
        BY <1>1, <2>1, <3>3, <4>1 DEF WindowInv, Remembers
      <4> QED BY <1>1, <4>1, <4>3, <4>4
    <3> QED BY <1>1, <3>1, <3>2, <3>3
  <2>4. TypeOK'
    BY <1>1, <2>1, <2>3 DEF TypeOK, Maps
  <2>5. Remembers'
    <3>1. Exact(bitmap, greatest, accepted)' = Exact(bitmap', greatest', accepted')
      BY DEF Exact, Covered, Marked, word
    <3> QED BY <2>1, <2>3, <3>1 DEF Remembers
  <2> QED BY <2>4, <2>5 DEF WindowInv
<1> QED BY <1>2, <1>3, <1>4

\* The bitmap always marks exactly the counters accepted inside the window.
THEOREM WindowRemembers == Spec => []WindowInv
<1>1. Init => WindowInv
  <2> SUFFICES ASSUME Init PROVE WindowInv
    OBVIOUS
  <2>1. TypeOK
    BY EmptyMap DEF Init, TypeOK, Maps
  <2> QED BY <2>1 DEF Init, WindowInv, Remembers
<1>2. WindowInv /\ [Next]_vars => WindowInv'
  <2> SUFFICES ASSUME WindowInv, [Next]_vars PROVE WindowInv'
    OBVIOUS
  <2>1. CASE Next
    BY <2>1, AcceptRemembers DEF Next
  <2>2. CASE UNCHANGED vars
    BY <2>2 DEF vars, WindowInv, TypeOK, Remembers, Exact, Marked, Covered, word
  <2> QED BY <2>1, <2>2
<1> QED BY <1>1, <1>2, PTL DEF Spec

\* The words of the ring hold bit positions, and only known counters are
\* accepted.
THEOREM WindowTypeCorrect == Spec => []TypeOK
  BY WindowRemembers, PTL DEF WindowInv

\* What check answers from the bitmap is what the set of accepted counters
\* says.
LEMMA CheckExact ==
  ASSUME WindowInv, NEW counter \in Counters
  PROVE  check(counter) <=> replay_check(accepted, counter)
<1>1. counter \in Nat /\ greatest \in Nat /\ accepted \subseteq Nat
  BY WordAssumption DEF WindowInv, TypeOK
<1>2. CASE ~primed
  BY <1>2 DEF WindowInv, Remembers, check, replay_check
<1>3. CASE primed /\ counter > greatest
  <2>1. counter \notin accepted /\ \A c \in accepted : c - counter < WINDOW_BITS
    BY <1>1, <1>3, MessageAssumption DEF WindowInv, Remembers
  <2> QED BY <1>3, <2>1 DEF check, replay_check
<1>4. CASE primed /\ counter <= greatest
  <2>1. (\A c \in accepted : c - counter < WINDOW_BITS)
          <=> greatest - counter < WINDOW_BITS
    BY <1>1, <1>4, MessageAssumption DEF WindowInv, Remembers
  <2>2. greatest - counter < WINDOW_BITS => (bit(counter) <=> counter \in accepted)
    BY <1>1, <1>4, CoveredBelow DEF WindowInv, Remembers, Exact, Marked, bit
  <2> QED BY <1>1, <1>4, <2>1, <2>2 DEF check, replay_check
<1> QED BY <1>1, <1>2, <1>3, <1>4

\* For every counter, check answers as the filter that remembers everything
\* (ReplayWindow::check).
THEOREM CheckAlwaysAgrees == Spec => []CheckAgrees
<1>1. WindowInv => CheckAgrees
  BY CheckExact DEF CheckAgrees
<1> QED BY <1>1, WindowRemembers, PTL

-----------------------------------------------------------------------------
(* The limbs of a field element.  With the code's Limb = 2^51, 8192 * Limb  *)
(* is 2^64, what a u64 holds, and 2^26 * Limb * Limb is 2^128.  All that is *)
(* needed of Limb is its size.                                              *)

Large == Limb \in Nat /\ Limb >= 1048576 /\ FOLD = 19

\* Division by the limb size.
LEMMA DivLimb ==
  ASSUME Large, NEW x \in Nat
  PROVE  /\ x \div Limb \in Nat
         /\ x % Limb \in Nat
         /\ x % Limb < Limb
         /\ x = Limb * (x \div Limb) + (x % Limb)
  BY DivMod DEF Large

\* A number below k limbs has a quotient below k.
LEMMA DivBound ==
  ASSUME Large, NEW x \in Nat, NEW k \in Nat, x < k * Limb
  PROVE  x \div Limb \in Nat /\ x \div Limb < k
<1> DEFINE q == x \div Limb
           r == x % Limb
<1>1. q \in Nat /\ r \in Nat /\ x = Limb * q + r
  BY DivLimb
<1> HIDE DEF q, r
<1>2. q < k
  <2> SUFFICES ASSUME q >= k PROVE FALSE
    BY <1>1, Z3
  <2>1. Limb * q >= Limb * k
    BY <1>1, Z3 DEF Large
  <2> QED BY <2>1, <1>1, Z3 DEF Large
<1> QED BY <1>1, <1>2 DEF q

\* The product of two bounded numbers.
LEMMA ProductBound ==
  ASSUME NEW B \in Nat, NEW x \in Nat, NEW y \in Nat, x < B, y < B
  PROVE  x * y \in Nat /\ x * y <= B * B
  BY Z3

\* A column and the carry from the one below it.
LEMMA ColumnCarry ==
  ASSUME Large, NEW k \in Nat, NEW t \in Nat, t < k * (Limb * Limb),
         NEW below \in Nat, below < 1001 * (Limb * Limb)
  PROVE  /\ t + (below \div Limb) \in Nat
         /\ t + (below \div Limb) < (k + 1) * (Limb * Limb)
<1> DEFINE S == Limb * Limb
<1>1. S \in Nat /\ 1001 * Limb <= S /\ 1001 * S = (1001 * Limb) * Limb
  BY Z3 DEF Large
<1>2. below \div Limb \in Nat /\ below \div Limb < 1001 * Limb
  BY <1>1, DivBound DEF Large
<1> DEFINE c == below \div Limb
<1> HIDE DEF S, c
<1>3. c \in Nat /\ c < S
  BY <1>1, <1>2, Z3 DEF c, Large
<1>4. (k + 1) * S = k * S + S /\ t < k * S
  BY <1>1, Z3 DEF S
<1>5. t + c \in Nat /\ t + c < (k + 1) * S
  BY <1>1, <1>3, <1>4, Z3
<1> QED BY <1>5 DEF S, c

-----------------------------------------------------------------------------
(* carry *)

\* The columns that carry accepts.
Columns(t) ==
  /\ DOMAIN t = 1 .. 5
  /\ \A i \in 1 .. 5 : t[i] \in Nat /\ t[i] < 1000 * (Limb * Limb)
  /\ t[5] < 50 * (Limb * Limb)

\* Columns within these bounds carry without leaving their words: the fold of
\* the last carry stays below 2^64, and what is left is weakly reduced.
LEMMA CarryWeak ==
  ASSUME Large, NEW t, Columns(t)
  PROVE  Weak(carry(t)) /\ folded(carried(t)) < 8192 * Limb
<1> DEFINE u == carried(t)
           S == Limb * Limb
<1> USE DEF Columns
<1>0. S \in Nat /\ 1000 * S < 1001 * S /\ 51 * S = (51 * Limb) * Limb
  BY Z3 DEF Large
<1>1. u[1] = t[1] /\ u[1] \in Nat /\ u[1] < 1001 * S
  BY <1>0, Z3 DEF carried
<1>2. u[2] \in Nat /\ u[2] < 1001 * S
  <2>1. u[2] = t[2] + (u[1] \div Limb) BY DEF carried
  <2> QED BY <2>1, <1>1, ColumnCarry
<1>3. u[3] \in Nat /\ u[3] < 1001 * S
  <2>1. u[3] = t[3] + (u[2] \div Limb) BY DEF carried
  <2> QED BY <2>1, <1>2, ColumnCarry
<1>4. u[4] \in Nat /\ u[4] < 1001 * S
  <2>1. u[4] = t[4] + (u[3] \div Limb) BY DEF carried
  <2> QED BY <2>1, <1>3, ColumnCarry
<1>5. u[5] \in Nat /\ u[5] < 51 * S
  <2>1. u[5] = t[5] + (u[4] \div Limb) BY DEF carried
  <2> QED BY <2>1, <1>4, ColumnCarry
<1>6. u[5] \div Limb \in Nat /\ u[5] \div Limb < 51 * Limb
  BY <1>0, <1>5, DivBound DEF Large
<1> HIDE DEF u, S, Columns
<1>7. folded(u) \in Nat /\ folded(u) < 970 * Limb
  <2> DEFINE low  == u[1] % Limb
             high == u[5] \div Limb
  <2>1. low \in Nat /\ low < Limb
    BY <1>1, DivLimb
  <2>2. high \in Nat /\ high < 51 * Limb
    BY <1>6
  <2>3. folded(u) = low + high * 19
    BY DEF folded, Large
  <2> HIDE DEF low, high
  <2>4. low + high * 19 \in Nat /\ low + high * 19 < 970 * Limb
    BY <2>1, <2>2, Z3 DEF Large
  <2> QED BY <2>3, <2>4
<1>8. folded(u) \div Limb \in Nat /\ folded(u) \div Limb < 970
  BY <1>7, DivBound
<1> DEFINE f == folded(u)
<1>9. /\ f % Limb \in Nat /\ f % Limb < Limb
      /\ \A i \in 1 .. 5 : u[i] % Limb \in Nat /\ u[i] % Limb < Limb
  BY <1>1, <1>2, <1>3, <1>4, <1>5, <1>7, DivLimb
<1> HIDE DEF f
<1>10. carry(t) = <<f % Limb, (u[2] % Limb) + (f \div Limb),
                    u[3] % Limb, u[4] % Limb, u[5] % Limb>>
  BY DEF carry, u, f
<1>11. Weak(carry(t))
  <2> DEFINE r == carry(t)
  <2>1. DOMAIN r = 1 .. 5
    BY <1>10
  <2>2. r[1] = f % Limb /\ r[3] = u[3] % Limb /\ r[4] = u[4] % Limb /\ r[5] = u[5] % Limb
    BY <1>10
  <2>3. r[2] = (u[2] % Limb) + (f \div Limb)
    BY <1>10
  <2>4. r[2] \in Nat /\ r[2] < Limb + 8192
    BY <2>3, <1>8, <1>9, Z3 DEF f, Large
  <2>5. \A i \in {1, 3, 4, 5} : r[i] \in Nat /\ r[i] < Limb + 8192
    BY <2>2, <1>9, Z3 DEF Large
  <2> HIDE DEF r
  <2> QED BY <2>1, <2>4, <2>5 DEF Weak, Element, r
<1>12. f < 8192 * Limb
  BY <1>7, Z3 DEF f, Large
<1> QED BY <1>11, <1>12 DEF f, u

-----------------------------------------------------------------------------
(* Products *)

\* The product of two wide limbs, and what folding and doubling make of it.
LEMMA WideProduct ==
  ASSUME Large, NEW x \in Nat, NEW y \in Nat,
         x < 3 * Limb + 8192, y < 3 * Limb + 8192
  PROVE  /\ x * y \in Nat /\ x * y < 10 * (Limb * Limb)
         /\ x * (y * FOLD) = 19 * (x * y)
         /\ (2 * x) * y = 2 * (x * y)
         /\ (2 * x) * (y * FOLD) = 38 * (x * y)
<1> DEFINE B == 3 * Limb + 8192
           S == Limb * Limb
<1>1. /\ B \in Nat /\ S \in Nat
      /\ B * B = 9 * S + 49152 * Limb + 67108864
      /\ 1048576 * Limb <= S
  BY Z3 DEF Large
<1>2. x * y \in Nat /\ x * y <= B * B
  BY <1>1, ProductBound
<1>3. x * (y * FOLD) = 19 * (x * y) /\ (2 * x) * (y * FOLD) = 38 * (x * y)
  BY Z3 DEF Large
<1>4. (2 * x) * y = 2 * (x * y)
  BY Z3
<1> DEFINE q == x * y
           C == B * B
<1> HIDE DEF q, S, C
<1>5. q < 10 * S
  <2>1. q \in Nat /\ q <= C /\ C = 9 * S + 49152 * Limb + 67108864
    BY <1>1, <1>2 DEF q, C
  <2> QED BY <2>1, <1>1, Z3 DEF Large
<1> QED BY <1>2, <1>3, <1>4, <1>5 DEF q, S

\* The same for the limbs of two wide elements.
LEMMA LimbProducts ==
  ASSUME Large, NEW a, NEW b, Wide(a), Wide(b), NEW i \in 1 .. 5, NEW j \in 1 .. 5
  PROVE  /\ a[i] * b[j] \in Nat /\ a[i] * b[j] < 10 * (Limb * Limb)
         /\ a[i] * (b[j] * FOLD) = 19 * (a[i] * b[j])
         /\ (2 * a[i]) * b[j] = 2 * (a[i] * b[j])
         /\ (2 * a[i]) * (b[j] * FOLD) = 38 * (a[i] * b[j])
<1> DEFINE x == a[i]
           y == b[j]
<1>1. x \in Nat /\ y \in Nat /\ x < 3 * Limb + 8192 /\ y < 3 * Limb + 8192
  BY DEF Wide, Element
<1> HIDE DEF x, y
<1>2. /\ x * y \in Nat /\ x * y < 10 * (Limb * Limb)
      /\ x * (y * FOLD) = 19 * (x * y)
      /\ (2 * x) * y = 2 * (x * y)
      /\ (2 * x) * (y * FOLD) = 38 * (x * y)
  BY <1>1, WideProduct
<1> QED BY <1>2 DEF x, y

\* The columns of a product of wide elements.
LEMMA ColumnsFit ==
  ASSUME Large, NEW a, NEW b, Wide(a), Wide(b)
  PROVE  Columns(columns(a, b))
<1> DEFINE S == Limb * Limb
           q(i, j) == a[i] * b[j]
           f(i, j) == a[i] * (b[j] * FOLD)
           t == columns(a, b)
<1>1. S \in Nat BY Z3 DEF Large
<1>2. \A i, j \in 1 .. 5 : q(i, j) \in Nat /\ q(i, j) < 10 * S /\ f(i, j) = 19 * q(i, j)
  BY LimbProducts
<1>3. t = <<q(1, 1) + f(2, 5) + f(3, 4) + f(4, 3) + f(5, 2),
            q(1, 2) + q(2, 1) + f(3, 5) + f(4, 4) + f(5, 3),
            q(1, 3) + q(2, 2) + q(3, 1) + f(4, 5) + f(5, 4),
            q(1, 4) + q(2, 3) + q(3, 2) + q(4, 1) + f(5, 5),
            q(1, 5) + q(2, 4) + q(3, 3) + q(4, 2) + q(5, 1)>>
  BY DEF columns
<1> HIDE DEF q, f, S, t
<1>4. t[1] \in Nat /\ t[1] < 1000 * S /\ t[2] \in Nat /\ t[2] < 1000 * S
  BY <1>1, <1>2, <1>3, Z3
<1>5. t[3] \in Nat /\ t[3] < 1000 * S /\ t[4] \in Nat /\ t[4] < 1000 * S
  BY <1>1, <1>2, <1>3, Z3
<1>6. t[5] \in Nat /\ t[5] < 50 * S /\ t[5] < 1000 * S
  BY <1>1, <1>2, <1>3, Z3
<1>7. DOMAIN t = 1 .. 5 BY <1>3
<1> QED BY <1>4, <1>5, <1>6, <1>7 DEF Columns, S, t

\* The columns of the square of a wide element.
LEMMA SquareColumnsFit ==
  ASSUME Large, NEW a, Wide(a)
  PROVE  Columns(square_columns(a))
<1> DEFINE S == Limb * Limb
           q(i, j) == a[i] * a[j]
           f(i, j) == a[i] * (a[j] * FOLD)
           d(i, j) == (2 * a[i]) * a[j]
           g(i, j) == (2 * a[i]) * (a[j] * FOLD)
           t == square_columns(a)
<1>1. S \in Nat BY Z3 DEF Large
<1>2. \A i, j \in 1 .. 5 :
        /\ q(i, j) \in Nat /\ q(i, j) < 10 * S
        /\ f(i, j) = 19 * q(i, j) /\ d(i, j) = 2 * q(i, j) /\ g(i, j) = 38 * q(i, j)
  BY LimbProducts
<1>3. t = <<q(1, 1) + g(2, 5) + g(3, 4), d(1, 2) + g(3, 5) + f(4, 4),
            d(1, 3) + q(2, 2) + g(4, 5), d(1, 4) + d(2, 3) + f(5, 5),
            d(1, 5) + d(2, 4) + q(3, 3)>>
  BY DEF square_columns
<1> HIDE DEF q, f, d, g, S, t
<1>4. t[1] \in Nat /\ t[1] < 1000 * S /\ t[2] \in Nat /\ t[2] < 1000 * S
  BY <1>1, <1>2, <1>3, Z3
<1>5. t[3] \in Nat /\ t[3] < 1000 * S /\ t[4] \in Nat /\ t[4] < 1000 * S
  BY <1>1, <1>2, <1>3, Z3
<1>6. t[5] \in Nat /\ t[5] < 50 * S /\ t[5] < 1000 * S
  BY <1>1, <1>2, <1>3, Z3
<1>7. DOMAIN t = 1 .. 5 BY <1>3
<1> QED BY <1>4, <1>5, <1>6, <1>7 DEF Columns, S, t

-----------------------------------------------------------------------------
(* The operations of the ladder *)

\* A sum or difference of weakly reduced elements is wide: nothing underflows.
LEMMA AddSubWide ==
  ASSUME Large, NEW a, NEW b, Weak(a), Weak(b)
  PROVE  Wide(add(a, b)) /\ Wide(sub(a, b))
<1>1. \A i \in 1 .. 5 : /\ a[i] \in Nat /\ a[i] < Limb + 8192
                        /\ b[i] \in Nat /\ b[i] < Limb + 8192
  BY DEF Weak, Element
<1>2. Wide(add(a, b))
  BY <1>1, Z3 DEF add, Wide, Element, Large
<1>3. Wide(sub(a, b))
  BY <1>1, Z3 DEF sub, TWO_P0, TWO_P1234, Wide, Element, Large
<1> QED BY <1>2, <1>3

\* A weakly reduced element is wide.
LEMMA WeakWide ==
  ASSUME Large, NEW a, Weak(a)
  PROVE  Wide(a)
  BY Z3 DEF Weak, Wide, Element, Large

\* Products of wide elements are weakly reduced.
LEMMA MulWeak ==
  ASSUME Large, NEW a, NEW b, Wide(a), Wide(b)
  PROVE  Weak(mul(a, b)) /\ Weak(square(a))
<1>1. Weak(mul(a, b))
  BY ColumnsFit, CarryWeak DEF mul
<1>2. Weak(square(a))
  BY SquareColumnsFit, CarryWeak DEF square
<1> QED BY <1>1, <1>2

\* (A - 2) / 4 of the curve.
SMALL == 121665

\* So is a wide element times the curve's constant.
LEMMA MulSmallWeak ==
  ASSUME Large, NEW a, Wide(a)
  PROVE  Weak(mul_small(a, SMALL))
<1> DEFINE S == Limb * Limb
           t == <<a[1] * SMALL, a[2] * SMALL, a[3] * SMALL, a[4] * SMALL, a[5] * SMALL>>
<1>1. S \in Nat /\ 1048576 * Limb <= S
  BY Z3 DEF Large
<1>2. \A i \in 1 .. 5 : a[i] \in Nat /\ a[i] < 3 * Limb + 8192
  BY DEF Wide, Element
<1>3. \A i \in 1 .. 5 : t[i] = a[i] * SMALL
  OBVIOUS
<1>4. DOMAIN t = 1 .. 5
  OBVIOUS
<1> HIDE DEF S, t
<1>5. \A i \in 1 .. 5 : t[i] \in Nat /\ t[i] < 1000 * S /\ t[i] < 50 * S
  BY <1>1, <1>2, <1>3, Z3 DEF Large, SMALL
<1>6. Columns(t)
  BY <1>4, <1>5 DEF Columns, S
<1> QED BY <1>6, CarryWeak DEF mul_small, t

\* The ladder of the code on the limbs of the code.
Curve25519 ==
  INSTANCE X25519 WITH ZERO <- from_bytes(0), ONE <- from_bytes(1),
                       A24 <- SMALL, BITS <- 255

\* Every operand of a ladder step of x25519() is in the bounds its operation
\* requires, so no u64 or u128 of it wraps, and the step ends as it began, with
\* four weakly reduced elements.  It can therefore run any number of times.
THEOREM LadderStepInBounds ==
  ASSUME Large, NEW x1, NEW s,
         Weak(x1), Weak(s.x2), Weak(s.z2), Weak(s.x3), Weak(s.z3)
  PROVE  LET n == Curve25519!ladder_step(x1, s)
         IN  Weak(n.x2) /\ Weak(n.z2) /\ Weak(n.x3) /\ Weak(n.z3)
<1> DEFINE a  == add(s.x2, s.z2)
           aa == square(a)
           b  == sub(s.x2, s.z2)
           bb == square(b)
           e  == sub(aa, bb)
           da == mul(sub(s.x3, s.z3), a)
           cb == mul(add(s.x3, s.z3), b)
           es == mul_small(e, SMALL)
           dc == sub(da, cb)
           n  == Curve25519!ladder_step(x1, s)
<1>0. /\ n.x2 = mul(aa, bb) /\ n.z2 = mul(e, add(aa, es))
      /\ n.x3 = square(add(da, cb)) /\ n.z3 = mul(x1, square(dc))
  <2>1. n = [x2 |-> mul(aa, bb), z2 |-> mul(e, add(aa, es)),
             x3 |-> square(add(da, cb)), z3 |-> mul(x1, square(dc))]
    BY SMT DEF Curve25519!ladder_step
  <2> HIDE DEF a, aa, b, bb, e, da, cb, es, dc, n
  <2> QED BY <2>1
<1> HIDE DEF a, aa, b, bb, e, da, cb, es, dc, n
<1>1. Wide(a) /\ Wide(b) /\ Wide(sub(s.x3, s.z3)) /\ Wide(add(s.x3, s.z3))
  BY AddSubWide DEF a, b
<1>2. Weak(aa) /\ Weak(bb) /\ Weak(da) /\ Weak(cb)
  BY <1>1, MulWeak DEF aa, bb, da, cb
<1>3. Wide(e) /\ Wide(add(da, cb)) /\ Wide(dc) /\ Wide(aa) /\ Wide(bb) /\ Wide(x1)
  BY <1>2, AddSubWide, WeakWide DEF e, dc
<1>4. Weak(es)
  BY <1>3, MulSmallWeak DEF es
<1>5. Wide(add(aa, es))
  BY <1>2, <1>4, AddSubWide
<1>6. Weak(square(dc)) /\ Wide(square(dc)) /\ Weak(square(add(da, cb)))
  BY <1>3, MulWeak, WeakWide
<1>7. Weak(mul(aa, bb)) /\ Weak(mul(e, add(aa, es))) /\ Weak(mul(x1, square(dc)))
  BY <1>3, <1>5, <1>6, MulWeak
<1> QED BY <1>0, <1>6, <1>7 DEF n

-----------------------------------------------------------------------------
(* The value of the limbs *)

\* The modulus is a positive number; all else is said of naturals as limbs.
Modulus == Limb \in Nat /\ FOLD \in Nat /\ 7 < Limb /\ 0 < FOLD /\ FOLD < Limb

Natural(a) == DOMAIN a = 1 .. 5 /\ \A i \in 1 .. 5 : a[i] \in Nat

\* Digits written one above the other.
Horner(L, x1, x2, x3, x4, x5) == x1 + L * (x2 + L * (x3 + L * (x4 + L * x5)))

\* Division by the limb.
LEMMA LimbDivides ==
  ASSUME Modulus, NEW x \in Nat
  PROVE  /\ x \div Limb \in Nat /\ x % Limb \in Nat /\ x % Limb < Limb
         /\ x = Limb * (x \div Limb) + (x % Limb)
<1>1. Limb \in Nat \ {0}
  BY DEF Modulus
<1> QED BY <1>1, DivMod

Top == Limb * Limb * Limb * Limb * Limb

\* Digits make a number below the top.
LEMMA HornerBelow ==
  ASSUME NEW L \in Nat, NEW r1 \in Nat, NEW r2 \in Nat, NEW r3 \in Nat, NEW r4 \in Nat,
         NEW r5 \in Nat, r1 < L, r2 < L, r3 < L, r4 < L, r5 < L
  PROVE  /\ Horner(L, r1, r2, r3, r4, r5) \in Nat
         /\ Horner(L, r1, r2, r3, r4, r5) < L * L * L * L * L
<1> DEFINE w4 == r4 + L * r5
           w3 == r3 + L * w4
           w2 == r2 + L * w3
           w1 == r1 + L * w2
           L2 == L * L
           L3 == L2 * L
           L4 == L3 * L
           L5 == L4 * L
<1>1. L2 \in Nat /\ w4 \in Nat /\ w4 < L2
  <2>1. L * r5 \in Nat /\ L * r5 <= L * (L - 1) /\ L * (L - 1) = L2 - L /\ L2 \in Nat
    BY Z3
  <2> QED BY <2>1, Z3
<1> HIDE DEF w4, L2
<1>2. L3 \in Nat /\ w3 \in Nat /\ w3 < L3
  <2>1. L * w4 \in Nat /\ L * w4 <= L * (L2 - 1) /\ L * (L2 - 1) = L3 - L /\ L3 \in Nat
    BY <1>1, Z3
  <2> QED BY <2>1, Z3
<1> HIDE DEF w3, L3
<1>3. L4 \in Nat /\ w2 \in Nat /\ w2 < L4
  <2>1. L * w3 \in Nat /\ L * w3 <= L * (L3 - 1) /\ L * (L3 - 1) = L4 - L /\ L4 \in Nat
    BY <1>2, Z3
  <2> QED BY <2>1, Z3
<1> HIDE DEF w2, L4
<1>4. L5 \in Nat /\ w1 \in Nat /\ w1 < L5
  <2>1. L * w2 \in Nat /\ L * w2 <= L * (L4 - 1) /\ L * (L4 - 1) = L5 - L /\ L5 \in Nat
    BY <1>3, Z3
  <2> QED BY <2>1, Z3
<1> QED BY <1>4 DEF w1, w2, w3, w4, L5, L4, L3, L2, Horner

\* The value of five limbs is their Horner sum.
LEMMA Values ==
  ASSUME NEW x1, NEW x2, NEW x3, NEW x4, NEW x5
  PROVE  Value(<<x1, x2, x3, x4, x5>>) = Horner(Limb, x1, x2, x3, x4, x5)
  BY DEF Value, Horner

\* The pass of `carried', with the carry out of the fifth limb.
LEMMA CarriedValue ==
  ASSUME Modulus, NEW t, Natural(t)
  PROVE  LET u == carried(t)
         IN  /\ Natural(u)
             /\ Value(t) = Horner(Limb, u[1] % Limb, u[2] % Limb, u[3] % Limb,
                                  u[4] % Limb, u[5] % Limb) + (u[5] \div Limb) * Top
<1> DEFINE u == carried(t)
<1>1. DOMAIN u = 1 .. 5 /\ u[1] = t[1] /\ u[2] = t[2] + (u[1] \div Limb)
      /\ u[3] = t[3] + (u[2] \div Limb) /\ u[4] = t[4] + (u[3] \div Limb)
      /\ u[5] = t[5] + (u[4] \div Limb)
  BY DEF carried
<1> HIDE DEF u
<1>2. u[1] \in Nat /\ u[2] \in Nat /\ u[3] \in Nat /\ u[4] \in Nat /\ u[5] \in Nat
  <2>1. u[1] \in Nat BY <1>1 DEF Natural
  <2>2. u[2] \in Nat BY <1>1, <2>1, LimbDivides DEF Natural
  <2>3. u[3] \in Nat BY <1>1, <2>2, LimbDivides DEF Natural
  <2>4. u[4] \in Nat BY <1>1, <2>3, LimbDivides DEF Natural
  <2>5. u[5] \in Nat BY <1>1, <2>4, LimbDivides DEF Natural
  <2> QED BY <2>1, <2>2, <2>3, <2>4, <2>5
<1> DEFINE q1 == u[1] \div Limb
           q2 == u[2] \div Limb
           q3 == u[3] \div Limb
           q4 == u[4] \div Limb
           q5 == u[5] \div Limb
           r1 == u[1] % Limb
           r2 == u[2] % Limb
           r3 == u[3] % Limb
           r4 == u[4] % Limb
           r5 == u[5] % Limb
<1>3. /\ q1 \in Nat /\ r1 \in Nat /\ u[1] = Limb * q1 + r1
      /\ q2 \in Nat /\ r2 \in Nat /\ u[2] = Limb * q2 + r2
      /\ q3 \in Nat /\ r3 \in Nat /\ u[3] = Limb * q3 + r3
      /\ q4 \in Nat /\ r4 \in Nat /\ u[4] = Limb * q4 + r4
      /\ q5 \in Nat /\ r5 \in Nat /\ u[5] = Limb * q5 + r5
  BY <1>2, LimbDivides
<1>4. t[1] = u[1] /\ t[2] + q1 = u[2] /\ t[3] + q2 = u[3] /\ t[4] + q3 = u[4]
      /\ t[5] + q4 = u[5]
  BY <1>1
<1> HIDE DEF q1, q2, q3, q4, q5, r1, r2, r3, r4, r5
<1>5. Horner(Limb, t[1], t[2], t[3], t[4], t[5]) =
        Horner(Limb, r1, r2, r3, r4, r5 + Limb * q5)
  <2> DEFINE t1 == t[1]
             t2 == t[2]
             t3 == t[3]
             t4 == t[4]
             t5 == t[5]
             L == Limb
  <2>1. /\ t1 \in Nat /\ t2 \in Nat /\ t3 \in Nat /\ t4 \in Nat /\ t5 \in Nat
        /\ L \in Nat
    BY DEF Natural, Modulus
  <2>2. /\ t1 = L * q1 + r1 /\ t2 + q1 = L * q2 + r2 /\ t3 + q2 = L * q3 + r3
        /\ t4 + q3 = L * q4 + r4 /\ t5 + q4 = L * q5 + r5
    BY <1>3, <1>4
  <2>3. /\ q1 \in Nat /\ q2 \in Nat /\ q3 \in Nat /\ q4 \in Nat /\ q5 \in Nat
        /\ r1 \in Nat /\ r2 \in Nat /\ r3 \in Nat /\ r4 \in Nat /\ r5 \in Nat
    BY <1>3
  <2> HIDE DEF t1, t2, t3, t4, t5, L
  <2> DEFINE u4 == t4 + L * t5
             u3 == t3 + L * u4
             u2 == t2 + L * u3
             w4 == r4 + L * (r5 + L * q5)
             w3 == r3 + L * w4
             w2 == r2 + L * w3
  <2>4. L * t5 \in Int /\ L * q4 \in Int /\ L * (r5 + L * q5) = L * t5 + L * q4
    BY <2>1, <2>2, <2>3, Z3
  <2>5. w4 \in Int /\ u4 \in Int /\ w4 = u4 + q3
    BY <2>1, <2>2, <2>3, <2>4, Z3
  <2> HIDE DEF u4, w4
  <2>6. w3 \in Int /\ u3 \in Int /\ w3 = u3 + q2
    BY <2>1, <2>2, <2>3, <2>5, Z3
  <2> HIDE DEF u3, w3
  <2>7. w2 \in Int /\ u2 \in Int /\ w2 = u2 + q1
    BY <2>1, <2>2, <2>3, <2>6, Z3
  <2> HIDE DEF u2, w2
  <2>8. r1 + L * w2 = t1 + L * u2
    BY <2>1, <2>2, <2>3, <2>7, Z3
  <2> QED BY <2>8 DEF Horner, u2, u3, u4, w2, w3, w4, t1, t2, t3, t4, t5, L
<1>6. Horner(Limb, r1, r2, r3, r4, r5 + Limb * q5) =
        Horner(Limb, r1, r2, r3, r4, r5) + q5 * Top
  BY <1>3, Z3 DEF Top, Modulus, Horner
<1>7. Value(t) = Horner(Limb, t[1], t[2], t[3], t[4], t[5])
  BY DEF Value, Horner
<1>8. Natural(u)
  BY <1>1, <1>2 DEF Natural
<1> QED BY <1>5, <1>6, <1>7, <1>8 DEF u, q5, r1, r2, r3, r4, r5

\* carry changes a value by a multiple of p.
LEMMA CarryValue ==
  ASSUME Modulus, NEW t, Natural(t)
  PROVE  /\ Natural(carry(t))
         /\ Value(t) = Value(carry(t)) + (carried(t)[5] \div Limb) * p
<1> DEFINE u == carried(t)
           f == folded(u)
           q == u[5] \div Limb
           r1 == u[1] % Limb
           r2 == u[2] % Limb
           r3 == u[3] % Limb
           r4 == u[4] % Limb
           r5 == u[5] % Limb
<1>1. /\ Natural(u)
      /\ Value(t) = Horner(Limb, r1, r2, r3, r4, r5) + q * Top
  BY CarriedValue
<1>2. q \in Nat /\ r1 \in Nat /\ r2 \in Nat /\ r3 \in Nat /\ r4 \in Nat /\ r5 \in Nat
  BY <1>1, LimbDivides DEF Natural
<1>3. f = r1 + q * FOLD
  BY DEF folded
<1>4. carry(t) = <<f % Limb, r2 + (f \div Limb), r3, r4, r5>>
  BY DEF carry
<1> HIDE DEF u, f, q, r1, r2, r3, r4, r5
<1>5. f \in Nat
  BY <1>2, <1>3 DEF Modulus
<1> DEFINE c == f \div Limb
           e == f % Limb
<1>6. c \in Nat /\ e \in Nat /\ f = Limb * c + e
  BY <1>5, LimbDivides
<1>7. carry(t) = <<e, r2 + c, r3, r4, r5>>
  BY <1>4
<1> HIDE DEF c, e
<1>8. Natural(carry(t))
  BY <1>2, <1>6, <1>7 DEF Natural
<1>9. Value(carry(t)) = Horner(Limb, e, r2 + c, r3, r4, r5)
  BY <1>7, Values
<1>10. Horner(Limb, e + Limb * c, r2, r3, r4, r5) =
         Horner(Limb, e, r2 + c, r3, r4, r5)
  BY <1>2, <1>6, Z3 DEF Horner, Modulus
<1>11. e + Limb * c = r1 + q * FOLD
  BY <1>3, <1>6, <1>2 DEF Modulus
<1>12. Horner(Limb, r1 + q * FOLD, r2, r3, r4, r5) =
         Horner(Limb, r1, r2, r3, r4, r5) + q * FOLD
  <2> DEFINE k == q * FOLD
  <2>1. k \in Int BY <1>2 DEF Modulus
  <2> HIDE DEF k
  <2>2. Horner(Limb, r1 + k, r2, r3, r4, r5) =
         Horner(Limb, r1, r2, r3, r4, r5) + k
    BY <1>2, <2>1, Z3 DEF Horner, Modulus
  <2> QED BY <2>2 DEF k
<1>13. q * Top = q * FOLD + q * p /\ q * Top \in Int /\ q * FOLD \in Int /\ q * p \in Int
  <2>1. Top \in Nat /\ p \in Int /\ Top = p + FOLD
    BY Z3 DEF Top, p, Modulus
  <2> HIDE DEF Top, p
  <2> QED BY <1>2, <2>1, Z3 DEF Modulus
<1>14. Horner(Limb, r1, r2, r3, r4, r5) \in Int
  BY <1>2, Z3 DEF Horner, Modulus
<1>15. Value(t) = Value(carry(t)) + q * p
  BY <1>1, <1>9, <1>10, <1>11, <1>12, <1>13, <1>14
<1> QED BY <1>8, <1>15 DEF q, u

\* The modulus is positive, and little below the top.
LEMMA ModulusFacts ==
  ASSUME Modulus
  PROVE  /\ p \in Nat \ {0} /\ Top \in Nat /\ Top = p + FOLD /\ p < Top
         /\ Limb < p
<1> DEFINE A == Limb * Limb
           B == A * Limb
           C == B * Limb
           D == C * Limb
<1>1. A \in Nat /\ A > 2 * Limb
  BY Z3 DEF Modulus
<1> HIDE DEF A
<1>2. B \in Nat /\ B >= A
  BY <1>1, Z3 DEF Modulus
<1> HIDE DEF B
<1>3. C \in Nat /\ C >= B
  BY <1>2, Z3 DEF Modulus
<1> HIDE DEF C
<1>4. D \in Nat /\ D >= C
  BY <1>3, Z3 DEF Modulus
<1>5. D = Limb * Limb * Limb * Limb * Limb
  BY DEF A, B, C
<1> HIDE DEF D
<1>6. Top = D /\ p = D - FOLD
  BY <1>5 DEF Top, p
<1> QED BY <1>1, <1>2, <1>3, <1>4, <1>6, Z3 DEF Modulus

\* The value of limbs.
LEMMA NaturalValue ==
  ASSUME Modulus, NEW a, Natural(a)
  PROVE  /\ Value(a) \in Nat
         /\ Value(a) = Horner(Limb, a[1], a[2], a[3], a[4], a[5])
         /\ a[1] \in Nat /\ a[2] \in Nat /\ a[3] \in Nat /\ a[4] \in Nat /\ a[5] \in Nat
<1>1. a[1] \in Nat /\ a[2] \in Nat /\ a[3] \in Nat /\ a[4] \in Nat /\ a[5] \in Nat
  BY DEF Natural
<1>2. Value(a) \in Nat
  BY <1>1, Z3 DEF Value, Modulus
<1> QED BY <1>1, <1>2 DEF Value, Horner

\* `add' adds the values.
LEMMA AddValue ==
  ASSUME Modulus, NEW a, NEW b, Natural(a), Natural(b)
  PROVE  Value(add(a, b)) = Value(a) + Value(b)
<1>1. add(a, b) = <<a[1] + b[1], a[2] + b[2], a[3] + b[3], a[4] + b[4], a[5] + b[5]>>
  BY DEF add
<1>2. Value(add(a, b)) =
        Horner(Limb, a[1] + b[1], a[2] + b[2], a[3] + b[3], a[4] + b[4], a[5] + b[5])
  BY <1>1 DEF Value, Horner
<1>3. Horner(Limb, a[1] + b[1], a[2] + b[2], a[3] + b[3], a[4] + b[4], a[5] + b[5]) =
        Horner(Limb, a[1], a[2], a[3], a[4], a[5]) + Horner(Limb, b[1], b[2], b[3], b[4], b[5])
  BY NaturalValue, Z3 DEF Modulus, Horner
<1> QED BY <1>2, <1>3, NaturalValue

\* `sub' subtracts the values, above twice the modulus.
LEMMA SubValue ==
  ASSUME Modulus, NEW a, NEW b, Natural(a), Natural(b)
  PROVE  Value(sub(a, b)) = Value(a) - Value(b) + 2 * p
<1> DEFINE c1 == a[1] + (2 * Limb - 2 * FOLD) - b[1]
           c2 == a[2] + (2 * Limb - 2) - b[2]
           c3 == a[3] + (2 * Limb - 2) - b[3]
           c4 == a[4] + (2 * Limb - 2) - b[4]
           c5 == a[5] + (2 * Limb - 2) - b[5]
<1>1. sub(a, b) = <<c1, c2, c3, c4, c5>>
  BY DEF sub, TWO_P0, TWO_P1234
<1>2. Value(sub(a, b)) = Horner(Limb, c1, c2, c3, c4, c5)
  BY <1>1 DEF Value, Horner
<1>3. Horner(Limb, c1, c2, c3, c4, c5) =
        Horner(Limb, a[1], a[2], a[3], a[4], a[5]) - Horner(Limb, b[1], b[2], b[3], b[4], b[5])
          + 2 * (Limb * Limb * Limb * Limb * Limb - FOLD)
  BY NaturalValue, Z3 DEF Modulus, Horner
<1> QED BY <1>2, <1>3, NaturalValue DEF p

\* The columns of a product stand for the product.
LEMMA ColumnsValue ==
  ASSUME Modulus, NEW a, NEW b, Natural(a), Natural(b)
  PROVE  /\ Natural(columns(a, b))
         /\ \E k \in Int : Value(a) * Value(b) = Value(columns(a, b)) + k * p
<1> DEFINE a1 == a[1]
           a2 == a[2]
           a3 == a[3]
           a4 == a[4]
           a5 == a[5]
           b1 == b[1]
           b2 == b[2]
           b3 == b[3]
           b4 == b[4]
           b5 == b[5]
           L == Limb
           F == FOLD
           c1 == a1 * b1 + a2 * (b5 * F) + a3 * (b4 * F) + a4 * (b3 * F) + a5 * (b2 * F)
           c2 == a1 * b2 + a2 * b1 + a3 * (b5 * F) + a4 * (b4 * F) + a5 * (b3 * F)
           c3 == a1 * b3 + a2 * b2 + a3 * b1 + a4 * (b5 * F) + a5 * (b4 * F)
           c4 == a1 * b4 + a2 * b3 + a3 * b2 + a4 * b1 + a5 * (b5 * F)
           c5 == a1 * b5 + a2 * b4 + a3 * b3 + a4 * b2 + a5 * b1
           k == Horner(L, a5 * b2 + a4 * b3 + a3 * b4 + a2 * b5, a5 * b3 + a4 * b4 + a3 * b5,
                       a5 * b4 + a4 * b5, a5 * b5, 0)
<1>1. columns(a, b) = <<c1, c2, c3, c4, c5>>
  BY DEF columns
<1>2. /\ a1 \in Nat /\ a2 \in Nat /\ a3 \in Nat /\ a4 \in Nat /\ a5 \in Nat
      /\ b1 \in Nat /\ b2 \in Nat /\ b3 \in Nat /\ b4 \in Nat /\ b5 \in Nat
      /\ L \in Nat /\ F \in Nat
  BY DEF Natural, Modulus
<1>3. /\ Value(a) = Horner(L, a1, a2, a3, a4, a5) /\ Value(b) = Horner(L, b1, b2, b3, b4, b5)
      /\ Value(columns(a, b)) = Horner(L, c1, c2, c3, c4, c5)
      /\ p = L * L * L * L * L - F
  BY <1>1 DEF Value, Horner, p
<1> HIDE DEF a1, a2, a3, a4, a5, b1, b2, b3, b4, b5, L, F
<1>4. c1 \in Nat /\ c2 \in Nat /\ c3 \in Nat /\ c4 \in Nat /\ c5 \in Nat
  BY <1>2, Z3
<1>5. Natural(columns(a, b))
  <2> HIDE DEF c1, c2, c3, c4, c5
  <2> QED BY <1>1, <1>4 DEF Natural
<1>6. k \in Int
  BY <1>2, Z3 DEF Horner
<1>7. Horner(L, a1, a2, a3, a4, a5) * Horner(L, b1, b2, b3, b4, b5) =
        Horner(L, c1, c2, c3, c4, c5) + k * (L * L * L * L * L - F)
  BY <1>2, Z3 DEF Horner
<1> HIDE DEF k, c1, c2, c3, c4, c5
<1>8. Value(a) * Value(b) = Value(columns(a, b)) + k * p
  BY <1>3, <1>7
<1> QED BY <1>5, <1>6, <1>8

\* Multiplication multiplies in the field.
LEMMA MulValue ==
  ASSUME Modulus, NEW a, NEW b, Natural(a), Natural(b)
  PROVE  /\ Natural(mul(a, b))
         /\ Residue(mul(a, b)) = (Value(a) * Value(b)) % p
<1> DEFINE t == columns(a, b)
           w == Value(carry(t))
           v == Value(t)
           x == Value(a) * Value(b)
           d == p
           q == carried(t)[5] \div Limb
<1>1. Natural(t) /\ \E k \in Int : x = v + k * p
  BY ColumnsValue
<1>2. PICK k \in Int : x = v + k * p
  BY <1>1
<1>3. Natural(carry(t)) /\ v = w + q * p
  BY <1>1, CarryValue
<1>4. q \in Int
  BY <1>1, CarriedValue, LimbDivides DEF Natural
<1>5. d \in Nat \ {0}
  BY ModulusFacts
<1>6. w \in Int /\ v \in Int
  BY <1>1, <1>3, NaturalValue
<1>7. mul(a, b) = carry(t) /\ Residue(mul(a, b)) = w % d
  BY DEF mul, Residue
<1>8. x = v + k * d /\ v = w + q * d
  BY <1>2, <1>3
<1>9. x \in Int
  BY NaturalValue, Z3
<1> HIDE DEF t, w, v, x, d, q
<1>10. x % d = v % d
  BY <1>5, <1>6, <1>8, <1>9, ModSame
<1>11. v % d = w % d
  BY <1>4, <1>5, <1>6, <1>8, ModSame
<1>12. Residue(mul(a, b)) = x % d
  BY <1>7, <1>10, <1>11
<1> QED BY <1>3, <1>7, <1>12 DEF x, d

\* A digit and what is above it.
LEMMA LimbDigit ==
  ASSUME NEW L \in Nat \ {0}, NEW n \in Nat
  PROVE  n \div L \in Nat /\ n % L \in Nat /\ n = L * (n \div L) + (n % L)
  BY Z3

\* The five limbs of a number below the top are its digits.
LEMMA FromBytes ==
  ASSUME Modulus, NEW n \in Nat, n < Top
  PROVE  /\ Value(from_bytes(n)) = n
         /\ Natural(from_bytes(n))
<1> DEFINE L == Limb
           q1 == n \div L
           q2 == n \div (L * L)
           q3 == n \div (L * L * L)
           q4 == n \div (L * L * L * L)
           q5 == q4 \div L
           r1 == n % L
           r2 == q1 % L
           r3 == q2 % L
           r4 == q3 % L
           r5 == q4 % L
<1>1. from_bytes(n) = <<r1, r2, r3, r4, r5>>
  BY DEF from_bytes
<1>2. L \in Nat \ {0}
  BY DEF Modulus
<1>4. Value(from_bytes(n)) = Horner(L, r1, r2, r3, r4, r5)
  BY <1>1 DEF Value, Horner
<1> HIDE DEF L
<1>5. q2 = q1 \div L /\ q3 = q2 \div L /\ q4 = q3 \div L
  BY <1>2, DivPowers, Zenon
<1>6. q1 \in Nat /\ r1 \in Nat /\ n = L * q1 + r1
  BY <1>2, LimbDigit
<1> HIDE DEF q1, q2, q3, q4, r1
<1>7. q2 \in Nat /\ r2 \in Nat /\ q1 = L * q2 + r2
  BY <1>2, <1>5, <1>6, LimbDigit
<1>8. q3 \in Nat /\ r3 \in Nat /\ q2 = L * q3 + r3
  BY <1>2, <1>5, <1>7, LimbDigit
<1>9. q4 \in Nat /\ r4 \in Nat /\ q3 = L * q4 + r4
  BY <1>2, <1>5, <1>8, LimbDigit
<1>10. q5 \in Nat /\ r5 \in Nat /\ q4 = L * q5 + r5
  BY <1>2, <1>9, LimbDigit
<1> HIDE DEF q5, r2, r3, r4, r5
<1> DEFINE T == L * L * L * L * L
<1>11. n = Horner(L, r1, r2, r3, r4, r5) + q5 * T
  BY <1>2, <1>6, <1>7, <1>8, <1>9, <1>10, Z3 DEF Horner
<1>12. Horner(L, r1, r2, r3, r4, r5) \in Nat /\ T \in Nat
  BY <1>2, <1>6, <1>7, <1>8, <1>9, <1>10, Z3 DEF Horner
<1>13. n < T
  BY DEF Top, L
<1> HIDE DEF T
<1>14. q5 = 0
  <2> SUFFICES ASSUME q5 >= 1 PROVE FALSE
    BY <1>10
  <2>1. q5 * T >= T /\ q5 * T \in Nat
    BY <1>10, <1>12, Z3
  <2> QED BY <2>1, <1>11, <1>12, <1>13
<1>15. n = Horner(L, r1, r2, r3, r4, r5)
  BY <1>11, <1>12, <1>14
<1>16. Natural(from_bytes(n))
  BY <1>1, <1>6, <1>7, <1>8, <1>9, <1>10 DEF Natural
<1> QED BY <1>4, <1>15, <1>16

\* A step of Product, of a remainder.
LEMMA UpStep ==
  ASSUME NEW d \in Nat \ {0}, NEW L \in Int, NEW m \in Int, NEW z \in Int
  PROVE  (m + ((L * (z % d)) % d)) % d = (m + L * z) % d
<1> DEFINE v == z % d
           j == v * L
           k == z * L
<1>1. v \in Int /\ j \in Int /\ k \in Int /\ L * v = j /\ L * z = k
  <2>1. v \in Int BY IntMod
  <2> HIDE DEF v
  <2> QED BY <2>1, Z3
<1>2. j % d = k % d
  BY ModSum
<1> HIDE DEF v, j, k
<1>3. ((k % d) + m) % d = (k + m) % d
  BY <1>1, ModSum
<1>4. k % d \in Int
  BY <1>1, IntMod
<1>5. m + (j % d) = (k % d) + m /\ k + m = m + k
  BY <1>1, <1>2, <1>4
<1>6. (m + ((L * v) % d)) % d = (m + L * z) % d
  BY <1>1, <1>3, <1>5
<1> QED BY <1>6 DEF v

\* Product, computed digit by digit, is the product.
LEMMA ProductValue ==
  ASSUME Modulus, NEW x \in Int, NEW y \in Nat, y < Top
  PROVE  Product(x, y) = (x * y) % p
<1> DEFINE up(n, c) == (x * c + ((Limb * n) % p)) % p
           b == from_bytes(y)
           d1 == b[1]
           d2 == b[2]
           d3 == b[3]
           d4 == b[4]
           d5 == b[5]
           z5 == x * d5
           z4 == x * d4 + Limb * z5
           z3 == x * d3 + Limb * z4
           z2 == x * d2 + Limb * z3
           z1 == x * d1 + Limb * z2
<1>1. Natural(b) /\ y = Horner(Limb, d1, d2, d3, d4, d5)
  BY FromBytes, NaturalValue
<1>2. d1 \in Nat /\ d2 \in Nat /\ d3 \in Nat /\ d4 \in Nat /\ d5 \in Nat
  BY <1>1 DEF Natural
<1>3. Product(x, y) = up(up(up(up(up(0, d5), d4), d3), d2), d1)
  BY DEF Product
<1>4. \A m \in Int, z \in Int : (m + ((Limb * (z % p)) % p)) % p = (m + Limb * z) % p
  BY ModulusFacts, UpStep DEF Modulus
<1> HIDE DEF b, d1, d2, d3, d4, d5
<1>5. \A z \in Int, c \in Nat : up(z % p, c) = (x * c + Limb * z) % p
  <2> TAKE z \in Int, c \in Nat
  <2> DEFINE m == x * c
  <2>1. m \in Int OBVIOUS
  <2> HIDE DEF m
  <2>2. (m + ((Limb * (z % p)) % p)) % p = (m + Limb * z) % p
    BY <1>4, <2>1
  <2> QED BY <2>2 DEF m
<1>6. up(0, d5) = z5 % p
  <2>1. 0 % p = 0
    BY ModulusFacts
  <2>2. up(0 % p, d5) = (x * d5 + Limb * 0) % p
    BY <1>2, <1>5
  <2>3. x * d5 + Limb * 0 = z5
    BY <1>2 DEF Modulus
  <2> HIDE DEF up, z5
  <2> QED BY <2>1, <2>2, <2>3
<1>7. z5 \in Int /\ z4 \in Int /\ z3 \in Int /\ z2 \in Int /\ z1 \in Int
  <2>1. z5 \in Int BY <1>2 DEF Modulus
  <2> HIDE DEF z5
  <2>2. z4 \in Int BY <1>2, <2>1 DEF Modulus
  <2> HIDE DEF z4
  <2>3. z3 \in Int BY <1>2, <2>2 DEF Modulus
  <2> HIDE DEF z3
  <2>4. z2 \in Int BY <1>2, <2>3 DEF Modulus
  <2> HIDE DEF z2
  <2>5. z1 \in Int BY <1>2, <2>4 DEF Modulus
  <2> QED BY <2>1, <2>2, <2>3, <2>4, <2>5
<1>8. z1 = x * Horner(Limb, d1, d2, d3, d4, d5)
  BY <1>2, Z3 DEF Modulus, Horner
<1> HIDE DEF up
<1>9. up(z5 % p, d4) = z4 % p
  <2> HIDE DEF z5
  <2> QED BY <1>2, <1>5, <1>7
<1>10. up(z4 % p, d3) = z3 % p
  <2> HIDE DEF z4
  <2> QED BY <1>2, <1>5, <1>7
<1>11. up(z3 % p, d2) = z2 % p
  <2> HIDE DEF z3
  <2> QED BY <1>2, <1>5, <1>7
<1>12. up(z2 % p, d1) = z1 % p
  <2> HIDE DEF z2
  <2> QED BY <1>2, <1>5, <1>7
<1> HIDE DEF z1, z2, z3, z4, z5
<1> QED BY <1>1, <1>3, <1>6, <1>8, <1>9, <1>10, <1>11, <1>12, Zenon

\* The remainders of the operands may be taken first.
LEMMA Remainders ==
  ASSUME NEW d \in Nat \ {0}, NEW x \in Int, NEW y \in Int
  PROVE  /\ (x + y) % d = ((x % d) + (y % d)) % d
         /\ (x - y) % d = ((x % d) - (y % d)) % d
         /\ (x * y) % d = ((x % d) * (y % d)) % d
<1> DEFINE v == x % d
           w == y % d
<1>1. v \in Int /\ w \in Int
  BY IntMod
<1>2. /\ (v + y) % d = (x + y) % d /\ (v - y) % d = (x - y) % d
      /\ (v * y) % d = (x * y) % d
  BY ModSum
<1> HIDE DEF v
<1>3. /\ (w + v) % d = (y + v) % d /\ (v - w) % d = (v - y) % d
      /\ (w * v) % d = (y * v) % d
  BY <1>1, ModSum
<1> HIDE DEF w
<1>4. w + v = v + w /\ y + v = v + y /\ w * v = v * w /\ y * v = v * y
  BY <1>1
<1>5. (x + y) % d = (v + w) % d /\ (x - y) % d = (v - w) % d /\ (x * y) % d = (v * w) % d
  BY <1>2, <1>3, <1>4
<1> QED BY <1>5 DEF v, w

\* square and mul_small are multiplications: the doubled symmetric terms are the
\* terms of the columns, and the columns of a small factor have one term each.
LEMMA SquareMuls ==
  ASSUME Modulus, NEW a, Natural(a)
  PROVE  square(a) = mul(a, a) /\ mul_small(a, 7) = mul(a, from_bytes(7))
<1> DEFINE a1 == a[1]
           a2 == a[2]
           a3 == a[3]
           a4 == a[4]
           a5 == a[5]
           F == FOLD
<1>1. a1 \in Nat /\ a2 \in Nat /\ a3 \in Nat /\ a4 \in Nat /\ a5 \in Nat /\ F \in Nat
  BY DEF Natural, Modulus
<1>2. square_columns(a) = columns(a, a)
  <2>1. square_columns(a) =
          <<a1 * a1 + (2 * a2) * (a5 * F) + (2 * a3) * (a4 * F),
            (2 * a1) * a2 + (2 * a3) * (a5 * F) + a4 * (a4 * F),
            (2 * a1) * a3 + a2 * a2 + (2 * a4) * (a5 * F),
            (2 * a1) * a4 + (2 * a2) * a3 + a5 * (a5 * F),
            (2 * a1) * a5 + (2 * a2) * a4 + a3 * a3>>
    BY DEF square_columns
  <2>2. columns(a, a) =
          <<a1 * a1 + a2 * (a5 * F) + a3 * (a4 * F) + a4 * (a3 * F) + a5 * (a2 * F),
            a1 * a2 + a2 * a1 + a3 * (a5 * F) + a4 * (a4 * F) + a5 * (a3 * F),
            a1 * a3 + a2 * a2 + a3 * a1 + a4 * (a5 * F) + a5 * (a4 * F),
            a1 * a4 + a2 * a3 + a3 * a2 + a4 * a1 + a5 * (a5 * F),
            a1 * a5 + a2 * a4 + a3 * a3 + a4 * a2 + a5 * a1>>
    BY DEF columns
  <2> HIDE DEF a1, a2, a3, a4, a5, F
  <2>3. /\ a1 * a1 + (2 * a2) * (a5 * F) + (2 * a3) * (a4 * F) =
             a1 * a1 + a2 * (a5 * F) + a3 * (a4 * F) + a4 * (a3 * F) + a5 * (a2 * F)
        /\ (2 * a1) * a2 + (2 * a3) * (a5 * F) + a4 * (a4 * F) =
             a1 * a2 + a2 * a1 + a3 * (a5 * F) + a4 * (a4 * F) + a5 * (a3 * F)
        /\ (2 * a1) * a3 + a2 * a2 + (2 * a4) * (a5 * F) =
             a1 * a3 + a2 * a2 + a3 * a1 + a4 * (a5 * F) + a5 * (a4 * F)
        /\ (2 * a1) * a4 + (2 * a2) * a3 + a5 * (a5 * F) =
             a1 * a4 + a2 * a3 + a3 * a2 + a4 * a1 + a5 * (a5 * F)
        /\ (2 * a1) * a5 + (2 * a2) * a4 + a3 * a3 =
             a1 * a5 + a2 * a4 + a3 * a3 + a4 * a2 + a5 * a1
    BY <1>1, Z3
  <2> QED BY <2>1, <2>2, <2>3, Zenon
<1>3. from_bytes(7) = <<7, 0, 0, 0, 0>>
  <2> DEFINE L == Limb
  <2>1. L \in Nat \ {0} /\ 7 < L
    BY DEF Modulus
  <2>2. from_bytes(7) = <<7 % L, (7 \div L) % L, (7 \div (L * L)) % L,
                          (7 \div (L * L * L)) % L, (7 \div (L * L * L * L)) % L>>
    BY DEF from_bytes
  <2> HIDE DEF L
  <2>3. 7 % L = 7 /\ 7 \div L = 0
    <3>1. 7 \in 0 .. (L - 1) /\ 7 = L * 0 + 7
      BY <2>1
    <3> QED BY <2>1, <3>1, ModUnique
  <2>4. 0 % L = 0 /\ 0 \div L = 0
    <3>1. 0 \in 0 .. (L - 1) /\ 0 = L * 0 + 0
      BY <2>1
    <3> QED BY <2>1, <3>1, ModUnique
  <2>5. 7 \div (L * L) = (7 \div L) \div L /\ 7 \div (L * L * L) = (7 \div (L * L)) \div L
        /\ 7 \div (L * L * L * L) = (7 \div (L * L * L)) \div L
    BY <2>1, DivPowers
  <2> QED BY <2>2, <2>3, <2>4, <2>5, Zenon
<1>4. columns(a, from_bytes(7)) = <<a[1] * 7, a[2] * 7, a[3] * 7, a[4] * 7, a[5] * 7>>
  <2> DEFINE b == from_bytes(7)
  <2>1. b[1] = 7 /\ b[2] = 0 /\ b[3] = 0 /\ b[4] = 0 /\ b[5] = 0
    BY <1>3
  <2> HIDE DEF b
  <2>2. columns(a, b) =
          <<a1 * 7 + a2 * (0 * F) + a3 * (0 * F) + a4 * (0 * F) + a5 * (0 * F),
            a1 * 0 + a2 * 7 + a3 * (0 * F) + a4 * (0 * F) + a5 * (0 * F),
            a1 * 0 + a2 * 0 + a3 * 7 + a4 * (0 * F) + a5 * (0 * F),
            a1 * 0 + a2 * 0 + a3 * 0 + a4 * 7 + a5 * (0 * F),
            a1 * 0 + a2 * 0 + a3 * 0 + a4 * 0 + a5 * 7>>
    BY <2>1, Zenon DEF columns
  <2> HIDE DEF a1, a2, a3, a4, a5, F
  <2>3. columns(a, b) = <<a1 * 7, a2 * 7, a3 * 7, a4 * 7, a5 * 7>>
    BY <1>1, <2>2
  <2> QED BY <2>3 DEF a1, a2, a3, a4, a5, b
<1> QED BY <1>2, <1>4 DEF square, mul, mul_small

\* The operations on limbs are those of the field, for any limbs at all.
THEOREM FieldComputes ==
  ASSUME Modulus, NEW a, NEW b, Natural(a), Natural(b)
  PROVE  Computes(a, b)
<1> DEFINE x == Value(a)
           y == Value(b)
           d == p
<1>1. x \in Nat /\ y \in Nat
  BY NaturalValue
<1>2. d \in Nat \ {0}
  BY ModulusFacts
<1>3. Residue(a) = x % d /\ Residue(b) = y % d
  BY DEF Residue
<1>4. Residue(add(a, b)) = (x + y) % d
  BY AddValue DEF Residue
<1>5. Residue(sub(a, b)) = (x - y) % d
  <2> DEFINE z == Value(sub(a, b))
             w == x - y
             k == 2
  <2>1. z = x - y + 2 * d /\ Residue(sub(a, b)) = z % d
    BY SubValue DEF Residue
  <2> HIDE DEF x, y, d
  <2>2. w \in Int /\ z \in Int /\ k \in Int /\ z = w + k * d
    BY <1>1, <1>2, <2>1
  <2> HIDE DEF z, w, k
  <2>3. z % d = w % d
    BY <1>2, <2>2, ModSame
  <2> QED BY <2>1, <2>3 DEF w
<1>6. Residue(mul(a, b)) = (x * y) % d
  BY MulValue
<1>7. Product(x % d, y % d) = ((x % d) * (y % d)) % d
  <2>1. x % d \in Int /\ y % d \in Nat /\ y % d < d
    <3> HIDE DEF x, y, d
    <3> QED BY <1>1, <1>2, IntMod
  <2>2. d < Top /\ Top \in Nat
    BY ModulusFacts
  <2>3. y % d < Top
    <3> HIDE DEF y, d
    <3> QED BY <1>2, <2>1, <2>2
  <2> QED BY <2>1, <2>3, ProductValue
<1> HIDE DEF x, y, d
<1>8. /\ (x + y) % d = ((x % d) + (y % d)) % d
      /\ (x - y) % d = ((x % d) - (y % d)) % d
      /\ (x * y) % d = ((x % d) * (y % d)) % d
  <2>1. x \in Int /\ y \in Int
    BY <1>1
  <2> QED BY <1>2, <2>1, Remainders, Zenon
<1>9. square(a) = mul(a, a) /\ mul_small(a, 7) = mul(a, from_bytes(7))
  BY SquareMuls
<1>10. /\ Residue(add(a, b)) = (Residue(a) + Residue(b)) % d
       /\ Residue(sub(a, b)) = (Residue(a) - Residue(b)) % d
       /\ Residue(mul(a, b)) = Product(Residue(a), Residue(b))
  BY <1>3, <1>4, <1>5, <1>6, <1>7, <1>8, Zenon
<1> QED BY <1>9, <1>10 DEF Computes, d

-----------------------------------------------------------------------------
(* The encoding *)

\* A pass of carries divides by the top.
LEMMA ChainDigits ==
  ASSUME Modulus, NEW t, Natural(t)
  PROVE  LET u == carried(t)
         IN  /\ u[5] \div Limb = Value(t) \div Top
             /\ Value(<<u[1] % Limb, u[2] % Limb, u[3] % Limb, u[4] % Limb, u[5] % Limb>>)
                  = Value(t) % Top
<1> DEFINE u == carried(t)
           r1 == u[1] % Limb
           r2 == u[2] % Limb
           r3 == u[3] % Limb
           r4 == u[4] % Limb
           r5 == u[5] % Limb
           q == u[5] \div Limb
           x == Value(t)
           r == Horner(Limb, r1, r2, r3, r4, r5)
           d == Top
<1>1. Natural(u) /\ x = r + q * d
  BY CarriedValue
<1>2. /\ r1 \in Nat /\ r2 \in Nat /\ r3 \in Nat /\ r4 \in Nat /\ r5 \in Nat
      /\ r1 < Limb /\ r2 < Limb /\ r3 < Limb /\ r4 < Limb /\ r5 < Limb
      /\ q \in Nat
  BY <1>1, LimbDivides DEF Natural
<1>3. Value(<<r1, r2, r3, r4, r5>>) = r
  BY Values
<1>4. x \in Int
  BY NaturalValue
<1>5. d \in Nat \ {0}
  BY ModulusFacts
<1> HIDE DEF u, r1, r2, r3, r4, r5, q
<1>6. r \in Nat /\ r < d
  <2>1. Limb \in Nat
    BY DEF Modulus
  <2> QED BY <1>2, <2>1, HornerBelow DEF Top
<1> HIDE DEF x, r, d
<1>7. r \in 0 .. (d - 1) /\ q \in Int /\ x = d * q + r
  BY <1>1, <1>2, <1>5, <1>6
<1>8. x % d = r /\ x \div d = q
  BY <1>4, <1>5, <1>7, ModUnique
<1> QED BY <1>3, <1>8 DEF x, d, q, r1, r2, r3, r4, r5, u

\* What carry leaves of limbs no wider than two is below twice the modulus.
LEMMA CarryBelow ==
  ASSUME Modulus, NEW a, Natural(a), \A i \in 1 .. 5 : a[i] <= Limb * Limb
  PROVE  Value(carry(a)) < 2 * p
<1> DEFINE u == carried(a)
           f == folded(u)
           L == Limb
           F == FOLD
           S == L * L
           q(i) == u[i] \div L
           r1 == u[1] % L
           r2 == u[2] % L
           r3 == u[3] % L
           r4 == u[4] % L
           r5 == u[5] % L
           c == f \div L
           e == f % L
<1>1. /\ u[1] = a[1] /\ u[2] = a[2] + q(1) /\ u[3] = a[3] + q(2) /\ u[4] = a[4] + q(3)
      /\ u[5] = a[5] + q(4)
  BY DEF carried
<1>2. Natural(u)
  BY CarriedValue
<1>3. /\ r1 \in Nat /\ r2 \in Nat /\ r3 \in Nat /\ r4 \in Nat /\ r5 \in Nat
      /\ r1 < L /\ r2 < L /\ r3 < L /\ r4 < L /\ r5 < L
  BY <1>2, LimbDivides DEF Natural
<1>4. f = r1 + q(5) * F
  BY DEF folded
<1>5. carry(a) = <<e, r2 + c, r3, r4, r5>>
  BY DEF carry
<1>6. L \in Nat /\ F \in Nat /\ 7 < L /\ F < L
  BY DEF Modulus
<1>7. \A x \in Nat : x \div L \in Nat /\ x % L \in Nat /\ x % L < L
                     /\ x = L * (x \div L) + (x % L)
  BY LimbDivides
<1>8. S \in Nat /\ 8 * L <= S
  BY <1>6, Z3
<1>9. \A x \in Nat : x <= 2 * S => x \div L <= 2 * L
  <2> SUFFICES ASSUME NEW x \in Nat, x <= 2 * S, x \div L > 2 * L
               PROVE  FALSE
    BY <1>6, <1>7
  <2> DEFINE m == x \div L
             n == x % L
  <2>1. m \in Nat /\ n \in Nat /\ x = L * m + n /\ m > 2 * L
    BY <1>7
  <2> HIDE DEF m, n
  <2>2. L * m >= L * (2 * L + 1) /\ L * m \in Nat
    BY <1>6, <2>1, Z3
  <2>3. L * (2 * L + 1) = 2 * S + L
    BY <1>6, Z3
  <2> HIDE DEF S
  <2> QED BY <1>6, <1>8, <2>1, <2>2, <2>3
<1>10. \A i \in 1 .. 5 : a[i] \in Nat /\ a[i] <= S /\ u[i] \in Nat
  BY <1>2 DEF Natural
<1> HIDE DEF u, f, L, F, S
<1>11. u[5] <= 2 * S
  <2> DEFINE carryable(x) == x \in Nat /\ x <= 2 * S
  <2>6. \A x, y \in Nat : x <= S /\ carryable(y) => carryable(x + (y \div L))
    <3> TAKE x, y \in Nat
    <3> HAVE x <= S /\ carryable(y)
    <3> DEFINE m == y \div L
    <3>1. m \in Nat /\ m <= 2 * L
      BY <1>7, <1>9
    <3> HIDE DEF m
    <3>2. x + m \in Nat /\ x + m <= 2 * S
      BY <1>6, <1>8, <3>1
    <3> QED BY <3>2 DEF m
  <2>1. carryable(u[1])
    BY <1>1, <1>8, <1>10
  <2> HIDE DEF carryable
  <2>2. carryable(u[2])
    BY <1>1, <1>10, <2>1, <2>6
  <2>3. carryable(u[3])
    BY <1>1, <1>10, <2>2, <2>6
  <2>4. carryable(u[4])
    BY <1>1, <1>10, <2>3, <2>6
  <2>5. carryable(u[5])
    BY <1>1, <1>10, <2>4, <2>6
  <2> QED BY <2>5 DEF carryable
<1> DEFINE g == q(5)
<1>12. g \in Nat /\ g <= 2 * L
  BY <1>7, <1>9, <1>10, <1>11
<1> HIDE DEF g, r1, r2, r3, r4, r5
<1>13. f \in Nat /\ f < 2 * S
  <2>1. f = r1 + g * F
    BY <1>4 DEF g
  <2>2. g * F \in Nat /\ g * F <= (2 * L) * (L - 1)
    BY <1>6, <1>12, Z3
  <2>3. (2 * L) * (L - 1) = 2 * S - 2 * L
    BY <1>6, Z3 DEF S
  <2> QED BY <1>3, <1>6, <1>8, <2>1, <2>2, <2>3
<1>14. c \in Nat /\ e \in Nat /\ e < L /\ f = L * c + e
  BY <1>7, <1>13
<1> HIDE DEF c, e
<1> DEFINE H == Horner(L, e, r2, r3, r4, r5)
           k == L * c
<1>15. k \in Nat /\ k < 2 * S
  <2>1. k \in Nat
    BY <1>6, <1>14
  <2>2. f = k + e
    BY <1>14
  <2> HIDE DEF k
  <2> QED BY <1>8, <1>13, <1>14, <2>1, <2>2
<1>16. H \in Nat /\ H < L * L * L * L * L
  BY <1>3, <1>6, <1>14, HornerBelow
<1>17. Horner(L, e, r2 + c, r3, r4, r5) = H + k
  BY <1>3, <1>6, <1>14, Z3 DEF Horner
<1>18. Value(carry(a)) = Horner(L, e, r2 + c, r3, r4, r5)
  BY <1>5, Values DEF L
<1> DEFINE T == L * L * L * L * L
<1>19. T \in Nat /\ 2 * S + 2 * F <= T /\ p = T - F
  <2>1. p = T - F
    BY DEF p, L, F
  <2>2. S * L \in Nat /\ S * L >= 8 * S
    BY <1>6, <1>8, Z3
  <2> DEFINE B == S * L
  <2> HIDE DEF B
  <2>3. B * L \in Nat /\ B * L >= B
    BY <1>6, <2>2, Z3 DEF B
  <2> DEFINE C == B * L
  <2> HIDE DEF C
  <2>4. C * L \in Nat /\ C * L >= C
    BY <1>6, <2>3, Z3 DEF C
  <2>5. C * L = T
    BY DEF C, B, S
  <2> HIDE DEF T
  <2>6. 2 * F <= S
    BY <1>6, <1>8
  <2> QED BY <1>6, <1>8, <2>1, <2>2, <2>3, <2>4, <2>5, <2>6 DEF B, C
<1> HIDE DEF H, k, T
<1>20. H < T
  BY <1>16 DEF T
<1> QED BY <1>6, <1>8, <1>15, <1>16, <1>17, <1>18, <1>19, <1>20

\* What `to_bytes' takes away is the modulus, once or not at all.
Once(m, F, v) == (v + ((v + F) \div (m + F)) * F) % (m + F) = v % m

\* Subtracting the modulus once is enough below twice the modulus.
LEMMA SubtractOnce ==
  ASSUME NEW m \in Nat \ {0}, NEW F \in Nat, NEW v \in Nat, v < 2 * m
  PROVE  Once(m, F, v)
<1> DEFINE T == m + F
           x == (v + F) \div T
<1> SUFFICES (v + x * F) % T = v % m
  BY DEF Once
<1>0. T \in Nat \ {0} /\ T = m + F
  OBVIOUS
<1> HIDE DEF T
<1>1. CASE v < m
  <2>1. v + F \in Int /\ v + F \in 0 .. (T - 1) /\ v + F = T * 0 + (v + F)
    BY <1>0, <1>1
  <2>2. x = 0
    <3> DEFINE w == v + F
               z == 0
    <3>1. w \in Int /\ w \in 0 .. (T - 1) /\ w = T * z + w /\ z \in Int
      BY <1>0, <2>1
    <3> HIDE DEF w, z
    <3>2. w \div T = z
      BY <1>0, <3>1, ModUnique
    <3> QED BY <3>2 DEF w, z
  <2> DEFINE z == 0
  <2>3. v + x * F = v
    BY <2>2
  <2>4. /\ v \in 0 .. (T - 1) /\ v \in 0 .. (m - 1) /\ z \in Int
        /\ v = T * z + v /\ v = m * z + v
    BY <1>0, <1>1
  <2> HIDE DEF z
  <2>5. v % T = v /\ v % m = v
    BY <1>0, <2>4, ModUnique
  <2> QED BY <2>3, <2>5
<1>2. CASE v >= m
  <2> DEFINE w == v + F
             k == v - m
             j == 1
  <2>1. /\ w \in Int /\ k \in 0 .. (T - 1) /\ k \in 0 .. (m - 1) /\ j \in Int
        /\ w = T * j + k /\ v = m * j + k /\ v \in Int
    BY <1>0, <1>2
  <2>2. j = 1 /\ w = v + F
    OBVIOUS
  <2> HIDE DEF w, k, j
  <2>3. w \div T = j /\ w % T = k /\ v % m = k
    BY <1>0, <2>1, ModUnique
  <2>4. v + x * F = w
    BY <2>2, <2>3
  <2> QED BY <2>3, <2>4
<1> QED BY <1>1, <1>2

\* to_bytes of limbs no wider than two is the one canonical encoding.
THEOREM EncodingCanonical ==
  ASSUME Modulus, NEW a, Natural(a), \A i \in 1 .. 5 : a[i] <= Limb * Limb
  PROVE  Encodes(a)
<1> DEFINE l == carry(a)
           t == <<l[1] + FOLD, l[2], l[3], l[4], l[5]>>
           x == exceeds(l)
           w == <<l[1] + x * FOLD, l[2], l[3], l[4], l[5]>>
           u == carried(w)
           v == Value(l)
<1>1. Natural(l) /\ Value(a) = v + (carried(a)[5] \div Limb) * p
  BY CarryValue
<1>2. v \in Nat /\ v < 2 * p
  BY <1>1, NaturalValue, CarryBelow
<1>3. x = carried(t)[5] \div Limb
  BY DEF exceeds, carried
<1>4. to_bytes(a) =
        Value(<<u[1] % Limb, u[2] % Limb, u[3] % Limb, u[4] % Limb, u[5] % Limb>>)
  BY DEF to_bytes, carried
<1> HIDE DEF l, x
<1>5. l[1] \in Nat /\ l[2] \in Nat /\ l[3] \in Nat /\ l[4] \in Nat /\ l[5] \in Nat
  BY <1>1 DEF Natural
<1>6. Natural(t) /\ Value(t) = v + FOLD
  <2>1. Natural(t)
    BY <1>5 DEF Natural, Modulus
  <2>2. Value(t) = Horner(Limb, l[1] + FOLD, l[2], l[3], l[4], l[5])
    BY DEF Value, Horner
  <2> QED BY <1>5, <2>1, <2>2, Z3 DEF Value, Horner, Modulus
<1>7. p \in Nat \ {0} /\ Top \in Nat \ {0} /\ Top = p + FOLD /\ FOLD \in Nat
  BY ModulusFacts DEF Modulus
<1>8. x = (v + FOLD) \div Top
  BY <1>3, <1>6, ChainDigits
<1>9. x \in Nat
  <2> DEFINE n == v + FOLD
  <2>1. n \in Nat BY <1>2, <1>7
  <2> HIDE DEF n
  <2>2. n \div Top \in Nat BY <1>7, <2>1, DivMod
  <2> QED BY <1>8, <2>2 DEF n
<1>10. Natural(w) /\ Value(w) = v + x * FOLD
  <2> DEFINE k == x * FOLD
  <2>0. k \in Nat BY <1>7, <1>9
  <2> HIDE DEF k
  <2>1. w = <<l[1] + k, l[2], l[3], l[4], l[5]>>
    BY DEF k
  <2>2. Natural(w)
    BY <1>5, <2>0, <2>1 DEF Natural
  <2>3. Value(w) = Horner(Limb, l[1] + k, l[2], l[3], l[4], l[5])
    BY <2>1 DEF Value, Horner
  <2>4. Horner(Limb, l[1] + k, l[2], l[3], l[4], l[5]) = v + k
    BY <1>5, <2>0, Z3 DEF Value, Horner, Modulus
  <2> QED BY <2>2, <2>3, <2>4 DEF k
<1>11. to_bytes(a) = (v + x * FOLD) % Top
  BY <1>4, <1>10, ChainDigits
<1>12. (v + x * FOLD) % Top = v % p
  <2>1. Once(p, FOLD, v)
    BY <1>2, <1>7, SubtractOnce
  <2> HIDE DEF v
  <2> QED BY <1>7, <1>8, <2>1, Zenon DEF Once
<1>13. Value(a) % p = v % p
  <2> DEFINE k == carried(a)[5] \div Limb
             y == Value(a)
             d == p
  <2>1. k \in Int
    BY CarriedValue, LimbDivides DEF Natural
  <2>2. y \in Int /\ v \in Int /\ y = v + k * d /\ d \in Nat \ {0}
    BY <1>1, <1>2, <1>7, NaturalValue
  <2> HIDE DEF k, y, d, v
  <2>3. y % d = v % d
    BY <2>1, <2>2, ModSame, Zenon
  <2> QED BY <2>3 DEF y, d
<1> QED BY <1>11, <1>12, <1>13 DEF Encodes, Residue

-----------------------------------------------------------------------------
(* The calls of module FieldCalls *)

\* The elements of a call are those the constants offer.
Called == call.on = "field" => call.args \in Lefts \X Rights

\* They are chosen there and kept until the call returns.
LEMMA CallsTyped == FieldSpec => []Called
<1>1. Idle => Called
  BY DEF Idle, NoCall, Called
<1>2. Called /\ [FieldCall \/ Return]_call => Called'
  <2> SUFFICES ASSUME Called, [FieldCall \/ Return]_call PROVE Called'
    OBVIOUS
  <2>1. CASE FieldCall
    BY <2>1 DEF FieldCall, Call, Called
  <2>2. CASE Return
    BY <2>2 DEF Return, NoCall, Called
  <2>3. CASE UNCHANGED call
    BY <2>3 DEF Called
  <2> QED BY <2>1, <2>2, <2>3
<1> QED BY <1>1, <1>2, PTL DEF FieldSpec

\* They are five limbs each.
LEMMA ArgumentsAreLimbs ==
  ASSUME Called, call.on = "field"
  PROVE  /\ Natural(call.args[1]) /\ Natural(call.args[2])
         /\ \A i \in 1 .. 5 : call.args[1][i] <= Limb * Limb
<1>1. call.args[1] \in Lefts \cup Rights /\ call.args[2] \in Lefts \cup Rights
  BY DEF Called
<1>2. Limbs(call.args[1]) /\ Limbs(call.args[2])
  BY <1>1, ElementAssumption, Zenon
<1> QED BY <1>2 DEF Limbs, Natural

\* Whatever limbs the operations are given, they compute in the field (Fe of
\* src/crypto/x25519.rs).
THEOREM FieldAlwaysComputes == FieldSpec => []FieldOps
<1>1. Called => FieldOps
  <2> SUFFICES ASSUME Called, call.on = "field" PROVE Computes(call.args[1], call.args[2])
    BY DEF FieldOps
  <2>1. Modulus
    BY ModulusAssumption DEF Modulus
  <2>2. Natural(call.args[1]) /\ Natural(call.args[2])
    BY ArgumentsAreLimbs
  <2> QED BY <2>1, <2>2, FieldComputes
<1> QED BY <1>1, CallsTyped, PTL

\* Whatever limbs to_bytes is given, it writes the one residue below p.
THEOREM EncodingAlwaysCanonical == FieldSpec => []Canonical
<1>1. Called => Canonical
  <2> SUFFICES ASSUME Called, call.on = "field" PROVE Encodes(call.args[1])
    BY DEF Canonical
  <2>1. Modulus
    BY ModulusAssumption DEF Modulus
  <2>2. Natural(call.args[1]) /\ \A i \in 1 .. 5 : call.args[1][i] <= Limb * Limb
    BY ArgumentsAreLimbs
  <2> QED BY <2>1, <2>2, EncodingCanonical
<1> QED BY <1>1, CallsTyped, PTL

-----------------------------------------------------------------------------
(* The ladder, modulo p *)

fadd(a, b) == (a + b) % p
fsub(a, b) == (a - b) % p
fmul(a, b) == (a * b) % p
fsquare(a) == (a * a) % p
finvert(a) == IF a = 0 THEN 0 ELSE CHOOSE b \in 1 .. (p - 1) : (a * b) % p = 1

\* The ladder over the integers modulo p.
FieldCurve ==
  INSTANCE X25519 WITH add <- fadd, sub <- fsub, mul <- fmul, square <- fsquare,
                       mul_small <- fmul, invert <- finvert, ZERO <- 0, ONE <- 1,
                       A24 <- SMALL, BITS <- 255

Residues(s) ==
  [x2 |-> Residue(s.x2), z2 |-> Residue(s.z2), x3 |-> Residue(s.x3), z3 |-> Residue(s.z3)]

\* The limb and the fold of the code are such a modulus.
LEMMA LargeModulus ==
  ASSUME Large
  PROVE  Modulus
  BY DEF Large, Modulus

\* Elements in bounds are limbs.
LEMMA WideNatural ==
  ASSUME NEW a, Wide(a)
  PROVE  Natural(a)
  BY DEF Wide, Element, Natural

\* What the operations on limbs are modulo p.
LEMMA OpsModulo ==
  ASSUME Modulus, NEW a, NEW b, Natural(a), Natural(b)
  PROVE  /\ Residue(add(a, b)) = fadd(Residue(a), Residue(b))
         /\ Residue(sub(a, b)) = fsub(Residue(a), Residue(b))
         /\ Residue(mul(a, b)) = fmul(Residue(a), Residue(b))
         /\ Residue(square(a)) = fsquare(Residue(a))
<1>1. Computes(a, b) /\ square(a) = mul(a, a)
  BY FieldComputes DEF Computes
<1>2. \A c, e : Natural(c) /\ Natural(e) =>
        Residue(mul(c, e)) = (Residue(c) * Residue(e)) % p
  <2> SUFFICES ASSUME NEW c, NEW e, Natural(c), Natural(e)
               PROVE  Residue(mul(c, e)) = (Residue(c) * Residue(e)) % p
    OBVIOUS
  <2> DEFINE x == Value(c)
             y == Value(e)
             d == p
  <2>1. x \in Int /\ y \in Int /\ d \in Nat \ {0}
    BY NaturalValue, ModulusFacts
  <2>2. Residue(mul(c, e)) = (x * y) % d /\ Residue(c) = x % d /\ Residue(e) = y % d
    BY MulValue DEF Residue
  <2> HIDE DEF x, y, d
  <2>3. (x * y) % d = ((x % d) * (y % d)) % d
    BY <2>1, Remainders, Zenon
  <2>4. Residue(mul(c, e)) = (Residue(c) * Residue(e)) % d
    BY <2>2, <2>3, Zenon
  <2> QED BY <2>4 DEF d
<1> QED BY <1>1, <1>2 DEF Computes, fadd, fsub, fmul, fsquare

\* A small factor multiplies.
LEMMA SmallModulo ==
  ASSUME Modulus, NEW a, Natural(a), NEW k \in Nat
  PROVE  Residue(mul_small(a, k)) = fmul(Residue(a), k)
<1> DEFINE t == <<a[1] * k, a[2] * k, a[3] * k, a[4] * k, a[5] * k>>
           v == Value(a)
           w == Value(carry(t))
           q == carried(t)[5] \div Limb
           d == p
           x == v * k
<1>1. a[1] \in Nat /\ a[2] \in Nat /\ a[3] \in Nat /\ a[4] \in Nat /\ a[5] \in Nat
      /\ v \in Nat
  BY NaturalValue
<1>2. Natural(t)
  <2>1. a[1] * k \in Nat /\ a[2] * k \in Nat /\ a[3] * k \in Nat /\ a[4] * k \in Nat
        /\ a[5] * k \in Nat
    BY <1>1, Z3
  <2> QED BY <2>1 DEF Natural
<1>3. Value(t) = x
  BY <1>1, Z3 DEF Value, Modulus
<1>4. Natural(carry(t)) /\ Value(t) = w + q * d
  BY <1>2, CarryValue
<1>5. q \in Int /\ w \in Int /\ d \in Nat \ {0}
  <2> HIDE DEF t
  <2>1. Natural(carried(t))
    BY <1>2, CarriedValue, Zenon
  <2>2. carried(t)[5] \in Nat
    BY <2>1, NaturalValue, Zenon
  <2>3. carried(t)[5] \div Limb \in Nat
    BY <2>2, LimbDivides, Zenon
  <2>4. Value(carry(t)) \in Nat
    BY <1>4, NaturalValue, Zenon
  <2>5. p \in Nat \ {0}
    BY ModulusFacts, Zenon
  <2> QED BY <2>3, <2>4, <2>5
<1>6. Residue(mul_small(a, k)) = w % d /\ Residue(a) = v % d
  BY DEF mul_small, Residue
<1>7. x \in Int
  BY <1>1
<1> HIDE DEF t, v, w, q, d
<1>8. x % d = w % d
  <2> HIDE DEF x
  <2>1. x \in Int /\ w \in Int /\ q \in Int /\ d \in Nat \ {0} /\ x = w + q * d
    BY <1>3, <1>4, <1>5, <1>7
  <2> QED BY <2>1, ModSame, Zenon
<1>9. ((v % d) * k) % d = (v * k) % d
  <2>1. v \in Int /\ k \in Int /\ d \in Nat \ {0}
    BY <1>1, <1>5
  <2> QED BY <2>1, ModSum, Zenon
<1>10. Residue(mul_small(a, k)) = (Residue(a) * k) % d
  BY <1>6, <1>8, <1>9, Zenon
<1> QED BY <1>10 DEF fmul, d

\* What the operations on two elements are in the field.
InField(a, b) ==
  /\ Residue(add(a, b)) = fadd(Residue(a), Residue(b))
  /\ Residue(sub(a, b)) = fsub(Residue(a), Residue(b))
  /\ Residue(mul(a, b)) = fmul(Residue(a), Residue(b))
  /\ Residue(square(a)) = fsquare(Residue(a))

\* Elements in bounds are added, subtracted and multiplied in the field.
LEMMA WideInField ==
  ASSUME Large, NEW a, NEW b, Wide(a), Wide(b)
  PROVE  InField(a, b)
<1>1. Modulus /\ Natural(a) /\ Natural(b)
  BY LargeModulus, WideNatural
<1> QED BY <1>1, OpsModulo DEF InField

\* Residue maps a step of the ladder on the limbs of the code to a step of the
\* ladder over the integers modulo p: the step computes in the field.
THEOREM LadderStepComputes ==
  ASSUME Large, NEW x1, NEW s,
         Weak(x1), Weak(s.x2), Weak(s.z2), Weak(s.x3), Weak(s.z3)
  PROVE  Residues(Curve25519!ladder_step(x1, s)) =
           FieldCurve!ladder_step(Residue(x1), Residues(s))
<1> DEFINE a  == add(s.x2, s.z2)
           aa == square(a)
           b  == sub(s.x2, s.z2)
           bb == square(b)
           e  == sub(aa, bb)
           c  == add(s.x3, s.z3)
           d  == sub(s.x3, s.z3)
           da == mul(d, a)
           cb == mul(c, b)
           es == mul_small(e, SMALL)
           f  == add(aa, es)
           g  == add(da, cb)
           h  == sub(da, cb)
           hh == square(h)
           R(x) == Residue(x)
           n  == Curve25519!ladder_step(x1, s)
           r  == Residues(s)
           m  == FieldCurve!ladder_step(R(x1), r)
<1>1. n = [x2 |-> mul(aa, bb), z2 |-> mul(e, f), x3 |-> square(g), z3 |-> mul(x1, hh)]
  BY Zenon DEF Curve25519!ladder_step
<1>2. Residues(n) = [x2 |-> R(mul(aa, bb)), z2 |-> R(mul(e, f)), x3 |-> R(square(g)),
                     z3 |-> R(mul(x1, hh))]
  <2> HIDE DEF a, aa, b, bb, e, c, d, da, cb, es, f, g, h, hh, n
  <2> QED BY <1>1 DEF Residues
<1> DEFINE ra  == fadd(r.x2, r.z2)
           raa == fsquare(ra)
           rb  == fsub(r.x2, r.z2)
           rbb == fsquare(rb)
           re  == fsub(raa, rbb)
           rda == fmul(fsub(r.x3, r.z3), ra)
           rcb == fmul(fadd(r.x3, r.z3), rb)
<1>3. m = [x2 |-> fmul(raa, rbb), z2 |-> fmul(re, fadd(raa, fmul(re, SMALL))),
           x3 |-> fsquare(fadd(rda, rcb)), z3 |-> fmul(R(x1), fsquare(fsub(rda, rcb)))]
  <2> HIDE DEF r
  <2> QED BY Zenon DEF FieldCurve!ladder_step
<1>4. r.x2 = R(s.x2) /\ r.z2 = R(s.z2) /\ r.x3 = R(s.x3) /\ r.z3 = R(s.z3)
  BY DEF Residues
<1> HIDE DEF a, aa, b, bb, e, c, d, da, cb, es, f, g, h, hh, n, m, r, R
<1>5. Wide(a) /\ Wide(b) /\ Wide(c) /\ Wide(d)
  BY AddSubWide DEF a, b, c, d
<1>6. Weak(aa) /\ Weak(bb) /\ Weak(da) /\ Weak(cb)
  BY <1>5, MulWeak DEF aa, bb, da, cb
<1>7. Wide(e) /\ Wide(g) /\ Wide(h) /\ Wide(aa) /\ Wide(bb) /\ Wide(x1) /\ Wide(da)
      /\ Wide(cb)
  BY <1>6, AddSubWide, WeakWide DEF e, g, h
<1>8. Weak(es) /\ Wide(es)
  BY <1>7, MulSmallWeak, WeakWide DEF es
<1>9. Wide(f)
  BY <1>6, <1>8, AddSubWide DEF f
<1>10. Weak(hh) /\ Wide(hh)
  BY <1>7, MulWeak, WeakWide DEF hh
<1>11. Wide(s.x2) /\ Wide(s.z2) /\ Wide(s.x3) /\ Wide(s.z3)
  BY WeakWide
<1>12. /\ InField(s.x2, s.z2) /\ InField(s.x3, s.z3)
       /\ InField(a, b) /\ InField(b, a) /\ InField(d, a) /\ InField(c, b)
       /\ InField(aa, bb) /\ InField(aa, es) /\ InField(da, cb)
       /\ InField(e, f) /\ InField(g, h) /\ InField(h, g) /\ InField(x1, hh)
  BY <1>5, <1>7, <1>8, <1>9, <1>10, <1>11, WideInField
<1>13. R(es) = fmul(R(e), SMALL)
  <2>1. SMALL \in Nat
    BY SMT DEF SMALL
  <2>2. Modulus /\ Natural(e)
    BY <1>7, LargeModulus, WideNatural
  <2> QED BY <2>1, <2>2, SmallModulo DEF es, R
<1>14. R(a) = ra /\ R(b) = rb /\ R(c) = fadd(r.x3, r.z3) /\ R(d) = fsub(r.x3, r.z3)
  BY <1>4, <1>12, Zenon DEF a, b, c, d, R, InField
<1>15. R(aa) = raa /\ R(bb) = rbb /\ R(da) = rda /\ R(cb) = rcb
  BY <1>12, <1>14, Zenon DEF aa, bb, da, cb, R, InField
<1>16. /\ R(e) = re /\ R(f) = fadd(raa, fmul(re, SMALL))
       /\ R(g) = fadd(rda, rcb) /\ R(h) = fsub(rda, rcb)
  <2>1. R(e) = re
    BY <1>12, <1>15, Zenon DEF e, R, InField
  <2>2. R(g) = fadd(rda, rcb) /\ R(h) = fsub(rda, rcb)
    BY <1>12, <1>15, Zenon DEF g, h, R, InField
  <2>3. R(f) = fadd(raa, fmul(re, SMALL))
    BY <1>12, <1>13, <1>15, <2>1, Zenon DEF f, R, InField
  <2> QED BY <2>1, <2>2, <2>3
<1>17. R(hh) = fsquare(fsub(rda, rcb))
  BY <1>12, <1>16, Zenon DEF hh, R, InField
<1>18. /\ R(mul(aa, bb)) = fmul(raa, rbb)
       /\ R(mul(e, f)) = fmul(re, fadd(raa, fmul(re, SMALL)))
       /\ R(square(g)) = fsquare(fadd(rda, rcb))
       /\ R(mul(x1, hh)) = fmul(R(x1), fsquare(fsub(rda, rcb)))
  BY <1>12, <1>15, <1>16, <1>17, Zenon DEF R, InField
<1> HIDE DEF ra, raa, rb, rbb, re, rda, rcb
<1> QED BY <1>2, <1>3, <1>18 DEF n, m, r, R

=============================================================================
