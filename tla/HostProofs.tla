---------------------------- MODULE HostProofs ----------------------------
(***************************************************************************)
(* What stands around the tunnels of an interface: its cookie gate, the    *)
(* rate limiter its tunnels share, and the driver that runs one of them.   *)
(* Each is proved on its own, from its own specification: the cookie       *)
(* lifetime promise for every set of remotes, every lifetime and every     *)
(* non-decreasing clock; the handshakes the limiter admits, for any number *)
(* of threads; the driver's buffers, for every depth of the channels and   *)
(* of the queue.                                                           *)
(***************************************************************************)
EXTENDS CookieGate, RateLimiter, AsyncTunn, FiniteSetTheorems, TLAPS

-----------------------------------------------------------------------------
(* The cookie gate *)

\* The number a nonce counter stands for, and how many there are.
Rank(n) == n[1] + NONCE_WORD * (n[2] + NONCE_WORD * n[3])
NonceCount == NONCE_WORD * (NONCE_WORD * NONCE_WORD)

\* The number j steps after s, around the end.
After(s, j) == IF s + j >= NonceCount THEN s + j - NonceCount ELSE s + j

\* Numbers are below the count.
LEMMA RankBelow ==
  ASSUME NEW n \in Nonces
  PROVE  Rank(n) \in Nat /\ NonceCount \in Nat /\ Rank(n) < NonceCount
<1> DEFINE w == NONCE_WORD
           a == n[1]
           b == n[2]
           c == n[3]
           d == b + w * c
<1>1. /\ w \in Nat \ {0} /\ a \in 0 .. (w - 1) /\ b \in 0 .. (w - 1) /\ c \in 0 .. (w - 1)
  BY NonceAssumption DEF Nonces
<1> HIDE DEF w, a, b, c
<1>2. d \in Nat /\ d <= w * w - 1 /\ w * w \in Nat
  <2>1. w * c <= w * (w - 1)
    BY <1>1, Z3
  <2> QED BY <1>1, <2>1, Z3
<1> HIDE DEF d
<1>3. w * d \in Nat /\ w * d <= w * (w * w - 1) /\ w * (w * w) \in Nat
  BY <1>1, <1>2, Z3
<1>4. w * (w * w - 1) = w * (w * w) - w
  BY <1>1, Z3
<1>5. a + w * d \in Nat /\ a + w * d < w * (w * w)
  BY <1>1, <1>3, <1>4
<1> QED BY <1>3, <1>5 DEF Rank, NonceCount, w, a, b, c, d

\* A remainder and a multiple name both.
LEMMA DigitFree ==
  ASSUME NEW w \in Nat \ {0}, NEW a \in 0 .. (w - 1), NEW b \in 0 .. (w - 1),
         NEW x \in Int, NEW y \in Int, a + w * x = b + w * y
  PROVE  a = b /\ x = y
<1>1. w * (x - y) = b - a
  BY Z3
<1>2. x - y >= 1 => w * (x - y) >= w
  BY Z3
<1>3. x - y <= -1 => w * (x - y) <= -w
  BY Z3
<1>4. x - y = 0
  BY <1>1, <1>2, <1>3
<1>5. x = y
  BY <1>4
<1> QED BY <1>5, Z3

\* A number names its counter.
LEMMA RankFree ==
  ASSUME NEW m \in Nonces, NEW n \in Nonces, Rank(m) = Rank(n)
  PROVE  m = n
<1> DEFINE w == NONCE_WORD
           x == m[2] + w * m[3]
           y == n[2] + w * n[3]
<1>1. /\ w \in Nat \ {0}
      /\ m[1] \in 0 .. (w - 1) /\ m[2] \in 0 .. (w - 1) /\ m[3] \in 0 .. (w - 1)
      /\ n[1] \in 0 .. (w - 1) /\ n[2] \in 0 .. (w - 1) /\ n[3] \in 0 .. (w - 1)
  BY NonceAssumption DEF Nonces
<1> HIDE DEF w
<1>2. x \in Int /\ y \in Int
  BY <1>1
<1>3. m[1] + w * x = n[1] + w * y
  BY DEF Rank, w
<1> HIDE DEF x, y
<1>4. m[1] = n[1] /\ x = y
  BY <1>1, <1>2, <1>3, DigitFree
<1>5. m[2] = n[2] /\ m[3] = n[3]
  <2>1. m[2] + w * m[3] = n[2] + w * n[3] /\ m[3] \in Int /\ n[3] \in Int
    BY <1>1, <1>4 DEF x, y
  <2> QED BY <1>1, <2>1, DigitFree
<1> QED BY <1>4, <1>5 DEF Nonces

\* next_nonce counts.
LEMMA NextRank ==
  ASSUME NEW n \in Nonces
  PROVE  next_nonce(n) \in Nonces /\ Rank(next_nonce(n)) = After(Rank(n), 1)
<1> DEFINE w == NONCE_WORD
           a == n[1]
           b == n[2]
           c == n[3]
<1>1. /\ w \in Nat \ {0} /\ a \in 0 .. (w - 1) /\ b \in 0 .. (w - 1) /\ c \in 0 .. (w - 1)
  BY NonceAssumption DEF Nonces
<1>2. \A x \in 0 .. (w - 1) :
        /\ x \div w = 0 /\ x % w = x
        /\ x + 1 < w => (x + 1) \div w = 0 /\ (x + 1) % w = x + 1
        /\ x + 1 = w => (x + 1) \div w = 1 /\ (x + 1) % w = 0
  BY <1>1, Z3
<1>3. next_nonce(n) =
        LET k == (a + 1) \div w
            l == (b + k) \div w
        IN  <<(a + 1) % w, (b + k) % w, (c + l) % w>>
  BY DEF next_nonce
<1>4. Rank(n) \in Nat /\ NonceCount \in Nat /\ Rank(n) < NonceCount
  BY RankBelow
<1> HIDE DEF w, a, b, c
<1>5. Rank(n) = a + w * (b + w * c) /\ NonceCount = w * (w * w)
  BY DEF Rank, NonceCount, w, a, b, c
<1>6. ASSUME NEW x \in 0 .. (w - 1), NEW y \in 0 .. (w - 1), NEW z \in 0 .. (w - 1),
             next_nonce(n) = <<x, y, z>>,
             \/ x + w * (y + w * z) = a + w * (b + w * c) + 1
             \/ x + w * (y + w * z) = 0 /\ a + w * (b + w * c) + 1 = w * (w * w)
      PROVE  next_nonce(n) \in Nonces /\ Rank(next_nonce(n)) = After(Rank(n), 1)
  <2>1. <<x, y, z>> \in Nonces
    BY DEF Nonces, w
  <2>2. Rank(<<x, y, z>>) = x + w * (y + w * z)
    BY DEF Rank, w
  <2>3. Rank(<<x, y, z>>) \in Nat /\ Rank(<<x, y, z>>) < NonceCount
    BY <2>1, RankBelow
  <2> DEFINE r == Rank(<<x, y, z>>)
             q == Rank(n)
  <2>4. r = q + 1 \/ (r = 0 /\ q + 1 = NonceCount)
    BY <1>5, <1>6, <2>2, Zenon
  <2> HIDE DEF r, q
  <2>5. r \in Nat /\ r < NonceCount /\ q \in Nat /\ q < NonceCount
    BY <1>4, <2>3 DEF r, q
  <2>6. r = After(q, 1)
    BY <1>4, <2>4, <2>5 DEF After
  <2> QED BY <1>6, <2>1, <2>6, Zenon DEF r, q
<1>7. CASE a + 1 < w
  <2>1. /\ (a + 1) \div w = 0 /\ (a + 1) % w = a + 1 /\ b + 0 = b /\ c + 0 = c
        /\ b \div w = 0 /\ b % w = b /\ c % w = c
    BY <1>1, <1>2, <1>7
  <2>2. next_nonce(n) = <<a + 1, b, c>>
    BY <1>3, <2>1, Zenon
  <2>3. (a + 1) + w * (b + w * c) = a + w * (b + w * c) + 1
    BY <1>1, Z3
  <2> QED BY <1>1, <1>6, <1>7, <2>2, <2>3
<1>8. CASE a + 1 = w /\ b + 1 < w
  <2>1. /\ (a + 1) \div w = 1 /\ (a + 1) % w = 0 /\ c + 0 = c
        /\ (b + 1) \div w = 0 /\ (b + 1) % w = b + 1 /\ c % w = c
    BY <1>1, <1>2, <1>8
  <2>2. next_nonce(n) = <<0, b + 1, c>>
    BY <1>3, <2>1, Zenon
  <2>3. 0 + w * ((b + 1) + w * c) = a + w * (b + w * c) + 1
    BY <1>1, <1>8, Z3
  <2> QED BY <1>1, <1>6, <1>8, <2>2, <2>3
<1>9. CASE a + 1 = w /\ b + 1 = w /\ c + 1 < w
  <2>1. /\ (a + 1) \div w = 1 /\ (a + 1) % w = 0
        /\ (b + 1) \div w = 1 /\ (b + 1) % w = 0 /\ (c + 1) % w = c + 1
    BY <1>1, <1>2, <1>9
  <2>2. next_nonce(n) = <<0, 0, c + 1>>
    BY <1>3, <2>1, Zenon
  <2>3. 0 + w * (0 + w * (c + 1)) = a + w * (b + w * c) + 1
    BY <1>1, <1>9, Z3
  <2> QED BY <1>1, <1>6, <1>9, <2>2, <2>3
<1>10. CASE a + 1 = w /\ b + 1 = w /\ c + 1 = w
  <2>1. /\ (a + 1) \div w = 1 /\ (a + 1) % w = 0
        /\ (b + 1) \div w = 1 /\ (b + 1) % w = 0 /\ (c + 1) % w = 0
    BY <1>1, <1>2, <1>10
  <2>2. next_nonce(n) = <<0, 0, 0>>
    BY <1>3, <2>1, Zenon
  <2>3. 0 + w * (0 + w * 0) = 0 /\ a + w * (b + w * c) + 1 = w * (w * w)
    BY <1>1, <1>10, Z3
  <2> QED BY <1>1, <1>6, <1>10, <2>2, <2>3
<1> QED BY <1>1, <1>7, <1>8, <1>9, <1>10

\* The checker and the initiators' cookies keep their types.
THEOREM GateTypeCorrect == Spec => []TypeOK
<1>1. Init => TypeOK
  <2>1. new_jar \in Jars /\ 0 \in Ticks
    BY DurationAssumption DEF new_jar, Jars, Ticks
  <2>2. <<0, 0, 0>> \in Nonces
    BY NonceAssumption DEF Nonces
  <2> QED
    BY <2>1, <2>2 DEF Init, TypeOK
<1>2. ASSUME TypeOK, [Next]_vars
      PROVE  TypeOK'
  <2>1. CASE UNCHANGED vars
    BY <1>2, <2>1 DEF TypeOK, vars
  <2>2. ASSUME NEW clock \in Clock, GateOther(clock)
        PROVE  TypeOK'
    BY <1>2, <2>2, ClockAssumption DEF TypeOK, GateOther
  <2>3. ASSUME NEW clock \in Clock, NEW remote \in Remotes, NEW under_load,
               GateInitiation(clock, remote, under_load)
        PROVE  TypeOK'
    <3>1. clock \in Ticks
      BY ClockAssumption
    <3>2. rotate_if_needed(jar, clock) \in Jars
      BY <1>2, <3>1 DEF TypeOK, Jars, rotate_if_needed
    <3>3. jar' \in Jars => [cookie |-> mint(jar', remote), at |-> clock]
                             \in [cookie : Cookies, at : Ticks]
      BY <3>1 DEF mint, Cookies, Jars
    <3>4. nonce_counter' \in Nonces /\ nonces' \subseteq Nonces
      <4>1. \A seed \in Seeds : next_nonce(seeded(seed)) \in Nonces
        BY <1>2, NonceAssumption, NextRank DEF TypeOK, seeded
      <4> QED BY <1>2, <2>3, <4>1 DEF TypeOK, GateInitiation, GateReply
    <3> QED
      BY <1>2, <2>3, <3>1, <3>2, <3>3, <3>4 DEF TypeOK, GateInitiation, GateReply
  <2>4. ASSUME NEW clock \in Clock, NEW m \in minted, Deliver(clock, m)
        PROVE  TypeOK'
    <3>1. clock \in Ticks /\ m.cookie \in Cookies
      BY <1>2, ClockAssumption DEF TypeOK
    <3>2. [value |-> m.cookie, received_at |-> clock] \in LastCookies
      BY <3>1 DEF LastCookies
    <3>3. held' \in [Remotes -> LastCookies \cup {None}]
      BY <1>2, <2>4, <3>2 DEF TypeOK, Deliver
    <3> QED
      BY <1>2, <2>4, <3>1, <3>3 DEF TypeOK, Deliver
  <2> QED
    BY <1>2, <2>1, <2>2, <2>3, <2>4 DEF Next
<1> QED
  BY <1>1, <1>2, PTL DEF Spec

\* The age of a cookie by the rank of its secret: cookies of the previous
\* secret were minted before the last rotation, and older ones a full lifetime
\* before it, because a rotation waits for COOKIE_LIFETIME.
AgeByRank ==
  /\ jar.rotated_at <= now
  /\ \A m \in minted :
       /\ jar.primed
       /\ m.at <= now
       /\ m.cookie.secret <= jar.secret
       /\ m.cookie.secret = jar.secret - 1 =>
            /\ jar.has_previous /\ jar.previous = m.cookie.secret
            /\ m.at <= jar.rotated_at
       /\ m.cookie.secret < jar.secret - 1 =>
            m.at + COOKIE_LIFETIME <= jar.rotated_at

\* A call that mints nothing only lets time pass.
LEMMA AgeWait ==
  ASSUME TypeOK, AgeByRank, NEW clock \in Ticks, now <= clock, now' = clock,
         UNCHANGED <<jar, minted>>
  PROVE  AgeByRank'
<1>1. jar.rotated_at \in Ticks /\ now \in Ticks /\ \A m \in minted : m.at \in Ticks
  BY DEF TypeOK, Jars
<1> QED
  BY <1>1, DurationAssumption DEF AgeByRank, Ticks

\* Minting rotates the secret only when it is a lifetime old.
LEMMA AgeMint ==
  ASSUME TypeOK, AgeByRank, NEW clock \in Ticks, now <= clock, now' = clock,
         NEW remote \in Remotes, jar' = rotate_if_needed(jar, clock),
         minted' = minted \cup {[cookie |-> mint(jar', remote), at |-> clock]}
  PROVE  AgeByRank'
<1>1. /\ jar.rotated_at \in Ticks /\ now \in Ticks
      /\ jar.secret \in Nat /\ jar.previous \in Nat
      /\ \A m \in minted : m.at \in Ticks /\ m.cookie.secret \in Nat
  BY DEF TypeOK, Jars, Cookies
<1> DEFINE new == [cookie |-> mint(jar', remote), at |-> clock]
<1>2. new.cookie.secret = jar'.secret /\ new.at = clock
  BY DEF mint
<1> HIDE DEF new
<1>3. CASE ~rotation_due(jar, clock)
  <2>1. jar' = jar /\ jar.primed
    BY <1>3 DEF rotate_if_needed, rotation_due
  <2> QED
    BY <1>1, <1>2, <2>1, DurationAssumption DEF AgeByRank, Ticks, new
<1>4. CASE rotation_due(jar, clock)
  <2>1. /\ jar'.secret = jar.secret + 1 /\ jar'.previous = jar.secret
        /\ jar'.has_previous = jar.primed
        /\ jar'.rotated_at = clock /\ jar'.primed = TRUE
    BY <1>4 DEF rotate_if_needed
  <2>2. jar.primed => jar.rotated_at + COOKIE_LIFETIME <= clock
    BY <1>1, <1>4, DurationAssumption, PositiveAssumption
       DEF rotation_due, since, Ticks
  <2>3. ASSUME NEW m \in minted
        PROVE  /\ m.at <= clock
               /\ m.cookie.secret <= jar'.secret
               /\ m.cookie.secret = jar'.secret - 1 =>
                    /\ jar'.has_previous /\ jar'.previous = m.cookie.secret
                    /\ m.at <= jar'.rotated_at
               /\ m.cookie.secret < jar'.secret - 1 =>
                    m.at + COOKIE_LIFETIME <= jar'.rotated_at
    BY <1>1, <2>1, <2>2, <2>3, DurationAssumption DEF AgeByRank, Ticks
  <2>4. /\ new.at <= clock
        /\ new.cookie.secret = jar'.secret
    BY <1>2 DEF Ticks
  <2> QED
    BY <1>1, <2>1, <2>3, <2>4 DEF AgeByRank, Ticks, new
<1> QED
  BY <1>3, <1>4

\* "Cookies minted just before a rotation stay verifiable for their full
\* advertised lifetime" (cookie.rs:84-86), whatever the rotations that follow.
THEOREM LifetimeHonoured == Spec => []CookieHonoured
<1>1. Init => AgeByRank
  BY DEF Init, AgeByRank, new_jar
<1>2. ASSUME TypeOK, AgeByRank, [Next]_vars
      PROVE  AgeByRank'
  <2>1. CASE UNCHANGED vars
    BY <1>2, <2>1 DEF AgeByRank, vars
  <2>2. ASSUME NEW clock \in Clock, clock >= now,
               \/ GateOther(clock)
               \/ \E remote \in Remotes, under_load \in BOOLEAN :
                    GateInitiation(clock, remote, under_load)
               \/ \E m \in minted : Deliver(clock, m)
        PROVE  AgeByRank'
    <3>1. clock \in Ticks /\ now <= clock
      BY <1>2, <2>2, ClockAssumption DEF TypeOK, Ticks
    <3> QED
      BY <1>2, <2>2, <3>1, AgeWait, AgeMint
         DEF GateOther, GateInitiation, GateReply, Deliver
  <2> QED
    BY <1>2, <2>1, <2>2 DEF Next
<1>3. ASSUME TypeOK, AgeByRank
      PROVE  CookieHonoured
  <2>1. SUFFICES ASSUME NEW m \in minted, since(now, m.at) < COOKIE_LIFETIME
                 PROVE  verify_mac2(jar, m.cookie.remote, m.cookie)
    BY DEF CookieHonoured
  <2>2. /\ now \in Ticks /\ m.at \in Ticks /\ jar.rotated_at \in Ticks
        /\ m.cookie.secret \in Nat /\ jar.secret \in Nat
    BY <1>3 DEF TypeOK, Jars, Cookies
  <2>3. m.cookie.secret = jar.secret \/ m.cookie.secret = jar.secret - 1
    BY <1>3, <2>1, <2>2, DurationAssumption DEF AgeByRank, since, Ticks
  <2>4. m.cookie = [secret |-> m.cookie.secret, remote |-> m.cookie.remote]
    BY <1>3 DEF TypeOK, Cookies
  <2> QED
    BY <1>3, <2>2, <2>3, <2>4 DEF AgeByRank, verify_mac2
<1> QED
  BY <1>1, <1>2, <1>3, GateTypeCorrect, PTL DEF Spec

\* The nonces used are the k numbers after s, and the counter is the last of them.
CountedFrom(s, k, counter, used) ==
  /\ s \in 0 .. (NonceCount - 1) /\ k \in 0 .. NonceCount
  /\ Rank(counter) = After(s, k)
  /\ used = {m \in Nonces : \E j \in 1 .. k : Rank(m) = After(s, j)}

\* The next nonce is another one, until all are used.
LEMMA CountOn ==
  ASSUME NEW s, NEW k, NEW n \in Nonces, NEW used, CountedFrom(s, k, n, used)
  PROVE  LET next == next_nonce(n)
         IN  /\ next \notin used \/ used = Nonces
             /\ \E t, l : CountedFrom(t, l, next, used \cup {next})
<1> DEFINE next == next_nonce(n)
           After1 == After(s, k + 1)
<1>1. /\ NonceCount \in Nat /\ s \in 0 .. (NonceCount - 1) /\ k \in 0 .. NonceCount
      /\ next \in Nonces /\ Rank(next) = After(After(s, k), 1)
  BY RankBelow, NextRank DEF CountedFrom
<1>2. \A m \in Nonces : Rank(m) \in Nat /\ Rank(m) < NonceCount
  BY RankBelow
<1> HIDE DEF next
<1>3. CASE k < NonceCount
  <2>1. Rank(next) = After(s, k + 1)
    BY <1>1, <1>3 DEF After
  <2>2. \A j \in 1 .. k : After(s, j) # After(s, k + 1)
    BY <1>1, <1>3 DEF After
  <2>3. next \notin used
    BY <2>1, <2>2 DEF CountedFrom
  <2>4. ASSUME NEW m \in Nonces
        PROVE  m \in used \cup {next} <=> \E j \in 1 .. (k + 1) : Rank(m) = After(s, j)
    <3>1. m = next <=> Rank(m) = After(s, k + 1)
      BY <1>1, <2>1, RankFree
    <3>2. m \in used <=> \E j \in 1 .. k : Rank(m) = After(s, j)
      BY DEF CountedFrom
    <3>3. 1 .. (k + 1) = (1 .. k) \cup {k + 1}
      BY <1>1
    <3> QED BY <3>1, <3>2, <3>3, Zenon
  <2>5. used \cup {next} = {m \in Nonces : \E j \in 1 .. (k + 1) : Rank(m) = After(s, j)}
    BY <1>1, <2>4 DEF CountedFrom
  <2>6. k + 1 \in 0 .. NonceCount
    BY <1>1, <1>3
  <2>7. CountedFrom(s, k + 1, next, used \cup {next})
    BY <1>1, <2>1, <2>5, <2>6, Zenon DEF CountedFrom
  <2> QED BY <2>3, <2>7, Zenon DEF next
<1>4. CASE k = NonceCount
  <2>1. \A t \in 0 .. (NonceCount - 1) :
          Nonces = {m \in Nonces : \E j \in 1 .. k : Rank(m) = After(t, j)}
    <3> SUFFICES ASSUME NEW t \in 0 .. (NonceCount - 1), NEW m \in Nonces
                 PROVE  \E j \in 1 .. k : Rank(m) = After(t, j)
      OBVIOUS
    <3> DEFINE r == Rank(m)
               j == IF r > t THEN r - t ELSE r - t + NonceCount
    <3>1. r \in Nat /\ r < NonceCount
      BY <1>2
    <3> HIDE DEF r
    <3>2. j \in 1 .. k /\ r = After(t, j)
      BY <1>1, <1>4, <3>1 DEF After
    <3> QED BY <3>2 DEF r
  <2>2. used = Nonces
    BY <1>1, <2>1, Zenon DEF CountedFrom
  <2> DEFINE t == After(s, 1)
  <2>3. t \in 0 .. (NonceCount - 1) /\ Rank(next) = After(t, k)
    BY <1>1, <1>4 DEF After
  <2>4. used \cup {next} = Nonces
    BY <1>1, <2>2
  <2> HIDE DEF t
  <2>5. CountedFrom(t, k, next, used \cup {next})
    BY <1>1, <2>1, <2>3, <2>4, Zenon DEF CountedFrom
  <2> QED BY <2>2, <2>5, Zenon DEF next
<1> QED BY <1>1, <1>3, <1>4

\* A count from the counter itself has used nothing.
LEMMA CountStarts ==
  ASSUME NEW n \in Nonces
  PROVE  CountedFrom(Rank(n), 0, n, {})
<1>1. Rank(n) \in Nat /\ NonceCount \in Nat /\ Rank(n) < NonceCount
  BY RankBelow
<1>2. Rank(n) = After(Rank(n), 0)
  BY <1>1 DEF After
<1> QED BY <1>1, <1>2 DEF CountedFrom

\* The nonces of the replies are counted from the seed; before it there are none.
NoncesCounted ==
  /\ \E s, k : CountedFrom(s, k, nonce_counter, nonces)
  /\ ~jar.primed => nonces = {}

\* The step of a cookie reply.
LEMMA ReplyCounts ==
  ASSUME TypeOK, NoncesCounted, NEW seed \in Seeds,
         nonce_counter' = next_nonce(seeded(seed)), nonces' = nonces \cup {nonce_counter'}
  PROVE  /\ nonce_counter' \notin nonces \/ nonces = Nonces
         /\ \E s, k : CountedFrom(s, k, nonce_counter', nonces')
<1> DEFINE n == seeded(seed)
<1>1. n \in Nonces
  BY NonceAssumption DEF TypeOK, seeded
<1>2. PICK s, k : CountedFrom(s, k, n, nonces)
  <2>1. CASE jar.primed
    BY <2>1, Zenon DEF NoncesCounted, seeded
  <2>2. CASE ~jar.primed
    BY <1>1, <2>2, CountStarts, Zenon DEF NoncesCounted
  <2> QED BY <2>1, <2>2
<1> HIDE DEF n
<1>3. /\ next_nonce(n) \notin nonces \/ nonces = Nonces
      /\ \E t, l : CountedFrom(t, l, next_nonce(n), nonces \cup {next_nonce(n)})
  BY <1>1, <1>2, CountOn
<1> QED BY <1>3, Zenon DEF n

\* No two cookie replies have the same nonce, for every size of the words and every
\* seed: the counter is seeded once, and its carries make it count (cookie.rs:121-169).
THEOREM ReplyNoncesFresh == Spec => ReplyNonceFresh
<1> DEFINE fresh == gate' = "CookieReply" => nonce_counter' \notin nonces \/ nonces = Nonces
<1>1. Init => NoncesCounted
  <2> SUFFICES ASSUME Init PROVE NoncesCounted
    OBVIOUS
  <2>1. nonce_counter \in Nonces /\ nonces = {}
    BY NonceAssumption DEF Init, Nonces
  <2>2. CountedFrom(Rank(nonce_counter), 0, nonce_counter, nonces)
    BY <2>1, CountStarts
  <2> QED BY <2>1, <2>2, Zenon DEF NoncesCounted
<1>2. ASSUME TypeOK, NoncesCounted, [Next]_vars
      PROVE  NoncesCounted' /\ [fresh]_vars
  <2>1. CASE UNCHANGED vars
    BY <1>2, <2>1, Zenon DEF NoncesCounted, vars
  <2>2. CASE UNCHANGED <<jar, nonce_counter, nonces>> /\ gate' # "CookieReply"
    BY <1>2, <2>2, Zenon DEF NoncesCounted
  <2>3. ASSUME NEW clock, NEW remote, GateReply(clock, remote)
        PROVE  NoncesCounted' /\ [fresh]_vars
    <3>1. CASE UNCHANGED <<jar, minted, nonce_counter, nonces>> /\ gate' # "CookieReply"
      BY <2>2, <3>1
    <3>2. ASSUME jar' = rotate_if_needed(jar, clock), NEW seed \in Seeds,
                 nonce_counter' = next_nonce(seeded(seed)),
                 nonces' = nonces \cup {nonce_counter'}
          PROVE  NoncesCounted' /\ [fresh]_vars
      <4>1. jar'.primed
        BY <3>2 DEF rotate_if_needed, rotation_due
      <4>2. /\ nonce_counter' \notin nonces \/ nonces = Nonces
            /\ \E s, k : CountedFrom(s, k, nonce_counter', nonces')
        BY <1>2, <3>2, ReplyCounts
      <4> QED BY <4>1, <4>2, Zenon DEF NoncesCounted
    <3>3. "BufferTooSmall" # "CookieReply" /\ "EntropyFailure" # "CookieReply"
      OBVIOUS
    <3> QED BY <2>3, <3>1, <3>2, <3>3, Zenon DEF GateReply
  <2>4. ASSUME NEW clock,
               \/ GateOther(clock)
               \/ \E remote \in Remotes, under_load \in BOOLEAN :
                    GateInitiation(clock, remote, under_load)
               \/ \E m \in minted : Deliver(clock, m)
        PROVE  NoncesCounted' /\ [fresh]_vars
    <3>1. \/ UNCHANGED <<jar, nonce_counter, nonces>> /\ gate' # "CookieReply"
          \/ \E remote : GateReply(clock, remote)
      BY <2>4 DEF GateOther, GateInitiation, Deliver
    <3> QED BY <2>2, <2>3, <3>1, Zenon
  <2> QED
    BY <1>2, <2>1, <2>4, Zenon DEF Next
<1> QED
  BY <1>1, <1>2, GateTypeCorrect, PTL DEF Spec, ReplyNonceFresh

-----------------------------------------------------------------------------
(* The rate limiter *)

\* The threads that won the compare_exchange and have not stored zero yet.
Winners == {t \in Threads : place[t] = "zero"}

\* Windows opened so far: stores of zero made, and those still to come.
Windows == zeroed + Cardinality(Winners)

\* At most LIMIT for each store of zero, and the count of the present window.
Admission ==
  admitted <= LIMIT * zeroed + (IF count <= LIMIT THEN count ELSE LIMIT)

\* A thread that is to compare has read the clock, and found the period over.
InPace(t) ==
  /\ place[t] \notin {"stamp", "store"}
  /\ place[t] \in {"load", "swap"} => now_ns[t] <= elapsed
  /\ place[t] = "swap" => period_over(now_ns[t], last[t])

\* While nobody calls reset, each window moved last_reset_ns by a period.
Paced ==
  forced = 0 =>
    /\ Windows * RESET_PERIOD <= last_reset_ns
    /\ last_reset_ns <= elapsed
    /\ \A t \in Threads : InPace(t)

Inv == LimiterTypeOK /\ Admission /\ Paced

-----------------------------------------------------------------------------
\* There are finitely many winners, since there are finitely many threads.
LEMMA WinnersFinite == IsFiniteSet(Winners) /\ Cardinality(Winners) \in Nat
<1>1. IsFiniteSet(Winners)
  BY LimiterAssumption, FS_Subset, Winners \subseteq Threads DEF Winners
<1> QED
  BY <1>1, FS_CardinalityType

\* A step to `to' that neither leaves nor enters "zero".
LEMMA SameWinners ==
  ASSUME LimiterTypeOK, NEW t \in Threads, NEW to, goto(t, to),
         place[t] # "zero", to # "zero"
  PROVE  Winners' = Winners
BY DEF LimiterTypeOK, goto, Winners

\* A compare_exchange that succeeds adds a winner.
LEMMA WinnerJoins ==
  ASSUME LimiterTypeOK, NEW t \in Threads, goto(t, "zero"), place[t] # "zero"
  PROVE  Cardinality(Winners') = Cardinality(Winners) + 1
<1>1. Winners' = Winners \cup {t} /\ t \notin Winners
  BY DEF LimiterTypeOK, goto, Winners
<1> QED
  BY <1>1, WinnersFinite, FS_AddElement

\* A store of zero takes one away.
LEMMA WinnerLeaves ==
  ASSUME LimiterTypeOK, NEW t \in Threads, goto(t, "out"), place[t] = "zero"
  PROVE  Cardinality(Winners') = Cardinality(Winners) - 1
<1>1. Winners' = Winners \ {t} /\ t \in Winners
  BY DEF LimiterTypeOK, goto, Winners
<1> QED
  BY <1>1, WinnersFinite, FS_RemoveElement

\* One more factor is one more summand.
LEMMA OneMore ==
  ASSUME NEW n \in Nat, NEW k \in Nat
  PROVE  (n + 1) * k = n * k + k /\ k * (n + 1) = k * n + k
OBVIOUS

\* A summand moved.
LEMMA Moved ==
  ASSUME NEW n \in Nat, NEW k \in Nat
  PROVE  n + (k + 1) = (n + k) + 1 /\ (n + 1) + (k - 1) = n + k
OBVIOUS

-----------------------------------------------------------------------------
\* The invariant holds at first.
LEMMA InvInit == LimiterInit => Inv
<1> SUFFICES ASSUME LimiterInit PROVE Inv
  OBVIOUS
<1>1. LimiterTypeOK
  BY DEF LimiterInit, LimiterTypeOK, Places
<1>2. Winners = {}
  BY DEF LimiterInit, Winners
<1>3. Windows = 0
  BY <1>2, FS_EmptySet DEF Windows, LimiterInit
<1> QED
  BY <1>1, <1>3, LimiterAssumption DEF LimiterInit, Inv, Admission, Paced, InPace

\* Every step keeps the types.
LEMMA TypeStep == LimiterTypeOK /\ [LimiterNext]_limiterVars => LimiterTypeOK'
<1> SUFFICES ASSUME LimiterTypeOK, [LimiterNext]_limiterVars PROVE LimiterTypeOK'
  OBVIOUS
<1> USE DEF LimiterTypeOK, locals, goto, Places
<1>1. CASE Tick
  BY <1>1 DEF Tick
<1>2. CASE UNCHANGED limiterVars
  BY <1>2 DEF limiterVars
<1>3. ASSUME NEW t \in Threads, note_handshake(t) PROVE LimiterTypeOK'
  BY <1>3 DEF note_handshake
<1>4. ASSUME NEW t \in Threads, ReadClock(t) \/ LoadLast(t)
      PROVE  LimiterTypeOK'
  BY <1>4 DEF ReadClock, LoadLast
<1>5. ASSUME NEW t \in Threads, CompareExchange(t) \/ StoreZero(t)
      PROVE  LimiterTypeOK'
  BY <1>5 DEF CompareExchange, StoreZero
<1>6. ASSUME NEW t \in Threads, ForceZero(t) \/ ForceRead(t) \/ ForceStamp(t)
      PROVE  LimiterTypeOK'
  BY <1>6 DEF ForceZero, ForceRead, ForceStamp
<1> QED
  BY <1>1, <1>2, <1>3, <1>4, <1>5, <1>6 DEF LimiterNext

\* Only a store of zero opens a window for Admission, and then it is spent.
LEMMA AdmissionStep == Inv /\ [LimiterNext]_limiterVars => Admission'
<1> SUFFICES ASSUME Inv, [LimiterNext]_limiterVars PROVE Admission'
  OBVIOUS
<1> USE LimiterAssumption DEF Inv, LimiterTypeOK, Admission, locals
<1>1. CASE UNCHANGED <<admitted, zeroed, count>>
  BY <1>1
<1>2. ASSUME NEW t \in Threads, note_handshake(t) PROVE Admission'
  <2>1. LIMIT * zeroed \in Nat
    OBVIOUS
  <2> QED
    BY <1>2, <2>1 DEF note_handshake
<1>3. ASSUME count' = 0, zeroed' = zeroed + 1, admitted' = admitted
      PROVE  Admission'
  <2>1. LIMIT * zeroed \in Nat /\ LIMIT * zeroed' = LIMIT * zeroed + LIMIT
    BY <1>3, OneMore
  <2> QED
    BY <1>3, <2>1
<1> QED
  BY <1>1, <1>2, <1>3 DEF LimiterNext, Tick, ReadClock, LoadLast, CompareExchange,
     StoreZero, ForceZero, ForceRead, ForceStamp, limiterVars

-----------------------------------------------------------------------------
\* A step of one thread leaves the others in pace.
LEMMA PaceKept ==
  ASSUME LimiterTypeOK, \A s \in Threads : InPace(s), elapsed' = elapsed,
         NEW t \in Threads, NEW to, goto(t, to), InPace(t)',
         \A s \in Threads : s # t => now_ns'[s] = now_ns[s] /\ last'[s] = last[s]
  PROVE  \A s \in Threads : InPace(s)'
<1> SUFFICES ASSUME NEW s \in Threads, s # t PROVE InPace(s)'
  BY Zenon
<1>1. place'[s] = place[s]
  BY Zenon DEF LimiterTypeOK, goto
<1>2. now_ns'[s] = now_ns[s] /\ last'[s] = last[s] /\ InPace(s)
  BY Zenon
<1> QED BY <1>1, <1>2, Zenon DEF InPace

\* Where a thread goes.
LEMMA Gone ==
  ASSUME LimiterTypeOK, NEW t \in Threads, NEW to, goto(t, to)
  PROVE  place'[t] = to
BY Zenon DEF LimiterTypeOK, goto

\* A thread outside, or about to store zero, is in pace.
LEMMA OutInPace ==
  ASSUME NEW t \in Threads, place'[t] \in {"out", "zero"}
  PROVE  InPace(t)'
BY DEF InPace

\* Windows are opened a period apart while nobody forces one.
LEMMA PacedStep == Inv /\ [LimiterNext]_limiterVars => Paced'
<1> SUFFICES ASSUME Inv, [LimiterNext]_limiterVars, forced' = 0 PROVE Paced'
  BY DEF Paced
<1> USE LimiterAssumption DEF Inv
<1>0. LimiterTypeOK /\ LimiterTypeOK' /\ Windows \in Nat /\ Cardinality(Winners) \in Nat
  BY TypeStep, WinnersFinite DEF Windows, LimiterTypeOK
<1>a. ~ \E t \in Threads : ForceZero(t)
  BY <1>0 DEF ForceZero, LimiterTypeOK
<1>b. forced = 0
  BY <1>a DEF LimiterNext, Tick, note_handshake, ReadClock, LoadLast, CompareExchange,
     StoreZero, ForceRead, ForceStamp, limiterVars
<1>c. /\ Windows * RESET_PERIOD <= last_reset_ns /\ last_reset_ns <= elapsed
      /\ \A t \in Threads : InPace(t)
  BY <1>b DEF Paced
<1>1. CASE UNCHANGED <<last_reset_ns, locals, zeroed>> /\ elapsed' \in {elapsed, elapsed + 1}
  <2>1. Windows' = Windows
    BY <1>1 DEF Windows, Winners, locals
  <2>2. elapsed \in Nat /\ last_reset_ns \in Nat /\ now_ns \in [Threads -> Nat]
    BY <1>0, Zenon DEF LimiterTypeOK
  <2>3. /\ place' = place /\ now_ns' = now_ns /\ last' = last
        /\ last_reset_ns' = last_reset_ns
    BY <1>1, Zenon DEF locals
  <2>4. \A n \in Nat : n <= elapsed => n <= elapsed'
    BY <1>1, <2>2
  <2>5. ASSUME NEW s \in Threads PROVE InPace(s)'
    <3>1. now_ns[s] \in Nat /\ InPace(s)
      BY <1>c, <2>2, Zenon
    <3> QED BY <2>3, <2>4, <3>1, Zenon DEF InPace
  <2> QED
    BY <1>c, <2>1, <2>2, <2>3, <2>4, <2>5, Zenon DEF Paced
<1>2. ASSUME NEW t \in Threads, ReadClock(t) PROVE Paced'
  <2>1. Windows' = Windows
    BY <1>0, <1>2, SameWinners DEF ReadClock, Windows
  <2>2. /\ goto(t, "load") /\ now_ns' = [now_ns EXCEPT ![t] = elapsed]
        /\ elapsed' = elapsed /\ last' = last /\ last_reset_ns' = last_reset_ns
    BY <1>2, Zenon DEF ReadClock
  <2>3. place'[t] = "load"
    BY <1>0, <2>2, Gone
  <2>4. now_ns'[t] = elapsed /\ \A s \in Threads : s # t => now_ns'[s] = now_ns[s]
    BY <1>0, <2>2, Zenon DEF LimiterTypeOK
  <2>5. InPace(t)'
    BY <1>0, <2>2, <2>3, <2>4 DEF InPace, LimiterTypeOK
  <2>6. \A s \in Threads : InPace(s)'
    BY <1>0, <1>c, <2>2, <2>4, <2>5, PaceKept, Zenon
  <2> QED
    BY <1>c, <2>1, <2>2, <2>6, Zenon DEF Paced
<1>3. ASSUME NEW t \in Threads, LoadLast(t) PROVE Paced'
  <2>1. Windows' = Windows
    BY <1>0, <1>3, SameWinners DEF LoadLast, Windows
  <2> DEFINE to == IF period_over(now_ns[t], last_reset_ns) THEN "swap" ELSE "out"
  <2>2. /\ goto(t, to) /\ last' = [last EXCEPT ![t] = last_reset_ns] /\ place[t] = "load"
        /\ elapsed' = elapsed /\ now_ns' = now_ns /\ last_reset_ns' = last_reset_ns
    BY <1>3, Zenon DEF LoadLast
  <2>3. place'[t] = to
    BY <1>0, <2>2, Gone
  <2>4. last'[t] = last_reset_ns /\ \A s \in Threads : s # t => last'[s] = last[s]
    BY <1>0, <2>2, Zenon DEF LimiterTypeOK
  <2>5. InPace(t)'
    <3>1. now_ns'[t] <= elapsed'
      BY <1>c, <2>2 DEF InPace
    <3>2. to = "swap" => period_over(now_ns'[t], last'[t])
      BY <2>2, <2>4
    <3>3. to \notin {"stamp", "store"}
      OBVIOUS
    <3> HIDE DEF to
    <3> QED BY <2>3, <3>1, <3>2, <3>3, Zenon DEF InPace
  <2>6. \A s \in Threads : InPace(s)'
    BY <1>0, <1>c, <2>2, <2>4, <2>5, PaceKept, Zenon
  <2> QED
    BY <1>c, <2>1, <2>2, <2>6, Zenon DEF Paced
<1>4. ASSUME NEW t \in Threads, CompareExchange(t) PROVE Paced'
  <2>1. CASE last_reset_ns = last[t]
    <3>1. last_reset_ns' = now_ns[t] /\ goto(t, "zero") /\ place[t] = "swap"
      BY <1>4, <2>1 DEF CompareExchange
    <3>2. Windows' = Windows + 1
      <4>1. place[t] # "zero"
        BY <3>1
      <4>2. Cardinality(Winners') = Cardinality(Winners) + 1
        BY <1>0, <3>1, <4>1, WinnerJoins, Zenon
      <4>3. zeroed' = zeroed /\ zeroed \in Nat
        BY <1>0, <1>4, Zenon DEF CompareExchange, LimiterTypeOK
      <4>4. Windows' = zeroed + (Cardinality(Winners) + 1)
        BY <4>2, <4>3, Zenon DEF Windows
      <4> QED BY <1>0, <4>3, <4>4, Moved, Zenon DEF Windows
    <3>3. Windows' * RESET_PERIOD = Windows * RESET_PERIOD + RESET_PERIOD
      BY <1>0, <3>2, OneMore
    <3>4. now_ns[t] - last_reset_ns >= RESET_PERIOD /\ now_ns[t] <= elapsed
      BY <1>c, <2>1, <3>1 DEF InPace, period_over
    <3>5. Windows' * RESET_PERIOD <= last_reset_ns' /\ last_reset_ns' <= elapsed'
      <4> DEFINE u == Windows * RESET_PERIOD
                 n == now_ns[t]
                 r == last_reset_ns
      <4>1. u \in Nat /\ n \in Nat /\ r \in Nat /\ RESET_PERIOD \in Nat
        BY <1>0 DEF LimiterTypeOK
      <4>2. u <= r /\ n - r >= RESET_PERIOD
        BY <1>c, <3>4, Zenon
      <4>3. elapsed' = elapsed
        BY <1>4, Zenon DEF CompareExchange
      <4> HIDE DEF u, n, r
      <4>4. u + RESET_PERIOD <= n
        BY <4>1, <4>2, SMT
      <4> QED
        BY <3>1, <3>3, <3>4, <4>3, <4>4, Zenon DEF u, n
    <3>6. \A s \in Threads : InPace(s)'
      <4>1. elapsed' = elapsed /\ now_ns' = now_ns /\ last' = last
        BY <1>4, Zenon DEF CompareExchange
      <4>2. InPace(t)'
        BY <1>0, <3>1, Gone, OutInPace, Zenon
      <4> QED BY <1>0, <1>c, <3>1, <4>1, <4>2, PaceKept, Zenon
    <3> QED
      BY <3>5, <3>6, Zenon DEF Paced
  <2>2. CASE last_reset_ns # last[t]
    <3>1. Windows' = Windows
      BY <1>0, <1>4, <2>2, SameWinners DEF CompareExchange, Windows
    <3>2. /\ elapsed' = elapsed /\ now_ns' = now_ns /\ last' = last
          /\ goto(t, "out") /\ last_reset_ns' = last_reset_ns
      BY <1>4, <2>2, Zenon DEF CompareExchange
    <3>3. InPace(t)'
      BY <1>0, <3>2, Gone, OutInPace, Zenon
    <3>4. \A s \in Threads : InPace(s)'
      BY <1>0, <1>c, <3>2, <3>3, PaceKept, Zenon
    <3> QED
      BY <1>c, <3>1, <3>2, <3>4, Zenon DEF Paced
  <2> QED
    BY <2>1, <2>2
<1>5. ASSUME NEW t \in Threads, StoreZero(t) PROVE Paced'
  <2>1. Windows' = Windows
    <3>1. Cardinality(Winners') = Cardinality(Winners) - 1
      BY <1>0, <1>5, WinnerLeaves, Zenon DEF StoreZero
    <3>2. zeroed' = zeroed + 1 /\ zeroed \in Nat
      BY <1>0, <1>5, Zenon DEF StoreZero, LimiterTypeOK
    <3>3. Windows' = (zeroed + 1) + (Cardinality(Winners) - 1)
      BY <3>1, <3>2, Zenon DEF Windows
    <3> QED BY <1>0, <3>2, <3>3, Moved, Zenon DEF Windows
  <2>2. /\ elapsed' = elapsed /\ now_ns' = now_ns /\ last' = last
        /\ goto(t, "out") /\ last_reset_ns' = last_reset_ns
    BY <1>5, Zenon DEF StoreZero
  <2>3. InPace(t)'
    BY <1>0, <2>2, Gone, OutInPace, Zenon
  <2>4. \A s \in Threads : InPace(s)'
    BY <1>0, <1>c, <2>2, <2>3, PaceKept, Zenon
  <2> QED
    BY <1>c, <2>1, <2>2, <2>4, Zenon DEF Paced
<1>6. ASSUME NEW t \in Threads, ForceRead(t) \/ ForceStamp(t) PROVE FALSE
  BY <1>6, <1>c DEF InPace, ForceRead, ForceStamp
<1> QED
  BY <1>a, <1>0, <1>1, <1>2, <1>3, <1>4, <1>5, <1>6
  DEF LimiterNext, Tick, note_handshake, limiterVars, LimiterTypeOK

\* In any interleaving of any number of threads, LIMIT handshakes are admitted
\* for each store of zero and, while nobody calls reset, no two stores of zero
\* fall in one period (embed/src/rate_limiter.rs:53-78).
THEOREM LimiterHolds == LimiterSpec => []AdmissionBounded
<1>1. Inv /\ [LimiterNext]_limiterVars => Inv'
  BY TypeStep, AdmissionStep, PacedStep DEF Inv
<1>2. Inv => AdmissionBounded
  <2> SUFFICES ASSUME Inv PROVE AdmissionBounded
    OBVIOUS
  <2> USE LimiterAssumption DEF Inv, LimiterTypeOK
  <2>1. admitted <= LIMIT * (zeroed + 1)
    <3>1. LIMIT * (zeroed + 1) = LIMIT * zeroed + LIMIT /\ LIMIT * zeroed \in Nat
      BY OneMore
    <3> QED
      BY <3>1 DEF Admission
  <2>2. ASSUME forced = 0 PROVE zeroed * RESET_PERIOD <= elapsed
    <3> DEFINE n == Cardinality(Winners)
    <3>1. n \in Nat /\ Windows = zeroed + n
      BY WinnersFinite DEF Windows
    <3>2. Windows * RESET_PERIOD = zeroed * RESET_PERIOD + n * RESET_PERIOD
      BY <3>1
    <3>3. n * RESET_PERIOD \in Nat /\ zeroed * RESET_PERIOD \in Nat
      BY <3>1
    <3> QED
      BY <2>2, <3>2, <3>3 DEF Paced
  <2> QED
    BY <2>1, <2>2 DEF AdmissionBounded
<1> QED
  BY <1>1, <1>2, InvInit, PTL DEF LimiterSpec

-----------------------------------------------------------------------------
(* The driver's buffers *)

\* What the accounting needs of the types.
Counted ==
  /\ outstanding \in Int /\ to_net \in Nat /\ from_net \in Nat
  /\ queue \in Seq(Int) /\ handed \in Int

Accounted == Counted /\ BuffersAccounted

\* At first nothing is handed out.
LEMMA AccountedInit == DriverInit => Accounted
BY DEF DriverInit, Queue!Init, Accounted, Counted, BuffersAccounted, One

\* The lengths the queue may take in one step.
LEMMA ArriveLength ==
  ASSUME Counted, Queue!Arrive
  PROVE  /\ queue' \in Seq(Int) /\ handed' \in Int
         /\ queue' = queue \/ Len(queue') = Len(queue) + 1
BY DEF Counted, Queue!Arrive

\* A drain shortens the queue by its head.
LEMMA DrainLength ==
  ASSUME Counted, Queue!Drain
  PROVE  queue' \in Seq(Int) /\ handed' \in Int /\ Len(queue') = Len(queue) - 1
BY DEF Counted, Queue!Drain

\* A flush empties it.
LEMMA FlushLength ==
  ASSUME Counted, Queue!Flush
  PROVE  queue' \in Seq(Int) /\ handed' \in Int /\ Len(queue') = 0
BY DEF Counted, Queue!Flush

-----------------------------------------------------------------------------
(* One lemma for the TUN tasks, one for the driver *)

\* The TUN tasks keep the buffers accounted for, also when they stop.
LEMMA TasksAccount ==
  ASSUME Accounted,
         \/ ReaderGet \/ ReaderSend \/ ReaderClose
         \/ WriterRecv \/ WriterDrop \/ WriterClose
  PROVE  Accounted'
<1> USE DEF Accounted, Counted, BuffersAccounted, One, packets, pool, tasks
<1>0. Len(queue) \in Nat
  OBVIOUS
<1>1. CASE ReaderGet
  BY <1>0, <1>1 DEF ReaderGet, get
<1>2. CASE ReaderSend
  <2>1. CASE pc # "done"
    <3>1. /\ tun_read = "filled" /\ tun_read' = "out"
          /\ to_net' = to_net + 1
          /\ UNCHANGED <<outstanding, tun_write, from_net, pc, queue, handed>>
      BY <1>2, <2>1 DEF ReaderSend
    <3> QED
      BY <1>0, <3>1
  <2>2. CASE pc = "done"
    BY <1>0, <1>2, <2>2 DEF ReaderSend, give
  <2> QED
    BY <2>1, <2>2
<1>3. CASE ReaderClose
  BY <1>0, <1>3 DEF ReaderClose
<1>4. CASE WriterRecv
  <2>1. CASE from_net > 0
    BY <1>0, <1>4, <2>1 DEF WriterRecv
  <2>2. CASE from_net = 0
    BY <1>0, <1>4, <2>2 DEF WriterRecv
  <2> QED
    BY <2>1, <2>2
<1>5. CASE WriterDrop
  BY <1>0, <1>5 DEF WriterDrop, give
<1>6. CASE WriterClose
  BY <1>0, <1>6 DEF WriterClose, give
<1> QED
  BY <1>1, <1>2, <1>3, <1>4, <1>5, <1>6

\* So does every datagram received,
LEMMA RecvAccounts ==
  ASSUME Accounted, Recv
  PROVE  Accounted'
<1> USE DEF Accounted, Counted, BuffersAccounted, One, packets, pool, tasks
<1>0. Len(queue) \in Nat
  OBVIOUS
<1>1. CASE RecvData
  BY <1>0, <1>1 DEF RecvData, Arrival, get
<1>2. CASE RecvAnswer
  <2>1. CASE UNCHANGED <<pool, packets>>
    BY <1>0, <1>2, <2>1 DEF RecvAnswer, Arrival
  <2>2. CASE Queue!Drain /\ give(1)
    <3>1. Len(queue') = Len(queue) - 1 /\ queue' \in Seq(Int) /\ handed' \in Int
      BY <2>2, DrainLength
    <3>2. pc = "select" /\ pc' = "drain" /\ outstanding' = outstanding - 1
      BY <1>2, <2>2 DEF RecvAnswer, Arrival, give
    <3>3. UNCHANGED <<tun_read, tun_write, to_net, from_net>>
      BY <1>2 DEF RecvAnswer
    <3> QED
      BY <1>0, <3>1, <3>2, <3>3
  <2> QED
    BY <1>2, <2>1, <2>2 DEF RecvAnswer
<1>3. CASE RecvNothing
  BY <1>0, <1>3 DEF RecvNothing, Arrival
<1> QED
  BY <1>1, <1>2, <1>3 DEF Recv

\* and so does every other step of run(), its end included.
LEMMA DriverAccounts ==
  ASSUME Accounted, Driver
  PROVE  Accounted'
<1> USE DEF Accounted, Counted, BuffersAccounted, One, packets, pool, tasks
<1>0. Len(queue) \in Nat
  OBVIOUS
<1>1. CASE Start
  BY <1>0, <1>1 DEF Start, get
<1>2. CASE DeliverData
  <2>1. CASE tun_write = "closed"
    <3>1. /\ pc = "deliver" /\ pc' = "exit" /\ outstanding' = outstanding - 1
          /\ UNCHANGED <<tun_read, tun_write, to_net, from_net, queue, handed>>
      BY <1>2, <2>1 DEF DeliverData, give
    <3> QED
      BY <1>0, <3>1
  <2>2. CASE tun_write # "closed"
    <3>1. /\ pc = "deliver" /\ pc' = "select" /\ from_net' = from_net + 1
          /\ UNCHANGED <<outstanding, tun_read, tun_write, to_net, queue, handed>>
      BY <1>2, <2>2 DEF DeliverData
    <3> QED
      BY <1>0, <3>1
  <2> QED
    BY <2>1, <2>2
<1>3. CASE DrainQueue
  <2>1. CASE Queue!Drain /\ give(1) /\ pc' = pc
    BY <1>0, <1>3, <2>1, DrainLength DEF DrainQueue, give
  <2>2. CASE pc' = "select" /\ UNCHANGED <<pool, packets>>
    BY <1>0, <1>3, <2>2 DEF DrainQueue
  <2> QED
    BY <1>3, <2>1, <2>2 DEF DrainQueue
<1>4. CASE Outbound
  <2>1. CASE queue' = queue
    BY <1>0, <1>4, <2>1, ArriveLength DEF Outbound, give
  <2>2. CASE queue' # queue
    BY <1>0, <1>4, <2>2, ArriveLength DEF Outbound, swap
  <2> QED
    BY <2>1, <2>2
<1>5. CASE Closed
  BY <1>0, <1>5 DEF Closed
<1>6. CASE Timer
  BY <1>0, <1>6 DEF Timer
<1>7. CASE UpdateTimers
  <2>1. CASE pc' \in {pc, "select"} /\ UNCHANGED <<pool, packets>>
    BY <1>0, <1>7, <2>1 DEF UpdateTimers
  <2>2. CASE pc' = "select" /\ Queue!Flush /\ give(Len(queue))
    BY <1>0, <1>7, <2>2, FlushLength DEF UpdateTimers, give
  <2> QED
    BY <1>7, <2>1, <2>2 DEF UpdateTimers
<1>8. CASE Exit
  BY <1>0, <1>8, FlushLength DEF Exit, give
<1> QED
  BY <1>1, <1>2, <1>3, <1>4, <1>5, <1>6, <1>7, <1>8 DEF Driver

\* Every step keeps the count.
LEMMA StepsAccount == Accounted /\ [DriverNext]_driverVars => Accounted'
<1> SUFFICES ASSUME Accounted, [DriverNext]_driverVars PROVE Accounted'
  OBVIOUS
<1>1. CASE SocketError \/ Elapse \/ UNCHANGED driverVars
  BY <1>1 DEF SocketError, Elapse, driverVars, pool, tasks, packets, Accounted, Counted,
              BuffersAccounted, One
<1> QED
  BY <1>1, TasksAccount, RecvAccounts, DriverAccounts DEF DriverNext

\* Every buffer handed out by the pool is in a place that will drop it, however
\* run() ends and whatever is queued or in a channel then (embed/src/tokio.rs,
\* embed/src/buffer.rs).
THEOREM NoBufferLost == DriverSpec => []BuffersAccounted
<1>1. Accounted => BuffersAccounted
  BY DEF Accounted
<1> QED
  BY <1>1, AccountedInit, StepsAccount, PTL DEF DriverSpec

=============================================================================
