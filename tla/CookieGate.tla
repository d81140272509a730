----------------------------- MODULE CookieGate -----------------------------
(***************************************************************************)
(* The interface-level CookieChecker of src/cookie.rs in front of several  *)
(* peers, and one initiator behind each remote address with the cookie it  *)
(* last received.  Cookie replies travel for any time and may be lost; the *)
(* caller's clock does not decrease (gate, unlike Tunnel, has no clamp).   *)
(***************************************************************************)
EXTENDS Cookie

CONSTANTS
  Clock,        \* readings of the caller's clock
  NONCE_WORD,   \* 2^64
  Seeds         \* what the entropy source may give for the nonce counter

\* The nonce counter has three words, the lowest first.
Nonces == [1 .. 3 -> 0 .. (NONCE_WORD - 1)]

ASSUME ClockAssumption == Clock \subseteq Ticks
ASSUME NonceAssumption == NONCE_WORD \in Nat \ {0} /\ Seeds \subseteq Nonces

VARIABLES
  jar,       \* CookieChecker::jar
  now,       \* the reading of the last call
  gate,      \* what it returned, if it was one of the checker's
  held,      \* each initiator's LastCookie
  minted,    \* the cookies of the replies sent, with the time of minting
  nonce_counter,   \* CookieJar::nonce_counter
  nonces     \* history: the nonces of the replies sent

vars == <<jar, now, gate, held, minted, nonce_counter, nonces>>

TypeOK ==
  /\ jar \in Jars
  /\ now \in Ticks
  /\ gate \in {"None", "Drop", "CookieReply", "Pass", "BufferTooSmall",
               "EntropyFailure"}
  /\ held \in [Remotes -> LastCookies \cup {None}]
  /\ minted \subseteq [cookie : Cookies, at : Ticks]
  /\ nonce_counter \in Nonces /\ nonces \subseteq Nonces

\* CookieChecker::new
Init ==
  /\ jar = new_jar /\ now = 0 /\ gate = "None"
  /\ held = [remote \in Remotes |-> None]
  /\ minted = {}
  /\ nonce_counter = <<0, 0, 0>> /\ nonces = {}

\* Not an initiation (Pass), or one whose mac1 fails (Drop).
GateOther(clock) ==
  /\ now' = clock
  /\ gate' \in {"Pass", "Drop"}
  /\ UNCHANGED <<jar, held, minted, nonce_counter, nonces>>

\* The counter a reply's nonce follows: the first rotation seeds it.
seeded(seed) == IF jar.primed THEN nonce_counter ELSE seed

\* Mutant of next_nonce: the carry stops at the second word.
next_nonce_short(n) ==
  LET a == n[1] + 1
      b == n[2] + a \div NONCE_WORD
  IN  <<a % NONCE_WORD, b % NONCE_WORD, n[3]>>

\* The increment, with the carries of overflowing_add.
next_nonce(n) ==
  LET a == n[1] + 1
      b == n[2] + a \div NONCE_WORD
      c == n[3] + b \div NONCE_WORD
  IN  <<a % NONCE_WORD, b % NONCE_WORD, c % NONCE_WORD>>

\* build_cookie_reply: buffer, then the entropy a rotation needs, then mint and
\* the nonce.
GateReply(clock, remote) ==
  \/ /\ gate' = "BufferTooSmall"
     /\ UNCHANGED <<jar, minted, nonce_counter, nonces>>
  \/ /\ rotation_due(jar, clock)
     /\ gate' = "EntropyFailure"
     /\ UNCHANGED <<jar, minted, nonce_counter, nonces>>
  \/ /\ jar' = rotate_if_needed(jar, clock)
     /\ minted' = minted \cup {[cookie |-> mint(jar', remote), at |-> clock]}
     /\ \E seed \in Seeds : nonce_counter' = next_nonce(seeded(seed))
     /\ nonces' = nonces \cup {nonce_counter'}
     /\ gate' = "CookieReply"

\* An initiation from `remote', its mac2 keyed by apply_macs.
GateInitiation(clock, remote, under_load) ==
  LET ok == verify_mac2(jar, remote, fresh_mac2(held[remote], clock)) IN
  /\ now' = clock
  /\ UNCHANGED held
  /\ \/ under_load /\ ~ok /\ GateReply(clock, remote)
     \/ /\ under_load => ok
        /\ gate' = "Pass"
        /\ UNCHANGED <<jar, minted, nonce_counter, nonces>>

\* A cookie reply reaches the initiator (consume_cookie_reply).
Deliver(clock, m) ==
  /\ now' = clock
  /\ held' = [held EXCEPT ![m.cookie.remote] =
                 [value |-> m.cookie, received_at |-> clock]]
  /\ gate' = "None"
  /\ UNCHANGED <<jar, minted, nonce_counter, nonces>>

Next ==
  \E clock \in {c \in Clock : c >= now} :
    \/ GateOther(clock)
    \/ \E remote \in Remotes, under_load \in BOOLEAN :
         GateInitiation(clock, remote, under_load)
    \/ \E m \in minted : Deliver(clock, m)

Spec == Init /\ [][Next]_vars

-----------------------------------------------------------------------------
\* "Cookies minted just before a rotation stay verifiable for their full
\* advertised lifetime" (cookie.rs:84-86): whatever rotations follow, a cookie
\* younger than COOKIE_LIFETIME opens the gate.
CookieHonoured ==
  \A m \in minted : since(now, m.at) < COOKIE_LIFETIME =>
                      verify_mac2(jar, m.cookie.remote, m.cookie)

\* No nonce is used for two cookie replies, through rotations and carries, while
\* there are unused ones: the key of the replies never changes (cookie.rs:121-169).
ReplyNonceFresh ==
  [][gate' = "CookieReply" => nonce_counter' \notin nonces \/ nonces = Nonces]_vars

=============================================================================
