------------------------------- MODULE Cookie -------------------------------
(***************************************************************************)
(* Cookies (src/cookie.rs): the responder's jar of rotating secrets and    *)
(* the cookie a peer last sent us.  A secret is named by the number of     *)
(* draws made before it, 0 being the all-zero value of an unprimed jar; a  *)
(* cookie is the pair of the secret and the remote endpoint it was minted  *)
(* for, and mac2 stands for the cookie that keys it (None: all zeros).     *)
(* The nonce counter of the replies is in CookieGate, with the checker     *)
(* that sends them; here it would only make states differ.                 *)
(***************************************************************************)
EXTENDS Time

CONSTANT Remotes    \* encoded source addresses

Cookies == [secret : Nat, remote : Remotes]

LastCookies == [value : Cookies, received_at : Ticks]

Jars ==
  [ secret : Nat, previous : Nat, has_previous : BOOLEAN,
    rotated_at : Ticks, primed : BOOLEAN ]

new_jar ==
  [ secret |-> 0, previous |-> 0, has_previous |-> FALSE,
    rotated_at |-> 0, primed |-> FALSE ]

rotation_due(jar, now) ==
  ~jar.primed \/ since(now, jar.rotated_at) >= COOKIE_LIFETIME

\* rotate_if_needed when the entropy source answers; on failure the jar is
\* untouched.
rotate_if_needed(jar, now) ==
  IF rotation_due(jar, now)
    THEN [ secret |-> jar.secret + 1, previous |-> jar.secret,
           has_previous |-> jar.primed, rotated_at |-> now, primed |-> TRUE ]
    ELSE jar

\* Mac(R_m, A_remote), after the rotation mint performs.
mint(jar, remote) == [secret |-> jar.secret, remote |-> remote]

\* Mutants of verify_mac2: without the has_previous mask; current secret only.
verify_mac2_unmasked(jar, remote, mac2) ==
  /\ jar.primed
  /\ mac2 \in { [secret |-> secret, remote |-> remote] :
               secret \in {jar.secret, jar.previous} }

verify_mac2_current(jar, remote, mac2) ==
  jar.primed /\ mac2 = [secret |-> jar.secret, remote |-> remote]

verify_mac2(jar, remote, mac2) ==
  /\ jar.primed
  /\ \/ mac2 = [secret |-> jar.secret, remote |-> remote]
     \/ jar.has_previous /\ mac2 = [secret |-> jar.previous, remote |-> remote]

\* The mac2 apply_macs writes: LastCookie::fresh_value, or zeros.
fresh_mac2(cookie, now) ==
  IF cookie # None /\ since(now, cookie.received_at) < COOKIE_LIFETIME
    THEN cookie.value ELSE None

=============================================================================
