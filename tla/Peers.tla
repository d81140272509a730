------------------------------- MODULE Peers -------------------------------
(***************************************************************************)
(* Two tunnels and the network between them.  Each side is a Tunnel with   *)
(* its own state; what a call puts on the wire is added to `net', from     *)
(* where it may be delivered in any order, many times, or never.  Side b   *)
(* may restart, losing its whole state: nothing is kept across restarts.   *)
(*                                                                         *)
(* An ephemeral is never drawn twice (the entropy source's promise), so    *)
(* each handshake message is genuine and names its transcript.  No side is *)
(* under load; module Tunnel has cookies and forged datagrams.             *)
(***************************************************************************)
EXTENDS Wire

CONSTANTS
  PersistentKeepalive,
  ClockA, ClockB,              \* what each side's monotonic clock may read
  WallClockA, WallClockB,      \* what each side's wall clock may read
  IndicesA, IndicesB,          \* the session indices each side draws
  EphemeralsA, EphemeralsB,    \* the ephemerals each side draws
  Remotes,
  MaxRestarts

Ephemerals == EphemeralsA \cup EphemeralsB

\* The sides draw apart from each other; for the rest, each side's inputs are what
\* module Tunnel assumes of a tunnel's.
ASSUME PeersAssumption ==
  /\ EphemeralsA \cap EphemeralsB = {}
  /\ MaxRestarts \in Nat
  /\ PersistentKeepalive \in (Nat \ {0}) \cup {None}
  /\ 0 < MAX_TICKS
  /\ ClockA \cup ClockB \subseteq 0 .. (MAX_TICKS - 1)
  /\ WallClockA \cup WallClockB \subseteq Nat
  /\ None \notin [local_index : IndicesA \cup IndicesB, ephemeral : Ephemerals]

VARIABLES
  a_inflight, a_init_mac1, a_resp_mac1, a_cookie, a_cookie_jar,
  a_greatest, a_last_sent, a_previous, a_current, a_next,
  a_timers, a_recv_rekey_done, a_last_now, a_handshake_at, a_ret,
  b_inflight, b_init_mac1, b_resp_mac1, b_cookie, b_cookie_jar,
  b_greatest, b_last_sent, b_previous, b_current, b_next,
  b_timers, b_recv_rekey_done, b_last_now, b_handshake_at, b_ret,
  net,          \* every datagram sent so far
  drawn,        \* ephemerals drawn so far
  accepted,     \* nonces of the transports accepted so far
  reused,       \* a nonce was used for two sends
  doubled,      \* a transport was accepted twice
  restarts

A == INSTANCE Tunnel WITH
  inflight <- a_inflight, last_init_mac1 <- a_init_mac1,
  last_resp_mac1 <- a_resp_mac1, cookie <- a_cookie,
  cookie_jar <- a_cookie_jar, greatest_timestamp <- a_greatest,
  last_sent_tai64n <- a_last_sent, previous <- a_previous,
  current <- a_current, next <- a_next, timers <- a_timers,
  recv_rekey_done <- a_recv_rekey_done, last_now <- a_last_now,
  last_handshake_at <- a_handshake_at, ret <- a_ret,
  Indices <- IndicesA, PeerIndices <- IndicesB,
  Clock <- ClockA, WallClock <- WallClockA,
  Timestamps <- {}, Counters <- {}, LoadSignals <- {FALSE}, Faults <- {},
  PeerCookies <- {}

B == INSTANCE Tunnel WITH
  inflight <- b_inflight, last_init_mac1 <- b_init_mac1,
  last_resp_mac1 <- b_resp_mac1, cookie <- b_cookie,
  cookie_jar <- b_cookie_jar, greatest_timestamp <- b_greatest,
  last_sent_tai64n <- b_last_sent, previous <- b_previous,
  current <- b_current, next <- b_next, timers <- b_timers,
  recv_rekey_done <- b_recv_rekey_done, last_now <- b_last_now,
  last_handshake_at <- b_handshake_at, ret <- b_ret,
  Indices <- IndicesB, PeerIndices <- IndicesA,
  Clock <- ClockB, WallClock <- WallClockB,
  Timestamps <- {}, Counters <- {}, LoadSignals <- {FALSE}, Faults <- {},
  PeerCookies <- {}

a_vars == <<a_inflight, a_init_mac1, a_resp_mac1, a_cookie, a_cookie_jar,
            a_greatest, a_last_sent, a_previous, a_current, a_next,
            a_timers, a_recv_rekey_done, a_last_now, a_handshake_at, a_ret>>

b_vars == <<b_inflight, b_init_mac1, b_resp_mac1, b_cookie, b_cookie_jar,
            b_greatest, b_last_sent, b_previous, b_current, b_next,
            b_timers, b_recv_rekey_done, b_last_now, b_handshake_at, b_ret>>

history == <<drawn, accepted, reused, doubled>>

Init ==
  /\ A!Init /\ B!Init
  /\ net = {} /\ drawn = {} /\ accepted = {}
  /\ reused = FALSE /\ doubled = FALSE /\ restarts = 0

-----------------------------------------------------------------------------
(* What a call does to the network and to the history *)

\* Put `ms' on the wire; its ephemeral is one of `own' and new.
Put(ms, own) ==
  /\ net' = net \cup ms
  /\ Drawn(ms) \subseteq own \ drawn
  /\ drawn' = drawn \cup Drawn(ms)
  /\ reused' = (reused \/ Nonces(ms) \cap Nonces(net) # {})

\* Record the transports among the datagrams `ms' that a call accepted.
Accept(ms) ==
  /\ accepted' = accepted \cup Nonces(ms)
  /\ doubled' = (doubled \/ Nonces(ms) \cap accepted # {})

PutA == Put(Sent("b", a_ret', a_inflight', a_last_sent', a_next', a_current), EphemeralsA)
PutB == Put(Sent("a", b_ret', b_inflight', b_last_sent', b_next', b_current), EphemeralsB)

-----------------------------------------------------------------------------
(* Calls of each side's application and timers, and deliveries *)

CallA ==
  /\ \E clock \in A!Readings, wall \in WallClockA :
       \/ A!Encapsulate(clock, wall, FALSE)
       \/ A!Poll(clock, wall)
       \/ A!InitiateHandshake(clock, wall)
  /\ PutA /\ Accept({})
  /\ UNCHANGED <<b_vars, restarts>>

CallB ==
  /\ \E clock \in B!Readings, wall \in WallClockB :
       \/ B!Encapsulate(clock, wall, FALSE)
       \/ B!Poll(clock, wall)
       \/ B!InitiateHandshake(clock, wall)
  /\ PutB /\ Accept({})
  /\ UNCHANGED <<a_vars, restarts>>

DeliverA(m) ==
  /\ m.to = "a"
  /\ \E clock \in A!Readings, remote \in Remotes :
       CASE m.kind = "initiation" -> A!DecapsulateInitiation(clock, m, FALSE, remote)
         [] m.kind = "response"   -> A!DecapsulateResponse(clock, m, FALSE, remote)
         [] m.kind = "transport"  -> A!DecapsulateTransport(clock, m)
  /\ PutA /\ Accept(IF a_ret' \in {"Data", "Keepalive"} THEN {m} ELSE {})
  /\ UNCHANGED <<b_vars, restarts>>

DeliverB(m) ==
  /\ m.to = "b"
  /\ \E clock \in B!Readings, remote \in Remotes :
       CASE m.kind = "initiation" -> B!DecapsulateInitiation(clock, m, FALSE, remote)
         [] m.kind = "response"   -> B!DecapsulateResponse(clock, m, FALSE, remote)
         [] m.kind = "transport"  -> B!DecapsulateTransport(clock, m)
  /\ PutB /\ Accept(IF b_ret' \in {"Data", "Keepalive"} THEN {m} ELSE {})
  /\ UNCHANGED <<a_vars, restarts>>

\* The process of side b dies and starts again with a new Tunnel.
Restart ==
  /\ restarts < MaxRestarts
  /\ restarts' = restarts + 1
  /\ b_inflight' = None /\ b_init_mac1' = None /\ b_resp_mac1' = None
  /\ b_cookie' = None /\ b_cookie_jar' = B!new_jar
  /\ b_greatest' = None /\ b_last_sent' = None
  /\ b_previous' = None /\ b_current' = None /\ b_next' = None
  /\ b_timers' = B!default_timers(None) /\ b_recv_rekey_done' = FALSE
  /\ b_last_now' = 0 /\ b_handshake_at' = None /\ b_ret' = "None"
  /\ UNCHANGED <<a_vars, net, history>>

Next ==
  \/ CallA \/ CallB
  \/ \E m \in net : DeliverA(m) \/ DeliverB(m)
  \/ Restart

vars == <<a_vars, b_vars, net, history, restarts>>

Spec == Init /\ [][Next]_vars

-----------------------------------------------------------------------------
SessionsA == {a_previous, a_current, a_next} \ {None}
SessionsB == {b_previous, b_current, b_next} \ {None}

\* No key ever encrypts two messages under one counter, though sends come from
\* encapsulate and from poll, sessions move between slots and a side restarts
\* (session.rs:52, next_counter).
NonceUnique == ~reused

\* A transport message is accepted at most once, however often and late the
\* network delivers it and whatever slot its session is in by then
\* (tunnel.rs:1200, replay.rs).
AcceptedOnce == ~doubled

\* The two sides agree on every key they share: who initiated, each other's
\* index, and every counter accepted by one was used by the other.
SessionsAgree ==
  \A s \in SessionsA, t \in SessionsB : s.key = t.key =>
    /\ s.is_initiator # t.is_initiator
    /\ s.local_index = t.peer_index /\ s.peer_index = t.local_index
    /\ s.replay \subseteq 0 .. (t.send_counter - 1)
    /\ t.replay \subseteq 0 .. (s.send_counter - 1)

\* The handshake a side has in flight is never refused as replayed unless the
\* peer has answered it, however the wall clock moves: its timestamp is above
\* all the peer has seen (tunnel.rs:1119-1127).  time.rs:69-72 and section 2.2 of
\* EMBEDDER_OBLIGATIONS.md say that a wall clock set back makes the peer reject
\* our initiations until it catches up; the ratchet prevents that, except across
\* a restart, which loses it (`restarts = 0').
FreshInitiation ==
  /\ a_inflight # None =>
       \/ b_greatest = None \/ b_greatest < a_last_sent
       \/ \E m \in net : m.kind = "response" /\ m.answers = a_inflight.ephemeral
  /\ b_inflight # None /\ restarts = 0 =>
       \/ a_greatest = None \/ a_greatest < b_last_sent
       \/ \E m \in net : m.kind = "response" /\ m.answers = b_inflight.ephemeral

=============================================================================
