------------------------------- MODULE Moves --------------------------------
(***************************************************************************)
(* What one call of a tunnel may do to its sessions, its handshake in      *)
(* flight and its timestamps, over records x and y of these before and     *)
(* after and the result r.  SideProofs shows that each operation of the    *)
(* tunnel is one of these moves, and that each move keeps what two tunnels *)
(* must agree on.                                                          *)
(***************************************************************************)
EXTENDS Noise, Wire

\* Sessions stay in their slots or are dropped.
KeptOrDropped(x, y) ==
  /\ y.previous \in {x.previous, None}
  /\ y.current \in {x.current, None}
  /\ y.next \in {x.next, None}

SameTimes(x, y) == y.greatest = x.greatest /\ y.sent = x.sent

Initiated == {"HandshakeInitiation", "HandshakeRetransmit"}
Transported == {"Transport", "SendKeepalive", "PersistentKeepalive"}
Received == {"Data", "Keepalive"}

\* Nothing is sent and nothing accepted.
QuietMove(x, y, r) ==
  /\ KeptOrDropped(x, y) /\ SameTimes(x, y)
  /\ y.inflight \in {x.inflight, None}
  /\ r \notin Initiated \cup Transported \cup Received \cup {"Reply"}

\* A handshake starts, with a timestamp above the last.
InitiateMove(x, y, r) ==
  /\ KeptOrDropped(x, y)
  /\ y.greatest = x.greatest
  /\ y.sent \in Nat /\ (x.sent # None => x.sent < y.sent)
  /\ \E index, eph : y.inflight = create_initiation(index, eph)
  /\ r \in Initiated

\* The initiation m is answered.
RespondMove(x, y, r, m) ==
  /\ y.previous = x.previous /\ y.current = x.current
  /\ y.inflight = x.inflight
  /\ \E index, eph, now :
       y.next = new_session(index, m.sender_index, create_response(m, eph), FALSE, now)
  /\ y.greatest = m.timestamp /\ y.sent = x.sent
  /\ r = "Reply"

\* The response m completes the handshake in flight.
CompleteMove(x, y, r, m) ==
  /\ x.inflight # None
  /\ x.inflight.local_index = m.receiver_index
  /\ x.inflight.ephemeral = m.answers
  /\ y.previous = x.current /\ y.next = x.next /\ y.inflight = None
  /\ \E now :
       y.current = new_session(x.inflight.local_index, m.sender_index,
                               consume_response(x.inflight, m), TRUE, now)
  /\ SameTimes(x, y)
  /\ r = "HandshakeComplete"

\* A transport message leaves on the current session.
SendMove(x, y, r) ==
  /\ x.current # None /\ y.current = next_counter(x.current)
  /\ y.previous = x.previous /\ y.next \in {x.next, None}
  /\ y.inflight = x.inflight
  /\ SameTimes(x, y)
  /\ r \in Transported

\* The transport message m is accepted on session s.
AcceptMove(x, y, r, m) ==
  \E s \in {x.previous, x.current, x.next} \ {None} :
    LET put(slot) == IF slot = s THEN accept_transport(s, m.counter) ELSE slot IN
    /\ m.key = s.key /\ m.from_initiator = ~s.is_initiator
    /\ m.counter \notin s.replay
    /\ \/ /\ s = x.next
          /\ y.previous = x.current
          /\ y.current = accept_transport(s, m.counter)
          /\ y.next = None
       \/ /\ y.previous = put(x.previous)
          /\ y.current = put(x.current)
          /\ y.next = put(x.next)
    /\ y.inflight \in {x.inflight, None}
    /\ SameTimes(x, y)
    /\ r \in Received

-----------------------------------------------------------------------------
(* The moves together, with what they put on the wire (Out) and what they   *)
(* accept (In), as module Peers records them.                               *)

Sides == {"a", "b"}
Peer(me) == IF me = "a" THEN "b" ELSE "a"

CallMove(x, y, r) == QuietMove(x, y, r) \/ InitiateMove(x, y, r) \/ SendMove(x, y, r)

DeliverMove(x, y, r, m) ==
  \/ QuietMove(x, y, r)
  \/ m.kind = "initiation" /\ RespondMove(x, y, r, m)
  \/ m.kind = "response" /\ CompleteMove(x, y, r, m)
  \/ m.kind = "transport" /\ AcceptMove(x, y, r, m)

Out(me, x, y, r) == Sent(Peer(me), r, y.inflight, y.sent, y.next, x.current)
In(r, m) == IF r \in {"Data", "Keepalive"} THEN {m} ELSE {}

=============================================================================
