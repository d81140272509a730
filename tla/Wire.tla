-------------------------------- MODULE Wire --------------------------------
(***************************************************************************)
(* The datagrams of two tunnels that talk to each other, as module Peers   *)
(* puts them on the wire: what a call sent, told from its result and the   *)
(* state it left.                                                          *)
(***************************************************************************)
EXTENDS Consts

Initiation(to, inflight, timestamp) ==
  [ kind |-> "initiation", to |-> to, sender_index |-> inflight.local_index,
    ephemeral |-> inflight.ephemeral, timestamp |-> timestamp,
    fault |-> "none", mac2 |-> None ]

Response(to, s) ==
  [ kind |-> "response", to |-> to, sender_index |-> s.local_index,
    receiver_index |-> s.peer_index, ephemeral |-> s.key.responder,
    answers |-> s.key.initiator, fault |-> "none", mac2 |-> None ]

Transport(to, s, empty) ==
  [ kind |-> "transport", to |-> to, receiver_index |-> s.peer_index,
    counter |-> s.send_counter, key |-> s.key,
    from_initiator |-> s.is_initiator, fault |-> "none", empty |-> empty ]

\* `cur' is the current session before the call.
Sent(to, ret, inflight, timestamp, next, cur) ==
  CASE ret \in {"HandshakeInitiation", "HandshakeRetransmit"} ->
         {Initiation(to, inflight, timestamp)}
    [] ret = "Reply" -> {Response(to, next)}
    [] ret \in {"Transport", "SendKeepalive", "PersistentKeepalive"} ->
         {Transport(to, cur, ret # "Transport")}
    [] OTHER -> {}

nonce(m) == <<m.key, m.from_initiator, m.counter>>

Nonces(ms) == {nonce(m) : m \in {x \in ms : x.kind = "transport"}}

Drawn(ms) ==
  {m.ephemeral : m \in {x \in ms : x.kind \in {"initiation", "response"}}}

=============================================================================
