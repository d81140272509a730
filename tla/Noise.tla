------------------------------- MODULE Noise -------------------------------
(***************************************************************************)
(* The four handshake computations of src/noise.rs, symbolically.  What a  *)
(* transcript proves is a matter of which ephemerals went into it: the key *)
(* of a session is named by the two, and a response opens only under the   *)
(* transcript of the initiation it answers.  `fault' is the check that a   *)
(* message fails: "noise" an AEAD tag or a low-order point, "peer" the     *)
(* comparison of the initiator's static key, "none" a genuine message.     *)
(***************************************************************************)
EXTENDS Session

\* InFlightInitiation, by its index and its ephemeral.
InFlight == [local_index : Indices, ephemeral : Ephemerals]

\* What the initiator keeps of the initiation it builds.
create_initiation(index, eph) == [local_index |-> index, ephemeral |-> eph]

\* The responder's verdict on an initiation whose mac1 is good.
consume_initiation(m) ==
  CASE m.fault = "none" -> "Ok"
    [] m.fault = "peer" -> "UnknownPeer"
    [] OTHER            -> "AuthFailure"

\* The key the responder derives while it builds the response.
create_response(m, eph) == [initiator |-> m.ephemeral, responder |-> eph]

\* The initiator's verdict on a response, and the key it derives.
response_opens(handshake, m) ==
  m.fault = "none" /\ m.answers = handshake.ephemeral

consume_response(handshake, m) ==
  [initiator |-> handshake.ephemeral, responder |-> m.ephemeral]

=============================================================================
