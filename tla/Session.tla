------------------------------- MODULE Session -------------------------------
(***************************************************************************)
(* One keypair with its counters (src/session.rs).  The anti-replay bitmap *)
(* is represented by the set of counters accepted so far: module           *)
(* ReplayWindow shows that the bitmap answers as this set does.            *)
(*                                                                         *)
(* A key is named by the two ephemerals it was derived from; each side     *)
(* sends with the half belonging to its role.                              *)
(***************************************************************************)
EXTENDS Time, Replay

CONSTANTS
  Indices,      \* the 32-bit session indices this side draws
  PeerIndices,  \* the session indices the peer draws
  Ephemerals    \* the ephemeral secrets the entropy source can draw

Keys == [initiator : Ephemerals, responder : Ephemerals]

Sessions ==
  [ local_index  : Indices,
    peer_index   : PeerIndices,
    key          : Keys,
    is_initiator : BOOLEAN,
    send_counter : Nat,
    replay       : SUBSET Nat,
    created      : Ticks,
    confirmed    : BOOLEAN ]

\* Mutant of new_session: both sides take the initiator's half of the key.
new_session_roleless(local, peer, key, is_initiator, now) ==
  [ local_index  |-> local,
    peer_index   |-> peer,
    key          |-> key,
    is_initiator |-> TRUE,
    send_counter |-> 0,
    replay       |-> {},
    created      |-> now,
    confirmed    |-> is_initiator ]

\* Session::new: an initiator's session is confirmed from the start.
new_session(local, peer, key, is_initiator, now) ==
  [ local_index  |-> local,
    peer_index   |-> peer,
    key          |-> key,
    is_initiator |-> is_initiator,
    send_counter |-> 0,
    replay       |-> {},
    created      |-> now,
    confirmed    |-> is_initiator ]

age(s, now) == since(now, s.created)

usable_for_send(s, now) ==
  /\ s.confirmed
  /\ s.send_counter < REJECT_AFTER_MESSAGES
  /\ age(s, now) < REJECT_AFTER_TIME

\* Mutant of next_counter: the next counter is not stored.
next_counter_lost(s) == s

\* The counter a send consumes is s.send_counter; callers have checked
\* usable_for_send, so the refusal at REJECT_AFTER_MESSAGES is not reached.
next_counter(s) == [s EXCEPT !.send_counter = @ + 1]

\* Mutant of accept_transport: the confirmation flag is not set.
accept_transport_unconfirmed(s, counter) ==
  [s EXCEPT !.replay = @ \cup {counter}]

\* Mutant of accept_transport: the counter is not recorded.
accept_transport_unrecorded(s, counter) == [s EXCEPT !.confirmed = TRUE]

\* Authenticated receipt: replay.accept(counter) and the confirmation flag.
accept_transport(s, counter) ==
  [s EXCEPT !.replay = @ \cup {counter}, !.confirmed = TRUE]

=============================================================================
