------------------------------- MODULE Replay -------------------------------
(***************************************************************************)
(* What the anti-replay window of a session promises, over the set of the  *)
(* counters accepted so far.                                               *)
(***************************************************************************)
EXTENDS Consts

\* ReplayWindow::check: below the limit, never accepted, inside the window.
replay_check(accepted, counter) ==
  /\ counter < REJECT_AFTER_MESSAGES
  /\ counter \notin accepted
  /\ \A c \in accepted : c - counter < WINDOW_BITS

=============================================================================
