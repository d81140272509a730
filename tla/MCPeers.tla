------------------------------ MODULE MCPeers ------------------------------
(* Instances of Peers for TLC. *)
EXTENDS Peers, TLC

Symmetry ==
  Permutations(IndicesA) \cup Permutations(IndicesB)
  \cup Permutations(EphemeralsA) \cup Permutations(EphemeralsB)

\* Without load no guard reads the macs and cookies, nor the rest left out.
PeersView ==
  << a_inflight, a_greatest, a_last_sent, a_previous, a_current, a_next,
     a_timers, a_recv_rekey_done, a_last_now,
     b_inflight, b_greatest, b_last_sent, b_previous, b_current, b_next,
     b_timers, b_recv_rekey_done, b_last_now,
     net, history, restarts >>

=============================================================================
