------------------------------ MODULE MCTunnel ------------------------------
(* Instances of Tunnel for TLC. *)
EXTENDS Tunnel, TLC

\* Indices and ephemerals are only compared for equality.
Symmetry == Permutations(Indices) \cup Permutations(Ephemerals)

\* What the timers and the session slots depend on when there is no load: no
\* guard reads the other variables, and of a state the properties only ask
\* whether `ret' is "Idle" (PacedInitiations is evaluated on every step).
TimerView == <<inflight, greatest_timestamp, sessions, timers, recv_rekey_done,
               last_now, ret = "Idle">>

\* The same under load, where macs and cookies are read.
LoadView == <<inflight, macs, greatest_timestamp, sessions, timers,
              recv_rekey_done, last_now>>

MCCookies == [secret : {1}, remote : Remotes]

=============================================================================
