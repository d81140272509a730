----------------------------- MODULE MCPollLoop -----------------------------
(* Instances of PollLoop for TLC. *)
EXTENDS PollLoop, TLC

MCLoopClock == 0 .. (MAX_TICKS - 1)

=============================================================================
