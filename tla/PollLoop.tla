------------------------------ MODULE PollLoop ------------------------------
(***************************************************************************)
(* The adapter driven by the event loop of AsyncTunn::run                  *)
(* (embed/src/tokio.rs), as far as the tunnel sees it: datagrams are       *)
(* decapsulated and the queue drained after each answer, packets of the    *)
(* application encapsulated, and the timers served whenever next_wake is   *)
(* reached.  The peer's address is known; module AsyncTunn has the case    *)
(* where it is not, and the channels and buffers around the loop.          *)
(*                                                                         *)
(* From some point on (`quiet') no datagram and no packet arrives and only *)
(* the timers run.  Buffers are large enough and entropy is available then.*)
(***************************************************************************)
EXTENDS Tunn

CONSTANTS
  LoopClock,     \* readings of the clock when the sleep is over
  MaxLate,       \* how late it may be over
  MaxCalls       \* datagrams and packets before the loop is quiet

ASSUME LoopAssumption ==
  /\ LoopClock \subseteq 0 .. (MAX_TICKS - 1)
  /\ MaxLate \in Nat /\ MaxCalls \in Nat

VARIABLES
  arm,         \* what the loop is doing: "select", "recv", "drain", "timers"
  calls,       \* datagrams and packets so far
  quiet,       \* only the timers run from now on
  burst        \* datagrams sent by the timer arm since it woke

loopVars == <<tunnVars, arm, calls, quiet, burst>>

LoopInit ==
  /\ TunnInit
  /\ arm = "select"
  /\ calls = 0 /\ quiet = FALSE /\ burst = 0

\* A call of the application or the network, while there still are any.
Busy == arm = "select" /\ ~quiet /\ calls < MaxCalls /\ calls' = calls + 1

\* What the recv arm does once decapsulate has returned.
AfterRecv ==
  arm' = CASE stage' # "ready" -> "recv"
           [] stage' = "ready" /\ result' = "WriteToNetwork" -> "drain"
           [] OTHER -> "select"

Recv ==
  /\ Busy
  /\ \E clock \in Readings : TunnDecapsulate(clock)
  /\ AfterRecv
  /\ UNCHANGED <<quiet, burst>>

RecvFinish ==
  /\ arm = "recv"
  /\ \E clock \in Readings, wall \in WallClock : Finish(clock, wall)
  /\ AfterRecv
  /\ UNCHANGED <<calls, quiet, burst>>

\* Mutant of DrainQueue: one packet only.
DrainQueue_once ==
  /\ arm = "drain"
  /\ \E clock \in Readings, wall \in WallClock : DrainQueueStep(clock, wall)
  /\ arm' = "select"
  /\ UNCHANGED <<calls, quiet, burst>>

DrainQueue ==
  /\ arm = "drain"
  /\ \E clock \in Readings, wall \in WallClock : DrainQueueStep(clock, wall)
  /\ arm' = IF result' = "WriteToNetwork" THEN "drain" ELSE "select"
  /\ UNCHANGED <<calls, quiet, burst>>

Outbound ==
  /\ Busy
  /\ \E clock \in Readings, wall \in WallClock :
       TunnEncapsulate(clock, wall, FALSE)
  /\ UNCHANGED <<arm, quiet, burst>>

\* A handshake may be asked for before the Tunn is handed to the loop.
Start ==
  /\ Busy /\ calls = 0
  /\ \E clock \in Readings, wall \in WallClock :
       FormatHandshakeInitiation(clock, wall)
  /\ UNCHANGED <<arm, quiet, burst>>

Quiesce ==
  /\ arm = "select" /\ ~quiet
  /\ quiet' = TRUE
  /\ UNCHANGED <<tunnVars, arm, calls, burst>>

\* The sleep is over at the deadline or later.
Overdue(clock) ==
  /\ next_wake # None
  /\ clock >= next_wake
  /\ clock <= opt_max(next_wake, last_now) + MaxLate

\* One turn of the inner loop of the timer arm: again after each datagram.
ServeTimers(clock) ==
  /\ \E wall \in WallClock : UpdateTimers(clock, wall)
  /\ ret' \notin LocalErrors
  /\ arm' = IF result' = "WriteToNetwork" THEN "timers" ELSE "select"
  /\ burst' = IF result' = "WriteToNetwork" THEN burst + 1 ELSE 0
  /\ UNCHANGED <<calls, quiet>>

Wake ==
  \/ /\ arm = "select" /\ quiet
     /\ \E clock \in LoopClock : Overdue(clock) /\ ServeTimers(clock)
  \/ /\ arm = "timers"
     /\ \E clock \in LoopClock : clock \in {0, last_now + 1} /\ ServeTimers(clock)

\* What the loop does without anything arriving.
Turn == Wake \/ RecvFinish \/ DrainQueue

LoopNext == Turn \/ Recv \/ Outbound \/ Start \/ Quiesce

\* The runtime fires an elapsed sleep and runs an arm to its end; nothing need
\* ever arrive.
LoopSpec == LoopInit /\ [][LoopNext]_loopVars /\ WF_loopVars(Turn)

-----------------------------------------------------------------------------
\* Without traffic every key is wiped: the loop alone, woken only when
\* next_wake says so, abandons the handshake in flight and discards all three
\* sessions (tunnel.rs:745-764).
KeysWiped ==
  quiet ~> previous = None /\ current = None /\ next = None /\ inflight = None

\* "Loop until Idle" (tunnel.rs:719) ends at once: however late the wake-up, no
\* more than three polls in a row have something to send.
PollDrains == burst <= 3

\* The loop never goes back to its select with a queue left to drain: a
\* completed handshake empties it or gives the drain up, whatever fails on the
\* way (tokio.rs:250-264).
DrainServed == arm = "select" => ~queue_drainable

=============================================================================
