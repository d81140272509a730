------------------------------ MODULE AsyncTunn ------------------------------
(***************************************************************************)
(* The tokio driver (embed/src/tokio.rs) between the TUN reader, the TUN   *)
(* writer and the socket: two bounded channels of pooled buffers, the      *)
(* select loop, and the buffer pool all three tasks share                  *)
(* (embed/src/buffer.rs).                                                  *)
(*                                                                         *)
(* The Tunn inside is replaced by what it does to its packet queue (module *)
(* PacketQueue, which Tunn implements) and by the kind of result it        *)
(* returns.  `due' says that next_wake has been reached.  Buffers are      *)
(* counted: Rust's ownership keeps them apart, what can go wrong is that   *)
(* one is never given back.  Taking or giving one is a single step, since  *)
(* nothing acts on the count between its update and that of the free list. *)
(***************************************************************************)
EXTENDS Integers, Sequences

CONSTANTS
  DEPTH,             \* bound of each channel
  MAX_IDLE,          \* buffers the free list keeps
  MAX_QUEUE_DEPTH,
  MAX_BURST,         \* datagrams the timers send in a row (PollLoop!PollDrains)
  MaxPackets,        \* packets the TUN reader produces
  MaxDatagrams,      \* datagrams that arrive
  KnownAddress       \* whether the peer's address was configured

ASSUME ChannelAssumption ==
  /\ DEPTH \in Nat \ {0} /\ MAX_IDLE \in Nat /\ MAX_QUEUE_DEPTH \in Nat
  /\ MAX_BURST \in Nat /\ MaxPackets \in Nat /\ MaxDatagrams \in Nat
  /\ KnownAddress \in BOOLEAN

VARIABLES
  idle, outstanding,       \* SlabPool: free list length, buffers handed out
  tun_read,                \* TUN reader: "out", "filled" (a buffer), "closed"
  tun_write,               \* TUN writer: "out", "writing" (a buffer), "closed"
  to_net, from_net,        \* buffers in the channels
  pc,                      \* where run() is
  peer_addr, due, burst,
  spins,                   \* turns of the timer arm that served nothing
  queue_drainable,
  queue, sent, handed,     \* PacketQueue
  arrived                  \* datagrams so far

pool == <<idle, outstanding>>
tasks == <<tun_read, tun_write>>
packets == <<queue, sent, handed>>
driverVars == <<pool, tasks, to_net, from_net, pc, peer_addr, due, burst, spins,
                queue_drainable, packets, arrived>>

Queue == INSTANCE PacketQueue

DriverInit ==
  /\ idle = 0 /\ outstanding = 0
  /\ tun_read = "out" /\ tun_write = "out"
  /\ to_net = 0 /\ from_net = 0
  /\ pc = "start" /\ peer_addr = KnownAddress /\ due = FALSE /\ burst = 0 /\ spins = 0
  /\ queue_drainable = FALSE
  /\ Queue!Init
  /\ arrived = 0

-----------------------------------------------------------------------------
(* SlabPool *)

\* get, n times: from the free list first.
get(n) ==
  /\ outstanding' = outstanding + n
  /\ idle' = IF n <= idle THEN idle - n ELSE 0

\* Drop of n PooledBufs: kept up to MAX_IDLE.
give(n) ==
  /\ outstanding' = outstanding - n
  /\ idle' = IF idle + n <= MAX_IDLE THEN idle + n ELSE MAX_IDLE

\* A get and then a drop: a fresh slab joins an empty free list.
swap ==
  /\ idle' = IF idle = 0 /\ MAX_IDLE > 0 THEN 1 ELSE idle
  /\ UNCHANGED outstanding

-----------------------------------------------------------------------------
(* The TUN reader and the TUN writer *)

ReaderGet ==
  /\ tun_read = "out" /\ handed + to_net < MaxPackets
  /\ tun_read' = "filled"
  /\ get(1)
  /\ UNCHANGED <<tun_write, to_net, from_net, pc, peer_addr, due, burst, spins,
                 queue_drainable, packets, arrived>>

\* The send waits for room; it fails once the driver is gone.
ReaderSend ==
  /\ tun_read = "filled"
  /\ \/ /\ pc # "done" /\ to_net < DEPTH
        /\ to_net' = to_net + 1
        /\ tun_read' = "out"
        /\ UNCHANGED pool
     \/ /\ pc = "done"
        /\ tun_read' = "closed"
        /\ give(1)
        /\ UNCHANGED to_net
  /\ UNCHANGED <<tun_write, from_net, pc, peer_addr, due, burst, spins,
                 queue_drainable, packets, arrived>>

ReaderClose ==
  /\ tun_read = "out"
  /\ tun_read' = "closed"
  /\ UNCHANGED <<pool, tun_write, to_net, from_net, pc, peer_addr, due, burst, spins,
                 queue_drainable, packets, arrived>>

WriterRecv ==
  /\ tun_write = "out"
  /\ \/ from_net > 0 /\ from_net' = from_net - 1 /\ tun_write' = "writing"
     \/ from_net = 0 /\ pc = "done" /\ tun_write' = "closed" /\ UNCHANGED from_net
  /\ UNCHANGED <<pool, tun_read, to_net, pc, peer_addr, due, burst, spins,
                 queue_drainable, packets, arrived>>

WriterDrop ==
  /\ tun_write = "writing"
  /\ tun_write' = "out"
  /\ give(1)
  /\ UNCHANGED <<tun_read, to_net, from_net, pc, peer_addr, due, burst, spins,
                 queue_drainable, packets, arrived>>

\* Dropping the receiver drops the buffers still in the channel.
WriterClose ==
  /\ tun_write = "out"
  /\ tun_write' = "closed"
  /\ from_net' = 0
  /\ give(from_net)
  /\ UNCHANGED <<tun_read, to_net, pc, peer_addr, due, burst, spins,
                 queue_drainable, packets, arrived>>

-----------------------------------------------------------------------------
(* AsyncTunn::run *)

\* The three scratch slabs.
Start ==
  /\ pc = "start"
  /\ pc' = "select"
  /\ get(3)
  /\ UNCHANGED <<tasks, to_net, from_net, peer_addr, due, burst, spins,
                 queue_drainable, packets, arrived>>

\* An error of the socket ends run() with `?'.
SocketError ==
  /\ pc \in {"select", "drain", "timers"}
  /\ pc' = "exit"
  /\ UNCHANGED <<pool, tasks, to_net, from_net, peer_addr, due, burst, spins,
                 queue_drainable, packets, arrived>>

\* Time passes; only then can next_wake be reached.
Elapse ==
  /\ pc = "select" /\ ~due
  /\ due' = TRUE /\ spins' = 0
  /\ UNCHANGED <<pool, tasks, to_net, from_net, pc, peer_addr, burst,
                 queue_drainable, packets, arrived>>

Arrival == pc = "select" /\ arrived < MaxDatagrams /\ arrived' = arrived + 1

\* Every call of the tunnel may disarm its timers.
Rearm == due' \in {due, FALSE}

\* Data: ship tun_out and pull a fresh slab.
RecvData ==
  /\ Arrival
  /\ peer_addr' = TRUE
  /\ get(1)
  /\ pc' = "deliver"
  /\ Rearm
  /\ UNCHANGED <<tasks, to_net, from_net, burst, spins, queue_drainable, packets>>

\* An answer to send, then the queue.  A completed handshake may have sent the
\* head of the queue in its place.
RecvAnswer ==
  /\ Arrival
  /\ peer_addr' = TRUE
  /\ pc' = "drain"
  /\ \/ queue_drainable' \in BOOLEAN /\ UNCHANGED <<pool, packets>>
     \/ queue_drainable' = TRUE /\ Queue!Drain /\ give(1)
  /\ Rearm
  /\ UNCHANGED <<tasks, to_net, from_net, burst, spins>>

\* Nothing to send, or refused.
RecvNothing ==
  /\ Arrival
  /\ Rearm
  /\ UNCHANGED <<pool, tasks, to_net, from_net, pc, peer_addr, burst, spins,
                 queue_drainable, packets>>

\* Mutant of DeliverData: the send waits for room whoever is left to read.
DeliverData_waits ==
  /\ pc = "deliver" /\ from_net < DEPTH /\ tun_write # "closed"
  /\ from_net' = from_net + 1
  /\ pc' = "select"
  /\ UNCHANGED <<pool, tasks, to_net, peer_addr, due, burst, spins,
                 queue_drainable, packets, arrived>>

\* from_net.send(delivered).await: the whole loop waits for the TUN writer.
DeliverData ==
  /\ pc = "deliver"
  /\ \/ /\ tun_write # "closed" /\ from_net < DEPTH
        /\ from_net' = from_net + 1
        /\ pc' = "select"
        /\ UNCHANGED pool
     \/ /\ tun_write = "closed"
        /\ pc' = "exit"
        /\ give(1)
        /\ UNCHANGED from_net
  /\ UNCHANGED <<tasks, to_net, peer_addr, due, burst, spins, queue_drainable, packets,
                 arrived>>

\* drain_queue: until nothing more is sent.
DrainQueue ==
  /\ pc = "drain"
  /\ \/ /\ queue_drainable
        /\ Queue!Drain
        /\ give(1)
        /\ UNCHANGED <<pc, queue_drainable>>
     \/ /\ queue_drainable' = FALSE
        /\ pc' = "select"
        /\ UNCHANGED <<pool, packets>>
  /\ Rearm
  /\ UNCHANGED <<tasks, to_net, from_net, peer_addr, burst, spins, arrived>>

\* The packet is encrypted, copied into the queue or lost, and its buffer
\* dropped; without an address what encapsulate made is not sent.
Outbound ==
  /\ pc = "select" /\ to_net > 0
  /\ to_net' = to_net - 1
  /\ Queue!Arrive
  /\ peer_addr \/ UNCHANGED sent
  /\ IF queue' = queue THEN give(1) ELSE swap
  /\ Rearm
  /\ UNCHANGED <<tasks, from_net, pc, peer_addr, burst, spins, queue_drainable, arrived>>

\* to_net.recv() answers None.
Closed ==
  /\ pc = "select" /\ to_net = 0 /\ tun_read = "closed"
  /\ pc' = "exit"
  /\ UNCHANGED <<pool, tasks, to_net, from_net, peer_addr, due, burst, spins,
                 queue_drainable, packets, arrived>>

\* The select is biased: the timers come after the channel.  Without an
\* address the arm ends before update_timers.
Timer ==
  /\ pc = "select" /\ due /\ to_net = 0 /\ tun_read # "closed"
  /\ \/ peer_addr /\ pc' = "timers" /\ UNCHANGED spins
     \/ ~peer_addr /\ spins < MAX_BURST /\ spins' = spins + 1 /\ UNCHANGED pc
  /\ UNCHANGED <<pool, tasks, to_net, from_net, peer_addr, due, burst,
                 queue_drainable, packets, arrived>>

\* update_timers until it has nothing to send or fails.  A failure may leave the
\* deadline in the past; HandshakeExpired is one, and clears the queue.
UpdateTimers ==
  /\ pc = "timers"
  /\ \/ burst < MAX_BURST /\ burst' = burst + 1 /\ UNCHANGED <<pc, due, pool, packets>>
     \/ /\ burst' = 0 /\ pc' = "select"
        /\ Rearm
        /\ \/ UNCHANGED <<pool, packets>>
           \/ Queue!Flush /\ give(Len(queue))
  /\ UNCHANGED <<tasks, to_net, from_net, peer_addr, spins, queue_drainable, arrived>>

\* Mutant of Exit: the packets of the queue are forgotten.
Exit_leak ==
  /\ pc = "exit"
  /\ pc' = "done"
  /\ Queue!Flush
  /\ give(3 + to_net)
  /\ to_net' = 0
  /\ UNCHANGED <<tasks, from_net, peer_addr, due, burst, spins, queue_drainable, arrived>>

\* run() returns: scratch slabs, queue and the receiver of to_net are dropped.
Exit ==
  /\ pc = "exit"
  /\ pc' = "done"
  /\ Queue!Flush
  /\ give(3 + Len(queue) + to_net)
  /\ to_net' = 0
  /\ UNCHANGED <<tasks, from_net, peer_addr, due, burst, spins, queue_drainable, arrived>>

Driver ==
  \/ Start \/ DeliverData \/ DrainQueue \/ Outbound \/ Closed \/ Timer
  \/ UpdateTimers \/ Exit

Recv == RecvData \/ RecvAnswer \/ RecvNothing

DriverNext ==
  \/ Driver \/ Recv \/ SocketError \/ Elapse
  \/ ReaderGet \/ ReaderSend \/ ReaderClose
  \/ WriterRecv \/ WriterDrop \/ WriterClose

\* The runtime polls its tasks: the driver takes the arms that are ready, the
\* reader sends what it filled, the writer takes and drops what is delivered.
\* Nobody need close, fail, or send a datagram.
DriverSpec ==
  /\ DriverInit /\ [][DriverNext]_driverVars
  /\ WF_driverVars(Driver) /\ WF_driverVars(ReaderSend)
  /\ WF_driverVars(WriterRecv) /\ WF_driverVars(WriterDrop)

-----------------------------------------------------------------------------
One(p) == IF p THEN 1 ELSE 0

\* Every buffer the pool counts as handed out is somewhere: a scratch slab of
\* run(), the slab being delivered, a channel, the packet queue, or with the TUN
\* tasks.  None is lost when run() returns with packets queued or the consumer
\* has gone (tokio.rs:141-241, buffer.rs).
BuffersAccounted ==
  outstanding = 3 * One(pc \notin {"start", "done"}) + One(pc = "deliver")
                + to_net + from_net + Len(queue)
                + One(tun_read = "filled") + One(tun_write = "writing")

\* Once the TUN reader is gone run() returns and every buffer is given back,
\* though a delivery may be waiting for the writer or the writer may be gone
\* (tokio.rs:179, 203).
BuffersReturned == tun_read = "closed" ~> outstanding = 0

\* EMBEDDER_OBLIGATIONS.md:302: when next_wake is in the past the loop polls at
\* once; it does not turn again with the deadline still in the past.
NoBusySpin == spins <= 1

=============================================================================
