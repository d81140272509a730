-------------------------------- MODULE Tunn --------------------------------
(***************************************************************************)
(* The std adapter around a Tunnel (embed/src/lib.rs): it reads the clock, *)
(* asks the rate limiter for the load signal, and queues the packets that  *)
(* arrive while there is no session.  Packets are numbered; `handed' counts*)
(* them and `sent' holds those that were encrypted.                        *)
(*                                                                         *)
(* A completed handshake makes decapsulate call poll, and then perhaps     *)
(* drain_queue_step, before it returns; `stage' is what the call still has *)
(* to do, and no other call starts before it is "ready" again.             *)
(***************************************************************************)
EXTENDS Tunnel, Sequences

CONSTANTS
  MAX_QUEUE_DEPTH,
  MaxPackets        \* bound on the packets handed over, for model checking

ASSUME QueueAssumption == MAX_QUEUE_DEPTH \in Nat /\ MaxPackets \in Nat

VARIABLES
  packet_queue, queue_drainable,
  stage,            \* "ready", "poll" or "drain"
  result,           \* the TunnResult of the last call
  handed, sent

queueVars == <<packet_queue, queue_drainable, handed, sent>>
tunnVars == <<vars, queueVars, stage, result>>

TunnResults == {"Done", "Err", "WriteToNetwork", "WriteToTunnel"}

\* Tunn::with_pool
TunnInit ==
  /\ Init
  /\ packet_queue = <<>> /\ queue_drainable = FALSE
  /\ stage = "ready" /\ result = "Done"
  /\ handed = 0 /\ sent = {}

Sends == {"HandshakeInitiation", "HandshakeRetransmit", "SendKeepalive",
          "PersistentKeepalive"}

\* The TunnResult made of what Tunnel::poll returned.
poll_result(r) ==
  IF r \in Sends THEN "WriteToNetwork" ELSE IF r = "Idle" THEN "Done" ELSE "Err"

\* queue_packet: dropped when the queue is full.
queue_packet(p) ==
  packet_queue' = IF Len(packet_queue) < MAX_QUEUE_DEPTH
                    THEN Append(packet_queue, p) ELSE packet_queue

\* Tunn::encapsulate.  An empty packet is a keepalive and never queued.
TunnEncapsulate(clock, wall, empty) ==
  /\ stage = "ready"
  /\ empty \/ handed < MaxPackets
  /\ Encapsulate(clock, wall, empty)
  /\ handed' = IF empty THEN handed ELSE handed + 1
  /\ \/ /\ ret' = "Transport"
        /\ sent' = IF empty THEN sent ELSE sent \cup {handed'}
        /\ UNCHANGED packet_queue
     \/ /\ ret' \in {"HandshakeInitiation", "NotEstablished"}
        /\ IF empty THEN UNCHANGED packet_queue ELSE queue_packet(handed')
        /\ UNCHANGED sent
     \/ ret' \in LocalErrors /\ UNCHANGED <<packet_queue, sent>>
  /\ result' = CASE ret' \in {"Transport", "HandshakeInitiation"} -> "WriteToNetwork"
                 [] ret' = "NotEstablished" -> "Done"
                 [] OTHER -> "Err"
  /\ UNCHANGED <<queue_drainable, stage>>

\* Tunn::decapsulate of a datagram.  note_handshake answers for handshake
\* messages only, and the load signal counts only with a source address.
TunnDecapsulate(clock) ==
  /\ stage = "ready"
  /\ \/ \E under_load \in LoadSignals, remote \in Remotes :
          \/ \E m \in Initiations :
               DecapsulateInitiation(clock, m, under_load, remote)
          \/ \E m \in Responses :
               DecapsulateResponse(clock, m, under_load, remote)
     \/ \E m \in CookieReplies : DecapsulateCookieReply(clock, m)
     \/ \E m \in Transports : DecapsulateTransport(clock, m)
     \/ DecapsulateMalformed(clock)
  /\ \/ /\ ret' = "HandshakeComplete"
        /\ queue_drainable' = TRUE
        /\ stage' = "poll"
        /\ UNCHANGED result
     \/ /\ ret' # "HandshakeComplete"
        /\ result' = CASE ret' = "Data" -> "WriteToTunnel"
                       [] ret' = "Reply" -> "WriteToNetwork"
                       [] ret' \in {"Keepalive", "CookieStored"} -> "Done"
                       [] OTHER -> "Err"
        /\ UNCHANGED <<queue_drainable, stage>>
  /\ UNCHANGED <<packet_queue, handed, sent>>

\* The poll a completed handshake makes at the same reading of the clock.
CompletePoll(wall) ==
  /\ stage = "poll"
  /\ Poll(last_now, wall)
  /\ stage' = IF ret' \in Sends THEN "ready" ELSE "drain"
  /\ result' = IF ret' \in Sends THEN "WriteToNetwork" ELSE result
  /\ UNCHANGED queueVars

-----------------------------------------------------------------------------
(* drain_queue_step, and its mutant: the packet is popped for good. *)

drain_failed_popped ==
  /\ queue_drainable' = FALSE
  /\ packet_queue' = Tail(packet_queue)

\* The session vanished or the send failed: push_front and stop.
drain_failed ==
  /\ queue_drainable' = FALSE
  /\ UNCHANGED packet_queue

DrainHead(clock, wall) ==
  /\ queue_drainable /\ packet_queue # <<>>
  /\ Encapsulate(clock, wall, FALSE)
  /\ \/ /\ ret' = "Transport"
        /\ sent' = sent \cup {Head(packet_queue)}
        /\ packet_queue' = Tail(packet_queue)
        /\ UNCHANGED queue_drainable
     \/ ret' # "Transport" /\ drain_failed /\ UNCHANGED sent
  /\ result' = IF ret' \in {"Transport", "HandshakeInitiation"}
                 THEN "WriteToNetwork" ELSE "Err"

\* Also Tunn::decapsulate of an empty datagram.
DrainQueueStep(clock, wall) ==
  /\ stage \in {"ready", "drain"}
  /\ stage' = "ready"
  /\ UNCHANGED handed
  /\ \/ /\ ~queue_drainable \/ packet_queue = <<>>
        /\ queue_drainable' = FALSE
        /\ result' = "Done"
        /\ UNCHANGED <<vars, packet_queue, sent>>
     \/ DrainHead(clock, wall)

-----------------------------------------------------------------------------
\* Tunn::update_timers: an abandoned handshake takes the queue with it.
UpdateTimers(clock, wall) ==
  /\ stage = "ready"
  /\ Poll(clock, wall)
  /\ packet_queue' = IF ret' = "HandshakeExpired" THEN <<>> ELSE packet_queue
  /\ result' = poll_result(ret')
  /\ UNCHANGED <<queue_drainable, stage, handed, sent>>

FormatHandshakeInitiation(clock, wall) ==
  /\ stage = "ready"
  /\ InitiateHandshake(clock, wall)
  /\ result' = CASE ret' = "HandshakeInitiation" -> "WriteToNetwork"
                 [] ret' = "HandshakeRateLimited" -> "Done"
                 [] OTHER -> "Err"
  /\ UNCHANGED <<queueVars, stage>>

\* The rest of a call that decapsulate began; draining reads the clock anew.
Finish(clock, wall) ==
  \/ CompletePoll(wall)
  \/ stage = "drain" /\ DrainQueueStep(clock, wall)

TunnNext ==
  \E clock \in Readings, wall \in WallClock :
    \/ Finish(clock, wall)
    \/ \E empty \in BOOLEAN : TunnEncapsulate(clock, wall, empty)
    \/ TunnDecapsulate(clock)
    \/ stage = "ready" /\ DrainQueueStep(clock, wall)
    \/ UpdateTimers(clock, wall)
    \/ FormatHandshakeInitiation(clock, wall)

TunnSpec == TunnInit /\ [][TunnNext]_tunnVars

-----------------------------------------------------------------------------
\* The queue keeps its promise through every failure: a packet whose session
\* vanishes while the queue is drained goes back to the head, so none is sent
\* twice, lost on its own or overtaken inside the queue (lib.rs:392-415).
Queue == INSTANCE PacketQueue WITH queue <- packet_queue

QueueImplements == Queue!Spec

\* lib.rs:206: once the handshake has completed, calling decapsulate with an
\* empty datagram drains the queue: with a usable session it is drainable.
DrainAnswered ==
  stage = "ready" /\ packet_queue # <<>> /\ current_usable(last_now) =>
    queue_drainable

=============================================================================
