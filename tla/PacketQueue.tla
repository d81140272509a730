---------------------------- MODULE PacketQueue ----------------------------
(***************************************************************************)
(* What the adapter promises for the packets it is handed while there may  *)
(* be no session: packets are numbered in the order they arrive, and each  *)
(* is sent at once, kept in a bounded first-in first-out queue, or lost.   *)
(* Only the head of the queue is sent; the queue is lost as a whole.       *)
(***************************************************************************)
EXTENDS Sequences, Naturals

CONSTANT MAX_QUEUE_DEPTH

VARIABLES
  queue,    \* packets waiting, oldest first
  sent,     \* packets encrypted and put on the wire
  handed    \* how many packets there have been

Init == queue = <<>> /\ sent = {} /\ handed = 0

Arrive ==
  /\ handed' = handed + 1
  /\ \/ sent' = sent \cup {handed'} /\ UNCHANGED queue
     \/ /\ Len(queue) < MAX_QUEUE_DEPTH
        /\ queue' = Append(queue, handed')
        /\ UNCHANGED sent
     \/ UNCHANGED <<queue, sent>>

Drain ==
  /\ queue # <<>>
  /\ sent' = sent \cup {Head(queue)}
  /\ queue' = Tail(queue)
  /\ UNCHANGED handed

Flush == queue' = <<>> /\ UNCHANGED <<sent, handed>>

Spec == Init /\ [][Arrive \/ Drain \/ Flush]_<<queue, sent, handed>>

=============================================================================
