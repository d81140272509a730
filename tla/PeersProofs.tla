---------------------------- MODULE PeersProofs ----------------------------
(***************************************************************************)
(* Proofs about two tunnels and the network between them: no nonce is used *)
(* twice, no transport message is accepted twice, the sides agree on the   *)
(* sessions they share, and a handshake in flight is not refused as        *)
(* replayed.  Each side is an instance of SideProofs, which tells what a   *)
(* call may do to the slots, what the two sides promise each other, and    *)
(* that no call breaks it.  That part speaks of either side through its    *)
(* parameters; it is used in the instance PA for both.                     *)
(***************************************************************************)
EXTENDS Peers, TLAPS

PA == INSTANCE SideProofs WITH
  inflight <- a_inflight, last_init_mac1 <- a_init_mac1,
  last_resp_mac1 <- a_resp_mac1, cookie <- a_cookie,
  cookie_jar <- a_cookie_jar, greatest_timestamp <- a_greatest,
  last_sent_tai64n <- a_last_sent, previous <- a_previous,
  current <- a_current, next <- a_next, timers <- a_timers,
  recv_rekey_done <- a_recv_rekey_done, last_now <- a_last_now,
  last_handshake_at <- a_handshake_at, ret <- a_ret,
  Indices <- IndicesA, PeerIndices <- IndicesB,
  Clock <- ClockA, WallClock <- WallClockA,
  Timestamps <- {}, Counters <- {}, LoadSignals <- {FALSE}, Faults <- {},
  PeerCookies <- {}

PB == INSTANCE SideProofs WITH
  inflight <- b_inflight, last_init_mac1 <- b_init_mac1,
  last_resp_mac1 <- b_resp_mac1, cookie <- b_cookie,
  cookie_jar <- b_cookie_jar, greatest_timestamp <- b_greatest,
  last_sent_tai64n <- b_last_sent, previous <- b_previous,
  current <- b_current, next <- b_next, timers <- b_timers,
  recv_rekey_done <- b_recv_rekey_done, last_now <- b_last_now,
  last_handshake_at <- b_handshake_at, ret <- b_ret,
  Indices <- IndicesB, PeerIndices <- IndicesA,
  Clock <- ClockB, WallClock <- WallClockB,
  Timestamps <- {}, Counters <- {}, LoadSignals <- {FALSE}, Faults <- {},
  PeerCookies <- {}

\* The ephemerals each side draws, and the slots of the two.
own == [a |-> EphemeralsA, b |-> EphemeralsB]

SideA ==
  [ previous |-> a_previous, current |-> a_current, next |-> a_next,
    inflight |-> a_inflight, greatest |-> a_greatest, sent |-> a_last_sent ]

SideB ==
  [ previous |-> b_previous, current |-> b_current, next |-> b_next,
    inflight |-> b_inflight, greatest |-> b_greatest, sent |-> b_last_sent ]

\* The inductive invariant.  Side a never restarts; what side b knows of its own
\* timestamps holds while it has not.
PeersInv ==
  /\ PA!PairInv(own, SideA, SideB, "a", net, drawn, accepted, TRUE, restarts = 0)
  /\ restarts \in Nat /\ ~reused /\ ~doubled

-----------------------------------------------------------------------------
(* The operations of a side are moves. *)

\* What SideProofs assumes, of side a.
LEMMA AssumptionsOfA ==
  /\ None \notin Int
  /\ /\ MAX_TICKS \in Nat /\ REKEY_AFTER_TIME \in Nat /\ REJECT_AFTER_TIME \in Nat
     /\ REKEY_ATTEMPT_TIME \in Nat /\ REKEY_TIMEOUT \in Nat /\ KEEPALIVE_TIMEOUT \in Nat
     /\ REKEY_TIMEOUT_JITTER_MAX \in Nat /\ COOKIE_LIFETIME \in Nat
  /\ /\ 0 < REKEY_TIMEOUT /\ 0 < KEEPALIVE_TIMEOUT /\ 0 < COOKIE_LIFETIME
     /\ KEEPALIVE_TIMEOUT + REKEY_TIMEOUT <= REJECT_AFTER_TIME
  /\ /\ REKEY_AFTER_MESSAGES \in Nat /\ REJECT_AFTER_MESSAGES \in Nat
     /\ WINDOW_BITS \in Nat \ {0} /\ WHITENER \in Nat \ {0}
  /\ REKEY_TIMEOUT <= PA!REKEY_AFTER_TIME_RECV
  /\ 0 < MAX_TICKS /\ ClockA \subseteq 0 .. (MAX_TICKS - 1)
  /\ /\ PersistentKeepalive \in (Nat \ {0}) \cup {None}
     /\ WallClockA \subseteq Nat
     /\ {} \subseteq Nat /\ {} \subseteq PA!Cookies
     /\ {FALSE} \subseteq BOOLEAN /\ {} \subseteq {"mac1", "noise", "peer"}
  /\ None \notin PA!InFlight
BY PeersAssumption, NoneAssumption, DurationAssumption, PositiveAssumption,
   MessageAssumption, RecvAssumption
   DEF PA!InFlight, PA!REKEY_AFTER_TIME_RECV, REKEY_AFTER_TIME_RECV, Ephemerals

\* What the application and the timers of side a call.
LEMMA CallsOfA ==
  ASSUME NEW clock, NEW wall \in Nat, a_last_sent \in Nat \cup {None},
         \/ A!Encapsulate(clock, wall, FALSE) \/ A!Poll(clock, wall)
         \/ A!InitiateHandshake(clock, wall)
  PROVE  PA!CallMove(SideA, SideA', a_ret')
<1>1. A!Encapsulate(clock, wall, FALSE) => PA!Encapsulate(clock, wall, FALSE)
  BY Zenon
     DEF A!Encapsulate, A!clamp_now, A!EncapsulateHandshake,
         A!EncapsulateTransport, A!current_usable, A!sessions,
         A!initiation_allowed, A!macs, A!timestamps, A!send_initiation,
         A!next_counter, A!rekey_after_send, A!note_keepalive_tx,
         A!note_data_tx, A!usable_for_send, A!none_or_elapsed, A!LocalErrors,
         A!fresh_index, A!tai64n, A!tick, A!create_initiation,
         A!note_initiation_tx, A!age, A!since, A!HasIndex, A!add_nanos,
         PA!Encapsulate, PA!clamp_now, PA!EncapsulateHandshake,
         PA!EncapsulateTransport, PA!current_usable, PA!sessions,
         PA!initiation_allowed, PA!macs, PA!timestamps, PA!send_initiation,
         PA!next_counter, PA!rekey_after_send, PA!note_keepalive_tx,
         PA!note_data_tx, PA!usable_for_send, PA!none_or_elapsed,
         PA!LocalErrors, PA!fresh_index, PA!tai64n, PA!tick,
         PA!create_initiation, PA!note_initiation_tx, PA!age, PA!since,
         PA!HasIndex, PA!add_nanos
<1>2. A!Poll(clock, wall) => PA!Poll(clock, wall)
  BY Zenon
     DEF A!Poll, A!clamp_now, A!PollDiscard, A!PollRetransmit, A!PollInitiate,
         A!PollKeepalive, A!PollPersistent, A!PollRevive, A!PollIdle,
         A!DiscardDue, A!discard_all_sessions, A!RetransmitDue,
         A!attempt_exhausted, A!PollSilent, A!note_gave_up, A!PollSend,
         A!RekeyNow, A!DeadPeerNow, A!HandshakesQuiet, A!ConfirmNow,
         A!PassiveNow, A!next_at, A!send_keepalive, A!timers_rekeyed,
         A!PersistentNow, A!ReviveNow, A!timers_disarmed, A!HasWork,
         A!some_elapsed, A!newest_session_created, A!SESSION_DISCARD_TIME,
         A!default_timers, A!timestamps, A!macs, A!send_initiation,
         A!initiation_allowed, A!dead_peer_due, A!current_usable,
         A!passive_keepalive_due, A!age, A!next_counter, A!rekey_after_send,
         A!note_keepalive_tx, A!since, A!persistent_base,
         A!persistent_revive_allowed, A!opt_max, A!LocalErrors, A!fresh_index,
         A!tai64n, A!tick, A!create_initiation, A!note_initiation_tx,
         A!none_or_elapsed, A!tx_unanswered, A!DEAD_PEER_TIMEOUT,
         A!usable_for_send, A!rx_unanswered, A!HasIndex, A!add_nanos, PA!Poll,
         PA!clamp_now, PA!PollDiscard, PA!PollRetransmit, PA!PollInitiate,
         PA!PollKeepalive, PA!PollPersistent, PA!PollRevive, PA!PollIdle,
         PA!DiscardDue, PA!discard_all_sessions, PA!RetransmitDue,
         PA!attempt_exhausted, PA!PollSilent, PA!note_gave_up, PA!PollSend,
         PA!RekeyNow, PA!DeadPeerNow, PA!HandshakesQuiet, PA!ConfirmNow,
         PA!PassiveNow, PA!next_at, PA!send_keepalive, PA!timers_rekeyed,
         PA!PersistentNow, PA!ReviveNow, PA!timers_disarmed, PA!HasWork,
         PA!some_elapsed, PA!newest_session_created, PA!SESSION_DISCARD_TIME,
         PA!default_timers, PA!timestamps, PA!macs, PA!send_initiation,
         PA!initiation_allowed, PA!dead_peer_due, PA!current_usable,
         PA!passive_keepalive_due, PA!age, PA!next_counter, PA!rekey_after_send,
         PA!note_keepalive_tx, PA!since, PA!persistent_base,
         PA!persistent_revive_allowed, PA!opt_max, PA!LocalErrors,
         PA!fresh_index, PA!tai64n, PA!tick, PA!create_initiation,
         PA!note_initiation_tx, PA!none_or_elapsed, PA!tx_unanswered,
         PA!DEAD_PEER_TIMEOUT, PA!usable_for_send, PA!rx_unanswered,
         PA!HasIndex, PA!add_nanos
<1>3. A!InitiateHandshake(clock, wall) => PA!InitiateHandshake(clock, wall)
  BY Zenon
     DEF A!InitiateHandshake, A!clamp_now, A!initiation_allowed, A!Reject,
         A!sessions, A!send_initiation, A!none_or_elapsed, A!protocol,
         A!LocalErrors, A!fresh_index, A!tai64n, A!tick, A!create_initiation,
         A!note_initiation_tx, A!since, A!macs, A!timestamps, A!HasIndex,
         A!add_nanos, PA!InitiateHandshake, PA!clamp_now, PA!initiation_allowed,
         PA!Reject, PA!sessions, PA!send_initiation, PA!none_or_elapsed,
         PA!protocol, PA!LocalErrors, PA!fresh_index, PA!tai64n, PA!tick,
         PA!create_initiation, PA!note_initiation_tx, PA!since, PA!macs,
         PA!timestamps, PA!HasIndex, PA!add_nanos
<1>4. PA!CallMove(PA!Slots, PA!Slots', a_ret')
  BY <1>1, <1>2, <1>3, PA!MovesOfCall, AssumptionsOfA, Zenon
<1>5. PA!Slots = SideA /\ PA!Slots' = SideA'
  BY Zenon DEF PA!Slots, SideA
<1> QED
  BY <1>4, <1>5, Zenon

\* What a datagram makes side a do.
LEMMA DeliveriesOfA ==
  ASSUME NEW clock, NEW m, NEW remote,
         \/ m.kind = "initiation" /\ A!DecapsulateInitiation(clock, m, FALSE, remote)
         \/ m.kind = "response" /\ A!DecapsulateResponse(clock, m, FALSE, remote)
         \/ m.kind = "transport" /\ A!DecapsulateTransport(clock, m)
  PROVE  PA!DeliverMove(SideA, SideA', a_ret', m)
<1>1. A!DecapsulateInitiation(clock, m, FALSE, remote) =>
        PA!DecapsulateInitiation(clock, m, FALSE, remote)
  BY Zenon
     DEF A!DecapsulateInitiation, A!clamp_now, A!Reject, A!mac2_passes,
         A!build_cookie_reply, A!timestamps, A!sessions, A!consume_initiation,
         A!RespondTo, A!protocol, A!verify_mac2, A!rotation_due,
         A!rotate_if_needed, A!LocalErrors, A!fresh_index, A!new_session,
         A!create_response, A!macs, A!since, A!HasIndex,
         PA!DecapsulateInitiation, PA!clamp_now, PA!Reject, PA!mac2_passes,
         PA!build_cookie_reply, PA!timestamps, PA!sessions,
         PA!consume_initiation, PA!RespondTo, PA!protocol, PA!verify_mac2,
         PA!rotation_due, PA!rotate_if_needed, PA!LocalErrors, PA!fresh_index,
         PA!new_session, PA!create_response, PA!macs, PA!since, PA!HasIndex
<1>2. A!DecapsulateResponse(clock, m, FALSE, remote) =>
        PA!DecapsulateResponse(clock, m, FALSE, remote)
  BY Zenon
     DEF A!DecapsulateResponse, A!clamp_now, A!Reject, A!HasIndex,
         A!mac2_passes, A!build_cookie_reply, A!timestamps, A!sessions,
         A!response_opens, A!CompleteHandshake, A!protocol, A!verify_mac2,
         A!rotation_due, A!rotate_if_needed, A!new_session, A!consume_response,
         A!note_handshake_complete, A!macs, A!since, PA!DecapsulateResponse,
         PA!clamp_now, PA!Reject, PA!HasIndex, PA!mac2_passes,
         PA!build_cookie_reply, PA!timestamps, PA!sessions, PA!response_opens,
         PA!CompleteHandshake, PA!protocol, PA!verify_mac2, PA!rotation_due,
         PA!rotate_if_needed, PA!new_session, PA!consume_response,
         PA!note_handshake_complete, PA!macs, PA!since
<1>3. A!DecapsulateTransport(clock, m) => PA!DecapsulateTransport(clock, m)
  BY Zenon
     DEF A!DecapsulateTransport, A!clamp_now, A!session_with_index, A!Reject,
         A!age, A!replay_check, A!opens_under, A!PromoteNext, A!AcceptInPlace,
         A!macs, A!timestamps, A!HasIndex, A!protocol, A!since,
         A!accept_transport, A!ReceivePath, A!note_handshake_complete,
         A!sessions, A!REKEY_AFTER_TIME_RECV, A!note_rx,
         PA!DecapsulateTransport, PA!clamp_now, PA!session_with_index,
         PA!Reject, PA!age, PA!replay_check, PA!opens_under, PA!PromoteNext,
         PA!AcceptInPlace, PA!macs, PA!timestamps, PA!HasIndex, PA!protocol,
         PA!since, PA!accept_transport, PA!ReceivePath,
         PA!note_handshake_complete, PA!sessions, PA!REKEY_AFTER_TIME_RECV,
         PA!note_rx
<1>4. PA!DeliverMove(PA!Slots, PA!Slots', a_ret', m)
  BY <1>1, <1>2, <1>3, PA!MovesOfDelivery, AssumptionsOfA, Zenon
<1>5. PA!Slots = SideA /\ PA!Slots' = SideA'
  BY Zenon DEF PA!Slots, SideA
<1> QED
  BY <1>4, <1>5, Zenon

\* What SideProofs assumes, of side b.
LEMMA AssumptionsOfB ==
  /\ None \notin Int
  /\ /\ MAX_TICKS \in Nat /\ REKEY_AFTER_TIME \in Nat /\ REJECT_AFTER_TIME \in Nat
     /\ REKEY_ATTEMPT_TIME \in Nat /\ REKEY_TIMEOUT \in Nat /\ KEEPALIVE_TIMEOUT \in Nat
     /\ REKEY_TIMEOUT_JITTER_MAX \in Nat /\ COOKIE_LIFETIME \in Nat
  /\ /\ 0 < REKEY_TIMEOUT /\ 0 < KEEPALIVE_TIMEOUT /\ 0 < COOKIE_LIFETIME
     /\ KEEPALIVE_TIMEOUT + REKEY_TIMEOUT <= REJECT_AFTER_TIME
  /\ /\ REKEY_AFTER_MESSAGES \in Nat /\ REJECT_AFTER_MESSAGES \in Nat
     /\ WINDOW_BITS \in Nat \ {0} /\ WHITENER \in Nat \ {0}
  /\ REKEY_TIMEOUT <= PB!REKEY_AFTER_TIME_RECV
  /\ 0 < MAX_TICKS /\ ClockB \subseteq 0 .. (MAX_TICKS - 1)
  /\ /\ PersistentKeepalive \in (Nat \ {0}) \cup {None}
     /\ WallClockB \subseteq Nat
     /\ {} \subseteq Nat /\ {} \subseteq PB!Cookies
     /\ {FALSE} \subseteq BOOLEAN /\ {} \subseteq {"mac1", "noise", "peer"}
  /\ None \notin PB!InFlight
BY PeersAssumption, NoneAssumption, DurationAssumption, PositiveAssumption,
   MessageAssumption, RecvAssumption
   DEF PB!InFlight, PB!REKEY_AFTER_TIME_RECV, REKEY_AFTER_TIME_RECV, Ephemerals

\* What the application and the timers of side b call.
LEMMA CallsOfB ==
  ASSUME NEW clock, NEW wall \in Nat, b_last_sent \in Nat \cup {None},
         \/ B!Encapsulate(clock, wall, FALSE) \/ B!Poll(clock, wall)
         \/ B!InitiateHandshake(clock, wall)
  PROVE  PA!CallMove(SideB, SideB', b_ret')
<1>1. B!Encapsulate(clock, wall, FALSE) => PB!Encapsulate(clock, wall, FALSE)
  BY Zenon
     DEF B!Encapsulate, B!clamp_now, B!EncapsulateHandshake,
         B!EncapsulateTransport, B!current_usable, B!sessions,
         B!initiation_allowed, B!macs, B!timestamps, B!send_initiation,
         B!next_counter, B!rekey_after_send, B!note_keepalive_tx,
         B!note_data_tx, B!usable_for_send, B!none_or_elapsed, B!LocalErrors,
         B!fresh_index, B!tai64n, B!tick, B!create_initiation,
         B!note_initiation_tx, B!age, B!since, B!HasIndex, B!add_nanos,
         PB!Encapsulate, PB!clamp_now, PB!EncapsulateHandshake,
         PB!EncapsulateTransport, PB!current_usable, PB!sessions,
         PB!initiation_allowed, PB!macs, PB!timestamps, PB!send_initiation,
         PB!next_counter, PB!rekey_after_send, PB!note_keepalive_tx,
         PB!note_data_tx, PB!usable_for_send, PB!none_or_elapsed,
         PB!LocalErrors, PB!fresh_index, PB!tai64n, PB!tick,
         PB!create_initiation, PB!note_initiation_tx, PB!age, PB!since,
         PB!HasIndex, PB!add_nanos
<1>2. B!Poll(clock, wall) => PB!Poll(clock, wall)
  BY Zenon
     DEF B!Poll, B!clamp_now, B!PollDiscard, B!PollRetransmit, B!PollInitiate,
         B!PollKeepalive, B!PollPersistent, B!PollRevive, B!PollIdle,
         B!DiscardDue, B!discard_all_sessions, B!RetransmitDue,
         B!attempt_exhausted, B!PollSilent, B!note_gave_up, B!PollSend,
         B!RekeyNow, B!DeadPeerNow, B!HandshakesQuiet, B!ConfirmNow,
         B!PassiveNow, B!next_at, B!send_keepalive, B!timers_rekeyed,
         B!PersistentNow, B!ReviveNow, B!timers_disarmed, B!HasWork,
         B!some_elapsed, B!newest_session_created, B!SESSION_DISCARD_TIME,
         B!default_timers, B!timestamps, B!macs, B!send_initiation,
         B!initiation_allowed, B!dead_peer_due, B!current_usable,
         B!passive_keepalive_due, B!age, B!next_counter, B!rekey_after_send,
         B!note_keepalive_tx, B!since, B!persistent_base,
         B!persistent_revive_allowed, B!opt_max, B!LocalErrors, B!fresh_index,
         B!tai64n, B!tick, B!create_initiation, B!note_initiation_tx,
         B!none_or_elapsed, B!tx_unanswered, B!DEAD_PEER_TIMEOUT,
         B!usable_for_send, B!rx_unanswered, B!HasIndex, B!add_nanos, PB!Poll,
         PB!clamp_now, PB!PollDiscard, PB!PollRetransmit, PB!PollInitiate,
         PB!PollKeepalive, PB!PollPersistent, PB!PollRevive, PB!PollIdle,
         PB!DiscardDue, PB!discard_all_sessions, PB!RetransmitDue,
         PB!attempt_exhausted, PB!PollSilent, PB!note_gave_up, PB!PollSend,
         PB!RekeyNow, PB!DeadPeerNow, PB!HandshakesQuiet, PB!ConfirmNow,
         PB!PassiveNow, PB!next_at, PB!send_keepalive, PB!timers_rekeyed,
         PB!PersistentNow, PB!ReviveNow, PB!timers_disarmed, PB!HasWork,
         PB!some_elapsed, PB!newest_session_created, PB!SESSION_DISCARD_TIME,
         PB!default_timers, PB!timestamps, PB!macs, PB!send_initiation,
         PB!initiation_allowed, PB!dead_peer_due, PB!current_usable,
         PB!passive_keepalive_due, PB!age, PB!next_counter, PB!rekey_after_send,
         PB!note_keepalive_tx, PB!since, PB!persistent_base,
         PB!persistent_revive_allowed, PB!opt_max, PB!LocalErrors,
         PB!fresh_index, PB!tai64n, PB!tick, PB!create_initiation,
         PB!note_initiation_tx, PB!none_or_elapsed, PB!tx_unanswered,
         PB!DEAD_PEER_TIMEOUT, PB!usable_for_send, PB!rx_unanswered,
         PB!HasIndex, PB!add_nanos
<1>3. B!InitiateHandshake(clock, wall) => PB!InitiateHandshake(clock, wall)
  BY Zenon
     DEF B!InitiateHandshake, B!clamp_now, B!initiation_allowed, B!Reject,
         B!sessions, B!send_initiation, B!none_or_elapsed, B!protocol,
         B!LocalErrors, B!fresh_index, B!tai64n, B!tick, B!create_initiation,
         B!note_initiation_tx, B!since, B!macs, B!timestamps, B!HasIndex,
         B!add_nanos, PB!InitiateHandshake, PB!clamp_now, PB!initiation_allowed,
         PB!Reject, PB!sessions, PB!send_initiation, PB!none_or_elapsed,
         PB!protocol, PB!LocalErrors, PB!fresh_index, PB!tai64n, PB!tick,
         PB!create_initiation, PB!note_initiation_tx, PB!since, PB!macs,
         PB!timestamps, PB!HasIndex, PB!add_nanos
<1>4. PB!CallMove(PB!Slots, PB!Slots', b_ret')
  BY <1>1, <1>2, <1>3, PB!MovesOfCall, AssumptionsOfB, Zenon
<1>5. PB!Slots = SideB /\ PB!Slots' = SideB'
  BY Zenon DEF PB!Slots, SideB
<1>6. ASSUME NEW x, NEW y, NEW r, PB!CallMove(x, y, r) PROVE PA!CallMove(x, y, r)
  BY <1>6, Zenon
     DEF PB!CallMove, PB!QuietMove, PB!InitiateMove, PB!SendMove, PB!KeptOrDropped,
         PB!SameTimes, PB!Initiated, PB!Transported, PB!Received,
         PB!create_initiation, PB!next_counter,
         PA!CallMove, PA!QuietMove, PA!InitiateMove, PA!SendMove, PA!KeptOrDropped,
         PA!SameTimes, PA!Initiated, PA!Transported, PA!Received,
         PA!create_initiation, PA!next_counter
<1> QED
  BY <1>4, <1>5, <1>6, Zenon

\* What a datagram makes side b do.
LEMMA DeliveriesOfB ==
  ASSUME NEW clock, NEW m, NEW remote,
         \/ m.kind = "initiation" /\ B!DecapsulateInitiation(clock, m, FALSE, remote)
         \/ m.kind = "response" /\ B!DecapsulateResponse(clock, m, FALSE, remote)
         \/ m.kind = "transport" /\ B!DecapsulateTransport(clock, m)
  PROVE  PA!DeliverMove(SideB, SideB', b_ret', m)
<1>1. B!DecapsulateInitiation(clock, m, FALSE, remote) =>
        PB!DecapsulateInitiation(clock, m, FALSE, remote)
  BY Zenon
     DEF B!DecapsulateInitiation, B!clamp_now, B!Reject, B!mac2_passes,
         B!build_cookie_reply, B!timestamps, B!sessions, B!consume_initiation,
         B!RespondTo, B!protocol, B!verify_mac2, B!rotation_due,
         B!rotate_if_needed, B!LocalErrors, B!fresh_index, B!new_session,
         B!create_response, B!macs, B!since, B!HasIndex,
         PB!DecapsulateInitiation, PB!clamp_now, PB!Reject, PB!mac2_passes,
         PB!build_cookie_reply, PB!timestamps, PB!sessions,
         PB!consume_initiation, PB!RespondTo, PB!protocol, PB!verify_mac2,
         PB!rotation_due, PB!rotate_if_needed, PB!LocalErrors, PB!fresh_index,
         PB!new_session, PB!create_response, PB!macs, PB!since, PB!HasIndex
<1>2. B!DecapsulateResponse(clock, m, FALSE, remote) =>
        PB!DecapsulateResponse(clock, m, FALSE, remote)
  BY Zenon
     DEF B!DecapsulateResponse, B!clamp_now, B!Reject, B!HasIndex,
         B!mac2_passes, B!build_cookie_reply, B!timestamps, B!sessions,
         B!response_opens, B!CompleteHandshake, B!protocol, B!verify_mac2,
         B!rotation_due, B!rotate_if_needed, B!new_session, B!consume_response,
         B!note_handshake_complete, B!macs, B!since, PB!DecapsulateResponse,
         PB!clamp_now, PB!Reject, PB!HasIndex, PB!mac2_passes,
         PB!build_cookie_reply, PB!timestamps, PB!sessions, PB!response_opens,
         PB!CompleteHandshake, PB!protocol, PB!verify_mac2, PB!rotation_due,
         PB!rotate_if_needed, PB!new_session, PB!consume_response,
         PB!note_handshake_complete, PB!macs, PB!since
<1>3. B!DecapsulateTransport(clock, m) => PB!DecapsulateTransport(clock, m)
  BY Zenon
     DEF B!DecapsulateTransport, B!clamp_now, B!session_with_index, B!Reject,
         B!age, B!replay_check, B!opens_under, B!PromoteNext, B!AcceptInPlace,
         B!macs, B!timestamps, B!HasIndex, B!protocol, B!since,
         B!accept_transport, B!ReceivePath, B!note_handshake_complete,
         B!sessions, B!REKEY_AFTER_TIME_RECV, B!note_rx,
         PB!DecapsulateTransport, PB!clamp_now, PB!session_with_index,
         PB!Reject, PB!age, PB!replay_check, PB!opens_under, PB!PromoteNext,
         PB!AcceptInPlace, PB!macs, PB!timestamps, PB!HasIndex, PB!protocol,
         PB!since, PB!accept_transport, PB!ReceivePath,
         PB!note_handshake_complete, PB!sessions, PB!REKEY_AFTER_TIME_RECV,
         PB!note_rx
<1>4. PB!DeliverMove(PB!Slots, PB!Slots', b_ret', m)
  BY <1>1, <1>2, <1>3, PB!MovesOfDelivery, AssumptionsOfB, Zenon
<1>5. PB!Slots = SideB /\ PB!Slots' = SideB'
  BY Zenon DEF PB!Slots, SideB
<1>6. ASSUME NEW x, NEW y, NEW r, PB!DeliverMove(x, y, r, m)
      PROVE  PA!DeliverMove(x, y, r, m)
  BY <1>6, Zenon
     DEF PB!DeliverMove, PB!QuietMove, PB!RespondMove, PB!CompleteMove, PB!AcceptMove,
         PB!KeptOrDropped, PB!SameTimes, PB!Initiated, PB!Transported, PB!Received,
         PB!new_session, PB!create_response, PB!consume_response, PB!accept_transport,
         PA!DeliverMove, PA!QuietMove, PA!RespondMove, PA!CompleteMove, PA!AcceptMove,
         PA!KeptOrDropped, PA!SameTimes, PA!Initiated, PA!Transported, PA!Received,
         PA!new_session, PA!create_response, PA!consume_response, PA!accept_transport
<1> QED
  BY <1>4, <1>5, <1>6, Zenon

-----------------------------------------------------------------------------
(* The steps keep the invariant. *)

\* The sides are each other's peer, and their ephemerals are disjoint.
LEMMA TwoSides ==
  /\ "a" \in PA!Sides /\ "b" = PA!Peer("a")
  /\ own["a"] = EphemeralsA /\ own["b"] = EphemeralsB /\ PA!Disjoint(own)
BY PeersAssumption DEF PA!Sides, PA!Peer, own, PA!Disjoint

\* The fields of the slots.
LEMMA SideFields ==
  /\ SideA.current = a_current /\ SideA'.inflight = a_inflight'
  /\ SideA'.sent = a_last_sent' /\ SideA'.next = a_next' /\ SideA.sent = a_last_sent
  /\ SideB.current = b_current /\ SideB'.inflight = b_inflight'
  /\ SideB'.sent = b_last_sent' /\ SideB'.next = b_next' /\ SideB.sent = b_last_sent
BY DEF SideA, SideB

\* Modules Peers and SideProofs speak of the same datagrams.
LEMMA WireSame ==
  /\ \A ms : PA!Drawn(ms) = Drawn(ms) /\ PA!Nonces(ms) = Nonces(ms)
  /\ PutA = Put(PA!Out("a", SideA, SideA', a_ret'), own["a"])
  /\ PutB = Put(PA!Out("b", SideB, SideB', b_ret'), own["b"])
<1>1. \A ms : PA!Drawn(ms) = Drawn(ms) /\ PA!Nonces(ms) = Nonces(ms)
  BY Zenon DEF PA!Drawn, Drawn, PA!Nonces, Nonces, PA!nonce, nonce
<1>2. PA!Peer("a") = "b" /\ PA!Peer("b") = "a"
  BY DEF PA!Peer
<1>3. /\ PA!Out("a", SideA, SideA', a_ret') =
           Sent("b", a_ret', a_inflight', a_last_sent', a_next', a_current)
      /\ PA!Out("b", SideB, SideB', b_ret') =
           Sent("a", b_ret', b_inflight', b_last_sent', b_next', b_current)
  BY <1>2, SideFields, Zenon
     DEF PA!Out, PA!Sent, Sent, PA!Initiation, Initiation, PA!Response, Response,
         PA!Transport, Transport
<1> QED
  BY <1>1, <1>3, TwoSides, Zenon DEF PutA, PutB

\* A step that sends `out' and accepts `in'.
LEMMA StepKeeps ==
  ASSUME PeersInv, restarts' = restarts,
         NEW out, NEW eph, Put(out, eph), NEW in, Accept(in),
         PA!PairSteps(own, SideA', SideB', "a", out, in, net, drawn, accepted,
                      TRUE, restarts = 0)
  PROVE  PeersInv'
BY WireSame, Zenon DEF Put, Accept, PeersInv, PA!PairSteps

\* A call on side a.
LEMMA CallAKeeps == ASSUME PeersInv, CallA PROVE PeersInv'
<1> DEFINE out == PA!Out("a", SideA, SideA', a_ret')
<1>1. PA!PairInv(own, SideA, SideB, "a", net, drawn, accepted, TRUE, restarts = 0)
  BY Zenon DEF PeersInv
<1>2. PA!CallMove(SideA, SideA', a_ret')
  <2>1. a_last_sent \in Nat \cup {None} /\ WallClockA \subseteq Nat
    BY <1>1, SideFields, PeersAssumption DEF PA!PairInv, PA!TimesOk
  <2> QED
    BY <2>1, CallsOfA, Zenon DEF CallA
<1>3. /\ Put(out, own["a"]) /\ Accept({}) /\ restarts' = restarts
      /\ SideB' = SideB /\ PA!Drawn(out) \subseteq own["a"] \ drawn
  BY WireSame, Zenon DEF CallA, Put, b_vars, SideB
<1>4. PA!PairSteps(own, SideA', SideB, "a", out, {}, net, drawn, accepted,
                   TRUE, restarts = 0)
  BY <1>1, <1>2, <1>3, PA!PairCalls, TwoSides, AssumptionsOfA, Zenon
<1> QED
  BY <1>3, <1>4, StepKeeps, Zenon

\* A delivery to side a.
LEMMA DeliverAKeeps == ASSUME PeersInv, NEW m \in net, DeliverA(m) PROVE PeersInv'
<1> DEFINE out == PA!Out("a", SideA, SideA', a_ret')
           in == PA!In(a_ret', m)
<1>1. PA!PairInv(own, SideA, SideB, "a", net, drawn, accepted, TRUE, restarts = 0)
  BY Zenon DEF PeersInv
<1>2. PA!DeliverMove(SideA, SideA', a_ret', m)
  <2>1. m.kind \in {"initiation", "response", "transport"}
    BY <1>1, Zenon DEF PA!PairInv, PA!Both, PA!NetInv, PA!MessageInv
  <2>2. PICK clock, remote :
          \/ m.kind = "initiation" /\ A!DecapsulateInitiation(clock, m, FALSE, remote)
          \/ m.kind = "response" /\ A!DecapsulateResponse(clock, m, FALSE, remote)
          \/ m.kind = "transport" /\ A!DecapsulateTransport(clock, m)
    BY <2>1, Zenon DEF DeliverA
  <2> QED
    BY <2>2, DeliveriesOfA, Zenon
<1>3. /\ Put(out, own["a"]) /\ Accept(in) /\ restarts' = restarts /\ m.to = "a"
      /\ SideB' = SideB /\ PA!Drawn(out) \subseteq own["a"] \ drawn
  BY WireSame, Zenon DEF DeliverA, Put, PA!In, b_vars, SideB
<1>4. PA!PairSteps(own, SideA', SideB, "a", out, in, net, drawn, accepted,
                   TRUE, restarts = 0)
  BY <1>1, <1>2, <1>3, PA!PairDelivers, TwoSides, AssumptionsOfA, Zenon
<1> QED
  BY <1>3, <1>4, StepKeeps, Zenon

\* A call on side b.
LEMMA CallBKeeps == ASSUME PeersInv, CallB PROVE PeersInv'
<1> DEFINE out == PA!Out("b", SideB, SideB', b_ret')
<1>1. PA!PairInv(own, SideA, SideB, "a", net, drawn, accepted, TRUE, restarts = 0)
  BY Zenon DEF PeersInv
<1>2. PA!CallMove(SideB, SideB', b_ret')
  <2>1. b_last_sent \in Nat \cup {None} /\ WallClockB \subseteq Nat
    BY <1>1, SideFields, PeersAssumption DEF PA!PairInv, PA!TimesOk
  <2> QED
    BY <2>1, CallsOfB, Zenon DEF CallB
<1>3. /\ Put(out, own["b"]) /\ Accept({}) /\ restarts' = restarts
      /\ SideA' = SideA /\ PA!Drawn(out) \subseteq own["b"] \ drawn
  BY WireSame, Zenon DEF CallB, Put, a_vars, SideA
<1>4. PA!PairSteps(own, SideA, SideB', "a", out, {}, net, drawn, accepted,
                   TRUE, restarts = 0)
  BY <1>1, <1>2, <1>3, PA!PairPeerCalls, TwoSides, AssumptionsOfA, Zenon
<1> QED
  BY <1>3, <1>4, StepKeeps, Zenon

\* A delivery to side b.
LEMMA DeliverBKeeps == ASSUME PeersInv, NEW m \in net, DeliverB(m) PROVE PeersInv'
<1> DEFINE out == PA!Out("b", SideB, SideB', b_ret')
           in == PA!In(b_ret', m)
<1>1. PA!PairInv(own, SideA, SideB, "a", net, drawn, accepted, TRUE, restarts = 0)
  BY Zenon DEF PeersInv
<1>2. PA!DeliverMove(SideB, SideB', b_ret', m)
  <2>1. m.kind \in {"initiation", "response", "transport"}
    BY <1>1, Zenon DEF PA!PairInv, PA!Both, PA!NetInv, PA!MessageInv
  <2>2. PICK clock, remote :
          \/ m.kind = "initiation" /\ B!DecapsulateInitiation(clock, m, FALSE, remote)
          \/ m.kind = "response" /\ B!DecapsulateResponse(clock, m, FALSE, remote)
          \/ m.kind = "transport" /\ B!DecapsulateTransport(clock, m)
    BY <2>1, Zenon DEF DeliverB
  <2> QED
    BY <2>2, DeliveriesOfB, Zenon
<1>3. /\ Put(out, own["b"]) /\ Accept(in) /\ restarts' = restarts /\ m.to = "b"
      /\ SideA' = SideA /\ PA!Drawn(out) \subseteq own["b"] \ drawn
  BY WireSame, Zenon DEF DeliverB, Put, PA!In, a_vars, SideA
<1>4. PA!PairSteps(own, SideA, SideB', "a", out, in, net, drawn, accepted,
                   TRUE, restarts = 0)
  BY <1>1, <1>2, <1>3, PA!PairPeerDelivers, TwoSides, AssumptionsOfA, Zenon
<1> QED
  BY <1>3, <1>4, StepKeeps, Zenon

\* A restart of side b.
LEMMA RestartKeeps == ASSUME PeersInv, Restart PROVE PeersInv'
<1>1. SideA' = SideA /\ net' = net /\ drawn' = drawn /\ accepted' = accepted
      /\ reused' = reused /\ doubled' = doubled
  BY Zenon DEF Restart, a_vars, SideA, history
<1>2. /\ SideB'.previous = None /\ SideB'.current = None /\ SideB'.next = None
      /\ SideB'.inflight = None /\ SideB'.greatest = None /\ SideB'.sent = None
  BY DEF Restart, SideB
<1>3. PA!PairInv(own, SideA, SideB', "a", net, drawn, accepted, TRUE, FALSE)
  BY <1>2, PA!PairRestarts, TwoSides, AssumptionsOfA, Zenon DEF PeersInv
<1>4. restarts' \in Nat /\ (restarts' = 0) = FALSE
  BY DEF PeersInv, Restart
<1> QED
  BY <1>1, <1>3, <1>4, Zenon DEF PeersInv

\* Two tunnels that have sent nothing.
LEMMA PeersStart == ASSUME Init PROVE PeersInv
<1>1. /\ SideA.previous = None /\ SideA.current = None /\ SideA.next = None
      /\ SideA.inflight = None /\ SideA.greatest = None /\ SideA.sent = None
      /\ SideB.previous = None /\ SideB.current = None /\ SideB.next = None
      /\ SideB.inflight = None /\ SideB.greatest = None /\ SideB.sent = None
  BY DEF Init, A!Init, B!Init, SideA, SideB
<1>2. /\ net = {} /\ drawn = {} /\ accepted = {}
      /\ reused = FALSE /\ doubled = FALSE /\ restarts = 0
  BY Zenon DEF Init
<1>3. PA!PairInv(own, SideA, SideB, "a", {}, {}, {}, TRUE, restarts = 0)
  BY <1>1, PA!PairStarts, TwoSides, AssumptionsOfA, Zenon
<1> QED
  BY <1>2, <1>3 DEF PeersInv

\* The invariant holds of all that two tunnels do, whatever the network loses,
\* repeats or reorders, through any number of restarts of side b.
THEOREM PairAlwaysAgrees == Spec => []PeersInv
<1>1. Init => PeersInv
  BY PeersStart
<1>2. ASSUME PeersInv, [Next]_vars PROVE PeersInv'
  <2>1. CASE UNCHANGED vars
    <3>1. /\ SideA' = SideA /\ SideB' = SideB /\ net' = net /\ drawn' = drawn
          /\ accepted' = accepted /\ reused' = reused /\ doubled' = doubled
          /\ restarts' = restarts
      BY <2>1, Zenon DEF vars, a_vars, b_vars, history, SideA, SideB
    <3> QED
      BY <1>2, <3>1, Zenon DEF PeersInv
  <2> QED
    BY <1>2, <2>1, CallAKeeps, CallBKeeps, DeliverAKeeps, DeliverBKeeps, RestartKeeps,
       Zenon DEF Next
<1> QED
  BY <1>1, <1>2, PTL DEF Spec

-----------------------------------------------------------------------------
(* The properties of module Peers *)

\* No key ever encrypts two messages under one counter: each side's counter is
\* above all it has sent under the key of any session it holds
\* (Session::next_counter), and a restart loses the key with the counter.
THEOREM NoncesUnique == Spec => []NonceUnique
<1>1. PeersInv => NonceUnique
  BY Zenon DEF PeersInv, NonceUnique
<1> QED
  BY <1>1, PairAlwaysAgrees, PTL

\* No transport message is accepted twice: what was accepted under a key is in
\* the replay window of the session, in whatever slot it is (replay.rs).
THEOREM NeverDoubled == Spec => []AcceptedOnce
<1>1. PeersInv => AcceptedOnce
  BY Zenon DEF PeersInv, AcceptedOnce
<1> QED
  BY <1>1, PairAlwaysAgrees, PTL

\* The two sides agree on every session they share: roles, indices and the
\* counters used (Session::new, consume_response).
THEOREM SidesAgree == Spec => []SessionsAgree
<1>1. ASSUME PeersInv PROVE SessionsAgree
  <2>1. SessionsA = PA!Held(SideA) /\ SessionsB = PA!Held(SideB)
    BY DEF SessionsA, SessionsB, PA!Held, SideA, SideB
  <2>2. ASSUME NEW s \in PA!Held(SideA), NEW t \in PA!Held(SideB), s.key = t.key
        PROVE  PA!Matches(s, t)
    BY <1>1, <2>2, PA!PairAgrees, TwoSides, AssumptionsOfA, Zenon DEF PeersInv
  <2> QED
    BY <2>1, <2>2, Zenon DEF SessionsAgree, PA!Matches
<1> QED
  BY <1>1, PairAlwaysAgrees, PTL

\* A handshake in flight that was not answered has a timestamp above all the
\* peer has seen, so it is not refused as replayed (Tunnel::send_initiation).
THEOREM InitiationsFresh == Spec => []FreshInitiation
<1>1. ASSUME PeersInv PROVE FreshInitiation
  <2>1. /\ SideA.inflight = a_inflight /\ SideA.sent = a_last_sent
        /\ SideA.greatest = a_greatest
        /\ SideB.inflight = b_inflight /\ SideB.sent = b_last_sent
        /\ SideB.greatest = b_greatest
    BY DEF SideA, SideB
  <2>2. SideA.inflight # None => PA!Fresh(SideA, SideB, net)
    BY <1>1, PA!PairFresh, TwoSides, AssumptionsOfA, Zenon DEF PeersInv
  <2>3. ASSUME SideB.inflight # None, restarts = 0 PROVE PA!Fresh(SideB, SideA, net)
    <3>1. PA!PairInv(own, SideA, SideB, "a", net, drawn, accepted, TRUE, TRUE)
      BY <1>1, <2>3 DEF PeersInv
    <3> QED
      BY <2>3, <3>1, PA!PairPeerFresh, TwoSides, AssumptionsOfA, Zenon
  <2> QED
    BY <2>1, <2>2, <2>3, Zenon DEF FreshInitiation, PA!Fresh
<1> QED
  BY <1>1, PairAlwaysAgrees, PTL

=============================================================================
