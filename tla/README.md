# A TLA+ model of wireguard-sans-io

wireguard-sans-io is a WireGuard endpoint without I/O: a `Tunnel` to one peer is
a plain value, and its caller supplies datagrams, clock readings, entropy, an
output buffer and a load signal, and asks it when to be called again. The `embed`
crate wraps it for programs: an adapter with a packet queue, a rate limiter, a
buffer pool and a tokio driver. This directory holds TLA+ modules of these parts,
the TLC runs that check them on small instances, and proofs checked by TLAPS that
hold for every value of the constants. `PROJECT.json` maps every definition to the
lines it models. Paths below are relative to the repository's root.

## The system and its parts

| Part | Source | Module | State |
|---|---|---|---|
| Tunnel: session slots, handshake in flight, poll, next_wake | `src/tunnel.rs` | `Tunnel` | modelled, but for statistics |
| Timers | `src/timers.rs` | `Timers` | modelled |
| Session: key, counters, age, confirmation | `src/session.rs` | `Session` | modelled |
| Anti-replay window | `src/replay.rs` | `ReplayWindow`, `Replay` | modelled |
| Cookies: jar, rotation, mac2 | `src/cookie.rs` | `Cookie` | modelled |
| CookieChecker: the gate in front of several peers, nonces of its replies | `src/cookie.rs` | `CookieGate` | modelled |
| Noise handshake | `src/noise.rs` | `NoiseTerms`, `Noise` | modelled over terms |
| Ticks, TAI64N; constants; errors | `src/time.rs`, `consts.rs`, `error.rs` | `Time`, `Consts`, `Tunnel` | modelled |
| Message codec and padding | `src/message.rs`, `src/tunnel.rs` | `Message` | modelled |
| Two endpoints and a network | | `Wire`, `Peers` | composition |
| Tunn: packet queue and drain | `embed/src/lib.rs` | `Tunn`, `PacketQueue` | modelled, but for accessors and address encoding |
| AsyncTunn, the tokio driver | `embed/src/tokio.rs` | `AsyncTunn`, `PollLoop` | modelled |
| SlabPool | `embed/src/buffer.rs` | `AsyncTunn` | counts only |
| RateLimiter | `embed/src/rate_limiter.rs` | `RateLimiter` | modelled |
| Crypto primitives | `src/crypto/` | `Poly1305`, `Fe25519`, `X25519`, `ChaChaPermute`, `ChaCha20`, `Blake2s`, `Kdf`, `Aead` | scaled or symbolic |
| SIMD kernels | `simd/src/` | `ChaChaPermute`, `ChaCha20` | scaled |
| Keys, entropy sources, test support | `src/keys.rs`, `entropy.rs`, `testing.rs` | none | see the end |

A datagram enters through `decapsulate` (handshake messages, cookie replies,
transport data), application data through `encapsulate`, and time through `poll`.
`encapsulate` and `poll` start handshakes (`initiate_handshake` does on request),
`decapsulate` answers and completes them. A completed handshake
yields a session in one of three slots: an initiator's in `current`, a
responder's in `next` until the peer's first transport message proves it has the
key, when `next` becomes `current` and `current` becomes `previous`. `next_wake`
announces the next instant at which `poll` may act; it reads the same timers and
slots as `poll`, by separate code, and the two must agree.

`Tunn` puts a queue in front: packets sent while there is no session wait, and are
drained by calls of `decapsulate` with an empty datagram once `queue_drainable` is
set. `AsyncTunn::run` selects between the socket, a channel from the TUN reader and
the sleep until `next_wake`, and delivers to the TUN writer through a second
channel. All buffers come from one pool.

## Modules

`Consts` declares the protocol constants, with the relations the source gives
them. `Time` has saturating `Ticks` (`MAX_TICKS` stands for `u64::MAX`), `Option`
arithmetic and the whitened, ratcheted TAI64N timestamp. `Timers`, `Session`,
`Cookie` and `Noise` define records and one operator per method of the source.

`Tunnel` has the mutable fields of `struct Tunnel` as variables and one action per
public method: `Encapsulate`, `DecapsulateInitiation`, `DecapsulateResponse`,
`DecapsulateCookieReply`, `DecapsulateTransport`, `DecapsulateMalformed`, `Poll`,
`InitiateHandshake` and `Reset`. `ret` is the value the last call returned.
Entropy, buffer size and jitter are chosen inside an action, and so are their
failures. A failing call keeps the assignments the code makes before the failure:
`LocalErrors` in `send_initiation` still assigns the timers it was given. The
peer is any environment: `Next` offers every datagram over the constant sets, at
every reading of the clock, backwards ones included (`clamp_now`).

`Peers` has two instances of `Tunnel`, each with its own variables and clock, and
`net`, the set of all datagrams sent; `Wire` has the datagram a call puts there. A delivery takes any member of `net` and
leaves it there, so datagrams are lost, repeated and overtaken. Side b may restart
with nothing kept. Ephemerals are never drawn twice.

`Tunn` extends `Tunnel` with the queue. A call of the tunnel and what the adapter
does with its answer are one step, except that a completed handshake goes on to poll
for the confirming keepalive, and failing that to drain, before any other call
(`stage`). Packets are
numbered, and `sent` records those encrypted. `PacketQueue` is the abstract
specification of that queue. `PollLoop` runs `Tunn` in the driver's loop. Its timer
arm starts once `quiet`, when nothing arrives any more.

`AsyncTunn` is the driver seen from outside the tunnel: the select loop with its
waits, the two bounded channels, the TUN tasks, which may stop at any point, and
the pool. `Tunn` is replaced by `PacketQueue`, which it implements, and by the kind
of its result. `RateLimiter` gives each thread a program counter and makes one
step of each atomic operation and each reading of the clock.

`ReplayWindow` is the ring bitmap, with the set of all accepted counters as history;
`Replay` says what that set answers, and `Tunnel` uses it. `CookieGate` puts an
initiator behind each remote address of a `CookieChecker`. It also has the three-word
nonce counter of the cookie replies, its seed and its carries; the jar inside `Tunnel`
goes without, since no other state depends on it.

The primitives are operators. `Poly1305`, `Fe25519`, `X25519` and `ChaCha20` keep
the limbs, carries, lanes, strides and tails of the code over smaller words: the
limbs take their size as a parameter, a ChaCha20 word has four bytes of two bits.
`ChaChaPermute` is instantiated once for each backend, with its addition and its
rotations. `Poly1305` starts from a clamped key. `Blake2s` keeps
buffering, counter and flag, and its compression is a term, as are the outputs of
`Kdf`, the cells of `Aead` and everything in `NoiseTerms`. `NoiseTerms` has the
transcript twice, once for each side, as the code does. `Message` has the real
offsets and lengths.

`Calls` makes a state machine of such operators: a state is one call with its
arguments. `FieldCalls`, `MessageCalls` and `NoiseCalls` say which arguments the types
of the code admit, as assumptions on constants, and what every call must satisfy;
`MCPrimitives` gives the constants small values, and the proofs leave them open.

Data is abstract elsewhere. Indices and ephemerals are model values. A session key
is named by the two ephemerals that made it; a mac2 by the cookie that keys it; a
cookie by the number of its secret and the remote address. A datagram carries
the check it fails, if any. `InvalidPublicKey` on the receive path is counted
as `AuthFailure`. A jitter draw that fails gives jitter 0, as in the code. Clock
readings stay below `u64::MAX`, where every deadline would be the present.

## Runs

| Run | Instance | Shows |
|---|---|---|
| `tunnel` | initiator, traffic both ways, jitter | `TypeOK`; after Idle, `next_wake` is in the future (`IdleNeverBusy`), and it is never late (`NoLateWake`) |
| `slots` | both roles, persistent keepalive of 2 | `ConfirmedByPeer`, `IndicesDistinct`; initiations at least REKEY_TIMEOUT apart (`PacedInitiations`); an unanswered attempt ends (`AttemptBounded`); `IdleNeverBusy` through revival and back-off |
| `load` | load signal, cookies, datagrams failing each check | an unprimed cookie secret authenticates nothing (`UnprimedSecretRefused`) |
| `loop` | the adapter: three calls, then the timers alone | the queue implements `PacketQueue` (`QueueImplements`); a drain is carried through (`DrainServed`); at most three polls in a row have work (`PollDrains`); every key is wiped in the end (`KeysWiped`) |
| `peers` | one ephemeral of a, two of b, one restart of b | `NonceUnique`, `AcceptedOnce`, `SessionsAgree`, and a fresh initiation is not refused as replayed (`FreshInitiation`) |
| `replay` | window of 4 in 3 words of 2 bits, 15 counters | `check` agrees with the reference at every counter (`CheckAgrees`) |
| `gate` | two remotes, three lifetimes | a cookie is honoured for its lifetime (`CookieHonoured`); no two replies have one nonce (`ReplyNonceFresh`) |
| `limiter` | three threads, two and a half periods, one `reset` | admissions bounded by resets, resets by time (`AdmissionBounded`) |
| `async` | channels of 1, queue of 2, three packets and datagrams | no buffer is lost (`BuffersAccounted`), and all come back (`BuffersReturned`) |
| `primitives` | one state per input | the algorithms agree with reference definitions (below) |

Bounds. Durations are scaled to 1..3 ticks with the order of the source kept, and
each clock set holds instants at which the deadlines fall: `tunnel` uses 0, 1, 3
and 12 (keepalive and pacing at 1, reject and a dead peer since 1 at 3, discard
past 9), `slots` 0, 2 and 4. Message limits are 1 and 2, so both are crossed. Four
indices let three slots and a handshake in flight compete (`slots`); with the two
of `load` the draw also runs out. One ephemeral is used outside `peers`: the
properties checked do not tell keys apart by it. `slots` and `load` have a
`MAX_TICKS` of 6, so deadlines saturate. In `peers` three ephemerals allow a
handshake, a crossing one and a second one of b, or one after its restart; b's wall
clock may stand still, which is when the ratchet works. A queue of two packets and
a limit of two let the queue hold more than the head. `async` has channels of one
buffer, so both sides wait; in `gate` the words of the nonce counter have one bit, so
it carries through all three and is used up; `KnownAddress` is FALSE, and the address is learnt from
the first authentic datagram. The views drop variables that no guard of the
instance reads; symmetry permutes values that are only compared, and is not used
for liveness. Of the variables a view hides the `TypeOK` run sees one
representative; the theorem `TypeCorrect` has no such gap.

Primitives. `TagCorrect`: five limbs of 6 bits, messages up to 9 bytes in blocks of
4, cut in three anywhere, against the polynomial modulo the prime. `FieldOps`,
`Canonical`: five limbs of 4 bits modulo 2^20 - 5, on limbs not fully reduced.
`InvertChain`: the exponent of the addition chain is p - 2 modulo sixty numbers
whose least common multiple exceeds 2^256, so it is p - 2. `LadderCorrect`,
`SecretsAgree`, `LowOrderRefused`: the ladder on a curve over 61 elements with
cofactors 8 and 4 as the real one, all scalars and points, against the group law.
`BackendsAgree`: words of four 2-bit bytes, lengths on both sides of
every stride, counters that wrap. `DigestOfMessage`: every cut of messages up to 9
bytes, blocks of 4, keyed and not. `KdfSeparates`, `SealedOpens`,
`TamperedRefused`, `KeysAgree`: terms, with every set of fields of a handshake
replaced. `BuiltParses`: all kinds, buffer sizes around every length, and datagrams
too short for a type.
`PacketSurvives`: IPv4, IPv6 and other payloads up to 60 bytes through `encapsulate`
and `decapsulate`, with and without an MTU.

Fairness. `loop` assumes weak fairness of `Turn`: the runtime fires an elapsed sleep
and runs an arm to its end. It assumes nothing of the peer or the application.
`async` assumes weak fairness of the driver and of the TUN tasks' sends, receives
and drops: the runtime polls a task that is ready. Nobody need close, fail or send.
Datagrams are finitely many there: the select is biased towards the socket, and an
unending stream of datagrams would keep the other arms waiting. The deadlock check
is off in these two, since a tunnel with nothing armed rightly sleeps for ever, and
a driver that has returned takes no more steps.

### Disagreements with the documentation

Two runs are expected to fail. Each states what a document says, and TLC shows a
behaviour of the code that differs.

* `stuck_queue`: `embed/src/lib.rs:206` says to drain the queue with empty datagrams
  "after the handshake completes". A packet is queued while the peer's handshake,
  answered by us, is also under way; the peer's first data message confirms that
  session and ends our own attempt. `queue_drainable` is set only when our own
  handshake completes, so the drain answers Done and the packet stays queued, though
  the session is usable, until a later handshake of ours completes.
* `spin`: `EMBEDDER_OBLIGATIONS.md:302` says an embedder must not busy-spin when
  `next_wake()` is in the past, and should poll at once. Without a peer address the
  timer arm of `AsyncTunn::run` continues without calling `update_timers`, so the
  deadline stays in the past and the loop turns on it until a datagram arrives.

Three more are stated here without a run.

* `src/time.rs:69-72` says that a backwards step of the wall clock "makes the peer
  reject our initiations as ReplayedTimestamp until the clock catches up", and
  `EMBEDDER_OBLIGATIONS.md:83-88` that after a step far into the future and back "every
  subsequent initiation we send is rejected". The ratchet at `src/tunnel.rs:1119-1127`
  sends the successor of the last timestamp whenever the clock does not exceed it, so
  the peer accepts it however the clock moved. `FreshInitiation` is that, checked and
  proved. What the documents describe can happen only after the sender has dropped its
  `Tunnel` and with it `last_sent_tai64n`; hence `restarts = 0` in the property.
* `EMBEDDER_OBLIGATIONS.md:240` says of undersized buffers that "no state is mutated
  and the call may be retried". The call may be retried, but `encapsulate` has by then
  cleared `gave_up` and `attempt_started` (`src/tunnel.rs:467-476`), and so has `poll`
  when it revives a persistent keepalive (`src/tunnel.rs:835-837`). The actions keep
  these assignments, and `PacedInitiations` and `AttemptBounded` hold with them.
* `next_wake` can be late with a persistent keepalive, though its comment
  (`src/tunnel.rs:846`) calls it "the earliest instant at which `Tunnel::poll` may have
  work".

`NoLateWake` is checked without a persistent keepalive. With one it does not hold:
`next_wake` judges the session at the last call, and when the session expires before
the next keepalive, `poll` has work earlier.

## Proofs

All proofs are for every value of the constants allowed by the named assumptions
of the modules. Each invariant is proved inductive from `Init` and step by step.

* `TunnelProofs`: `TypeCorrect`, with a typing lemma per operator and per action, and
  `ZeroSecretRefused`. The latter needs `JarDrawn`, that a primed jar's secret and a
  previous one it would use were drawn; only `build_cookie_reply` moves the jar.
  `PeerConfirmsSessions` and `IndexNamesOneSlot` are proved together, relative to
  `TypeOK`: promotion keeps indices apart only because `next` was apart from
  `current` and `previous`, and confirmed sessions come only from `next` or from a
  response.
* `LoopProofs`, on the timers, `next_wake`, the adapter and the driver's loop.
  `AlwaysPaced` establishes `TimersPaced`: the retransmission deadline lies between
  REKEY_TIMEOUT and REKEY_TIMEOUT plus jitter after the last initiation, a handshake
  in flight has one, and the last initiation left inside the attempt window.
  `InitiationsPaced` needs it for retransmissions, which do not consult the pacing
  check; `AttemptsEnd` for its bound. `IdleMeansQuiet` goes through `IdleState`, what
  an Idle poll leaves: each component of `next_wake` is then strictly later.
  `WakesAnnounced` is the other half: no branch of `poll` has work before
  `next_wake`, but for the revival named under the runs; `NeverLate` follows without
  a persistent keepalive. It rests on `AlwaysConfirmed` (`ConfirmsPaced`): a rekey
  that is wanted may leave at once, or no keepalive is due that it would hide, since
  `next_wake` and `poll` rank the two differently. That in turn needs
  `RecvAssumption` of `Consts`, true of the code's 5 s and 165 s.
  `QueueKept` is the refinement of `PacketQueue` by `Tunn`: every step of the adapter
  is an arrival, a drain of the head, a flush, or leaves the queue alone.
  `QueueServed`: the loop comes back to its select only with the drain done.
  `BurstEnds` counts the datagrams of one wake with `BurstInv`: after an initiation
  pacing forbids the next, after a keepalive nothing is owed, so there are at most two. A turn of the loop takes
  at most a tick there, so it assumes that three ticks fit in REKEY_TIMEOUT and in
  the persistent interval, 5 s and at least 1 s in the code.
* `SideProofs` and `PeersProofs`, on two endpoints. `Moves` has the five things a call
  can do to slots and timestamps: nothing, start, answer or complete a handshake,
  send, accept. `SideProofs` shows that each operation of `Tunnel` is such a move
  (`MovesOfCall`, `MovesOfDelivery`) and that each move keeps `PairInv`. It speaks of
  one side and its peer by parameters and serves both sides. `PairInv` says of every
  session held that its key names an ephemeral of each side in the place of its role;
  that its counter is above all sent under the key in its direction; that its replay
  state has all that was accepted and only what the peer sent; and that the response
  that made it carried its indices. Slots never share a key, and the ephemeral in
  flight has made no session yet: without that, a repeated response could make a
  second session with the key of a first, and counter 0 would be used again. Of
  timestamps it says that the last one sent bounds all sent, and that the greatest
  seen came with an initiation that was answered; the former is lost when side b
  restarts, so `FreshInitiation` asks it of b only before. `PairAlwaysAgrees` is the
  invariant of `Peers`; `NoncesUnique`, `NeverDoubled`, `SidesAgree` and
  `InitiationsFresh` follow, for any number of ephemerals, indices, instants and
  restarts. `PeersAssumption` asks that the two sides draw different ephemerals, and
  of each side's inputs what `Tunnel` asks.
* `WordProofs`, on arithmetic in machine words. `WindowRemembers`: the ring bitmap
  marks exactly the counters accepted inside the window. The invariant also covers the
  counters above the greatest that share its word, since the word is cleared when the
  ring enters it and not again; the argument on division and remainder is in lemmas of
  its own. `WindowTypeCorrect` and `CheckAlwaysAgrees` follow. `LadderStepInBounds`: the operations on field elements,
  for limbs of 20 bits and more, the 51 of the code included, keep within their bounds
  through a ladder step, so nothing wraps. The values are those of the field:
  `FieldAlwaysComputes` (any five limbs, any limb size above 7, any fold below it) by
  carrying (`CarryValue`: a carry chain changes the value by a multiple of p) and by
  the columns of a product written as one polynomial; `EncodingAlwaysCanonical`, since after
  one carry the value is below 2p and `exceeds` is exactly whether it reaches p;
  `LadderStepComputes`: a ladder step on limbs maps to the step on residues.
* `MessageProofs`, on the AEAD's use of buffers and on the codec, for all bytes and
  lengths. `SealsAlwaysOpen` and `TamperingAlwaysRefused`: the tag is a term, so the argument
  is that what is authenticated determines key, nonce, additional data and ciphertext,
  the padded lengths included. `BuiltAlwaysParses` puts each message together from its
  parts and takes it apart again at the parser's offsets; indices are u32 and counters
  u64, in little-endian bytes (`IndexSurvives`, `CounterSurvives`). `PacketsAlwaysArrive` goes
  through padding, header, sealing, parsing, opening and trimming. It asks that the
  payload is as long as its IP header says, or that its header says nothing: a payload
  with more behind the end it claims is cut there by design.
* `NoiseProofs`, on the handshake. `HandshakesAlwaysAgree`, for all static and preshared keys
  and every mixture of two initiations and of two responses, by freeness of the terms:
  equal chaining keys or hashes have equal histories, and the two sides' transcripts of
  one handshake are equal (`Psk2Alike`). `DerivationsAlwaysSeparate`, for inputs
  of any length and keys of equal length (HMAC pads keys with zeros, so keys that differ
  in trailing zeros would meet; all of the code's have 32 bytes). The hash is taken to
  be injective, byte by byte (`Digest`), and a digest to fit in a block, as 32 bytes do
  in the code's 64.
* `HostProofs`, on what stands around a tunnel. `GateTypeCorrect` and
  `LifetimeHonoured`, by `AgeByRank`: a cookie two secrets old was minted a lifetime
  before the last rotation. `ReplyNoncesFresh`, for words of any size: `NextRank`
  shows that the carries count, and the invariant `NoncesCounted` that the nonces used
  are the numbers from the seed up to the counter, around the end. `LimiterHolds`, for any finite number of threads. A thread
  that won the compare_exchange and has not yet stored zero still owes a reset: the
  invariant counts those winners into the windows passed. `NoBufferLost`: the invariant
  adds that the counts are naturals and the queue a sequence.

Only model-checked. Liveness is out of the prover's reach: `KeysWiped`,
`BuffersReturned`. So is what a loop over the bytes or bits of its input computes:
`TagCorrect`, `InvertChain`, `BackendsAgree`, `DigestOfMessage`.
`LadderCorrect`, `SecretsAgree` and `LowOrderRefused` need the group law of the curve.
`NoLateWake` with a persistent keepalive is false, as said above; `WakesInTime`, which
is proved, is what remains of it.

## Not modelled

* The compression function of BLAKE2s: 32-bit arithmetic with nothing to compare it
  with but itself. The other primitives are checked at a smaller size than the code's,
  but for the field arithmetic of `WordProofs` and the lengths in `Message`.
* HChaCha20, the subkey of XChaCha20, is a term in `Aead`, and the clamping of
  Poly1305's key is done by whoever gives `Poly1305` its key: masks and a permutation
  without state.
* Wiping of secrets and constant-time execution: not visible in the values computed.
* Statistics other than `last_handshake_at`; the accessors of `Tunnel` and `Tunn`; the
  encoding of socket addresses.
* Keys and entropy sources: containers and I/O. A draw is a choice, its failure an
  outcome of the action that draws.
* Contents and growth of pooled slabs; a poisoned lock.
* Test support, examples, benches and fuzz targets.
