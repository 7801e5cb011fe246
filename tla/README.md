# A TLA+ verification of the mesh network

The program is a peer-to-peer encrypted network in Go. Agents register with a
coordinator over an encrypted TCP connection, learn each other's endpoints, and
run a Noise XX handshake over UDP, directly or through a relay. This directory
holds TLA+ models of its components, the TLC runs that check them on small
instances, and TLAPS proofs of the most important results for every value of the
constants. `PROJECT.json` maps every definition to the source lines it models
and lists hazards, runs, mutants, findings and theorems.

## The system

| Part | Source | State | Operations | What makes it correct |
|---|---|---|---|---|
| Replay window | `internal/peer/replay.go` | highest nonce, window start, bitmap, flag for nonce 0 | `Check`, `Commit`, `advance` | no nonce delivered twice, no fresh nonce refused |
| Peer | `internal/peer/peer.go`, `internal/disco` | mode, path, session, cached HS1/HS2/HS3, timers | `Run` (ticker), `HandleFrame`, `Send`, `SetDirectEP` | both sides end in one session; session keys are used once |
| Session | `internal/noisework` | send/receive counters, key epochs | `Send`, `DecryptAt` | nonces never repeat; both directions rekey in step |
| Key file | `internal/noisework` | the file on disk | `LoadOrCreateKeyfile` | all processes share one identity, which is never replaced |
| Relay | `internal/relay` | pins, budgets per source, name and server | `handlePacket`, `take`, `maybeSweep` | pins hold, budgets bound, maps are pruned |
| Coordinator | `internal/coordinator` | registrations, connections | `handleClient`, `broadcast`, `cleanupConn`, `evict` | a name belongs to a key; everyone hears of everyone; nothing leaks |
| Control connection | `internal/control` | Noise session, write lock, deadlines | `WriteMsg`, `ReadMsg`, `Accept`, `Dial` | messages arrive in nonce order; torn connections are closed |
| NAT emulator | `internal/nat` | mapping table, sockets, goroutines | `handleOutbound`, `handleInbound`, `cleanup`, `Close` | only inside traffic opens a mapping; sockets and goroutines end |
| Agent | `internal/agent`, `internal/tun/router.go` | peers and their goroutines, control connection, routes, ping and query waiters | `setup`, `register`, `applyPeers`, `receiveLoop`, `RoutePacket`, `Ping`, `QueryCoordinator`, `Close` | the peer table, the routes and the goroutines agree; a re-registration replaces one connection by one; everything ends |
| STUN, record, protocol, TUN devices, commands | `internal/stun`, ... | little or none | encoding, device I/O, flags | not modelled, see below |

How they interact: an agent's `register` opens a control connection; the
coordinator answers every registration with a `peer_list` broadcast to all
connections; `applyPeers` creates, updates and drops `Peer` objects; each `Peer`
runs its own ticker goroutine and is handed frames by the agent's
`receiveLoop`, which demultiplexes by endpoint or, for relayed packets, by name.
A `Peer` sends through the agent, directly or wrapped for the relay, and an
agent behind a natbox sends everything through the NAT emulator's door.

What is hard here: `Run` and the frame handlers of a `Peer` interleave, and `Run`
acts on a snapshot taken under a lock it has released; UDP loses, repeats and
reorders; handshake attempts of both sides time out independently and their
messages outlive them; coordinator handlers broadcast after unlocking and evict
each other's connections; write deadlines are shared; NAT mappings expire
lazily while two goroutines use them; processes crash between creating the key
file and writing it; an agent's old and new control readers, its receive loop,
the TUN pump and every peer's two goroutines work on objects that a list may
drop and make anew at any moment. The list, with source lines, is `hazards` in `PROJECT.json`.

## Modules

| Module | Models | Run by |
|---|---|---|
| `ReplayWindow` | the bitmap operators of `replay.go`; a word is the set of its one bits, and an index out of range leaves no bitmap (`Panic`) | `MCReplay`, `MCDataPath` |
| `ReplayReceiver` | `onData`'s gate (check, authenticate, commit) and the new window of `setSessionLocked` | `MCReplay` |
| `ReplayGate` | the abstract specification: a gate that remembers every accepted nonce | (refined by `ReplayReceiver`) |
| `DataPath` | one direction between two peers: `Session.Send`, `DecryptAt` with its throwaway rekey, the replay window, the bounded `recv` channel, and the sessions that follow each other at either end | `MCDataPath` |
| `OnceChannel` | the abstract specification: what is handed over was sent, and is handed over once | (refined by `DataPath`) |
| `PeerHandshake` | the two `Peer` objects: `Run`, all frame handlers, both paths, retransmission, path switch, roaming, rotation, restart | `MCPeerHandshake` |
| `PeerHandshakeLive` | `PeerHandshake` on a fair-lossy network: which datagrams are in flight, lost, late or repeated, and when timers run out | `MCHandshakeLive` |
| `SessionOrder` | the abstract specification: each peer goes from session to later session, the initiator first | (refined by `PeerHandshake`) |
| `Keyfile` | `LoadOrCreateKeyfile` by concurrent processes that may crash | `MCKeyfile` |
| `Relay` | `handlePacket` with pins, budgets and sweep | `MCRelay` |
| `Coordinator` | `handleClient` goroutines, the registry, broadcasts and evictions, and what `applyPeers` keeps at the agents | `MCCoordinator` |
| `ControlWrite` | goroutines that write to one control connection; mutex, nonce counter and write deadline | `MCControlWrite` |
| `Nat` | the mapping table, the door, the readers, cleanup and `Close` | `MCNat` |
| `Agent` | one agent: setup, re-registration, control readers, `applyPeers`, the goroutines of its peers, receive loop, TUN routes and pump, ping, query and `Close` | `MCAgent` |
| `ReplayReceiver_proofs`, `DataPath_proofs`, `PeerHandshake_proofs`, `Keyfile_proofs`, `Relay_proofs`, `Coordinator_proofs` (with `ControlWrite`), `Nat_proofs`, `Agent_proofs` | the theorems | |

`DataPath` composes the session with the replay window by extending
`ReplayWindow`; `Coordinator` composes the server with the agents' peer table
(`known`); `Agent` has the same table with the life of every `Peer` object in
it, and takes the coordinator and the handshake as its environment. A definition named like a Go function models that function; a
definition whose comment begins with "Mutant" is the code with a plausible bug,
used to confirm that a property can fail.

How state and actions correspond to the code:

- **PeerHandshake.** A Noise handshake is the pair of ephemerals it mixes.
  `tick[p]` is the position of `Run` in its loop body and the snapshot it acts
  on: `Snapshot` is the locked section at the top, and `forceRehandshake`,
  `resendHS3`, `punchHS1`, `switchMode`, `abandonRoaming`, `retryDirect` are the
  later ones, each a step of its own because each takes the lock anew. `net`
  holds every datagram ever sent; any of them may arrive, any number of times,
  in any order, or never. Timers have no clock: one that is armed may have run
  out whenever it is read, as often as an element of `Fuels` allows. Identity mismatches are not
  modelled (both sides hold the right static keys), and the HS1 budget is a
  loss like any other.
- **PeerHandshakeLive.** `net` alone is too kind for liveness: what is in it
  can always still arrive. Here a datagram is `inFlight` from the `sendFrame`
  that hands it over, for the first time or again, until it arrives or is lost
  (`Lose`, which also stands for frames that are ignored). `network` says what
  kind of network a behaviour runs on: the paths that are dead, whether old
  datagrams may come again (`Replay`), whether the responder's timers run out
  again and again (`Rearm`), and whether the network is timely. On a timely one
  the responder's timers do not run out on a handshake the initiator pursues,
  the initiator's not on one it has just completed, and datagrams of earlier
  attempts are gone when a timer runs out: 3 s and 10 s are six and twenty
  retransmissions. Everything else is free: the initiator's attempt may be over
  while the HS2 is under way, and the responder drops and replaces half-open
  handshakes of attempts that are over whenever it likes.
- **DataPath.** A key is a session and the number of `Rekey` calls applied to
  its cipher state; opening succeeds exactly under the key and nonce of sealing.
  Frames of no key stand for damaged ones. Each end gives up an aged session
  (`forceRehandshake`) and installs the next (`setSessionLocked`) when it likes;
  that no session is installed twice, and that each end goes to later sessions
  only, is `PeerHandshake`'s `KeysInstalledOnce` and `OrderSpec`.
- **Agent.** `main` is the goroutine of `Run`, or of a command, from the STUN
  request to the end of `Close`; `register` is four steps, since the connection
  is closed, dialled, authenticated and used one after the other, and `Close`
  three. `conn[c]` is a control connection with its reader and what it has
  received; a message that was buffered is read even after the socket was
  closed. A `Peer` object is `<<name, n>>`; `applyPeers` is one step under
  `a.mu`. A frame is matched to an object in one step and handled in another, a
  packet is looked up in one and sent in another. `load` is the configuration
  (daemon or command, TUN device, relay) and what may still happen. Overlay
  addresses are distinct, as a sensible configuration has them. A list names
  every peer at most once; a key may fail to parse, which keeps a name that is
  not tracked out of the table and changes nothing for one that is.
  Two guards are bounds and not code: a dial takes one of `MaxConns`
  connections that was not used yet, and a list is applied only if no name
  needs more than `MaxInc` objects. No workload of the run reaches either.
- **Relay, Nat.** Timestamps are ages, capped one beyond the largest threshold
  they are compared with, so that the state space is finite without losing a
  case. The relay's history variable `recent[n][t]` is the number of bytes
  forwarded to `n` in the last `t + 1` ticks.
- **Coordinator.** A handler's position is `pc`; a broadcast is a locked
  snapshot of the connections followed by one step per write, in any order. The
  Noise handshake of a connection is one step. Refused and ignored messages,
  `query`, and the STUN responder change nothing in the registry.
- **ControlWrite.** The socket buffer takes `Room` messages; a write blocks when
  it is full, until the client reads, the deadline passes or the connection is
  closed.
- **Nat.** A datagram is read, looked up under the lock and written in three
  steps; `Close` is three steps, since it takes the lock twice. An ephemeral
  socket is used once. Init chooses any of the three behaviors, so that one run
  covers them all.

## Runs

| Run | Checks | Shows |
|---|---|---|
| `replay` | `NoPanic`, `NoReplay`, `GateSpec` | the sliding bitmap implements the abstract gate, and no access to it is out of range |
| `data_path` | `NonceOnce`, `NeverAhead`, `NextFrameAccepted`, `OnceSpec` | rekeying stays in step through loss, reordering, strays and rotation, up to the last nonce; the direction implements `OnceChannel` |
| `handshake` | `Agreement`, `KeysInstalledOnce`, `PendingHS3IsCurrent`, `DirectSessionKept`, `DirectAgreementKept`, `AnswerIsProof`, `OrderSpec` | safety with timeouts, roaming, rotation, restart and endpoints learned late; the handshake implements `SessionOrder` |
| `handshake_live` | `ConvergesWhenOpen`, `MeetOverRelay` | without timeouts, loss, duplication and delay cannot keep the peers apart, thanks to the retransmissions; with a dead direct path and timeouts on both sides the peers meet on the relay |
| `handshake_half_open` | `HS3Recovers` (violated) | see findings |
| `keyfile` | `OneIdentity`, `IdentityKept` | one identity through races, failures and crashes |
| `relay` | `TypeOK`, `AtMostTwoQuotas`, `PinHeld`, `GrowthIsPruned` | budgets, pins and pruning |
| `coordinator` | `TypeOK`, `NothingLeftBehind`, `EveryoneTold`, `NameHeld` | registry and broadcasts under concurrent handlers |
| `coordinator_reorder` | `EveryoneKnown` (violated) | see findings |
| `control_write` | `InOrder`, `TornIsEvicting`, `TornIsClosed` | one connection shared by broadcasters and repliers |
| `nat` | `SocketOwned`, `FilterExact`, `RunReturns` | filtering, expiry and shutdown of the NAT emulator |
| `agent` | `TypeOK`, `TrackedServed`, `RouteExact`, `NoWaiterLeft`, `ReplacementKept`, `NothingSentOnClosed`, `GoroutinesEnd`, `ControlLoopRuns` | the peer table, its goroutines and routes through re-registration, lists in any order, and `Close` |

A type invariant is checked by a run where it bounds something the code has to
keep within limits (budgets, registrations, connections); those of `ReplayReceiver`,
`PeerHandshake`, `DataPath`, `ControlWrite` and `Nat` are left to the proofs,
which have all of them as part of their inductive invariants.

### Bounds

- `replay`: 5 bits in words of 2, nonces 0 to 11. Slides cross words, the last
  word is partly used, and shifts smaller than, equal to and larger than the
  window all occur; the proof covers every width.
- `data_path`: two sessions, epochs of 2 messages, jumps of one epoch, nonces 0
  to 5 plus the one value that must not be used, one of them a keepalive. The
  sender can be two epochs ahead, beyond what the receiver may follow, and use
  up its nonces; frames of the first session outlive it.
- `handshake`: two ephemerals per side give two concurrent attempts, which is
  what a message of an old attempt needs to meet a new one; `Rare` allows each
  rare event once. The safety theorems hold for any number of them.
- `handshake_live` starts on one of two networks. `Open`: both paths work, old
  datagrams come again, no timer runs out. (With timeouts convergence does not
  hold: see `handshake_half_open` for why.) `DirectDead`: nothing arrives on the
  direct path, the network is timely, the initiator gives up three attempts
  (direct, relay, direct) and the responder any number of half-open handshakes;
  each datagram that is sent arrives at most once, since a network that repeats
  an old HS2 for ever ends every new attempt. Seven ephemerals are as many as
  are ever asked for. `MeetOverRelay` asks for a first agreement, so the
  constraint `UntilAgreed` leaves out what follows it on that network: a
  behaviour that never agrees has no such state.
- `handshake_half_open`: both paths work, nothing is repeated, and the responder
  gives up one half-open handshake; two ephemerals per side.
- `keyfile`: three processes: a creator, a loser of the race and a later
  starter; the proofs cover any number.
- `relay`: two names, two addresses, two ticks to a second, packets below and
  above the quota. Two names are enough for a rival claim; a second can
  straddle two windows. Byte budgets of sources, names and the whole server
  all bind; the packet-rate budgets use the same `take` and are disabled.
- `coordinator`: two connections of one agent (before and after a reconnect)
  and one of another, one register message each; names may collide and the
  registry is full with two.
- `control_write`: two broadcasters, one replier, five messages, a buffer for
  two: full and empty buffers, and a second round after a torn write.
- `nat`: three addresses of two IPs (same IP, other port), TTL of one tick, two
  ephemeral sockets: expiry, re-creation and exhaustion all happen.
- `agent`: six workloads, one per group of questions, each an initial state: a
  re-registration with two lists and a lost connection; two queries across a
  re-registration; two peers listed and dropped with a TUN device; one peer
  listed, dropped and listed again, with a packet under way; three lists with
  and without endpoints, with keys that do not parse, and no relay; three frames and two pings while the peer
  is listed and dropped. Two connections are what the race between an old
  reader and its replacement needs, two objects per name what a late frame for
  a dropped object needs. The `recv` channel takes one payload, so that it is
  full.

`coordinator*`, `control_write` and `agent` switch deadlock checking off:
clients need not send anything, an agent that is closed has nothing more to do,
and the bounds on messages let the system come to rest.

### Fairness

- `PeerHandshakeLive`: the ticker goroutine keeps running (WF of `LiveRun`); HS1
  or HS3 is due again every 500 ms, and an attempt or a half-open handshake that
  outlasts its timer is given up (SF of `Retransmit` and `Expire`, since other
  steps of the tick intervene). The network is fair-lossy: SF of
  `Delivered(type)` says that some of the datagrams of a type arrive if they are
  put in flight over and over. A datagram that is sent once, or any bounded
  number of times, may be lost; nothing is assumed of DATA frames. Without the
  retransmission of HS3 (the mutant `RetransmitHS1Only`) `ConvergesWhenOpen`
  fails.
- `ControlWrite`: goroutines run and a deadline that stays set passes; nothing
  is assumed of the client, which may stop reading for ever.
- `Agent`: goroutines that can run do run (the main goroutine, control readers,
  both goroutines of a peer, receive loop, TUN pump). Nothing is assumed of the
  coordinator, of arriving frames, of when the context is done, or of whether
  anybody pings or queries.
- `Nat`: goroutines run; nothing is assumed of arriving datagrams, of the clock
  or of when `Close` is called.

## Findings

- **`handshake_half_open`.** The initiator is established and re-emits HS3, but
  the responder's half-open timeout (`peer.go:273`) discards the handshake that
  HS3 would complete. The initiator sends no HS1 until its session is
  `sessionMaxAge` old. `docs/THREAT_MODEL.md` calls a responder left half-open
  for up to 24 h mitigated.
- **`coordinator_reorder`.** Lists are assembled under the lock and written after
  it (`coordinator.go:364`). Two broadcasts can overtake each other; the older
  one, delivered last, makes `applyPeers` drop a live peer until the next
  broadcast.

Other disagreements met while modelling, for which no run is kept:

- `broadcast` clears the write deadline after releasing the write lock
  (`coordinator.go:424`), so another broadcaster, blocked by then, has no
  deadline any more, although `broadcastWriteDeadline` "bounds how long a
  control-plane write may block".
- Nonce 0 is outside the window (`replay.go:33`): it is accepted however old.
- A stale HS3 makes `onHS3` drop the half-open handshake in progress
  (`peer.go:651`).
- A tick finds its peer not established; before it comes to `switchMode`
  (`peer.go:303`), HS2 arrives and the session is installed. `switchMode` does
  not look again and clears the cached HS3, although `Run` is meant to "keep
  re-emitting it until the responder proves it holds the session keys"
  (`peer.go:291`). `AnswerIsProof` therefore speaks of an HS3 that stays cached.
- A process that lost the creation race of the key file may read it before the
  winner has written its key. That reads as corrupt, not as missing, and only a
  missing file is retried (`noisework.go:59`), although the loop is there "in
  case it was still mid-write when we observed it". `RetryReadsOnce` proves that
  it never gets to a second read.
- A responder that restarts is not noticed by its initiator before
  `sessionMaxAge` (`peer.go:321`).
- Budgets are fixed windows: two quotas can pass within one second
  (`relay.go:360`); that it is never more than two is `AtMostTwoQuotas`.
- A connection that registers two IDs leaves the first behind when it closes
  (`coordinator.go:351`). The agent never does so, and the `coordinator` run
  gives each connection one.
- `Close` of an agent "releases every resource [...] and all peer goroutines"
  (`agent.go:542`), but a peer that a late list adds after the sweep, and the
  receive loop, which retries its read on the closed socket without a pause,
  go on until the context is done as well. `GoroutinesEnd` therefore speaks of
  an agent whose context is done; the commands cancel theirs when they return.
- The re-registration every 30 s closes the old connection before the new one
  is registered (`agent.go:207`). The coordinator releases the name, and the
  next registration of anybody else in that gap sends out a list without it:
  every agent drops the peer and its session, while the re-registering agent
  keeps its side of it. `applyPeers` means re-registrations to be harmless: "the
  session survives across endpoint changes".
- A peer that comes back under the same name with another key while a list in
  between was missed keeps its old key at the others: `applyPeers` refreshes the
  endpoint of a tracked peer, not its key (`agent.go:313`).
- A query that times out leaves its late answer to the next query, which drains
  `queryCh` before it sends and then takes whatever comes first
  (`status.go:109`).
- A peer that was listed without an endpoint, with no relay configured, is
  tracked but has no goroutine (`peer.go:242`), and an endpoint learned later
  does not start one.
- `handlePeerPayload` reads `a.bridge` without the lock under which
  `attachBridge` writes it (`agent.go:385`).
- A connection that was accepted but is not in `clients` yet is missed by the
  coordinator's `Close` (`coordinator.go:137`), although it is tracked "from the
  start so Close() can abort mid-handshake sockets".
- Sessions that fall more than `maxEpochJump` epochs behind "are re-established
  instead" (`noisework.go:155`): nothing but the age limit does so.
- A global budget drop at the relay comes before the pin is refreshed
  (`relay.go:294`): under overload the pin of a live holder ages out.
- A fixed NAT socket is closed twice, by `Close` and as its mapping's socket, so
  that `Close` of a box that has a mapping returns an error (`nat.go:377`).

## Proofs

The theorems hold for every value of the constants. They use only the
assumptions on constants that the component modules state, with one exception:
`NothingLeft` also assumes `OneName` (below). An assumption is either the type
of a constant or says that a set is finite (`Names` and `Addrs` of the relay),
that overlay addresses are distinct, or that the marker `Nobody` is no writer. Each module proves `Invariance`
(`Spec => []IInv`) for an inductive invariant `IInv` and derives the rest from
it; action properties follow from `IInv` before the step and, if needed, after.

- **`ReplayReceiver_proofs`** (any window width, word width and set of nonces).
  `NoReplay` is not inductive: it needs to know what the bits mean. `IInv` is
  `Tracks(w, accepted)`: bit `idx` is set exactly if nonce `start + idx` was
  accepted, and no accepted nonce exceeds `max`. The arithmetic core is
  `SlideBit`: after a slide by `shift`, bit `idx` is the former bit
  `idx + shift`, across words. From it `CheckIsFresh` (the bitmap answers like
  the set) and `CommitTracks` follow, and with them `NeverPanics` (`max` is
  less than a window above `start`, and the slice has room for a window),
  `NeverReplayed` and `Refinement` (the bitmap implements `ReplayGate`).
- **`DataPath_proofs`** (any epoch length, jump limit, counter width, channel
  capacity, window and number of sessions): `TypeOK`, `NonceOnce`, `NeverAhead`,
  `NextFrameAccepted` and the refinement of `OnceChannel`. The window lemmas of
  `ReplayReceiver_proofs` are reused through an instance, `Win`. `SenderInv`
  says that the sending key is that of the last nonce used and that every
  sealed frame carries the key of its nonce; `ReceiverInv` that the receiver's
  epoch is that of a frame which was sent, and that its window tracks some set
  of sent nonces containing everything handed over in this session
  (`WindowInv`). The set is existential because the window also tracks
  keepalives and payloads dropped at a full channel, which no variable records.
- **`PeerHandshake_proofs`** (any number of ephemerals, timeouts, rotations,
  restarts, either path or both). `Agreement` and `KeysInstalledOnce` need that
  nothing in flight mentions an ephemeral not generated yet (`Bounded`), that an
  HS3 exists only for a session the initiator installed (`Completed`), that a
  responder's ephemeral answers one HS1 (`OneAnswer`), and that an
  unfinished handshake's ephemeral is in no installed session
  (`InitiatorOnce`, `ResponderOnce`). `IInv` is their conjunction with
  `TypeOK`. Most actions are `QuietStep`s: they install nothing and only
  forget; four lemmas treat the steps that create or install.
  `PendingHS3IsCurrent` and `DirectSessionKept` rest on `SessionInv`: `onHS3`
  does not look at the session it replaces, so what protects a direct session
  is that no half-open handshake exists beside one. The refinement of
  `SessionOrder` (`SessionsInOrder`) needs `OrderInv`: the initiator waits for an
  answer to its latest attempt only, and whatever the responder offers comes
  after all the initiator installed from earlier attempts. `NextKinds` sorts the
  steps by what they do to this order (forget, attempt, answer, install at
  either side), so that each new result treats five cases instead of every
  action. `DirectAgreementKept`, the safety half of convergence, adds
  `LatestInv`: a half-open handshake or a direct session at the responder is its
  latest offer, so that an attempt the initiator starts beside a shared session
  is never answered. `AnswerIsProof` needs `DataInv`: a data frame exists only
  of a session its sender installed.
- **`Keyfile_proofs`** (any set of processes and retries). `IInv` adds to
  `OneIdentity` that at most one process is writing, and only while the file is
  there without its key. `SharedIdentity` and `KeyIsFinal` follow.
  `RetryReadsOnce` shows that the retry loop never gets to a second read, for
  any number of retries: whoever is in it lost to a file that is never removed,
  so that the one error it waits out cannot occur.
- **`Relay_proofs`** (any finite sets of names and addresses, any budgets,
  enabled or not, any window, grace period and threshold): `TypeOK` (no counter
  exceeds its cap), `PinHeld`, `GrowthIsPruned`, `AtMostTwoQuotas`. `PruneInv`
  bounds the age of every entry by the time since the last sweep, until the
  next may come. `AtMostTwoQuotas` needs `QuotaInv`: a name's counter accounts
  for everything forwarded since its window opened, leaves at most one more
  quota from before, and once the window was over nothing was forwarded until
  the next opened, nor does the sweep forget a counter that still accounts for
  something.
- **`Coordinator_proofs`** (any connections, names, keys, registry cap and
  number of messages): `TypeOK`, `EveryoneTold`, `NameHeld`. For `EveryoneTold`,
  `ToldInv` says that of two live clients each was told of the other or some
  handler still has a list with the other on its way. `NothingLeftBehind` is
  proved under `OneName`: a connection registers one name, which is what
  `agent.register` does. Without it the property is false (the two-ID case under
  findings); `LeftInv` adds that the owner of a name is tracked with it.
  The same module extends **`ControlWrite`**, whose names differ from the
  coordinator's for that reason, and proves `ConnTypeOK`, `InOrder` and
  `TornIsEvicting` for any number of writers. For `InOrder`, `ControlInv` adds
  that whoever holds the mutex is writing the message encrypted last
  (`HolderInv`), and that on an open connection everything encrypted before it
  is on the wire (`WireInv`). `TornIsEvicting` is the safety half of
  `TornIsClosed`: a torn connection that is still open has an eviction pending.
- **`Nat_proofs`** (any addresses, TTL and number of sockets): `TypeOK`,
  `SocketOwned`, `FilterExact`. The filter is compared with the host's own
  traffic, so `AgeInv` ties the age of every mapping to the time since the host
  last sent through it, and `MetInv` the contacts of a restricted mapping to
  the hosts met since it was created. `EntryInv`, `OwnedInv` and `UnusedInv`
  say which sockets mappings may have.
- **`Agent_proofs`** (any mesh, workload, channel capacity and bounds):
  `TypeOK`, `TrackedServed`, `RouteExact`, `NoWaiterLeft`,
  `NothingSentOnClosed`, `ReplacementKept`. `IInv` has one part per group of
  variables. `CtrlInv`: only the installed connection is open, and none while
  `register` dials. `TableInv` adds to `TrackedServed` that the context of
  a tracked peer is cancelled only once its `Run` has ended, which happens only
  to a peer whose `Run` found neither an endpoint nor a relay. `PingInv`: the one waiter is that of
  the ping in flight until its answer is there.

Only model-checked: all liveness (`ConvergesWhenOpen`, `MeetOverRelay`, `TornIsClosed`,
`RunReturns`, `GoroutinesEnd`, `ControlLoopRuns`), which is out of the prover's
reach. Every invariant and action property of the passing runs has a theorem.
The two violated properties (`HS3Recovers`, `EveryoneKnown`) have
counterexamples instead.

## Not modelled

- The record layer, the JSON protocol, relay and NAT envelopes: stateless
  encodings.
- STUN: one stateless request and response, of which the agent's setup sees
  success or failure (`Agent`'s `Stun`).
- TUN devices and the commands: I/O, flags and printing. The router's table and
  its use are in `Agent`; its check of an IPv4 header reads bytes only.
- The coordinator's `New`, `Run` and `Close`: they open and close sockets and
  leave the registry alone.
- The Noise primitives: external; modelled by which messages open.
- Statistics counters, RTT histories and logging.

## Plan

1. `Agent` composed with `Coordinator`, so that the loss of a session through
   the re-registration gap can be stated over both.
2. The coordinator's shutdown.
3. Proofs of what such a composition promises.
