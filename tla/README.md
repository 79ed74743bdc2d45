# Group Protocol Stack: TLA+ models and proofs

This directory models the Group Protocol Stack: the GBP node and the MLS context
it is bound to, the text, audio and signalling clients above them, media
encryption, transports, codecs and the C and browser bindings, together with the
way the stack's tests and documents have applications drive them. TLC
model-checks the models on small instances; TLAPS proves the main safety
properties of the control plane, the election, the application streams, the
binding of GBP to MLS epochs, the text, audio and signalling clients, the media
keys, the C ABI, attachments, capabilities, codecs and bindings for every value
of the constants.

## 1. The system

A member of a group runs a `GroupNode` and an `MlsContext`. The application
around them calls `send_control` / `send_payload`, carries the frames they
return, feeds received bytes to `on_wire`, polls `check_timeouts`, and reacts to
the events it gets back. Above the node sit three clients (text, audio,
signalling); below it, any transport.

| Part | State | Operations that change it | Talks to |
|---|---|---|---|
| GBP node (`gbp/node/src/node.rs`) | epoch, last and pending tid, node FSM, transition FSM, coordinator flag, winner of the pending PREPARE, three timers, outbound counters, inbound high-water marks | `new`, `bootstrap_as_*`, `send_payload`, `send_control`, `on_wire` (`deliver_frame`, `handle_control`), `apply_transition`, `trigger_resync`, `check_timeouts`, `claim_coordinator`, `restore_out_seq` | MLS context through `Sealer`; application through events |
| MLS context (`gbp/mls/src/lib.rs`) | OpenMLS group, own pending commit, staged commit | `invite_full`, `remove_members`, `process_message`, `finalize_pending_commit`, `clear_pending_commit`, `accept_welcome`, `export_state`/`restore_state` | OpenMLS |
| FSM tables, opcodes, errors (`gbp/core`) | none | none | node |
| Bounded duplicate filter (`gbp/core/src/bounded.rs`) | set and insertion order | `insert`, `clear` | GTP, GSP |
| Frame, control message, error object (`gbp/base`) | none | encode, decode | node |
| GTP (`gtp`) | duplicate filter, history, watermark, attachment chunks | `send`, `accept`, `sync_epoch`, `push`, `observe`, `assemble` | node |
| GAP (`gap`) | RTP counters, replay and overlap windows, jitter buffer | `send`, `accept`, `sync_epoch`, `push`, `pop_in_order`, `pop_force` | node |
| GSP (`gsp`) | members, muted, request filter, roles, capabilities | `send`, `accept`, `assign`, `advertise`, `forget` | node |
| SFrame (`gbp-sframe`) | send counters, per-sender windows | `encryptor`, `encrypt`, `decrypt` | MLS exporter |
| Transports (`gbp/transport`) | socket | `write_blob`, `read_blob` | network |
| Codecs (`gbp-proto`, `gbp-flat`) | none | conversions | clients |
| C ABI, WebAssembly, C#, JS, Python | handles | forwarding | node, MLS, clients |
| CLI demo, examples | none | I/O | library |

What makes it hard: control frames may be lost, repeated and reordered, while the
inbound check is a high-water mark per sender that moves before decryption; epoch
changes are a handshake between applications that take decisions at their own
pace; the node and the MLS context are advanced by separate calls; three timers
race late answers; a restarted member gets back only part of its state; and
during a coordinator handover two members may originate at once. The clients
filter repetitions with bounded memory and numbers that wrap; media keys and
handles are shared by threads; streams and files end at any byte.

## 2. Modules

| Module | Models | State | Actions |
|---|---|---|---|
| `GroupNode` | the node as a data type | none; the struct is the record `GroupNodeType` | one operator per method, from node to node, under the method's name |
| `EpochLog` | what the control plane promises (abstract) | `decided`, `applied` | `Decide`, `Apply`, `Enter` |
| `ControlPlane` | nodes, applications and network in the PREPARE / READY / EXECUTE / ABORT handshake with one coordinator | `node`, `net`, `deciding`, `log` (history) | `Prepare`, `Ready`, `Execute`, `ApplyDecided`, `Abort`, `DigestResponse`, `JoinArmed`, `JoinApplied`, `Restart`, `RejectEpoch`, `DecryptFailed`, `DeliverExecute`, `DeliverControl`, `RejectForeign`, `Timeouts` |
| `Transition` | the same node under an application that follows the documents (quorum, abort on timeout), over reliable ordered channels | `node`, `inbox`, `acks`, `answered`, `tried`, `task`, `silent` | `Prepare`, `Ready`, `Execute`, `ApplyDecided`, `Abort`, `Deliver`, `Poll` |
| `Election` | coordinator election among survivors | `peer`, `claims`, `needed`, `view`, `knew` (history) | `Silence`, `HandleNeeded`, `IgnoreNeeded`, `DeliverClaim`, `SeeLeft`, `SeeBack` |
| `Succession` | `Election` with members that are gone, members that joined too late to have heard the coordinator, and fairness | as `Election`, and `early` (history) | `Poll`, `Handle`, `Deliver`, `Learn`: those of `Election`, restricted to the survivors |
| `AppStream` | application streams: `send_payload` to `PayloadReceived` | `endpoint`, `outbox`, `saved`, `transmitted`, `life`, `got` (history) | `Send`, `SealFails`, `Save`, `Transmit`, `Deliver`, `OpenFails`, `EpochMismatch`, `Advance`, `Restart` |
| `MlsContext` | the MLS context as a data type | none; record `MlsType` | one operator per method |
| `EpochBinding` | nodes together with MLS contexts, one or several originators | `node`, `mls`, `net`, `tried`, `commits`, `heard` (history) | `Prepare`, `Ready`, `Execute`, `Abort`, `PrepareTimeout`, `Deliver`, `DecryptFailed`, `RejectEpoch`, `Join`, `Restart` |
| `Membership` | leaves of the ratchet tree and `remove_members` | `leaves`, `pending`, `answer` | `InviteFull`, `RemoveMembers`, `FinalizePendingCommit`, `ClearPendingCommit`, `MergeOthers` |
| `StateBlob` | `export_state` / `restore_state`, byte by byte | `storage`, `disk`, `whole`, `steps` | `Change`, `Save` (cut anywhere), `Restore` |
| `BoundedSeen`, `TextClient`, `AudioClient`, `SignalClient` | duplicate filter, `GtpClient` with history and watermark, `GapClient` with jitter buffer, `GspClient`, as data types | none | one operator per method |
| `Chat` | text between members that repeat, change epoch, crash and resynchronise | `gtp`, `history`, `mark`, `saved_mark`, `text_epoch`, `chan`, `up`, `asked`, `missed`, counters, `shown` and `ever` (history) | `SendText`, `Resend`, `Receive`, `Refuse`, `AdvanceUser`, `SaveMark`, `Crash`, `Rejoin`, `Ask`, `Answer` |
| `Attachment` | chunking and assembling | `payload`, `size`, `received`, `result` | `Feed`, `Misfeed`, `Finish` |
| `Voice` | one speaker, one listener, a lossy network, a decoder | `speaker`, `air`, `listener`, `listener_epoch`, `node_hw`, `expired`, `jitter`; `arrival`, `news`, `played` (history) | `Speak`, `SpeakerAdvances`, `Arrive`, `NodeRejects`, `PlayInOrder`, `PlayForced`, `ListenerAdvances`, `Expire` |
| `Signals` | observers of several signalling senders | `issued`, `pos`, `signal_epoch`, `gsp`, `heard` and `applied` (history) | `SendSignal`, `AcceptNext`, `DropNext`, `AdvanceMember` |
| `Capabilities` | the GSP capability registry | `advertised` | one per method |
| `MediaKeys` | SFrame sessions, shared counters, replay windows, and their C exports | `ffi`, `mls_epoch`, `sessions`, `cells`, `cache`, `handles`, `checked`, `creating`, `wire` | `SessionCreate`, `SessionFree`, `Commit`, `Encryptor`, `CreateChecks`, `CreateLooksUp`, `CreateInserts`, `EncryptorFree`, `Encrypt`, `Decrypt` |
| `Framing` | `write_blob` / `read_blob` of both transports | `written`, `wire`, `open`, the reader's `need`, `phase`, `buf`, `read` | `WriteBlob`, `CloseStream`, `ByteArrives`, `GotLength`, `GotBody`, `EndOfStream` |
| `Codecs` | CBOR, Protobuf and FlatBuffers payloads and the frame that names the codec | `foreign`, `sent`, `frame`, `got` | `Send`, `Receive` |
| `FfiCalls` | the exports of the C ABI: registries, mutexes, error slot | `live`, `next`, `bundles`, `restored`, `owner`, `slot`, `calls`, `run`, `given`, `doomed` | `Enter`, `Step` (one lookup, lock, result or store at a time), `Done` |
| `Bindings` | how events get from the node to an application in C or in a browser | `binding`, `events`, `raised`, `delivered` | `Silent`, `OnWire`, `CheckTimeouts`, `Drain` |
| `Handshake` | the listener and connectors of the command line demo | `mls`, `pc`, `peer`, `inbox`, `open`, `shown` | `Step` (a read or a write, or the error that ends the program), `ConnectionDrops` |
| `GroupNode_proofs`, `ControlPlane_proofs`, `EpochBinding_proofs`, `Node_proofs`, `Clients_proofs`, `Voice_proofs`, `Abi_proofs`, `Data_proofs` | lemmas and theorems (section 5) | | |
| `MC*` | bounds for TLC | | |

`MCHandover`, `MCTraffic`, `MCInterfaces` and `MCLiveness` each put several
components that do not interact into one run. A variable `part`, chosen in the
initial state, says which component a behaviour is about; TLC explores the sum
of the state spaces and not their product. Most components have constants and
variables of their own and keep their initial state in the other parts, so their
properties are checked as they stand in their modules, which are the formulas
the theorems are about. `StateBlob` in `MCInterfaces`, and all but `Voice` and
`Framing` in `MCLiveness`, share variables; there a property names the part it
speaks of.

Definitions marked as mutants or variations are plausible mistakes in the
definition that follows them. No specification uses them; they are there to show
that each property would notice.

How the code is abstracted:

- In `ControlPlane`, `Election`, `EpochBinding`, `AppStream` and `Voice` the
  network only grows, and any frame in it can be delivered at any time, any
  number of times, or never. Loss, repetition, reordering and delay need no
  action. `Transition`, `Chat` and `Signals` use ordered channels, as the
  reliable profiles of the senders ask for.
- A stream id is the member that owns the stream: `member_stream_id` is
  injective for a fixed stream type. The `sender_id` of a control message is the
  owner of the stream it came on.
- A deadline is a Boolean "armed"; expiry is a choice. In `ControlPlane` an
  expired execute deadline implies an expired prepare deadline when both are
  armed: the first runs 10 s and the second 5 s (`core/src/state.rs`, module
  `timeouts`), and arming PREPARE clears the execute deadline.
- `Option<MemberId>` is a set with at most one element.
- A group's MLS state is the sequence of commits merged. Two contexts open each
  other's frames exactly when these sequences are equal, as the exporter secret
  depends on the whole history. That is OpenMLS's promise and is not modelled.
- Cryptography is symbolic: a digest stands for the content it was taken of, a
  media key for session secret, leaf and epoch, and a ciphertext opens under its
  own key only. A seal or an open may fail.
- Integers keep their width where it matters: RTP numbers and SFrame epoch bits
  and counters at a small modulus, codec fields at 8, 16, 32 and 64 bits, length
  prefixes as digits of a small base.
- Events are queued in `Bindings` only. Elsewhere an action of a member is the
  call together with the application's reaction where the tests show them
  together (`EpochBinding`: EXECUTE, `apply_transition`,
  `finalize_pending_commit`), or two actions where something can come in between
  (`ControlPlane`: `Execute`, then `ApplyDecided`).
- What applications may do in `ControlPlane`: the coordinator prepares a tid
  above its last one while nothing else is pending, may repeat a PREPARE, and
  sends EXECUTE whenever it likes (the code leaves the quorum to it) or without
  PREPARE, as the lifecycle test does for the first joiner. A Welcome may arrive
  before or after the EXECUTE, however late. In `EpochBinding` an originator
  never reuses a tid (`gbp_rfc.md` section 7: tids are strictly monotonic).
- In `Chat` a node refuses a frame of another epoch, as `deliver_frame` does, and
  the frame is gone. The crate leaves the rest of resynchronisation to the
  application, and a watermark keeps the maximum per sender, so it says what is
  missing only if it is used with care. The model's application
  - asks all peers when it comes back and when its node reported EPOCH_MISMATCH,
    one request at a time;
  - observes a message when it comes from its own sender, who sends in order, and
    not when another member relays it;
  - stores the watermark, the one it ships later, only while no answer is awaited
    or under way and no frame was refused since it last asked.

  `history.rs` asks for none of this. Without either of the last two TLC finds a
  message that nobody sends any more: a relayed message 2, or a live one that
  arrives during a recovery, moves the watermark past message 1.
- In `AppStream` an application stores the exported counters before it hands a
  frame to the transport. The doc comment of `export_out_seq` promises that a
  rebuilt node resumes above what its peers have recorded, which needs that order.
- In `MediaKeys` an application makes one SFrame session per MLS epoch, as the
  documents say ("each SFrame session corresponds to one MLS epoch"). Two
  sessions of an epoch would count independently under the same key. Over the C
  ABI the check of the session, the lookup in the cache and the insertion are
  three steps, and other threads commit or free the session between them.
- A frame is never delivered to its own sender, as broadcast in the tests.

## 3. Runs

| Run | Parts and bounds | Checks |
|---|---|---|
| `handshake` | 2 members, 2 tids, 2 coordinator frames and 1 member frame per epoch; member 2 may restart and be misrouted to | `TypeOK`, `HandshakeInv`, `SameEpochSameTid`, `PendingWasPrepared`, `DeadlineGuardsPending`, `OnlyForeignFails`, refinement `OneTransitionLog` |
| `handover` | *election*: 3 members, one claim each, any views; *race*: 2 originators (2 frames, 2 commits each), 1 receiver | `ElectionInv`, `CrossingClaimsResolve`; `LowestPrepareWins` |
| `binding` | 1 originator (4 frames per epoch, 3 commits, tids 2 to 4), 1 member that may restart, 1 joiner | `EpochIsMlsEpoch`, `SameEpochSameGroup`, `StagedWasPrepared` |
| `traffic` | *streams*: 2 members, numbers up to 2, 2 epochs, 1 restart each; *texts*: 1 writer, 2 messages, 1 reader that crashes once, 1 that relays, a filter of 1, 2 epochs that each enters in its own time; *audio*: 3 frames per epoch, 2 epochs, numbers modulo 8, a buffer of 2, no node in front; *signals*: 2 senders with 2 and 1 signals that may share a request id, 1 observer, a filter of 1, 2 epochs; *keys*: 2 threads in Rust or 1 over the C ABI, counters up to 2, 3 epochs | `InOrderOnce`, `ResumesAbove`; `ShownAgainOnlyAfterEviction`, `NothingLost`, `WatermarkIsHonest`; `AcceptedOnce`, `PlayedInOrder`; `ViewIsAppliedRequests`; `CounterUsedOnce`, `WindowIsOpened` |
| `interfaces` | 2 threads with 2 calls each to any exports; 4 events per binding; field values around 8 and 16 bits; 2 keys and 4 steps of saved state; 3 members' capabilities; payloads of up to 3 bytes | `SlotTellsOutcome`, `InvalidOnlyIfDestroyed`; `EventsArrive`; `DecodedIsSent`, `LengthIsChecked`; `RestoreIsAllOrNothing`; `ClassIsSupported`; `AssembledIsSent` |
| `liveness` | *changes*: 3 members, 2 transitions; *heirs*: 4 members, the coordinator gone, any of them a late joiner; *texts*: 2 members, 2 messages, 1 repetition, 2 crashes, 2 epochs; *audio*: 5 frames behind a node, numbers modulo 4; *stream*: 2 blobs of up to 3 bits; *programs*: a listener and 3 connectors; *threads*: 3 threads, 1 call each | `TransitionEnds`, `GroupConverges`; `SuccessorEmerges`; `EveryMessageArrives`; `FreshIsNew`; `BlobsIntact`, `ReaderGoesOn`; `EveryoneEnds`; `CallsReturn` |

What they show, beyond the names: all members apply the same transitions in the
same order whatever the network does; GBP and MLS epochs stay together; payloads
of a stream reach a receiver in order and once per life; a member that crashes,
or whose node refuses frames of another epoch, gets every text its sender
retains, if its application uses the watermark as section 2 describes; audio is
played in order below the wrap of the number; no media counter is used twice
under a key as long as encryptors are created by one thread at a time; no call
of the C ABI can block another for ever, the `gbp_sframe_*` exports excepted,
which are in `MediaKeys` and not in the table of `FfiCalls`.

Three properties are narrower than their subject. `EventsArrive` follows the
kinds of events and which fields they keep, not the values in the fields.
`ViewIsAppliedRequests` says which signals an observer applies, those hidden by
another sender's id included, and what its membership set then is; the muted set
acts on the sender of a MUTE, which section 4 lists as a disagreement. And
`SuccessorEmerges` speaks of the elections in which the lowest survivor had heard
the coordinator and, whenever it handles the event, knows who is gone.

Why these bounds are enough to be interesting. Two frames per epoch let the
coordinator PREPARE and then EXECUTE, ABORT or repeat, and two tids give a second
epoch in which frames of the first are stale. Four originator frames in `binding`
let a PREPARE be aborted and a second one, with another commit, be executed in
the same epoch. Three members in *election* are the fewest for which a claim can
be superseded by one of two others. A filter of one entry evicts at the second
message; numbers modulo 4 wrap within five frames; three chunks can arrive in
six orders; two threads with two calls each can create, destroy and use a handle
in every order, and three threads are the fewest that can wait in a circle
through client, node and MLS context. Deadlock is not checked: the bounded
counters run out, programs end, and a group with nothing to do may rest.

### Fairness

Safety is checked and proved without fairness. The `liveness` run assumes weak
fairness, of these steps only:

- *changes*: the transport delivers the head of each channel; the coordinator's
  application goes on with a transition once its condition holds; an application
  that is not silent answers a PREPARE; an armed deadline passes and
  `check_timeouts` is polled for (`node.rs`: "Call this regularly from the
  application event loop"). Starting a transition is nobody's obligation.
- *heirs*: the silence timer runs out and is polled for, the application handles
  the event, and claims are delivered. That a survivor learns who is gone is not
  assumed: `SuccessorEmerges` has it as a proviso, for the lowest one.
- *texts*: frames that are under way are received or refused, members ask and
  answer, a crashed member comes back, and all get to the last epoch. Nobody is
  obliged to write.
- *stream*: bytes arrive and the task awaiting `read_blob` is polled.
- *programs*, *threads*: a program or thread that can go on does.

`TransitionEnds` and `GroupConverges` hold when every application answers or none
does. With one that answers and one that does not, `quorum_stall` shows that a
transition may stay open.

## 4. Where the code and its documents disagree

Six runs check one statement of a document or comment each and end in a
counterexample. The behaviour is the code's; whether code or document should
change is for the maintainers to decide.

| Run | Statement | What the code does |
|---|---|---|
| `settled_election` | exactly one coordinator (`gbp-control-plane.md` section 5.1) | a higher member that claims after handling the lower one's claim is never contradicted |
| `staging` | a second `process_message` replaces the staged commit (its doc comment) | it is refused, so the winner and the staged commit may belong to different members |
| `stale_deadline` | the prepare deadline is for the PREPARE that was issued (field comment) | EXECUTE of another originator leaves it armed |
| `quorum_stall` | without a quorum the coordinator aborts (`gbp-control-plane.md` section 5, `gbp-state-machine.md` section 6) | the first READY stops the prepare timer, and nothing ends the transition when another member stays silent |
| `encryptor_race` | encryptors of one session and leaf share a counter, whichever thread asks (doc comment of the export) | lookup and insertion take the lock separately; two threads may both insert |
| `leaf_index` | members are removed by leaf index (doc comment of `remove_members`) | the index is compared with the number of members, which a blank leaf makes too small |

`staging` and `stale_deadline` need two members that originate at once, which the
documents expect only in a coordinator handover; `settled_election` shows that a
handover can end in that state.

More statements are kept as definitions without a run of their own. TLC refutes
each of them, with constants that let the case happen (two senders that share a
request id, two observers, numbers that wrap, a sender that is another
implementation):

| Definition | Statement | What the code does |
|---|---|---|
| `MatrixEnforced` (`ControlPlane`) | "Implementations MUST enforce this matrix" (`gbp-state-machine.md:67`) | `transition_state` is assigned without it; `TPrepared` goes straight to `TExecuted` |
| `ReadyIsQuorum` (`ControlPlane`) | `TReady` means every member has acknowledged (`state.rs:74`) | the first READY is enough |
| `ExecuteTimeoutResyncs` (`ControlPlane`) | a member resynchronises when `T_execute_max` expires (`gbp-state-machine.md:96`) | it reports the timeout and stays Active |
| `SuccessorAlwaysEmerges` (`Succession`) | the next-lowest active member takes over an unreachable coordinator (`gbp-control-plane.md:52`) | `check_timeouts` reports a silence once, and only to a node that had heard the coordinator; a lowest survivor that learns later who is gone, or had heard nothing, never claims |
| `LowestCommitterWins` (`EpochBinding`) | ties go to the lowest committer (`gbp_rfc.md:137`) | an originator's own PREPARE does not count at itself |
| `RebuiltReaccepts` (`AppStream`) | a rebuilt node re-accepts re-fetched history (`node.rs:254`) | its last tid is 0, so it refuses CRITICAL frames that name another one |
| `NeverNewTwice` (`Voice`) | a number already seen is Late (`gap/src/client.rs:28`) | at the wrap the comparison is not modular, and an old frame may count as new where no node filters it |
| `OverlapHonoured` (`Voice`) | frames of the previous epoch are accepted during `T_overlap` (`gap/src/client.rs:136`, `gap_rfc.md:36`) | the node rejects their epoch before the client sees them |
| `ViewsAgree` (`Signals`) | `request_id` is unique per sender (`gsp_rfc.md:67`) | the filter is keyed by `request_id` alone; two senders that use one number hide each other's signals |
| `MuteReachesTarget` (`Signals`) | MUTE names its target in the args (`gsp/src/args.rs:7`, `gsp_rfc.md:152` and `161`) | the client mutes the sender of the signal |
| `ContentTypeKept` (`Codecs`) | unknown enum values are handled safely (`schemas.md:38`): a content type never turns into another | the narrow fields of a text message are cut to 8 bits when another implementation sends wider ones |
| `FailureIsWritten` (`FfiCalls`) | every fallible call writes the error slot (`stack-ffi/src/lib.rs:22`) | some answer in their reply, or with an empty result only |
| `ControlIsAnswerable` (`Bindings`) | a control event can be answered | the browser binding drops `request_id` and args |

`Transition` with `Polls = FALSE` describes an application over the C ABI, which
exports no `check_timeouts`: a PREPARE that nobody answers then stays open.
`FrameOpens` of `Handshake` holds; the frame the demo's listener reads opens in
the epoch its Welcome put it in.

## 5. Proofs

All constants are arbitrary: any set of member ids, any coordinator, any sets of
restarting, answering and misrouted members, any stream types, any bounds. The
assumptions are the named `ASSUME`s of `GroupNode`, `ControlPlane`, `Election`,
`AppStream`, `EpochBinding`, `FfiCalls`, `Chat`, `Signals`, `Voice`, `Attachment`
and `Codecs`; they only type the constants, and say that the coordinator,
originator or writer is a member, that the first two are in the group from the
start and are not themselves rebuilt. `MediaKeys`, `Capabilities` and `Bindings`
need none. What a theorem needs beyond that is a hypothesis in its statement:

| Theorem | Hypothesis | Without it |
|---|---|---|
| `EpochDeterminesGroup`, `StagedIsPrepared` | a sole originator | winner and staged commit may differ (`staging`) |
| `NoCounterTwice` | `OneFfiThread`: at most one thread creates encryptors over the C ABI; threads in Rust are not limited | two cells for one key (`encryptor_race`) |
| `FramesAcceptedOnce` | `ViaNode \/ WithinReach`: a node filters replays first, or an epoch has at most half a range of numbers | an old frame may count as new (`NeverNewTwice`) |
| `FramesPlayedInOrder` | `NoWrap`: the number does not wrap in an epoch | `jitter.rs` compares numbers as they are, and sorts the frames after a wrap before the others |

TLC refutes each of these theorems' properties when the hypothesis is dropped
and the constants let the case happen.

`ControlPlane_proofs` proves, of `ControlPlane`'s `Spec`:

- `HandshakeInvariant`: `HandshakeInv` is inductive;
- `TypeCorrect`, `PendingPrepared`, `DeadlinesGuard`: three of its conjuncts as
  properties of their own;
- `Agreement`: `SameEpochSameTid`;
- `NodesFailOnlyByForeign`: `OnlyForeignFails`, about the `state` of nodes: a
  node that has joined is Active or Resyncing until it fails (`StateInv`), so each
  step `transition` is asked for is in the matrix unless the frame is foreign;
- `ImplementsEpochLog`: the handshake refines `EpochLog`, with the decided log
  being what the coordinator has applied and the EXECUTE it has sent but not yet
  applied.

The argument. Agreement is not inductive: nothing in it constrains the EXECUTE
frames still in the network. The strengthening ties three things together. A
member's epoch is the length of its log and its last tid the log's last entry
(`EpochCountsLog`); each log is a prefix of the decided one
(`LogIsDecidedPrefix`); and an EXECUTE frame of epoch *e* carries decision
*e* + 1 (`ExecuteCarriesDecision`), since the coordinator, which alone sends
EXECUTE (`CoordinatorOriginates`), changes epoch before it can decide again. A
member accepts only frames of its own epoch, so the EXECUTE it applies appends
exactly the decision that follows its log. The deadline conjuncts
(`DeadlinesFollowRole`, `DeadlineGuardsPending`) need the fact that only the
coordinator arms the prepare deadline, and that its EXECUTE disarms both; the
`stale_deadline` run shows what happens with two originators. `GroupNode_proofs`
holds the lemmas on what each node operator changes and preserves.

`Node_proofs`, on `Election`, proves `ElectionInvariant` and from it `CrossingResolved`: a
node in the role has handled no lower member's claim since it claimed itself,
because handling one makes it yield. Windows never run ahead of the senders'
counters, so having handled a lower member's *last* claim means having handled it
before one's own.

On `AppStream` it proves `StreamsInOrder` (`InOrderOnce`), `NumbersAreUsedOnce`
(`ResumesAbove`) and the typing they rest on. The inductive invariant adds two
links to the properties. Frames built, transmitted and stored are ordered by the
sender's counters: what is in the outbox or was transmitted is at most the counter,
what was transmitted is also at most the stored counter, and a number names
one frame (`Numbered`, `NumberedOnce`); this survives a restart because the stored
counter is what the rebuilt node starts from. And whatever a receiver has
delivered in its present life and epoch is at most its window (`Windowed`), so
the next payload it delivers, which is above the window, is above them all; a
failed open moves the window and delivers nothing.

`EpochBinding_proofs` proves, of nodes with their MLS contexts:

- for any number of originators, `BindingTyped`, `LowestPrepareIsKept`
  (`LowestPrepareWins`) and `EpochIsBound` (`EpochIsMlsEpoch`);
- for a sole originator, `EpochDeterminesGroup` (`SameEpochSameGroup`) and
  `StagedIsPrepared` (`StagedWasPrepared`).

`LowestPrepareIsKept` rests on `RaceInv`: a receiver has heard of a
PREPARE exactly while one is pending, and then records a single sender, which is
no higher than any it has heard. This survives because a PREPARE of another tid
is refused while one is pending, and what ends a transition forgets the senders.
`EpochIsBound` rests on `StepInv`: no transition is pending at a node whose MLS
context has neither a commit of its own nor a staged one waiting. EXECUTE, which
a node applies only for its pending tid, therefore moves both epochs on, even
where it is not clear whose commit is merged.
The last two rest on `BindingInv`. They are not inductive, because a receiver
merges what it has *staged*, on an EXECUTE that does not carry the commit. The
strengthening makes the tid the link: a tid is prepared with one commit only (`FramesBound`);
what a receiver stages is the commit of the PREPARE behind its pending tid
(`ReceiverBound`); and an EXECUTE of epoch *e* names the tid that was prepared
with entry *e* + 1 of the originator's group (`Executed`). So a receiver in epoch
*e*, whose group is a prefix of length *e* of the originator's, extends it with
the very commit the originator merged. With two originators the winner and the
staged commit may belong to different members, as `staging` shows.

`Clients_proofs` is about the text and the signalling client, which discard
repetitions with a `BoundedSeen`, whose lemmas come first: the set and the queue
hold the same items, each once and no more than the capacity, and `insert`
forgets the oldest item and no other (`FilterOK`, `InsertEffect`).
`RepeatsAreSpread` (`ShownAgainOnlyAfterEviction`) rests on `TextInv`: what a
client's filter holds is exactly the end of the list of messages it has shown, in
their order, and all of the present epoch unless the filter is full. A message
that is shown was not in the filter, so its previous showing lies before that
end. `ViewsFollowApplied` (`ViewIsAppliedRequests`) rests on `SignalInv`, which
says the same of the ids of the applied signals, and that each signal heard was
applied exactly if its args were valid and its id was not among the last
`GspSeenCap` applied ones of its epoch. Nothing is assumed of the ids.

`ResyncLosesNothing` (`NothingLost`) and `WatermarksAreHonest`
(`WatermarkIsHonest`) have no hypothesis: any members may crash any number of
times. Both rest on `ResyncInv`, which says of every message that a member lacks
and its sender retains (`Lacks`) that it can still be had (`Recoverable`). It lies
above the stored watermark, so that `since` returns it; and it is either under way
from its sender with nothing newer in front of it and above the watermark in
memory (`Coming`), or it is owed: the member is down, awaits the sender's answer,
has a refusal to ask about, or has the message in an answer under way (`Owed`).
Why it is inductive: a frame that is received from a sender moves the watermark
in memory past a missing message only if that message was not `Coming`, and then
it is owed; while anything is owed the watermark is not stored; once nothing is
owed, all that is missing is `Coming` and so above the watermark that may now be
stored. A crash falls back on the stored one. An answer contains every retained
message above the watermark shipped, which is proved by induction over the
history (`since` is a loop).

`Voice_proofs` proves three properties from three invariants, on top of what the
speaker numbers (`SpeakerInv`: a frame's number is its position in its epoch
modulo `SeqMod`). `FramesAcceptedOnce` (`AcceptedOnce`) uses `WindowInv`: the
current window and those of the overlap are at or above every frame of their
epoch that was New, through any number of epoch changes and expiries. Behind a
node it uses `NodeInv` instead: the client's window is the number of the newest
New frame, which is at or below the node's window. That one also gives
`FreshFramesAreNew` (`FreshIsNew`): a fresh frame whose wrapped number is at or
below the window by at most `HalfRange` is at least `SeqMod - HalfRange` ahead of
it. `FramesPlayedInOrder` (`PlayedInOrder`) uses `JitterInv`: the buffer is
sorted and holds nothing below the expected number, and what was played is sorted
and ends right below it. Insertion, eviction of the front and both ways of popping
keep this.

`Abi_proofs` is about what threads share. On `FfiCalls` it proves `SlotIsOwn`
(`SlotTellsOutcome`) and `InvalidWasDestroyed` (`InvalidOnlyIfDestroyed`) for any
number of threads, over the whole table of exports. For the slot, the invariant
adds that it stays empty from the start of a call that clears it to its end
(`SlotOk`). For the handles, it follows a handle through the steps of a call
(`ArgsOk`) and adds that what the application was given is registered, and has
its bundle, until its destruction is asked for (`Kept`): `gbp_mls_create`
publishes the handle after both insertions.

On `MediaKeys` it proves `NoCounterTwice` (`CounterUsedOnce`) and
`WindowHoldsOpened` (`WindowIsOpened`). `CounterUsedOnce` compares frames, while
the counters live in cells that threads share, so the invariant `KeyInv` says
that a key has one cell (`OneCellPerKey`), that each frame's counter is one its
key's cell has passed (`Passed`), that a live session still finds the cells of
its epoch (`Covered`), and that a thread between lookup and insertion is about to
make the first cell of its key (`AboutToCreate`). The last one needs that no
other thread can insert in between.

`Data_proofs` is about what passes between group and application, where the work
is in what a loop computes. `AttachmentsComeBack` (`AssembledIsSent`): chunk *i*
holds the bytes from *i* times the chunk size on, so joining the chunks up to *i*
gives that prefix of the payload, and an assembler without a misfed chunk holds
at each index the chunk that was cut there (`FileInv`); with a misfed one the
digest decides. `NegotiatedIsCommon` (`ClassIsSupported`): the loops of
`intersection` and `group_class` give the same result for every order in which
the map is iterated. `EventsComeThrough` (`EventsArrive`): what was delivered,
followed by what is queued, is what was raised, converted one by one (`EventInv`).
`MessagesComeBack` (`DecodedIsSent`) and `LengthsAreChecked` (`LengthIsChecked`):
for each payload type and codec, decoding undoes encoding on the messages this
stack builds, and a length that is not the content's is refused whoever sent it.

`HandshakeInv` and `ElectionInv` are invariants of their runs. The other
inductive invariants were model-checked before they were proved, on instances of
about the size of the runs (without the parts that only type unbounded sets).

Induction over data. The induction theorems of the library take an operator and
cannot be used. Where a proof needs induction over the naturals, as for the loops
above, it is done with the least counterexample: the set of numbers at which a
statement fails has a least element unless it is empty (`WFMin` for `<`).

Only model-checked:

- the properties of `Framing` and `StateBlob`, which speak of what a reader makes
  of a sequence of bytes, prefix by prefix;
- all liveness properties: liveness under fairness and `ENABLED` are out of the
  prover's reach;
- `Transition`, `Succession`, `Membership` and `Handshake`, which carry liveness
  properties or a statement that TLC refutes.

## 6. Not modelled

- The C#, JavaScript and Python wrappers, the umbrella crate and the examples:
  they forward to what is modelled, one call at a time. In the C ABI and the
  browser binding, argument conversion and the JSON texts.
- The error registry, error texts and the error object: constants and a record.
  Its fatal column is `FatalError` of `GroupNode`.
- The byte layout of CBOR, Protobuf and FlatBuffers, which is the libraries'
  (ciborium, prost, planus); `Codecs` has what each keeps, defaults and refuses.
- Cryptography, key packages and credentials (OpenMLS, AES-GCM, HKDF), and
  certificates and endpoints of QUIC (quinn).
- Wrap of 32-bit tids and GBP sequence numbers: 2^32 frames of one stream within
  one epoch.
- The role registry of GSP: a lookup in two maps and a mask test.
- Resynchronisation beyond the node's part: any DIGEST_RESPONSE ends it, and the
  node has no way of its own to catch up on a missed EXECUTE. `GroupConverges`
  therefore assumes ordered, reliable delivery of control frames.

## 7. Running

In this directory: `tlc -config MCControlPlane.cfg MCControlPlane` (and likewise
for the other configurations, whose module is named in `PROJECT.json`), and
`tlapm ControlPlane_proofs.tla`, likewise for the other modules named `_proofs`.
The longest run takes about two minutes, the longest proofs (`Clients_proofs`,
`Data_proofs`) about ten. Many leaves name `Zenon`: the SMT backend would spend its time on
translating their hypotheses.
