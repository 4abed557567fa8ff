# Conveyance: a TLA+ verification project

Conveyance lets a tool-calling client use credentials it never sees. A client
talks to a small shim, the shim to a daemon on the PC, the daemon over an
encrypted Bluetooth session to a phone; the user approves each operation on the
phone, and the phone performs it. This directory models the parts of that
system whose correctness depends on the order of events, checks the models with
TLC on small instances, and proves the central safety properties for every
instance with TLAPS.

## 1. The system

    client -> shim -> daemon --- Noise_KK over BLE --- phone app -> service
                        |                                |
                   executions.db                    approval log

| Component | State it keeps | Operations | Hard part |
|---|---|---|---|
| Session owner task (`conveyance-daemon/src/session.rs`) | the slot with the live session, the call in flight, the route queue, approval tombstones | start, end, inspect, timer, route; inbound messages; deadlines | one task awaits the radio in the middle of handlers; commands, phone messages and deadlines arrive in any order |
| Recovery sweep (`recovery.rs`) | none; reads and appends the execution log | sweep at start | decides from the log alone what a dead process was doing |
| Dispatch and lifecycle (`lib.rs`, `server.rs`) | the socket, open stores | dispatch, refuse to start, drain | gates on a cached "active" flag; two daemons on one data directory |
| Core session and timers (`conveyance-core/src/session`) | ACTIVE / IDLE_WARNING / ENDED, watchdog deadlines | send, receive, on_activity, handle_timer_event, end | timer events overtake activity; events outlive sessions |
| Approval binding (`conveyance-protocol/src/binding.rs`) | pending approvals, tombstones | record_approval, validate_execute, prune | time-to-live windows |
| Execution log (`storage/logdb.rs`, `hashchain.rs`) | hash-chained rows, head metadata | append, verify, repair | two processes share the file; verification reads twice |
| Log comparison (`storage/logdiff.rs`) | none | diff_logs | classification of incomplete trails |
| Policy (`conveyance-protocol/src/policy.rs`) | none | evaluate, glob_matches | pattern matching |
| Pairing (`core/src/pairing`, `conveyance-pairing`) | ceremony state, nonce guard, pairing rows | run the ceremony, record | a one-shot nonce under timeouts and broken links |
| Framing (`conveyance-wire`) | sequence expectation, partial message | split_message, ingest | sequence wrap, reassembly cap |
| Identity storage (`storage/identity.rs`) | sealed identity file, key-encryption key | load, save | interrupted and concurrent saves |
| Phone approval (`android/.../approval`) | one pending request, its deadline, seen request ids | receive, approve, deny, authenticate, expire, finalize | UI, biometric prompt, deadline, log commit and session end race each other |
| Phone session (`android/.../session`) | handshake decision, session state, timers | start, send, route, end | promotion against cancellation; sends against teardown |
| Phone transport (`android/.../transport`) | GATT connection states | advertise, connect, notify | callbacks on several threads |
| Phone storage (`android/.../storage`) | vault, wrapped credentials, approval log | unlock, migrate, append | interrupted migration |
| Secure link (`conveyance-noise`, `core/src/session`, `core/src/transport`) | handshake phase, two nonces, the notification queue | handshake, send, receive, end | an end does not read while it writes; a message is many frames and a chunk many messages |
| Wire messages (`conveyance-protocol/src/message.rs`, `canonical_json.rs`) | none | preflight, decode, validate, encode, sign | a hand-written scanner must agree with the decoder behind it |
| Clients: shim, command line, scripted phone | none that outlives a call | one call per line or command | the daemon may be absent, stop or die at any moment of a call |
| Cryptographic primitives (`conveyance-crypto`) | none | hash, sign, seal, derive | not order-dependent |

What makes the core correct:

- an operation runs only if the phone approved that very call in that very
  session, and it runs at most once;
- the log row of a step is written before the step is taken, so a crash hides no
  operation; a closed call stays closed (both as far as appends succeed and one
  daemon runs; the disagreements in section 3 say what happens otherwise);
- every caller is answered, and is held by some part of the owner until then (one
  of them may be told the wrong thing: the run `dropped`);
- a result or a refusal a caller is told agrees with the log and with what the
  phone signed;
- on the phone, an approval is signed only for the request on the screen, only
  after the user's tap and, where the policy asks for it, a fresh
  authentication, and only before the deadline; it is in the phone's log before
  it is on the radio, and the screen says it was sent only when it was;
- every request shown on the phone reaches a final state;
- the log file keeps one unforked chain whichever processes use it and whenever
  power fails, an edit of it stays visible, and comparing it with the phone's
  log reports what was executed without an approval, and of honest logs nothing
  but what differing clocks and null bodies explain;
- both ends of a pairing agree on whom they paired with, over a code that is
  used once, and a pairing run always returns;
- a session delivers in order and once, or ends; its ends never accuse each
  other without cause and never wait for each other;
- outside a few races, which the models name, the daemon clients reach is the one
  that serves and all processes of a machine have one identity; every call of a
  client comes back;
- an execute request passes the binding check only for the approval it names,
  once and in time, and the daemon hears only what its phone signed.

## 2. Modules

| Module | Models |
|---|---|
| `SessionOwner` | the owner task, its callers, timers and link, the log trails, crash, restart and sweep, also by a second daemon |
| `RequestLifecycle` | abstract: the life cycle of one call as a reader of the log sees it |
| `MCSessionOwner` | instances for TLC; statements of the code's comments that it does not keep |
| `SessionOwnerProofs` | the inductive invariant's proof and the theorems, those about callers and their answers last |
| `PhoneApproval` | the phone's approval state machine, its runtime and the Rust protocol object, for one session |
| `MCPhoneApproval` | instances for TLC |
| `PhoneApprovalProofs` | the phone's inductive invariant and the theorems that follow from it |
| `HashChain`, `LogDiff` | the hash chain and the comparison of the two logs, as operators |
| `ExecutionLog`, `MCExecutionLog` | the log file, the processes that use it, the phone's log, power loss and edits |
| `ExecutionLogProofs` | the theorems about the log file and the comparison |
| `Pairing`, `MCPairing` | the pairing ceremony on both ends, the nonce filter and both pairing stores |
| `PairingProofs` | the theorems about the ceremony |
| `MessageChannel` | abstract: what a session promises its two ends |
| `SecureLink`, `MCSecureLink` | Noise, frames, reassembly and the link under them |
| `SecureLinkProofs` | the refinement of `MessageChannel`, the round trip of the framing and the other theorems about the link |
| `IdentityStore` | the sealed identity file and the keychain, as operators |
| `Daemon`, `MCDaemon` | identity creation, start-up, socket, dispatch, shutdown, and the clients |
| `DaemonProofs` | the theorems about the socket and the identity |
| `WireCodec`, `TierPolicy` | the message codec and the tier policy, as operators |
| `Protocol`, `MCProtocol` | the phone's protocol object, its binding tracker on a clock, the daemon's check, the scripted phone |
| `ProtocolProofs` | the theorems about the binding tracker and about what the daemon accepts |
| `Codec`, `MCCodec` | all inputs of the CBOR preflight and of the glob matcher, with their reference definitions |
| `CodecProofs` | the theorems that each of the two computes what its reference definition says |

`SessionOwner` uses no other component: the link it awaits is what `SecureLink`
delivers, the log rows it writes are those of `ExecutionLog`, and its answers
are what `Daemon` awaits. `ExecutionLog` composes `HashChain` and `LogDiff`,
`Daemon` uses `IdentityStore`, `Protocol` composes `WireCodec` and
`TierPolicy`, and `SecureLink` implements `MessageChannel`.

### SessionOwner

A routed tool call and the random `req_id` that `start_route` gives it are one
value. The log is one sequence of event types per call (`trail`); rows without a
call are reduced to the number of `session_end` rows per session (`endRows`).
The slot (`Option<ActiveParts>`) is spread over `slot`, `core` (the state of the
core session), `flight` (`in_flight`), `routeQueue` and `consumed` (the
tombstones of the binding tracker). `active` is the watch channel behind
`SessionHandle::is_active`. `cmdq` is the command channel; `watchdog` and `pump`
are the timer task and the channel the pump task drains, one per session because
a pump task outlives its session. `inbox` holds the phone's messages in order.

The owner is one task, so its handlers do not interleave with each other; they
interleave with the callers, the timers, the phone and with the death of the
process. A handler that makes several durable effects is therefore a chain of
steps, and `pc` says where the task stands:

| `pc` | The owner is |
|---|---|
| `select` | waiting in `run_active`'s select, or in `run`'s receive when the slot is empty |
| `dial` | inside `begin_session` |
| `route_send` | in `start_route`, request row written, radio write pending |
| `granted` | in `finish_approval`, `approval_granted` written, approval not yet bound |
| `execute_send` | in `finish_approval`, `execute_sent` written, radio write pending |
| `drain` | about to run `drain_route_queue` |
| `waiters`, `end_row`, `publish`, `leave` | in `teardown`: the session has ended and the link is shut; callers to answer, `session_end` row to write, watch to clear, slot to empty |
| `down` | no daemon serves |

The rest of a handler is one action. A teardown is a chain of steps although the
task does not await in it, because each of them is visible outside: to callers
and to the watch's readers on other threads, and to whoever finds the log after
a crash. `teardown` does not empty the slot; its callers do (`Leave`), or forget
to (`keeps`; see the disagreements below).

`Log` is `log_req`: the row is appended, or the append fails and the owner goes
on without a word, for any call in `Unloggable`. A call in `Oversize` may fail to
encode after its first row. A starting daemon reads the log once (`Launch`),
closes what it found open one row at a time (`SweepOne`), and may fail at any
point (`LaunchFails`); only then does it come to the socket and serve, or finds
that another daemon does (`TakesOver`). It may be started while one is serving
(`MaxRivals`), because the sweep comes before the socket.

The phone (`PhoneSends`) is modelled from how the daemon uses it, and may send
any message about a call it has seen: repeated, late, swapped or with a
signature that does not verify. A failed radio write may or may not have been
delivered. `sent`, `approvedBy`, `resultBy`, `thisLife`, `unlogged` (calls that
miss a row), `contested` (calls that were open while a second daemon started) and
`cutShort` (sessions whose end could not be written), and the field `of` of a
timer command, are history: no guard of the owner reads them.

Left out: `Inspect` (reads only), `daemon_note` rows (no code reads them back),
entropy failures (they answer the caller as a malformed call does, which is
modelled), payload contents, wall-clock time. A deadline is an action
that may happen at any time after the flight is installed.

### PhoneApproval

One session of the phone. `sm` is the state machine's `_state` (a tag, the
request, its tier, the open attempt, the decision); `current` is the runtime's
`currentRequest`; `rx` is the request the dispatcher is working on; `task` is
the `finalize` coroutine of each request; `rows` and `grants` are what the
committed log says of each request and of approved destinations; `signed` are
the signatures made, whose requests are Rust's `terminal_ids`; `wire` is what
was sent. A decoded request, its handle and its instance are one value because
a repeated id is refused when it is decoded (`register_request`).

| Thread | Actions |
|---|---|
| main: user | `Approve`, `Deny`, `Authenticate`, `CancelTier3Authentication`, `Close` |
| main: dispatcher | `TakeRequest`, `TakeOther`, `ReadHistory`, `AppendRequest`, `Receive`, `CancelDispatch` |
| main: timer, collectors | `Expire`, `NoticeEnd` |
| main: `finalize` | `BeforeFinalize`, `CompleteFinalization`, `GiveUp`, `FailFinalization`, `CancelTask` |
| database | `StageRow`, `BeforeSign`, `SignedResponse`, `Commit` |
| session | `Deliver`, `SendFails`, `SessionEnds`, `CloseKeys` |
| vault, clock | `VaultAnswers`, `DeadlinePasses` |

The scope of the runtime is the view model's, on the main dispatcher, so its
coroutines interleave only where they suspend: an action of the main thread is
the code between two suspensions. Inside the log transaction nothing suspends
between the last check and the commit, but the main thread runs meanwhile, so
the check, the signature and the commit are three steps. `terminate` is two,
because other threads see the state `Ended` before the keys are closed.
`endNow` only queues the end. The policy is reduced to its result: `HighRisk`
stands for the DELETE method and the configured rules, and a destination is
known if it is among the newest `HistoryLimit` approvals in the log.

`tapped`, `denied`, `passed`, `withdrawn` and `missed` are history; no guard
reads them. Left out: `cancel()` and the `WRONG_INSTANCE` rejection (nothing
calls or produces them), the successful answers to Ping and to services queries
(no state), what the card shows, and `validate_execute_binding`, which the
phone does not call at this commit (an ExecuteRequest is an unexpected message
there, and ends the session).

### ExecutionLog

`db` is the SQLite file: `user_version`, the tables, the rows of `entries` and
the head in `chain_meta`. A hash is the sequence of events it was taken over, so
equal hashes mean equal histories. `proc` holds where each process is in its
command and what it has read so far; a transaction is one step, and a command
that reads twice (`verify_with_meta`, `repair_meta`, `export`) takes one step
per read, so that another process's commit falls in between. `wal` is the set of
states committed since the last checkpoint: `PowerLoss` puts the file back to
any of them, because the connection runs with `synchronous=NORMAL`. `now` is the
PC's clock and `there` the phone's; each runs forward in its own time, so either
may be ahead. `ahead` is history: the requests granted while the phone's was.

| Actions | Code |
|---|---|
| `OpenLog`, `Migrate`, `Opened`, `Exit` | `open_connection`, `run_migrations`, `checkpoint` |
| `Ask`, `OnDenied`, `OnGranted`, `SendExecute`, `OnResult`, `OnDeadline` | the rows the owner writes for a call, each of which may fail (`log_req`) |
| `PhoneReceives`, `PhoneDecides` | the phone's log, committed before the PC hears |
| `VerifyRows`, `VerifyMeta`, `RepairRows`, `RepairWrite` | `log verify`, with and without `--repair` |
| `Query`, `ExportEvents`, `ExportRows`, `Diff` | the other log commands |
| `Tick`, `PowerLoss`, `EditFile` | clocks, power, someone with an editor |

The filters of `log query` and the chain columns of `log export` are modelled as
the code computes them; no property is about their result. What the properties
use of these commands is when they read.

### Pairing

`pc` is one run of `conveyance pair` per ceremony, with the nonce guard it
opened; `filter` is the file the guards share, which a run reads once and writes
whole. `link` gives each chunk by what the assembler makes of it: whether it
frames, the messages it completes, whether it leaves a partial message behind.
`phone` is the phone's `PendingPairing` driven by `PairingCoordinator`, with a
clock that may differ from the PC's. Two runs may be active at once, and nonces
may repeat, because the entropy source is a parameter of the code. `acks`,
`burned`, `company` and `known` are history.

### SecureLink

A byte is a cell. `noise` holds the phase and the two nonces of each end, `tx`
the frames an end has yet to write, `wire` the cells on their way (a header
cell starts a frame), `rx` the `InboundAssembler` with its `Framer`. What a
chunk does is a recursive function of its cells (`Ingest`), and what the
messages in it do a recursive function of them (`TakeMessages`).
`Receive(s, k)` takes any number of cells, so frames are cut and joined at every
place. `peer` is the static key an end has stored, right or stale. The phone
writes into the PC's bounded notification queue (`Room`), and an end does not
read while it writes, which is what `NoStandoff` is about. `Fault` loses a burst,
or repeats, swaps or damages frames.

### Daemon

`proc` is the place of each daemon or identity-creating command in its chain of
steps (load, create, key-encryption key, truncate, fill; identity, stores,
probe, bind, rebind, serve, drain); `keychain`, `locked` and `idfile` are what
the steps find, and `Kill` may fall between any two. `socket` holds the daemons
whose listener has the name, open or dead. The kind of name decides what a
create, a kill and a removal do:

| `config.socket` | Name | Taken by | A killed daemon | `remove_stale_socket` |
|---|---|---|---|---|
| `path` | a filesystem path | a file, whoever left it | leaves the file | removes it, or fails silently |
| `tmp` | namespaced, on a Unix other than Linux: a file under `/tmp` | a file, whoever left it | leaves the file | does nothing |
| `abstract` | namespaced, on Linux | a live listener | leaves nothing | does nothing |
| `pipe` | namespaced, on Windows | nobody for certain: several instances may exist | leaves nothing | does nothing |

A probe may miss a live listener (`PROBE_TIMEOUT`, or any other failure to
connect), and a create may fail for another reason. Two creating commands may run
at once. `raced` (a probe missed a listener, or one daemon bound while another
was past its probe), `overlap` (two identities were being created at once), and
`met` and `stuck` of a daemon (a rival served, or a leftover could not be
removed, while it started) are history.

`client` is the state of each client's one connection. `Lines` are the inputs of
the shim (`ParseLine`, `BuildIpcRequest`) and of the command line
(`CliRequest`). The session owner is reduced to whether a session is up and to
the outcomes it may answer with (`OwnerOutcomes`); `SessionOwner` is where those
answers come from. Which request a line becomes is modelled as the code decides
it; the properties ask only whether the call comes back.

### Protocol, WireCodec, TierPolicy, Codec

A byte string is a sequence of tokens, one per CBOR head. `scan_cbor` is the
preflight (definite and indefinite lengths, chunked strings, duplicate keys,
depth, tags, trailing data); `decode` reads the tagged structs behind it and
checks the canonical domain; `encode`, `to_canonical_string` and
`signing_payload` are the way out. The recursion of the scanner is a function
from the nesting levels left to what is found at each offset, and the loop over
a container a function of its turns. `Protocol` feeds every byte string of `Wire`
to the phone's object in any order and at any time, with `NewProtocol` for a new
session; `proto.tracker` is the binding tracker with its pending approvals and
tombstones and the two windows of `prune` and `validate_execute`. `Hear` is the
daemon's check of what the phone signed, over what was sent and what was
altered. `MockServes` is the scripted phone of the mock build.

`Codec` has no state of its own: it builds every token string and every pattern
and value up to its bounds, and compares the scanner with the grammar of
well-formed items (`Encodings`) and the matcher with the meaning of a pattern
(`Stands`). Values come from the PC and may hold a `*` of their own.

The operators marked as seeded faults are not part of the specification: each
is a plausible slip in the handler it stands before, and shows that a property
can tell the two apart.

## 3. Runs

| Run | Instance | Checks |
|---|---|---|
| `contention` | two authenticated calls and a services call, one session | `TypeOK`, `CallersAccountedFor`, `ExecuteAtMostOnce`, `GrantAlwaysBinds` |
| `sessions` | one call, two sessions, failing appends, one second daemon | `ExecuteNeedsApproval`, `WriteAhead`, `OutcomeMatchesRecord`, `EndIsOnRecord`, `OrphansAreOurs`, `TerminalIsFinal`, `ImplementsLifecycle` |
| `answered` | one call, perhaps too large, and one malformed one, timers | `EveryCallerAnswered` |
| `dropped` | two authenticated calls | `NoCallerDropped`: violated |
| `decisions` | phone: two requests, one authentication attempt each | `ApprovalIsTheUsers`, `NoLateApproval`, `SignsWhatWasShown`, `DecisionOnRecord`, `ShownWasSent`, `BusyHasTask` |
| `attempts` | phone: one request, two attempts | `ApprovalIsTheUsers`, `RequestResolved` |
| `log` | a daemon with one request, one command, the phone, a new or an old file, two clocks, a body that may be null | `NoFork`, `RecordedHeadIsPast`, `TamperEvident`, `HonestLogsReconcile`, `ForgeryReported` |
| `pair` | two ceremonies, one phone, repeating and zero nonces | `Agreement`, `ReplayMemory`, `CeremonyEnds` |
| `link` | two messages each way, matching or stale keys | `NoFalseAlarm`, `NoStandoff`, `InOrder` |
| `front` | two daemons, two creators, one client; eleven configurations with all kinds of socket name | `ServingIsReachable`, `RefusalIsEarned`, `IdentityAgrees`, `EveryCallAnswered` |
| `protocol` | twelve byte strings, two sessions, clock to 4 with a time to live of 1 | `ExecutesOnlyWhatWasApproved`, `WindowsMeet`, `HeardIsSigned` |
| `codec` | token strings up to 6, patterns and values up to 5 characters | `ScanIsExact`, `GlobIsSound` |

Deadlock is checked in the runs of the owner and of the phone. The others end
when their bounds are used up (rows, calls, messages, time), which is not a
deadlock of the program; where everyone waiting on everyone is the hazard, a
property says so (`NoStandoff`, `CeremonyEnds`, `EveryCallAnswered`).

The session owner's bounds are `MaxSessions`, `MaxRivals`, `Unloggable`,
`RouteQueueCap`, `CmdCap`, `PumpCap` and `InboxCap`; the code's capacities (8,
32 and 8) are replaced by 1 or 2, at which a full queue or channel is reached
within a few steps. Two calls are enough for every interaction of the flight
with the queue; a third only waits behind the second. Two sessions are enough
for anything that crosses a session boundary. Timers are in `answered`, where
they are what the property needs; elsewhere `PumpCap` is 0, since to the log and
to the callers a session that a timer ends is one that ends, which it also does
by command, by the phone and by a lost link. One second daemon is enough to meet
a call at every stage, and appends may fail any number of times.

On the phone two requests are enough for one to arrive while the other is being
decided, to overwrite `currentRequest`, and to make the other's destination
known; both go to a destination that only an earlier approval of this session
can make known. Overlapping attempts of one request need `MaxAttempts` = 2 and
no second request.

The bounds of the other runs are named in their modules:

- `log`: four rows are a whole call, or most of one on top of the row of an old
  file; one fault (a failed append, a power loss or an edit) at any point. The
  races of a command with the daemon need one of each. One second passes, on
  either clock and at any point, so that each clock is behind, level or ahead at
  the grant and at the execution.
- `pair`: one phone may scan either code, again after a failure; one fault, and
  two time units, so that every window (all are 1) is entered, left and, for the
  filter's retention, outlived. Two runs are what it takes to overwrite a filter.
- `link`: sequence numbers wrap at 2, so a message of four frames wraps in the
  middle; payloads are empty, middling and longer than Noise writes; the two
  ends cut frames at different sizes; the queue holds one frame.
- `front`: three starts and one fault (a kill, or a keychain entry lost or out of
  reach), with one call. A daemon finds what another left, or races it, and two
  creations overlap or one follows another that was interrupted. The
  configurations put each timer at its bound and one second outside.
- `protocol`: one time to live is one unit, so 4 passes both windows of an
  approval that was used at the last instant.
- `codec`: six tokens are enough for a map with a duplicate key, a chunked key,
  and nesting beyond the depth limit of 2; five characters for two stars that must
  both give back, in values with and without stars.

`contention` and `decisions` are symmetric in their requests; the others use no
symmetry.

Liveness of the owner assumes (`Fairness`): the owner task continues when it
can, the steps of a teardown included; commands and pumps are strongly fair,
because tokio's `select!` chooses at random among ready branches and a bounded
channel serves waiting senders in order; the hard cap fires, because it is an
absolute deadline. Nothing is assumed of the phone, the user, the radio, the
route deadline or the idle timer: the hard cap alone is what guarantees an
answer.

Liveness of the phone assumes that the clock reaches a request's deadline, that
coroutines, the database and the session thread go on when they can, and that a
send ends, because `BleActor` waits two seconds for a notification and then
tears the link down. Nothing is assumed of the user, the vault, the PC or the
session's own end.

`pair` assumes that time passes and that a ceremony's own process continues; of
the phone and the radio nothing. `front` assumes that processes and tasks that
can run do, and that the owner answers each command, which is
`EveryCallerAnswered`.

### Disagreements between comments and code

The run `dropped` checks what a comment says, that in `finish_approval` "every path
either answers its reply or re-installs a new flight, so ownership is linear here"
(`session.rs:919`), and ends in a counterexample: an approval followed by a drain
overwrites the re-installed flight, and the first caller's reply sender is dropped
although its operation is executed.

The passing runs contain eight more. For each there is a definition that says what
the comment says, and a small configuration under which TLC shows the
counterexample (for example `tlc -config Daemon_savers.cfg MCDaemon`):

| Definition | Configuration | Statement | What the code does |
|---|---|---|---|
| `NoUnloggedExecution` | `SessionOwner_unlogged` | `storage/mod.rs:20`: "an execution that cannot be logged must not happen" | `log_req` discards the error (`session.rs:737`) and the request is sent |
| `SweepSparesLiveCalls` | `SessionOwner_rival` | `recovery.rs:15`: an open call "means the process died between those steps" | the sweep runs before the socket is probed (`daemon/lib.rs:458`), so a second daemon closes a live call of the first, which then gets more rows |
| `HonestRowsVerify` | `ExecutionLog_nullbody` | `logdiff.rs:368`: the view is "everything the wire signature covered except the signature itself" | null fields are dropped (`:383`), so a signed null body is reported as a bad signature |
| `FailureBurns` | `Pairing_unburned` | `machine.rs:4`: "ANY rejection or timeout at AWAITING_CONFIRM ... BURNS the nonce" | a receive that times out or does not frame leaves before the filter is marked (`ceremony.rs:154`) |
| `ConflictsSurface` | `Daemon_usurped` | `server.rs:72`: "conflicts that appear between probe and bind surface as AddrInUse at create time"; `:100`: "removing it is reclamation, not vandalism" | on a path, a daemon that probed too early removes the live socket of another and binds it; both serve |
| `LeftoverIsReclaimed` | `Daemon_leftover` | `server.rs:12`: "A leftover that nothing answers is removed once and the bind retried" | only a name that starts with `/` is removed (`:137`), not the file under `/tmp` that a namespaced name is on some platforms, and a removal that fails is ignored (`:138`): no daemon can start |
| `SaversAreConsistent` | `Daemon_savers` | `identity.rs:123`: "each writer's file is sealed under whichever KEK it read -- self-consistent either way" | two creators at once: the file may be sealed under the key the other has replaced, and then nobody can open it |
| `GlobIsAnySequence` | `Codec_glob` | `policy.rs:137`: "`*` matching any sequence, including empty" | the literal is tried first (`:147`): a `*` in the value uses up the pattern's, so `*` does not match `*a`, nor the rule `*prod*` the value `*xprod` |

The properties of the passing runs say what holds in spite of this: each names
its exception by what happened (`unlogged`, `contested`, `ahead`, `raced`,
`stuck`, `overlap`), never by a constant that keeps it from happening.

`CallersAccountedFor` holds although a caller may be dropped: a dropped caller is
told something (that the owner stopped), so it is not left waiting. What it is
told is wrong.

These were met while modelling, too. The models do what the code does; no run is
about them, and the properties do not depend on them.

| Where | Statement | What the code does |
|---|---|---|
| `session.rs:837` | the slot "exists only while a session is up" | a failed send in `start_route` leaves an ended session in the slot |
| `session.rs:1173` | "their own turn arrives" | a queued call refused at once leaves the rest of the queue waiting |
| `session.rs:1230` | "No activity arrived in the grace window" | a timer event of an earlier session ends the current one |
| `session.rs:906` | an open call "means the process died" | an answered services call is later marked as crashed |
| `session.rs:1142` | `ApprovalTimeout` | is also the answer when the execute stage times out |
| `PhoneApprovalRuntime.kt:317` | "This request can no longer be approved." (on the screen) | a session lost after `beforeSign`: the approval is signed, logged and sent all the same |
| `logdb.rs:97` | the head "can never disagree with entries because of a crash", "only through external tampering" | a repair that raced an append records the head it computed before |
| `logcmd.rs:263` | "Full fidelity: chain columns ride along" | columns are looked up by request id and second, and may be another row's |
| `logdiff.rs:249` | `open_requests`: "with no decision recorded" | denied requests are among them |
| `noise/lib.rs:270`, `message.rs:345` | the Noise ceiling is "far above anything" passed through | the codec admits messages up to the reassembly cap, which is above 65535 bytes; Noise refuses those |
| `main.rs:181`, `daemon/lib.rs:144` | `logging.executions_db` names the log | the `log` commands open the default path |

## 4. Proofs

### The session owner

`SessionOwnerProofs` proves, for any sets of calls and any bounds that satisfy
`RequestsAssumption` and `BoundsAssumption`:

| Theorem | Statement |
|---|---|
| `InductiveInvariant` | `Spec => []IInv` |
| `TypeCorrect` | `Spec => []TypeOK` |
| `BindingNeverFails` | `Spec => []GrantAlwaysBinds` |
| `LogIsAhead` | `Spec => []WriteAhead` |
| `NoExecutionWithoutApproval` | `Spec => []ExecuteNeedsApproval` |
| `NoSecondExecution` | `Spec => []ExecuteAtMostOnce` |
| `RecordInvariant` | `Spec => []RecordInv` |
| `EndsAreOnRecord` | `Spec => []EndIsOnRecord` |
| `TerminalRowsAreFinal` | `Spec => TerminalIsFinal` |
| `SweepIsComplete` | `Spec => []OrphansAreOurs` |
| `LifecycleImplemented` | `Spec => ImplementsLifecycle` |

None of the properties is inductive alone. `IInv` adds to the types:

- `SlotShape`: where the owner stands decides what the slot may hold; only in the
  first steps of a teardown does the watch show a session that has ended, only
  in its first does an ended session still hold callers, and outside `Serving`
  the channels are empty.
- `QueuesShape`: a call waits in one place only, and a waiting call has left no
  trace in the log or on the radio. Without it `StartRoute` could write a first
  row after other rows of the same call.
- `TrailShape`: what has been sent for a call is on record unless an append for
  it failed, and a refused call was never sent for execution.
- `PipelineShape`: what the owner knows of a call in flight or in the hands of a
  half-done handler: asked, approved, not yet executed, not tombstoned before it
  is bound. This is what makes the binding-failure arms unreachable.
- `InboxShape`: a signed approval in the inbox was signed in this session.

`IInv` says nothing that a failed append or another daemon could disturb, and so
holds of every behaviour. What the log says is a second invariant on top of it,
`RecordInv`:

- `EndShape`: a session the watch no longer shows has its `session_end` row.
- `RecordShape`: the newest row of a call is the one the owner's stage calls for
  (`Reached`), an earlier one if an append failed; nothing is said of a contested
  call. This is what makes every appended row a legal step of the life cycle.
- `SweepShape`: a daemon that starts alone has every open call on its list, and
  they stay as it found them; whatever is open while one starts beside another
  is contested; and no call is contested unless a second daemon was started, so
  that with one daemon the exceptions are void.

`InductiveInvariant` and `RecordInvariant` go through the actions one by one.
`ExecuteNeedsApproval` and `ExecuteAtMostOnce` need history that `IInv` does not
carry; each is proved by its own induction on top of it. `LifecycleImplemented`
shows that every action appends at most one row and that the row moves the call's
phase along `RequestLifecycle`, sweeps and crashes included. There a call that
misses a row may skip the phases the row stands for, and only a contested call may
leave the cycle.

### The phone

`PhoneApprovalProofs` proves, for any requests, destinations, assignment of one
to the other, high-risk set, earlier approvals, history window and number of
attempts that satisfy the assumptions of `PhoneApproval`:

| Theorem | Statement |
|---|---|
| `InductiveInvariant` | `Spec => []IInv` |
| `TypeCorrect` | `Spec => []TypeOK` |
| `ApprovalsAreTheUsers` | `Spec => []ApprovalIsTheUsers` |
| `ApprovalsAreInTime` | `Spec => []NoLateApproval` |
| `SignaturesAreForTheRequestShown` | `Spec => []SignsWhatWasShown` |
| `DecisionsAreOnRecord` | `Spec => []DecisionOnRecord` |
| `VerdictsShownWereSent` | `Spec => []ShownWasSent` |
| `BusyScreensHaveATask` | `Spec => []BusyHasTask` |

`IInv` is the conjunction of these properties with what makes them inductive:

- `RxShape`: the request the dispatcher holds is registered and not yet
  accepted, its log is what the stage says, and tier 2 was given only to a
  request a tap may approve.
- `FreshShape`: a request that was never accepted has no task, signature,
  denial or attempt. So a second request cannot inherit anything.
- `ReviewShape`: `currentRequest` is the request on the screen or nothing;
  attempts are numbered, and the open one has neither passed nor been
  withdrawn. This is why an answer to an old attempt cannot approve.
- `BusyShape` and `TaskShape` (`Progress`): the stage of a task decides what is
  signed, logged and sent for its request, an approving task is `Justified`,
  and past the last check it has not missed its deadline.
- `SignedShape`, `GrantsShape`: one signature per request; a destination in the
  history was approved with an authentication at some time, which is what makes
  a chain of taps rest on one.

The proof has one lemma per action, with one step per conjunct the action can
disturb. TLC checked `IInv` on the instances of `decisions` and `attempts`
before it was proved.

### What callers are told

The last part of `SessionOwnerProofs` continues from the owner's `IInv`, under
the same assumptions:

| Theorem | Statement |
|---|---|
| `NoCallerForgotten` | `Spec => []CallersAccountedFor` |
| `AnswersMatchTheLog` | `Spec => []OutcomeMatchesRecord` |

`CallersInv` says, call by call, that a reply is pending exactly while the call
is in the command channel, in the queue, in flight or in the hands of a handler
(`Accounted`), and that the call in hand is not also the one in flight; so a
teardown, which answers them one by one, answers each once. TLC checked it on the
instance of `contention`.

### The execution log

`ExecutionLogProofs`, for any processes, requests, bodies and bounds that satisfy
the assumptions of `ExecutionLog`:

| Theorem | Statement | Hypothesis |
|---|---|---|
| `Invariance` | `Spec => []Inv` | |
| `OneChain` | `Spec => []NoFork` | |
| `HeadsArePast` | `Spec => []RecordedHeadIsPast` | |
| `EditsAreSeen` | `Spec /\ [](edits <= 1) => []TamperEvident` | `Malformed \notin Hashes` |
| `HonestLogsAreClean` | `Spec => []HonestLogsReconcile` | |
| `ForgeriesAreReported` | `Spec => []ForgeryReported` | |

A second edit can put back what the first one took, so an edit is seen for ever
only if it is the only one, and a string that is not 32 bytes long is not a hash.
The invariant speaks of every state in `wal`, because a power loss may bring any of
them back:

- `ChainInv`: as long as nobody edits, each of them is an unbroken chain whose
  recorded head it has had, and a repair that has read but not yet written
  carries a head the file has had, whatever was appended since.
- `GrantInv`: the phone's rows are in the order of its clock, and every row of
  an execution, in every state of `wal`, is covered by a grant in the phone's log,
  earlier by its time unless the phone's clock was ahead when it was given.
- `EditInv`: after one edit each of them fails the walk. The walk accepts a file
  exactly if no row is faulty (`WalkIsExact`).

TLC checked the invariant on the instance of `log`.

### Pairing

`PairingProofs`, for any ceremonies, phones, nonces, windows and clocks
(`PairingBounds`):

| Theorem | Statement |
|---|---|
| `Invariance` | `Spec => []Inv` |
| `PairingAgreement` | `Spec => []Agreement` |
| `BurnedNoncesAreRefused` | `Spec => []ReplayMemory` |

`Agreed` adds to the property what the steps before a pairing hold: a confirm a
run has heard was sent by its phone or is not one, a run about to record has
acked, a phone about to save has seen an ack for its keys. `Memory` says which
filters remember a burned nonce: the file, and every copy held by a run that
began after the burn; two runs at once know of each other (`company`), which is
why the property is about a nonce burned by a run that was alone. TLC checked
the invariant on the instance of `pair`.

### The link

`SecureLinkProofs`, for any message and frame sizes, sequence space, capacities
and bounds that satisfy `LinkBounds`:

| Theorem | Statement |
|---|---|
| `Invariance` | `Spec => []Inv` |
| `MessagesInOrder` | `Spec => InOrder` |
| `EndsNeverStandOff` | `Spec => []NoStandoff` |
| `NoFalseAccusation` | `Spec => []NoFalseAlarm` |

`InOrder` is the refinement of `MessageChannel`. Its proof does not look at the
framing: the air and the assembler make no cells, so whatever is lost, repeated
or swapped, a cell that is read belongs to a message that was sealed (`Made`), a
ciphertext that opens under a nonce is the one sealed under it, and so an end
has given out exactly the first `rx` messages the other was handed (`ReadInv`).
`NoStandoff` needs `Turns`: nothing is under way before the phone has opened the
handshake, so no end is found waiting for its turn with cells before it.
`LinkBounds` has the code's relations between its constants: two frames, and
the longest ciphertext Noise writes, fit the reassembly cap.

`NoFalseAlarm` is where the framing matters. A reading (`Reads`) is what the
assembler makes of cells if it finds no fault in them: every header names the
sequence number expected, starts where the frame before it is whole, and neither
the frame under way nor the message exceeds its cap. The invariant `Calm` says of
each direction of a matched pair without faults that an open end's assembler
reads all that is on the wire and then all that waits to be written, and that it
then has given out what was said and holds nothing over. A send adds the frames
of one message at the far end of that reading (`SplitReads`: a message that was
split reads back as itself, whatever its size and wherever the sequence number
wraps), a write moves a frame along it, an ACK is read without a trace, and a
receive takes a chunk off its near end (`IngestReads`: the assembler reads a
chunk as it reads its cells one by one, so where frames are cut does not matter,
and what it buffers stays under `Cap`). What comes out is then the next messages
said, each of which opens under the nonce the end is at (`TakesSaid`). `Calm`
quantifies over readings, which TLC cannot enumerate; TLC checks the property
itself, and finds it violated once sequence numbers no longer wrap.

### The daemon

`DaemonProofs`, for any daemons, creators, clients and configurations:

| Theorem | Statement |
|---|---|
| `Invariance` | `Spec => []Inv` |
| `Reachability` | `Spec => []ServingIsReachable` |
| `EarnedRefusal` | `Spec => []RefusalIsEarned` |
| `IdentityAgreement` | `Spec => []IdentityAgrees` |

`SocketInv` is about the four kinds of name together. An open listener on an
abstract name or a file under `/tmp` is the only one to have the name, whatever
the probes do (`NameLeads`); what is not a file is gone with its listener
(`OpenOnly`); until there has been a race, an open listener has any name to itself
and nobody is past the probe (`Alone`), which is where the probe is needed; and a
daemon no rival has met since its probe finds the name not served and, at its
second attempt, the file gone unless it was stuck (`FreeUntilMet`).
`StoreInv` says what the file is at each step of a save (`Underway`), and that a
complete file is sealed under the key in the keychain or under one that was
lost; it is kept until two processes create an identity at once. TLC checked both
invariants on the instance of `front`.

### The protocol object and what the daemon hears

`ProtocolProofs`, for any byte strings a peer may send, policies, histories,
decisions, times to live and codec limits that satisfy `LimitsAssumption` and
`ProtocolAssumption` (the numbers are naturals, a byte string is a finite
sequence):

| Theorem | Statement |
|---|---|
| `BindingHolds` | `Spec => []ExecutesOnlyWhatWasApproved` |
| `WindowsLeaveNoGap` | `Spec => []WindowsMeet` |
| `AcceptedWasSigned` | `Spec => []HeardIsSigned` |

The first two rest on `Bound`: the tracker is what the history of the session
makes it (`Tracked`). Every approval that nothing took out is pending with the
time and the canonical JSON of its decision (`PendingIs`); every one that was
used or spoiled is a tombstone as long as tombstones count (`ConsumedIs`); an id
is decided once, and what passed was approved at most one time to live before
(`DecidedIs`, `SpentIs`). `prune` drops only what no longer counts
(`PruneTracks`), `record_approval` and `validate_execute` take the tracker and
the history the same step (`RecordTracks`, `ExecuteTracks`), and the clock takes
tombstones out of the window without bringing one back. TLC checked `Bound` on
the instance of `protocol`.

The third is about bytes. `Genuine` says that what is on the link is nothing or
the bytes of a message that somebody wrote: one whose signature, if it has one,
is recorded in `signed` or is nobody's. A peer that alters it on the way, and
the daemon that decodes it, must then agree with the writer on its kind and its
signature. A value is `Solid` if the scanner, wherever it finds the value's
words and with however many levels left, either fails or ends right behind them
and gives back the same words. Every word is (`SolidWord`), and so is every
array of such values (`SolidArray`) and every map of them with distinct keys
(`SolidMap`), by invariants of the loop over a container (`ArrayAt`, `MapAt`).
The scripted phone echoes what it was sent, so it must also be shown that
whatever the scanner finds in an arbitrary input is `Solid` again (`ScanGood`).
With this the codec reads back what it wrote (`BytesAre`, `DecodeWritten`), and a
signature that verifies names the payload it was made over (`VerifiedIs`,
`AcceptedIs`). `Solid` quantifies over all byte strings, so `Genuine` cannot be
given to TLC; TLC checks the property itself, and finds it violated once
optional fields are left out of the payload.

### The two algorithms

`CodecProofs`, for any tokens whose argument is a length or the mark of an
indefinite one, any characters, any bounds (`CodecAssumption`) and
any nesting limit:

| Theorem | Statement |
|---|---|
| `GlobMatchesItsMeaning` | `Spec => []GlobIsSound` |
| `PreflightIsExact` | `Spec => []ScanIsExact` |

The matcher: `Stands` is first read as a relation between the places of the
pattern and those of the value (`MeaningOf`). For any value, a match from where
the loop is, or from any retry of the last star, is a match of the whole
(`IsSoundState`), so the matcher accepts nothing it should not. For a value
without a `*` the converse holds, too: the value matches exactly if it does so
from where the loop is, or from a later retry of the last star. Giving up all
earlier stars is sound because a pattern that matches from a place behind a star
also matches if an earlier star took more (`LaterMeets`); the loop ends because
each turn moves on or retries one place further.

The preflight: the grammar builds byte strings up, level by level and thing by
thing, and the scanner takes one apart. Both are brought to places of the input:
`Exact` says that the stretch from `o` to `e` is in the grammar with so many
levels left exactly if a read from `o` at that level succeeds and ends at `e`, and
that no read starts at a break. It is shown level by level (`RowsExact`, `HeadExact`).
Strings are compared chunk by chunk (`StringExact`), the text of a chunked key
with the text the grammar gives it (`TextRead`). For containers both directions
need an invariant of the loop. A loop that has not failed is at the end of a
body of the grammar, or behind the break after one, with the keys it has had
those of the body, and has taken a token a turn, so that as many turns as there
are tokens end it (`Found`, `LoopFinds`); and after as many turns as a body of the
input has things, the loop is at that body's end (`Follows`, `LoopFollows`). One
turn is the same argument for arrays and for maps, over what each is made of
(`Served`, from `ArrayStep` and `MapStep`).

### What is only model-checked

- `EveryCallerAnswered`, `RequestResolved`, `CeremonyEnds` and
  `EveryCallAnswered`: liveness under fairness is outside the prover's reach.

Every invariant and every action property the runs check is also a theorem, a few
under the hypotheses the tables above name.

The provers cannot use an induction principle that takes a predicate as a
parameter. Where a proof needs induction over the rows of a log, the cells of a
chunk or the levels of a nesting, it takes the least element of the set of
counterexamples instead (`FirstOf`), and unfolds a recursive function one
argument at a time.

## 5. Not modelled

- Phone BLE transport: driven by callbacks of the Android Bluetooth stack, whose
  order no file of the repository fixes. `SecureLink` and `PhoneApproval` model
  what its users see: chunks in order, loss, a send that ends, teardown.
- The watchdog's clock arithmetic (`timers.rs`): `SessionOwner` lets timer events
  happen at any time, which covers every schedule of them but cannot say which
  activity a given expiry should have seen.
- The phone's session start (promotion of a handshake against cancellation) and
  its timers.
- The vault, the migration of wrapped credentials, and the store of services on
  the phone.
- `sealed.rs`, `kdf.rs`, `recovery.rs` and the primitives: byte formats and
  arithmetic without state; the models use symbolic terms for them.
- Argument parsing, prompts, printing and the user interface; scanning, GATT
  discovery and MTU negotiation on the PC, which are calls into the platform.

