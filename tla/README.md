# Verification of the session gateway

TLA+ models of `ani-session-gateway`, the TLC configurations that check them on
small instances, and TLAPS proofs, for every value of the constants, about both
session stores, both kinds of session, the opening of streams and the whole process.
Paths below are relative to the repository. Every definition that models code is mapped to
its lines in `PROJECT.json`.

## 1. The system

The gateway issues one-time tickets for interactive sessions (a pod's exec, a
VM's serial console or VNC), admits a browser that presents a ticket over a
WebSocket, and carries bytes between the browser and Kubernetes or KubeVirt
until the session ends. Several replicas share one Redis.

    gRPC Issue/Replay -> session.Manager -> Store (memory | Redis)
    WebSocket upgrade -> Handler -> Manager.Claim -> connectedsession.Run
                                       Run -> runtime adapter -> stream
                                       Run -> pumps -> outcome -> Manager.Close

### Inventory

| Component | State | Operations | What is hard | What makes it correct |
|---|---|---|---|---|
| Session model (`internal/session/model.go`, `store.go`) | session record, lease | - | - | - |
| Manager (`session/manager.go`) | none of its own; reads the clock | Issue, Replay, Claim, Close | the clock is read before the store's mutex or round trip | a ticket handed out opens the session it names; one claim per ticket |
| Memory store (`store/memory`) | `sessions`, `byKey`, `leases` behind one mutex | CreateOrGet, GetByKey, ClaimAndReserve, CloseAndRelease, cleanup | stale clock readings, three maps edited separately, expiry only when somebody calls | maps agree, limits hold of live connections, keys outlive sessions |
| Redis store (`store/redis`) | hashes, idempotency keys, two kinds of sorted sets | the same, as sequences of round trips and three Lua scripts | interleaving between round trips, lost replies, resends, dead gateways, skewed clocks | the same, and every lease ends in time |
| WebSocket admission (`transport/websocket/handler.go`) | a `release` flag | ServeHTTP | failure between claim and hand-over | the lease is returned on every path |
| Connected session (`connectedsession/module.go`, `exec.go`) | channels, queues, timers, contexts | Run; reader, input, output, writer and waiter pumps; the main select | `select` takes any ready case; pumps block; the end of the session races itself | the outcome reported is the truth, output keeps its order, the session ends, nothing leaks |
| Kubernetes exec adapter (`runtime/kubernetes/exec.go`) | pipes, a queue of terminal sizes, the executor | WriteStdin, ReadStdout/Stderr, Resize, Wait, Close | the executor's end closes everything at once | end of file follows the last output |
| Pod resolver (`runtime/kubernetes/pod_resolver.go`) | none | Resolve | pods change once listed; exec goes by name | the newest ready pod of the target; with a binding only the frozen one |
| KubeVirt adapter (`runtime/kubevirt/adapter.go`) | a connector goroutine and a channel; pipes | open, managedStream | connect has no context and goes by name; deadline against answer | the session gets only the frozen instance; no stream is lost |
| Resource validator (`runtime/resource`) | none | ValidateVM, Validate | the answer is stale once read | - |
| gRPC control plane (`transport/grpc`) | none | CreateSession, GetSessionReplay, health watches | a call whose message never comes; a key repeated by another caller, with other options, or after a restart | a ticket is for the intent asked for, and a managed one for Governance only |
| Configuration and store selection (`internal/config`, `store/select.go`) | none | Load, Select | the same limits are checked again by every constructor | what Load accepts serves |
| Process (`cmd/session-gateway`) | listeners, servers, deferred releases | boot, serve, graceful stop | a failure half way; requests and RPCs that outlive the stop | a stop ends |
| Observability, router | counters, spans | - | - | - |

Interactions: the manager calls the store; the handler claims, then gives the
lease to `Run`, which calls `Manager.Close` at the end; `Run` opens a stream with
an adapter; the server's context is the parent of every session's context, so
shutting down reaches the session, the adapters and their streams at once.

## 2. Modules

| Module | Models | State and actions against the code |
|---|---|---|
| `SessionModel` | `session/model.go`, the candidate of `Manager.Issue`, the checks of `Manager.Replay` | the session record and the transitions both stores write (`Candidate`, `TicketExpired`, `Claimed`, `Released`) |
| `MemoryStore` | `store/memory/store.go` with its callers in the manager | one variable per map; one action per operation, each of which cleans up first with its caller's `now`, any reading between the start and the present; `access`, `grants`, `reply` are history |
| `SessionStore` | the contract of `session.Store` | abstract: fresh IDs, offers, active claims, the owner of a key |
| `RedisStore` | `store/redis/store.go` with its callers | one action per round trip; each script is atomic; `Arrive` models the reply or its loss and the resend; `Fail` the end of a call anywhere; `HolderDies` the death of a gateway; `Tick` expires keys by Redis's clock |
| `Connection` | what the gateway promises of one WebSocket request | abstract: its stage, its stream, how often its lease was returned, its share of the gauge of connected sessions; `Steps` is its safety part |
| `SessionRun` | `ServeHTTP` of `websocket/handler.go`; `Run`, the select loop, `writeFinal`, `complete` of `connectedsession/module.go`; the gauge | the main goroutine that exec and console sessions share: `Admit`, `Upgrade` and `Deferred` are the handler with its `release` flag, `OpenSucceeds` needs a context that is not done, `WriteTerminalError` and `WriteFinal` are the error frame and the close of `writeFinal`, `Complete` closes the session |
| `ExecStream` | `runtime/kubernetes/exec.go` from `newExecStream` on | executor goroutine, pipes, size queue |
| `ExecSession` | `connectedsession/exec.go` on `SessionRun` | one action per channel operation or blocking call of each goroutine; `pump[p]` is the frame a pump holds |
| `ManagedStream` | `managedStream` of `runtime/kubevirt/adapter.go` | provider and watcher goroutines, pipes, `Close` |
| `ByteSession` | `carryByteStream` of `connectedsession/module.go` on `SessionRun` | as `ExecSession`, with two pumps |
| `Adapters` | what `OpenExec`, `OpenSerial`, `OpenVNC` and `open` refuse before they look at the cluster | operators on the binding and the configured cluster |
| `ExecOpen` | `OpenExec` of `runtime/kubernetes/exec.go`, `PodResolver.Resolve`, `Validator.Validate` | one action per remote call (`Validate`, `Resolve`, `OpenStream`) and one for the start of the command behind its UID guard; pods change between any two steps |
| `ConsoleOpen` | `Adapter.open`, `validateManaged`, `matchesVMI` | one action per remote read; the connector goroutine; the cluster changes between any two steps |
| `RuntimeOpen` | `openExecStream` and `openByteStream` of `connectedsession` | `Dispatch` chooses the adapter by the mode, then `ExecOpen` or `ConsoleOpen` takes over |
| `Config` | `config.Load`, and what every constructor that `run()` calls demands | predicates on an environment, in which a setting is absent, malformed or a value |
| `ControlPlane` | `mapRequest`, `validateRequest`, `Fingerprint`, the early part of `Issue`, the checks of `Replay` | operators on messages and requests; sizes keep their widths; `WellFormed` is the message type with its `oneof`, `Text` what the fingerprint writes of a number |
| `Gateway` | `run()` of `cmd/session-gateway/main.go` with what it serves | one action per step of the boot, the stop and the deferred releases; RPCs over `ControlPlane`, which are there from their headers on (`OpenRPC`), before their message comes; WebSocket requests that behave like `Connection`; crashes and restarts in another environment |
| `MC*` | - | small instances |
| `SessionModelProofs` | - | the types of the session's transitions, for both stores |
| `MemoryStoreProofs`, `RedisStoreProofs` | - | invariants of each store; each implements `SessionStore` |
| `SessionRunProofs` | - | what the main goroutine keeps, for both kinds of session |
| `ByteSessionProofs`, `ExecSessionProofs` | - | invariants and outcomes; each step is one of `Connection` |
| `RuntimeOpenProofs`, `GatewayProofs` | - | invariants of the opening of a stream, and of the process |

Operators marked *Mutant* in the modules are plausible mistakes in the definition
that follows them. No specification uses them; they show, when put in its place,
that the named property notices.

### Abstractions

- Times are small naturals; a session ID stands for its ticket, digest, lease ID
  and ciphertext, which the code draws together. In the store modules a
  fingerprint is the intent; that it tells intents apart is checked in `Gateway`,
  where it is the sequence of values the code hashes.
- In `MemoryStore` a call is one step because the mutex makes it one; the
  clock reading is the only thing taken outside, and it is any earlier time.
- Timers of the sessions may fire whenever the main goroutine selects. That is
  more than the code does, so what holds here holds for every duration.
- A frame is its kind, or the number of the chunk of an output. `delivered` holds every
  frame the client is sent once it is connected: output, exit, and the error frame that `writeFinal`
  sends, past the outbound queue, for the outcomes that are failures of a terminal.
  Decoding is valid or invalid. Where Go's `select` has several ready cases, any is taken.
- The remote command, the console, the cluster, Redis and its client library are
  external: they do what the code can observe of them.
- `Gateway` keeps of the store only the session each key names, and of a session
  only the steps of `Connection`, which both session modules are shown to implement.
  An instance's ID and workload name are one value, and so are the names and UIDs of
  a binding's frozen objects.
- `Manager.Replay` reads the clock twice; one reading is modelled, since every
  check refuses more as time passes.

## 3. What is checked

| Run | Shows | Instance |
|---|---|---|
| `memory_store` | the three maps agree; the connections alive stay within the limits; a ticket admits once; an admitted connection keeps its lease whatever stale times others sweep with; refusals for capacity are real; a ticket handed out opens its session; keys are held until the tombstone; and `MemoryStore` implements `SessionStore` | 2 IDs, 2 keys, 2 subjects, 5 ticks; the per-subject limit binds |
| `redis_store` | here with clocks in step, two calls in flight, lost replies, one resend, failures anywhere and dead gateways: a ticket admits once, leases are kept and given back in both sorted sets, refusals for capacity are real, answers of Issue match the request; and `RedisStore` implements the same `SessionStore` (for any skew by proof, section 5) | 2 callers, 2 IDs, 4 ticks; the global limit binds |
| `redis_skew` | what survives when clocks differ by one unit: the limits of the sorted sets, key and session live and expire together, every lease is due within SessionMaxDuration | 2 callers, 1 subject, skew 1; the per-subject limit binds |
| `exec_session` | output reaches the client as a prefix, in particular nothing of an output after a chunk that found the queue full, although the writer goes on; no output follows the exit frame | no terminal: two outputs, 3 chunks, outbound queue of 1; a silent client |
| `exec_liveness` | an exec session implements `Connection`: its lease is returned exactly once, after its stream was closed, on every path, and it ends; no goroutine is left; the outcome is what happened: `normal` after the exit frame was sent, `client_closed` by the client, `shutdown` by the server, `backpressure` by a full queue | a terminal, one chunk, one message, queues of 1 |
| `byte_session` | a console session implements `Connection` too; the outcome blames the console only if the console ended, and the client's close is preserved; nothing is left behind | both modes, 2 chunks each way |
| `runtime_open` | opening returns; a session that is frozen gets only the frozen instance of this cluster, its command runs only in the frozen pod; a received stream has an owner; the pod resolved is the newest ready one, ties by name | three modes; no binding, one of this cluster, one of another; with and without Resource; two pod names, two creation times, every change of the cluster |
| `gateway` | InitTracing, NewManager, NewAdapter, connectedsession.New and NewHandler refuse nothing that `Load` accepted; the ticket that answers a request is for that very request, also when its key was used before; a managed ticket goes to Governance only, also after a restart; a stop ends, unless a gRPC client holds it up for ever | two boots, one key, one WebSocket request and one RPC at a time; 11 messages, 4 queries; each environment that differs from a serving one in one setting |

### Bounds, and why they are enough

- Times: `TicketTTL = 1`, `SessionMaxDuration = 2`, `IdempotencyTTL = 1` within
  four or five ticks reach every order of ticket expiry, lease expiry, tombstone and
  reuse of the key, and each boundary exactly.
- Limits: where `MaxActive = 2` and `MaxActivePerSubject = 1` the per-subject limit
  binds, where both are 1 the global one binds across subjects.
- IDs: two. A conflict, a race for a limit and the reuse of a key after its
  session was forgotten each need two sessions; the proofs of section 5 do not
  depend on the number.
- Two Redis callers: every property relates at most two calls in flight, and a
  third enters by following one that ended or failed. `RetryWindow` says how long
  after its call a script may still be resent; the code's timeouts make it far
  shorter than a session's tombstone, which `RetryAssumption` states.
- `Gateway`: its properties relate two requests with one key, or one key and one
  boot to the next, so one key, two boots and one RPC at a time reach them; what
  concurrent calls do in a store is checked in the store modules. The messages
  differ in each way the fingerprint could miss: a size that only its low 16 bits
  hide, a binding or its version, a serial console for VNC, and a command whose
  words read like the options and the binding of another message. Settings are
  checked one by one in the code, apart from the pairs it compares, which the values
  of `MCGateway` make meet (`TICKET_TTL` 900, equal addresses, `http` origins).
- Queues of capacity 1 (32 in the code, 8 for sizes) fill, and leave room, with
  few messages. `MaxOutput` bounds the chunks of both outputs together. A chunk that is
  delivered after a dropped one takes three: one fills the queue, one is dropped, and
  the writer makes room for the third. So `exec_session` has three, and, to stay within
  minutes, no message of the client (`MaxMessages = 0`): the order of output depends on
  the client only by its leaving, which it may at any time. An error frame after the
  exit frame still occurs there: a chunk is dropped, its backpressure is pending, and the
  wait for the ack takes it. What messages do to the outcome is checked by
  `exec_liveness` with one; that an inbound queue fills takes two, which the proof covers.
- Symmetry (IDs, keys, callers) is used in the store runs, which check safety only.

### Fairness

Goroutines that can run do; the session timer fires; a write ends within
`WriteTimeout`; a blocked socket read ends once the socket or its context has;
the executor returns once its context is done; the provider returns once its
connection is closed; remote reads and the opening of a stream end by their
deadlines. Nothing is assumed of the client, of the command, which need not read
its input, write or exit, of the console, or of `connect`, which has no context
and may never return. In `Gateway` the steps of `run()` are fair, and so is the
answer of an RPC whose message came, since Resource and Redis are asked with deadlines;
no fairness is assumed of requests or of clients. `GracefulStop` waits without a deadline
for a health watch, and for a call whose handler was entered, which grpc-go does when its
headers come, before the message. `ShutdownEnds` therefore excepts a client that watches
for ever and one that never sends the message of a call it opened. Store runs check
safety only: the code has no background cleanup, so nothing happens in a store unless somebody calls.

CHECK_DEADLOCK is off everywhere: a store whose IDs and time are used up, and a
session that is over, or a process that ended, really stop.

## 4. Where the code and what is said of it differ

| Run | What TLC shows |
|---|---|
| `exec_late_input` | input held by the pump when the command exits fails on the closed stdin; the session may report `runtime_failed` and send no exit frame (`exec.go:150`) |
| `byte_shutdown` | on shutdown the stream's watcher closes the pipe first; the writer pump reports a normal end, and the client sees 1000 instead of 1001 (`module.go:219`) |
| `console_late` | the connector's stream lies in the channel while `open` returns the deadline's error; nobody disposes of it (`adapter.go:214`) |
| `gateway_shutdown` | on a signal `run()` waits for RPCs and for requests that are not upgraded, then closes the store and returns; sessions that are still closing their streams lose the store, and their leases stay until they expire (`main.go:176`) |

Two more are visible in `OutcomeIsTrue` of `ExecSession`, one in `NoOutputAfterExit`.
If the server shuts down while a command completes, `enqueue` sees the canceled context and the session reports
`backpressure` although no queue is full (`exec.go:217`); the property excepts it.
And `normal` does not say that all output was delivered: a chunk dropped for
backpressure is signalled, but if the command exits before the main goroutine runs,
its select may take the completion instead. The exit frame is not always the last one:
the wait for its ack may take a signal that is pending too (`exec.go:227`), and then
`writeFinal` sends an error frame after it.

In `Config` the check that HTTPS origins need a `wss` URL looks at the origin as it was
written (`config.go:125`), while the scheme was parsed without regard to case: an origin
spelled `HTTPS://` passes it. No property depends on it. `store.Select` may refuse a
`REDIS_URL` that `Load`, which only asks that there is one, accepted (`select.go:30`);
`AcceptedConfigServes` does not speak of it.

## 5. What is proved

Every invariant, action property and safety refinement that a passing run checks is
also a theorem, for all values of the constants: any number of IDs, keys, callers,
chunks, pods, messages and environments, any limits, durations and queue sizes.
Each module's invariants are built in layers, and each layer is proved on top of the
ones before. TLC checked every layer on a small instance first.

### Assumptions

| Assumption | Says | Why the code justifies it |
|---|---|---|
| `LimitsAssumption`, `SetsAssumption` (`SessionModel`) | limits and durations are positive; IDs are finite in number; every intent has a subject | `NewManager` refuses others; an intent names its subject |
| `RetryAssumption` (`RedisStore`) | `RetryWindow < TicketTTL + IdempotencyTTL` | a call lasts seconds; a tombstone, by default, sixteen minutes |
| `ExecStreamAssumption`, `ExecSessionAssumption` | the queues have room for at least one element | the capacities are constants of the code, 32 and 8 |
| `RuntimeOpenAssumption` | pod names are ordered, the frozen name is one of them | names are strings, compared with `<` |
| `EnvironmentAssumption` (`Gateway`) | a list of origins that is given has an item | `strings.Split` never returns an empty list |
| `MessageAssumption` (`Gateway`) | messages are of the protocol; numbers and Booleans that differ are written differently | the `oneof` of the options; `fmt.Sprint` |
| `NoneAssumption`, `EntryAssumption`, `BootAssumption`, parts of the others | the value `None` is no other value; bounds are naturals | modelling only |

Three theorems about Redis have a hypothesis besides. `RetryMargin` says that, if
scripts are resent at all, they are resent only while the tombstone of a session that
was created and claimed with skewed clocks is sure to be there:
`RetryWindow + 2 * ClockSkew < SessionMaxDuration + IdempotencyTTL`. Without it a
`create` that is resent late stores the session anew and its ticket opens twice; TLC
finds that behaviour when the margin is dropped. `config.Load` demands
`TicketTTL < SessionMaxDuration`, so with clocks in step the margin follows from
`RetryAssumption`; with skew the right side is still half an hour by default. `LeaseWhileInUse` further needs `ClockSkew = 0`: a gateway whose clock
is ahead sweeps leases early.

### Memory store (`SessionModelProofs`, `MemoryStoreProofs`)

None of the properties is inductive alone. That a lease exists exactly for a claimed
session is preserved by cleanup only if cleanup reaches sessions through an exact key
index.

1. `StoreInv`: types, `LeaseIffClaimed`, `KeyIndexExact`, sessions only for drawn IDs.
   Cleanup alone is shown to preserve the consistency of the three maps (one lemma for
   all callers), then each operation on top of it.
2. `GrantInv`: an ID was granted at most once, and only if its session is no longer
   issued or is forgotten; a forgotten ID stays drawn, so it cannot be issued again.
   Gives `SingleClaim`.
3. `LeasesWithinLimits`: cleanup only removes leases, and a claim adds one below both
   limits.
4. `AccessInv`: a held access that is not past has its lease with the same expiry, and
   the tombstone of a held session lies IdempotencyTTL after its access: readings are
   never ahead of the clock, so a sweep cannot drop it. Gives `AccessKeepsLease`, with
   layer 3 `LiveConnectionsWithinLimits`, and `KeyHeldUntilTombstone`.
5. `CapacityRefusalIsReal` and, with the ciphertext of a session being that of its own
   ticket, `IssuedTicketOpensSession`.
6. `ImplementsContract`: unused IDs, issued sessions and leases are the contract's
   fresh IDs, offers and claims; each operation, with its cleanup, is one step of it.

### Redis store (`RedisStoreProofs`)

Any number of calls in flight, at any round trip, any losses and resends, dead holders
and (but for one theorem) any skew.

1. `CallInv`: types, and what a call knows at each of its round trips.
2. `LeasesWithinLimits`, `LeaseEndsInTime`: properties of the sorted sets that each
   script keeps.
3. `IdentityInv`: a key and its session live together; what a call carries agrees with
   what is stored; one call at most creates a session. Gives `KeyAndSessionLiveTogether`,
   `IssuedTicketMatchesRequest`, `CapacityRefusalIsReal`.
4. `ClaimInv` (with `RetryMargin`): a granted session is not issued again, since its
   `create` is no longer resent or meets the tombstone. Gives `SingleClaim`.
5. `LeaseInv`: `HolderInv` (one holder at a time), `LeaseOwnerInv` (leases are the
   session's subject's and end with it), `HeldInv` (a lease that no clock has seen
   expire is there). Gives `LeaseWhileInUse`.
6. `ContractInv` (a lease does not outlast its session's record), and with it
   `ImplementsContract`, for any skew. The hard step is the resent `create`: it offers
   nothing new unless the session was never stored.

### Sessions (`SessionRunProofs`, `ByteSessionProofs`, `ExecSessionProofs`)

`RunInv` is what the main goroutine keeps whatever it carries: where it stands tells
whether there is a stream, who is to return the lease (the `release` flag) and what the
gauge counts. Both kinds of session instantiate its lemmas.

- Console: `ByteInv` (types, and no chunk is delivered that was not written), `OutcomeInv`
  (a signal the select loop can still take is true). Gives `OutcomeIsTrue`.
- Exec: `ExecInv` (stream, pumps, queues). Then the *line*: what the client got, what the
  writer pump holds and what is queued, in this order. The writer moves frames along the
  line and only the pumps append to it; `OrderInv` says that the line is in order and
  that each output pump holds the next chunk, `ExitInv` that the exit frame comes when
  every pump has stopped, and after all output. The error frame of `writeFinal` enters the
  line in the middle, before what the writer holds; `Inserted` says that this disturbs
  neither. Gives `OutputIsPrefix` and `NoOutputAfterExit`.
  `SignalInv` gives `OutcomeIsTrue`.
- `TakesConnectionSteps`, for both: the session's initial state and steps are those of
  `Connection` (`Conn!Steps`), so the lease is returned at most once, and after the
  stream was closed. This is the safety part of `ImplementsConnection`.

### Opening a stream (`RuntimeOpenProofs`)

`AcceptedInv` (whatever runs was let pass by the adapter), `StreamInv` (where the
provider's stream can be, by the steps of `open` and of the connector) and `DialedInv`:
what is gone does not come back under the same UID, so what the second validation sees
was already there when `connect` went by name. Gives `SessionGetsBoundConsole`,
`ReceivedStreamHasOwner`, `CommandRunsInBoundPod`. `ResolvesNewestReady` rests on the
least element that every non-empty set of sort places has.

### Process (`GatewayProofs`)

1. `ProcessInv`: past `load`, the environment is one that `Load` accepts; what each
   constructor but `store.Select` demands of limits, timeouts and URLs follows from that,
   setting by setting (`LoadedSuffices`). Gives
   `AcceptedConfigServes`.
2. `FingerprintTells`: two accepted messages with one fingerprint are one message. The code
   hashes a sequence that counts neither the words of a command nor its parts, so this is
   not obvious. The six names in front have fixed places, the mode among them. A console
   has no command, so the length tells whether a binding follows. In exec the
   last item tells it: unbound, it is the protocol, which is empty, and bound, the shell,
   which is not. So the parts behind the command have equal lengths, and what is left is
   the command. Narrowing the sizes to 16 bits loses nothing, since a message whose sizes
   do not fit is refused.
3. `StoreInv`, `RpcInv`: the store holds accepted messages only, also after restarts; an
   RPC runs in the configuration its peer was checked in, and what it got is its own
   message. Gives `TicketForSameIntent`, `ManagedTicketsOnlyToGovernance`, `TypeOK`.

### Only model-checked

Liveness under fairness is out of TLAPS's reach, as is ENABLED: that every session ends
(the fair part of `ImplementsConnection`), `PumpsStop`, `OpenReturns`, `ShutdownEnds`.
The four runs of section 4 show behaviours, which TLC exhibits.

## 6. Not modelled, and why

- Metrics other than the gauge of connected sessions, spans, log lines, probes and
  routing, and the texts and codes of errors (`mapError`, `writeClaimError`): no
  session state.
- Generated code (`api/gen`) and the tests' store contract (`storetest`), whose
  contract `SessionStore` states.
- AES-GCM, SHA-256 and random IDs are taken to be what they claim: distinct inputs
  have distinct hashes, IDs do not repeat. `ConnectURL` only formats the ticket.
- Exact durations of the session's timers, and the activity channel that restarts
  the idle timer.
- Syntax: how a URL, a duration, an address or a PEM file is parsed (a setting is
  malformed or a value), REST encoding, and checks of names that only look at the
  request.
- What TLS verifies: a credential is valid or not, a peer is Governance or not.

## 7. Plan

Done: the stores with `SessionModel` and `SessionStore`; the sessions with
`SessionRun`, `ExecStream`, `ManagedStream` and `Connection`; the opening of streams
with `RuntimeOpen`; the process with `Config`, `ControlPlane` and `Gateway`; the
proofs of section 5, which leave no safety property of a passing run unproved.

Next: more results on top of the invariants proved, where they say something a run does
not yet check: in `RedisStore`, how far the limits can be exceeded by live connections
when clocks differ; in `Gateway`, that the composition with `Connection` returns every
lease before the store is closed, for stops that no session outlives.
