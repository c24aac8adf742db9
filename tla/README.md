# TLA+ models of pineutil

This directory holds TLA+ modules for the parts of this repository whose
correctness depends on what several goroutines do at once, the TLC
configurations that check them on small instances, and proofs, checked by
TLAPS, of the properties that can be established for every instance.
`PROJECT.json` lists the components, the runs, the code each definition stands
for (`map`), the hazards the properties are for, the mutants that show that
each property can fail, and the theorems.

To check one run: `tlc -config <run>.cfg <module>.tla`. To check one proof:
`tlapm <module>.tla`.

## 1. The system

pineutil is a Go library of independent packages.

| Component | Source | State it keeps | Operations | Who else touches the state |
|---|---|---|---|---|
| event queue of a v2 facade | `evsocket/v2/socketio.go` 432-509 | `eventQueue`, `eventDraining`, `connectReady` | `dispatchEvent`, `enqueueEvent`, `drainEvents`, `invokeEventCallbacks` | read loops, `Shutdown`, callbacks that fire events; `OnOpen` and `Reconnect` work the gate |
| client heartbeat | same, 829-878 | `heartbeatStop`, `heartbeatConn` | start, stop, the end of the loop | `OnOpen` of one transport, `OnClose` of another |
| client facade | same, 705-825, 887-910, 950-987, 265-279 | `alive`, `transport`, `clientState`, pool entry, `opened`, `connectReady` | `Connect`, `Reconnect`, `Close`, `OnOpen`, `OnMessage`, `OnClose`, `Shutdown` | callers, one read loop per transport, `Shutdown` |
| pool and naming | same, 146-189, 558-592, 659-668 | UUID to facade, UUID of each facade | `SetUUID`, `set`, `delete`, `all`, `Broadcast`, `EmitTo` | every facade of the instance |
| v1 connection | `evsocket/socketio.go` 269-743 | `queue`, `isAlive`, `done`, `sync.Once`, one `RWMutex` | `New`'s handler, `ClientConnect`, `run`, `send`, `read`, `pong`, `disconnected`, `Emit`, `Close`, setters | five goroutines per connection, `Shutdown` |
| v1 pool and listeners | `evsocket/safepool.go`, `safeListener.go` | maps | `set`, `delete`, `get`, `all` | every connection |
| channel batcher | `batchy/chan_batcher.go` | `queue`, context, a batch per worker | `Add`, `worker`, `Stop` | callers of `Add`, workers, `Stop`, the parent context |
| syncmap | `syncmap/syncmap.go` | a `sync.Map` and an atomic counter | `Store`, `LoadOrStore`, `Delete`, `LoadAndDelete`, `Clear`, `UnmarshalJSON`, readers | every goroutine that shares the map |
| graceful server | `ftlserver/endless.go` | `state`, `wg`, listener, connections | `Serve`, `shutdown`, `hammerTime`, `handleSignals` | serve, signal handler, hammer, connections |
| restart by fork | same, 104-174, 255-280, 335-365, 478-560 | `runningServers`, `runningServersOrder`, `socketPtrOffsetMap`, `runningServersForked`; the environment and descriptors of a child | `NewServer`, `getListener`, `fork`, SIGTERM to the parent | all servers of a process; its child and its parent |
| certificate cache | `ftlserver/util/utils.go` | key to certificate | `GenerateCertificate`, `ClearExpiredCertificates` | every TLS handshake |
| jsontime, signals, TLS options | the rest | none | conversions, constants | nobody |

How they interact. A v2 `SocketInstance` owns a pool of facades. Each client
facade owns an event queue and a heartbeat. A facade is entered by callers
(`Connect`, `Reconnect`, `Close`), by the read loop of each of its transports
(gws calls `OnOpen`, the frame handlers, `OnClose`) and by `Shutdown`. They
meet on fields that are changed one after the other, each under a lock or an
atomic of its own and none under a common one. Results come back through
callbacks, which the queue runs on a goroutine of its own, and from which the
application is expected to call back into the facade. ftlserver's servers meet
their signal handler on `state` and on a `WaitGroup` that the hammer releases
on behalf of others; a process and the child it forks share sockets and send
each other signals. The other packages are used by their callers only.

What is hard in it: the last look of a drainer at its queue; fields changed in
opposite orders by `OnOpen` and `finalizeTransportClose`; the late `OnClose` of a
transport that has been replaced; a channel (`connectReady`) that is replaced
while somebody waits on it; a name that is read, and used after the lock is
given up; an item on its way into a channel that is being closed; a counter
beside a map; a read lock held while waiting for the network; a `WaitGroup`
released by someone who did not acquire it; a socket that changes hands between
processes that know each other by table offsets and signals. `PROJECT.json` lists forty such
places, each at its line, with the properties meant to catch it.

## 2. The modules

| Module | Models | Abstracts | Theorems in |
|---|---|---|---|
| `SerialDelivery` | what the queue promises: one line, one callback at a time | everything else | |
| `EventQueue` | queue, flag, drainers, the gate, connect callbacks | an event is its kind and a tag | `EventQueueProofs` |
| `ClientHeartbeat` | stop channel, its socket, the goroutines | pings | `ClientSessionProofs` |
| `ClientSession` | the client facade; contains the two above by `INSTANCE` | handshake, frames, attributes | `ClientSessionProofs` |
| `SessionPool` | pool, UUIDs, `OnOpen` and `finalizeTransportClose` of several transports of a facade at once, `Shutdown`, `Broadcast` | `clientState`, heartbeat, events, which are `ClientSession`'s; failed dials | `SessionPoolProofs` |
| `SessionV1` | one v1 connection, of a server or of a client that connects again and again, its five goroutines, and `Close` and `Shutdown` | payloads, listeners | `SessionV1Proofs` |
| `ChanBatcher` | `Add`, workers, `Stop`, cancellation, panics | time: a timer may fire at any moment | `ChanBatcherProofs` |
| `SyncMap` | keys and counter of every writing operation | values | `SyncMapProofs` |
| `EndlessServer` | `Serve`, `shutdown`, both hammers, connections, signals | HTTP, TLS, forking | `EndlessServerProofs` |
| `ServerFork` | generations of processes: offsets, descriptors, SIGHUP, SIGTERM, `fork`, the death of a child | what a server does between SIGTERM and its end, which is `EndlessServer` | `FtlserverProofs` |
| `CertCache` | look-up, expiry, generation, store, sweep | a certificate is its expiry | `FtlserverProofs` |

`MC*` modules extend a module with the values of its constants and the
symmetry sets TLC needs. `MCSessionV1` gives the bounds of
`SessionV1` as a set of instances, of which a behaviour picks one: each leaves
one source of interleavings out, and together they cost a fraction of the one
instance that has all. The operators whose comment begins with "Mutant" are
not part of any specification: each is a plausible bug, put in the place of
the definition after it to see that a property notices.

**State and actions.** Variables carry the names of the fields they stand for.
Variables marked "history" record what has happened, for the properties; no
guard of a system action reads them, except to bound an instance (`calls`,
`signals`, and the lengths of `enqueued` and `accepted`). A goroutine is a
label that names the step it takes next, and an action is one atomic step of
the code: a load whose value is used later, a store, a compare-and-swap, a
channel operation, or a whole critical section. A function that runs wholly
under one lock (`SetUUID`, `enqueueEvent`, `stopClientHeartbeat`) is one
action. What an application does or refrains from is a guard of its own
(`MayReconnect`, `MayDial`, `MayConnect`, `MaySet`), apart from the checks of the
code. In `ClientSession` the eight steps of `finalizeTransportClose` are
written once (`FinalizeOrder`, `Follow`, `FinalizeTransportClose`) and taken by
`OnClose` and by `Shutdown`, each with its own label, because both really
interleave. `SessionPool` has those of its steps, and of `OnOpen`'s, that touch
`alive`, `transport` and the pool; nothing in the code orders the `OnClose` of one
transport before the `OnOpen` of the next, and nothing in the model does. The data race on `connectReady` (read at line 962 without a lock,
replaced by `Reconnect`) is covered by the interleaving: the reader sees the
old channel or the new one.

In `ServerFork` the state of all processes is a function of the process. A
signal is one step that reaches the handlers that wait for it and is lost on
the others, since `sigChan` has no buffer and `signal.Notify` never blocks. A
handler inside `fork` keeps `runningServerReg` from `StartChild` to
`ForkReturns`; everything `fork` computes before `cmd.Start` is one step,
because nobody else can change what it reads but a `shutdown` that closes a
listener, which it may meet before or after.

**External parts** follow how the code uses them. gws calls `OnOpen`, the
handlers and `OnClose` on one goroutine, `OnClose` once and with an error.
gorilla's `WriteMessage` fails once the connection is broken or a close frame
was written. `net/http` closes each connection it has served.
`sync.WaitGroup`, `sync.Once`, `sync.RWMutex` and `select` behave as
documented: a waiting writer keeps new readers out, and a select takes any
ready case.

## 3. The properties and the runs

Deadlock is not checked (`CHECK_DEADLOCK FALSE`) where a bounded instance may
stop: its calls, transports, items or signals are used up. Every run finishes
in less than two and a half minutes with two workers.

| Run | Instance | What it asks |
|---|---|---|
| `EventQueue` | 2 drainer identities, 3 events of 3 kinds, 3 gates | `NoLostWakeup`, refinement of `SerialDelivery` (`ImplementsSerial`), `Delivery` |
| `SessionLifecycle` | 1 caller, 3 calls, 2 transports, 1 message, failing dials, `Shutdown` | `NoCrash`, `FacadeCoherent`, `NoStraySession`, `EverySessionReported`, `SessionsDoNotMix`, `CallsReturn`, `DisconnectDelivered` |
| `SessionComponents` | 2 callers, 2 calls in any order (`Reconnect` first, beside a `Connect`, or on a live session), failing and late handshakes | `DialExclusive`; `HeartbeatKept`; `UsesQueue`, `UsesHeartbeat`: the facade is a user its components were specified for |
| `SessionPool` | 2 facades with 2 transports each, 3 UUIDs; one facade is renamed at any time, to the other's name too, and dials again at any time; `Shutdown`; the other broadcasts | `KeyedByUUID`, `LiveIsRoutable`, `NoGhostEntry`, `BroadcastSkipsSelf` |
| `ChanBatcher` | 3 items, queue of 2, 2 workers, a minimum that is not set and a maximum of 2: batches of 1 or 2 by pressure | `TypeOK` (with the bounds of the queue and of a batch), `EachItemOnce`, `BatchInOrder`, `AcceptedEventuallyProcessed`, `AddReturns`, `WorkersEnd` |
| `SyncMap` | 3 goroutines, 2 keys, 5 operations that overlap in any way | `LenSettles` |
| `SessionV1` | queue of 2, one emit, `Close` or `Shutdown`; a server with a setter and a pong or a message of the peer, or a client with 2 sessions, failing dials and one of the three | `NoCrash`, `DisconnectMeansDead`, `SentInOrder`, `EmitReachesPeer`, `GoroutinesStop`, `BreakReleasesCaller` |
| `EndlessServer` | 3 connections, 3 signals, both hammers | `NoCrash`, `GracefulEnd`, `StateForward`, `ShutdownEnds` |
| `ServerFork` | 2 addresses, 3 processes, children that die before they have taken over a socket | `InheritsOwnSocket`, `NoGap`, `OneChild`, `RestartCompletes` |
| `CertServing` | 2 handshakes, 1 key, 7 moments, a CA that ends early, sweeps | `UsableWhenServed` |
| `SessionReconnectReport` | 1 caller that reconnects a live facade | `EverySessionReported`, which fails |
| `BatcherAddStop` | 2 items, 1 worker, `Stop` | `SuccessMeansAccepted`, which fails |

Where a module has a proof, its type invariant is part of the inductive
invariant of section 4, which holds for every instance, and is not checked
again; so are `SingleDrainer`, `SerialFIFO` and `LenLags`. `ChanBatcher`'s, with
the bounds of the queue and of a batch, is checked; `ClientSession`'s is stated
for its proof.

**Why the bounds are enough.** The hazards are races of two or three
goroutines over one hand-over. Two transports are the smallest number with a
"late `OnClose` of a replaced transport"; three calls allow connect, failure or
close, and reconnect. One drainer identity suffices inside the facade because
`EventQueue` shows, with two, and its proof, with any number, that a second one
is never started. Three events let the queue hold one while one is in hand and
one is delivered. Three items against a queue of two make `Add` park; two
workers race for them. In `SyncMap` two operations make a key come back or the
counter negative, a third goroutine is what a `Clear` or `UnmarshalJSON` can meet
beside them, and five operations leave one to run alone afterwards; three keys and
four operations show nothing else. In `SessionPool` two transports are the "old"
and the "new" one of a facade; the facade that is not renamed and the one that is
share the name both want; that the eager client may as well be the other one, and
that the renamed one may take its first name back, was checked as well and changes
nothing. Only one facade broadcasts, because two broadcasts do not meet. Three processes are a
server that restarts, its child that restarts in turn, and a child that fails
and is replaced; two addresses are the smallest number with an order, and with
a first and a second SIGTERM. The queue of `SessionV1` is filled by the
goroutines that write to it: the callback, `pong`, `Close` and a listener that
replies. All of them at once, with a setter and a second session, are millions
of states and show nothing that its five instances do not. In `CertCache` a certificate lives for four
moments, is renewed one before its end, and the clock outruns both.

**Fairness.** Started goroutines keep being scheduled: the Go scheduler is
preemptive. Where goroutines may loop, weak fairness is stated of each one's
steps; in `ClientSession`, `SessionV1` and `ServerFork`, whose work is bounded,
it is stated of their disjunction `Work`, which says no more than that
something that can go on does. User callbacks return,
except that a connect callback may wait for a message (`MayReturn`), which the
documentation allows. A closed transport ends its read loop, since the read
fails. Nobody is obliged to call, send, connect, close or signal. In
`ChanBatcher` a worker's select is strongly fair to each of its cases, because
Go chooses among ready cases at random, and the timer of a worker fires
because it is always reset. In `SessionV1` a peer that has received a close
frame answers or goes away; otherwise it may stay silent for ever. In `ServerFork`
servers, handlers in `shutdown` and exits are fair; `fork` need not return, and
nobody need send SIGHUP. In
`EndlessServer` connections need not end (`ConnectionsEnd` is `FALSE`), so
`ShutdownEnds` rests on the hammer alone; with both hammers off and
`ConnectionsEnd` on it holds too.

**What the runs assume**, because the code does not hold otherwise: see section 5.

- `SessionLifecycle` keeps the order MIGRATION.md
  recommends: `Connect` until it has succeeded once, then `Reconnect` after
  `OnDisconnected`. `Liberties` lifts it. Callers wait for `OnOpen` for as long
  as it takes (`OpenMayTimeOut` is `FALSE`), except in `SessionComponents`.
- A report may wait behind a drainer that has been abandoned (`Abandoned` in
  `DisconnectDelivered`): one that waits for a channel which has been replaced, or
  which nobody dials to close. It is not released by a later success, so this is
  no delay but a loss, and section 5 says how little it takes. Without failing
  dials it is never reached in this run.
- In `SessionPool` a client that is not in `Eager` dials again when
  `OnDisconnected` has been called, as MIGRATION.md advises. `LiveIsRoutable` and
  `NoGhostEntry` hold for every such client until `Shutdown`; for the eager ones, and
  from `Shutdown` on, they hold unless an `OnOpen` of the facade ran beside a
  finalization that had taken `alive` (`Overtaken`).
- `SessionsDoNotMix` speaks of the time before `Shutdown`, which reports the
  disconnect beside the read loop.
- A v1 client connects again when the goroutines of its last session have
  ended (`MayConnect`); `ClientConnect` itself checks only `IsAlive`.
- In `ServerFork` the operator sends SIGHUP when all servers of the process
  serve, every generation serves the same addresses (`SameConfig`), and a child
  that fails does so before it has a listener (`CrashLate` is `FALSE`).
- `SyncMap` restricts nothing. `LenSettles` counts the keys a `Store` has brought
  back (`revived`), by which `Len` is then wrong, and is silent when an operation has
  run beside a `Clear` or `UnmarshalJSON` (`mixed`) until the next that begins alone.
- In `EndlessServer` a hammer wakes when `Serve` has reached `wg.Wait`
  (`HammerLate`) and `Accept` fails only on a closed listener (`AcceptMayFail`
  is `FALSE`).

## 4. What is proved

TLC shows the properties on the instances above; TLAPS shows the following
for every value of the constants that meets the named assumption of the module.

- **`EventQueueProofs`**: `TypeOK`, `SingleDrainer`, `NoLostWakeup`,
  `SerialFIFO`, and that the queue implements `SerialDelivery`. The invariant
  is their conjunction with the fact that what a drainer holds is an event.
  `SerialFIFO` is not inductive by itself: it survives a delivery only because
  there is one drainer, which in turn holds only because the flag says so.
  For the refinement each step maps to a `Post`, `Begin`, `Finish` or stutter.
- **`ClientSessionProofs`**, the heartbeat: no stop channel is closed twice, and
  at most one heartbeat has not been told to stop, for any number of sockets.
  The invariant adds that the two fields name the same start.
- **`ClientSessionProofs`**, the facade however it is used (any finite sets of
  callers and transports, all `Liberties`, callers that give up): `TypeOK`,
  `DialExclusive`, `HeartbeatKept`, and that a behaviour of the facade is one of its
  heartbeat (`UsesHeartbeat`) and of its queue (`UsesQueue`), so what is proved of
  these holds inside it. `HeartbeatKept` rests on the guard of `stopClientHeartbeat`,
  which compares sockets. It matters for an `OnClose` that has passed the
  checks of lines 888 and 894 when the `OnOpen` of the next transport starts its
  heartbeat. The invariant `SafeInv` holds the types, the right to dial,
  and accounts. A transport starts one heartbeat (`StartsOnce`). Its error is
  paid for by a transport that has not been finalized; its disconnect first by
  the `SetAlive` still to come, then by `alive`, then by whoever has taken `alive`
  away; its connect callback by its `OnOpen`; a new channel by a `Reconnect`
  that was counted. Without the accounts nothing says that the bounds of the queue
  are kept, which is what `UsesQueue` needs. The queue's own invariant is part of
  `SafeInv`, as the facade looks at what the queue holds.
- **`ClientSessionProofs`**, the recommended use (`Recommended`: one caller, which
  takes no liberties and does not give up on an `OnOpen`; any number of calls,
  transports and messages, failing dials, and `Shutdown`): `NoCrash`,
  `FacadeCoherent`, `NoStraySession`, `EverySessionReported` and `SessionsDoNotMix`. Section 5 shows what goes wrong when a caller takes a
  liberty or gives up. The invariant `UseInv` rests on one idea. The
  session of a transport is in one phase, the label of its read loop or, when
  `Shutdown` has taken `alive` away, of `Shutdown`; at most one session is under
  way; and every field is a function of its phase. `SessionsDoNotMix` is first
  proved of the events as they are queued, then carried over to the callbacks by
  the queue's `SerialFIFO`.
- **`SessionPoolProofs`**: `KeyedByUUID`, with `TypeOK`, is inductive. It uses
  that initial UUIDs differ, and that `SetUUID` moves the entry and the name in
  one critical section.
  `LiveIsRoutable`, `NoGhostEntry` and `BroadcastSkipsSelf` need a second
  invariant, for any number of facades and transports. As long as no `OnOpen` of a
  facade runs beside a finalization, whoever finalizes it has taken `alive` and
  nobody opens it (`NotOvertaken`); the transport in its field is one that has not been
  finalized (`TransportHeld`). So an entry is removed by the
  goroutine that took `alive` and by no other, and before the session is over.
  What was read of the UUID of a facade that is not renamed is still its UUID when
  it is used. A client that waits for `OnDisconnected` is overtaken only during
  `Shutdown`.
- **`SyncMapProofs`**: `LenLags` and `LenSettles`, however operations overlap. The
  invariant adds that, unless operations mix, a `Clear` or `UnmarshalJSON` is alone,
  that its Range still has to visit every key there is, and that what it has yet to
  insert is absent.
- **`FtlserverProofs`**, `CertCache`:
  `UsableWhenServed`. A certificate on its way to the cache already meets it, and
  the call began no later than now.
- **`EndlessServerProofs`**: `TypeOK`, `NoCrash` and `GracefulEnd`, for any
  finite set of connections and any hammers. The invariant is the account of
  the `WaitGroup`: until a hammer strikes, it equals the number of connections
  whose own `Done` is still to come, plus one while the handler owes the `Done`
  of an idle connection it has closed. `StateForward` is proved for an `Accept`
  that fails only when `shutdown` has closed the listener (`~AcceptMayFail`); the
  invariant says that the listener is not closed before the state has left
  "running". Section 5 shows that it does not hold otherwise.
- **`SessionV1Proofs`**: `NoCrash`, `DisconnectMeansDead` and `SentInOrder`, for a
  queue of any size and any number of messages and sessions. The invariant says
  who holds the `sync.Once` and what `done` and `alive` then are, and where the
  messages of a session are: sent, in the hand of `send`, or still the end of
  what was accepted.
- **`ChanBatcherProofs`**: `TypeOK` with the bounds of queue and batch,
  `EachItemOnce` and `BatchInOrder`, for any items, any number of workers and any
  sizes. The invariant is an account of sequences and sets: the queue is the end
  of what was accepted, each item before it has one place, and a batch follows
  the order of acceptance. The sizes may be left unset, and the maximum may be below
  the minimum, which `NewChanBatcher` accepts. A batch keeps its bound although its target comes from
  a queue length that is stale: a worker that goes on collecting has fewer items
  than the largest batch, whatever its last target was.
- **`FtlserverProofs`**, `ServerFork`, for any number of processes and addresses, in three
  layers. `OneChild` needs no condition: births are in order, and the flag of a
  process is up as long as it has a child it has not waited for, so that lowering
  it without the lock is safe. When all generations are configured alike
  (`OneConfig`), `InheritsOwnSocket` holds and `fork` never panics on its tables
  (`ForkNeverPanics`): the map of a process numbers its servers without gaps, in
  turn in the first generation and in the order of the environment later, and the
  descriptors of a child follow the same order. When, besides, no child fails
  that has taken over a socket (`~CrashLate`), `NoGap` holds. `NoGap` is
  not inductive: what is, is that an address whose server stops, or whose handler
  has been told to, is held in a later process that has taken over some socket,
  and so neither fails nor exits before its own servers stop, which takes yet
  another child. A lemma reduces each action to what it may do to a server, a
  handler and a process, and the invariants follow from that alone.
  `ParentHears` is the safety part of `RestartCompletes`: a parent whose child has
  taken over every socket has been told, at each server, or was busy each time.

Only model-checked: liveness, since it needs fairness and `ENABLED`, which the
prover does not handle (`Delivery`, `CallsReturn`, `DisconnectDelivered`,
`AcceptedEventuallyProcessed`, `AddReturns`, `WorkersEnd`, `EmitReachesPeer`,
`GoroutinesStop`, `BreakReleasesCaller`, `ShutdownEnds`, `RestartCompletes`).
Every invariant and action property that a passing run checks is proved.
Nothing here needs induction over data, which is out of the prover's reach as
well; `processed` of `ChanBatcher` counts for that reason, where a filtered list
of items would need an induction.

The assumptions are the named ones of the modules (finite sets of callers and
sockets, a queue that holds something, no value that is also a marker) and, where a theorem
says so, `Recommended`, `~AcceptMayFail`, `OneConfig` or `~CrashLate`. What a
property excuses (`Overtaken`, `shared`, `revived`, `mixed`, ...) is excused in
its theorem as well.

## 5. Where the code and its documents disagree

Two disagreements are runs (`expect: violation`):

- `SessionReconnectReport`: `Reconnect` of a live facade writes a close frame to the
  old socket and dials. The `OnOpen` of the new transport overwrites the `transport`
  field (line 952); the `OnClose` of the old one then finds another transport there
  and returns at line 891, so `OnDisconnected` is never called for that session
  (MIGRATION.md:179 says it is).
- `BatcherAddStop`: `Add` returns nil for an item it did not send when `Stop`
  closes the queue between the check and the send (`chan_batcher.go:224`).

The models show others; each is reached by changing the constants named here,
or is the reason for a condition in a property:

- `Connect` on a facade whose session has ended closes `connectReady` twice
  and panics: `SessionLifecycle` with `Liberties` of `"connect again"`.
- A drainer that starts while a `Reconnect` dials waits on the channel that this
  `Reconnect` made (lines 470-473). If the dial fails, nobody ever closes that
  channel: the next `Reconnect` makes another one (783-787) and its `OnOpen` closes
  only that. The drainer waits for good with `eventDraining` raised, and every
  later event of the facade, disconnects included, stays in the queue. Documented use
  suffices: a `Reconnect` from `OnDisconnected` that fails, while the error event of
  the session is still queued. Hence `Abandoned`; without it `DisconnectDelivered`
  fails in `SessionLifecycle`.
- A client that reconnects as soon as `IsAlive` is false, as the test at
  `socketio_test.go:334-345` does, may lose its place in the pool. The `OnClose` of the
  old transport has taken `alive` and read the UUID, the `OnOpen` of the new one enters
  the pool (line 957), and then the old one's `pool.delete` (904) removes the entry: the
  facade is alive and `EmitTo` and `Broadcast` do not find it, where the test, and the
  plan `2026-06-27-runtime-stability-and-coverage.md` ("client reconnect re-enters
  pool"), expect it. The old `OnClose` may also clear the transport field that the new
  `OnOpen` has set (898). Then the close of the new session is ignored and its entry
  stays. `Shutdown`, which does not wait for an `OnOpen` under way, does the same to
  any client. Take `~Overtaken(f)` out of `LiveIsRoutable` or `NoGhostEntry` to see
  the two.
- A transport that opens while `Shutdown` takes its snapshot survives it.
  `Shutdown` also drops the listeners, which `dispatchEvent` looks up when it
  queues an event, so a disconnect queued a moment later reaches none of them
  (`OnDisconnected` is still called).
- A caller that gives up after two seconds leaves a transport that may still
  open: hence `givenUp` in `DialExclusive`.
- `SetUUID` looks for duplicates in the pool only. A name may be given to a
  second facade while the first is closed, and the one that opens later takes
  the entry: hence `shared` in `LiveIsRoutable`. A facade renamed while it
  closes leaves an entry behind, and one renamed during its own broadcast
  receives it: hence `Renamers` in `NoGhostEntry` and `BroadcastSkipsSelf`.
- Items in the queue or in a batch when the context is done are not
  processed (`dropped`, and what is left of `queue`), although the comment at
  `chan_batcher.go:339` speaks of finishing the remaining items.
- The plan `2026-06-27-runtime-stability-and-coverage.md:57` asks that concurrent
  `Store`, `Delete` and `Clear` do not undercount for good. They do. A `Store` that
  found its key, which a `Delete` then removes, brings it back uncounted: `revived` in
  `LenSettles`. What is stored while a `Clear` runs is forgotten when it zeroes the
  counter, and a `Delete` that has not counted yet counts down from zero: `mixed`.
  `LenLags` also allows a negative `Len`, with which `Keys` and `Values` panic in
  `make`.
- `NewChanBatcher` does not compare `MinBatchSize` with `MaxBatchSize`: a batch size
  of 100 with a maximum of 2 gets a minimum of 25. The target then falls as the queue
  fills, and batches reach the minimum (`LargestBatch`).
- A setter in a v1 callback waits for `read`, which waits for the peer with
  the lock held, and `send` waits behind the setter (`SetterBlocksSend`). A
  goroutine in `write` on a full queue stays there when `send` has ended
  (`Stranded`): an `Emit` of the callback, and with it the handler or
  `ClientConnect`, never returns, although the plan (line 44) wants a later `Emit`
  not to deadlock.
- A v1 client that calls `ClientConnect` while goroutines of its last session
  still run has them use the new session's `done` and `sync.Once`: an old `read`
  or `send` that enters `disconnected` late ends the new session. The struct
  copied over the `sync.Once` while it runs, and `Conn`, which a failed dial sets
  to nil while `read` may use it, are data races. Whatever the last session left
  in the queue is sent in the next: a close frame closes it (`SentInOrder`
  speaks of `Outgoing`, which includes what was left). `disconnected` deletes the
  client from the pool and `ClientConnect` enters it only once, so `Shutdown` and
  `Broadcast` do not find it from its second session on.
- A child that is configured for other addresses than its parent, or a process
  that registers one address twice, breaks the table of offsets: with
  `Configs <- AnyConfig` a child that has gained an address serves one on the
  socket of another, `fork` indexes beyond its tables when servers were dropped,
  and an address the parent did not serve fails in `getListener`, whose result of
  `net.Listen` is overwritten (line 352). `ServerFork`: `InheritsOwnSocket`.
- The first SIGTERM of a child stops all servers of the parent. A child that
  dies after that leaves a gap: `CrashLate` and `NoGap`. A SIGTERM that comes
  while a handler is in `fork` is lost on its server, which then serves beside
  the child: `missed` in `RestartCompletes`. A child whose parent has gone sends
  SIGTERM to the process that has adopted it. A SIGHUP before all servers have
  their listeners makes `fork` panic on a nil listener: the guard of `Hangup`.
- A hammer that strikes before `Serve` waits leaves the counter at -1, and
  `Wait` blocks for good: `EndlessServer` with `HammerLate` `FALSE`. A
  connection that closes after the hammer panics outside `hammerTime`, and so does
  `Wait` itself when the hammer has released it and goes below zero before it looks
  again ("WaitGroup is reused"): hence `hammered` in `NoCrash`. A signal received before `Serve` has set the state
  is ignored. A `Serve` whose `Accept` failed may end between `shutdown`'s look
  at the state and its store, which puts a server that has ended back in
  shutdown: `AcceptMayFail`.
- Of two handshakes with one stale certificate the slower deletes what the
  faster has stored, and the sweep may delete a certificate renewed since it
  looked. What is served stays usable.

## 6. What is not modelled, and what could follow

Not modelled: the HTTP upgrade, dial options and TLS configuration (I/O and
configuration); listeners and attributes of v2 (one lock each); v2's
`OnPing` and `OnPong`, except as kinds of event; jitter (a timer may fire at any
moment; a timeout below five nanoseconds panics in `NewChanBatcher`, line 248); a
batcher whose queue has no capacity, negative sizes, and the rounding of
`queuePressure` in floating point (`Share` divides integers);
`fireEvent`, which runs callbacks on the caller's goroutine and touches no
queue; signal hooks; `CloseUnusedListeners`, which only an application calls;
signal names; jsontime, whose conversions are the standard library's; v1's
pool, a map under a lock, and `listeners.set`, whose lost update needs two
registrations at once.

Of v1's `WebsocketWrapper` the branch of `send` for a connection that is nil, and
`ClientConnect` beside a session that has not ended, are left out; section 5
says what goes wrong there. Facades that are renamed while they
close, or during their own broadcast, are excused by name (`Renamers`) in
`NoGhostEntry` and `BroadcastSkipsSelf`.

What could follow: v1's pool, whose `SetUUID` does not move an entry; a first
generation of `ServerFork` that changes its addresses, once the code says what a
child shall do with sockets it has no server for; and `EndlessServer` inside
`ServerFork`, where a server that stops is now a single step.
