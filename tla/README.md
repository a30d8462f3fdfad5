# TLA+ models of the remote store client, StaticEnv/Formals and builtin fetchurl

These modules model the parts of this repository that have behaviour a
model checker can explore:

* the client side of the worker protocol in `src/libstore/remote-store.cc`.
  This covers the connection pool and its factory, `ConnectionHandle`, the
  stderr event loop, framed uploads with their stderr thread, and the
  operations built on them;
* the scope structures `StaticEnv` and `Formals` of `src/libexpr/nixexpr.hh`;
* the `builtin:fetchurl` builder in `src/libstore/builtins/fetchurl.cc`.

Everything is checked with TLC. `PROJECT.json` lists:

* every run with its cfg and expected outcome;
* the mutant that each checked property must catch;
* the source lines each definition translates (`map`);
* the findings and the hazards.

## Inventory of the system

| Part | Source | What it does | Module |
|---|---|---|---|
| Pool factory, `failed` flag, validator | remote-store.cc 23-60 | opens connections; the first failure makes later opens fail fast; a connection is reused only while its streams are good and it is younger than `maxConnectionAge` | `RemoteStore` (`Init`, `FactoryFailFast`, `FactoryProceed`, `OpenConnection`, `OpenFail`, `Valid`, `Age`) |
| `Pool<Connection>` | pool.hh (not in this repository) | idle stack, in-use count, capacity, `incCapacity`/`decCapacity`, waiters | `Pool` (from spec §3, §4.7) |
| Handshake, `setOptions` | remote-store.cc 63-145 | version exchange and options | one step, `OpenConnection` |
| `ConnectionHandle` | remote-store.cc 148-186 | marks the connection bad when an exception unwinds past it and the daemon did not report one; rethrows daemon errors | `ReleaseHandle`, `EvError`, `UnwindHandle` |
| `Connection::processStderr` | remote-store.cc 881-947 | event loop: READ, ERROR, log messages, LAST, unknown codes | `EvRead`, `EvError`, `EvLog`, `EvLast`, `EvUnexpected`, `ReadEOF` |
| `withFramedSink` | remote-store.cc 949-990 | flush, stderr thread, FramedSink, zero frame, join, rethrow | `Spawn`, `ProduceFrame`, `ProducerSeesError`, `CloseSink`, `Join`, `Stderr*`, `Unwind*` |
| Operations | remote-store.cc 193-857 | `isValidPath`, `queryPathInfo`, `addToStore` (framed from 1.23, READ-driven below), `addCAToStore` (framed from 1.25, plain dump with EPIPE handling and `conn_.reset()` below), `buildPathsWithResults` (with the `buildPaths` fallback below 1.34), `narFromPath`, `addMultipleToStore` (version check on a temporary handle), `addBuildLog`, `addTextToStore` (framed from 1.25; below, a text dump without `incCapacity`, and a refusal of `repair` before sending), `queryRealisation` (no request below 1.27), `queryDerivationOutputs` (from 1.22 it becomes `queryPartialDerivationOutputMap`, which calls `getProtocol()` again), `collectGarbage` (clears the path-info cache after reading its results), `registerDrvOutput` (no reply), `getVersion`/`connect`/`isTrustedClient` (a connection, no request) | `StartOp`, `Send`, `ReadReply`, `ReadNar`, `Inc`, `NestedCall`, `Dec`, `DumpEnd`, `DumpEPIPE`, `Requery`, `Probe`, `ProbeDone`, `RepairUnsupported`, `BuildWithResults*`, `Complete`, `ClearCache` |
| `Store::queryPathInfo` and its `pathInfoCache` | store-api (not in this repository) | looks the path up in the cache, else asks `queryPathInfoUncached` and caches the answer, a null one included | `CacheHit`, `FillCache` (from spec §4.6, §5) |
| nix-daemon | not in this repository | serves one operation per connection; its garbage collector deletes the queried path | `Daemon` (from spec §3, §4) |
| Wire tokens | worker-protocol | one token per wire item | `WorkerProto` |
| `StaticEnv` | nixexpr.hh 465-505 | push bindings, `sort`, `deduplicate`, `find` | `StaticEnv`, `CxxAlgorithms` |
| `Formals` | nixexpr.hh 270-293 | `has` (binary search by id); `lexicographicOrder` (display order, no state change) is not modelled | `Formals`, `MCScopes`, `CxxAlgorithms` |
| `builtinFetchurl` | fetchurl.cc 9-71 | hashed mirrors for flat hashes, errors swallowed, then the main URL | `Fetchurl` |
| Expression AST classes | nixexpr.hh | declarations only | not modelled |
| `platform/linux.hh` | | class declarations only | not modelled |

### How the parts interact

1. A caller thread takes a connection through `getConnection()`. That is
   `Pool::get` with the validator. The pool either reuses the last live idle
   connection, or reserves a slot and runs the factory, or waits.
2. The caller writes the request and drains the stderr stream.
3. For a framed upload, a second thread drains stderr while the caller
   writes frames. The caller then joins that thread and rethrows what it
   stored.
4. The caller reads the reply. The handle's destructor gives the connection
   back, or drops it when it was marked bad.

In `addCAToStore` the dump source may call the store itself. The code raises
the pool's capacity by one for the duration of the dump so that this nested
call can get a connection.

## Modules

| Module | Role |
|---|---|
| `WorkerProto` | Operations, wire tokens and the version switches (`Framed`, `Pulls`, `Dumps`, `SendsText`, `Requeries`, `SendsNothing`, `ReadsHandshake`, `Probes`, `AfterProbe`, `RepliesNothing`, `ReplyOf`, `ErrorsOf`). A token stands for a whole wire item; the byte encoding is abstracted. |
| `Pool` | The pool's state and its lock-protected operations, each one atomic step. |
| `ConnectionContract` | The abstract specification of what `Pool` and `ConnectionHandle` promise each connection: its holders, whether it is pooled, and its link (`closed`, `sync`, `busy`, `broken`). Connections evolve independently, so `Next` is a step or stutter of every connection at once. It is used only as the property `ImplementsContract` of `RemoteStore`. |
| `Daemon` | The far end: the per-slot byte streams `toD`/`fromD`, the daemon's phase, logs and errors, whether the queried path is in the store (`pathValid`, cleared by `DCollect`), and the history variables `errTo` (the error the daemon reported for each call, keyed by thread and call number, so that an error for a call that already unwound is not charged to the thread's next call) and `gcPending` (a deletion no normally returning `collectGarbage` has followed yet). |
| `RemoteStore` | The client threads, composed with `Daemon` and `Pool`. See the list below. `Contract` instantiates `ConnectionContract` with the refinement mapping: the holders of slot `c` are the handles `hold[t][d] = c`, it is pooled when it is on `idle`, and its link is `closed` for a free slot, `broken` when its streams are not good, `sync` when `InSync(c)` and `busy` otherwise. |
| `MCRemoteStore` | Model values: threads `t1, t2`, slots `s1..s3` (`TwoSlots` for the one-thread liveness run), op groups, symmetry. |
| `CxxAlgorithms` | `std::lower_bound` (libstdc++'s halving loop) and `std::stable_sort` as RECURSIVE operators. |
| `StaticEnv` | Bindings pushed, then `sort()`, `deduplicate()`, `find()`. |
| `Formals` | `has()` over formals the parser pushed and sorted by id. |
| `MCScopes` | `StaticEnv` and `Formals` instantiated side by side. They share no state, and each step moves one of them. |
| `Fetchurl` | The builder with its environment chosen in `Init`. |

`RemoteStore` in detail:

* Each thread has a control label `pc` and a handle stack of depth 2. Depth 2
  is the nested store call of `addCAToStore`'s dump source.
* Per thread it also keeps:
  * `dex`, `ConnectionHandle::daemonException`;
  * `ex`, the exception slot shared with the stderr thread;
  * `sink`, the FramedSink;
  * `incd`, between `incCapacity` and `decCapacity`.
* An exception is `pc = "unwind"` with `exc` set. The `Unwind*` actions run
  the destructors and `Finally` blocks in the order C++ runs them: the nested
  handle, `~FramedSink`, the join, `decCapacity`, then the handle.
* Faults are injected at most `MaxFaults` times per behaviour. They are:
  * the socket breaks;
  * the daemon sends an unknown code and hangs up;
  * the user interrupts;
  * the caller's source or sink throws;
  * the factory fails;
  * a connection ages.

Some code is not under `src/`: `pool.hh`, `FramedSink`, the daemon and the
worker-protocol serialisers. Those are modelled from `spec.md` and marked
`spec_modelled` in the map. In `Fetchurl`, `writeFile` truncates, and
`restorePath` creates with `O_EXCL` and `mkdir`. Both helpers are outside
this repository; they are taken from their implementations and stated at
the top of the module.

## Runs

| Run | Config | Result | What it shows |
|---|---|---|---|
| upload | `MCRemoteStore.cfg` | pass | Two threads, `isValidPath` and `addCAToStore` (1.37), one connection, one fault. Checks `TypeOK`, `IdleInSync`, `PoolCountsHandles`, `CapacityRestored`, `NoDeadlock` and the refinement `ImplementsContract`. |
| queries | `MCQueries.cfg` | pass | Two threads, two pooled connections, two calls each, of `queryPathInfo` (through the path-info cache) and `collectGarbage`; the queried path may be absent from the start and the daemon's GC may delete it. Errors surface, pool counts hold, no deadlock, and `GCInvalidates` holds. |
| old_daemon | `MCOldDaemon.cfg` | pass | Daemon 1.21, one thread, two slots, two calls, two faults, under `FairSpec` and without symmetry. Covers the READ-driven `addToStore`, `addCAToStore`'s plain dump with the EPIPE handler and `conn_.reset()` before `queryPathInfo`, `addTextToStore`'s text dump and its `repair` refusal, `queryRealisation` answered without a request, `queryDerivationOutputs` without the output map, `addMultipleToStore`'s version probe falling back to `addToStore`, and the `buildPaths` fallback. Checks `IdleInSync`, `DaemonErrorSurfaces`, `PoolCountsHandles`, `CapacityRestored` and the liveness property `EveryCallReturns`. |
| logs | `MCLogs.cfg` | pass | One thread, every current operation but `narFromPath` (see `nar`), with `registerDrvOutput` and `isTrustedClient`, log messages, two faults. Checks `IdleInSync`, `DaemonErrorSurfaces`, `PoolCountsHandles` and `NoDeadlock`. |
| early_error | `MCEarlyError.cfg` | pass | The daemon fails framed uploads mid-stream: `addToStore`, `addTextToStore`, `addMultipleToStore` after its version probe, `addBuildLog`, beside `queryDerivationOutputs` with its two `getProtocol()` probes. The error reaches the caller and nothing hangs. |
| scopes | `MCScopes.cfg` | pass | `StaticEnv::find` returns the last binding of each name. `Formals::has` is exact on id-sorted formals. |
| fetchurl | `MCFetchurl.cfg` | pass | Without `unpack`: returning means a whole, executable-when-asked output; under weak fairness, once the main URL answers the builder always ends (`MainUrlSuffices`, a leads-to). |
| early_error_sync | `MCEarlyErrorSync.cfg` | violation of `IdleInSync` | See finding 1. |
| nar_hang | `MCNarHang.cfg` | violation of `NoDeadlock` | See finding 2. |
| nar | `MCNar.cfg` | pass | One thread, `narFromPath` on its bare pool handle beside `isValidPath`, two faults. Deadlock checking is off because the hang of `nar_hang` is real. Checks `PoolCountsHandles`: whichever way the NAR copy ends, `~Pool::Handle` gives back the slot it took. `IdleInSync` and `DaemonErrorSurfaces` fail here (finding 3). |
| nar_unwind | `MCNarUnwind.cfg` | violation of `IdleInSync` | See finding 3. |
| fetchurl_unpack | `MCFetchurlUnpack.cfg` | violation of `MainUrlSuffices` | See finding 4. |

### Properties

* **`IdleInSync`.** Every good idle connection has empty streams and its
  daemon awaits an op. This is what `~ConnectionHandle`'s `markBad` on
  unwinding protects. `ReleaseHandle` applies that rule only to a
  `ConnectionHandle`: `narFromPath`'s bare `Pool::Handle` re-queues its
  connection whenever it is not bad (finding 3).
* **`ImplementsContract`.** Every step of `RemoteStore` is a step of
  `ConnectionContract` under the refinement mapping. A connection has one
  holder at a time and is never both held and pooled. It goes back to the
  pool only in sync, `get()` hands a pooled one out only in sync, and a
  broken one is only closed. A `get()` that hands out a connection without
  popping it off the idle stack (mutant `PoolTakeNoPop`) breaks it at the
  step of the take, before any invariant notices. The property is checked in
  `upload`. With early daemon errors it fails with the trace of finding 1
  (a connection back in the pool while its daemon still reads frames), so
  `early_error` does not state it.
* **`EveryCallReturns`.** Every operation a caller starts returns, normally
  or by an exception (`pc[t] # "idle" ~> pc[t] = "idle"`). It is checked
  under `Fairness` in `old_daemon`. A missing `conn_.reset()` before the
  re-query (mutant `RequeryNoReset`) leaves the caller waiting on its own
  connection. Only a fault can then end the wait, and faults are not fair.
* **`DaemonErrorSurfaces`.** An op that returns normally had no daemon error
  reported to it. The "is not valid" error of `queryPathInfo` becomes a null
  answer, which `Store::queryPathInfo` caches and throws as `InvalidPath`.
* **`GCInvalidates`.** If the cache calls a deleted path valid, then either
  no `collectGarbage` has returned normally since the deletion, or the entry
  was cached by a `queryPathInfo` that was in progress when the latest
  normally returning `collectGarbage` cleared the cache. It uses two
  history variables. `spanning` holds the `queryPathInfo` calls in progress
  (request sent or not, answer read or not, not yet cached) when a
  `collectGarbage` cleared the cache. Any of them may have been answered
  before the deletion and read after the clear, since the two calls use
  different connections. A query started after the clear is answered after
  the deletion, because the clear follows `processStderr`.
  `filledBySpanning` records whether the current entry came from one of
  them. Both states the property allows are reached in the `queries` run.
  In the first, `collectGarbage` failed or was interrupted after the
  daemon deleted the path, so the clear was skipped. In the second, a query
  races the clear. Dropping the clear (mutant `ClearCacheNoClear`) breaks
  the property, and so does clearing when the request is sent.
* **`PoolCountsHandles`.** `inUse` equals the handles held plus the
  factories running.
* **`CapacityRestored`.** The capacity exceeds its initial value exactly by
  the number of `addCAToStore` uploads in their window. It is checked where
  `addCAToStore` runs (`upload`, `old_daemon`).
* **`NoDeadlock`.** Someone can move without a fault, unless every caller
  has finished.
* **`LastBindingWins`.** After sort and deduplicate, `find` resolves every
  name to the binding pushed last for it.
* **`HasMatchesMembership`.** `has` is exact on id-sorted formals.
* **`DoneMeansComplete`** and **`MainUrlSuffices`.** These are the fetchurl
  properties.

Each checked property of a passing run has a mutant in `PROJECT.json`. The
mutant is a plausible bug of the code, for example:

* a dropped `markBad`;
* a `Finally` that forgets `decCapacity`;
* a missing `conn_.reset()`;
* a stderr thread that swallows the error;
* a `deduplicate` that keeps the first binding;
* `has` without its name check.

TLC finds each mutant under the run's own configuration.

### Findings

1. **Early error is not poisoned** (`remote-store.cc:160`, spec
   divergence). The daemon reports ERROR during a framed upload. The stderr
   thread's `processStderr` sets `daemonException`, so `~ConnectionHandle`
   does not mark the connection bad. But the FramedSink stopped without the
   zero frame, so the connection goes back to the pool while the daemon
   still reads frames. Spec §4.2 and §8 say the connection is marked bad.
2. **`narFromPath` hangs on a daemon error** (`remote-store.cc:855`, code
   bug). The returned `exception_ptr` is discarded, and `copyNAR` then waits
   for bytes that never come.
3. **`narFromPath` re-queues an out-of-sync connection**
   (`remote-store.cc:853`, code bug). `narFromPath` holds a bare
   `Pool::Handle` from `connections->get()`, not a `ConnectionHandle`. When
   an interrupt or the sink throws during `processStderr` or `copyNAR`,
   nothing marks the connection bad. `~Pool::Handle` puts it back in the
   pool with the daemon's messages or NAR unread, and the next operation
   reads them as its own answer. In the `logs` configuration with
   `narFromPath` added, a `registerDrvOutput` reads the stale LAST and
   returns normally although the daemon then reports an error for it. Spec §4.7 and §7 say a handle dropped while
   unwinding marks its connection bad.
4. **fetchurl with unpack** (`fetchurl.cc:65`, code bug). A mirror that
   fails after `restorePath` started leaves `storePath` behind. The main
   URL's `restorePath` then fails on the existing path. This case is only
   reachable with a flat hash and `unpack = 1`, which `fetchurl.nix` never
   combines.

## Bounds and why they suffice

* **Threads and connections.** Two threads and `maxConnections = 1` make
  every pool decision reachable: reuse, reserve, wait, capacity raised by
  another thread. `queries` uses `maxConnections = 2`, so that a
  `queryPathInfo` and a `collectGarbage` can be in flight on different
  connections at once.
* **Slots.** Three slots hold the pool's connection plus one per raised
  capacity. `old_daemon` has one thread, which holds at most two handles at
  once, so it uses two slots. There, as in every run, no state is stuck for
  want of a free slot: `NoDeadlock` and `EveryCallReturns` would report it.
* **Frames.** One frame per upload separates "error before the end" from
  "error after the end".
* **Faults.** One fault per run (two in the one-thread runs) reaches every
  fault at every label. Two faults would mostly repeat the same unwinding.
* **Calls.** `MaxCalls` of 1 or 2 per thread lets a connection be reused by
  the next call, which is where a stale or out-of-sync connection bites.
* **Log messages.** `MaxLogs = 1` is used only in the one-thread run,
  because log messages do not change control flow.
* **Path-info cache.** One queried path is enough: the cache holds one
  entry per path, and entries of different paths do not interact. The
  path `addCAToStore` re-queries below 1.25 is a temporary root of the
  client's session, so the GC never deletes it and the daemon always finds
  it. Two threads on two connections reach the race in every order: the
  query answered before or after the deletion, read before or after the
  clear. `queryPathInfoUncached` also gives its connection back before
  `Store::queryPathInfo` caches the answer (`Complete`, then `FillCache`).
* **Splitting by operation group.** The op groups split the state space so
  that each run finishes within minutes. The version-dependent paths run in
  one thread against a 1.21 daemon. At 1.21 every fallback is taken at once:
  `Dumps`, `SendsText` and `Pulls` hold, `addMultipleToStore` falls back,
  `queryRealisation` sends nothing and `queryDerivationOutputs` keeps its
  own op. The 1.22 path of `queryDerivationOutputs` (a second probe, then
  the output map) runs in `early_error` at the current version.
  Their interleavings with another thread are the same pool steps that
  `upload` and `queries` check with two threads.
* **StaticEnv.** Three symbols and four bindings give runs of equal names at
  the start, the middle and the end.
* **Formals.** Five symbol ids and up to three formals, pushed in any order.
* **Fetchurl.** Up to two mirrors, so that a failing mirror is followed both
  by another mirror and by the main URL.

## Fairness

`Fetchurl` is one sequential thread, so it has weak fairness on its steps
(`WF_fVars(Start \/ TryMirror \/ FetchMain)`): a runnable builder is not
stopped forever. A download that stalls ends through the stalled-download
timeout of the file transfer, which the model shows as a failed fetch.
`MainUrlSuffices` is the leads-to: a builder whose main URL answers always
reaches `done`, whatever the mirrors did. It is stated only where `unpack` is
off; with `unpack` it is violated (finding 4).

`RemoteStore` states its fairness in `Fairness`, and `FairSpec` is `Spec`
with it added. Each caller's `RunStep(t)`, each stderr thread's
`StderrStep(t)` and each connection's `DaemonStep(c)` are weakly fair:

* every caller's operation runs on an OS thread of its own;
* the stderr thread of `withFramedSink` is a `std::thread`;
* the daemon serves each connection in a process of its own.

None of them is starved while it can move. A thread blocked in
`Pool::get` is disabled until a release notifies it. After that it stays
enabled until it moves: it either takes a connection or waits again. So
weak fairness is enough. `StartOp`, `CacheHit`, the faults and `Age` carry no
fairness: callers need not call, and nothing has to fail.

The counters (`calls`, `faults`, frames, logs) are bounded, so every
behaviour is finite up to the final stutter. `NoDeadlock` checks the state
predicate in every run without fairness: all callers are done or some
non-fault step is enabled. `EveryCallReturns` is the temporal statement, and
it is checked under `FairSpec` in `old_daemon`. That run drops symmetry,
because TLC's symmetry reduction is not sound for liveness.

## Not modelled

* The wire encoding (`worker-protocol-impl.hh`), `readError` and the
  dynamic-derivation message rewrite (remote-store.cc 163-176): data only.
* `STDERR_WRITE`: no modelled operation passes a sink.
* The operations that follow the plain request/reply pattern of
  `isValidPath` (`queryValidPaths`, `queryAllValidPaths`, `ensurePath`,
  `addTempRoot`, `findRoots`, `optimiseStore`, `verifyStore`,
  `addSignatures`, `queryMissing`, `buildDerivation`, `queryReferrers`,
  ...): their control flow is the same, and they differ only in the data
  they send.
* The early return of `querySubstitutablePathInfos` on an empty map,
  which takes no connection.
* The local result assembly of the `buildPathsWithResults` fallback
  (remote-store.cc 631-683): it resolves derivations in the eval store.
* Negative entries of the path-info cache expiring after
  `ttlNegativeNarInfoCache`: no clock is modelled.
* The expression AST classes of `nixexpr.hh` and `platform/linux.hh`:
  declarations, constructors and accessors only. `bindVars` and evaluation
  are in files outside this repository.
* The `evalStore` branch of `queryPartialDerivationOutputMap`, which asks
  a second store: no second store is modelled.
* `queryDerivationOutputMap` below 1.22, which reads the derivation from
  the local store.
* Writing the netrc file and decompression in fetchurl.

## Plan for later sittings

* Check `EveryCallReturns` with two threads once the state space allows it.
  It needs a run without symmetry, and `upload` grows to several million
  states without it.
