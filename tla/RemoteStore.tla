----------------------------- MODULE RemoteStore -----------------------------
(***************************************************************************)
(* The client side of the remote store (src/libstore/remote-store.cc):    *)
(* caller threads that take connections from the pool through             *)
(* ConnectionHandle, send a request, drain the stderr stream              *)
(* (processStderr), stream payloads with withFramedSink and its stderr    *)
(* thread, read the reply and give the connection back, marking it bad    *)
(* when an exception unwinds past the handle.                             *)
(*                                                                         *)
(* A thread's control state is pc; depth 1 is the operation's own handle, *)
(* depth 2 the handle of the store call the dump source of addCAToStore   *)
(* makes while the upload is in progress.                                 *)
(***************************************************************************)
EXTENDS Daemon, Pool, FiniteSets

CONSTANTS
    CallerOps,       \* operations the callers issue
    MaxConnections,  \* RemoteStoreConfig::maxConnections
    MaxFrames,       \* frames one upload writes
    MaxFaults,       \* breaks, interrupts, client failures, ageing
    MaxCalls,        \* store calls each caller thread makes
    NoConn, NoExc,   \* model values: no connection held, no exception
    Nobody           \* model value: the daemon serves no thread yet

ASSUME CallerOps \subseteq Ops \ {"BuildPaths", "QueryDerivationOutputMap"}

VARIABLES
    pc,      \* control state of each caller thread
    op,      \* operation it is executing
    depth,   \* 1, or 2 inside the dump source's nested store call
    hold,    \* hold[t][d]: connection of the handle at depth d
    dex,     \* dex[t][d]: ConnectionHandle::daemonException
    raw,     \* the handle is a bare Pool handle (no ConnectionHandle)
    ret,     \* where processStderr returns to after STDERR_LAST;
             \* "probed" once the operation has asked getProtocol()
    exc,     \* exception being propagated
    st,      \* the stderr thread of withFramedSink: "none", "run", "done"
    ex,      \* the exception_ptr it shares with the FramedSink
    sink,    \* the FramedSink: "none", "open", "closed"
    frames,  \* frames written by the dump source
    nested,  \* the dump source already made its store call
    incd,    \* between incCapacity() and decCapacity()
    res,     \* outcome of the last operation
    failed,  \* RemoteStore::failed
    bad,     \* Pool handle's bad flag, per connection
    aged,    \* connection older than maxConnectionAge
    faults,  \* faults injected so far
    calls,   \* store calls each thread has started
    cache,   \* Store::state->pathInfoCache entry of the queried path:
             \* "none", "valid" or "invalid" (the daemon's null answer)
    fills,   \* the thread is in Store::queryPathInfo after a cache miss
    spanning,         \* history: fills whose reply was read before the
                      \* latest normally returning collectGarbage
    filledBySpanning  \* history: the cache entry came from one of them

cacheVars == <<cache, fills, spanning, filledBySpanning>>
threadVars == <<pc, op, depth, hold, dex, raw, ret, exc, st, ex, sink,
                frames, nested, incd, res, calls, cacheVars>>
vars == <<threadVars, failed, bad, aged, faults, daemonVars, poolVars>>

Depths == {1, 2}
Exceptions == {"remote", "proto", "eof", "interrupt", "client",
               "connect", "failed", "syserr"}

(* Connection c of the thread's current handle. *)
Cur(t) == hold[t][depth[t]]

(* The operation the current handle serves: the dump source's nested   *)
(* call is a plain request/reply (isValidPath).                         *)
CurOp(t) == IF depth[t] = 2 THEN "IsValidPath" ELSE op[t]

(* The pool's validator: to.good() && from.good() && age < max age. *)
Valid(c) == good[c] /\ ~aged[c]

(* The connections the validator accepts. *)
ValidConns == {c \in Slots : Valid(c)}

(* Connections dropped by the pool are closed: the slot is free again. *)
FreeSlots(S) ==
    /\ dst' = [c \in Slots |-> IF c \in S THEN "free" ELSE dst[c]]
    /\ toD' = [c \in Slots |-> IF c \in S THEN <<>> ELSE toD[c]]
    /\ fromD' = [c \in Slots |-> IF c \in S THEN <<>> ELSE fromD[c]]

Throw(t, e) ==
    /\ pc' = [pc EXCEPT ![t] = "unwind"]
    /\ exc' = [exc EXCEPT ![t] = e]

Goto(t, l) == pc' = [pc EXCEPT ![t] = l]

(* A store call: the thread and how many calls it has started.  The     *)
(* daemon's errTo history is kept per call, so that an error the daemon  *)
(* still reports for a call that already unwound is not charged to the   *)
(* thread's next call.                                                   *)
Calls == Threads \X (1..MaxCalls)

Call(t) == <<t, calls[t]>>

(* A call starts: the thread's earlier calls' entries are never read     *)
(* again and are forgotten.                                               *)
ForgetErrors(t) == errTo' = [x \in Calls |-> IF x[1] = t THEN "none" ELSE errTo[x]]

(* Where a thread goes once it holds a connection. *)
AfterGet(t) ==
    CASE depth[t] = 1 /\ op[t] = "BuildPathsWithResults"  -> "bpwr"
      [] depth[t] = 1 /\ Probes(op[t]) /\ ret[t] # "probed" -> "probe"
      [] depth[t] = 1 /\ SendsNothing(op[t])               -> "done"
      [] OTHER                                             -> "send"

-----------------------------------------------------------------------------
(* Taking a connection: getConnection() / connections->get().            *)

(* addToStore drives the daemon through the bare Connection, as         *)
(* narFromPath does, and so drops the exception processStderr returns.  *)
StartOpRawUpload(t) ==
    /\ pc[t] = "idle"
    /\ calls[t] < MaxCalls
    /\ calls' = [calls EXCEPT ![t] = @ + 1]
    /\ \E k \in CallerOps :
          /\ k = "QueryPathInfo" => cache = "none"
          /\ fills' = [fills EXCEPT ![t] = (k = "QueryPathInfo")]
          /\ op' = [op EXCEPT ![t] = k]
          /\ raw' = [raw EXCEPT ![t] = (k \in {"NarFromPath", "AddToStoreNar"})]
    /\ depth' = [depth EXCEPT ![t] = 1]
    /\ nested' = [nested EXCEPT ![t] = FALSE]
    /\ res' = [res EXCEPT ![t] = "none"]
    /\ ForgetErrors(t)
    /\ ret' = [ret EXCEPT ![t] = "reply"]
    /\ Goto(t, "get")
    /\ UNCHANGED <<cache, spanning, filledBySpanning, storeVars, hold, dex, exc, st, ex, sink, frames, incd, failed,
                   bad, aged, faults, toD, fromD, dst, dop, dby, dlogs, good,
                   poolVars>>

StartOp(t) ==
    /\ pc[t] = "idle"
    /\ calls[t] < MaxCalls
    /\ calls' = [calls EXCEPT ![t] = @ + 1]
    /\ \E k \in CallerOps :
          /\ k = "QueryPathInfo" => cache = "none"
          /\ fills' = [fills EXCEPT ![t] = (k = "QueryPathInfo")]
          /\ op' = [op EXCEPT ![t] = k]
          /\ raw' = [raw EXCEPT ![t] = (k = "NarFromPath")]
    /\ depth' = [depth EXCEPT ![t] = 1]
    /\ nested' = [nested EXCEPT ![t] = FALSE]
    /\ res' = [res EXCEPT ![t] = "none"]
    /\ ForgetErrors(t)
    /\ ret' = [ret EXCEPT ![t] = "reply"]
    /\ Goto(t, "get")
    /\ UNCHANGED <<cache, spanning, filledBySpanning, storeVars, hold, dex, exc, st, ex, sink, frames, incd, failed,
                   bad, aged, faults, toD, fromD, dst, dop, dby, dlogs, good,
                   poolVars>>

GetIdle(t) ==
    /\ pc[t] = "get"
    /\ t \notin waiting
    /\ \E c \in Slots :
          /\ PoolTake(c, ValidConns)
          /\ hold' = [hold EXCEPT ![t][depth[t]] = c]
    /\ FreeSlots(Stale(ValidConns))
    /\ dex' = [dex EXCEPT ![t][depth[t]] = FALSE]
    /\ Goto(t, AfterGet(t))
    /\ UNCHANGED <<cacheVars, storeVars, calls, op, depth, raw, ret, exc, st, ex, sink, frames, nested,
                   incd, res, failed, bad, aged, faults, dop, dby, dlogs,
                   good, errTo>>

GetReserve(t) ==
    /\ pc[t] = "get"
    /\ t \notin waiting
    /\ PoolReserve(ValidConns)
    /\ FreeSlots(Stale(ValidConns))
    /\ Goto(t, "factory")
    /\ UNCHANGED <<cacheVars, storeVars, calls, op, depth, hold, dex, raw, ret, exc, st, ex, sink, frames,
                   nested, incd, res, failed, bad, aged, faults, dop, dby,
                   dlogs, good, errTo>>

GetWait(t) ==
    /\ pc[t] = "get"
    /\ t \notin waiting
    /\ PoolWait(t, ValidConns)
    /\ FreeSlots(Stale(ValidConns))
    /\ UNCHANGED <<storeVars, threadVars, failed, bad, aged, faults, dop, dby, dlogs,
                   good, errTo>>

(* openConnectionWrapper(): fail fast once a connection attempt failed. *)
FactoryFailFast(t) ==
    /\ pc[t] = "factory"
    /\ failed
    /\ PoolCancel
    /\ Throw(t, "failed")
    /\ UNCHANGED <<cacheVars, calls, op, depth, hold, dex, raw, ret, st, ex, sink, frames,
                   nested, incd, res, failed, bad, aged, faults, daemonVars>>

FactoryProceed(t) ==
    /\ pc[t] = "factory"
    /\ ~failed
    /\ Goto(t, "open")
    /\ UNCHANGED <<cacheVars, calls, op, depth, hold, dex, raw, ret, exc, st, ex, sink, frames,
                   nested, incd, res, failed, bad, aged, faults, daemonVars,
                   poolVars>>

(* openConnection(), initConnection() and setOptions() succeed: a fresh  *)
(* connection whose daemon awaits the first operation.                  *)
OpenConnection(t) ==
    /\ pc[t] = "open"
    /\ \E c \in Slots :
          /\ dst[c] = "free"
          /\ hold' = [hold EXCEPT ![t][depth[t]] = c]
          /\ dst' = [dst EXCEPT ![c] = "await"]
          /\ good' = [good EXCEPT ![c] = TRUE]
          /\ aged' = [aged EXCEPT ![c] = FALSE]
          /\ bad' = [bad EXCEPT ![c] = FALSE]
    /\ dex' = [dex EXCEPT ![t][depth[t]] = FALSE]
    /\ Goto(t, AfterGet(t))
    /\ UNCHANGED <<cacheVars, storeVars, calls, op, depth, raw, ret, exc, st, ex, sink, frames, nested,
                   incd, res, failed, faults, toD, fromD, dop, dby, dlogs,
                   errTo, poolVars>>

(* A factory failure that does not give the reserved slot back. *)
OpenFailNoCancel(t) ==
    /\ pc[t] = "open"
    /\ faults < MaxFaults
    /\ faults' = faults + 1
    /\ failed' = TRUE
    /\ UNCHANGED poolVars
    /\ Throw(t, "connect")
    /\ UNCHANGED <<cacheVars, calls, op, depth, hold, dex, raw, ret, st, ex, sink, frames,
                   nested, incd, res, bad, aged, daemonVars>>

(* Any of them throws: the factory sets failed and the slot is given back. *)
OpenFail(t) ==
    /\ pc[t] = "open"
    /\ faults < MaxFaults
    /\ faults' = faults + 1
    /\ failed' = TRUE
    /\ PoolCancel
    /\ Throw(t, "connect")
    /\ UNCHANGED <<cacheVars, calls, op, depth, hold, dex, raw, ret, st, ex, sink, frames,
                   nested, incd, res, bad, aged, daemonVars>>

(* A handle that gives its connection back even when an exception       *)
(* unwinds past it (no markBad).                                        *)
ReleaseHandleKeepAll(t, d, unwinding) ==
    LET c == hold[t][d]
        keep == ~bad[c] /\ Valid(c)
    IN /\ PoolRelease(c, keep)
       /\ bad' = bad
       /\ hold' = [hold EXCEPT ![t][d] = NoConn]
       /\ IF keep THEN UNCHANGED <<calls, dst, toD, fromD>> ELSE FreeSlots({c})

(* ~ConnectionHandle then ~Pool::Handle for the handle at depth d.  A   *)
(* ConnectionHandle marks the connection bad when an exception unwinds  *)
(* past it and the daemon did not report one.  narFromPath holds a bare *)
(* Pool::Handle (raw, depth 1): it has no such rule, and ~Pool::Handle   *)
(* re-queues the connection unless it is bad or too old.                *)
ReleaseHandle(t, d, unwinding) ==
    LET c == hold[t][d]
        marks == unwinding /\ ~(raw[t] /\ d = 1) /\ ~dex[t][d]
        isBad == bad[c] \/ marks
        keep == ~isBad /\ Valid(c)
    IN /\ PoolRelease(c, keep)
       /\ bad' = [bad EXCEPT ![c] = isBad]
       /\ hold' = [hold EXCEPT ![t][d] = NoConn]
       /\ IF keep THEN UNCHANGED <<calls, dst, toD, fromD>> ELSE FreeSlots({c})

-----------------------------------------------------------------------------
(* A request and the stderr stream: processStderr and its callers.       *)

(* conn->to << op << args; processStderr(flush = true) flushes first.    *)
Send(t) ==
    LET c == Cur(t)
        k == CurOp(t)
    IN /\ pc[t] = "send"
       /\ toD' = [toD EXCEPT ![c] = Append(@, OpTok(k, Call(t)))]
       /\ Goto(t, CASE AddsCA(k) /\ ~SendsText(k) -> "inc"
                    [] Framed(k)                 -> "spawn"
                    [] OTHER                     -> "events")
       /\ ret' = [ret EXCEPT ![t] = CASE k = "NarFromPath"  -> "nar"
                                      [] ReplyOf(k) = <<>> -> "done"
                                      [] OTHER             -> "reply"]
       /\ UNCHANGED <<cacheVars, storeVars, calls, op, depth, hold, dex, raw, exc, st, ex, sink, frames,
                      nested, incd, res, failed, bad, aged, faults, fromD,
                      dst, dop, dby, dlogs, good, errTo, poolVars>>

(* The next message on the current connection, and consuming it. *)
Msg(t) == Head(fromD[Cur(t)])
Consume(t) == fromD' = [fromD EXCEPT ![Cur(t)] = Tail(@)]
Readable(t) == fromD[Cur(t)] # <<>>

(* Everything but the caller's control state and the inbound stream. *)
EventFrame == <<cacheVars, storeVars, op, depth, hold, raw, ret, st, ex, sink, frames, nested,
                incd, res, failed, bad, aged, faults, toD, dst, dop, dby,
                dlogs, good, errTo, poolVars, calls>>

(* STDERR_NEXT, START_ACTIVITY, STOP_ACTIVITY, RESULT go to the logger.  *)
EvLog(t) ==
    /\ pc[t] = "events"
    /\ Readable(t)
    /\ Msg(t).tag = "Log"
    /\ Consume(t)
    /\ UNCHANGED <<calls, pc, exc, dex, EventFrame>>

(* STDERR_READ with a source: answer with a chunk and flush. *)
EvRead(t) ==
    /\ pc[t] = "events"
    /\ Readable(t)
    /\ Msg(t).tag = "Read"
    /\ Pulls(CurOp(t))
    /\ Consume(t)
    /\ toD' = [toD EXCEPT ![Cur(t)] = Append(@, ChunkTok)]
    /\ UNCHANGED <<cacheVars, storeVars, calls, pc, exc, dex, op, depth, hold, raw, ret, st, ex, sink,
                   frames, nested, incd, res, failed, bad, aged, faults, dst,
                   dop, dby, dlogs, good, errTo, poolVars>>

(* STDERR_READ without a source ("no source"), or a message that is no  *)
(* stderr message at all ("got unknown message type").                   *)
EvUnexpected(t) ==
    /\ pc[t] = "events"
    /\ Readable(t)
    /\ \/ Msg(t).tag = "Read" /\ ~Pulls(CurOp(t))
       \/ Msg(t).tag \in {"Reply", "Nar", "NarEnd", "Unknown"}
    /\ Consume(t)
    /\ Throw(t, "proto")
    /\ UNCHANGED <<calls, dex, EventFrame>>

(* STDERR_ERROR: processStderr stops reading and returns the error as an *)
(* exception_ptr instead of throwing it.                                 *)
DaemonError(t) == Readable(t) /\ Msg(t).tag = "Error"

(* A query that takes every daemon error for "is not valid". *)
EvErrorAnyMsg(t) ==
    /\ pc[t] = "events"
    /\ DaemonError(t)
    /\ Consume(t)
    /\ \/ /\ raw[t] /\ depth[t] = 1
          /\ Goto(t, ret[t])
          /\ UNCHANGED <<calls, exc, dex>>
       \/ /\ ~(raw[t] /\ depth[t] = 1)
          /\ dex' = [dex EXCEPT ![t][depth[t]] = TRUE]
          /\ IF CurOp(t) = "QueryPathInfo"
                THEN Goto(t, "done") /\ UNCHANGED exc
                ELSE Throw(t, "remote")
    /\ UNCHANGED EventFrame

(* An "is not valid" error that falls through to reading the reply. *)
EvErrorNoReturn(t) ==
    /\ pc[t] = "events"
    /\ DaemonError(t)
    /\ Consume(t)
    /\ \/ /\ raw[t] /\ depth[t] = 1
          /\ Goto(t, ret[t])
          /\ UNCHANGED <<calls, exc, dex>>
       \/ /\ ~(raw[t] /\ depth[t] = 1)
          /\ dex' = [dex EXCEPT ![t][depth[t]] = TRUE]
          /\ IF CurOp(t) = "QueryPathInfo" /\ Msg(t).msg = "notValid"
                THEN Goto(t, ret[t]) /\ UNCHANGED exc
                ELSE Throw(t, "remote")
    /\ UNCHANGED EventFrame

(* STDERR_ERROR: Connection::processStderr returns the exception.  The   *)
(* ConnectionHandle records daemonException and rethrows it, except that *)
(* queryPathInfoUncached turns "is not valid" into a null result; a bare *)
(* Pool handle (narFromPath) drops the returned exception.               *)
EvError(t) ==
    /\ pc[t] = "events"
    /\ DaemonError(t)
    /\ Consume(t)
    /\ \/ /\ raw[t] /\ depth[t] = 1
          /\ Goto(t, ret[t])
          /\ UNCHANGED <<calls, exc, dex>>
       \/ /\ ~(raw[t] /\ depth[t] = 1)
          /\ dex' = [dex EXCEPT ![t][depth[t]] = TRUE]
          /\ IF CurOp(t) = "QueryPathInfo" /\ Msg(t).msg = "notValid"
                THEN Goto(t, "done") /\ UNCHANGED exc
                ELSE Throw(t, "remote")
    /\ UNCHANGED EventFrame

EvLast(t) ==
    /\ pc[t] = "events"
    /\ Readable(t)
    /\ Msg(t).tag = "Last"
    /\ Consume(t)
    /\ Goto(t, ret[t])
    /\ UNCHANGED <<calls, exc, dex, EventFrame>>

(* A read on a connection the daemon closed throws EndOfFile; the EPIPE *)
(* handler of addCAToStore swallows it and rethrows its SysError.        *)
ReadEOF(t) ==
    /\ pc[t] \in {"events", "reply", "nar"}
    /\ ~Readable(t)
    /\ ~good[Cur(t)]
    /\ Throw(t, IF pc[t] = "events" /\ ret[t] = "epipe" THEN "syserr" ELSE "eof")
    /\ UNCHANGED <<calls, fromD, dex, EventFrame>>

(* Reading the reply after STDERR_LAST. *)
ReadReply(t) ==
    /\ pc[t] = "reply"
    /\ Readable(t)
    /\ Consume(t)
    /\ IF Msg(t) = ReplyTok
          THEN Goto(t, IF depth[t] = 1 /\ Requeries(op[t]) THEN "requery" ELSE "done")
               /\ UNCHANGED exc
          ELSE Throw(t, "proto")
    /\ UNCHANGED <<calls, dex, EventFrame>>

(* narFromPath: copyNAR(conn->from, sink). *)
ReadNar(t) ==
    /\ pc[t] = "nar"
    /\ Readable(t)
    /\ Consume(t)
    /\ CASE Msg(t) = NarTok    -> UNCHANGED <<calls, pc, exc>>
         [] Msg(t) = NarEndTok -> Goto(t, "done") /\ UNCHANGED exc
         [] OTHER              -> Throw(t, "proto")
    /\ UNCHANGED <<calls, dex, EventFrame>>

(* The operation returns: its handle is destroyed without an exception. *)
(* Returning from the dump source's nested call resumes the upload.     *)
ReturnNested(t) ==
    /\ pc[t] = "done"
    /\ depth[t] = 2
    /\ ReleaseHandle(t, 2, FALSE)
    /\ depth' = [depth EXCEPT ![t] = 1]
    /\ Goto(t, "produce")
    /\ UNCHANGED <<cacheVars, storeVars, calls, op, dex, raw, ret, exc, st, ex, sink, frames, nested,
                   incd, res, failed, aged, faults, dop, dby, dlogs, good,
                   errTo, poolMax>>

(* A collectGarbage that forgets to clear the path-info cache. *)
ClearCacheNoClear ==
    /\ UNCHANGED cache
    /\ gcPending' = FALSE
    /\ spanning' = {u \in Threads : fills[u]}

(* collectGarbage, once it read its results: pathInfoCache.clear() under *)
(* Store::state's lock.  The history records the queryPathInfo calls in  *)
(* progress: on another connection, any of them may have been answered   *)
(* before the deletion and still be read and cached after the clear.      *)
ClearCache ==
    /\ cache' = "none"
    /\ gcPending' = FALSE
    /\ spanning' = {u \in Threads : fills[u]}

(* The operation returns and its handle is destroyed.  queryPathInfo    *)
(* goes on to cache the answer; collectGarbage, after reading its       *)
(* results, clears the path-info cache under Store::state's lock.       *)
Complete(t) ==
    /\ pc[t] = "done"
    /\ depth[t] = 1
    /\ ReleaseHandle(t, 1, FALSE)
    /\ res' = [res EXCEPT ![t] = IF fills[t] THEN @ ELSE "ok"]
    /\ Goto(t, IF fills[t] THEN "fill" ELSE "idle")
    /\ IF op[t] = "CollectGarbage"
          THEN ClearCache
          ELSE UNCHANGED <<cache, spanning, gcPending>>
    /\ UNCHANGED <<calls, op, depth, dex, raw, ret, exc, st, ex, sink, frames,
                   nested, incd, failed, aged, faults, dop, dby, dlogs, good,
                   errTo, pathValid, fills, filledBySpanning, poolMax>>

(* Store::queryPathInfo caches what queryPathInfoUncached returned, the *)
(* daemon's null answer included, and throws InvalidPath for the latter. *)
FillCache(t) ==
    /\ pc[t] = "fill"
    /\ cache' = IF errTo[Call(t)] = "notValid" THEN "invalid" ELSE "valid"
    /\ filledBySpanning' = (t \in spanning)
    /\ spanning' = spanning \ {t}
    /\ fills' = [fills EXCEPT ![t] = FALSE]
    /\ res' = [res EXCEPT ![t] = IF errTo[Call(t)] = "notValid" THEN "invalid" ELSE "ok"]
    /\ Goto(t, "idle")
    /\ UNCHANGED <<calls, op, depth, hold, dex, raw, ret, exc, st, ex, sink,
                   frames, nested, incd, failed, bad, aged, faults, daemonVars,
                   poolVars>>

(* Store::queryPathInfo finds the path in its cache and answers without *)
(* a connection; a cached null answer throws InvalidPath.                *)
CacheHit(t) ==
    /\ pc[t] = "idle"
    /\ calls[t] < MaxCalls
    /\ "QueryPathInfo" \in CallerOps
    /\ cache # "none"
    /\ calls' = [calls EXCEPT ![t] = @ + 1]
    /\ op' = [op EXCEPT ![t] = "QueryPathInfo"]
    /\ res' = [res EXCEPT ![t] = IF cache = "valid" THEN "ok" ELSE "invalid"]
    /\ ForgetErrors(t)
    /\ UNCHANGED <<pc, depth, hold, dex, raw, ret, exc, st, ex, sink, frames,
                   nested, incd, failed, bad, aged, faults, cacheVars, toD,
                   fromD, dst, dop, dby, dlogs, good, storeVars, poolVars>>

(* The operation goes on past its getProtocol(); an operation it turns  *)
(* into that asks getProtocol() itself is not probed yet.                 *)
ProbeDone(t) ==
    LET k == AfterProbe(op[t]) IN
    /\ op' = [op EXCEPT ![t] = k]
    /\ ret' = [ret EXCEPT ![t] = IF k # op[t] /\ Probes(k) THEN "reply"
                                                             ELSE "probed"]

(* addMultipleToStore keeps the handle of its version check while it   *)
(* takes the connection for the upload.                                   *)
ProbeNoRelease(t) ==
    /\ pc[t] = "probe"
    /\ hold' = [hold EXCEPT ![t][2] = hold[t][1], ![t][1] = NoConn]
    /\ ProbeDone(t)
    /\ Goto(t, "get")
    /\ UNCHANGED <<cacheVars, calls, depth, dex, raw, exc, st, ex, sink, frames, nested,
                   incd, res, failed, bad, aged, faults, daemonVars, poolVars>>

(* getProtocol() (queryDerivationOutputs, queryPartialDerivationOutputMap) *)
(* and addMultipleToStore's GET_PROTOCOL_MINOR(getConnection()->           *)
(* daemonVersion) release the temporary handle before the body takes a    *)
(* connection.                                                              *)
Probe(t) ==
    /\ pc[t] = "probe"
    /\ ReleaseHandle(t, 1, FALSE)
    /\ ProbeDone(t)
    /\ Goto(t, "get")
    /\ UNCHANGED <<cacheVars, storeVars, calls, depth, dex, raw, exc, st, ex, sink, frames, nested,
                   incd, res, failed, aged, faults, dop, dby, dlogs, good,
                   errTo, poolMax>>

(* buildPathsWithResults: the daemon builds with results from 1.34 on;  *)
(* before that the handle is released and buildPaths called instead.    *)
BuildWithResults(t) ==
    /\ pc[t] = "bpwr"
    /\ DaemonMinor >= 34
    /\ Goto(t, "send")
    /\ UNCHANGED <<cacheVars, calls, op, depth, hold, dex, raw, ret, exc, st, ex, sink, frames,
                   nested, incd, res, failed, bad, aged, faults, daemonVars,
                   poolVars>>

(* The fallback without conn_.reset(): buildPaths asks the pool for a   *)
(* second connection while the first is still held.                     *)
BuildWithResultsFallbackNoReset(t) ==
    /\ pc[t] = "bpwr"
    /\ DaemonMinor < 34
    /\ op' = [op EXCEPT ![t] = "BuildPaths"]
    /\ Goto(t, "get")
    /\ UNCHANGED <<cacheVars, calls, depth, hold, dex, raw, ret, exc, st, ex, sink, frames,
                   nested, incd, res, failed, bad, aged, faults, daemonVars,
                   poolVars>>

BuildWithResultsFallback(t) ==
    /\ pc[t] = "bpwr"
    /\ DaemonMinor < 34
    /\ ReleaseHandle(t, 1, FALSE)
    /\ op' = [op EXCEPT ![t] = "BuildPaths"]
    /\ Goto(t, "get")
    /\ UNCHANGED <<cacheVars, storeVars, calls, depth, dex, raw, ret, exc, st, ex, sink, frames, nested,
                   incd, res, failed, aged, faults, dop, dby, dlogs, good,
                   errTo, poolMax>>

-----------------------------------------------------------------------------
(* Uploads: addCAToStore (>= 25) and addToStore (>= 23) stream the dump  *)
(* through withFramedSink while a second thread drains stderr.           *)

(* The dump source may call the store, so make room in the pool. *)
Inc(t) ==
    /\ pc[t] = "inc"
    /\ IncCapacity
    /\ incd' = [incd EXCEPT ![t] = TRUE]
    /\ Goto(t, IF Framed(op[t]) THEN "spawn" ELSE "produce")
    /\ UNCHANGED <<cacheVars, calls, op, depth, hold, dex, raw, ret, exc, st, ex, sink, frames,
                   nested, res, failed, bad, aged, faults, daemonVars, inUse,
                   idle, waiting>>

(* withFramedSink: flush the request, start the stderr thread, open the *)
(* FramedSink over conn->to.                                             *)
Spawn(t) ==
    /\ pc[t] = "spawn"
    /\ st' = [st EXCEPT ![t] = "run"]
    /\ ex' = [ex EXCEPT ![t] = NoExc]
    /\ sink' = [sink EXCEPT ![t] = "open"]
    /\ frames' = [frames EXCEPT ![t] = 0]
    /\ Goto(t, "produce")
    /\ UNCHANGED <<cacheVars, calls, op, depth, hold, dex, raw, ret, exc, nested, incd, res,
                   failed, bad, aged, faults, daemonVars, poolVars>>

UploadFrame == <<cacheVars, storeVars, op, depth, hold, dex, raw, ret, exc, st, ex, nested, incd,
                 res, failed, bad, aged, faults, fromD, dst, dop, dby, dlogs,
                 good, errTo, poolVars>>

(* fun(sink): the dump source writes a frame; FramedSink finds no error. *)
ProduceFrame(t) ==
    /\ pc[t] = "produce"
    /\ ex[t] = NoExc
    /\ frames[t] < MaxFrames
    /\ toD' = [toD EXCEPT ![hold[t][1]] = Append(@, FrameTok)]
    /\ frames' = [frames EXCEPT ![t] = @ + 1]
    /\ UNCHANGED <<cacheVars, storeVars, calls, pc, sink, UploadFrame>>

(* The FramedSink sees the error the stderr thread stored and throws it  *)
(* without writing the zero frame (spec 4.2).                            *)
ProducerSeesError(t) ==
    /\ pc[t] = "produce"
    /\ ex[t] # NoExc
    /\ frames[t] < MaxFrames
    /\ sink' = [sink EXCEPT ![t] = "closed"]
    /\ Throw(t, ex[t])
    /\ UNCHANGED <<cacheVars, storeVars, calls, frames, toD, op, depth, hold, dex, raw, ret, st, ex,
                   nested, incd, res, failed, bad, aged, faults, fromD, dst,
                   dop, dby, dlogs, good, errTo, poolVars>>

(* The dump source calls the store (addToStoreFromDump's source only,   *)
(* inside the window opened by incCapacity; addTextToStore's StringSource *)
(* never does).                                                           *)
NestedCall(t) ==
    /\ pc[t] = "produce"
    /\ op[t] = "AddToStore"
    /\ ~nested[t]
    /\ nested' = [nested EXCEPT ![t] = TRUE]
    /\ depth' = [depth EXCEPT ![t] = 2]
    /\ Goto(t, "get")
    /\ UNCHANGED <<cacheVars, calls, op, hold, dex, raw, ret, exc, st, ex, sink, frames, incd,
                   res, failed, bad, aged, faults, daemonVars, poolVars>>

EndOfDump(t) ==
    /\ pc[t] = "produce"
    /\ Goto(t, IF Framed(op[t]) THEN "close" ELSE "dumpend")
    /\ UNCHANGED <<calls, exc, frames, sink, toD, UploadFrame>>

(* sink.flush() and ~FramedSink: the zero frame, unless an error arrived. *)
CloseSink(t) ==
    /\ pc[t] = "close"
    /\ sink' = [sink EXCEPT ![t] = "closed"]
    /\ IF ex[t] = NoExc
          THEN /\ toD' = [toD EXCEPT ![hold[t][1]] = Append(@, EndTok)]
               /\ Goto(t, "join")
               /\ UNCHANGED exc
          ELSE Throw(t, ex[t]) /\ UNCHANGED toD
    /\ UNCHANGED <<cacheVars, storeVars, calls, frames, op, depth, hold, dex, raw, ret, st, ex, nested,
                   incd, res, failed, bad, aged, faults, fromD, dst, dop, dby,
                   dlogs, good, errTo, poolVars>>

(* A join that does not rethrow what the stderr thread stored. *)
JoinNoRethrow(t) ==
    /\ pc[t] = "join"
    /\ st[t] = "done"
    /\ st' = [st EXCEPT ![t] = "none"]
    /\ ex' = [ex EXCEPT ![t] = NoExc]
    /\ sink' = [sink EXCEPT ![t] = "none"]
    /\ Goto(t, IF incd[t] THEN "dec" ELSE ret[t])
    /\ UNCHANGED <<cacheVars, calls, exc, op, depth, hold, dex, raw, ret, frames, nested,
                   incd, res, failed, bad, aged, faults, daemonVars, poolVars>>

(* stderrThread.join(); if (ex) std::rethrow_exception(ex); *)
Join(t) ==
    /\ pc[t] = "join"
    /\ st[t] = "done"
    /\ st' = [st EXCEPT ![t] = "none"]
    /\ ex' = [ex EXCEPT ![t] = NoExc]
    /\ sink' = [sink EXCEPT ![t] = "none"]
    /\ IF ex[t] # NoExc
          THEN Throw(t, ex[t])
          ELSE Goto(t, IF incd[t] THEN "dec" ELSE ret[t]) /\ UNCHANGED exc
    /\ UNCHANGED <<cacheVars, calls, op, depth, hold, dex, raw, ret, frames, nested, incd, res,
                   failed, bad, aged, faults, daemonVars, poolVars>>

(* Finally cleanup: decCapacity(), then the ValidPathInfo reply; below  *)
(* 25, processStderr() and the store path.                                *)
Dec(t) ==
    /\ pc[t] = "dec"
    /\ DecCapacity
    /\ incd' = [incd EXCEPT ![t] = FALSE]
    /\ Goto(t, IF Framed(op[t]) THEN "reply" ELSE "events")
    /\ UNCHANGED <<cacheVars, calls, op, depth, hold, dex, raw, ret, exc, st, ex, sink, frames,
                   nested, res, failed, bad, aged, faults, daemonVars, inUse,
                   idle, waiting>>

(* Below 25 the dump goes straight onto conn->to; its last bytes end the *)
(* NAR.                                                                  *)
DumpEnd(t) ==
    /\ pc[t] = "dumpend"
    /\ toD' = [toD EXCEPT ![hold[t][1]] = Append(@, EndTok)]
    /\ Goto(t, "dec")
    /\ UNCHANGED <<calls, exc, frames, sink, UploadFrame>>

(* A Finally cleanup that skips decCapacity when the write throws. *)
DumpEPIPENoDec(t) ==
    /\ pc[t] \in {"produce", "dumpend"}
    /\ depth[t] = 1
    /\ Dumps(op[t])
    /\ ~good[hold[t][1]]
    /\ incd' = [incd EXCEPT ![t] = FALSE]
    /\ ret' = [ret EXCEPT ![t] = "epipe"]
    /\ Goto(t, "events")
    /\ UNCHANGED <<cacheVars, calls, op, depth, hold, dex, raw, exc, st, ex, sink, frames,
                   nested, res, failed, bad, aged, faults, daemonVars,
                   poolVars>>

(* Writing the dump to a daemon that closed fails with EPIPE: the Finally *)
(* runs decCapacity, then the catch reads the daemon's error with         *)
(* processStderr, ignoring EndOfFile, before it rethrows the SysError.    *)
(* A daemon that closed the socket sent no STDERR_LAST, so that          *)
(* processStderr ends in the daemon's ERROR or in EndOfFile.             *)
DumpEPIPE(t) ==
    /\ pc[t] \in {"produce", "dumpend"}
    /\ depth[t] = 1
    /\ Dumps(op[t])
    /\ ~good[hold[t][1]]
    /\ DecCapacity
    /\ incd' = [incd EXCEPT ![t] = FALSE]
    /\ ret' = [ret EXCEPT ![t] = "epipe"]
    /\ Goto(t, "events")
    /\ UNCHANGED <<cacheVars, calls, op, depth, hold, dex, raw, exc, st, ex, sink, frames,
                   nested, res, failed, bad, aged, faults, daemonVars, inUse,
                   idle, waiting>>

(* addCAToStore below 25 with repair set: throw Error before anything is *)
(* written, with the connection held.                                      *)
RepairUnsupported(t) ==
    /\ pc[t] = "send"
    /\ depth[t] = 1
    /\ Requeries(op[t])
    /\ Throw(t, "client")
    /\ UNCHANGED <<cacheVars, calls, op, depth, hold, dex, raw, ret, st, ex, sink, frames,
                   nested, incd, res, failed, bad, aged, faults, daemonVars,
                   poolVars>>

(* queryPathInfo() on the path while the upload still holds its handle. *)
RequeryNoReset(t) ==
    /\ pc[t] = "requery"
    /\ op' = [op EXCEPT ![t] = "QueryPathInfo"]
    /\ depth' = [depth EXCEPT ![t] = 2]
    /\ Goto(t, "get")
    /\ UNCHANGED <<cacheVars, calls, hold, dex, raw, ret, exc, st, ex, sink, frames, nested,
                   incd, res, failed, bad, aged, faults, daemonVars, poolVars>>

(* conn_.reset() to free the connection, then queryPathInfo(path). *)
Requery(t) ==
    /\ pc[t] = "requery"
    /\ ReleaseHandle(t, 1, FALSE)
    /\ op' = [op EXCEPT ![t] = "QueryPathInfo"]
    /\ Goto(t, "get")
    /\ UNCHANGED <<cacheVars, storeVars, calls, depth, dex, raw, ret, exc, st, ex, sink, frames, nested,
                   incd, res, failed, aged, faults, dop, dby, dlogs, good,
                   errTo, poolMax>>

(* The stderr thread: ConnectionHandle::processStderr(nullptr, nullptr,  *)
(* false) on the upload's connection; what it throws is stored in ex.    *)
StderrFrame == <<cacheVars, storeVars, pc, op, depth, hold, raw, ret, exc, sink, frames, nested,
                 incd, res, failed, bad, aged, toD, dst, dop, dby,
                 dlogs, good, errTo, poolVars>>

SMsg(t) == Head(fromD[hold[t][1]])
SConsume(t) == fromD' = [fromD EXCEPT ![hold[t][1]] = Tail(@)]

StderrLog(t) ==
    /\ st[t] = "run"
    /\ fromD[hold[t][1]] # <<>>
    /\ SMsg(t).tag = "Log"
    /\ SConsume(t)
    /\ UNCHANGED <<calls, st, ex, dex, faults, StderrFrame>>

(* The stderr thread's catch block does not store the exception. *)
StderrEndSwallow(t) ==
    /\ st[t] = "run"
    /\ fromD[hold[t][1]] # <<>>
    /\ SMsg(t).tag # "Log"
    /\ SConsume(t)
    /\ st' = [st EXCEPT ![t] = "done"]
    /\ IF SMsg(t).tag = "Error"
          THEN dex' = [dex EXCEPT ![t][1] = TRUE]
          ELSE UNCHANGED dex
    /\ UNCHANGED <<calls, ex, faults, StderrFrame>>

(* processStderr reads on after STDERR_ERROR as after a log message. *)
StderrEndContinue(t) ==
    /\ st[t] = "run"
    /\ fromD[hold[t][1]] # <<>>
    /\ SMsg(t).tag # "Log"
    /\ SConsume(t)
    /\ CASE SMsg(t).tag = "Last"  -> st' = [st EXCEPT ![t] = "done"]
                                     /\ UNCHANGED <<ex, dex>>
         [] SMsg(t).tag = "Error" -> UNCHANGED <<st, ex, dex>>
         [] OTHER                 -> /\ st' = [st EXCEPT ![t] = "done"]
                                     /\ ex' = [ex EXCEPT ![t] = "proto"]
                                     /\ UNCHANGED dex
    /\ UNCHANGED <<calls, faults, StderrFrame>>

StderrEnd(t) ==
    /\ st[t] = "run"
    /\ fromD[hold[t][1]] # <<>>
    /\ SMsg(t).tag # "Log"
    /\ SConsume(t)
    /\ st' = [st EXCEPT ![t] = "done"]
    /\ CASE SMsg(t).tag = "Last"  -> UNCHANGED <<calls, ex, dex>>
         [] SMsg(t).tag = "Error" -> /\ ex' = [ex EXCEPT ![t] = "remote"]
                                     /\ dex' = [dex EXCEPT ![t][1] = TRUE]
         [] OTHER                 -> /\ ex' = [ex EXCEPT ![t] = "proto"]
                                     /\ UNCHANGED dex
    /\ UNCHANGED <<calls, faults, StderrFrame>>

StderrEOF(t) ==
    /\ st[t] = "run"
    /\ fromD[hold[t][1]] = <<>>
    /\ ~good[hold[t][1]]
    /\ st' = [st EXCEPT ![t] = "done"]
    /\ ex' = [ex EXCEPT ![t] = "eof"]
    /\ UNCHANGED <<calls, dex, fromD, faults, StderrFrame>>

-----------------------------------------------------------------------------
(* An exception unwinds the operation: the nested call's handle, then    *)
(* ~FramedSink, the Finally that joins the stderr thread, the Finally    *)
(* that calls decCapacity, and the operation's own handle.               *)

UnwindFrame == <<cacheVars, storeVars, op, raw, ret, exc, frames, nested, res, failed, aged,
                 faults, dop, dby, dlogs, good, errTo>>

UnwindNested(t) ==
    /\ pc[t] = "unwind"
    /\ depth[t] = 2
    /\ IF hold[t][2] # NoConn
          THEN ReleaseHandle(t, 2, TRUE)
          ELSE UNCHANGED <<calls, hold, bad, dst, toD, fromD, poolVars>>
    /\ depth' = [depth EXCEPT ![t] = 1]
    /\ UNCHANGED <<calls, pc, dex, st, ex, sink, incd, UnwindFrame>>

(* A FramedSink whose destructor does not end the stream. *)
UnwindSinkNoEnd(t) ==
    /\ pc[t] = "unwind"
    /\ depth[t] = 1
    /\ sink[t] = "open"
    /\ sink' = [sink EXCEPT ![t] = "closed"]
    /\ UNCHANGED <<calls, pc, depth, hold, dex, st, ex, incd, bad, toD, fromD,
                   dst, poolVars, UnwindFrame>>

(* ~FramedSink writes the zero frame on the way out. *)
UnwindSink(t) ==
    /\ pc[t] = "unwind"
    /\ depth[t] = 1
    /\ sink[t] = "open"
    /\ toD' = [toD EXCEPT ![hold[t][1]] = Append(@, EndTok)]
    /\ sink' = [sink EXCEPT ![t] = "closed"]
    /\ UNCHANGED <<calls, pc, depth, hold, dex, st, ex, incd, bad, fromD, dst,
                   poolVars, UnwindFrame>>

(* Finally joinStderrThread: join and ignore what the thread stored. *)
UnwindJoin(t) ==
    /\ pc[t] = "unwind"
    /\ depth[t] = 1
    /\ sink[t] = "closed"
    /\ st[t] = "done"
    /\ st' = [st EXCEPT ![t] = "none"]
    /\ ex' = [ex EXCEPT ![t] = NoExc]
    /\ sink' = [sink EXCEPT ![t] = "none"]
    /\ UNCHANGED <<calls, pc, depth, hold, dex, incd, bad, toD, fromD, dst,
                   poolVars, UnwindFrame>>

(* decCapacity() only on the normal path. *)
UnwindCapacityNoDec(t) ==
    /\ pc[t] = "unwind"
    /\ depth[t] = 1
    /\ sink[t] = "none"
    /\ incd[t]
    /\ incd' = [incd EXCEPT ![t] = FALSE]
    /\ UNCHANGED <<calls, pc, depth, hold, dex, st, ex, sink, bad, toD, fromD, dst,
                   poolVars, UnwindFrame>>

UnwindCapacity(t) ==
    /\ pc[t] = "unwind"
    /\ depth[t] = 1
    /\ sink[t] = "none"
    /\ incd[t]
    /\ DecCapacity
    /\ incd' = [incd EXCEPT ![t] = FALSE]
    /\ UNCHANGED <<calls, pc, depth, hold, dex, st, ex, sink, bad, toD, fromD, dst,
                   inUse, idle, waiting, UnwindFrame>>

UnwindHandle(t) ==
    /\ pc[t] = "unwind"
    /\ depth[t] = 1
    /\ sink[t] = "none"
    /\ ~incd[t]
    /\ hold[t][1] # NoConn
    /\ ReleaseHandle(t, 1, TRUE)
    /\ UNCHANGED <<calls, pc, depth, dex, st, ex, sink, incd, poolMax, UnwindFrame>>

(* The exception is cleared before the caller sees it. *)
UnwindDoneLost(t) ==
    /\ pc[t] = "unwind"
    /\ depth[t] = 1
    /\ sink[t] = "none"
    /\ ~incd[t]
    /\ hold[t][1] = NoConn
    /\ exc' = [exc EXCEPT ![t] = NoExc]
    /\ res' = [res EXCEPT ![t] = exc'[t]]
    /\ Goto(t, "idle")
    /\ fills' = [fills EXCEPT ![t] = FALSE]
    /\ UNCHANGED <<cache, spanning, filledBySpanning, calls, op, depth, hold, dex, raw, ret, st, ex, sink, frames,
                   nested, incd, failed, bad, aged, faults, daemonVars,
                   poolVars>>

(* The exception reaches the caller. *)
UnwindDone(t) ==
    /\ pc[t] = "unwind"
    /\ depth[t] = 1
    /\ sink[t] = "none"
    /\ ~incd[t]
    /\ hold[t][1] = NoConn
    /\ res' = [res EXCEPT ![t] = exc[t]]
    /\ exc' = [exc EXCEPT ![t] = NoExc]
    /\ Goto(t, "idle")
    /\ fills' = [fills EXCEPT ![t] = FALSE]
    /\ UNCHANGED <<cache, spanning, filledBySpanning, calls, op, depth, hold, dex, raw, ret, st, ex, sink, frames,
                   nested, incd, failed, bad, aged, faults, daemonVars,
                   poolVars>>

-----------------------------------------------------------------------------
(* Faults: the socket breaks, the user interrupts, the caller's source   *)
(* or sink throws.  At most MaxFaults of them per behaviour.             *)

Fault == faults < MaxFaults /\ faults' = faults + 1

Interrupt(t) ==
    /\ pc[t] \in {"events", "reply", "nar"}
    /\ Fault
    /\ Throw(t, "interrupt")
    /\ UNCHANGED <<cacheVars, calls, op, depth, hold, dex, raw, ret, st, ex, sink, frames,
                   nested, incd, res, failed, bad, aged, daemonVars, poolVars>>

(* dump.drainInto(sink) / copyNAR(source, sink): the caller's side throws. *)
CallerFail(t) ==
    /\ \/ pc[t] = "produce" /\ depth[t] = 1
       \/ pc[t] = "nar"
    /\ Fault
    /\ Throw(t, "client")
    /\ UNCHANGED <<cacheVars, calls, op, depth, hold, dex, raw, ret, st, ex, sink, frames,
                   nested, incd, res, failed, bad, aged, daemonVars, poolVars>>

(* ReceiveInterrupts: the stderr thread is interrupted too. *)
StderrInterrupt(t) ==
    /\ st[t] = "run"
    /\ Fault
    /\ st' = [st EXCEPT ![t] = "done"]
    /\ ex' = [ex EXCEPT ![t] = "interrupt"]
    /\ UNCHANGED <<calls, dex, fromD, StderrFrame>>

Break(c) ==
    /\ dst[c] \notin {"free", "gone"}
    /\ Fault
    /\ good' = [good EXCEPT ![c] = FALSE]
    /\ dst' = [dst EXCEPT ![c] = "gone"]
    /\ UNCHANGED <<storeVars, threadVars, failed, bad, aged, toD, fromD, dop, dby,
                   dlogs, errTo, poolVars>>

(* The daemon sends a message code the client does not know and hangs  *)
(* up (a corrupted stream or an incompatible daemon).                    *)
Garble(c) ==
    /\ dst[c] \in {"frames", "drain", "work"}
    /\ Fault
    /\ fromD' = [fromD EXCEPT ![c] = Append(@, UnknownTok)]
    /\ good' = [good EXCEPT ![c] = FALSE]
    /\ dst' = [dst EXCEPT ![c] = "gone"]
    /\ UNCHANGED <<storeVars, threadVars, failed, bad, aged, toD, dop, dby, dlogs, errTo,
                   poolVars>>

(* Time passes: the connection outlives maxConnectionAge. *)
Age(c) ==
    /\ dst[c] # "free"
    /\ ~aged[c]
    /\ Fault
    /\ aged' = [aged EXCEPT ![c] = TRUE]
    /\ UNCHANGED <<threadVars, failed, bad, daemonVars, poolVars>>

-----------------------------------------------------------------------------
(* std::max(1, (int) maxConnections) *)
InitialCapacity == IF MaxConnections > 1 THEN MaxConnections ELSE 1

Init ==
    /\ pc = [t \in Threads |-> "idle"]
    /\ op = [t \in Threads |-> "IsValidPath"]
    /\ depth = [t \in Threads |-> 1]
    /\ hold = [t \in Threads |-> [d \in Depths |-> NoConn]]
    /\ dex = [t \in Threads |-> [d \in Depths |-> FALSE]]
    /\ raw = [t \in Threads |-> FALSE]
    /\ ret = [t \in Threads |-> "reply"]
    /\ exc = [t \in Threads |-> NoExc]
    /\ st = [t \in Threads |-> "none"]
    /\ ex = [t \in Threads |-> NoExc]
    /\ sink = [t \in Threads |-> "none"]
    /\ frames = [t \in Threads |-> 0]
    /\ nested = [t \in Threads |-> FALSE]
    /\ incd = [t \in Threads |-> FALSE]
    /\ res = [t \in Threads |-> "none"]
    /\ failed = FALSE
    /\ bad = [c \in Slots |-> FALSE]
    /\ aged = [c \in Slots |-> FALSE]
    /\ faults = 0
    /\ calls = [t \in Threads |-> 0]
    /\ toD = [c \in Slots |-> <<>>]
    /\ fromD = [c \in Slots |-> <<>>]
    /\ dst = [c \in Slots |-> "free"]
    /\ dop = [c \in Slots |-> "IsValidPath"]
    /\ dby = [c \in Slots |-> Nobody]
    /\ dlogs = [c \in Slots |-> 0]
    /\ good = [c \in Slots |-> FALSE]
    /\ errTo = [x \in Calls |-> "none"]
    /\ pathValid \in InitialValidity
    /\ gcPending = FALSE
    /\ cache = "none"
    /\ fills = [t \in Threads |-> FALSE]
    /\ spanning = {}
    /\ filledBySpanning = FALSE
    /\ PoolInit(InitialCapacity)

(* The steps of an operation in progress. *)
RunStep(t) ==
    \/ GetIdle(t) \/ GetReserve(t) \/ GetWait(t)
    \/ FactoryFailFast(t) \/ FactoryProceed(t) \/ OpenConnection(t)
    \/ Send(t) \/ EvLog(t) \/ EvRead(t) \/ EvUnexpected(t) \/ EvError(t)
    \/ EvLast(t) \/ ReadEOF(t) \/ ReadReply(t) \/ ReadNar(t)
    \/ ReturnNested(t) \/ Complete(t) \/ FillCache(t)
    \/ BuildWithResults(t) \/ BuildWithResultsFallback(t) \/ Probe(t)
    \/ Inc(t) \/ Spawn(t) \/ ProduceFrame(t) \/ ProducerSeesError(t)
    \/ NestedCall(t) \/ EndOfDump(t) \/ CloseSink(t) \/ Join(t) \/ Dec(t)
    \/ DumpEnd(t) \/ DumpEPIPE(t) \/ Requery(t) \/ RepairUnsupported(t)
    \/ UnwindNested(t) \/ UnwindSink(t) \/ UnwindJoin(t)
    \/ UnwindCapacity(t) \/ UnwindHandle(t) \/ UnwindDone(t)

(* A step of the daemon leaves the client's state alone. *)
clientVars == <<threadVars, failed, bad, aged, faults, poolVars>>

(* The request on c is the caller's queryPathInfo of the queried path. *)
Asks(c) == \E t \in Threads : dby[c] = Call(t) /\ fills[t]

DaemonStep(c) ==
    \/ DRecvOp(c) /\ UNCHANGED clientVars
    \/ DFrame(c) /\ UNCHANGED clientVars
    \/ DGarbage(c) /\ UNCHANGED clientVars
    \/ DLog(c) /\ UNCHANGED clientVars
    \/ DEarlyError(c) /\ UNCHANGED clientVars
    \/ DPull(c) /\ UNCHANGED clientVars
    \/ DChunk(c) /\ UNCHANGED clientVars
    \/ DCollect(c) /\ UNCHANGED clientVars
    \/ DFail(c, Asks(c)) /\ UNCHANGED clientVars
    \/ DSucceed(c, Asks(c)) /\ UNCHANGED clientVars

(* The steps a caller thread takes without a fault. *)
ThreadStep(t) ==
    \/ StartOp(t)
    \/ CacheHit(t)
    \/ RunStep(t)

StderrStep(t) == StderrLog(t) \/ StderrEnd(t) \/ StderrEOF(t)

FaultStep ==
    \/ \E t \in Threads : Interrupt(t) \/ CallerFail(t) \/ StderrInterrupt(t)
                          \/ OpenFail(t)
    \/ \E c \in Slots : Break(c) \/ Garble(c)

Progress ==
    \/ \E t \in Threads : \/ ThreadStep(t)
                         \/ StderrStep(t)
    \/ \E c \in Slots : DaemonStep(c)

(* Every caller has made its calls and returned. *)
Finished == \A t \in Threads : pc[t] = "idle" /\ calls[t] = MaxCalls

Next ==
    \/ Progress
    \/ FaultStep
    \/ \E c \in Slots : Age(c)
    \/ (Finished /\ UNCHANGED vars)

Spec == Init /\ [][Next]_vars

(* Each caller's operation runs on its own thread, the stderr thread of  *)
(* withFramedSink is a std::thread and the daemon serves every           *)
(* connection in a process of its own: none of them is starved while it *)
(* can move.  A thread blocked in Pool::get is not enabled (it waits on   *)
(* the condition variable) until a release notifies it, after which it   *)
(* stays enabled.  Callers need not start calls and faults need not      *)
(* happen, so StartOp, CacheHit and FaultStep carry no fairness.          *)
Fairness ==
    /\ \A t \in Threads : WF_vars(RunStep(t)) /\ WF_vars(StderrStep(t))
    /\ \A c \in Slots : WF_vars(DaemonStep(c))

FairSpec == Spec /\ Fairness

-----------------------------------------------------------------------------
(* Properties.                                                           *)

PcLabels == {"idle", "get", "factory", "open", "send", "events", "reply",
             "nar", "done", "bpwr", "inc", "spawn", "produce", "close",
             "join", "dec", "unwind", "dumpend", "requery", "probe", "fill"}

TypeOK ==
    /\ pc \in [Threads -> PcLabels]
    /\ op \in [Threads -> Ops]
    /\ depth \in [Threads -> Depths]
    /\ hold \in [Threads -> [Depths -> Slots \cup {NoConn}]]
    /\ dex \in [Threads -> [Depths -> BOOLEAN]]
    /\ raw \in [Threads -> BOOLEAN]
    /\ ret \in [Threads -> {"reply", "nar", "done", "epipe", "probed"}]
    /\ exc \in [Threads -> Exceptions \cup {NoExc}]
    /\ st \in [Threads -> {"none", "run", "done"}]
    /\ ex \in [Threads -> Exceptions \cup {NoExc}]
    /\ sink \in [Threads -> {"none", "open", "closed"}]
    /\ frames \in [Threads -> 0..MaxFrames]
    /\ nested \in [Threads -> BOOLEAN]
    /\ incd \in [Threads -> BOOLEAN]
    /\ res \in [Threads -> Exceptions \cup {"none", "ok", "invalid"}]
    /\ failed \in BOOLEAN
    /\ bad \in [Slots -> BOOLEAN]
    /\ aged \in [Slots -> BOOLEAN]
    /\ good \in [Slots -> BOOLEAN]
    /\ faults \in 0..MaxFaults
    /\ calls \in [Threads -> 0..MaxCalls]
    /\ dst \in [Slots -> Phases]
    /\ dop \in [Slots -> Ops]
    /\ dby \in [Slots -> Calls \cup {Nobody}]
    /\ dlogs \in [Slots -> 0..MaxLogs]
    /\ errTo \in [Calls -> ErrorMsgs \cup {"none"}]
    /\ pathValid \in BOOLEAN /\ gcPending \in BOOLEAN
    /\ cache \in {"none", "valid", "invalid"}
    /\ fills \in [Threads -> BOOLEAN]
    /\ spanning \subseteq Threads /\ filledBySpanning \in BOOLEAN
    /\ poolMax \in Nat /\ inUse \in Nat
    /\ idle \in Seq(Slots)
    /\ waiting \subseteq Threads

(* The daemon waits for an operation and nothing is unread either way. *)
InSync(c) == toD[c] = <<>> /\ fromD[c] = <<>> /\ dst[c] = "await"

(* A connection the pool keeps idle can serve the next caller: nothing   *)
(* is left unread in either direction and its daemon waits for an        *)
(* operation.  Broken connections are exempt (get() drops them).  This   *)
(* is what ConnectionHandle's markBad on unwinding is for.               *)
IdleInSync == \A i \in 1..Len(idle) : good[idle[i]] => InSync(idle[i])

(* An operation that returns normally had no error reported for it by   *)
(* the daemon: processStderr, the stderr thread of withFramedSink and    *)
(* the rethrow after its join never lose an error, and the "is not      *)
(* valid" error queryPathInfoUncached turns into a null result reaches   *)
(* the caller as InvalidPath.                                            *)
DaemonErrorSurfaces ==
    \A t \in Threads : pc[t] = "idle" /\ res[t] = "ok" => errTo[Call(t)] = "none"

(* The pool's in-use count equals the handles callers hold plus the     *)
(* connections being opened for them: no path out of an operation,      *)
(* normal or exceptional, nested or not, leaks a slot or frees one twice.*)
PoolCountsHandles ==
    inUse = Cardinality({th \in Threads \X Depths : hold[th[1]][th[2]] # NoConn})
            + Quantify(Threads, LAMBDA t : pc[t] \in {"factory", "open"})

(* The pool's capacity is raised exactly while an addCAToStore upload is *)
(* in progress, and restored on every way out of it.                     *)
CapacityRestored ==
    poolMax = InitialCapacity + Quantify(Threads, LAMBDA t : incd[t])

(* Some caller, stderr thread or daemon can always move without waiting *)
(* for a fault: nobody waits forever on the pool, the daemon or a join. *)
NoDeadlock == Finished \/ ENABLED Progress

(* collectGarbage clears the path-info cache after the daemon deleted    *)
(* paths.  A cache entry that still calls a deleted path valid came      *)
(* either from a queryPathInfo that was in progress when the latest      *)
(* normally returning collectGarbage cleared the cache (the race the     *)
(* clear cannot close: it may have been answered before the deletion),   *)
(* or no collectGarbage has returned normally since the deletion (it     *)
(* failed or was interrupted after the daemon deleted, so the clear was  *)
(* skipped).  A query started after the clear is answered after the      *)
(* deletion, since the clear follows processStderr.                      *)
GCInvalidates ==
    cache = "valid" /\ ~pathValid => gcPending \/ filledBySpanning

(* Every operation a caller starts returns, normally or by an exception: *)
(* no caller waits forever on the pool, on a read from the daemon, on    *)
(* the join of the stderr thread or on its own nested store call.        *)
EveryCallReturns == \A t \in Threads : pc[t] # "idle" ~> pc[t] = "idle"
(* The abstract state of slot c: closed, in sync, busy or broken. *)
LinkOf(c) ==
    CASE dst[c] = "free" -> "closed"
      [] ~good[c]        -> "broken"
      [] InSync(c)       -> "sync"
      [] OTHER           -> "busy"

Contract == INSTANCE ConnectionContract
    WITH Conns <- Slots,
         Handles <- Threads \X Depths,
         holders <- [c \in Slots |-> {h \in Threads \X Depths : hold[h[1]][h[2]] = c}],
         pooled <- [c \in Slots |-> \E i \in 1..Len(idle) : idle[i] = c],
         link <- [c \in Slots |-> LinkOf(c)]

(* RemoteStore implements the connection contract: every step of the     *)
(* callers, the stderr threads, the daemon, the pool and the faults is a *)
(* step of each connection's lifecycle.  A connection serves one handle  *)
(* at a time, goes back to the pool only in sync, is handed out only in   *)
(* sync and, once broken, is only ever closed.                            *)
ImplementsContract == Contract!Spec
=============================================================================
