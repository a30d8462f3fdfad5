------------------------------- MODULE Daemon -------------------------------
(***************************************************************************)
(* The far end of each connection: the byte streams in both directions    *)
(* and the daemon serving one operation at a time (the daemon is not in   *)
(* this repository; its behaviour is taken from spec sections 3, 4.2,     *)
(* 4.5 and 4.6).  Per operation it reads the request, reads the payload   *)
(* (frames up to the zero frame, or chunks it asked for with READ), sends *)
(* log messages, and ends with either ERROR or LAST followed by the       *)
(* reply.  With EarlyError it may report an error in the middle of a      *)
(* framed upload (spec 4.2, scenario 3) and then skip the remaining       *)
(* frames up to the zero frame.                                           *)
(***************************************************************************)
EXTENDS WorkerProto

CONSTANTS
    InitialValidity, \* whether the queried path is in the store at first
    Slots,        \* connection objects the pool may hold at once
    Threads,      \* caller threads
    EarlyError,   \* may the daemon fail a framed upload before its end?
    MaxLogs       \* log messages per operation

VARIABLES
    toD,     \* to: bytes flushed to the daemon, per slot
    fromD,   \* from: bytes the daemon sent, per slot
    dst,     \* daemon phase per slot; "free" when the slot holds no connection
    dop,     \* operation the daemon is serving
    dby,     \* the caller's call whose request it is
    dlogs,   \* log messages sent for it
    good,    \* to.good() && from.good()
    errTo,   \* history: the error the daemon reported for each call
    pathValid, \* the path callers ask queryPathInfo about is in the store
    gcPending  \* history: a collectGarbage deleted it and no collectGarbage
               \* has returned normally since

daemonVars == <<toD, fromD, dst, dop, dby, dlogs, good, errTo, pathValid,
                gcPending>>

(* The store's own state, which only DCollect changes. *)
storeVars == <<pathValid, gcPending>>

Phases == {"free", "await", "frames", "drain", "pull", "pulled", "work", "gone"}

(* The token kinds the daemon expects to read in each phase. *)
Expects(p) ==
    CASE p = "await"              -> {"Op"}
      [] p \in {"frames", "drain"} -> {"Frame", "End"}
      [] p = "pulled"             -> {"Chunk"}
      [] OTHER                    -> {}

DRecvOp(c) ==
    LET m == Head(toD[c]) IN
    /\ dst[c] = "await"
    /\ toD[c] # <<>>
    /\ m.tag = "Op"
    /\ toD' = [toD EXCEPT ![c] = Tail(@)]
    /\ dop' = [dop EXCEPT ![c] = m.op]
    /\ dby' = [dby EXCEPT ![c] = m.by]
    /\ dlogs' = [dlogs EXCEPT ![c] = 0]
    /\ dst' = [dst EXCEPT ![c] = CASE Framed(m.op) \/ Dumps(m.op) -> "frames"
                                   [] Pulls(m.op)                 -> "pull"
                                   [] OTHER                       -> "work"]
    /\ UNCHANGED <<storeVars, fromD, good, errTo>>

(* A frame of the payload, or the zero frame that ends it; for a plain  *)
(* dump, a piece of the NAR or its end.                                  *)
DFrame(c) ==
    LET m == Head(toD[c]) IN
    /\ dst[c] \in {"frames", "drain"}
    /\ toD[c] # <<>>
    /\ m.tag \in {"Frame", "End"}
    /\ toD' = [toD EXCEPT ![c] = Tail(@)]
    /\ dst' = [dst EXCEPT ![c] = IF m.tag = "Frame" THEN @
                                 ELSE IF @ = "frames" THEN "work" ELSE "await"]
    /\ UNCHANGED <<storeVars, fromD, dop, dby, dlogs, good, errTo>>

(* Bytes that do not fit the phase: the daemon fails and hangs up. *)
DGarbage(c) ==
    /\ dst[c] \in {"await", "frames", "drain", "pulled"}
    /\ toD[c] # <<>>
    /\ Head(toD[c]).tag \notin Expects(dst[c])
    /\ dst' = [dst EXCEPT ![c] = "gone"]
    /\ good' = [good EXCEPT ![c] = FALSE]
    /\ UNCHANGED <<storeVars, toD, fromD, dop, dby, dlogs, errTo>>

DLog(c) ==
    /\ dst[c] \in {"frames", "work"}
    /\ dlogs[c] < MaxLogs
    /\ fromD' = [fromD EXCEPT ![c] = Append(@, LogTok)]
    /\ dlogs' = [dlogs EXCEPT ![c] = @ + 1]
    /\ UNCHANGED <<storeVars, toD, dst, dop, dby, good, errTo>>

DEarlyError(c) ==
    /\ EarlyError
    /\ dst[c] = "frames"
    /\ fromD' = [fromD EXCEPT ![c] = Append(@, ErrorTok("other"))]
    /\ errTo' = [errTo EXCEPT ![dby[c]] = "other"]
    /\ dst' = [dst EXCEPT ![c] = "drain"]
    /\ UNCHANGED <<storeVars, toD, dop, dby, dlogs, good>>

DPull(c) ==
    /\ dst[c] = "pull"
    /\ fromD' = [fromD EXCEPT ![c] = Append(@, ReadTok)]
    /\ dst' = [dst EXCEPT ![c] = "pulled"]
    /\ UNCHANGED <<storeVars, toD, dop, dby, dlogs, good, errTo>>

DChunk(c) ==
    /\ dst[c] = "pulled"
    /\ toD[c] # <<>>
    /\ Head(toD[c]).tag = "Chunk"
    /\ toD' = [toD EXCEPT ![c] = Tail(@)]
    /\ dst' = [dst EXCEPT ![c] = "work"]
    /\ UNCHANGED <<storeVars, fromD, dop, dby, dlogs, good, errTo>>

(* The garbage collector deletes the path, before it answers or fails   *)
(* (spec 4.6: collect_garbage; the daemon's GC is not in this repository).*)
DCollect(c) ==
    /\ dst[c] = "work"
    /\ dop[c] = "CollectGarbage"
    /\ pathValid
    /\ pathValid' = FALSE
    /\ gcPending' = TRUE
    /\ UNCHANGED <<toD, fromD, dst, dop, dby, dlogs, good, errTo>>

(* asks: the request is a queryPathInfo of the path the GC may delete.   *)
(* Any other path queried (the one addCAToStore just added) is a temp   *)
(* root of the client's session and stays valid.                          *)
DFail(c, asks) ==
    /\ dst[c] = "work"
    /\ \E msg \in ErrorsOf(dop[c]) :
          /\ msg = "notValid" => asks /\ ~pathValid
          /\ fromD' = [fromD EXCEPT ![c] = Append(@, ErrorTok(msg))]
          /\ errTo' = [errTo EXCEPT ![dby[c]] = msg]
    /\ dst' = [dst EXCEPT ![c] = "await"]
    /\ UNCHANGED <<storeVars, toD, dop, dby, dlogs, good>>

DSucceed(c, asks) ==
    /\ dst[c] = "work"
    /\ dop[c] = "QueryPathInfo" /\ asks => pathValid
    /\ fromD' = [fromD EXCEPT ![c] = @ \o <<LastTok>> \o ReplyOf(dop[c])]
    /\ dst' = [dst EXCEPT ![c] = "await"]
    /\ UNCHANGED <<storeVars, toD, dop, dby, dlogs, good, errTo>>
=============================================================================
