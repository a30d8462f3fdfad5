---------------------------- MODULE WorkerProto ----------------------------
(***************************************************************************)
(* The worker protocol as remote-store.cc uses it: the operations a caller *)
(* can issue, the tokens that travel over one connection, and the         *)
(* per-operation switches on the daemon's minor version.  A token stands  *)
(* for one whole wire item (an op code with its arguments, one frame of a *)
(* framed stream, one stderr message, one reply); the byte encoding of    *)
(* worker-protocol.hh is abstracted away.                                 *)
(***************************************************************************)
EXTENDS Naturals, Sequences

CONSTANT DaemonMinor   \* GET_PROTOCOL_MINOR(conn->daemonVersion)

ASSUME DaemonMinor \in 21..37

(* The operations callers issue.  "BuildPaths" is also what the          *)
(* buildPathsWithResults fallback turns into.                              *)
Ops == {"IsValidPath", "QueryPathInfo", "AddToStoreNar", "AddToStore",
        "BuildPathsWithResults", "BuildPaths", "NarFromPath",
        "AddMultipleToStore", "AddBuildLog", "AddTextToStore",
        "QueryRealisation", "QueryDerivationOutputs",
        "QueryDerivationOutputMap", "CollectGarbage", "RegisterDrvOutput",
        "IsTrustedClient"}

(* Client -> daemon tokens. *)
OpTok(k, t) == [tag |-> "Op", op |-> k, by |-> t]
FrameTok    == [tag |-> "Frame"]
EndTok      == [tag |-> "End"]      \* the zero-length frame
ChunkTok    == [tag |-> "Chunk"]    \* answer to STDERR_READ

(* Daemon -> client tokens: the stderr messages and the reply items. *)
LogTok        == [tag |-> "Log"]    \* NEXT, START/STOP_ACTIVITY, RESULT
ReadTok       == [tag |-> "Read"]   \* STDERR_READ
ErrorTok(msg) == [tag |-> "Error", msg |-> msg]
LastTok       == [tag |-> "Last"]
ReplyTok      == [tag |-> "Reply"]
NarTok        == [tag |-> "Nar"]
NarEndTok     == [tag |-> "NarEnd"]
UnknownTok    == [tag |-> "Unknown"]  \* a message code the client does not know

(* Error texts that matter to the client: queryPathInfoUncached looks for *)
(* "is not valid".                                                         *)
ErrorMsgs == {"notValid", "other"}

(* addCAToStore and its two callers: addToStoreFromDump ("AddToStore"),  *)
(* whose dump source may call the store, and addTextToStore, whose source *)
(* is a StringSource over the text.                                       *)
AddsCA(k) == k \in {"AddToStore", "AddTextToStore"}

(* The payload is streamed in frames (addToStore: >= 23; addCAToStore:    *)
(* >= 25; addMultipleToStore: >= 32; addBuildLog: always).                *)
Framed(k) ==
    \/ k = "AddToStoreNar" /\ DaemonMinor >= 23
    \/ AddsCA(k) /\ DaemonMinor >= 25
    \/ k = "AddMultipleToStore" /\ DaemonMinor >= 32
    \/ k = "AddBuildLog"

(* The daemon pulls the payload with STDERR_READ (addToStore below 23).   *)
Pulls(k) == k = "AddToStoreNar" /\ DaemonMinor < 23

(* The dump is written straight onto the connection, the NAR being     *)
(* self-delimiting (addCAToStore below 25).                                *)
Dumps(k) == k = "AddToStore" /\ DaemonMinor < 25

(* Below 25 text ingestion drains the string first and sends it as an   *)
(* argument of AddTextToStore: a plain request and processStderr.        *)
SendsText(k) == k = "AddTextToStore" /\ DaemonMinor < 25

(* Below 25 addCAToStore reads the store path, releases its connection  *)
(* and calls queryPathInfo(path).                                         *)
Requeries(k) == AddsCA(k) /\ DaemonMinor < 25

(* getVersion, connect and isTrustedClient ("IsTrustedClient") take a    *)
(* connection and only read what the handshake stored in it.             *)
ReadsHandshake(k) == k = "IsTrustedClient"

(* Operations that take a connection and send nothing on it: those, and  *)
(* queryRealisationUncached on a daemon older than 1.27, which warns and  *)
(* returns nullptr.                                                       *)
SendsNothing(k) ==
    \/ ReadsHandshake(k)
    \/ k = "QueryRealisation" /\ DaemonMinor < 27

(* Operations that ask getProtocol() before they take their connection. *)
Probes(k) == k \in {"AddMultipleToStore", "QueryDerivationOutputs",
                    "QueryDerivationOutputMap"}

(* What an operation goes on with once getProtocol() returned: below 32  *)
(* addMultipleToStore falls back to addToStore; from 22 on                *)
(* queryDerivationOutputs is Store::queryDerivationOutputs, which asks    *)
(* queryPartialDerivationOutputMap, which sends QueryDerivationOutputMap. *)
AfterProbe(k) ==
    CASE k = "AddMultipleToStore"     -> IF DaemonMinor >= 32 THEN k
                                         ELSE "AddToStoreNar"
      [] k = "QueryDerivationOutputs" -> IF DaemonMinor >= 22
                                         THEN "QueryDerivationOutputMap" ELSE k
      [] OTHER                        -> k

(* Operations the client reads nothing for after STDERR_LAST: the NAR   *)
(* uploads and registerDrvOutput.                                         *)
RepliesNothing(k) ==
    k \in {"AddToStoreNar", "AddMultipleToStore", "RegisterDrvOutput"}

(* What the daemon sends after STDERR_LAST for each operation. *)
ReplyOf(k) ==
    CASE RepliesNothing(k) -> <<>>
      [] k = "NarFromPath" -> <<NarTok, NarEndTok>>
      [] OTHER             -> <<ReplyTok>>

(* The errors the daemon may raise for an operation. *)
ErrorsOf(k) == IF k = "QueryPathInfo" THEN ErrorMsgs ELSE {"other"}
=============================================================================
