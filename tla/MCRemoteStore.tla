---------------------------- MODULE MCRemoteStore ----------------------------
(* Instantiates RemoteStore for TLC: two caller threads, one pooled       *)
(* connection (maxConnections = 1) and three connection slots, enough for *)
(* the pool's capacity plus one incCapacity per thread.                   *)
EXTENDS RemoteStore, TLC

CONSTANTS t1, t2, s1, s2, s3

MCThreads == {t1, t2}
MCSlots == {s1, s2, s3}

OneThread == {t1}

(* One thread holds at most two handles at once (its own and the nested *)
(* call's), so two slots are enough for it.                             *)
TwoSlots == {s1, s2}

(* addCAToStore with its nested store call, beside a plain call. *)
UploadOps == {"IsValidPath", "AddToStore"}

(* Path-info queries with their cache, and garbage collection, of a    *)
(* current daemon.                                                        *)
QueryOps == {"QueryPathInfo", "CollectGarbage"}

(* The framed uploads (NAR, batch, build log, text) beside              *)
(* queryDerivationOutputs, which asks getProtocol() twice.               *)
NarUploadOps == {"AddToStoreNar", "AddMultipleToStore", "AddBuildLog",
                 "AddTextToStore", "QueryDerivationOutputs"}

(* narFromPath beside a plain call. *)
NarOps == {"IsValidPath", "NarFromPath"}

(* The operations of a current daemon (protocol 1.37), narFromPath      *)
(* included, with registerDrvOutput (no reply after STDERR_LAST) and     *)
(* isTrustedClient (no request at all).                                   *)
CurrentOps == {"IsValidPath", "QueryPathInfo", "AddToStoreNar", "AddToStore",
               "BuildPathsWithResults", "NarFromPath", "RegisterDrvOutput",
               "IsTrustedClient"}

(* The operations of a current daemon without narFromPath, whose bare   *)
(* pool handle re-queues connections out of sync (MCNarUnwind.cfg).      *)
LogOps == CurrentOps \ {"NarFromPath"}

(* The operations of an old daemon (protocol 1.21): addCAToStore's plain *)
(* dump and its text branch, addMultipleToStore falling back to           *)
(* addToStore, the fallbacks of buildPathsWithResults and addToStore, a   *)
(* realisation query that sends nothing and the old derivation-outputs    *)
(* request.                                                               *)
OldOps == {"QueryPathInfo", "AddToStoreNar", "AddToStore", "AddTextToStore",
           "BuildPathsWithResults", "AddMultipleToStore", "QueryRealisation",
           "QueryDerivationOutputs"}

Symmetry == Permutations(MCThreads) \cup Permutations(MCSlots)
=============================================================================
