------------------------------ MODULE Fetchurl ------------------------------
(***************************************************************************)
(* builtinFetchurl (src/libstore/builtins/fetchurl.cc): the builder of    *)
(* builtin:fetchurl.  For a flat-hashed output it tries each hashed       *)
(* mirror in turn, swallowing every Error, and returns after the first    *)
(* download that succeeds; otherwise, or when all of them failed, it      *)
(* fetches the derivation's own URL, whose failure fails the build.       *)
(*                                                                         *)
(* The derivation's environment is chosen in Init from every shape it    *)
(* can take; a download either delivers the whole file or fails part way. *)
(* Writing the output follows the two helpers fetch() uses, which live    *)
(* outside this repository: writeFile opens storePath with O_TRUNC, so a  *)
(* later attempt overwrites a partial file; restorePath (unpack) creates  *)
(* every file with O_EXCL and every directory with mkdir, so it throws    *)
(* when storePath already exists.                                          *)
(***************************************************************************)
EXTENDS Naturals

CONSTANTS
    MaxMirrors,   \* settings.hashedMirrors holds at most this many entries
    Unpacks       \* the values env "unpack" may take: a subset of BOOLEAN

VARIABLES
    env,    \* the attributes of drv.env that fetchurl reads, and the network
    pc,     \* "start", "mirror", "main", "done", "failed"
    next,   \* index of the hashed mirror being tried
    file,   \* storePath: "absent", "partial" or "full"
    exec    \* storePath has been made executable

ASSUME MaxMirrors >= 1 /\ Unpacks \subseteq BOOLEAN

fVars == <<env, pc, next, file, exec>>

(* drv.env as far as fetchurl looks at it; mainUp says the main URL      *)
(* serves the whole file and chmod on it succeeds.                         *)
Envs == [out : BOOLEAN, url : BOOLEAN,
         outputHashMode : {"flat", "recursive", "missing"},
         hashAttrs : BOOLEAN, unpack : Unpacks, executable : BOOLEAN,
         mirrors : 0..MaxMirrors, mainUp : BOOLEAN]

(* storePath after fetch() wrote a download that ended with dl.          *)
WriteOut(f, dl) ==
    CASE env.unpack /\ f # "absent" -> f
      [] dl = "ok"                  -> "full"
      [] OTHER                      -> "partial"

(* restorePath or writeFile wrote the whole download. *)
Written(f, dl) == dl = "ok" /\ ~(env.unpack /\ f # "absent")

(* A fetch that does not check what chmod returned. *)
FetchedNoChmodCheck(f, dl, chmodOk) == Written(f, dl)

(* fetch(url) returned: the whole download was written and, if asked     *)
(* for, chmod made it executable.                                          *)
Fetched(f, dl, chmodOk) == Written(f, dl) /\ (env.executable => chmodOk)

(* One call of fetch(url): its effect on storePath, and where control   *)
(* goes when it returns and when it throws.                               *)
Fetch(dls, chmods, onOk, onErr) ==
    \E dl \in dls, chmodOk \in chmods :
        /\ file' = WriteOut(file, dl)
        /\ exec' = (exec \/ (env.executable /\ chmodOk /\ Written(file, dl)))
        /\ IF Fetched(file, dl, chmodOk) THEN onOk ELSE onErr

(* The loop that steps one entry past the end of hashedMirrors. *)
NextMirrorPastEnd ==
    IF next <= env.mirrors
       THEN next' = next + 1 /\ UNCHANGED pc
       ELSE pc' = "main" /\ UNCHANGED next

(* The mirror after this one, or the main URL after the last. *)
NextMirror ==
    IF next < env.mirrors
       THEN next' = next + 1 /\ UNCHANGED pc
       ELSE pc' = "main" /\ UNCHANGED next

Init ==
    /\ env \in Envs
    /\ pc = "start"
    /\ next = 1
    /\ file = "absent"
    /\ exec = FALSE

(* getAttr("out"), getAttr("url") and getAttr("outputHashMode") throw    *)
(* when the attribute is missing; mirrors are only tried for flat hashes. *)
Start ==
    /\ pc = "start"
    /\ pc' = CASE ~env.out \/ ~env.url \/ env.outputHashMode = "missing" -> "failed"
               [] env.outputHashMode = "flat" /\ env.mirrors > 0        -> "mirror"
               [] OTHER                                                 -> "main"
    /\ UNCHANGED <<env, next, file, exec>>

(* A mirror whose throw escapes the loop. *)
MirrorRethrow ==
    /\ pc = "mirror"
    /\ \/ ~env.hashAttrs /\ pc' = "failed" /\ UNCHANGED <<file, exec>>
       \/ env.hashAttrs /\ Fetch({"ok", "fail"}, BOOLEAN, pc' = "done", pc' = "failed")
    /\ UNCHANGED <<env, next>>

(* One pass of the mirror loop: outputHashAlgo and outputHash are read   *)
(* and parsed inside the try, so their errors move on to the next mirror  *)
(* like a failed download does.                                            *)
TryMirror ==
    /\ pc = "mirror"
    /\ \/ ~env.hashAttrs /\ NextMirror /\ UNCHANGED <<file, exec>>
       \/ env.hashAttrs /\ Fetch({"ok", "fail"}, BOOLEAN,
                                 pc' = "done" /\ UNCHANGED next, NextMirror)
    /\ UNCHANGED env

(* fetch(mainUrl): an error here fails the build. *)
FetchMain ==
    /\ pc = "main"
    /\ IF env.mainUp THEN Fetch({"ok"}, {TRUE}, pc' = "done", pc' = "failed")
                     ELSE Fetch({"ok", "fail"}, BOOLEAN, pc' = "done", pc' = "failed")
    /\ UNCHANGED <<env, next>>

Finished == pc \in {"done", "failed"}

Next == Start \/ TryMirror \/ FetchMain \/ (Finished /\ UNCHANGED fVars)

(* The builder is one sequential thread, and every download ends, with  *)
(* the file or with an error (the file transfer's stalled-download       *)
(* timeout), so a step that stays enabled is taken.                      *)
Fairness == WF_fVars(Start \/ TryMirror \/ FetchMain)

Spec == Init /\ [][Next]_fVars /\ Fairness

-----------------------------------------------------------------------------
TypeOK ==
    /\ env \in Envs
    /\ pc \in {"start", "mirror", "main", "done", "failed"}
    /\ next \in 1..MaxMirrors
    /\ file \in {"absent", "partial", "full"}
    /\ exec \in BOOLEAN

(* When builtinFetchurl returns, storePath holds one whole download and *)
(* is executable if the derivation asked for it, however many mirrors   *)
(* failed part way or after writing before it.                           *)
DoneMeansComplete ==
    pc = "done" => file = "full" /\ (env.executable => exec)

(* The comment "Otherwise try the specified URL": with the derivation's *)
(* attributes present and the main URL serving the file, builtinFetchurl *)
(* eventually returns with its output, whatever the hashed mirrors did:  *)
(* the mirror loop ends and its failures do not fail the build.          *)
MainUrlSuffices ==
    (env.out /\ env.url /\ env.outputHashMode # "missing" /\ env.mainUp)
        ~> pc = "done"
=============================================================================
