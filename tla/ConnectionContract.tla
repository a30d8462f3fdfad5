------------------------- MODULE ConnectionContract -------------------------
(***************************************************************************)
(* What Pool<Connection> and ConnectionHandle promise the store           *)
(* operations of remote-store.cc, per connection:                         *)
(*   - a connection is used by one handle at a time and is never both     *)
(*     held and idle in the pool;                                         *)
(*   - it goes back to the pool only in sync: nothing left unread in      *)
(*     either direction and the daemon waiting for an operation;          *)
(*   - a pooled connection is handed out only in sync;                    *)
(*   - a broken connection is never used again: it can only be closed.     *)
(* The connections evolve independently, so a step of the whole is a      *)
(* step (or stutter) of every connection at once: one release may close   *)
(* the stale idle connections the next get() pops.  This module is used   *)
(* as a property of RemoteStore (RemoteStore!ImplementsContract).         *)
(***************************************************************************)
EXTENDS FiniteSets

CONSTANTS
    Conns,     \* connection slots
    Handles    \* the handles that may hold a connection

VARIABLES
    holders,   \* the handles holding each connection
    pooled,    \* whether the connection is on the pool's idle stack
    link       \* "closed", "sync", "busy" (a request in flight) or "broken"

vars == <<holders, pooled, link>>

Links == {"closed", "sync", "busy", "broken"}

TypeOK ==
    /\ holders \in [Conns -> SUBSET Handles]
    /\ pooled \in [Conns -> BOOLEAN]
    /\ link \in [Conns -> Links]

Init ==
    /\ holders = [c \in Conns |-> {}]
    /\ pooled = [c \in Conns |-> FALSE]
    /\ link = [c \in Conns |-> "closed"]

(* The factory opens a connection for one handle; the handshake leaves it *)
(* in sync.                                                                *)
Open(c) ==
    /\ link[c] = "closed"
    /\ link'[c] = "sync"
    /\ ~pooled'[c]
    /\ \E h \in Handles : holders'[c] = {h}

(* get() hands an idle connection in sync to one handle. *)
Take(c) ==
    /\ pooled[c] /\ holders[c] = {} /\ link[c] = "sync"
    /\ ~pooled'[c] /\ link'[c] = "sync"
    /\ \E h \in Handles : holders'[c] = {h}

(* The holder writes requests and reads answers. *)
Use(c) ==
    /\ holders[c] # {} /\ link[c] \in {"sync", "busy"}
    /\ link'[c] \in {"sync", "busy"}
    /\ holders'[c] = holders[c] /\ pooled'[c] = pooled[c]

(* The transport breaks, held or idle. *)
Fail(c) ==
    /\ link[c] # "closed"
    /\ link'[c] = "broken"
    /\ holders'[c] = holders[c] /\ pooled'[c] = pooled[c]

(* The one holder gives the connection back in sync. *)
Return(c) ==
    /\ Cardinality(holders[c]) = 1 /\ link[c] = "sync"
    /\ holders'[c] = {} /\ pooled'[c] /\ link'[c] = "sync"

(* The holder drops it (markBad, broken or too old), or get() pops it    *)
(* from the idle stack as stale.                                          *)
Close(c) ==
    /\ holders[c] # {} \/ pooled[c]
    /\ holders'[c] = {} /\ ~pooled'[c] /\ link'[c] = "closed"

Same(c) ==
    /\ holders'[c] = holders[c] /\ pooled'[c] = pooled[c] /\ link'[c] = link[c]

ConnStep(c) ==
    Open(c) \/ Take(c) \/ Use(c) \/ Fail(c) \/ Return(c) \/ Close(c) \/ Same(c)

Next == \A c \in Conns : ConnStep(c)

Spec == Init /\ [][Next]_vars
=============================================================================
