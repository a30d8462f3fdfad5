-------------------------------- MODULE Pool --------------------------------
(***************************************************************************)
(* Pool<Connection> (pool.hh, not in this repository; modelled from spec  *)
(* sections 3 and 4.7): a bounded stack of idle connections, a count of   *)
(* connections in use, a capacity that incCapacity/decCapacity raise and  *)
(* lower, and the threads blocked on the pool's condition variable.       *)
(* Every operation below runs under the pool's mutex, so each is one step.*)
(* valid is the set of connections the pool's validator accepts.        *)
(***************************************************************************)
EXTENDS Naturals, Sequences, SequencesExt

VARIABLES
    poolMax,   \* state_->max
    inUse,     \* state_->inUse
    idle,      \* state_->idle, a stack: get() takes from the back
    waiting    \* threads blocked in get() on the wakeup condition variable

poolVars == <<poolMax, inUse, idle, waiting>>

PoolInit(capacity) ==
    /\ poolMax = capacity
    /\ inUse = 0
    /\ idle = <<>>
    /\ waiting = {}

(* Index of the connection get() hands out, 0 if no idle one is live. *)
LiveIdx(valid) == SelectLastInSeq(idle, LAMBDA c : c \in valid)

(* The idle connections get() pops and discards because they are stale. *)
Stale(valid) == {idle[j] : j \in LiveIdx(valid) + 1 .. Len(idle)}

(* A get() that hands out the last live idle connection without popping *)
(* it from the idle stack.                                                 *)
PoolTakeNoPop(c, valid) ==
    LET i == LiveIdx(valid) IN
    /\ i > 0
    /\ c = idle[i]
    /\ idle' = SubSeq(idle, 1, i)
    /\ inUse' = inUse + 1
    /\ UNCHANGED <<poolMax, waiting>>

(* get(): take the last live idle connection. *)
PoolTake(c, valid) ==
    LET i == LiveIdx(valid) IN
    /\ i > 0
    /\ c = idle[i]
    /\ idle' = SubSeq(idle, 1, i - 1)
    /\ inUse' = inUse + 1
    /\ UNCHANGED <<poolMax, waiting>>

(* get(): no live idle connection but room for one; the caller then runs *)
(* the factory outside the lock.                                          *)
PoolReserve(valid) ==
    /\ LiveIdx(valid) = 0
    /\ inUse < poolMax
    /\ idle' = <<>>
    /\ inUse' = inUse + 1
    /\ UNCHANGED <<poolMax, waiting>>

(* get(): no live idle connection and no room: wait on the condvar. *)
PoolWait(t, valid) ==
    /\ LiveIdx(valid) = 0
    /\ inUse >= poolMax
    /\ idle' = <<>>
    /\ waiting' = waiting \cup {t}
    /\ UNCHANGED <<poolMax, inUse>>

(* wakeup.notify_one() *)
NotifyOne ==
    \/ waiting = {} /\ UNCHANGED waiting
    \/ \E w \in waiting : waiting' = waiting \ {w}

(* Handle::~Handle: a connection that is not bad and still live goes     *)
(* back on the stack; the slot is freed and one waiter woken.            *)
PoolRelease(c, keep) ==
    /\ idle' = IF keep THEN Append(idle, c) ELSE idle
    /\ inUse' = inUse - 1
    /\ NotifyOne
    /\ UNCHANGED poolMax

(* get(): the factory threw; give the reserved slot back. *)
PoolCancel ==
    /\ inUse' = inUse - 1
    /\ NotifyOne
    /\ UNCHANGED <<poolMax, idle>>

(* incCapacity() does not notify: the extra slot is kept for the nested  *)
(* use of the thread that raised it.                                      *)
IncCapacity ==
    /\ poolMax' = poolMax + 1
    /\ UNCHANGED <<inUse, idle, waiting>>

DecCapacity ==
    /\ poolMax' = poolMax - 1
    /\ UNCHANGED <<inUse, idle, waiting>>
=============================================================================
