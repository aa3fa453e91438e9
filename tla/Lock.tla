-------------------------------- MODULE Lock --------------------------------
(***************************************************************************)
(* LockService (src/src/lock/lock.service.ts): a lease lock on one Redis   *)
(* key per lock name.  A request sets the key with PX ttl NX, retries a    *)
(* fixed number of times, runs its operation and deletes the key in a      *)
(* finally block.  The stored value is a timestamp that nothing compares,  *)
(* so the DEL removes the key whoever set it.                              *)
(*                                                                         *)
(* Redis commands are atomic and are the steps of this module.  Time is    *)
(* not counted: a lease may run out at any moment, of a request that died  *)
(* and of one whose operation still runs (operations await Stripe, Google  *)
(* Maps and other services for as long as they take, and nothing cancels   *)
(* them at the ttl).  From then on another request may run next to it, and *)
(* when the first one ends it deletes the key of the other.  `lapsed` only *)
(* records under which names that has begun: no guard reads it.            *)
(***************************************************************************)
EXTENDS Naturals

CONSTANTS
    Requests,      \* requests that call executeWithLock, of any server process
    Keys,          \* lock names: trip:<id>, driver:<id>:cancel, ...
    Nobody,        \* not a request: the value of a key Redis does not hold
    MaxRetries     \* bound on the `retries` argument (1, 2 and 3 in the code)

ASSUME LockAssumption ==
    /\ Nobody \notin Requests
    /\ MaxRetries \in Nat \ {0}

VARIABLES
    lease,   \* lease[k]: the request whose SET created Redis key k, or Nobody
    pc,      \* pc[r]: "idle", "trying" (in acquireLock) or "running" (operation)
    name,    \* name[r]: the key of r's current or last call
    left,    \* left[r]: SET attempts acquireLock has left
    lapsed   \* history: names whose key ran out under a running operation,
             \* until no operation is running under the name any more

vars == <<lease, pc, name, left, lapsed>>

TypeOK ==
    /\ lease \in [Keys -> Requests \cup {Nobody}]
    /\ pc \in [Requests -> {"idle", "trying", "running"}]
    /\ name \in [Requests -> Keys]
    /\ left \in [Requests -> 0 .. MaxRetries]
    /\ lapsed \in SUBSET Keys

Runs(r, k) == pc[r] = "running" /\ name[r] = k

RunningUnder(k) == {r \in Requests : Runs(r, k)}

(* The names that stay lapsed when r's call is over.                       *)
LapsedAfter(r) == {k \in lapsed : RunningUnder(k) \ {r} # {}}

Init ==
    /\ lease = [k \in Keys |-> Nobody]
    /\ pc = [r \in Requests |-> "idle"]
    /\ name \in [Requests -> Keys]
    /\ left = [r \in Requests |-> 0]
    /\ lapsed = {}

-----------------------------------------------------------------------------
(* executeWithLock(key, operation, _, ttl, retries).                       *)
Call(r, k, n) ==
    /\ pc[r] = "idle"
    /\ pc' = [pc EXCEPT ![r] = "trying"]
    /\ name' = [name EXCEPT ![r] = k]
    /\ left' = [left EXCEPT ![r] = n]
    /\ UNCHANGED <<lease, lapsed>>

(* Mutant: SET without NX takes the key from whoever holds it.             *)
AcquireWithoutNX(r) ==
    /\ pc[r] = "trying"
    /\ lease' = [lease EXCEPT ![name[r]] = r]
    /\ pc' = [pc EXCEPT ![r] = "running"]
    /\ UNCHANGED <<name, left, lapsed>>

(* SET key PX ttl NX answers OK: the operation starts.                     *)
Acquire(r) ==
    /\ pc[r] = "trying"
    /\ lease[name[r]] = Nobody
    /\ lease' = [lease EXCEPT ![name[r]] = r]
    /\ pc' = [pc EXCEPT ![r] = "running"]
    /\ UNCHANGED <<name, left, lapsed>>

(* Mutant: the finally block also covers a failed acquireLock.             *)
MissThenDelete(r) ==
    /\ pc[r] = "trying"
    /\ lease[name[r]] # Nobody
    /\ left' = [left EXCEPT ![r] = @ - 1]
    /\ pc' = [pc EXCEPT ![r] = IF left[r] = 1 THEN "idle" ELSE "trying"]
    /\ lease' = [lease EXCEPT ![name[r]] = IF left[r] = 1 THEN Nobody ELSE @]
    /\ UNCHANGED <<name, lapsed>>

(* SET answers nil: try again after retryDelay, or throw on the last one.  *)
Miss(r) ==
    /\ pc[r] = "trying"
    /\ lease[name[r]] # Nobody
    /\ left' = [left EXCEPT ![r] = @ - 1]
    /\ pc' = [pc EXCEPT ![r] = IF left[r] = 1 THEN "idle" ELSE "trying"]
    /\ UNCHANGED <<lease, name, lapsed>>

(* The operation returns or throws; the finally block DELetes the key,     *)
(* also one that another request has set since (lock.service.ts:56).       *)
Release(r) ==
    /\ pc[r] = "running"
    /\ lease' = [lease EXCEPT ![name[r]] = Nobody]
    /\ pc' = [pc EXCEPT ![r] = "idle"]
    /\ lapsed' = LapsedAfter(r)
    /\ UNCHANGED <<name, left>>

(* The server process dies: no finally block runs, the key stays behind.   *)
Crash(r) ==
    /\ pc[r] # "idle"
    /\ pc' = [pc EXCEPT ![r] = "idle"]
    /\ lapsed' = LapsedAfter(r)
    /\ UNCHANGED <<lease, name, left>>

(* Mutant: SET without PX, so that the key never expires.                  *)
ExpireNever(k) ==
    /\ lease[k] # Nobody
    /\ FALSE
    /\ UNCHANGED vars

(* The PX ttl of the key passes and Redis drops it, whoever is at work.    *)
Expire(k) ==
    /\ lease[k] # Nobody
    /\ lease' = [lease EXCEPT ![k] = Nobody]
    /\ lapsed' = IF RunningUnder(k) = {} THEN lapsed ELSE lapsed \cup {k}
    /\ UNCHANGED <<pc, name, left>>

Next ==
    \/ \E r \in Requests :
         \/ \E k \in Keys, n \in 1 .. MaxRetries : Call(r, k, n)
         \/ Acquire(r)
         \/ Miss(r)
         \/ Release(r)
         \/ Crash(r)
    \/ \E k \in Keys : Expire(k)

Spec == Init /\ [][Next]_vars

(***************************************************************************)
(* acquireLock's loop and the finally block run when their await returns,  *)
(* and Redis expires keys.  Nothing obliges a client to call or a server   *)
(* to crash.                                                               *)
(***************************************************************************)
Fairness ==
    /\ \A r \in Requests : WF_vars(Acquire(r) \/ Miss(r)) /\ WF_vars(Release(r))
    /\ \A k \in Keys : WF_vars(Expire(k))

FairSpec == Spec /\ Fairness

-----------------------------------------------------------------------------
(***************************************************************************)
(* Two operations run under the same lock name only when an operation ran  *)
(* past its ttl, and only until all that then run under the name are over: *)
(* from then on the name excludes again, although late DELs have removed   *)
(* the keys of others meanwhile.  Crashes never break it.                  *)
(***************************************************************************)
MutualExclusion ==
    \A r, s \in Requests : \A k \in Keys \ lapsed :
        Runs(r, k) /\ Runs(s, k) => r = s

(* A key is held in Redis while an operation runs under it: no early DEL.  *)
(* This is what makes MutualExclusion inductive.                           *)
LeaseHeld ==
    \A r \in Requests : \A k \in Keys \ lapsed : Runs(r, k) => lease[k] = r

(* A lock left behind by a crashed server does not stay locked: the lease  *)
(* gives every key back, so a trip is never locked for good.               *)
LockComesBack == \A k \in Keys : lease[k] # Nobody ~> lease[k] = Nobody

(***************************************************************************)
(* The lease lock implements the abstract lock with lapses of Mutex: the   *)
(* abstract holders of a key are the requests whose operations run under   *)
(* it.  A crash is an abstract Leave, and expiry of a dead lease is        *)
(* invisible.                                                              *)
(***************************************************************************)
M == INSTANCE Mutex WITH holders <- [k \in Keys |-> RunningUnder(k)]

(* Every behaviour of the lock service is one of Mutex.                    *)
ImplementsMutex == M!Spec
=============================================================================
