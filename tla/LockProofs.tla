----------------------------- MODULE LockProofs -----------------------------
(***************************************************************************)
(* Lock's safety for any number of requests, lock names and retries.       *)
(***************************************************************************)
EXTENDS Lock, TLAPS

(* The lease, the call states and the retry counters keep their types: in  *)
(* particular acquireLock never counts its attempts below zero.  A request *)
(* that is trying has an attempt left, or the loop would have ended.       *)
TriesLeft == \A r \in Requests : pc[r] = "trying" => left[r] > 0

LEMMA LockTypeInductive == Spec => [](TypeOK /\ TriesLeft)
<1> USE LockAssumption
<1>1. Init => TypeOK /\ TriesLeft
  BY DEF Init, TypeOK, TriesLeft
<1>2. TypeOK /\ TriesLeft /\ [Next]_vars => (TypeOK /\ TriesLeft)'
  <2> SUFFICES ASSUME TypeOK, TriesLeft, [Next]_vars
               PROVE  (TypeOK /\ TriesLeft)'
    OBVIOUS
  <2> USE DEF TypeOK, TriesLeft
  <2>1. ASSUME NEW r \in Requests, NEW k \in Keys, NEW n \in 1 .. MaxRetries,
               Call(r, k, n)
        PROVE  (TypeOK /\ TriesLeft)'
    BY <2>1 DEF Call
  <2>2. ASSUME NEW r \in Requests, Acquire(r)
        PROVE  (TypeOK /\ TriesLeft)'
    BY <2>2 DEF Acquire
  <2>3. ASSUME NEW r \in Requests, Miss(r)
        PROVE  (TypeOK /\ TriesLeft)'
    BY <2>3 DEF Miss
  <2>4. ASSUME NEW r \in Requests, Release(r)
        PROVE  (TypeOK /\ TriesLeft)'
    BY <2>4 DEF Release, LapsedAfter
  <2>5. ASSUME NEW r \in Requests, Crash(r)
        PROVE  (TypeOK /\ TriesLeft)'
    BY <2>5 DEF Crash, LapsedAfter
  <2>6. ASSUME NEW k \in Keys, Expire(k)
        PROVE  (TypeOK /\ TriesLeft)'
    BY <2>6 DEF Expire
  <2>7. CASE UNCHANGED vars
    BY <2>7 DEF vars
  <2>8. QED
    BY <2>1, <2>2, <2>3, <2>4, <2>5, <2>6, <2>7 DEF Next
<1>3. QED
  BY <1>1, <1>2, PTL DEF Spec

(* Every state of the lock service has the types of Lock!TypeOK.           *)
THEOREM LockTypeCorrect == Spec => []TypeOK
BY LockTypeInductive, PTL

-----------------------------------------------------------------------------
(***************************************************************************)
(* Mutual exclusion is not inductive by itself: one must also know that    *)
(* the Redis key of a running operation still carries that request's       *)
(* lease (LeaseHeld), or Acquire could succeed next to it, and that a      *)
(* lapsed name has a running operation (LapsedRuns), so that the last one  *)
(* to end finds no other.                                                  *)
(***************************************************************************)
LapsedRuns == \A k \in lapsed : RunningUnder(k) # {}

(* What the end of r's call does to the history of its and other names.    *)
LEMMA EndsACall ==
    ASSUME TypeOK, LapsedRuns, NEW r \in Requests,
           pc[r] # "idle", pc' = [pc EXCEPT ![r] = "idle"], name' = name,
           lapsed' = LapsedAfter(r)
    PROVE  /\ \A k \in Keys : RunningUnder(k)' = RunningUnder(k) \ {r}
           /\ LapsedRuns'
           /\ \A k \in lapsed \ lapsed' : RunningUnder(k)' = {}
<1>1. \A k \in Keys : RunningUnder(k)' = RunningUnder(k) \ {r}
  BY DEF TypeOK, RunningUnder, Runs
<1>2. lapsed' \subseteq Keys /\ lapsed \subseteq Keys
  BY DEF LapsedAfter, TypeOK
<1>3. QED
  BY <1>1, <1>2 DEF LapsedRuns, LapsedAfter

LEMMA LeaseHeldStep ==
    ASSUME TypeOK, TypeOK', LapsedRuns, LeaseHeld, [Next]_vars
    PROVE  (LapsedRuns /\ LeaseHeld)'
<1> USE LockAssumption
<1>1. ASSUME NEW r \in Requests, NEW k \in Keys, NEW n \in 1 .. MaxRetries,
             Call(r, k, n)
      PROVE  (LapsedRuns /\ LeaseHeld)'
  BY <1>1 DEF Call, TypeOK, LapsedRuns, LeaseHeld, RunningUnder, Runs
<1>2. ASSUME NEW r \in Requests, Acquire(r)
      PROVE  (LapsedRuns /\ LeaseHeld)'
  BY <1>2 DEF Acquire, TypeOK, LapsedRuns, LeaseHeld, RunningUnder, Runs
<1>3. ASSUME NEW r \in Requests, Miss(r)
      PROVE  (LapsedRuns /\ LeaseHeld)'
  BY <1>3 DEF Miss, TypeOK, LapsedRuns, LeaseHeld, RunningUnder, Runs
<1>4. ASSUME NEW r \in Requests, Release(r)
      PROVE  (LapsedRuns /\ LeaseHeld)'
  <2>1. /\ \A k \in Keys : RunningUnder(k)' = RunningUnder(k) \ {r}
        /\ LapsedRuns'
        /\ \A k \in lapsed \ lapsed' : RunningUnder(k)' = {}
    BY <1>4, EndsACall DEF Release
  <2>2. ASSUME NEW s \in Requests, NEW k \in Keys \ lapsed', Runs(s, k)'
        PROVE  lease'[k] = s
    <3>1. s \in RunningUnder(k)'
      BY <2>2 DEF RunningUnder
    <3>2. k \notin lapsed /\ s # r /\ Runs(s, k)
      BY <2>1, <2>2, <3>1 DEF RunningUnder
    <3>3. lease[k] = s /\ k # name[r]
      BY <1>4, <3>2 DEF LeaseHeld, Release, Runs
    <3>4. QED
      BY <1>4, <3>3 DEF Release, TypeOK
  <2>3. QED
    BY <2>1, <2>2 DEF LeaseHeld
<1>5. ASSUME NEW r \in Requests, Crash(r)
      PROVE  (LapsedRuns /\ LeaseHeld)'
  <2>1. /\ \A k \in Keys : RunningUnder(k)' = RunningUnder(k) \ {r}
        /\ LapsedRuns'
        /\ \A k \in lapsed \ lapsed' : RunningUnder(k)' = {}
    BY <1>5, EndsACall DEF Crash
  <2>2. ASSUME NEW s \in Requests, NEW k \in Keys \ lapsed', Runs(s, k)'
        PROVE  lease'[k] = s
    <3>1. s \in RunningUnder(k)'
      BY <2>2 DEF RunningUnder
    <3>2. k \notin lapsed /\ Runs(s, k)
      BY <2>1, <2>2, <3>1 DEF RunningUnder
    <3>3. QED
      BY <1>5, <3>2 DEF LeaseHeld, Crash
  <2>3. QED
    BY <2>1, <2>2 DEF LeaseHeld
<1>6. ASSUME NEW k \in Keys, Expire(k)
      PROVE  (LapsedRuns /\ LeaseHeld)'
  BY <1>6 DEF Expire, TypeOK, LapsedRuns, LeaseHeld, RunningUnder, Runs
<1>7. CASE UNCHANGED vars
  BY <1>7 DEF vars, LapsedRuns, LeaseHeld, RunningUnder, Runs
<1>8. QED
  BY <1>1, <1>2, <1>3, <1>4, <1>5, <1>6, <1>7 DEF Next

LEMMA LeaseHeldAlways == Spec => [](TypeOK /\ LapsedRuns /\ LeaseHeld)
<1>1. Init => LapsedRuns /\ LeaseHeld
  BY DEF Init, LapsedRuns, LeaseHeld, Runs
<1>2. TypeOK /\ TypeOK' /\ LapsedRuns /\ LeaseHeld /\ [Next]_vars
        => (LapsedRuns /\ LeaseHeld)'
  BY LeaseHeldStep
<1>3. Spec => []TypeOK
  BY LockTypeCorrect
<1>4. QED
  BY <1>1, <1>2, <1>3, PTL DEF Spec

(* Whatever crashes, and however long operations take: two of them run     *)
(* under one lock name only from the moment a lease ran out under one of   *)
(* them until all that run under that name have ended.                     *)
THEOREM LockMutualExclusion == Spec => []MutualExclusion
<1>1. TypeOK /\ LeaseHeld => MutualExclusion
  BY DEF TypeOK, LeaseHeld, MutualExclusion
<1>2. QED
  BY <1>1, LeaseHeldAlways, PTL

-----------------------------------------------------------------------------
(***************************************************************************)
(* The refinement of Mutex: every step that starts or ends an operation is *)
(* an Enter or a Leave, and the expiry of a live lease is a Lapse.         *)
(***************************************************************************)
Holders == [k \in Keys |-> RunningUnder(k)]

(* A step that starts and ends no operation leaves Mutex's state alone.    *)
LEMMA SameRunners ==
    ASSUME \A k \in Keys : RunningUnder(k)' = RunningUnder(k), lapsed' = lapsed
    PROVE  UNCHANGED <<Holders, lapsed>>
BY DEF Holders

(* A running operation that ends is Mutex's Leave.                         *)
LEMMA StopIsLeave ==
    ASSUME TypeOK, LapsedRuns, NEW r \in Requests, pc[r] = "running",
           pc' = [pc EXCEPT ![r] = "idle"], name' = name,
           lapsed' = LapsedAfter(r)
    PROVE  M!Leave(r, name[r])
<1> DEFINE k == name[r]
<1>1. k \in Keys /\ r \in RunningUnder(k)
  BY DEF TypeOK, RunningUnder, Runs
<1>2. ASSUME NEW j \in Keys
      PROVE  RunningUnder(j)' = IF j = k THEN RunningUnder(k) \ {r}
                                ELSE RunningUnder(j)
  BY DEF TypeOK, RunningUnder, Runs
<1>3. Holders[k] = RunningUnder(k)
  BY <1>1 DEF Holders
<1>4. Holders' = [Holders EXCEPT ![k] = @ \ {r}]
  BY <1>1, <1>2 DEF Holders
<1>5. ASSUME NEW j \in lapsed, j # k
      PROVE  RunningUnder(j) \ {r} # {}
  <2>1. r \notin RunningUnder(j)
    BY <1>5 DEF RunningUnder, Runs
  <2>2. QED
    BY <2>1 DEF LapsedRuns
<1>6. lapsed' = IF RunningUnder(k) = {r} THEN lapsed \ {k} ELSE lapsed
  <2>1. RunningUnder(k) \ {r} = {} <=> RunningUnder(k) = {r}
    BY <1>1
  <2>2. lapsed' = {j \in lapsed : RunningUnder(j) \ {r} # {}}
    BY DEF LapsedAfter
  <2>3. QED
    BY <2>1, <2>2, <1>5
<1>7. QED
  BY <1>1, <1>3, <1>4, <1>6 DEF M!Leave, Holders

LEMMA StepRefines ==
    ASSUME TypeOK, LapsedRuns, LeaseHeld, [Next]_vars
    PROVE  [M!Next]_<<Holders, lapsed>>
<1> USE LockAssumption
<1>1. ASSUME NEW r \in Requests, NEW k \in Keys, NEW n \in 1 .. MaxRetries,
             Call(r, k, n)
      PROVE  UNCHANGED <<Holders, lapsed>>
  BY <1>1, SameRunners DEF Call, TypeOK, RunningUnder, Runs
<1>2. ASSUME NEW r \in Requests, Acquire(r)
      PROVE  M!Enter(r, name[r])
  <2> DEFINE k == name[r]
  <2>1. k \in Keys /\ r \notin RunningUnder(k)
    BY <1>2 DEF Acquire, TypeOK, RunningUnder, Runs
  <2>2. RunningUnder(k) = {} \/ k \in lapsed
    <3> SUFFICES ASSUME k \notin lapsed, NEW s \in RunningUnder(k)
                 PROVE  FALSE
      OBVIOUS
    <3>1. s \in Requests /\ Runs(s, k)
      BY DEF RunningUnder
    <3>2. lease[k] = s
      BY <2>1, <3>1 DEF LeaseHeld
    <3>3. QED
      BY <1>2, <3>1, <3>2 DEF Acquire
  <2>3. ASSUME NEW j \in Keys
        PROVE  RunningUnder(j)' = IF j = k THEN RunningUnder(k) \cup {r}
                                  ELSE RunningUnder(j)
    BY <1>2 DEF Acquire, TypeOK, RunningUnder, Runs
  <2>4. Holders' = [Holders EXCEPT ![k] = @ \cup {r}]
    BY <2>1, <2>3 DEF Holders
  <2>5. Holders[k] = RunningUnder(k) /\ lapsed' = lapsed
    BY <1>2, <2>1 DEF Holders, Acquire
  <2>6. QED
    BY <2>1, <2>2, <2>4, <2>5 DEF M!Enter, Holders
<1>3. ASSUME NEW r \in Requests, Miss(r)
      PROVE  UNCHANGED <<Holders, lapsed>>
  BY <1>3, SameRunners DEF Miss, TypeOK, RunningUnder, Runs
<1>4. ASSUME NEW r \in Requests, Release(r)
      PROVE  M!Leave(r, name[r])
  BY <1>4, StopIsLeave DEF Release
<1>5. ASSUME NEW r \in Requests, Crash(r)
      PROVE  UNCHANGED <<Holders, lapsed>> \/ M!Leave(r, name[r])
  <2>1. CASE pc[r] = "running"
    BY <2>1, <1>5, StopIsLeave DEF Crash
  <2>2. CASE pc[r] # "running"
    <3>1. \A k \in Keys : RunningUnder(k)' = RunningUnder(k)
      BY <2>2, <1>5 DEF Crash, TypeOK, RunningUnder, Runs
    <3>2. \A k \in lapsed : RunningUnder(k) \ {r} = RunningUnder(k)
      BY <2>2 DEF RunningUnder, Runs
    <3>3. lapsed' = lapsed
      BY <1>5, <3>2 DEF Crash, LapsedAfter, LapsedRuns
    <3>4. QED
      BY <3>1, <3>3, SameRunners
  <2>3. QED
    BY <2>1, <2>2
<1>6. ASSUME NEW k \in Keys, Expire(k)
      PROVE  UNCHANGED <<Holders, lapsed>> \/ M!Lapse(k)
  <2>1. \A j \in Keys : RunningUnder(j)' = RunningUnder(j)
    BY <1>6 DEF Expire, RunningUnder, Runs
  <2>2. Holders' = Holders
    BY <2>1 DEF Holders
  <2>3. Holders[k] = RunningUnder(k)
    BY DEF Holders
  <2>4. QED
    BY <1>6, <2>2, <2>3 DEF Expire, M!Lapse, Holders
<1>7. CASE UNCHANGED vars
  BY <1>7, SameRunners DEF vars, RunningUnder, Runs
<1>8. \A r \in Requests : name[r] \in Keys
  BY DEF TypeOK
<1>9. QED
  BY <1>1, <1>2, <1>3, <1>4, <1>5, <1>6, <1>7, <1>8 DEF Next, M!Next, Holders

(* The lease lock behaves as the abstract lock with lapses, whatever       *)
(* crashes and however long operations take.                               *)
THEOREM LockImplementsMutex == Spec => ImplementsMutex
<1>1. Init => M!Init
  BY DEF Init, M!Init, RunningUnder, Runs
<1>2. TypeOK /\ LapsedRuns /\ LeaseHeld /\ [Next]_vars
        => [M!Next]_<<Holders, lapsed>>
  BY StepRefines
<1>3. QED
  BY <1>1, <1>2, LeaseHeldAlways, PTL DEF Spec, ImplementsMutex, M!Spec, Holders
=============================================================================
