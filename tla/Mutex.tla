------------------------------- MODULE Mutex -------------------------------
(***************************************************************************)
(* What the callers of LockService.executeWithLock get: of all requests    *)
(* that name the same lock key one at a time executes its operation, until *)
(* an operation takes longer than its ttl.  The key then admits others     *)
(* next to it, and is exclusive again once all of them have left: however  *)
(* they leave (return, throw, die with their server), and in any order.    *)
(***************************************************************************)
CONSTANTS Requests, Keys

VARIABLES
    holders,   \* holders[k]: the requests whose operations run under k
    lapsed     \* the keys that admit requests next to a holder

Init ==
    /\ holders = [k \in Keys |-> {}]
    /\ lapsed = {}

Enter(r, k) ==
    /\ holders[k] = {} \/ k \in lapsed
    /\ r \notin holders[k]
    /\ holders' = [holders EXCEPT ![k] = @ \cup {r}]
    /\ UNCHANGED lapsed

Leave(r, k) ==
    /\ r \in holders[k]
    /\ holders' = [holders EXCEPT ![k] = @ \ {r}]
    /\ lapsed' = IF holders[k] = {r} THEN lapsed \ {k} ELSE lapsed

Lapse(k) ==
    /\ holders[k] # {}
    /\ lapsed' = lapsed \cup {k}
    /\ UNCHANGED holders

Next ==
    \E k \in Keys :
        \/ \E r \in Requests : Enter(r, k) \/ Leave(r, k)
        \/ Lapse(k)

Spec == Init /\ [][Next]_<<holders, lapsed>>
=============================================================================
