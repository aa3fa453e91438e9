------------------------------- MODULE Cancel --------------------------------
(***************************************************************************)
(* The cancellation of one accepted trip call by call.  The driver, the    *)
(* customer and the customer's retry of the fee each hold a lock of their  *)
(* own, so that the three overlap: TripService.cancelTripByDriver,         *)
(* cancelTripByCustomer, retryCancelTripByCustomer, DriverPenaltyService.  *)
(***************************************************************************)
EXTENDS Naturals

CONSTANTS
    Requests,
    MaxCharges   \* bound on the charges that are tried

VARIABLES
    status,     \* of the trip; APPROVED stands for all that can be cancelled
    late,       \* five minutes have passed since it was accepted
    key,        \* the ride the driver's active-trip key names
    avail,      \* the driver's availability
    other,      \* the driver is on another ride by now
    penalties,  \* penalty records of the driver
    charges,    \* fees Stripe has taken
    tries,      \* charges tried
    lock,       \* the kinds of request whose lock is held
    work,       \* work[q]: the request q is serving
    overlapped, \* history: two requests were under way at once, the driver moved
                \* on during one, or a lock ran out under one
    failed,     \* history: a call of one failed
    byCustomer  \* history: the customer's cancellation has been let through late

driverVars == <<key, avail, other>>
moneyVars == <<penalties, charges, tries>>
historyVars == <<overlapped, failed, byCustomer>>
vars == <<status, late, driverVars, moneyVars, lock, work, historyVars>>

Kinds == {"driver", "customer", "retry"}
Statuses == {"APPROVED", "TRIP_IN_PROGRESS", "CANCELLED_PAYMENT", "CANCELLED"}
Steps == {"read", "penalise", "write", "unkey", "free", "owe", "charge", "end"}
Idle == [kind |-> "none", at |-> "none"]

TypeOK ==
    /\ status \in Statuses
    /\ key \in {"this", "other", "none"}
    /\ avail \in {"ON_TRIP", "AVAILABLE"}
    /\ {late, other, overlapped, failed, byCustomer} \subseteq BOOLEAN
    /\ penalties \in Nat /\ tries \in 0 .. MaxCharges /\ charges \in 0 .. tries
    /\ lock \subseteq Kinds
    /\ work \in [Requests -> [kind : Kinds, at : Steps] \cup {Idle}]

Init ==
    /\ status = "APPROVED" /\ late = FALSE
    /\ key = "this" /\ avail = "ON_TRIP" /\ other = FALSE
    /\ penalties = 0 /\ charges = 0 /\ tries = 0
    /\ lock = {} /\ work = [q \in Requests |-> Idle]
    /\ overlapped = FALSE /\ failed = FALSE /\ byCustomer = FALSE

Busy == \E q \in Requests : work[q] # Idle
At(q, kinds, step) == work[q].kind \in kinds /\ work[q].at = step
Goes(q, step) == work' = [work EXCEPT ![q].at = step] /\ UNCHANGED lock

\* The request answers and deletes its lock, whoever holds it.
Ends(q) == work' = [work EXCEPT ![q] = Idle] /\ lock' = lock \ {work[q].kind}

---------------------------------------------------------------------------
Start(q, k) ==
    /\ work[q] = Idle /\ k \notin lock
    /\ lock' = lock \cup {k}
    /\ work' = [work EXCEPT ![q] = [kind |-> k, at |-> "read"]]
    /\ overlapped' = (overlapped \/ Busy)
    /\ UNCHANGED <<status, late, driverVars, moneyVars, failed, byCustomer>>

\* The driver's trip is found by key or by driver and status; it must be
\* cancellable.  When it is late a penalty comes first.
ReadByDriver(q) ==
    /\ At(q, {"driver"}, "read")
    /\ IF status = "APPROVED" /\ key # "other"
       THEN Goes(q, IF late THEN "penalise" ELSE "write")
       ELSE Ends(q)
    /\ UNCHANGED <<status, late, driverVars, moneyVars, historyVars>>

\* createPenalty: a record of 0 AED
Penalise(q) ==
    /\ At(q, {"driver"}, "penalise")
    /\ penalties' = penalties + 1
    /\ Goes(q, "write")
    /\ UNCHANGED <<status, late, driverVars, charges, tries, historyVars>>

\* updateTripWithData
WriteCancelled(q) ==
    /\ At(q, {"driver"}, "write")
    /\ status' = "CANCELLED"
    /\ Goes(q, "unkey")
    /\ UNCHANGED <<late, driverVars, moneyVars, historyVars>>

\* validateCustomerCancellableStatus
ReadByCustomer(q) ==
    /\ At(q, {"customer"}, "read")
    /\ IF status = "APPROVED" THEN Goes(q, "unkey") ELSE Ends(q)
    /\ UNCHANGED <<status, late, driverVars, moneyVars, historyVars>>

\* removeUserActiveTrip of the driver, whatever ride the key names
Unkey(q) ==
    /\ At(q, {"driver", "customer"}, "unkey")
    /\ key' = "none"
    /\ Goes(q, "free")
    /\ UNCHANGED <<status, late, avail, other, moneyVars, historyVars>>

\* updateDriverAvailability; the customer's fee is due when it is late by now.
Free(q) ==
    /\ At(q, {"driver", "customer"}, "free")
    /\ avail' = "AVAILABLE"
    /\ IF work[q].kind = "driver" THEN Ends(q) ELSE Goes(q, IF late THEN "owe" ELSE "end")
    /\ byCustomer' = (byCustomer \/ (late /\ work[q].kind = "customer"))
    /\ UNCHANGED <<status, late, key, other, moneyVars, overlapped, failed>>

Owe(q) ==
    /\ At(q, {"customer"}, "owe")
    /\ status' = "CANCELLED_PAYMENT"
    /\ Goes(q, "charge")
    /\ UNCHANGED <<late, driverVars, moneyVars, historyVars>>

\* retryCancelTripByCustomer of a fee
ReadByRetry(q) ==
    /\ At(q, {"retry"}, "read")
    /\ IF status = "CANCELLED_PAYMENT" THEN Goes(q, "charge") ELSE Ends(q)
    /\ UNCHANGED <<status, late, driverVars, moneyVars, historyVars>>

\* createPaymentIntent has succeeded.
Charge(q) ==
    /\ At(q, {"customer", "retry"}, "charge")
    /\ tries < MaxCharges
    /\ tries' = tries + 1 /\ charges' = charges + 1
    /\ Goes(q, "end")
    /\ UNCHANGED <<status, late, driverVars, penalties, historyVars>>

\* Mutant: a refused card ends the trip like an accepted one.
RefuseForgiving(q) ==
    /\ At(q, {"customer", "retry"}, "charge")
    /\ tries < MaxCharges
    /\ tries' = tries + 1
    /\ Goes(q, "end")
    /\ UNCHANGED <<status, late, driverVars, penalties, charges, historyVars>>

\* There is no card, or it is refused.
Refuse(q) ==
    /\ At(q, {"customer", "retry"}, "charge")
    /\ tries < MaxCharges
    /\ tries' = tries + 1
    /\ Ends(q)
    /\ UNCHANGED <<status, late, driverVars, penalties, charges, historyVars>>

\* The customer's key is removed and CANCELLED written.
End(q) ==
    /\ At(q, {"customer", "retry"}, "end")
    /\ status' = "CANCELLED"
    /\ Ends(q)
    /\ UNCHANGED <<late, driverVars, moneyVars, historyVars>>

---------------------------------------------------------------------------
\* tripStartTime lies more than 300 seconds back.
TimePasses ==
    /\ ~late /\ late' = TRUE
    /\ UNCHANGED <<status, driverVars, moneyVars, lock, work, historyVars>>

\* startTrip
StartTrip ==
    /\ status = "APPROVED" /\ key # "other"
    /\ status' = "TRIP_IN_PROGRESS"
    /\ overlapped' = (overlapped \/ Busy)
    /\ UNCHANGED <<late, driverVars, moneyVars, lock, work, failed, byCustomer>>

\* setupDriverForTrip of another trip: drivers who are available are asked, and
\* the index has one trip under way per driver.
TakeOtherRide ==
    /\ avail = "AVAILABLE" /\ ~other
    /\ status \notin {"APPROVED", "TRIP_IN_PROGRESS"}
    /\ other' = TRUE /\ key' = "other" /\ avail' = "ON_TRIP"
    /\ UNCHANGED <<status, late, moneyVars, lock, work, historyVars>>

\* The next call throws.  Stripe may have taken the fee all the same.
Fail(q) ==
    /\ work[q] # Idle /\ tries < MaxCharges
    /\ \/ UNCHANGED charges
       \/ At(q, {"customer", "retry"}, "charge") /\ charges' = charges + 1
    /\ tries' = tries + 1
    /\ failed' = TRUE
    /\ Ends(q)
    /\ UNCHANGED <<status, late, driverVars, penalties, overlapped, byCustomer>>

\* The lock's 30 seconds are over before its request is.
LockExpires(k) ==
    /\ k \in lock
    /\ lock' = lock \ {k}
    /\ overlapped' = TRUE
    /\ UNCHANGED <<status, late, driverVars, moneyVars, work, failed, byCustomer>>

Next ==
    \/ \E q \in Requests :
          \/ \E k \in Kinds : Start(q, k)
          \/ ReadByDriver(q) \/ Penalise(q) \/ WriteCancelled(q)
          \/ ReadByCustomer(q) \/ Unkey(q) \/ Free(q) \/ Owe(q)
          \/ ReadByRetry(q) \/ Charge(q) \/ Refuse(q) \/ End(q) \/ Fail(q)
    \/ TimePasses \/ StartTrip \/ TakeOtherRide
    \/ \E k \in Kinds : LockExpires(k)

Spec == Init /\ [][Next]_vars

---------------------------------------------------------------------------
Answered == ~Busy /\ ~failed

\* However cancellations overlap, a trip that is cancelled once all requests
\* are answered does not hold its driver, unless one of them failed, and a fee
\* is taken only when it is late.  When they did not overlap, a driver keeps
\* the other ride he has taken; the fee is taken once from a customer who has
\* cancelled late, never from one whose driver has cancelled, and the driver
\* has one penalty at most, and none when nobody was late.
CancelIsSettled ==
    /\ charges > 0 => late
    /\ Answered /\ status \in {"CANCELLED", "CANCELLED_PAYMENT"} => key # "this"
    /\ Answered /\ ~overlapped =>
          /\ other => key = "other" /\ avail = "ON_TRIP"
          /\ charges = IF byCustomer /\ status = "CANCELLED" THEN 1 ELSE 0
          /\ penalties <= IF late /\ ~byCustomer THEN 1 ELSE 0
=============================================================================
