-------------------------------- MODULE Trip --------------------------------
(***************************************************************************)
(* The life of trips: TripService, TripPaymentService and the Stripe       *)
(* webhooks, the active-trip keys in Redis, driver availability, and as    *)
(* much of the search for a driver as changes a trip.                      *)
(*                                                                         *)
(* Each handler is one step: what the service promises when requests do    *)
(* not overlap.  A step makes every change its handler makes.  A request   *)
(* the code refuses changes nothing beyond what its look-up of the active  *)
(* trip writes (GetCustomerActiveTrip, GetDriverActiveTrip), so refusals   *)
(* are not steps of their own.                                             *)
(***************************************************************************)
EXTENDS TripStatus, Naturals, FiniteSets

CONSTANTS
    Trips, Customers, Drivers,
    Owner,        \* Owner[t]: the customer of trip t (trip.customer.id)
    NoTrip,       \* an active-trip key Redis does not hold
    NoDriver,     \* trip.driver is not set
    MaxIntents    \* bound: Stripe payment intents open at once for one trip

ASSUME TripAssumption ==
    /\ Owner \in [Trips -> Customers]
    /\ NoTrip \notin Trips
    /\ NoDriver \notin Drivers
    /\ IsFiniteSet(Drivers)
    /\ MaxIntents \in Nat

VARIABLES
    status,      \* trip.status, in MongoDB
    driver,      \* trip.driver.id, or NoDriver
    called,      \* trip.calledDriverIds
    rejected,    \* trip.rejectedDriverIds
    activeC,     \* Redis: the customer's active-trip key
    activeD,     \* Redis: the driver's active-trip key
    avail,       \* Redis: driver availability; a missing key reads as BUSY
    queue,       \* queue[d]: trips in Redis that driver d is still to be asked for;
                 \* a trip that is in a queue twice counts once
    timers,      \* timers[t]: drivers with a pending timeout job for t
    shown,       \* shown[d]: trip requests on the screen of driver d's app
    told,        \* told[d]: those of them whose TRIP_ALREADY_TAKEN is under way to d
    stale,       \* history: trips whose last search began with timeout jobs, queue
                 \* entries or requests on screens of an earlier search around
    taken,       \* history: trips accepted again when a driver already had them
    open,        \* open[t]: payment intents Stripe has not settled
    hooks,       \* hooks[t]: webhook events Stripe may (re)deliver for t
    paid,        \* history: Stripe has taken the fare of t
    penalty      \* history: the customer's late-cancellation fee for t

screenVars == <<shown, told>>
searchVars == <<called, rejected, queue, timers, screenVars, stale, taken>>
keyVars    == <<activeC, activeD>>
moneyVars  == <<open, hooks, paid, penalty>>
vars == <<status, driver, keyVars, avail, searchVars, moneyVars>>

Availability == {"AVAILABLE", "BUSY", "ON_TRIP"}

TypeOK ==
    /\ status \in [Trips -> Statuses]
    /\ driver \in [Trips -> Drivers \cup {NoDriver}]
    /\ called \in [Trips -> SUBSET Drivers]
    /\ rejected \in [Trips -> SUBSET Drivers]
    /\ activeC \in [Customers -> Trips \cup {NoTrip}]
    /\ activeD \in [Drivers -> Trips \cup {NoTrip}]
    /\ avail \in [Drivers -> Availability]
    /\ queue \in [Drivers -> SUBSET Trips]
    /\ timers \in [Trips -> SUBSET Drivers]
    /\ shown \in [Drivers -> SUBSET Trips]
    /\ told \in [Drivers -> SUBSET Trips]
    /\ stale \in SUBSET Trips
    /\ taken \in SUBSET Trips
    /\ open \in [Trips -> 0 .. MaxIntents]
    /\ hooks \in [Trips -> SUBSET {"succeeded", "failed"}]
    /\ paid \in [Trips -> BOOLEAN]
    /\ penalty \in [Trips -> {"none", "due", "paid"}]

(* Every customer has asked for estimates: each trip is a draft (estimate  *)
(* creates it).  No driver is connected yet.                               *)
Init ==
    /\ status = [t \in Trips |-> "DRAFT"]
    /\ driver = [t \in Trips |-> NoDriver]
    /\ called = [t \in Trips |-> {}]
    /\ rejected = [t \in Trips |-> {}]
    /\ activeC = [c \in Customers |-> NoTrip]
    /\ activeD = [d \in Drivers |-> NoTrip]
    /\ avail = [d \in Drivers |-> "BUSY"]
    /\ queue = [d \in Drivers |-> {}]
    /\ timers = [t \in Trips |-> {}]
    /\ shown = [d \in Drivers |-> {}]
    /\ told = [d \in Drivers |-> {}]
    /\ stale = {}
    /\ taken = {}
    /\ open = [t \in Trips |-> 0]
    /\ hooks = [t \in Trips |-> {}]
    /\ paid = [t \in Trips |-> FALSE]
    /\ penalty = [t \in Trips |-> "none"]

-----------------------------------------------------------------------------
(* Looking up the active trip of a user.                                   *)

(* findOne answers any of the documents that match.                        *)
FoundForCustomer(c) == {t \in Trips : Owner[t] = c /\ status[t] \in CustomerActive}
FoundForDriver(d)   == {t \in Trips : driver[t] = d /\ status[t] \in DriverActive}

OneOf(found, t) == IF found = {} THEN t = NoTrip ELSE t \in found

(* Mutant: trust the key alone; an expired key means no active trip.       *)
LookUpKeyOnly(key, found, t, newKey) ==
    IF key # NoTrip /\ status[key] \notin Finished
    THEN t = key /\ newKey = key
    ELSE t = NoTrip /\ newKey = NoTrip

(* getUserActiveTrip: with the key's value `key` and the database's answer *)
(* `found`, it may return t and leave newKey in Redis.  A key that names a *)
(* finished trip is deleted; the database's answer is cached only when     *)
(* there was no key.                                                       *)
LookUp(key, found, t, newKey) ==
    \/ key # NoTrip /\ status[key] \notin Finished /\ t = key /\ newKey = key
    \/ key # NoTrip /\ status[key] \in Finished /\ OneOf(found, t) /\ newKey = NoTrip
    \/ key = NoTrip /\ OneOf(found, t) /\ newKey = t

CustomerLookUp(c, t, newKey) == LookUp(activeC[c], FoundForCustomer(c), t, newKey)
DriverLookUp(d, t, newKey)   == LookUp(activeD[d], FoundForDriver(d), t, newKey)

(* getUserActiveTripId: the key unchecked, or else the database's answer.  *)
CustomerTripIds(c) == IF activeC[c] # NoTrip THEN {activeC[c]} ELSE FoundForCustomer(c)
DriverTripIds(d)   == IF activeD[d] # NoTrip THEN {activeD[d]} ELSE FoundForDriver(d)

(* The unique indexes let trip t of driver d be stored with status s.      *)
IndexAllows(t, s, d) ==
    \A u \in Trips \ {t} :
        /\ s \in CustomerUnique => ~ (Owner[u] = Owner[t] /\ status[u] = s)
        /\ s \in DriverActive => ~ (driver[u] = d /\ status[u] = s)

(* Mutant: the LREM names a key nobody has, and removes nothing.           *)
WithoutNothing(t, ds, perDriver) == perDriver

(* Trip t taken out of the sets that drivers ds have in perDriver.         *)
Without(t, ds, perDriver) ==
    [d \in Drivers |-> IF d \in ds THEN perDriver[d] \ {t} ELSE perDriver[d]]

(* Mutant: TRIP_ALREADY_TAKEN is not sent.                                 *)
TellNobody(ds, t) == told

(* TRIP_ALREADY_TAKEN for t to the apps of ds that show it: it is still    *)
(* under way when the handler is done (TakenArrives).                      *)
TellTaken(ds, t) ==
    [d \in Drivers |-> IF d \in ds /\ t \in shown[d] THEN told[d] \cup {t} ELSE told[d]]

(* Nothing of an earlier search of t is queued, due or on a screen.        *)
Untraced(t) == timers[t] = {} /\ \A d \in Drivers : t \notin queue[d] \cup shown[d]

-----------------------------------------------------------------------------
(* The customer searches for a driver.                                     *)

(* GET /customer-trips/active, and every request that only gets as far.    *)
GetCustomerActiveTrip(c) ==
    \E t \in Trips \cup {NoTrip}, k \in Trips \cup {NoTrip} :
        /\ CustomerLookUp(c, t, k)
        /\ activeC' = [activeC EXCEPT ![c] = k]
        /\ UNCHANGED <<status, driver, activeD, avail, searchVars, moneyVars>>

(* requestDriver for trip t, with ds the answer of searchDriver (available *)
(* drivers; none found is an error).  With a trip id the customer must     *)
(* have no active trip: the id is compared with an ObjectId, so that even  *)
(* t itself does not pass.  Without one the active trip itself must have   *)
(* found no driver.  The trip joins the queue of each driver in ds.  That  *)
(* an app asks for its own customer's trips only is assumed of the app.    *)
RequestDriver(c, t, ds) ==
    /\ Owner[t] = c
    /\ ds # {} /\ \A d \in ds : avail[d] = "AVAILABLE"
    /\ \/ status[t] \in Requestable /\ \E k \in Trips \cup {NoTrip} : CustomerLookUp(c, NoTrip, k)
       \/ status[t] = "DRIVER_NOT_FOUND" /\ \E k \in Trips \cup {NoTrip} : CustomerLookUp(c, t, k)
    /\ IndexAllows(t, "WAITING_FOR_DRIVER", driver[t])
    /\ status' = [status EXCEPT ![t] = "WAITING_FOR_DRIVER"]
    /\ called' = [called EXCEPT ![t] = ds]
    /\ rejected' = [rejected EXCEPT ![t] = {}]
    /\ activeC' = [activeC EXCEPT ![c] = t]
    /\ queue' = [d \in Drivers |-> IF d \in ds THEN queue[d] \cup {t} ELSE queue[d]]
    /\ stale' = IF Untraced(t) THEN stale \ {t} ELSE stale \cup {t}
    /\ UNCHANGED <<driver, activeD, avail, timers, screenVars, taken, moneyVars>>

(* processNextDriverRequest and handleTripRequest: driver d's queue has    *)
(* come to trip t.  A timeout job is scheduled whatever the request job    *)
(* finds; the app is told only if t still waits and d is available, after  *)
(* whatever else is under way to it.  The order of a queue and the         *)
(* processing key are left out: any queued trip may come up at any time.   *)
AskDriver(t, d) ==
    /\ t \in queue[d]
    /\ queue' = [queue EXCEPT ![d] = @ \ {t}]
    /\ timers' = [timers EXCEPT ![t] = @ \cup {d}]
    /\ IF status[t] = "WAITING_FOR_DRIVER" /\ avail[d] = "AVAILABLE"
       THEN /\ shown' = [shown EXCEPT ![d] = @ \cup {t}]
            /\ told' = Without(t, {d}, told)
       ELSE UNCHANGED screenVars
    /\ UNCHANGED <<status, driver, called, rejected, stale, taken, keyVars, avail, moneyVars>>

(* declineTrip, and handleDriverResponse.  d's timeout job for t stays.    *)
DeclineTrip(t, d) ==
    /\ t \in shown[d]
    /\ status[t] = "WAITING_FOR_DRIVER"
    /\ rejected' = [rejected EXCEPT ![t] = @ \cup {d}]
    /\ status' = [status EXCEPT ![t] =
                     IF called[t] # {} /\ called[t] \subseteq rejected'[t]
                     THEN "DRIVER_NOT_FOUND" ELSE @]
    /\ queue' = Without(t, {d}, queue)
    /\ shown' = Without(t, {d}, shown)
    /\ told' = Without(t, {d}, told)
    /\ UNCHANGED <<driver, called, stale, taken, keyVars, avail, timers, moneyVars>>

(* handleTripTimeout of the timeout processor: the lists are compared by   *)
(* their lengths.                                                          *)
DriverTimesOut(t, d) ==
    /\ d \in timers[t]
    /\ timers' = [timers EXCEPT ![t] = @ \ {d}]
    /\ IF status[t] = "WAITING_FOR_DRIVER" /\ driver[t] # d /\ d \notin rejected[t]
       THEN /\ rejected' = [rejected EXCEPT ![t] = @ \cup {d}]
            /\ status' = [status EXCEPT ![t] =
                             IF called[t] # {} /\ Cardinality(rejected'[t]) = Cardinality(called[t])
                             THEN "DRIVER_NOT_FOUND" ELSE @]
            /\ queue' = Without(t, {d}, queue)
            /\ told' = TellTaken({d}, t)
       ELSE UNCHANGED <<rejected, status, queue, told>>
    /\ UNCHANGED <<driver, called, shown, stale, taken, keyVars, avail, moneyVars>>

(* TRIP_ALREADY_TAKEN for t reaches d's app, which takes t off the screen. *)
TakenArrives(t, d) ==
    /\ t \in told[d]
    /\ shown' = Without(t, {d}, shown)
    /\ told' = Without(t, {d}, told)
    /\ UNCHANGED <<status, driver, called, rejected, queue, stale, taken, keyVars, avail,
                   timers, moneyVars>>

(* Mutant: reset to draft whatever the trip's status.                      *)
CancelTripRequestUnchecked(c) ==
    \E t \in CustomerTripIds(c) :
        /\ status' = [status EXCEPT ![t] = "DRAFT"]
        /\ called' = [called EXCEPT ![t] = {}]
        /\ rejected' = [rejected EXCEPT ![t] = {}]
        /\ timers' = [timers EXCEPT ![t] = {}]
        /\ activeC' = [activeC EXCEPT ![c] = NoTrip]
        /\ queue' = IF activeC[c] = NoTrip THEN queue ELSE Without(t, called[t], queue)
        /\ told' = TellTaken(called[t], t)
        /\ UNCHANGED <<driver, activeD, avail, shown, stale, taken, moneyVars>>

(* cancelTripRequest: the request goes back to being a draft.  An id that  *)
(* comes from the database is an ObjectId and equals no id in a queue:     *)
(* the trip stays in the queues then.                                      *)
CancelTripRequest(c) ==
    \E t \in CustomerTripIds(c) :
        /\ status[t] \in RequestCancellable
        /\ status' = [status EXCEPT ![t] = "DRAFT"]
        /\ called' = [called EXCEPT ![t] = {}]
        /\ rejected' = [rejected EXCEPT ![t] = {}]
        /\ timers' = [timers EXCEPT ![t] = {}]
        /\ activeC' = [activeC EXCEPT ![c] = NoTrip]
        /\ queue' = IF activeC[c] = NoTrip THEN queue ELSE Without(t, called[t], queue)
        /\ told' = TellTaken(called[t], t)
        /\ UNCHANGED <<driver, activeD, avail, shown, stale, taken, moneyVars>>

(* DELETE /customer-trips/active: only a trip that found no driver.        *)
DeleteActiveTrip(c) ==
    \E t \in Trips, k \in Trips \cup {NoTrip} :
        /\ CustomerLookUp(c, t, k)
        /\ status[t] = "DRIVER_NOT_FOUND"
        /\ status' = [status EXCEPT ![t] = "DRAFT"]
        /\ activeC' = [activeC EXCEPT ![c] = NoTrip]
        /\ UNCHANGED <<driver, activeD, avail, searchVars, moneyVars>>

-----------------------------------------------------------------------------
(* The driver takes the trip and drives it.                                *)

(* approveTrip, and the background handler of its trip.approved event: d   *)
(* enters the rejected lists of the waiting trips in d's queue, d's queue  *)
(* is emptied, and t's timeout jobs are removed.  t stays in the queues of *)
(* other drivers: the event has an ObjectId, which equals no id in them.   *)
(* Neither d's availability nor whether d was called is checked, and an    *)
(* approved trip may be approved again.                                    *)
ApproveTrip(t, d) ==
    /\ t \in shown[d]
    /\ CanTransition(status[t], "APPROVED")
    /\ IndexAllows(t, "APPROVED", d)
    /\ status' = [status EXCEPT ![t] = "APPROVED"]
    /\ driver' = [driver EXCEPT ![t] = d]
    /\ activeD' = [activeD EXCEPT ![d] = t]
    /\ avail' = [avail EXCEPT ![d] = "ON_TRIP"]
    /\ rejected' = [u \in Trips |->
                       IF u \in queue[d] \ {t} /\ status[u] = "WAITING_FOR_DRIVER"
                       THEN rejected[u] \cup {d} ELSE rejected[u]]
    /\ queue' = [queue EXCEPT ![d] = {}]
    /\ timers' = [timers EXCEPT ![t] = {}]
    /\ shown' = Without(t, {d}, shown)
    /\ told' = Without(t, {d}, TellTaken(called[t] \ rejected[t], t))
    /\ taken' = IF status[t] = "WAITING_FOR_DRIVER" THEN taken ELSE taken \cup {t}
    /\ UNCHANGED <<called, activeC, stale, moneyVars>>

(* GET /driver-trips/active.                                               *)
GetDriverActiveTrip(d) ==
    \E t \in Trips \cup {NoTrip}, k \in Trips \cup {NoTrip} :
        /\ DriverLookUp(d, t, k)
        /\ activeD' = [activeD EXCEPT ![d] = k]
        /\ UNCHANGED <<status, driver, activeC, avail, searchVars, moneyVars>>

(* startPickup, arrivePickup and startTrip: updateTripStatus of the trip   *)
(* the driver's key names, whoever its driver is.                          *)
DriverMoves(d, to) ==
    \E t \in DriverTripIds(d) :
        /\ CanTransition(status[t], to)
        /\ IndexAllows(t, to, driver[t])
        /\ status' = [status EXCEPT ![t] = to]
        /\ UNCHANGED <<driver, keyVars, avail, searchVars, moneyVars>>

StartPickup(d)  == DriverMoves(d, "DRIVER_ON_WAY_TO_PICKUP")
ArrivePickup(d) == DriverMoves(d, "ARRIVED_AT_PICKUP")
StartTrip(d)    == DriverMoves(d, "TRIP_IN_PROGRESS")

(* Mutant: the driver's key stays when the ride is over.                   *)
ArrivedStopKeepKey(d) ==
    \E t \in DriverTripIds(d) :
        /\ driver[t] # NoDriver
        /\ IndexAllows(t, "PAYMENT", driver[t])
        /\ status' = [status EXCEPT ![t] = "PAYMENT"]
        /\ avail' = [avail EXCEPT ![d] = "AVAILABLE"]
        /\ UNCHANGED <<driver, keyVars, searchVars, moneyVars>>

(* arrivedStop: the fare is due.  The status of the trip is not checked;   *)
(* the fare needs a tripStartTime, which the first approval sets.          *)
ArrivedStop(d) ==
    \E t \in DriverTripIds(d) :
        /\ driver[t] # NoDriver
        /\ IndexAllows(t, "PAYMENT", driver[t])
        /\ status' = [status EXCEPT ![t] = "PAYMENT"]
        /\ activeD' = [activeD EXCEPT ![d] = NoTrip]
        /\ avail' = [avail EXCEPT ![d] = "AVAILABLE"]
        /\ UNCHANGED <<driver, activeC, searchVars, moneyVars>>

-----------------------------------------------------------------------------
(* Cancellation after a driver accepted.                                   *)

(* Mutant: the driver's active-trip key is not cleaned up.                 *)
CancelTripByDriverKeepKey(d) ==
    \E t \in DriverTripIds(d) :
        /\ status[t] \in DriverCancellable
        /\ status' = [status EXCEPT ![t] = "CANCELLED"]
        /\ activeC' = [activeC EXCEPT ![Owner[t]] = NoTrip]
        /\ avail' = [avail EXCEPT ![d] = "AVAILABLE"]
        /\ UNCHANGED <<driver, activeD, searchVars, moneyVars>>

(* cancelTripByDriver (a late cancellation also records a driver penalty). *)
CancelTripByDriver(d) ==
    \E t \in DriverTripIds(d) :
        /\ status[t] \in DriverCancellable
        /\ status' = [status EXCEPT ![t] = "CANCELLED"]
        /\ activeD' = [activeD EXCEPT ![d] = NoTrip]
        /\ activeC' = [activeC EXCEPT ![Owner[t]] = NoTrip]
        /\ avail' = [avail EXCEPT ![d] = "AVAILABLE"]
        /\ UNCHANGED <<driver, searchVars, moneyVars>>

(* Mutant: a failed penalty payment is logged and forgotten.               *)
CancelTripByCustomerForgiving(c, late, charged) ==
    \E t \in CustomerTripIds(c) :
        /\ status[t] \in CustomerCancellable
        /\ driver[t] # NoDriver
        /\ activeD' = [activeD EXCEPT ![driver[t]] = NoTrip]
        /\ avail' = [avail EXCEPT ![driver[t]] = "AVAILABLE"]
        /\ status' = [status EXCEPT ![t] = "CANCELLED"]
        /\ activeC' = [activeC EXCEPT ![c] = NoTrip]
        /\ penalty' = [penalty EXCEPT ![t] =
                          IF ~ late THEN @ ELSE IF charged THEN "paid" ELSE "due"]
        /\ UNCHANGED <<driver, searchVars, open, hooks, paid>>

(* cancelTripByCustomer: the driver is freed first.  When the cancellation *)
(* is late, a fee is charged at once; if the charge fails the request      *)
(* throws and the trip stays in CANCELLED_PAYMENT.  A trip without a       *)
(* driver makes the handler throw before it changes anything.              *)
CancelTripByCustomer(c, late, charged) ==
    \E t \in CustomerTripIds(c) :
        /\ status[t] \in CustomerCancellable
        /\ driver[t] # NoDriver
        /\ activeD' = [activeD EXCEPT ![driver[t]] = NoTrip]
        /\ avail' = [avail EXCEPT ![driver[t]] = "AVAILABLE"]
        /\ IF late /\ ~ charged
           THEN /\ status' = [status EXCEPT ![t] = "CANCELLED_PAYMENT"]
                /\ UNCHANGED activeC
           ELSE /\ status' = [status EXCEPT ![t] = "CANCELLED"]
                /\ activeC' = [activeC EXCEPT ![c] = NoTrip]
        /\ penalty' = [penalty EXCEPT ![t] =
                          IF ~ late THEN @ ELSE IF charged THEN "paid" ELSE "due"]
        /\ UNCHANGED <<driver, searchVars, open, hooks, paid>>

(* Mutant: any payment intent that was created counts as a payment.        *)
RetryCancelUncharged(c) ==
    \E t \in CustomerTripIds(c) :
        /\ status[t] \in {"PAYMENT_RETRY", "CANCELLED_PAYMENT"}
        /\ activeC' = [activeC EXCEPT ![c] = NoTrip]
        /\ status' = [status EXCEPT ![t] =
                         IF @ = "CANCELLED_PAYMENT" THEN "CANCELLED" ELSE "COMPLETED"]
        /\ UNCHANGED <<driver, activeD, avail, searchVars, moneyVars>>

(* retryCancelTripByCustomer: Stripe takes the fare or the fee at once; a  *)
(* charge that does not succeed changes nothing.                           *)
RetryCancelTripByCustomer(c) ==
    \E t \in CustomerTripIds(c) :
        /\ status[t] \in {"PAYMENT_RETRY", "CANCELLED_PAYMENT"}
        /\ activeC' = [activeC EXCEPT ![c] = NoTrip]
        /\ IF status[t] = "CANCELLED_PAYMENT"
           THEN /\ status' = [status EXCEPT ![t] = "CANCELLED"]
                /\ penalty' = [penalty EXCEPT ![t] = "paid"]
                /\ UNCHANGED paid
           ELSE /\ status' = [status EXCEPT ![t] = "COMPLETED"]
                /\ paid' = [paid EXCEPT ![t] = TRUE]
                /\ UNCHANGED penalty
        /\ UNCHANGED <<driver, activeD, avail, searchVars, open, hooks>>

-----------------------------------------------------------------------------
(* Paying for the ride.                                                    *)

(* Mutant: validateTripForPayment without its status and driver checks.    *)
ProcessTripPaymentUnchecked(c) ==
    \E t \in Trips, k \in Trips \cup {NoTrip} :
        /\ CustomerLookUp(c, t, k)
        /\ open[t] < MaxIntents
        /\ open' = [open EXCEPT ![t] = @ + 1]
        /\ activeC' = [activeC EXCEPT ![c] = k]
        /\ UNCHANGED <<status, driver, activeD, avail, searchVars, hooks, paid, penalty>>

(* processTripPayment: one more payment intent, each time it is called.    *)
ProcessTripPayment(c) ==
    \E t \in Trips, k \in Trips \cup {NoTrip} :
        /\ CustomerLookUp(c, t, k)
        /\ status[t] = "PAYMENT"
        /\ driver[t] # NoDriver
        /\ open[t] < MaxIntents
        /\ open' = [open EXCEPT ![t] = @ + 1]
        /\ activeC' = [activeC EXCEPT ![c] = k]
        /\ UNCHANGED <<status, driver, activeD, avail, searchVars, hooks, paid, penalty>>

(* Stripe settles an intent and will deliver the event, perhaps more than  *)
(* once, and in no particular order.                                       *)
StripeSettles(t, event) ==
    /\ open[t] > 0
    /\ open' = [open EXCEPT ![t] = @ - 1]
    /\ hooks' = [hooks EXCEPT ![t] = @ \cup {event}]
    /\ paid' = [paid EXCEPT ![t] = @ \/ event = "succeeded"]
    /\ UNCHANGED <<status, driver, keyVars, avail, searchVars, penalty>>

(* WebhookHandlerService and TripPaymentService.handlePaymentSuccess.      *)
HandlePaymentSuccess(t) ==
    /\ "succeeded" \in hooks[t]
    /\ status' = [status EXCEPT ![t] = "COMPLETED"]
    /\ activeC' = [activeC EXCEPT ![Owner[t]] = NoTrip]
    /\ UNCHANGED <<driver, activeD, avail, searchVars, moneyVars>>

(* Mutant: the payment's status written into the trip's status.            *)
HandlePaymentFailureWrongField(t) ==
    /\ "failed" \in hooks[t]
    /\ status' = [status EXCEPT ![t] = "FAILED"]
    /\ UNCHANGED <<driver, keyVars, avail, searchVars, moneyVars>>

(* handlePaymentFailure, for failed and for cancelled intents: the trip's  *)
(* status is not looked at, and the driver is set free a second time.      *)
HandlePaymentFailure(t) ==
    /\ "failed" \in hooks[t]
    /\ status' = [status EXCEPT ![t] = "PAYMENT_RETRY"]
    /\ IF driver[t] # NoDriver
       THEN /\ activeD' = [activeD EXCEPT ![driver[t]] = NoTrip]
            /\ avail' = [avail EXCEPT ![driver[t]] = "AVAILABLE"]
       ELSE UNCHANGED <<activeD, avail>>
    /\ UNCHANGED <<driver, activeC, searchVars, moneyVars>>

-----------------------------------------------------------------------------
(* Connections and expiry.                                                 *)

(* handleConnection sets BUSY whatever the driver was doing; a disconnect  *)
(* deletes the status, which then reads as BUSY, unless it is ON_TRIP.     *)
DriverConnects(d) ==
    /\ avail' = [avail EXCEPT ![d] = "BUSY"]
    /\ UNCHANGED <<status, driver, keyVars, searchVars, moneyVars>>

DriverDisconnects(d) ==
    /\ avail[d] # "ON_TRIP"
    /\ avail' = [avail EXCEPT ![d] = "BUSY"]
    /\ UNCHANGED <<status, driver, keyVars, searchVars, moneyVars>>

(* handleDriverAvailabilityUpdate: refused while ON_TRIP.                  *)
UpdateAvailability(d, to) ==
    /\ avail[d] # "ON_TRIP"
    /\ avail' = [avail EXCEPT ![d] = to]
    /\ UNCHANGED <<status, driver, keyVars, searchVars, moneyVars>>

(* ACTIVE_TRIP_EXPIRY passes without a refresh.                            *)
CustomerKeyExpires(c) ==
    /\ activeC[c] # NoTrip
    /\ activeC' = [activeC EXCEPT ![c] = NoTrip]
    /\ UNCHANGED <<status, driver, activeD, avail, searchVars, moneyVars>>

DriverKeyExpires(d) ==
    /\ activeD[d] # NoTrip
    /\ activeD' = [activeD EXCEPT ![d] = NoTrip]
    /\ UNCHANGED <<status, driver, activeC, avail, searchVars, moneyVars>>

-----------------------------------------------------------------------------
CustomerStep(c) ==
    \/ GetCustomerActiveTrip(c)
    \/ \E t \in Trips, ds \in SUBSET Drivers : RequestDriver(c, t, ds)
    \/ CancelTripRequest(c)
    \/ DeleteActiveTrip(c)
    \/ \E late, charged \in BOOLEAN : CancelTripByCustomer(c, late, charged)
    \/ RetryCancelTripByCustomer(c)
    \/ ProcessTripPayment(c)
    \/ CustomerKeyExpires(c)

DriverStep(d) ==
    \/ \E t \in Trips : DeclineTrip(t, d)
    \/ \E t \in Trips : ApproveTrip(t, d)
    \/ GetDriverActiveTrip(d)
    \/ StartPickup(d)
    \/ ArrivePickup(d)
    \/ StartTrip(d)
    \/ ArrivedStop(d)
    \/ CancelTripByDriver(d)
    \/ DriverConnects(d)
    \/ DriverDisconnects(d)
    \/ \E to \in {"AVAILABLE", "BUSY"} : UpdateAvailability(d, to)
    \/ DriverKeyExpires(d)

BackgroundStep(t) ==
    \/ \E d \in Drivers : AskDriver(t, d) \/ DriverTimesOut(t, d) \/ TakenArrives(t, d)
    \/ \E event \in {"succeeded", "failed"} : StripeSettles(t, event)
    \/ HandlePaymentSuccess(t)
    \/ HandlePaymentFailure(t)

Next ==
    \/ \E c \in Customers : CustomerStep(c)
    \/ \E d \in Drivers : DriverStep(d)
    \/ \E t \in Trips : BackgroundStep(t)

Spec == Init /\ [][Next]_vars

-----------------------------------------------------------------------------
(* Properties.                                                             *)

(* The statuses a trip has only after a driver accepted it.                *)
Accepted ==
    DriverActive \cup {"PAYMENT", "PAYMENT_RETRY", "CANCELLED_PAYMENT", "COMPLETED"}

(* A ride is under way, waits for its fare or for a cancellation fee, or   *)
(* looks for a driver.  PAYMENT_RETRY is not among them: a late failure    *)
(* event puts a finished trip there.                                       *)
Live == CustomerUnique \cup {"CANCELLED_PAYMENT"}

(* A trip past approval always knows its driver: payment, cancellation and *)
(* the driver's own handlers dereference trip.driver.id without a check.   *)
RideHasDriver ==
    \A t \in Trips : status[t] \in Accepted => driver[t] # NoDriver

(* No trip is completed unless Stripe took its fare, through a webhook or  *)
(* through the retry endpoint.                                             *)
CompletedIsPaid ==
    \A t \in Trips : status[t] = "COMPLETED" => paid[t]

(* A customer who cancels late does not get rid of the trip before the fee *)
(* is paid.                                                                *)
PenaltySettled ==
    \A t \in Trips : status[t] = "CANCELLED" => penalty[t] # "due"

(* validateCustomerNoActiveTrip's purpose: a customer never has two trips  *)
(* going, although the active-trip key expires, is cleaned up by handlers  *)
(* of other trips, and the unique index only refuses two equal statuses.   *)
(* Two drivers who both took a trip can bring it back after its end, each  *)
(* with a key of his own: such a trip is left out.                         *)
OneRidePerCustomer ==
    \A t, u \in Trips \ taken :
        /\ Owner[t] = Owner[u]
        /\ status[t] \in Live
        /\ status[u] \in Live
        => t = u

(* The driver's active-trip key, which the driver's handlers obey without  *)
(* comparing trip.driver.id, names a ride of that driver still under way,  *)
(* unless another driver has taken the ride over.                          *)
DriverKeySound ==
    \A d \in Drivers :
        activeD[d] \in Trips \ taken => /\ driver[activeD[d]] = d
                                       /\ status[activeD[d]] \in DriverActive

(* The drivers called for t who have neither rejected it nor timed out.    *)
MayAccept(t) == IF status[t] = "WAITING_FOR_DRIVER" THEN called[t] \ rejected[t] ELSE {}

SearchIsSound(t) ==
    /\ \A d \in Drivers : t \in shown[d] => d \in MayAccept(t) \/ t \in told[d]
    /\ \A d \in Drivers : t \in queue[d] => t \notin shown[d]
    /\ status[t] = "WAITING_FOR_DRIVER" =>
          /\ \A d \in Drivers : t \in queue[d] => d \in MayAccept(t)
          /\ rejected[t] \cup timers[t] \cup {d \in Drivers : t \in shown[d]} \subseteq called[t]

(* A driver is shown a trip while it waits for a driver and for this one,  *)
(* who neither declined nor let it time out; otherwise TRIP_ALREADY_TAKEN  *)
(* is under way.  The entry of a waiting trip in a driver's queue is to be *)
(* asked too, and only drivers called can answer for it or have a timeout  *)
(* job: then the timeout processor may compare the lengths of the lists of *)
(* called and of rejected drivers.  A search that began with jobs, entries *)
(* or requests of an earlier one promises none of this.                    *)
SearchSound == \A t \in Trips \ stale : SearchIsSound(t)

(* Only the fare of a ride that has ended is ever charged: Stripe knows no *)
(* fare intent, and no event of one, of a trip that is looking for a       *)
(* driver, driven or cancelled (the fee of a late cancellation is charged  *)
(* by an intent of its own, which `open` does not count).                  *)
OnlyFaresCharged ==
    \A t \in Trips :
        open[t] > 0 \/ hooks[t] # {} =>
            /\ status[t] \in {"PAYMENT", "PAYMENT_RETRY", "COMPLETED"}
            /\ driver[t] # NoDriver

(* A trip that still looks for a driver has none, and none gets one but by *)
(* accepting it: trip.driver is never left over from an earlier search.    *)
DriverlessSearch ==
    \A t \in Trips : status[t] \in RequestCancellable => driver[t] = NoDriver

(* The customer's key names a trip of that customer, and never one that    *)
(* found no driver while another ride is going: such a key would let the   *)
(* customer search again for the first (requestDriver without a trip id).  *)
CustomerKeySound ==
    \A c \in Customers :
        activeC[c] # NoTrip =>
            /\ Owner[activeC[c]] = c
            /\ status[activeC[c]] = "DRIVER_NOT_FOUND" =>
                  \A t \in Trips \ (taken \cup {activeC[c]}) :
                      Owner[t] = c => status[t] \notin Live

(* Once a driver accepted, the trip never goes back to being searched for, *)
(* which would strand the driver.                                          *)
AcceptedIsNotUndone ==
    [][\A t \in Trips : status[t] \in Accepted => status'[t] \notin RequestCancellable]_vars

(* The moves a trip's status makes.  arrivedStop and the payment events    *)
(* write a status without looking at the old one, and the driver's         *)
(* handlers act on whatever trip the key names; still a finished or        *)
(* cancelled trip is never driven, charged or searched for again, unless   *)
(* two drivers took it and each has a key to it.                           *)
OrderlyMove(from, to) ==
    \/ from \in Requestable /\ to = "WAITING_FOR_DRIVER"
    \/ from \in RequestCancellable /\ to = "DRAFT"
    \/ from = "WAITING_FOR_DRIVER" /\ to \in {"DRIVER_NOT_FOUND", "APPROVED"}
    \/ from \in DriverActive /\ to \in DriverActive \cup {"PAYMENT"}
    \/ from \in DriverCancellable /\ to \in {"CANCELLED", "CANCELLED_PAYMENT"}
    \/ from \in {"PAYMENT", "PAYMENT_RETRY", "COMPLETED"} /\ to \in {"PAYMENT_RETRY", "COMPLETED"}
    \/ from = "CANCELLED_PAYMENT" /\ to = "CANCELLED"

StatusIsOrderly ==
    [][\A t \in Trips \ taken :
          status'[t] # status[t] => OrderlyMove(status[t], status'[t])]_vars

(* Nobody takes a trip from the driver who has it, except one whom         *)
(* TRIP_ALREADY_TAKEN has not reached yet, or whose screen still shows the *)
(* request of an earlier search.                                           *)
TakenOverInTime ==
    [][\A t \in Trips :
          driver'[t] # driver[t] => \/ status[t] = "WAITING_FOR_DRIVER"
                                   \/ t \in told[driver'[t]]
                                   \/ t \in stale]_vars

(* The status diagrams have one way into APPROVED: a driver accepts a trip *)
(* that waits for one.  Nobody takes a trip from the driver who has it.    *)
AcceptedOnce ==
    [][\A t \in Trips : driver'[t] # driver[t] => status[t] = "WAITING_FOR_DRIVER"]_vars
=============================================================================
