------------------------------ MODULE Dispatch ------------------------------
(***************************************************************************)
(* How a waiting trip reaches the drivers: TripQueueService, the Bull      *)
(* processors of trip requests and of timeouts, DriverTripQueueService     *)
(* (one queue and one processing key per driver in Redis) and the          *)
(* background handler of trip.approved.                                    *)
(*                                                                         *)
(* What runs on its own is a step of its own: the setTimeout callbacks of  *)
(* a request, the request jobs, the timeout jobs, the event handler and    *)
(* the handlers of HTTP requests.  Trip has the rest of a trip's life: a   *)
(* ride is one step here (RideEnds).                                       *)
(***************************************************************************)
EXTENDS TripStatus, Naturals, FiniteSets

CONSTANTS
    Trips,         \* trip ids: ObjectIds, ordered by when they were made
    Drivers,
    Accepting,     \* the drivers who may accept a request
    NoTrip,        \* a processing key that Redis does not hold
    MaxNext,       \* drivers the approval handler serves next (3 in the code)
    MaxSearches,   \* bound: searches of all trips together
    KeysExpire,    \* may a processing key expire before its request is answered?
    Crashes        \* may the server die, and with it its timers and events?

ASSUME DispatchAssumption ==
    /\ Trips \subseteq Nat
    /\ NoTrip \notin Trips
    /\ Accepting \subseteq Drivers
    /\ IsFiniteSet(Drivers)
    /\ MaxNext \in Nat \ {0}
    /\ MaxSearches \in Nat \ {0}
    /\ KeysExpire \in BOOLEAN
    /\ Crashes \in BOOLEAN

VARIABLES
    status,       \* trip.status
    called,       \* trip.calledDriverIds
    rejected,     \* trip.rejectedDriverIds
    searches,     \* how often a driver was searched for, bounded by MaxSearches
    stale,        \* history: trips whose current search began with a trace of
                  \* an earlier search of theirs around
    avail,        \* Redis: driver availability
    queue,        \* queue[d], Redis: trips d is still to be asked for
    processing,   \* processing[d], Redis: the trip d is being asked for
    kicks,        \* kicks[<<t, d>>]: setTimeout callbacks of requests of t
    jobs,         \* jobs[<<t, d>>]: request jobs in Bull; their ids are unique
    timers,       \* timers[<<t, d>>]: delayed timeout jobs in Bull, likewise
    approvals,    \* <<t, d>>: trip.approved events still to be handled
    shown         \* <<t, d>>: requests on the screens of the drivers' apps

tripVars  == <<status, called, rejected, searches, stale>>
queueVars == <<queue, processing, jobs, timers>>
vars == <<tripVars, avail, queueVars, kicks, approvals, shown>>

Pairs == Trips \X Drivers

DispatchStatuses == {"DRAFT", "WAITING_FOR_DRIVER", "DRIVER_NOT_FOUND", "APPROVED"}

TypeOK ==
    /\ status \in [Trips -> DispatchStatuses]
    /\ called \in [Trips -> SUBSET Drivers]
    /\ rejected \in [Trips -> SUBSET Drivers]
    /\ searches \in 0 .. MaxSearches
    /\ stale \in SUBSET Trips
    /\ avail \in [Drivers -> {"AVAILABLE", "BUSY", "ON_TRIP"}]
    /\ queue \in [Drivers -> SUBSET Trips]
    /\ processing \in [Drivers -> Trips \cup {NoTrip}]
    /\ \A b \in {kicks, jobs, timers} : b \in [Pairs -> Nat]
    /\ \A s \in {approvals, shown} : s \subseteq Pairs

Waiting(t) == status[t] = "WAITING_FOR_DRIVER"

(* Bags of pairs: what is in one, with S added, less one p, and less S.    *)
In(b) == {p \in Pairs : b[p] > 0}
Plus(b, S) == [p \in Pairs |-> IF p \in S THEN b[p] + 1 ELSE b[p]]
Less(b, p) == [b EXCEPT ![p] = @ - 1]
Purged(b, S) == [p \in Pairs |-> IF p \in S THEN 0 ELSE b[p]]
Nothing == [p \in Pairs |-> 0]

Init ==
    /\ status = [t \in Trips |-> "DRAFT"]
    /\ called = [t \in Trips |-> {}]
    /\ rejected = [t \in Trips |-> {}]
    /\ searches = 0
    /\ stale = {}
    /\ avail = [d \in Drivers |-> "BUSY"]
    /\ queue = [d \in Drivers |-> {}]
    /\ processing = [d \in Drivers |-> NoTrip]
    /\ kicks = Nothing
    /\ jobs = Nothing
    /\ timers = Nothing
    /\ approvals = {}
    /\ shown = {}

-----------------------------------------------------------------------------
(* The driver queues.                                                      *)

(* Every request has priority 2, and ZPOPMIN breaks ties by the member's   *)
(* text, which begins with the trip id: the oldest trip goes first.        *)
First(q) == CHOOSE t \in q : \A u \in q : t <= u

(* The queues q without trip t in those of drivers ds.                     *)
Without(q, t, ds) == [d \in Drivers |-> IF d \in ds THEN q[d] \ {t} ELSE q[d]]

(* The processing keys without those of drivers ds.                        *)
Cleared(ds) == [d \in Drivers |-> IF d \in ds THEN NoTrip ELSE processing[d]]

OfTrip(t) == {t} \X Drivers

(* The drivers of ds whom processNextDriverRequest begins to ask: nobody   *)
(* asks them now, and their queues are not empty.                          *)
Free(ds, q, p) == {d \in ds : p[d] = NoTrip /\ q[d] # {}}

(* Mutant: the timeout job is forgotten when the request job is added.     *)
ProcessNextUntimed(ds, q, p, js, ts) ==
    LET free == Free(ds, q, p)
    IN  /\ queue' = [d \in Drivers |-> IF d \in free THEN q[d] \ {First(q[d])} ELSE q[d]]
        /\ processing' = [d \in Drivers |-> IF d \in free THEN First(q[d]) ELSE p[d]]
        /\ jobs' = Plus(js, {<<First(q[d]), d>> : d \in free})
        /\ timers' = ts

(* processNextDriverRequest for each of ds, from queues q, processing keys *)
(* p, request jobs js and timeout jobs ts: the first trip leaves the queue *)
(* and gets a request job and its timeout job.                             *)
ProcessNext(ds, q, p, js, ts) ==
    LET free == Free(ds, q, p)
        asked == {<<First(q[d]), d>> : d \in free}
    IN  /\ queue' = [d \in Drivers |-> IF d \in free THEN q[d] \ {First(q[d])} ELSE q[d]]
        /\ processing' = [d \in Drivers |-> IF d \in free THEN First(q[d]) ELSE p[d]]
        /\ jobs' = Plus(js, asked)
        /\ timers' = Plus(ts, asked)

(* handleDriverTimeout, and handleDriverResponse of a driver who declines. *)
MoveOn(t, d, js, ts) == ProcessNext({d}, Without(queue, t, {d}), Cleared({d}), js, ts)

-----------------------------------------------------------------------------
(* Searching for a driver.                                                 *)

(* Nothing of an earlier search of t is queued, asked, due or on a screen. *)
Untraced(t) ==
    \A d \in Drivers :
        /\ t \notin queue[d] /\ processing[d] # t
        /\ <<t, d>> \notin In(jobs) \cup In(timers) \cup shown

(* requestDriver with ds the answer of searchDriver, and                   *)
(* addTripRequestSequential.                                               *)
RequestDriver(t, ds) ==
    /\ status[t] \in Requestable
    /\ searches < MaxSearches
    /\ ds # {} /\ \A d \in ds : avail[d] = "AVAILABLE"
    /\ status' = [status EXCEPT ![t] = "WAITING_FOR_DRIVER"]
    /\ called' = [called EXCEPT ![t] = ds]
    /\ rejected' = [rejected EXCEPT ![t] = {}]
    /\ searches' = searches + 1
    /\ stale' = IF Untraced(t) THEN stale \ {t} ELSE stale \cup {t}
    /\ queue' = [d \in Drivers |-> IF d \in ds THEN queue[d] \cup {t} ELSE queue[d]]
    /\ kicks' = Plus(kicks, {t} \X ds)
    /\ UNCHANGED <<avail, processing, jobs, timers, approvals, shown>>

(* The setTimeout callback of the request.                                 *)
Kick(t, d) ==
    /\ <<t, d>> \in In(kicks)
    /\ kicks' = Less(kicks, <<t, d>>)
    /\ ProcessNext({d}, queue, processing, jobs, timers)
    /\ UNCHANGED <<tripVars, avail, approvals, shown>>

(* Mutant: the request job trusts its data and asks.                       *)
RunJobUnchecked(t, d) ==
    /\ <<t, d>> \in In(jobs)
    /\ jobs' = Less(jobs, <<t, d>>)
    /\ shown' = shown \cup {<<t, d>>}
    /\ UNCHANGED <<tripVars, avail, queue, processing, timers, kicks, approvals>>

(* handleTripRequest: tell the driver, unless the trip does not wait any   *)
(* more or the driver is not available, when the next trip has its turn.   *)
RunJob(t, d) ==
    /\ <<t, d>> \in In(jobs)
    /\ IF Waiting(t) /\ avail[d] = "AVAILABLE"
       THEN /\ jobs' = Less(jobs, <<t, d>>)
            /\ shown' = IF processing[d] = t THEN shown \cup {<<t, d>>} ELSE shown
            /\ UNCHANGED <<queue, processing, timers>>
       ELSE /\ MoveOn(t, d, Less(jobs, <<t, d>>), timers)
            /\ UNCHANGED shown
    /\ UNCHANGED <<tripVars, avail, kicks, approvals>>

(* Mutant: the ids swapped; declineTrip(tripId, driverId) is followed by   *)
(* handleDriverResponse(driverId, tripId).                                 *)
RejectedBySwapped(t, d) == rejected[t] \cup {t}

(* The rejected list of t with driver d in it.                             *)
RejectedBy(t, d) == rejected[t] \cup {d}

(* The status of t when its rejected list becomes r: handleDriverRejection *)
(* compares the lists as sets ...                                          *)
StatusAfterDecline(t, r) ==
    IF called[t] # {} /\ called[t] \subseteq r THEN "DRIVER_NOT_FOUND" ELSE status[t]

(* Mutant: one rejection too early.                                        *)
StatusAfterTimeoutEarly(t, r) ==
    IF called[t] # {} /\ Cardinality(r) + 1 >= Cardinality(called[t])
    THEN "DRIVER_NOT_FOUND" ELSE status[t]

(* ... and areAllDriversRejected of the timeout processor their lengths.   *)
StatusAfterTimeout(t, r) ==
    IF called[t] # {} /\ Cardinality(r) = Cardinality(called[t])
    THEN "DRIVER_NOT_FOUND" ELSE status[t]

(* declineTrip.  The timeout job of t for d stays.                         *)
DeclineTrip(t, d) ==
    /\ <<t, d>> \in shown
    /\ Waiting(t)
    /\ LET r == RejectedBy(t, d)
       IN  /\ rejected' = [rejected EXCEPT ![t] = r]
           /\ status' = [status EXCEPT ![t] = StatusAfterDecline(t, r)]
    /\ shown' = shown \ {<<t, d>>}
    /\ MoveOn(t, d, jobs, timers)
    /\ UNCHANGED <<called, searches, stale, avail, kicks, approvals>>

(* handleTripTimeout of the timeout processor.                             *)
DriverTimesOut(t, d) ==
    /\ <<t, d>> \in In(timers)
    /\ IF Waiting(t) /\ d \notin rejected[t]
       THEN /\ LET r == RejectedBy(t, d)
               IN  /\ rejected' = [rejected EXCEPT ![t] = r]
                   /\ status' = [status EXCEPT ![t] = StatusAfterTimeout(t, r)]
            /\ shown' = shown \ {<<t, d>>}
            /\ MoveOn(t, d, jobs, Less(timers, <<t, d>>))
       ELSE /\ timers' = Less(timers, <<t, d>>)
            /\ UNCHANGED <<rejected, status, shown, queue, processing, jobs>>
    /\ UNCHANGED <<called, searches, stale, avail, kicks, approvals>>

(* cancelTripRequest and its cleanupTripFromQueues: jobs and timeout jobs  *)
(* of t go, and every driver called for t loses the processing key, even   *)
(* when it names another trip, and is served next.  With byKey the id is   *)
(* the string the customer's active-trip key holds; else the database has  *)
(* answered with an ObjectId, which matches no queued id, and t stays in   *)
(* the queues.                                                             *)
CancelTripRequest(t, byKey) ==
    /\ Waiting(t) \/ (byKey /\ status[t] = "DRIVER_NOT_FOUND")
    /\ status' = [status EXCEPT ![t] = "DRAFT"]
    /\ called' = [called EXCEPT ![t] = {}]
    /\ rejected' = [rejected EXCEPT ![t] = {}]
    /\ shown' = shown \ ({t} \X called[t])
    /\ ProcessNext(called[t], IF byKey THEN Without(queue, t, called[t]) ELSE queue,
                   Cleared(called[t]), Purged(jobs, OfTrip(t)), Purged(timers, OfTrip(t)))
    /\ UNCHANGED <<searches, stale, avail, kicks, approvals>>

-----------------------------------------------------------------------------
(* A driver accepts.                                                       *)

(* approveTrip: the driver is set up for the ride, the other drivers are   *)
(* told, and trip.approved is emitted.                                     *)
ApproveTrip(t, d) ==
    /\ d \in Accepting
    /\ <<t, d>> \in shown
    /\ CanTransition(status[t], "APPROVED")
    /\ status' = [status EXCEPT ![t] = "APPROVED"]
    /\ avail' = [avail EXCEPT ![d] = "ON_TRIP"]
    /\ processing' = Cleared({d})
    /\ approvals' = approvals \cup {<<t, d>>}
    /\ shown' = shown \ ({t} \X ((called[t] \ rejected[t]) \cup {d}))
    /\ UNCHANGED <<called, rejected, searches, stale, queue, jobs, timers, kicks>>

(* removeTripFromAllDriverQueuesWithAffectedDrivers.  The event's trip id  *)
(* is an ObjectId and the ids in the queues are strings: === finds the     *)
(* trip in no queue, nothing is removed, and, as then the code has it,     *)
(* every driver whose queue is not empty is affected.                      *)
Affected(q) == {d \in Drivers : q[d] # {}}

SmallerOf(m, n) == IF m < n THEN m ELSE n

(* Mutant: the accepting driver's queue is emptied and nobody is told.     *)
HandleTripApprovedSilently(t, d) ==
    /\ <<t, d>> \in approvals
    /\ approvals' = approvals \ {<<t, d>>}
    /\ LET q == [queue EXCEPT ![d] = {}]
           affected == Affected(q)
       IN  ProcessNext(affected, q, Cleared(affected \cup {d}),
                       Purged(jobs, OfTrip(t)), Purged(timers, OfTrip(t)))
    /\ UNCHANGED <<tripVars, avail, kicks, shown>>

(* handleTripApproved: d enters the rejected lists of the waiting trips in *)
(* d's queue, which is emptied; the jobs of t go; the affected drivers     *)
(* lose their processing keys, and MaxNext of them are served next.        *)
HandleTripApproved(t, d) ==
    /\ <<t, d>> \in approvals
    /\ approvals' = approvals \ {<<t, d>>}
    /\ rejected' = [u \in Trips |->
                       IF u \in queue[d] /\ Waiting(u) THEN rejected[u] \cup {d}
                       ELSE rejected[u]]
    /\ LET q == [queue EXCEPT ![d] = {}]
           affected == Affected(q)
       IN  \E next \in SUBSET affected :
             /\ Cardinality(next) = SmallerOf(Cardinality(affected), MaxNext)
             /\ ProcessNext(next, q, Cleared(affected \cup {d}),
                            Purged(jobs, OfTrip(t)), Purged(timers, OfTrip(t)))
    /\ UNCHANGED <<status, called, searches, stale, avail, kicks, shown>>

(* The ride is Trip's subject; here it only ends.                          *)
RideEnds(d) ==
    /\ avail[d] = "ON_TRIP"
    /\ avail' = [avail EXCEPT ![d] = "AVAILABLE"]
    /\ UNCHANGED <<tripVars, queueVars, kicks, approvals, shown>>

-----------------------------------------------------------------------------
(* The environment.                                                        *)

(* handleConnection: BUSY, whatever the driver was doing (one who is BUSY  *)
(* already stays so: a stutter).                                           *)
DriverConnects(d) ==
    /\ avail[d] # "BUSY"
    /\ avail' = [avail EXCEPT ![d] = "BUSY"]
    /\ UNCHANGED <<tripVars, queueVars, kicks, approvals, shown>>

(* handleDriverAvailabilityUpdate.                                         *)
UpdateAvailability(d, to) ==
    /\ avail[d] \notin {"ON_TRIP", to}
    /\ avail' = [avail EXCEPT ![d] = to]
    /\ UNCHANGED <<tripVars, queueVars, kicks, approvals, shown>>

(* A processing key lives for as long as a timeout job is delayed, and was *)
(* set just before it.                                                     *)
ProcessingExpires(d) ==
    /\ KeysExpire
    /\ processing[d] # NoTrip
    /\ processing' = Cleared({d})
    /\ UNCHANGED <<tripVars, avail, queue, jobs, timers, kicks, approvals, shown>>

(* Redis, MongoDB and the Bull jobs survive the server; its timers and     *)
(* events do not.                                                          *)
Crash ==
    /\ Crashes
    /\ In(kicks) \cup approvals # {}
    /\ kicks' = Nothing
    /\ approvals' = {}
    /\ UNCHANGED <<tripVars, avail, queueVars, shown>>

(* What the server does on its own.                                        *)
Background ==
    \E t \in Trips, d \in Drivers :
        \/ Kick(t, d)
        \/ RunJob(t, d)
        \/ DriverTimesOut(t, d)
        \/ HandleTripApproved(t, d)

Next ==
    \/ Background
    \/ \E t \in Trips, ds \in SUBSET Drivers : RequestDriver(t, ds)
    \/ \E t \in Trips, byKey \in BOOLEAN : CancelTripRequest(t, byKey)
    \/ \E t \in Trips, d \in Drivers : DeclineTrip(t, d) \/ ApproveTrip(t, d)
    \/ \E d \in Drivers :
         \/ \E to \in {"AVAILABLE", "BUSY"} : UpdateAvailability(d, to)
         \/ DriverConnects(d)
         \/ RideEnds(d)
         \/ ProcessingExpires(d)
    \/ Crash

Spec == Init /\ [][Next]_vars

(***************************************************************************)
(* Timers fire, Bull runs every job that is due and events are handled: as *)
(* long as something is due, something is done (which job first is left    *)
(* open).  Nothing obliges a customer or a driver to do anything.          *)
(***************************************************************************)
Fairness == WF_vars(Background)

FairSpec == Spec /\ Fairness

-----------------------------------------------------------------------------
(* Properties.                                                             *)

(***************************************************************************)
(* A customer may ask again for a trip that got no driver, or that was     *)
(* cancelled.  While timeout jobs, queue entries or screens of the earlier *)
(* search are still around, the code takes them for those of the new one,  *)
(* and the next three promises are off for that search (`stale`); they     *)
(* are back with the next search that begins without such traces.          *)
(***************************************************************************)

(* No called driver is forgotten: as long as a trip waits, every driver it *)
(* called and who did not answer is still to be asked, or a timeout job    *)
(* will answer for him.  This is what lets a search end; it must survive   *)
(* declines, cancellations, acceptances of other trips and crashes.        *)
CalledIsCovered ==
    \A t \in Trips \ stale, d \in Drivers :
        Waiting(t) /\ d \in called[t] \ rejected[t]
            => t \in queue[d] \/ <<t, d>> \in In(timers)

(* A search fails only when every driver called has declined or let the    *)
(* request time out.                                                       *)
NotFoundIsJustified ==
    \A t \in Trips \ stale :
        status[t] = "DRIVER_NOT_FOUND" => called[t] \subseteq rejected[t]

(* What a driver sees can be accepted: the trip still waits, and waits for *)
(* this driver.                                                            *)
ScreenIsCurrent ==
    \A t \in Trips \ stale, d \in Drivers :
        <<t, d>> \in shown => Waiting(t) /\ d \in called[t] \ rejected[t]

(* Every search that began without traces of an earlier one ends: with a   *)
(* driver, without one, or by the customer.                                *)
SearchEnds == \A t \in Trips : Waiting(t) /\ t \notin stale ~> ~ Waiting(t)

(* When all drivers called have rejected the trip it does not wait on.     *)
AllRejectedEndsSearch ==
    \A t \in Trips : Waiting(t) => ~ (called[t] \subseteq rejected[t])
=============================================================================
