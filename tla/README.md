# 1driver main API: a TLA+ model

The repository is the backend of a ride service (NestJS, MongoDB, Redis, Bull
queues, Stripe): a customer asks for a driver, drivers nearby are asked one
after the other, one accepts and drives, the customer pays.  This directory
models what depends on the order of things: the life of a trip, the queues that
bring a request to drivers, the lock both rely on, fares and campaigns, sessions
and sockets, the presence of drivers, and the smaller protocols of cards, files,
weekly earnings, ratings, cancellation fees, administrators and events.  Source
paths below are relative to `src/src/`.

- [The system](#the-system): components, state, operations, interaction
- [What is hard here](#what-is-hard-here)
- [Modules](#modules): what models what
- [Runs](#runs): what is checked, on which bounds, and what it shows
- [Where the code and its documents disagree](#where-the-code-and-its-documents-disagree)
- [Proofs](#proofs)
- [What is left out](#what-is-left-out)
- [Plan](#plan)

## The system

One Node.js process per server; handlers of HTTP requests, WebSocket events, Bull
jobs, `setTimeout` callbacks, in-process events and Stripe webhooks interleave at
every `await`.  What survives a restart is in MongoDB (trips, payments, earnings),
Redis (keys, queues, Bull jobs) and Stripe.

| Component | Code | State it keeps | Operations | Correct when |
|---|---|---|---|---|
| Lock | `lock/lock.service.ts` | Redis `lock:<key>`, with a ttl | `acquireLock` (SET NX PX, retries), `releaseLock` (DEL), `executeWithLock` | one operation per key at a time; a dead holder's lock comes back |
| Trip | `modules/trip/services/trip.service.ts`, `trip-status.service.ts`, `repositories/`, `schemas/` | the trip document: status, driver, called and rejected drivers, fares | estimate, requestDriver, declineTrip, approveTrip, startPickup, arrivePickup, startTrip, arrivedStop, three cancellations, retry | a customer has one trip going, a driver one ride; an accepted trip keeps its driver; nothing is completed unpaid |
| Active trip | `redis/services/active-trip.service.ts` | Redis: user -> trip, with a ttl | set, get, refresh, remove | the key never leads a handler to the wrong trip |
| Dispatch | `queue/services/trip-queue.service.ts`, `queue/processors/*`, `redis/services/driver-trip-queue.service.ts`, `events/handlers/trip-approval.handler.ts` | Redis: one queue and one processing key per driver; Bull: request jobs and delayed timeout jobs; in memory: `setTimeout` callbacks and the `trip.approved` event | add, pop, process next, decline, time out, clean up | no called driver is forgotten, a search ends, a driver sees what can be accepted |
| Driver status | `redis/services/driver-status.service.ts`, `websocket/websocket.gateway.ts` | Redis: AVAILABLE, BUSY, ON_TRIP, connection and app state | connect, disconnect, availability update, setup and cleanup of a ride | a driver on a ride is not offered to others |
| Payment | `modules/trip/services/trip-payment.service.ts`, `modules/payments/services/*` | payment records; Stripe: payment intents, webhook events | processTripPayment, success / failure / cancellation webhooks, retry, penalty | paid once, and only for rides that ended |
| Fare | `trip-payment.service.ts`, `modules/campaigns`, part of `trip.service.ts` | fare, applied campaign, usage record, payment records, summary | apply, replace, remove a campaign; pay; webhooks | the fare is the full cost less one discount; what is settled is earned |
| Earnings | `modules/drivers/services/driver-earnings.service.ts` | weekly records | add a ride, Monday job | each ride is in one week |
| Payment methods | `modules/payments/services/payment-method.service.ts` | cards of a customer, one default; Stripe's attachments | setup intent, save, set default, delete | exactly one default among active cards, and it can be charged |
| Sessions | `redis/services/token-manager.service.ts`, `jwt/`, `modules/auth`, `events/auth-events*` | Redis: one session per user and type, with a ttl; one-time codes | sign up, sign in (replace), validate, touch, log out, force log-out | a replaced session is dead on the sockets too |
| WebSocket | `websocket/*`, `redis/services/websocket-redis.service.ts` | the recorded socket of each user | register, replace, disconnect | the socket that hears events is the recorded one |
| Presence | `redis/services/driver-status.service.ts`, `location.service.ts`, `nearby-search.service.ts` | app state, availability, its copy in the location record, geo index, each with a ttl | connect, disconnect, updates over socket and HTTP, rides | who is away is not offered trips, and is told by push |
| Events, notifications | `modules/event`, `modules/expo-notifications`, `modules/notifications` | stored notifications; socket or push, by app state | sendToUser, sendToUsers, sendNotification, mark as read | delivered once, by one of the two ways |
| Files | `s3/`, `drivers.controller.ts`, `customers.controller.ts`, `support-tickets`, `admin-campaigns` | bucket, and the records that name keys | upload, replace, delete | a recorded file is in the bucket |
| Ratings | part of `trip.service.ts`, users clients | trip ratings, comments; averages elsewhere | rate, comment | what the users service has is what the trip shows |
| Administrators | `modules/admin` | accounts, reset codes | create, delete, send code, reset | one account per e-mail, a code works once |
| The rest | content, app versions, maps, logging, configuration, health, statistics | documents, calls to services | read, pass on | no protocol of their own |

How they interact:

- **request**: `requestDriver` (under the lock `trip:<id>`) looks up the active trip,
  asks the nearby search for AVAILABLE drivers, writes the trip and the customer's
  active-trip key and adds the trip to each driver's queue; 100 ms later
  `processNextDriverRequest` pops the oldest trip of a driver who is not being asked,
  sets the processing key, and adds a request job and a delayed timeout job;
- **ask**: the request job looks at the trip and the driver again and tells the
  driver's app; otherwise it clears the key and serves the driver's next trip;
- **answer**: the driver declines or accepts (HTTP), or the timeout job answers;
- **accept**: `approveTrip` writes the trip, the driver's key and availability, tells
  the other drivers and emits `trip.approved`, whose handler cleans up the queues in
  the background;
- **drive and pay**: the driver's handlers move the trip the driver's *key* names;
  `arrivedStop` frees the driver and asks for the fare; Stripe's webhooks complete
  the trip or put it in PAYMENT_RETRY.

Ids.  Lean documents carry `_id` as an ObjectId, the queues and keys carry strings,
and several comparisons use `===`.  The model follows the values, not the names:
`handleTripApproval` emits an ObjectId, so the clean-up of the queues finds nothing
(`driver-trip-queue.service.ts:160`), and so does `cancelTripRequest` when the id
came from the database because the key had expired; `requestDriver` with a trip id
refuses the customer's own active trip.

## What is hard here

- One user's state is in four places (trip document, two active-trip keys,
  availability, queues) written one after the other, without a transaction.
- The active-trip keys expire on their own, and the handlers of a driver trust them
  without comparing `trip.driver.id`.
- Requests, timeouts and acceptances of several trips meet in one driver's queue;
  cleaning up one trip touches the processing keys of drivers being asked for another.
- The lists of called and rejected drivers are updated by read-modify-write in three
  places, with two different tests for "all rejected" (sets, lengths).
- Stripe's events arrive late, again, or in another order, and their handlers do not
  look at the trip's status.
- Sessions, sockets, app state and availability of one user are five Redis keys, each
  read, then written, by handlers of sockets that replace each other.
- Most documents are changed in two or three calls (unset and set the default card;
  find or create the week; delete and store a file; write and tell a rating), none of
  them in a transaction, some under a lock, different ones for operations that meet.
- `arrivedStop` writes a status without a transition check; `approveTrip` accepts a
  trip that is already approved.
- The server may die with callbacks and events in memory.

## Modules

**`Mutex`** is the promise of the lock: per key, at most one operation inside.
**`Lock`** is `LockService`, with one step for each Redis command: `Call`, `Acquire`
(SET NX succeeds), `Miss` (it does not; wait and retry, or give up), `Release` (DEL in
`finally`, whoever owns the lock), `Expire` (the ttl), and `Crash` of the server that
waits for an operation.  `OutliveLease` says whether an operation may still run when
its ttl ends.

**`TripStatus`** has the statuses, the transition table with its quirk (same status is
allowed) and the sets of statuses that guards and database queries use.

**`Trip`** has the life of trips.  One step is one handler: what the services promise
when requests do not overlap.  (Locks give part of that, see Plan.)

| State | Code |
|---|---|
| `status`, `driver`, `called`, `rejected` | the trip document |
| `activeC`, `activeD` | active-trip keys; `CustomerKeyExpires`, `DriverKeyExpires` take them away |
| `avail` | availability; a missing key reads as BUSY |
| `queue`, `timers` | driver queues as sets, timeout jobs (Dispatch has their order and the processing keys) |
| `shown` | requests on the screens of the drivers' apps: what the app can accept or decline |
| `open`, `hooks` | intents Stripe has not settled, and events it may deliver any number of times, in any order |
| `paid`, `penalty` | history: Stripe took the fare; the late-cancellation fee is due or paid |

Every look-up writes what `getUserActiveTrip` writes (a key that names a finished trip is
deleted, a database answer is cached).  The unique partial indexes of the trip schema
are guards of the writes they can refuse (`IndexAllows`).  Two constants name
assumptions about time:

- `LateTaps` - may a driver accept after TRIP_ALREADY_TAKEN was sent but before the app
  shows it?
- `Leftovers` - may timeout jobs and queue entries of a search outlive it until the same
  trip is requested again?  (A decline leaves its timeout job for up to 20 seconds; an
  acceptance leaves the trip in other drivers' queues.)

With both FALSE the strong properties hold; with both TRUE a smaller set does.

**`Dispatch`** has the queues in full, with one step for each thing that runs on its own:
a request (`RequestDriver`), its `setTimeout` callbacks (`Kick`), request jobs
(`RunJob`), timeout jobs (`DriverTimesOut`), declines, cancellations, acceptances, the
background handler of `trip.approved` (`HandleTripApproved`), expiry of a processing
key, and `Crash`, which loses callbacks and events but nothing in Redis.
`ProcessNext` is `processNextDriverRequest` for several drivers at once, from given
queues and keys, because every handler ends with it.  A ride is one step (`RideEnds`):
Trip has it in detail.

**`Asking`** is the same code as `Dispatch` for one driver, one Redis command at a time:
several callers (`Kick`, `RunJob`, `DriverTimesOut`, `DeclineTrip`, `CancelTripRequest`,
`HandleTripApproved`) look at the processing key, pop the queue, set the key, add the
request job and the timeout job, and each call may throw (`Fail`) or die (`Crash`).
`work[c]` is what a caller holds in its variables; `orphans` are the trips a failed call
was handling.  `order` is history: "kept"; "stolen" once the end of one trip has deleted the
key while the driver was asked for another; "lost" once two callers overlapped, something
failed, or another driver's approval left this one a key nobody comes back to.

**`Recall`** extends `Asking` by the last request: written by the pop, deleted by a
decline, a timeout and an acceptance, read by `GET last-request`.

**`Fare`** is one trip from PAYMENT on, one write per step.

| State | Code |
|---|---|
| `finalCost`, `originalFinalCost`, `applied`, `status` | the trip document |
| `usage` | the CampaignUsage record (unique per trip) |
| `work` | the campaign handler under `trip:<id>`, with what it has in memory: `trip.finalCost` is reset there before the new campaign is looked at |
| `request`, `record`, `stripe`, `hook` | per intent: `processTripPayment`, its payment record, Stripe's status, the webhook between its four writes (record, earnings, trip, summary) |
| `earned`, `summary`, `retry` | weekly earnings, TripCostSummary, the retry endpoint between charge and write |

**`Session`** is one user, customer or driver: codes (`SendsCode`, `SendOTPSMS`), sign-up and
sign-in of the four controllers' endpoints, `LogOut` through `LogoutGuard`, the guards
(`Request`, `Message`, `RefuseMessage`), `updateLastSeen` split at its read and its write
(`Touch`), `handleConnection` split at the record's read and write (`ReadRecord`,
`Register`, `ReplaceOld`, `Join`), `handleSocketDisconnect` (`LookAtClosed`,
`RemoveRecord`) and `forceLogoutUser` (`ForceLogout`, `DisconnectForced`).

**`Presence`** is one driver: app state, availability key, location record with its copy of
the availability, geo index, each with its ttl.  `updateDriverAvailability` is `WriteKey`,
then `WriteCopy`; `Found` is what `findNearbyAvailableDrivers` makes of the keys.

**`Cards`**, **`Files`**, **`Earnings`**, **`Ratings`**, **`Cancel`**, **`Delivery`**, **`Admins`** are small
protocols, each with one step per call of a repository, of Stripe, of S3 or of another
service: a request is a record in `work` with the step it is at and what it has read,
and `Fail` ends it where it is.

| Module | Actions | Code |
|---|---|---|
| `Cards` | setup intents, two ways to save, set default, delete | `payment-method.service.ts`, `createStripeCustomer` |
| `Files` | documents, photos, ticket attachments, campaign images | the upload and delete endpoints, `s3.service.ts` |
| `Earnings` | find, create, add; close, open | `driver-earnings.service.ts` |
| `Ratings` | rate and comment, by either side | `rateTrip`, `rateDriverTrip`, comments, `PATCH /:id/rate` |
| `Cancel` | driver's and customer's cancellation, retry of the fee | three handlers with three locks, `DriverPenaltyService` |
| `Delivery` | categorize, emit, push, save, mark as read | `Event2Service`, `NotificationsService`, `ExpoNotificationsService` |
| `Admins` | create, delete, send code, reset | `AdminManagementService`, `AdminAuthService` |

**`MCTrip`, `MCDispatch`, `MCFare`** add what TLC needs: model values, owners, symmetry.
**`MCConnections`** runs either `Session` or `Presence` in a behaviour, **`MCAccounts`** one
of the seven small modules or `Asking`: they share no state, so that a behaviour of one is
not multiplied by those of the others.

| Theorems | about |
|---|---|
| `LockProofs` | `Lock`, and that it implements `Mutex` |
| `TripProofs`, `TripExclusiveProofs` | `Trip` |
| `DispatchProofs` | `Dispatch` |
| `FareProofs` | `Fare` |
| `ConnectionsProofs` | `Session` and `Presence`, as `MCConnections` composes them |
| `AskingProofs` | `Asking`, as `MCAccounts` composes it with the others |
| `AccountsProofs` | the seven small modules, as `MCAccounts` composes them |

Some modules carry a history variable that says when a promise is off: `order`,
`disturbed`, `overlapped`, `torn`, `orphans`, `unsteady`, `lost`.  It is set where requests
overlap and where a call fails (in `Asking` also by the sequences that take a driver's
turn, see below); what a property promises beyond that it promises whatever happened.
`Overtaken` (in `Session` and `Presence`) is the same as a constant: may a record change
between a handler's read and the write that relies on it?

## Runs

| Run | Specification and bounds | Shows |
|---|---|---|
| `Lock` | `Lock!FairSpec`; 3 requests, 2 keys, 2 retries, leases outlive only dead requests (21 thousand states) | `MutualExclusion`; `ImplementsMutex` (every step is a step of `Mutex` or a stutter); `LockComesBack`: a lock held is given back, by `finally` or by its ttl |
| `MCTrip` | `Trip!Spec`; 2 trips of one customer, 2 drivers, 2 open intents; `LateTaps`, `Leftovers` FALSE (314 thousand states up to symmetry) | the properties of the next table but the two below |
| `MCTripTwo` | 2 trips of two customers, 2 drivers, 1 open intent; both FALSE (472 thousand up to symmetry) | two rides compete for the same drivers: `AcceptedOnce` |
| `MCTripLate` | 1 trip, 2 drivers, both TRUE (17 thousand) | `AcceptedIsNotUndone`, whatever the timing |
| `MCTripLateTap` | 1 trip, `LateTaps` | `AcceptedOnce` fails |
| `MCDispatch` | `Dispatch` with 2 trips, 2 drivers, 1 search per trip, expiring keys and crashes (649 thousand up to symmetry) | `CalledIsCovered`, `NotFoundIsJustified`, `ScreenIsCurrent` |
| `MCDispatchEnds` | `Dispatch!FairSpec`; without acceptances, expiries and crashes (251 thousand) | `SearchEnds` |
| `MCDispatchStuck` | 1 search per trip | `AllRejectedEndsSearch` fails |
| `MCRecall` | `Recall!RecallSpec`; 2 trips, 2 callers | `AskedIsRecalled` fails |
| `MCConnections` | `Session` with 2 devices, 2 tokens, 2 sockets, or `Presence` with 2 sockets, with fairness; `Overtaken` FALSE (305 thousand) | `SocketsAreTracked`, `EndedIsDisconnected`; `AwayIsNotFound`, `AwayIsPushed`, `GhostsVanish` |
| `MCFare` | `Fare!FairSpec`; 2 campaigns (40 percent; more than the fare), 2 intents, one crash, an event again (529 thousand) | `FareIsRight`, `UsageIsApplied`, `SettledIsEarned`, `SuccessCompletes` |
| `MCAccounts` | 2 cards, 3 files, 3 rides and 2 Mondays, 2 ratings, 3 charges, 3 accounts of one e-mail and 2 codes, 2 users; 2 requests each; `Asking` with 2 trips, 2 callers (1.2 million up to symmetry) | one property for each of the seven modules; `NobodyIsForgotten`, `OneAtATime` |

Properties of `Trip`:

| Property | Why it might fail |
|---|---|
| `RideHasDriver` | payment and cancellation dereference `trip.driver.id`; the driver's moves act on whatever trip the key names |
| `CompletedIsPaid` | completion comes from a webhook or from the retry endpoint, after failures |
| `PenaltySettled` | the driver is freed, the fee fails, the customer retries |
| `OneRidePerCustomer` | the active-trip key expires or is deleted by the events of an older trip, and the indexes only refuse two *equal* statuses |
| `DriverKeySound` | the key outlives cancellations, late events, reconnects |
| `SearchSound` | declines, timeouts, cancellations and acceptances each clean up part of the search |
| `OnlyFaresCharged` | the look-up before a payment may answer with another trip |
| `AcceptedOnce` | `approveTrip` does not compare `trip.driver`, and APPROVED may follow APPROVED: only the screens protect the first driver |
| `AcceptedIsNotUndone`, `StatusIsOrderly` | four handlers write a status without looking at the old one |

Properties of the other modules:

| Property | Why it might fail |
|---|---|
| `NobodyIsForgotten` | a pop takes the trip out of the queue before the key, the job and the timeout job exist; clean-ups of other trips clear keys and remove jobs; callers overlap and fail |
| `OneAtATime` | looking at the key, popping and setting it are three commands; an old request job may still run; the key is deleted without a look at whose it is |
| `FareIsRight` | replacing a campaign starts from a fare that is already lowered; the floor at 0 |
| `UsageIsApplied` | usage record and trip are written separately, and a new campaign may be refused in between |
| `SettledIsEarned`, `SuccessCompletes` | the webhook makes four writes, the server dies, Stripe delivers again, the record is PAID already, another intent fails |
| `SocketsAreTracked` | two sockets register at once, the earlier one's disconnect comes after; forced log-out only finds the recorded one |
| `EndedIsDisconnected` | the log-out event meets sockets that are still connecting, and a record that is not there yet |
| `AwayIsNotFound`, `AwayIsPushed` | the old socket's clean-up and the new one's marks; the location record has a second copy of the availability |
| `GhostsVanish` | a crash leaves no clean-up at all; five keys, each with its own ttl |
| `DefaultIsChargeable` | unset and set in two steps, deletion of the default picks another, detach and hide are two calls |
| `RecordedIsStored` | the old file is deleted by a key that was read earlier; two replacements overlap |
| `WeeksAreSound` | the Monday job between find and add; `findOne` of several active records |
| `ToldIsRated` | write and tell are two calls, serialised only by the lock of the trip |
| `CancelIsSettled` | three locks for one trip; the key is removed without looking whose ride it names |
| `AccountsAreSound` | find-then-create (the index saves it), find-then-use of a code |
| `ToldOnce` | presence changes between looking and sending; one failing call among many |

Bounds.  Two trips of one customer meet in the customer's key, in the unique indexes and
in the look-ups (`MCTrip`), but only one of them is under way at a time; two trips of
two customers are under way together and meet in the drivers' queues, screens, keys and
availability (`MCTripTwo`).  Two drivers are a winner and a loser, or the last one to answer and
another.  Two open intents make a success and a failure of one trip race.  In
`Dispatch` two trips in two queues give each driver a next trip; the number of drivers
served after an acceptance (`MaxNext`, 3 in the code) is not reached with two drivers:
the drivers left over keep their queues and wait for another event, which
`CalledIsCovered` allows and `SearchEnds` does not reach.  `MaxSearches` bounds repeated
searches; with two, `NotFoundIsJustified` and `CalledIsCovered` fail, since jobs of the
first search answer the second one.  In `Asking` two trips and two callers make every
pair of steps of `processNextDriverRequest` meet.  A third trip adds one thing: the end of
one deletes the key while the driver is asked for a second, and the third is asked for
as well (`order` is "stolen", and `OneAtATime` is off); the proof covers any number of
trips and callers.  `MayFail` lets calls fail and the server die until a trip has been lost to it,
and not again.  Two sockets are an old and a new one, two tokens an old and a new session, on
one device or on two.  In `Fare` two intents are a double charge, or a failure after a
success; one crash may fall between any two writes, and `MaxEarned` lets an event come
again (the proofs have no such bounds).  In the small modules two requests overlap in
every order; a third value (a file, a ride, a charge) makes one be replaced twice, or be
added after the week was closed.  Administrators of different e-mails share nothing: one
e-mail is enough, whose accounts come one after the other.

Fairness.  `Lock`: Redis answers a request that tries, an operation that runs ends (and
`finally` runs), and the ttl of a lock whose holder died passes; nobody is obliged to
call.  `Dispatch`: weak fairness of `Background` as a whole,
that is, as long as a callback, a job, a timeout job or an event is due, one of them
happens.  Node's timers and Bull give more (each of them happens); nothing is assumed
of customers or drivers.  `MCDispatchEnds` excludes acceptances because a search need not
end then (`MCDispatchStuck`), and crashes because a lost callback leaves a driver
unasked until something else serves that driver's queue.

`Session`: handlers of sockets that have begun go on, and a log-out event that was emitted
is handled; nobody is obliged to connect, to send or to drop.  `Presence`: handlers go
on, the pings of an app that is gone stop, and keys expire unless they are written again.
`Fare`: the handler of an event goes on, and Stripe delivers an event until it is
answered (weak fairness of `HookStep` for each intent): after a crash it is due again.

Deadlock is checked in the runs of `Lock`, `Trip` and `Dispatch`.  In `MCConnections`,
`MCFare`, `MCAccounts` and `MCRecall` the system runs out of sockets, tokens, intents or
keys, which are used once each, and rests.

A limit of the lock.  `OutliveLease` is FALSE in `Lock.cfg`: no operation outlives its ttl
(30 to 60 seconds; operations await Stripe and Google Maps).  Nothing in the code
enforces that.  With TRUE, `MutualExclusion` fails within six steps: the ttl ends, a second
request acquires the lock, and the first one's `finally` deletes it
(`lock/lock.service.ts:56`: DEL without an owner), which lets in a third.

## Where the code and its documents disagree

Shown by a run that TLC refutes:

1. *A trip can be accepted twice* (`MCTripLateTap`).  APPROVED -> APPROVED passes
   `canTransition`; `approveTrip` compares no driver.  The first driver keeps a key to a
   ride that is another's.
2. *A search that all rejected waits on* (`MCDispatchStuck`).  The approval handler enters
   the driver in rejected lists without the test for DRIVER_NOT_FOUND; when it was the
   last one, nothing ends the search.
3. *The last request is deleted for the next trip* (`MCRecall`).  A decline serves the next
   trip first, whose pop "saves the popped trip as last request for recovery"
   (`driver-trip-queue.service.ts:106`); then `driver-trip.controller.ts:111` deletes the last
   request.  The timeout job does the same (`trip-timeout.processor.ts:103`).

What the models do because the code does it, where a property says less than one would
expect:

- *Trips.*  A reconnect writes BUSY over ON_TRIP (`websocket.gateway.ts:202`), and the driver
  may then switch to AVAILABLE.  A late failure event reopens a completed trip and
  frees its driver once more, who may be on another ride by then.
- *Dispatch.*  Cleaning up one trip clears the processing keys of drivers who are being
  asked for another, so that he is asked for a third: two requests may be on one screen
  of the "Sequential Driver Queue System" (`customer-api.md:265`).  An
  accepted trip stays in the queues (string against ObjectId), and every driver with any
  queued trip counts as affected.  One without a queue keeps the key, with the timeout job
  gone, and is asked nothing until the key's ttl is over.  Two callers that overlap pop two
  trips, and the first one is timed out unseen.
- *Fares.*  A refused replacement leaves the old discount on the trip without its usage
  record until the next write.  A campaign may be applied while an intent is open: the
  fare charged is then not the trip's.  Two intents of one fare may both succeed.  A
  repeated event adds the ride to the earnings again; a fare paid by the retry endpoint is
  never added and has no summary.  A fare lowered to 0 can never be paid
  (`validateTripForPayment`).  `processing` events overwrite PAID.
- *Earnings.*  `if ((finalCost = 5))` (`driver-earnings.service.ts:141`) assigns: every ride earns
  2.5.  Weeks begin on Monday at 00:00, and the job closes them at 09:00.  Nothing makes
  the active record unique: overlapping additions make two.
- *Sessions.*  `updateLastSeen` may write an ended session back over a new one, and its SET
  drops the ttl, so that a session in use never expires.  Logging out deletes the current
  session, also from a device whose own was replaced.
- *Presence.*  The clean-up of a replaced socket wipes the new one's marks.  A ride of more
  than 30 minutes outlives ON_TRIP.  A ride that ends without a connection, or a location
  posted with AVAILABLE, makes an absent driver available.
- *Cards.*  Overlapping requests leave two defaults or none, or a default that is inactive; a
  deletion that stops after the detach leaves an active card that cannot be charged; a
  deleted card is not saved again but returned inactive.
- *Files.*  A document is deleted before its successor is stored.  Replaced photos, and the
  files of tickets and deleted campaigns, stay in the bucket.  A campaign may name an
  image that is gone when its update fails.
- *Cancellations.*  The customer's own charge and a retry may both take the fee, and so does
  a retry after a failed write.  CANCELLED and CANCELLED_PAYMENT overwrite each other.  A
  lagging cancellation removes the key of the driver's next ride.
- *Ratings, events, administrators.*  `PATCH /:id/rate` counts a rating of no trip.  One failing
  look-up loses the push of all users of a call, and pushes to several drivers pass
  records where tokens are expected.  One code can reset a password twice at once.

## Proofs

TLAPS proves, for every number of trips, customers, drivers, requests, campaigns, intents,
retries and crashes:

- **`LockProofs`**: `LockTypeCorrect`, `LockMutualExclusion`, `LockImplementsMutex`, assuming
  that no operation outlives its ttl (`~OutliveLease`) for the last two.  The invariant
  says that who is inside owns the key in Redis.
- **`TripProofs`**: `TripTypeCorrect`, `RideHasDriverAlways`, `CompletedIsPaidAlways`,
  `PenaltySettledAlways`, `AcceptedIsNotUndoneEver`, for any `LateTaps` and `Leftovers`.
  Each property is strengthened by the fact about money or drivers that makes it
  inductive: an intent or event belongs to a trip with a driver (`FareHasDriver`), a
  "succeeded" event means the fare was taken (`SucceededIsPaid`), a fee that is due means
  the trip is in CANCELLED_PAYMENT (`FeeIsPending`).
- **`TripExclusiveProofs`**: `OneRidePerCustomerAlways`, `DriverKeySoundAlways`,
  `SearchSoundAlways`, `OnlyFaresChargedAlways`, `StatusIsOrderlyAlways`, `AcceptedOnceAlways`, assuming
  `~LateTaps` and `~Leftovers`.  They need each other, so they are proved from one inductive
  invariant, `Orderly`:

  | Conjunct | Needed because |
  |---|---|
  | `SearchSound` | who accepts was shown a waiting trip: `approveTrip` does not overwrite a ride |
  | `DriverlessSearch` | a waiting trip has no driver left over, so no other driver's key can be made to name it |
  | `DriverKeySound` | the driver's handlers move a trip by key alone |
  | `OnlyFaresCharged` | webhook handlers write a status unseen: only PAYMENT and after may be affected |
  | `CustomerKeySound` | searching again without an id trusts the key: it must not name an old DRIVER_NOT_FOUND trip while another ride is going |
  | `OneRidePerCustomer` | keeps `CustomerKeySound`, and is kept by it when the key is gone and the database answers |

  `MCTrip` checks the conjuncts that are properties of their own on its bounds.
- **`FareProofs`**: `FareTypeCorrect`, `FareIsRightAlways`, `UsageIsAppliedAlways`,
  `SettledIsEarnedAlways`, for any campaigns and any fare, from the invariant `Inv`:

  | Conjunct | Needed because |
  |---|---|
  | `WorkHasCampaign` | what a handler is going to write is a campaign and its discount |
  | `CostIsKept` | the full cost can always be had back: from `finalCost` without a campaign, from `originalFinalCost` with one, and from what a handler carries; without it a replacement would start from a lowered fare |
  | `UsageIsKept` | between the write of the trip and that of the usage record they differ, by exactly the campaign in hand; only a crash leaves it so |
  | `EarnedIsKept` | an event past `AddEarnings` means the ride is earned, so that the summary, which comes last, does too |

- **`DispatchProofs`**: `DispatchTypeCorrect`; `FirstSearchSound`, which says of every trip that
  was searched for once what `CalledIsCovered`, `NotFoundIsJustified` and `ScreenIsCurrent`
  say of all, however often *other* trips are searched for, whatever keys expire and
  whenever servers crash; and the three themselves (`CalledIsCoveredAlways`,
  `NotFoundIsJustifiedAlways`, `ScreenIsCurrentAlways`) for `MaxSearches = 1`, where every trip is
  such a trip.  With two searches of one trip they are false (see Bounds).  The invariant
  is one of each trip, `TripInv(t)`:

  | Conjunct | Needed because |
  |---|---|
  | `Tracked` | a queue, a key, a job and a screen that name the trip fit each other: a queued trip has no job and no screen yet, so that a pop starts afresh; a request job of a waiting trip has its timeout job, or an answer, so that a job that gives up forgets nobody |
  | `Justified`, `Approved`, `Current` | only called drivers reject; the handler of an acceptance removes the jobs of a trip that no longer waits; what is seen waits |
  | `Fresh`, `Traceless` | before the first search nothing anywhere names the trip |

  `ProcessNext` serves several drivers in one step; the lemma `ServingAsks` says once what it
  does to the queues and keys, `ServingRestores` that an action which ends with it keeps the
  invariant, whatever it starts the serving from.
- **`ConnectionsProofs`**: `ConnectionsTypeCorrect` without assumptions; `SocketsAreTrackedAlways`,
  `AwayIsNotFoundAlways`, `AwayIsPushedAlways` for `Overtaken = FALSE`, any devices, tokens and
  sockets.  With it TRUE a socket that registers between another's read and write escapes
  the record, and a clean-up that comes late wipes the marks of the next connection; the
  code has no lock there.

  | Conjunct | Needed because |
  |---|---|
  | `ReaderIsAlone` | what a connecting socket read is still the record when it replaces it |
  | `ClosedIsClosed` | the clean-up of a closed socket deletes its own record only |
  | `LogOutIsAlone` | the socket a forced log-out has read is still the recorded one |
  | `StagesFit`, `OneWrites` | a connecting socket is open, and an open one is cleaned up after only when it is forced out; between the two writes of an update the key is what it wrote, or has expired |
  | `CopyFollows` | the location record's copy says AVAILABLE against the key only until an update has come to its second write: disconnecting looks at one of the two |
  | `CleanupIsDue` | who has no connection and seems available is still being cleaned up after |

- **`AskingProofs`**: `NobodyIsForgottenAlways`, `OneAtATimeAlways`, for any trips and callers, from
  the invariant `AskInv`, which TLC checked first (2 trips and 2 callers; 3 trips and 1 caller):

  | Conjunct | Needed because |
  |---|---|
  | `Known`, `Fitting` | what a caller carries fits the step it is at: a caller has a popped trip exactly from the pop to the timeout job |
  | `Queued` | a trip is popped once: while it is queued it has no job, timer, screen or answer |
  | `Remembered` | the first half of `NobodyIsForgotten`, kept whatever overlaps or fails |
  | `InTurn` | callers take turns: who has popped found the key free, and a decline or cancellation is past the key of its own trip |
  | `Due`, `Followed` | whatever the key names, somebody will come and delete it, and a queue without a key has somebody who will look at it: the second half, without it nobody serves the queue |
  | `Screen` | what is seen is what the key names, until a key is deleted under another trip |

  The proof found what the runs' bounds had hidden: with a third trip `OneAtATime` was false
  as first stated, because `handleDriverTimeout`, `cleanupTripFromQueues` and
  `handleTripApproved` delete the key whichever trip it names.  `order` now tells "stolen"
  from "lost", and `NobodyIsForgotten` holds of a trip being declined, too.
- **`AccountsProofs`**: the type invariant and the property of each of the seven small modules,
  for any number of cards, keys, codes, e-mails, users and requests, any `MaxMondays` and
  `MaxCharges`.  Each has an inductive invariant of its own:

  | Theorem | Invariant | Needed because |
  |---|---|---|
  | `RecordedIsStoredAlways` | `FileInv` | a new key is in one request's hands and stored before it is recorded; the key a request deletes is recorded no more, and nobody will record it |
  | `WeeksAreSoundAlways` | `WeekInv` | a ride being added is in no week yet; with no overlap the week an addition found is still the active one |
  | `ToldIsRatedAlways` | `RateInv` | under the lock one request is under way, and what it is about to tell is what it wrote |
  | `CancelIsSettledAlways` | `CancelInv` | `OwedIsLate` and `Released` hold whatever overlaps; `InHand` says at each step of one request what it has done to the trip, the key, the penalties and the fee so far |
  | `AccountsAreSoundAlways` | `AdminInv` | ids are used once, so that a deletion which has read a normal administrator never comes to delete a super administrator; a code with which a password was set is about to be marked |
  | `ToldOnceAlways` | `CallInv` | a user is in one of the two plans, socket or push; whoever was looked at has been told or will be, in the way that reaches him |
  | `DefaultIsChargeableAlways` | `CardInv` | a card not attached is being deleted or is torn; `InOrder` says where the default is at each step of a request that is alone, `Mending` how setting it with nothing in between puts right what overlaps have left |

  `AccountsTypeCorrect` follows from the eight.

Each proof has one step for each action, under it one for each conjunct the action can
disturb.  Assumed of the constants: `TripAssumption`, `LockAssumption`, `FareAssumption`,
`DispatchAssumption`, `SessionAssumption`, `AccountsAssumption` (types, null values outside
their sets, finite sets where the property counts); TLC evaluates them in the runs.

With this every invariant of the passing runs is a theorem.  Only model-checked remain the
properties of liveness, `LockComesBack`, `SearchEnds`, `EndedIsDisconnected`, `GhostsVanish` and
`SuccessCompletes`, because liveness under fairness, and ENABLED, are outside what TLAPS
proves here; and the three properties the code does not have (`AcceptedOnce` with late taps,
`AllRejectedEndsSearch`, `AskedIsRecalled`), which TLC refutes.  No module has a recursive
operator and nothing here needs induction over data; the queues are sets, of which
`FirstIsQueued` shows by well-foundedness of the naturals that they have an oldest trip.

## What is left out

- Overlap of two handlers inside `Trip`, but for cancellations (`Cancel`), campaigns and
  payments (`Fare`) and ratings (`Ratings`): the others are one step each.  They take several
  locks (`trip:<id>`, `customer:<id>:cancel-request`), some none, so some do overlap:
  `cancelTripRequest` with `approveTrip`; the timeout job and the decline, which write a
  rejected list they read earlier.  Without a trip id `requestDriver` locks
  `trip:undefined`, the same lock for all customers.
- Errors inside a webhook that are answered with 200: Stripe does not deliver again, and
  the trip waits.  `SuccessCompletes` is about crashes, after which it does.
- Amounts other than the fare and its discount: earnings, the estimate, penalties (0 AED).
- Distances and the order of drivers: the search finds any of the available ones.
- What other services decide: users and averages (users service), codes (auth service),
  Stripe, Expo, S3, Google Maps.  They are external actions with every outcome the code
  distinguishes.
- Code nothing calls: the bodies commented out in `notifications/force-logout.service.ts` and
  `handleEventAck`, `removeJobsByDriverAndTrip`, `removeTripRequestJobsOnly`,
  `getNextTripForDriver`, the active marks of drivers, `createAdminUser`,
  `handleJobExhausted` (jobs have one attempt), the event ttl table.
- Queries, lists, statistics, histories, profile endpoints that pass a request on, content,
  app versions, health, logging and configuration: no protocol.

## Plan

Done: all modules above, their runs, and the proofs of every invariant the runs check.
Next:

1. **`TripRace`**: the handlers of a search split at the reads, locks and writes of the code,
   composed with `Lock`, with `Trip` as its abstract specification where the locks suffice.
2. Searches repeated before their leftovers are gone, in `Dispatch`: which of its
   properties survive, under which condition on time.
3. That `Asking`, seen at the moments when nobody is at work, implements `Dispatch` with one
   driver.
4. `Trip` with the fares of `Fare` in the place of its intents and events, as a refinement.
