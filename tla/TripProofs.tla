----------------------------- MODULE TripProofs -----------------------------
(***************************************************************************)
(* What holds of every trip: types, a known driver, paid fares and fees,   *)
(* and no way back to the search.                                          *)
(* Each proof takes the actions one by one.                                *)
(***************************************************************************)
EXTENDS Trip, TLAPS

LEMMA TypeInductive == TypeOK /\ [Next]_vars => TypeOK'
<1> SUFFICES ASSUME TypeOK, [Next]_vars PROVE TypeOK'
    OBVIOUS
<1> USE TripAssumption DEF TypeOK, keyVars, screenVars, searchVars, moneyVars
<1>1. ASSUME NEW c \in Customers, CustomerStep(c) PROVE TypeOK'
  <2>1. CASE GetCustomerActiveTrip(c)
    BY <2>1 DEF GetCustomerActiveTrip
  <2>2. ASSUME NEW t \in Trips, NEW ds \in SUBSET Drivers, RequestDriver(c, t, ds)
        PROVE TypeOK'
    BY <2>2 DEF RequestDriver, Statuses
  <2>3. CASE CancelTripRequest(c)
    BY <2>3 DEF CancelTripRequest, CustomerTripIds, FoundForCustomer, TellTaken, Without, Statuses
  <2>4. CASE DeleteActiveTrip(c)
    BY <2>4 DEF DeleteActiveTrip, Statuses
  <2>5. ASSUME NEW late \in BOOLEAN, NEW charged \in BOOLEAN,
               CancelTripByCustomer(c, late, charged)
        PROVE TypeOK'
    <3>1. PICK t \in CustomerTripIds(c) : CancelTripByCustomer(c, late, charged)!(t)
      BY <2>5 DEF CancelTripByCustomer
    <3>2. t \in Trips /\ driver[t] \in Drivers
      BY <3>1 DEF CustomerTripIds, FoundForCustomer
    <3>3. status' \in [Trips -> Statuses] /\ activeC' \in [Customers -> Trips \cup {NoTrip}]
      BY <3>1, <3>2 DEF Statuses
    <3>4. activeD' \in [Drivers -> Trips \cup {NoTrip}] /\ avail' \in [Drivers -> Availability]
      BY <3>1, <3>2 DEF Availability
    <3>5. penalty' \in [Trips -> {"none", "due", "paid"}]
      BY <3>1, <3>2
    <3> QED
      BY <3>1, <3>3, <3>4, <3>5
  <2>6. CASE RetryCancelTripByCustomer(c)
    <3>1. PICK t \in CustomerTripIds(c) : RetryCancelTripByCustomer(c)!(t)
      BY <2>6 DEF RetryCancelTripByCustomer
    <3>2. t \in Trips
      BY <3>1 DEF CustomerTripIds, FoundForCustomer
    <3>3. CASE status[t] = "CANCELLED_PAYMENT"
      BY <3>1, <3>2, <3>3 DEF Statuses
    <3>4. CASE status[t] # "CANCELLED_PAYMENT"
      BY <3>1, <3>2, <3>4 DEF Statuses
    <3> QED
      BY <3>3, <3>4
  <2>7. CASE ProcessTripPayment(c)
    BY <2>7 DEF ProcessTripPayment
  <2>8. CASE CustomerKeyExpires(c)
    BY <2>8 DEF CustomerKeyExpires
  <2> QED
    BY <1>1, <2>1, <2>2, <2>3, <2>4, <2>5, <2>6, <2>7, <2>8 DEF CustomerStep
<1>2. ASSUME NEW d \in Drivers, DriverStep(d) PROVE TypeOK'
  <2>1. ASSUME NEW t \in Trips, DeclineTrip(t, d) PROVE TypeOK'
    <3>1. \A f \in [Drivers -> SUBSET Trips] : Without(t, {d}, f) \in [Drivers -> SUBSET Trips]
      BY DEF Without
    <3>2. status' \in [Trips -> Statuses] /\ rejected' \in [Trips -> SUBSET Drivers]
      BY <2>1 DEF DeclineTrip, Statuses
    <3> QED
      BY <2>1, <3>1, <3>2 DEF DeclineTrip
  <2>2. ASSUME NEW t \in Trips, ApproveTrip(t, d) PROVE TypeOK'
    <3>1. shown' \in [Drivers -> SUBSET Trips] /\ told' \in [Drivers -> SUBSET Trips]
      <4>1. TellTaken(called[t] \ rejected[t], t) \in [Drivers -> SUBSET Trips]
        BY DEF TellTaken
      <4>2. \A f \in [Drivers -> SUBSET Trips] : Without(t, {d}, f) \in [Drivers -> SUBSET Trips]
        BY DEF Without
      <4> QED
        BY <2>2, <4>1, <4>2 DEF ApproveTrip
    <3>2. taken' \in SUBSET Trips /\ queue' \in [Drivers -> SUBSET Trips]
      BY <2>2 DEF ApproveTrip
    <3>3. status' \in [Trips -> Statuses] /\ avail' \in [Drivers -> Availability]
      BY <2>2 DEF ApproveTrip, Statuses, Availability
    <3>4. rejected' \in [Trips -> SUBSET Drivers] /\ timers' \in [Trips -> SUBSET Drivers]
      BY <2>2 DEF ApproveTrip
    <3>5. /\ driver' \in [Trips -> Drivers \cup {NoDriver}]
          /\ activeD' \in [Drivers -> Trips \cup {NoTrip}]
      BY <2>2 DEF ApproveTrip
    <3>6. UNCHANGED <<called, stale, activeC, moneyVars>>
      BY <2>2 DEF ApproveTrip
    <3> QED
      BY <3>1, <3>2, <3>3, <3>4, <3>5, <3>6
  <2>3. CASE GetDriverActiveTrip(d)
    BY <2>3 DEF GetDriverActiveTrip
  <2>4. CASE StartPickup(d) \/ ArrivePickup(d) \/ StartTrip(d)
    <3>1. ASSUME NEW to \in Statuses, DriverMoves(d, to) PROVE TypeOK'
      <4>1. status' \in [Trips -> Statuses]
        BY <3>1 DEF DriverMoves
      <4> QED
        BY <3>1, <4>1 DEF DriverMoves
    <3>2. {"DRIVER_ON_WAY_TO_PICKUP", "ARRIVED_AT_PICKUP", "TRIP_IN_PROGRESS"} \subseteq Statuses
      BY DEF Statuses
    <3> QED
      BY <2>4, <3>1, <3>2 DEF StartPickup, ArrivePickup, StartTrip
  <2>5. CASE ArrivedStop(d)
    BY <2>5 DEF ArrivedStop, DriverTripIds, FoundForDriver, Statuses, Availability
  <2>6. CASE CancelTripByDriver(d)
    BY <2>6 DEF CancelTripByDriver, DriverTripIds, FoundForDriver, Statuses, Availability
  <2>7. CASE DriverConnects(d) \/ DriverDisconnects(d)
    BY <2>7 DEF DriverConnects, DriverDisconnects, Availability
  <2>8. ASSUME NEW to \in {"AVAILABLE", "BUSY"}, UpdateAvailability(d, to) PROVE TypeOK'
    BY <2>8 DEF UpdateAvailability, Availability
  <2>9. CASE DriverKeyExpires(d)
    BY <2>9 DEF DriverKeyExpires
  <2> QED
    BY <1>2, <2>1, <2>2, <2>3, <2>4, <2>5, <2>6, <2>7, <2>8, <2>9 DEF DriverStep
<1>3. ASSUME NEW t \in Trips, BackgroundStep(t) PROVE TypeOK'
  <2>1. ASSUME NEW d \in Drivers, AskDriver(t, d) PROVE TypeOK'
    <3>1. shown' \in [Drivers -> SUBSET Trips]
      BY <2>1 DEF AskDriver
    <3>2. told' \in [Drivers -> SUBSET Trips]
      <4>1. Without(t, {d}, told) \in [Drivers -> SUBSET Trips]
        BY DEF Without
      <4> QED
        BY <2>1, <4>1 DEF AskDriver
    <3> QED
      BY <2>1, <3>1, <3>2 DEF AskDriver
  <2>2. ASSUME NEW d \in Drivers, DriverTimesOut(t, d) PROVE TypeOK'
    <3>1. timers' \in [Trips -> SUBSET Drivers]
      BY <2>2 DEF DriverTimesOut
    <3>2. rejected' \in [Trips -> SUBSET Drivers]
      BY <2>2 DEF DriverTimesOut
    <3>3. status' \in [Trips -> Statuses]
      BY <2>2 DEF DriverTimesOut, Statuses
    <3>4. queue' \in [Drivers -> SUBSET Trips]
      <4>1. Without(t, {d}, queue) \in [Drivers -> SUBSET Trips]
        BY DEF Without
      <4> QED
        BY <2>2, <4>1 DEF DriverTimesOut
    <3>5. told' \in [Drivers -> SUBSET Trips]
      <4>1. TellTaken({d}, t) \in [Drivers -> SUBSET Trips]
        BY DEF TellTaken
      <4> QED
        BY <2>2, <4>1 DEF DriverTimesOut
    <3> QED
      BY <2>2, <3>1, <3>2, <3>3, <3>4, <3>5 DEF DriverTimesOut
  <2>3. ASSUME NEW d \in Drivers, TakenArrives(t, d) PROVE TypeOK'
    BY <2>3 DEF TakenArrives, Without
  <2>4. ASSUME NEW event \in {"succeeded", "failed"}, StripeSettles(t, event) PROVE TypeOK'
    BY <2>4 DEF StripeSettles
  <2>5. CASE HandlePaymentSuccess(t)
    BY <2>5 DEF HandlePaymentSuccess, Statuses
  <2>6. CASE HandlePaymentFailure(t)
    BY <2>6 DEF HandlePaymentFailure, Statuses, Availability
  <2> QED
    BY <1>3, <2>1, <2>2, <2>3, <2>4, <2>5, <2>6 DEF BackgroundStep
<1>4. CASE UNCHANGED vars
  BY <1>4 DEF vars
<1> QED
  BY <1>1, <1>2, <1>3, <1>4 DEF Next

(* Type correctness: every handler writes values the schema allows.        *)
THEOREM TripTypeCorrect == Spec => []TypeOK
<1>1. Init => TypeOK
  BY TripAssumption DEF Init, TypeOK, Statuses, Availability
<1> QED
  BY <1>1, TypeInductive, PTL DEF Spec

-----------------------------------------------------------------------------
(* A fare that was asked for belongs to a trip with a driver: with it,     *)
(* RideHasDriver is inductive.                                             *)
FareHasDriver == \A t \in Trips : open[t] > 0 \/ hooks[t] # {} => driver[t] # NoDriver

LEMMA DriverInductive ==
    TypeOK /\ RideHasDriver /\ FareHasDriver /\ [Next]_vars => (RideHasDriver /\ FareHasDriver)'
<1> SUFFICES ASSUME TypeOK, RideHasDriver, FareHasDriver, [Next]_vars,
                    NEW u \in Trips
             PROVE  /\ status'[u] \in Accepted => driver'[u] # NoDriver
                    /\ open'[u] > 0 \/ hooks'[u] # {} => driver'[u] # NoDriver
    BY DEF RideHasDriver, FareHasDriver
<1> DEFINE Kept == /\ status'[u] \in Accepted => driver'[u] # NoDriver
                   /\ open'[u] > 0 \/ hooks'[u] # {} => driver'[u] # NoDriver
<1> USE TripAssumption DEF TypeOK, keyVars, screenVars, searchVars, moneyVars, RideHasDriver, FareHasDriver
<1>1. ASSUME NEW c \in Customers, CustomerStep(c) PROVE Kept
  <2>1. CASE GetCustomerActiveTrip(c) \/ CustomerKeyExpires(c)
    BY <2>1 DEF GetCustomerActiveTrip, CustomerKeyExpires
  <2>2. ASSUME NEW t \in Trips, NEW ds \in SUBSET Drivers, RequestDriver(c, t, ds) PROVE Kept
    BY <2>2 DEF RequestDriver, Accepted, DriverActive
  <2>3. CASE CancelTripRequest(c)
    BY <2>3 DEF CancelTripRequest, CustomerTripIds, FoundForCustomer, Accepted, DriverActive
  <2>4. CASE DeleteActiveTrip(c)
    BY <2>4 DEF DeleteActiveTrip, Accepted, DriverActive
  <2>5. ASSUME NEW late \in BOOLEAN, NEW charged \in BOOLEAN,
               CancelTripByCustomer(c, late, charged)
        PROVE Kept
    <3>1. PICK t \in CustomerTripIds(c) : CancelTripByCustomer(c, late, charged)!(t)
      BY <2>5 DEF CancelTripByCustomer
    <3>2. t \in Trips /\ driver[t] # NoDriver /\ UNCHANGED <<driver, open, hooks>>
      BY <3>1 DEF CustomerTripIds, FoundForCustomer
    <3>3. CASE u = t
      BY <3>2, <3>3
    <3>4. CASE u # t
      <4>1. status'[u] = status[u]
        BY <3>1, <3>2, <3>4
      <4> QED
        BY <3>2, <4>1
    <3> QED
      BY <3>3, <3>4
  <2>6. CASE RetryCancelTripByCustomer(c)
    <3>1. PICK t \in CustomerTripIds(c) : RetryCancelTripByCustomer(c)!(t)
      BY <2>6 DEF RetryCancelTripByCustomer
    <3>2. t \in Trips /\ status[t] \in Accepted
      BY <3>1 DEF CustomerTripIds, FoundForCustomer, Accepted
    <3>3. CASE u = t
      BY <3>1, <3>2, <3>3
    <3>4. CASE u # t
      BY <3>1, <3>2, <3>4
    <3> QED
      BY <3>3, <3>4
  <2>7. CASE ProcessTripPayment(c)
    BY <2>7 DEF ProcessTripPayment
  <2> QED
    BY <1>1, <2>1, <2>2, <2>3, <2>4, <2>5, <2>6, <2>7 DEF CustomerStep
<1>2. ASSUME NEW d \in Drivers, DriverStep(d) PROVE Kept
  <2>1. ASSUME NEW t \in Trips, DeclineTrip(t, d) PROVE Kept
    BY <2>1 DEF DeclineTrip, Accepted, DriverActive
  <2>2. ASSUME NEW t \in Trips, ApproveTrip(t, d) PROVE Kept
    BY <2>2 DEF ApproveTrip
  <2>3. CASE GetDriverActiveTrip(d) \/ DriverKeyExpires(d)
    BY <2>3 DEF GetDriverActiveTrip, DriverKeyExpires
  <2>4. ASSUME NEW to \in DriverActive \ {"APPROVED"}, DriverMoves(d, to) PROVE Kept
    <3>1. PICK t \in DriverTripIds(d) : DriverMoves(d, to)!(t)
      BY <2>4 DEF DriverMoves
    <3>2. t \in Trips
      BY <3>1 DEF DriverTripIds, FoundForDriver
    <3>3. status[t] \in Accepted
      BY <3>1, <3>2 DEF CanTransition, StatusTransitions, Statuses, Accepted, DriverActive
    <3> QED
      BY <3>1, <3>2, <3>3
  <2>5. CASE ArrivedStop(d)
    BY <2>5 DEF ArrivedStop, DriverTripIds, FoundForDriver
  <2>6. CASE CancelTripByDriver(d)
    BY <2>6 DEF CancelTripByDriver, DriverTripIds, FoundForDriver, Accepted, DriverActive
  <2>7. CASE DriverConnects(d) \/ DriverDisconnects(d)
    BY <2>7 DEF DriverConnects, DriverDisconnects
  <2>8. ASSUME NEW to \in {"AVAILABLE", "BUSY"}, UpdateAvailability(d, to) PROVE Kept
    BY <2>8 DEF UpdateAvailability
  <2>9. CASE StartPickup(d) \/ ArrivePickup(d) \/ StartTrip(d)
    BY <2>4, <2>9 DEF StartPickup, ArrivePickup, StartTrip, DriverActive
  <2> QED
    BY <1>2, <2>1, <2>2, <2>3, <2>5, <2>6, <2>7, <2>8, <2>9 DEF DriverStep
<1>3. ASSUME NEW t \in Trips, BackgroundStep(t) PROVE Kept
  <2>1. ASSUME NEW d \in Drivers, AskDriver(t, d) \/ TakenArrives(t, d) PROVE Kept
    BY <2>1 DEF AskDriver, TakenArrives
  <2>2. ASSUME NEW d \in Drivers, DriverTimesOut(t, d) PROVE Kept
    BY <2>2 DEF DriverTimesOut, Accepted, DriverActive
  <2>3. ASSUME NEW event \in {"succeeded", "failed"}, StripeSettles(t, event) PROVE Kept
    BY <2>3 DEF StripeSettles
  <2>4. CASE HandlePaymentSuccess(t)
    BY <2>4 DEF HandlePaymentSuccess
  <2>5. CASE HandlePaymentFailure(t)
    BY <2>5 DEF HandlePaymentFailure
  <2> QED
    BY <1>3, <2>1, <2>2, <2>3, <2>4, <2>5 DEF BackgroundStep
<1>4. CASE UNCHANGED vars
  BY <1>4 DEF vars
<1> QED
  BY <1>1, <1>2, <1>3, <1>4 DEF Next

(* Every trip past approval knows its driver, so that no handler that      *)
(* reads trip.driver.id after approval can fail for lack of one.           *)
THEOREM RideHasDriverAlways == Spec => []RideHasDriver
<1>1. Init => RideHasDriver /\ FareHasDriver
  BY DEF Init, RideHasDriver, FareHasDriver, Accepted, DriverActive
<1> QED
  BY <1>1, DriverInductive, TripTypeCorrect, PTL DEF Spec

-----------------------------------------------------------------------------
(* A "succeeded" event exists only for a fare that Stripe took.            *)
SucceededIsPaid == \A t \in Trips : "succeeded" \in hooks[t] => paid[t]

LEMMA PaidInductive ==
    TypeOK /\ CompletedIsPaid /\ SucceededIsPaid /\ [Next]_vars
        => (CompletedIsPaid /\ SucceededIsPaid)'
<1> SUFFICES ASSUME TypeOK, CompletedIsPaid, SucceededIsPaid, [Next]_vars, NEW u \in Trips
             PROVE  /\ status'[u] = "COMPLETED" => paid'[u]
                    /\ "succeeded" \in hooks'[u] => paid'[u]
    BY DEF CompletedIsPaid, SucceededIsPaid
<1> DEFINE Kept == /\ status'[u] = "COMPLETED" => paid'[u]
                   /\ "succeeded" \in hooks'[u] => paid'[u]
<1> USE DEF TypeOK, keyVars, screenVars, searchVars, moneyVars, CompletedIsPaid, SucceededIsPaid
<1>1. ASSUME NEW c \in Customers, CustomerStep(c) PROVE Kept
  <2>1. CASE GetCustomerActiveTrip(c) \/ CustomerKeyExpires(c) \/ ProcessTripPayment(c)
    BY <2>1 DEF GetCustomerActiveTrip, CustomerKeyExpires, ProcessTripPayment
  <2>2. ASSUME NEW t \in Trips, NEW ds \in SUBSET Drivers, RequestDriver(c, t, ds) PROVE Kept
    BY <2>2 DEF RequestDriver
  <2>3. CASE CancelTripRequest(c)
    BY <2>3 DEF CancelTripRequest, CustomerTripIds, FoundForCustomer
  <2>4. CASE DeleteActiveTrip(c)
    BY <2>4 DEF DeleteActiveTrip
  <2>5. ASSUME NEW late \in BOOLEAN, NEW charged \in BOOLEAN,
               CancelTripByCustomer(c, late, charged)
        PROVE Kept
    <3>1. /\ status'[u] \in {status[u], "CANCELLED", "CANCELLED_PAYMENT"}
          /\ UNCHANGED <<hooks, paid>>
      BY <2>5 DEF CancelTripByCustomer, CustomerTripIds, FoundForCustomer
    <3> QED
      BY <3>1
  <2>6. CASE RetryCancelTripByCustomer(c)
    <3>1. PICK t \in CustomerTripIds(c) : RetryCancelTripByCustomer(c)!(t)
      BY <2>6 DEF RetryCancelTripByCustomer
    <3>2. t \in Trips
      BY <3>1 DEF CustomerTripIds, FoundForCustomer
    <3>3. CASE status[t] = "CANCELLED_PAYMENT"
      BY <3>1, <3>2, <3>3
    <3>4. CASE status[t] # "CANCELLED_PAYMENT"
      BY <3>1, <3>2, <3>4
    <3> QED
      BY <3>3, <3>4
  <2> QED
    BY <1>1, <2>1, <2>2, <2>3, <2>4, <2>5, <2>6 DEF CustomerStep
<1>2. ASSUME NEW d \in Drivers, DriverStep(d) PROVE Kept
  <2>1. ASSUME NEW t \in Trips, DeclineTrip(t, d) \/ ApproveTrip(t, d) PROVE Kept
    BY <2>1 DEF DeclineTrip, ApproveTrip
  <2>2. CASE GetDriverActiveTrip(d) \/ DriverKeyExpires(d)
    BY <2>2 DEF GetDriverActiveTrip, DriverKeyExpires
  <2>3. CASE StartPickup(d) \/ ArrivePickup(d) \/ StartTrip(d)
    BY <2>3 DEF StartPickup, ArrivePickup, StartTrip, DriverMoves, DriverTripIds, FoundForDriver
  <2>4. CASE ArrivedStop(d) \/ CancelTripByDriver(d)
    BY <2>4 DEF ArrivedStop, CancelTripByDriver, DriverTripIds, FoundForDriver
  <2>5. CASE DriverConnects(d) \/ DriverDisconnects(d)
    BY <2>5 DEF DriverConnects, DriverDisconnects
  <2>6. ASSUME NEW to \in {"AVAILABLE", "BUSY"}, UpdateAvailability(d, to) PROVE Kept
    BY <2>6 DEF UpdateAvailability
  <2> QED
    BY <1>2, <2>1, <2>2, <2>3, <2>4, <2>5, <2>6 DEF DriverStep
<1>3. ASSUME NEW t \in Trips, BackgroundStep(t) PROVE Kept
  <2>1. ASSUME NEW d \in Drivers, AskDriver(t, d) \/ TakenArrives(t, d) PROVE Kept
    BY <2>1 DEF AskDriver, TakenArrives
  <2>2. ASSUME NEW d \in Drivers, DriverTimesOut(t, d) PROVE Kept
    BY <2>2 DEF DriverTimesOut
  <2>3. ASSUME NEW event \in {"succeeded", "failed"}, StripeSettles(t, event) PROVE Kept
    <3>1. UNCHANGED status /\ (paid[u] => paid'[u])
      BY <2>3 DEF StripeSettles
    <3>2. "succeeded" \in hooks'[u] => paid'[u]
      BY <2>3 DEF StripeSettles
    <3> QED
      BY <3>1, <3>2
  <2>4. CASE HandlePaymentSuccess(t) \/ HandlePaymentFailure(t)
    BY <2>4 DEF HandlePaymentSuccess, HandlePaymentFailure
  <2> QED
    BY <1>3, <2>1, <2>2, <2>3, <2>4 DEF BackgroundStep
<1>4. CASE UNCHANGED vars
  BY <1>4 DEF vars
<1> QED
  BY <1>1, <1>2, <1>3, <1>4 DEF Next

(* A trip is COMPLETED only if Stripe took its fare, however webhooks are  *)
(* reordered or repeated and whatever the retry endpoint does in between.  *)
THEOREM CompletedIsPaidAlways == Spec => []CompletedIsPaid
<1>1. Init => CompletedIsPaid /\ SucceededIsPaid
  BY DEF Init, CompletedIsPaid, SucceededIsPaid
<1> QED
  BY <1>1, PaidInductive, TripTypeCorrect, PTL DEF Spec

-----------------------------------------------------------------------------
(* A trip whose late-cancellation fee is due can only be waiting for that  *)
(* fee, or have been pushed on to payment by a driver's late button press. *)
FeeIsPending ==
    \A t \in Trips :
        penalty[t] = "due" =>
            status[t] \in {"CANCELLED_PAYMENT", "PAYMENT", "PAYMENT_RETRY", "COMPLETED"}

LEMMA PenaltyInductive == TypeOK /\ FeeIsPending /\ [Next]_vars => FeeIsPending'
<1> SUFFICES ASSUME TypeOK, FeeIsPending, [Next]_vars, NEW u \in Trips, penalty'[u] = "due"
             PROVE  status'[u] \in {"CANCELLED_PAYMENT", "PAYMENT", "PAYMENT_RETRY", "COMPLETED"}
    BY DEF FeeIsPending
<1> DEFINE Kept == status'[u] \in {"CANCELLED_PAYMENT", "PAYMENT", "PAYMENT_RETRY", "COMPLETED"}
<1> USE DEF TypeOK, keyVars, screenVars, searchVars, moneyVars, FeeIsPending
<1>1. ASSUME NEW c \in Customers, CustomerStep(c) PROVE Kept
  <2>1. CASE GetCustomerActiveTrip(c) \/ CustomerKeyExpires(c) \/ ProcessTripPayment(c)
    BY <2>1 DEF GetCustomerActiveTrip, CustomerKeyExpires, ProcessTripPayment
  <2>2. ASSUME NEW t \in Trips, NEW ds \in SUBSET Drivers, RequestDriver(c, t, ds) PROVE Kept
    BY <2>2 DEF RequestDriver, Requestable
  <2>3. CASE CancelTripRequest(c)
    BY <2>3 DEF CancelTripRequest, CustomerTripIds, FoundForCustomer, RequestCancellable
  <2>4. CASE DeleteActiveTrip(c)
    BY <2>4 DEF DeleteActiveTrip
  <2>5. ASSUME NEW late \in BOOLEAN, NEW charged \in BOOLEAN,
               CancelTripByCustomer(c, late, charged)
        PROVE Kept
    <3>1. PICK t \in CustomerTripIds(c) : CancelTripByCustomer(c, late, charged)!(t)
      BY <2>5 DEF CancelTripByCustomer
    <3>2. t \in Trips
      BY <3>1 DEF CustomerTripIds, FoundForCustomer
    <3>3. penalty[t] # "due"
      BY <3>1, <3>2 DEF CustomerCancellable, RequestCancellable, DriverCancellable
    <3>4. CASE u # t
      <4>1. status'[u] = status[u] /\ penalty'[u] = penalty[u]
        BY <3>1, <3>2, <3>4
      <4> QED
        BY <4>1
    <3>5. CASE u = t
      <4>1. late /\ ~ charged
        BY <3>1, <3>3, <3>5
      <4> QED
        BY <3>1, <3>5, <4>1
    <3> QED
      BY <3>4, <3>5
  <2>6. CASE RetryCancelTripByCustomer(c)
    <3>1. PICK t \in CustomerTripIds(c) : RetryCancelTripByCustomer(c)!(t)
      BY <2>6 DEF RetryCancelTripByCustomer
    <3>2. t \in Trips
      BY <3>1 DEF CustomerTripIds, FoundForCustomer
    <3>3. CASE status[t] = "CANCELLED_PAYMENT"
      BY <3>1, <3>2, <3>3
    <3>4. CASE status[t] # "CANCELLED_PAYMENT"
      BY <3>1, <3>2, <3>4
    <3> QED
      BY <3>3, <3>4
  <2> QED
    BY <1>1, <2>1, <2>2, <2>3, <2>4, <2>5, <2>6 DEF CustomerStep
<1>2. ASSUME NEW d \in Drivers, DriverStep(d) PROVE Kept
  <2>1. ASSUME NEW t \in Trips, DeclineTrip(t, d) PROVE Kept
    BY <2>1 DEF DeclineTrip
  <2>2. ASSUME NEW t \in Trips, ApproveTrip(t, d) PROVE Kept
    BY <2>2 DEF ApproveTrip, CanTransition, StatusTransitions, Statuses
  <2>3. CASE GetDriverActiveTrip(d) \/ DriverKeyExpires(d)
    BY <2>3 DEF GetDriverActiveTrip, DriverKeyExpires
  <2>4. ASSUME NEW to \in DriverActive \ {"APPROVED"}, DriverMoves(d, to) PROVE Kept
    <3>1. PICK t \in DriverTripIds(d) : DriverMoves(d, to)!(t)
      BY <2>4 DEF DriverMoves
    <3>2. t \in Trips
      BY <3>1 DEF DriverTripIds, FoundForDriver
    <3>3. status[t] \in DriverActive
      BY <3>1, <3>2 DEF CanTransition, StatusTransitions, Statuses, DriverActive
    <3> QED
      BY <3>1, <3>2, <3>3 DEF DriverActive
  <2>5. CASE StartPickup(d) \/ ArrivePickup(d) \/ StartTrip(d)
    BY <2>4, <2>5 DEF StartPickup, ArrivePickup, StartTrip, DriverActive
  <2>6. CASE ArrivedStop(d)
    BY <2>6 DEF ArrivedStop, DriverTripIds, FoundForDriver
  <2>7. CASE CancelTripByDriver(d)
    BY <2>7 DEF CancelTripByDriver, DriverTripIds, FoundForDriver, DriverCancellable
  <2>8. CASE DriverConnects(d) \/ DriverDisconnects(d)
    BY <2>8 DEF DriverConnects, DriverDisconnects
  <2>9. ASSUME NEW to \in {"AVAILABLE", "BUSY"}, UpdateAvailability(d, to) PROVE Kept
    BY <2>9 DEF UpdateAvailability
  <2> QED
    BY <1>2, <2>1, <2>2, <2>3, <2>5, <2>6, <2>7, <2>8, <2>9 DEF DriverStep
<1>3. ASSUME NEW t \in Trips, BackgroundStep(t) PROVE Kept
  <2>1. ASSUME NEW d \in Drivers, AskDriver(t, d) \/ TakenArrives(t, d) PROVE Kept
    BY <2>1 DEF AskDriver, TakenArrives
  <2>2. ASSUME NEW d \in Drivers, DriverTimesOut(t, d) PROVE Kept
    BY <2>2 DEF DriverTimesOut
  <2>3. ASSUME NEW event \in {"succeeded", "failed"}, StripeSettles(t, event) PROVE Kept
    BY <2>3 DEF StripeSettles
  <2>4. CASE HandlePaymentSuccess(t) \/ HandlePaymentFailure(t)
    BY <2>4 DEF HandlePaymentSuccess, HandlePaymentFailure
  <2> QED
    BY <1>3, <2>1, <2>2, <2>3, <2>4 DEF BackgroundStep
<1>4. CASE UNCHANGED vars
  BY <1>4 DEF vars
<1> QED
  BY <1>1, <1>2, <1>3, <1>4 DEF Next

(* A trip is never CANCELLED while the customer owes its fee.              *)
THEOREM PenaltySettledAlways == Spec => []PenaltySettled
<1>1. Init => FeeIsPending
  BY DEF Init, FeeIsPending
<1>2. FeeIsPending => PenaltySettled
  BY DEF FeeIsPending, PenaltySettled
<1> QED
  BY <1>1, <1>2, PenaltyInductive, TripTypeCorrect, PTL DEF Spec

-----------------------------------------------------------------------------
LEMMA SearchIsNotResumed ==
    ASSUME TypeOK, [Next]_vars, NEW u \in Trips, status[u] \notin RequestCancellable
    PROVE  status'[u] \notin RequestCancellable
<1> DEFINE Kept == status'[u] \notin RequestCancellable
<1> USE DEF TypeOK, keyVars, screenVars, searchVars, moneyVars, RequestCancellable
<1>1. ASSUME NEW c \in Customers, CustomerStep(c) PROVE Kept
  <2>1. CASE GetCustomerActiveTrip(c) \/ CustomerKeyExpires(c) \/ ProcessTripPayment(c)
    BY <2>1 DEF GetCustomerActiveTrip, CustomerKeyExpires, ProcessTripPayment
  <2>2. ASSUME NEW t \in Trips, NEW ds \in SUBSET Drivers, RequestDriver(c, t, ds) PROVE Kept
    BY <2>2 DEF RequestDriver, Requestable
  <2>3. CASE CancelTripRequest(c)
    BY <2>3 DEF CancelTripRequest, CustomerTripIds, FoundForCustomer
  <2>4. CASE DeleteActiveTrip(c)
    BY <2>4 DEF DeleteActiveTrip
  <2>5. ASSUME NEW late \in BOOLEAN, NEW charged \in BOOLEAN,
               CancelTripByCustomer(c, late, charged)
        PROVE Kept
    <3>1. status'[u] \in {status[u], "CANCELLED", "CANCELLED_PAYMENT"}
      BY <2>5 DEF CancelTripByCustomer, CustomerTripIds, FoundForCustomer
    <3> QED
      BY <3>1
  <2>6. CASE RetryCancelTripByCustomer(c)
    <3>1. status'[u] \in {status[u], "CANCELLED", "COMPLETED"}
      BY <2>6 DEF RetryCancelTripByCustomer, CustomerTripIds, FoundForCustomer
    <3> QED
      BY <3>1
  <2> QED
    BY <1>1, <2>1, <2>2, <2>3, <2>4, <2>5, <2>6 DEF CustomerStep
<1>2. ASSUME NEW d \in Drivers, DriverStep(d) PROVE Kept
  <2>1. ASSUME NEW t \in Trips, DeclineTrip(t, d) \/ ApproveTrip(t, d) PROVE Kept
    BY <2>1 DEF DeclineTrip, ApproveTrip
  <2>2. CASE GetDriverActiveTrip(d) \/ DriverKeyExpires(d)
    BY <2>2 DEF GetDriverActiveTrip, DriverKeyExpires
  <2>3. CASE StartPickup(d) \/ ArrivePickup(d) \/ StartTrip(d)
    BY <2>3 DEF StartPickup, ArrivePickup, StartTrip, DriverMoves, DriverTripIds, FoundForDriver
  <2>4. CASE ArrivedStop(d) \/ CancelTripByDriver(d)
    BY <2>4 DEF ArrivedStop, CancelTripByDriver, DriverTripIds, FoundForDriver
  <2>5. CASE DriverConnects(d) \/ DriverDisconnects(d)
    BY <2>5 DEF DriverConnects, DriverDisconnects
  <2>6. ASSUME NEW to \in {"AVAILABLE", "BUSY"}, UpdateAvailability(d, to) PROVE Kept
    BY <2>6 DEF UpdateAvailability
  <2> QED
    BY <1>2, <2>1, <2>2, <2>3, <2>4, <2>5, <2>6 DEF DriverStep
<1>3. ASSUME NEW t \in Trips, BackgroundStep(t) PROVE Kept
  <2>1. ASSUME NEW d \in Drivers, AskDriver(t, d) \/ TakenArrives(t, d) PROVE Kept
    BY <2>1 DEF AskDriver, TakenArrives
  <2>2. ASSUME NEW d \in Drivers, DriverTimesOut(t, d) PROVE Kept
    BY <2>2 DEF DriverTimesOut
  <2>3. ASSUME NEW event \in {"succeeded", "failed"}, StripeSettles(t, event) PROVE Kept
    BY <2>3 DEF StripeSettles
  <2>4. CASE HandlePaymentSuccess(t) \/ HandlePaymentFailure(t)
    BY <2>4 DEF HandlePaymentSuccess, HandlePaymentFailure
  <2> QED
    BY <1>3, <2>1, <2>2, <2>3, <2>4 DEF BackgroundStep
<1>4. CASE UNCHANGED vars
  BY <1>4 DEF vars
<1> QED
  BY <1>1, <1>2, <1>3, <1>4 DEF Next

(* No step takes a trip a driver accepted back to looking for a driver.    *)
THEOREM AcceptedIsNotUndoneEver == Spec => AcceptedIsNotUndone
<1>1. TypeOK /\ [Next]_vars =>
        [\A t \in Trips : status[t] \in Accepted => status'[t] \notin RequestCancellable]_vars
  BY SearchIsNotResumed DEF Accepted, DriverActive, RequestCancellable
<1> QED
  BY <1>1, TripTypeCorrect, PTL DEF Spec, AcceptedIsNotUndone
=============================================================================
