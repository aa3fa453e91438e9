------------------------- MODULE TripExclusiveProofs -------------------------
(***************************************************************************)
(* What keeps trips apart: a customer has one ride at a time, a driver's   *)
(* key names that driver's ride, searches ask whom they should, and        *)
(* cancelled trips stay so.  It holds of trips that no second driver took  *)
(* (`taken`) and of searches that began with nothing of an earlier search  *)
(* around (`stale`): the proofs show that a trip in either state takes     *)
(* nothing from the others.                                                *)
(*                                                                         *)
(* The inductive invariant is the conjunction of TypeOK with               *)
(*   SearchSound       who may still accept a trip,                        *)
(*   DriverKeySound    what the driver's key names,                        *)
(*   OnlyFaresCharged  which trips payment events can be about,            *)
(*   DriverlessSearch, TakenIsAccepted,                                    *)
(*   CustomerKeySound and OneRidePerCustomer.                              *)
(* They lean on each other: a second acceptance leaves a key behind (no    *)
(* DriverKeySound) with which a driver brings a finished trip back to life *)
(* (no OneRidePerCustomer).                                                *)
(***************************************************************************)
EXTENDS TripProofs, FiniteSetTheorems

Waiting(t) == status[t] = "WAITING_FOR_DRIVER"

(* A trip that a second driver took is past its search.                    *)
TakenIsAccepted == \A t \in taken : status[t] \notin RequestCancellable

(* The trips a driver's handlers work on are that driver's own rides,      *)
(* unless another driver took them over.                                   *)
LEMMA DriverTripIsOwn ==
    ASSUME TypeOK, DriverKeySound, NEW d \in Drivers, NEW t \in DriverTripIds(d)
    PROVE  t \in Trips /\ (t \notin taken => driver[t] = d /\ status[t] \in DriverActive)
BY DEF TypeOK, DriverKeySound, DriverTripIds, FoundForDriver

(* None of them is looking for a driver.                                   *)
LEMMA DriverTripIsAccepted ==
    ASSUME TypeOK, DriverKeySound, TakenIsAccepted, NEW d \in Drivers, NEW t \in DriverTripIds(d)
    PROVE  t \in Trips /\ status[t] \notin RequestCancellable
BY DriverTripIsOwn DEF TakenIsAccepted, DriverActive, RequestCancellable

(* A step that leaves the search for u alone keeps it sound.               *)
LEMMA SearchFrame ==
    ASSUME NEW u \in Trips, SearchIsSound(u),
           UNCHANGED <<called[u], rejected[u], timers[u]>>,
           \A d \in Drivers : /\ u \in shown'[d] <=> u \in shown[d]
                              /\ u \in told[d] => u \in told'[d]
                              /\ u \in queue'[d] => u \in queue[d],
           Waiting(u)' <=> Waiting(u)
    PROVE  SearchIsSound(u)'
<1>1. MayAccept(u)' = MayAccept(u)
  BY DEF MayAccept, Waiting
<1> QED
  BY <1>1 DEF SearchIsSound, Waiting

(* When driver d rejects u and the search ends only when every driver      *)
(* called has rejected, the search stays sound.                            *)
LEMMA RejectionKeepsSearch ==
    ASSUME NEW u \in Trips, SearchIsSound(u), NEW d \in Drivers,
           Waiting(u), d \in called[u],
           rejected'[u] = rejected[u] \cup {d}, called'[u] = called[u], timers'[u] \subseteq timers[u],
           \A e \in Drivers : /\ u \in shown'[e] => u \in shown[e]
                              /\ u \in told[e] => u \in told'[e] \/ u \notin shown'[e]
                              /\ u \in queue'[e] => u \in queue[e],
           u \notin queue'[d], u \in shown'[d] => u \in told'[d],
           status'[u] \in {"WAITING_FOR_DRIVER", "DRIVER_NOT_FOUND"},
           status'[u] = "DRIVER_NOT_FOUND" => called[u] \subseteq rejected'[u]
    PROVE  SearchIsSound(u)'
<1>1. MayAccept(u) = called[u] \ rejected[u]
  BY DEF MayAccept, Waiting
<1>2. MayAccept(u)' = called[u] \ (rejected[u] \cup {d})
  BY DEF MayAccept
<1>3. ASSUME NEW e \in Drivers, u \in shown'[e] PROVE e \in MayAccept(u)' \/ u \in told'[e]
  BY <1>1, <1>2, <1>3 DEF SearchIsSound
<1>4. ASSUME NEW e \in Drivers, u \in queue'[e] PROVE u \notin shown'[e] /\ e \in MayAccept(u)'
  BY <1>1, <1>2, <1>4 DEF SearchIsSound, Waiting
<1>5. rejected'[u] \cup timers'[u] \cup {e \in Drivers : u \in shown'[e]} \subseteq called'[u]
  BY DEF SearchIsSound, Waiting
<1> QED
  BY <1>3, <1>4, <1>5 DEF SearchIsSound

LEMMA SearchInductive ==
    ASSUME TypeOK, SearchSound, DriverKeySound, OnlyFaresCharged, DriverlessSearch,
           TakenIsAccepted, [Next]_vars
    PROVE  SearchSound'
<1> SUFFICES ASSUME NEW u \in Trips, u \notin stale' PROVE SearchIsSound(u)'
  BY DEF SearchSound
<1> USE DEF TypeOK, keyVars, moneyVars, searchVars, screenVars
<1> DEFINE SameSearch == /\ UNCHANGED searchVars
                         /\ Waiting(u)' <=> Waiting(u)
<1>0. ASSUME u \notin stale, SameSearch PROVE SearchIsSound(u)'
  <2>1. SearchIsSound(u)
    BY <1>0 DEF SearchSound
  <2> QED
    BY <1>0, <2>1, SearchFrame
<1>1. ASSUME NEW c \in Customers, CustomerStep(c) PROVE SearchIsSound(u)'
  <2>1. CASE GetCustomerActiveTrip(c) \/ CustomerKeyExpires(c) \/ ProcessTripPayment(c)
    BY <1>0, <2>1 DEF GetCustomerActiveTrip, CustomerKeyExpires, ProcessTripPayment, Waiting
  <2>2. ASSUME NEW t \in Trips, NEW ds \in SUBSET Drivers, RequestDriver(c, t, ds)
        PROVE SearchIsSound(u)'
    <3>1. CASE u = t
      <4>1. timers[u] = {} /\ \A d \in Drivers : u \notin queue[d] \cup shown[d]
        BY <2>2, <3>1 DEF RequestDriver, Untraced
      <4>2. /\ status'[u] = "WAITING_FOR_DRIVER" /\ called'[u] = ds /\ rejected'[u] = {}
            /\ UNCHANGED <<timers, shown, told>>
        BY <2>2, <3>1 DEF RequestDriver
      <4>3. \A d \in Drivers : u \in queue'[d] => d \in ds
        BY <2>2, <3>1, <4>1 DEF RequestDriver
      <4> QED
        BY <4>1, <4>2, <4>3 DEF SearchIsSound, MayAccept
    <3>2. CASE u # t
      <4>1. u \notin stale
        BY <2>2, <3>2 DEF RequestDriver
      <4>2. /\ UNCHANGED <<called[u], rejected[u], timers[u], status[u], shown, told>>
            /\ \A d \in Drivers : u \in queue'[d] => u \in queue[d]
        BY <2>2, <3>2 DEF RequestDriver
      <4>3. SearchIsSound(u)
        BY <4>1 DEF SearchSound
      <4> QED
        BY <4>2, <4>3, SearchFrame DEF Waiting
    <3> QED
      BY <3>1, <3>2
  <2>3. CASE CancelTripRequest(c)
    <3>1. PICK t \in CustomerTripIds(c) : CancelTripRequest(c)!(t)
      BY <2>3 DEF CancelTripRequest
    <3>2. t \in Trips
      BY <3>1 DEF CustomerTripIds, FoundForCustomer
    <3>3. SearchIsSound(u)
      BY <3>1 DEF SearchSound
    <3>4. \A d \in Drivers : u \in queue'[d] => u \in queue[d]
      BY <3>1, <3>2 DEF Without
    <3>5. CASE u = t
      <4>1. status'[u] = "DRAFT" /\ shown' = shown
        BY <3>1, <3>2, <3>5
      <4>2. ASSUME NEW d \in Drivers, u \in shown[d] PROVE u \in told'[d]
        <5>1. d \in called[u] \/ u \in told[d]
          BY <3>3, <4>2 DEF SearchIsSound, MayAccept
        <5> QED
          BY <3>1, <3>2, <3>5, <4>2, <5>1 DEF TellTaken
      <4> QED
        BY <3>3, <3>4, <4>1, <4>2 DEF SearchIsSound
    <3>6. CASE u # t
      <4>1. UNCHANGED <<called[u], rejected[u], timers[u], status[u], shown>>
        BY <3>1, <3>2, <3>6
      <4>2. \A d \in Drivers : u \in told[d] => u \in told'[d]
        BY <3>1, <3>2 DEF TellTaken
      <4> QED
        BY <3>3, <3>4, <4>1, <4>2, SearchFrame DEF Waiting
    <3> QED
      BY <3>5, <3>6
  <2>4. CASE DeleteActiveTrip(c)
    <3>1. u \notin stale /\ SameSearch
      BY <2>4 DEF DeleteActiveTrip, Waiting
    <3> QED
      BY <1>0, <3>1
  <2>5. ASSUME NEW late \in BOOLEAN, NEW charged \in BOOLEAN,
               CancelTripByCustomer(c, late, charged)
        PROVE SearchIsSound(u)'
    <3>1. PICK t \in CustomerTripIds(c) : CancelTripByCustomer(c, late, charged)!(t)
      BY <2>5 DEF CancelTripByCustomer
    <3>2. t \in Trips
      BY <3>1 DEF CustomerTripIds, FoundForCustomer
    <3>3. status[t] # "WAITING_FOR_DRIVER"
      BY <3>1, <3>2 DEF DriverlessSearch, RequestCancellable
    <3>4. UNCHANGED searchVars
      BY <3>1
    <3>5. status'[u] = IF u = t THEN status'[t] ELSE status[u]
      BY <3>1, <3>2
    <3>6. status'[t] # "WAITING_FOR_DRIVER"
      BY <3>1, <3>2
    <3>7. u \notin stale /\ SameSearch
      BY <3>2, <3>3, <3>4, <3>5, <3>6 DEF Waiting
    <3> QED
      BY <1>0, <3>7
  <2>6. CASE RetryCancelTripByCustomer(c)
    <3>1. PICK t \in CustomerTripIds(c) : RetryCancelTripByCustomer(c)!(t)
      BY <2>6 DEF RetryCancelTripByCustomer
    <3>2. t \in Trips
      BY <3>1 DEF CustomerTripIds, FoundForCustomer
    <3>3. UNCHANGED searchVars /\ status' = [status EXCEPT ![t] = status'[t]]
      BY <3>1, <3>2
    <3>4. status[t] # "WAITING_FOR_DRIVER" /\ status'[t] # "WAITING_FOR_DRIVER"
      BY <3>1, <3>2
    <3>5. u \notin stale /\ SameSearch
      BY <3>2, <3>3, <3>4 DEF Waiting
    <3> QED
      BY <1>0, <3>5
  <2> QED
    BY <1>1, <2>1, <2>2, <2>3, <2>4, <2>5, <2>6 DEF CustomerStep
<1>2. ASSUME NEW d \in Drivers, DriverStep(d) PROVE SearchIsSound(u)'
  <2>1. ASSUME NEW t \in Trips, DeclineTrip(t, d) PROVE SearchIsSound(u)'
    <3>1. SearchIsSound(u)
      BY <2>1 DEF DeclineTrip, SearchSound
    <3>2. \A e \in Drivers : /\ u \in shown'[e] => u \in shown[e]
                             /\ u \in queue'[e] => u \in queue[e]
                             /\ u \in told[e] => u \in told'[e] \/ u \notin shown'[e]
      BY <2>1 DEF DeclineTrip, Without
    <3>3. CASE u = t
      <4>1. Waiting(u) /\ rejected'[u] = rejected[u] \cup {d} /\ UNCHANGED <<called, timers>>
        BY <2>1, <3>3 DEF DeclineTrip, Waiting
      <4>2. u \notin shown'[d] /\ u \notin queue'[d]
        BY <2>1, <3>3 DEF DeclineTrip, Without
      <4>3. /\ status'[u] \in {"WAITING_FOR_DRIVER", "DRIVER_NOT_FOUND"}
            /\ status'[u] = "DRIVER_NOT_FOUND" => called[u] \subseteq rejected'[u]
        BY <2>1, <3>3 DEF DeclineTrip
      <4>4. d \in called[u]
        BY <2>1, <3>1, <3>3, <4>1 DEF DeclineTrip, SearchIsSound, Waiting
      <4> QED
        BY <3>1, <3>2, <4>1, <4>2, <4>3, <4>4, RejectionKeepsSearch
    <3>4. CASE u # t
      <4>1. /\ UNCHANGED <<called[u], rejected[u], timers[u], status[u]>>
            /\ \A e \in Drivers : /\ u \in shown'[e] <=> u \in shown[e]
                                  /\ u \in told'[e] <=> u \in told[e]
        BY <2>1, <3>4 DEF DeclineTrip, Without
      <4> QED
        BY <3>1, <3>2, <4>1, SearchFrame DEF Waiting
    <3> QED
      BY <3>3, <3>4
  <2>2. ASSUME NEW t \in Trips, ApproveTrip(t, d) PROVE SearchIsSound(u)'
    <3>1. SearchIsSound(u)
      BY <2>2 DEF ApproveTrip, SearchSound
    <3>2. /\ \A e \in Drivers : u \in queue'[e] => u \in queue[e] /\ e # d
          /\ called' = called
      BY <2>2 DEF ApproveTrip
    <3>3. CASE u = t
      <4>1. status'[u] = "APPROVED"
        BY <2>2, <3>3 DEF ApproveTrip
      <4>2. ASSUME NEW e \in Drivers, u \in shown'[e] PROVE u \in shown[e] /\ u \in told'[e]
        <5>1. e # d /\ u \in shown[e]
          BY <2>2, <3>3, <4>2 DEF ApproveTrip, Without
        <5>2. e \in called[u] \ rejected[u] \/ u \in told[e]
          BY <3>1, <5>1 DEF SearchIsSound, MayAccept
        <5> QED
          BY <2>2, <3>3, <5>1, <5>2 DEF ApproveTrip, TellTaken, Without
      <4> QED
        BY <3>1, <3>2, <4>1, <4>2 DEF SearchIsSound
    <3>4. CASE u # t
      <4>1. /\ UNCHANGED <<status[u], timers[u]>>
            /\ \A e \in Drivers : /\ u \in shown'[e] <=> u \in shown[e]
                                  /\ u \in told'[e] <=> u \in told[e]
        BY <2>2, <3>4 DEF ApproveTrip, TellTaken, Without
      <4>2. CASE u \in queue[d] /\ Waiting(u)
        <5>1. rejected'[u] = rejected[u] \cup {d}
          BY <2>2, <3>4, <4>2 DEF ApproveTrip, Waiting
        <5>2. d \in called[u] /\ u \notin shown[d]
          BY <3>1, <4>2 DEF SearchIsSound, MayAccept, Waiting
        <5> QED
          BY <3>1, <3>2, <4>1, <4>2, <5>1, <5>2, RejectionKeepsSearch DEF Waiting
      <4>3. CASE ~ (u \in queue[d] /\ Waiting(u))
        <5>1. rejected'[u] = rejected[u]
          BY <2>2, <3>4, <4>3 DEF ApproveTrip, Waiting
        <5> QED
          BY <3>1, <3>2, <4>1, <5>1, SearchFrame DEF Waiting
      <4> QED
        BY <4>2, <4>3
    <3> QED
      BY <3>3, <3>4
  <2>3. CASE GetDriverActiveTrip(d) \/ DriverKeyExpires(d)
    BY <1>0, <2>3 DEF GetDriverActiveTrip, DriverKeyExpires, Waiting
  <2>4. ASSUME NEW to \in DriverActive, DriverMoves(d, to) PROVE SearchIsSound(u)'
    <3>1. PICK t \in DriverTripIds(d) : DriverMoves(d, to)!(t)
      BY <2>4 DEF DriverMoves
    <3>2. t \in Trips /\ status[t] \notin RequestCancellable
      BY <3>1, DriverTripIsAccepted
    <3>3. u \notin stale /\ SameSearch
      BY <3>1, <3>2 DEF DriverActive, RequestCancellable, Waiting
    <3> QED
      BY <1>0, <3>3
  <2>5. CASE StartPickup(d) \/ ArrivePickup(d) \/ StartTrip(d)
    BY <2>4, <2>5 DEF StartPickup, ArrivePickup, StartTrip, DriverActive
  <2>6. CASE ArrivedStop(d)
    <3>1. PICK t \in DriverTripIds(d) : ArrivedStop(d)!(t)
      BY <2>6 DEF ArrivedStop
    <3>2. t \in Trips /\ status[t] \notin RequestCancellable
      BY <3>1, DriverTripIsAccepted
    <3>3. u \notin stale /\ SameSearch
      BY <3>1, <3>2 DEF RequestCancellable, Waiting
    <3> QED
      BY <1>0, <3>3
  <2>7. CASE CancelTripByDriver(d)
    <3>1. PICK t \in DriverTripIds(d) : CancelTripByDriver(d)!(t)
      BY <2>7 DEF CancelTripByDriver
    <3>2. t \in Trips /\ status[t] \notin RequestCancellable
      BY <3>1, DriverTripIsAccepted
    <3>3. u \notin stale /\ SameSearch
      BY <3>1, <3>2 DEF RequestCancellable, Waiting
    <3> QED
      BY <1>0, <3>3
  <2>8. CASE DriverConnects(d) \/ DriverDisconnects(d)
    BY <1>0, <2>8 DEF DriverConnects, DriverDisconnects, Waiting
  <2>9. ASSUME NEW to \in {"AVAILABLE", "BUSY"}, UpdateAvailability(d, to) PROVE SearchIsSound(u)'
    BY <1>0, <2>9 DEF UpdateAvailability, Waiting
  <2> QED
    BY <1>2, <2>1, <2>2, <2>3, <2>5, <2>6, <2>7, <2>8, <2>9 DEF DriverStep
<1>3. ASSUME NEW t \in Trips, BackgroundStep(t) PROVE SearchIsSound(u)'
  <2>1. ASSUME NEW d \in Drivers, AskDriver(t, d) PROVE SearchIsSound(u)'
    <3>1. SearchIsSound(u)
      BY <2>1 DEF AskDriver, SearchSound
    <3>2. UNCHANGED <<status, called, rejected>>
      BY <2>1 DEF AskDriver
    <3>3. CASE u = t
      <4>1. /\ u \in queue[d] /\ u \notin shown[d] /\ timers'[u] = timers[u] \cup {d}
            /\ Waiting(u) => d \in MayAccept(u)
        BY <2>1, <3>1, <3>3 DEF AskDriver, SearchIsSound, Waiting
      <4>2. /\ \A e \in Drivers \ {d} : /\ u \in shown'[e] <=> u \in shown[e]
                                        /\ u \in told'[e] <=> u \in told[e]
                                        /\ u \in queue'[e] <=> u \in queue[e]
            /\ u \notin queue'[d] /\ (u \in shown'[d] => Waiting(u))
        BY <2>1, <3>3, <4>1 DEF AskDriver, Without, Waiting
      <4>3. MayAccept(u)' = MayAccept(u) /\ (Waiting(u) => MayAccept(u) \subseteq called[u])
        BY <3>2 DEF MayAccept
      <4>4. ASSUME NEW e \in Drivers, u \in shown'[e] PROVE e \in MayAccept(u)' \/ u \in told'[e]
        <5>1. CASE e = d
          BY <4>1, <4>2, <4>3, <4>4, <5>1
        <5>2. CASE e # d
          BY <3>1, <4>2, <4>3, <4>4, <5>2 DEF SearchIsSound
        <5> QED
          BY <5>1, <5>2
      <4>5. ASSUME NEW e \in Drivers, u \in queue'[e] PROVE u \in queue[e] /\ u \notin shown'[e]
        BY <3>1, <4>2, <4>5 DEF SearchIsSound
      <4>6. ASSUME Waiting(u), NEW e \in Drivers, u \in shown'[e] PROVE e \in called[u]
        BY <3>1, <4>1, <4>2, <4>3, <4>6 DEF SearchIsSound, Waiting
      <4>7. Waiting(u) => rejected[u] \cup timers'[u] \subseteq called[u]
        BY <3>1, <4>1, <4>3 DEF SearchIsSound, Waiting
      <4> QED
        BY <3>1, <3>2, <4>3, <4>4, <4>5, <4>6, <4>7 DEF SearchIsSound, Waiting
    <3>4. CASE u # t
      <4>1. /\ timers'[u] = timers[u]
            /\ \A e \in Drivers : /\ u \in shown'[e] <=> u \in shown[e]
                                  /\ u \in told'[e] <=> u \in told[e]
                                  /\ u \in queue'[e] <=> u \in queue[e]
        BY <2>1, <3>4 DEF AskDriver, Without
      <4> QED
        BY <3>1, <3>2, <4>1, SearchFrame DEF Waiting
    <3> QED
      BY <3>3, <3>4
  <2>2. ASSUME NEW d \in Drivers, DriverTimesOut(t, d) PROVE SearchIsSound(u)'
    <3>0. SearchIsSound(u)
      BY <2>2 DEF DriverTimesOut, SearchSound
    <3>1. CASE ~ (status[t] = "WAITING_FOR_DRIVER" /\ driver[t] # d /\ d \notin rejected[t])
      <4>1. UNCHANGED <<status, called, rejected, queue, shown, told>> /\ timers'[u] \subseteq timers[u]
        BY <2>2, <3>1 DEF DriverTimesOut
      <4>2. MayAccept(u)' = MayAccept(u)
        BY <4>1 DEF MayAccept
      <4> QED
        BY <3>0, <4>1, <4>2 DEF SearchIsSound
    <3>2. CASE status[t] = "WAITING_FOR_DRIVER" /\ driver[t] # d /\ d \notin rejected[t]
      <4>1. /\ called' = called /\ shown' = shown
            /\ \A e \in Drivers : /\ u \in queue'[e] => u \in queue[e]
                                  /\ u \in told[e] => u \in told'[e]
        BY <2>2, <3>2 DEF DriverTimesOut, TellTaken, Without
      <4>2. CASE u # t
        <5>1. UNCHANGED <<status[u], rejected[u], timers[u]>>
          BY <2>2, <3>2, <4>2 DEF DriverTimesOut
        <5> QED
          BY <3>0, <4>1, <5>1, SearchFrame DEF Waiting
      <4>3. CASE u = t
        <5>1. /\ rejected'[u] = rejected[u] \cup {d} /\ timers'[u] \subseteq timers[u]
              /\ u \notin queue'[d] /\ (u \in shown'[d] => u \in told'[d])
          BY <2>2, <3>2, <4>3 DEF DriverTimesOut, TellTaken, Without
        <5>2. d \in called[u] /\ rejected'[u] \subseteq called[u]
          BY <2>2, <3>0, <3>2, <4>3, <5>1 DEF DriverTimesOut, SearchIsSound
        <5>3. /\ status'[u] \in {"WAITING_FOR_DRIVER", "DRIVER_NOT_FOUND"}
              /\ status'[u] = "DRIVER_NOT_FOUND" =>
                    Cardinality(rejected'[u]) = Cardinality(called[u])
          BY <2>2, <3>2, <4>3 DEF DriverTimesOut
        <5>4. status'[u] = "DRIVER_NOT_FOUND" => called[u] \subseteq rejected'[u]
          <6>1. IsFiniteSet(called[u])
            BY FS_Subset, TripAssumption
          <6>2. Cardinality(rejected'[u]) = Cardinality(called[u]) => rejected'[u] = called[u]
            BY <5>2, <6>1, FS_Subset
          <6> QED
            BY <5>3, <6>2
        <5> QED
          BY <3>0, <3>2, <4>1, <4>3, <5>1, <5>2, <5>3, <5>4, RejectionKeepsSearch DEF Waiting
      <4> QED
        BY <4>2, <4>3
    <3> QED
      BY <3>1, <3>2
  <2>3. ASSUME NEW d \in Drivers, TakenArrives(t, d) PROVE SearchIsSound(u)'
    <3>1. SearchIsSound(u) /\ UNCHANGED <<status, called, rejected, queue, timers>>
      BY <2>3 DEF TakenArrives, SearchSound
    <3>2. \A e \in Drivers : /\ u \in shown'[e] => u \in shown[e]
                             /\ u \in told[e] => u \in told'[e] \/ u \notin shown'[e]
      BY <2>3 DEF TakenArrives, Without
    <3>3. MayAccept(u)' = MayAccept(u)
      BY <3>1 DEF MayAccept
    <3> QED
      BY <3>1, <3>2, <3>3 DEF SearchIsSound
  <2>4. ASSUME NEW event \in {"succeeded", "failed"}, StripeSettles(t, event) PROVE SearchIsSound(u)'
    BY <1>0, <2>4 DEF StripeSettles, Waiting
  <2>5. CASE HandlePaymentSuccess(t) \/ HandlePaymentFailure(t)
    <3>1. hooks[t] # {}
      BY <2>5 DEF HandlePaymentSuccess, HandlePaymentFailure
    <3>2. status[t] # "WAITING_FOR_DRIVER"
      BY <3>1 DEF OnlyFaresCharged, TakenIsAccepted, RequestCancellable
    <3>3. u \notin stale /\ SameSearch
      BY <2>5, <3>2 DEF HandlePaymentSuccess, HandlePaymentFailure, Waiting
    <3> QED
      BY <1>0, <3>3
  <2> QED
    BY <1>3, <2>1, <2>2, <2>3, <2>4, <2>5 DEF BackgroundStep
<1>4. CASE UNCHANGED vars
  BY <1>0, <1>4 DEF vars, Waiting
<1> QED
  BY <1>1, <1>2, <1>3, <1>4 DEF Next

-----------------------------------------------------------------------------
(* How a step changes the status of a trip.                                *)
LEMMA StatusStep ==
    ASSUME TypeOK, DriverKeySound, OnlyFaresCharged, DriverlessSearch,
           [Next]_vars, NEW u \in Trips \ taken, status'[u] # status[u]
    PROVE  OrderlyMove(status[u], status'[u])
<1> DEFINE Orderly == OrderlyMove(status[u], status'[u])
<1> USE DEF TypeOK, keyVars, moneyVars, searchVars
<1>1. ASSUME NEW c \in Customers, CustomerStep(c) PROVE Orderly
  <2>1. CASE GetCustomerActiveTrip(c) \/ CustomerKeyExpires(c) \/ ProcessTripPayment(c)
    BY <2>1 DEF GetCustomerActiveTrip, CustomerKeyExpires, ProcessTripPayment
  <2>2. ASSUME NEW t \in Trips, NEW ds \in SUBSET Drivers, RequestDriver(c, t, ds) PROVE Orderly
    BY <2>2 DEF RequestDriver, OrderlyMove, Requestable
  <2>3. CASE CancelTripRequest(c)
    BY <2>3 DEF CancelTripRequest, CustomerTripIds, FoundForCustomer, OrderlyMove
  <2>4. CASE DeleteActiveTrip(c)
    BY <2>4 DEF DeleteActiveTrip, OrderlyMove, RequestCancellable
  <2>5. ASSUME NEW late \in BOOLEAN, NEW charged \in BOOLEAN,
               CancelTripByCustomer(c, late, charged)
        PROVE Orderly
    <3>1. PICK t \in CustomerTripIds(c) : CancelTripByCustomer(c, late, charged)!(t)
      BY <2>5 DEF CancelTripByCustomer
    <3>2. t \in Trips
      BY <3>1 DEF CustomerTripIds, FoundForCustomer
    <3>3. status[t] \in DriverCancellable
      BY <3>1, <3>2 DEF DriverlessSearch, CustomerCancellable
    <3>4. u = t /\ status'[u] \in {"CANCELLED", "CANCELLED_PAYMENT"}
      BY <3>1, <3>2
    <3> QED
      BY <3>3, <3>4 DEF OrderlyMove
  <2>6. CASE RetryCancelTripByCustomer(c)
    <3>1. PICK t \in CustomerTripIds(c) : RetryCancelTripByCustomer(c)!(t)
      BY <2>6 DEF RetryCancelTripByCustomer
    <3>2. t \in Trips
      BY <3>1 DEF CustomerTripIds, FoundForCustomer
    <3>3. CASE status[t] = "CANCELLED_PAYMENT"
      BY <3>1, <3>2, <3>3 DEF OrderlyMove
    <3>4. CASE status[t] # "CANCELLED_PAYMENT"
      BY <3>1, <3>2, <3>4 DEF OrderlyMove
    <3> QED
      BY <3>3, <3>4
  <2> QED
    BY <1>1, <2>1, <2>2, <2>3, <2>4, <2>5, <2>6 DEF CustomerStep
<1>2. ASSUME NEW d \in Drivers, DriverStep(d) PROVE Orderly
  <2>1. ASSUME NEW t \in Trips, DeclineTrip(t, d) PROVE Orderly
    BY <2>1 DEF DeclineTrip, OrderlyMove
  <2>2. ASSUME NEW t \in Trips, ApproveTrip(t, d) PROVE Orderly
    BY <2>2 DEF ApproveTrip, CanTransition, StatusTransitions, Statuses, OrderlyMove
  <2>3. CASE GetDriverActiveTrip(d) \/ DriverKeyExpires(d)
    BY <2>3 DEF GetDriverActiveTrip, DriverKeyExpires
  <2>4. ASSUME NEW to \in DriverActive, DriverMoves(d, to) PROVE Orderly
    BY <2>4, DriverTripIsOwn DEF DriverMoves, OrderlyMove
  <2>5. CASE StartPickup(d) \/ ArrivePickup(d) \/ StartTrip(d)
    BY <2>4, <2>5 DEF StartPickup, ArrivePickup, StartTrip, DriverActive
  <2>6. CASE ArrivedStop(d)
    BY <2>6, DriverTripIsOwn DEF ArrivedStop, OrderlyMove
  <2>7. CASE CancelTripByDriver(d)
    BY <2>7, DriverTripIsOwn DEF CancelTripByDriver, OrderlyMove
  <2>8. CASE DriverConnects(d) \/ DriverDisconnects(d)
    BY <2>8 DEF DriverConnects, DriverDisconnects
  <2>9. ASSUME NEW to \in {"AVAILABLE", "BUSY"}, UpdateAvailability(d, to) PROVE Orderly
    BY <2>9 DEF UpdateAvailability
  <2> QED
    BY <1>2, <2>1, <2>2, <2>3, <2>5, <2>6, <2>7, <2>8, <2>9 DEF DriverStep
<1>3. ASSUME NEW t \in Trips, BackgroundStep(t) PROVE Orderly
  <2>1. ASSUME NEW d \in Drivers, AskDriver(t, d) \/ TakenArrives(t, d) PROVE Orderly
    BY <2>1 DEF AskDriver, TakenArrives
  <2>2. ASSUME NEW d \in Drivers, DriverTimesOut(t, d) PROVE Orderly
    BY <2>2 DEF DriverTimesOut, OrderlyMove
  <2>3. ASSUME NEW event \in {"succeeded", "failed"}, StripeSettles(t, event) PROVE Orderly
    BY <2>3 DEF StripeSettles
  <2>4. CASE HandlePaymentSuccess(t) \/ HandlePaymentFailure(t)
    BY <2>4 DEF HandlePaymentSuccess, HandlePaymentFailure, OnlyFaresCharged, OrderlyMove
  <2> QED
    BY <1>3, <2>1, <2>2, <2>3, <2>4 DEF BackgroundStep
<1>4. CASE UNCHANGED vars
  BY <1>4 DEF vars
<1> QED
  BY <1>1, <1>2, <1>3, <1>4 DEF Next

(* When a ride ends, its driver's key goes.                                *)
LEMMA RideEnds ==
    ASSUME TypeOK, DriverKeySound, OnlyFaresCharged, DriverlessSearch,
           [Next]_vars, NEW u \in Trips \ taken,
           status[u] \in DriverActive, status'[u] \notin DriverActive, driver[u] # NoDriver
    PROVE  activeD'[driver[u]] = NoTrip
<1> DEFINE Gone == activeD'[driver[u]] = NoTrip
<1> USE DEF TypeOK, keyVars, moneyVars, searchVars
<1>0. status'[u] \in {"PAYMENT", "CANCELLED", "CANCELLED_PAYMENT"}
  BY StatusStep DEF OrderlyMove, DriverActive, DriverCancellable, RequestCancellable, Requestable
<1>1. ASSUME NEW c \in Customers, CustomerStep(c) PROVE Gone
  <2>1. CASE GetCustomerActiveTrip(c) \/ CustomerKeyExpires(c) \/ ProcessTripPayment(c)
    BY <2>1 DEF GetCustomerActiveTrip, CustomerKeyExpires, ProcessTripPayment
  <2>2. ASSUME NEW t \in Trips, NEW ds \in SUBSET Drivers, RequestDriver(c, t, ds) PROVE Gone
    BY <1>0, <2>2 DEF RequestDriver
  <2>3. CASE CancelTripRequest(c) \/ DeleteActiveTrip(c)
    BY <1>0, <2>3 DEF CancelTripRequest, DeleteActiveTrip, CustomerTripIds, FoundForCustomer
  <2>4. ASSUME NEW late \in BOOLEAN, NEW charged \in BOOLEAN,
               CancelTripByCustomer(c, late, charged)
        PROVE Gone
    <3>1. PICK t \in CustomerTripIds(c) : CancelTripByCustomer(c, late, charged)!(t)
      BY <2>4 DEF CancelTripByCustomer
    <3>2. t = u
      BY <3>1 DEF CustomerTripIds, FoundForCustomer
    <3> QED
      BY <3>1, <3>2
  <2>5. CASE RetryCancelTripByCustomer(c)
    <3>1. PICK t \in CustomerTripIds(c) : RetryCancelTripByCustomer(c)!(t)
      BY <2>5 DEF RetryCancelTripByCustomer
    <3>2. t = u
      BY <3>1 DEF CustomerTripIds, FoundForCustomer
    <3> QED
      BY <3>1, <3>2 DEF DriverActive
  <2> QED
    BY <1>1, <2>1, <2>2, <2>3, <2>4, <2>5 DEF CustomerStep
<1>2. ASSUME NEW d \in Drivers, DriverStep(d) PROVE Gone
  <2>1. ASSUME NEW t \in Trips, DeclineTrip(t, d) \/ ApproveTrip(t, d) PROVE Gone
    BY <1>0, <2>1 DEF DeclineTrip, ApproveTrip, DriverActive
  <2>2. CASE GetDriverActiveTrip(d) \/ DriverKeyExpires(d)
    BY <2>2 DEF GetDriverActiveTrip, DriverKeyExpires
  <2>3. CASE StartPickup(d) \/ ArrivePickup(d) \/ StartTrip(d)
    BY <2>3, DriverTripIsOwn
       DEF StartPickup, ArrivePickup, StartTrip, DriverMoves, DriverActive
  <2>4. CASE ArrivedStop(d)
    BY <2>4, DriverTripIsOwn DEF ArrivedStop
  <2>5. CASE CancelTripByDriver(d)
    BY <2>5, DriverTripIsOwn DEF CancelTripByDriver
  <2>6. CASE DriverConnects(d) \/ DriverDisconnects(d)
    BY <2>6 DEF DriverConnects, DriverDisconnects
  <2>7. ASSUME NEW to \in {"AVAILABLE", "BUSY"}, UpdateAvailability(d, to) PROVE Gone
    BY <2>7 DEF UpdateAvailability
  <2> QED
    BY <1>2, <2>1, <2>2, <2>3, <2>4, <2>5, <2>6, <2>7 DEF DriverStep
<1>3. ASSUME NEW t \in Trips, BackgroundStep(t) PROVE Gone
  <2>1. ASSUME NEW d \in Drivers, AskDriver(t, d) \/ TakenArrives(t, d) PROVE Gone
    BY <2>1 DEF AskDriver, TakenArrives
  <2>2. ASSUME NEW d \in Drivers, DriverTimesOut(t, d) PROVE Gone
    BY <1>0, <2>2 DEF DriverTimesOut
  <2>3. ASSUME NEW event \in {"succeeded", "failed"}, StripeSettles(t, event) PROVE Gone
    BY <2>3 DEF StripeSettles
  <2>4. CASE HandlePaymentSuccess(t) \/ HandlePaymentFailure(t)
    BY <1>0, <2>4 DEF HandlePaymentSuccess, HandlePaymentFailure
  <2> QED
    BY <1>3, <2>1, <2>2, <2>3, <2>4 DEF BackgroundStep
<1>4. CASE UNCHANGED vars
  BY <1>4 DEF vars
<1> QED
  BY <1>1, <1>2, <1>3, <1>4 DEF Next

-----------------------------------------------------------------------------
(* Who writes what: the only handlers that name a driver, that open a      *)
(* search, that give Redis a new active-trip key, and that involve Stripe. *)
NamesDriver(t) == \E d \in Drivers : ApproveTrip(t, d)
OpensSearch(t) == \E ds \in SUBSET Drivers : RequestDriver(Owner[t], t, ds)

LEMMA Writers ==
    ASSUME TypeOK, [Next]_vars
    PROVE  /\ \A t \in Trips : driver'[t] # driver[t] => NamesDriver(t)
           /\ \A t \in Trips :
                 status'[t] = "WAITING_FOR_DRIVER" => Waiting(t) \/ OpensSearch(t)
           /\ \A c \in Customers :
                 \/ activeC'[c] \in {activeC[c], NoTrip}
                 \/ activeC'[c] \in FoundForCustomer(c) /\ UNCHANGED status
                 \/ Owner[activeC'[c]] = c /\ OpensSearch(activeC'[c])
           /\ \A d \in Drivers :
                 \/ activeD'[d] \in {activeD[d], NoTrip}
                 \/ activeD'[d] \in FoundForDriver(d) /\ UNCHANGED <<status, driver>>
                 \/ activeD'[d] \in Trips /\ ApproveTrip(activeD'[d], d)
           /\ \A t \in Trips :
                 open'[t] > 0 \/ hooks'[t] # {} =>
                     \/ open[t] > 0 \/ hooks[t] # {}
                     \/ status[t] = "PAYMENT" /\ driver[t] # NoDriver
<1> DEFINE Drv == \A t \in Trips : driver'[t] # driver[t] => NamesDriver(t)
           Wait == \A t \in Trips :
                     status'[t] = "WAITING_FOR_DRIVER" => Waiting(t) \/ OpensSearch(t)
           KeyC == \A c \in Customers :
                     \/ activeC'[c] \in {activeC[c], NoTrip}
                     \/ activeC'[c] \in FoundForCustomer(c) /\ UNCHANGED status
                     \/ Owner[activeC'[c]] = c /\ OpensSearch(activeC'[c])
           KeyD == \A d \in Drivers :
                     \/ activeD'[d] \in {activeD[d], NoTrip}
                     \/ activeD'[d] \in FoundForDriver(d) /\ UNCHANGED <<status, driver>>
                     \/ activeD'[d] \in Trips /\ ApproveTrip(activeD'[d], d)
           Fare == \A t \in Trips :
                     open'[t] > 0 \/ hooks'[t] # {} =>
                         \/ open[t] > 0 \/ hooks[t] # {}
                         \/ status[t] = "PAYMENT" /\ driver[t] # NoDriver
           All == Drv /\ Wait /\ KeyC /\ KeyD /\ Fare
<1> USE TripAssumption DEF TypeOK, keyVars, moneyVars, searchVars
<1>1. ASSUME NEW c \in Customers, CustomerStep(c) PROVE All
  <2>1. CASE GetCustomerActiveTrip(c)
    BY <2>1 DEF GetCustomerActiveTrip, CustomerLookUp, LookUp, OneOf, Waiting
  <2>2. ASSUME NEW t \in Trips, NEW ds \in SUBSET Drivers, RequestDriver(c, t, ds) PROVE All
    <3>1. Owner[t] = c /\ OpensSearch(t)
      BY <2>2 DEF RequestDriver, OpensSearch
    <3>2. \A u \in Trips \ {t} : status'[u] = status[u]
      BY <2>2 DEF RequestDriver
    <3>3. activeC'[c] = t /\ \A e \in Customers \ {c} : activeC'[e] = activeC[e]
      BY <2>2 DEF RequestDriver
    <3>4. UNCHANGED <<driver, activeD, open, hooks>>
      BY <2>2 DEF RequestDriver
    <3> QED
      BY <3>1, <3>2, <3>3, <3>4 DEF Waiting
  <2>3. CASE CancelTripRequest(c)
    BY <2>3 DEF CancelTripRequest, CustomerTripIds, FoundForCustomer, Waiting
  <2>4. CASE DeleteActiveTrip(c)
    BY <2>4 DEF DeleteActiveTrip, Waiting
  <2>5. ASSUME NEW late \in BOOLEAN, NEW charged \in BOOLEAN,
               CancelTripByCustomer(c, late, charged)
        PROVE All
    <3>1. PICK t \in CustomerTripIds(c) : CancelTripByCustomer(c, late, charged)!(t)
      BY <2>5 DEF CancelTripByCustomer
    <3>2. t \in Trips
      BY <3>1 DEF CustomerTripIds, FoundForCustomer
    <3>3. \A u \in Trips : status'[u] \in {status[u], "CANCELLED", "CANCELLED_PAYMENT"}
      BY <3>1, <3>2
    <3>4. \A e \in Customers : activeC'[e] \in {activeC[e], NoTrip}
      BY <3>1, <3>2
    <3>5. \A e \in Drivers : activeD'[e] \in {activeD[e], NoTrip}
      BY <3>1, <3>2
    <3>6. UNCHANGED <<driver, open, hooks>>
      BY <3>1
    <3> QED
      BY <3>3, <3>4, <3>5, <3>6 DEF Waiting
  <2>6. CASE RetryCancelTripByCustomer(c)
    <3>1. PICK t \in CustomerTripIds(c) : RetryCancelTripByCustomer(c)!(t)
      BY <2>6 DEF RetryCancelTripByCustomer
    <3>2. t \in Trips
      BY <3>1 DEF CustomerTripIds, FoundForCustomer
    <3>3. \A u \in Trips : status'[u] \in {status[u], "CANCELLED", "COMPLETED"}
      BY <3>1, <3>2
    <3>4. UNCHANGED <<driver, activeD, open, hooks>>
      BY <3>1
    <3>5. \A e \in Customers : activeC'[e] \in {activeC[e], NoTrip}
      BY <3>1
    <3> QED
      BY <3>3, <3>4, <3>5 DEF Waiting
  <2>7. CASE ProcessTripPayment(c)
    <3>1. PICK t \in Trips, k \in Trips \cup {NoTrip} : ProcessTripPayment(c)!(t, k)
      BY <2>7 DEF ProcessTripPayment
    <3>2. UNCHANGED <<status, driver, activeD, hooks>> /\ \A u \in Trips \ {t} : open'[u] = open[u]
      BY <3>1
    <3>3. k = activeC[c] \/ k = NoTrip \/ k \in FoundForCustomer(c)
      BY <3>1 DEF CustomerLookUp, LookUp, OneOf
    <3>4. KeyC
      BY <3>1, <3>2, <3>3
    <3>5. Fare
      BY <3>1, <3>2
    <3> QED
      BY <3>2, <3>4, <3>5 DEF Waiting
  <2>8. CASE CustomerKeyExpires(c)
    BY <2>8 DEF CustomerKeyExpires, Waiting
  <2> QED
    BY <1>1, <2>1, <2>2, <2>3, <2>4, <2>5, <2>6, <2>7, <2>8 DEF CustomerStep
<1>2. ASSUME NEW d \in Drivers, DriverStep(d) PROVE All
  <2>1. ASSUME NEW t \in Trips, DeclineTrip(t, d) PROVE All
    BY <2>1 DEF DeclineTrip, Waiting
  <2>2. ASSUME NEW t \in Trips, ApproveTrip(t, d) PROVE All
    <3>1. \A u \in Trips \ {t} : status'[u] = status[u] /\ driver'[u] = driver[u]
      BY <2>2 DEF ApproveTrip
    <3>2. status'[t] = "APPROVED" /\ NamesDriver(t)
      BY <2>2 DEF ApproveTrip, NamesDriver
    <3>3. activeD'[d] = t /\ \A e \in Drivers \ {d} : activeD'[e] = activeD[e]
      BY <2>2 DEF ApproveTrip
    <3>4. UNCHANGED <<activeC, open, hooks>>
      BY <2>2 DEF ApproveTrip
    <3> QED
      BY <2>2, <3>1, <3>2, <3>3, <3>4 DEF Waiting
  <2>3. CASE GetDriverActiveTrip(d)
    BY <2>3 DEF GetDriverActiveTrip, DriverLookUp, LookUp, OneOf, Waiting
  <2>4. CASE StartPickup(d) \/ ArrivePickup(d) \/ StartTrip(d)
    BY <2>4 DEF StartPickup, ArrivePickup, StartTrip, DriverMoves, DriverTripIds, FoundForDriver,
                Waiting
  <2>5. CASE ArrivedStop(d)
    BY <2>5 DEF ArrivedStop, DriverTripIds, FoundForDriver, Waiting
  <2>6. CASE CancelTripByDriver(d)
    BY <2>6 DEF CancelTripByDriver, DriverTripIds, FoundForDriver, Waiting
  <2>7. CASE DriverConnects(d) \/ DriverDisconnects(d) \/ DriverKeyExpires(d)
    BY <2>7 DEF DriverConnects, DriverDisconnects, DriverKeyExpires, Waiting
  <2>8. ASSUME NEW to \in {"AVAILABLE", "BUSY"}, UpdateAvailability(d, to) PROVE All
    BY <2>8 DEF UpdateAvailability, Waiting
  <2> QED
    BY <1>2, <2>1, <2>2, <2>3, <2>4, <2>5, <2>6, <2>7, <2>8 DEF DriverStep
<1>3. ASSUME NEW t \in Trips, BackgroundStep(t) PROVE All
  <2>1. ASSUME NEW d \in Drivers, AskDriver(t, d) \/ TakenArrives(t, d) PROVE All
    BY <2>1 DEF AskDriver, TakenArrives, Waiting
  <2>2. ASSUME NEW d \in Drivers, DriverTimesOut(t, d) PROVE All
    BY <2>2 DEF DriverTimesOut, Waiting
  <2>3. ASSUME NEW event \in {"succeeded", "failed"}, StripeSettles(t, event) PROVE All
    BY <2>3 DEF StripeSettles, Waiting
  <2>4. CASE HandlePaymentSuccess(t)
    BY <2>4 DEF HandlePaymentSuccess, Waiting
  <2>5. CASE HandlePaymentFailure(t)
    BY <2>5 DEF HandlePaymentFailure, Waiting
  <2> QED
    BY <1>3, <2>1, <2>2, <2>3, <2>4, <2>5 DEF BackgroundStep
<1>4. CASE UNCHANGED vars
  BY <1>4 DEF vars, Waiting
<1> QED
  BY <1>1, <1>2, <1>3, <1>4 DEF Next

(* A trip counts as taken over once it is accepted out of turn.            *)
LEMMA TakenStep ==
    ASSUME TypeOK, [Next]_vars
    PROVE  taken \subseteq taken' /\ \A t \in taken' \ taken : NamesDriver(t)
<1> USE DEF TypeOK, searchVars
<1>1. ASSUME NEW c \in Customers, CustomerStep(c) PROVE taken' = taken
  BY <1>1 DEF CustomerStep, GetCustomerActiveTrip, RequestDriver, CancelTripRequest,
       DeleteActiveTrip, CancelTripByCustomer, RetryCancelTripByCustomer, ProcessTripPayment,
       CustomerKeyExpires
<1>2. ASSUME NEW d \in Drivers, DriverStep(d), ~ \E t \in Trips : ApproveTrip(t, d)
      PROVE  taken' = taken
  BY <1>2 DEF DriverStep, DeclineTrip, GetDriverActiveTrip, StartPickup, ArrivePickup,
       StartTrip, DriverMoves, ArrivedStop, CancelTripByDriver, DriverConnects,
       DriverDisconnects, UpdateAvailability, DriverKeyExpires
<1>3. ASSUME NEW d \in Drivers, NEW t \in Trips, ApproveTrip(t, d)
      PROVE  taken' \in {taken, taken \cup {t}} /\ NamesDriver(t)
  BY <1>3 DEF ApproveTrip, NamesDriver
<1>4. ASSUME NEW t \in Trips, BackgroundStep(t) PROVE taken' = taken
  BY <1>4 DEF BackgroundStep, AskDriver, DriverTimesOut, TakenArrives, StripeSettles,
       HandlePaymentSuccess, HandlePaymentFailure
<1>5. CASE UNCHANGED vars
  BY <1>5 DEF vars
<1> QED
  BY <1>1, <1>2, <1>3, <1>4, <1>5 DEF Next

-----------------------------------------------------------------------------
(* The inductive invariant, part by part.                                  *)
Orderly ==
    /\ TypeOK
    /\ SearchSound
    /\ DriverKeySound
    /\ OnlyFaresCharged
    /\ DriverlessSearch
    /\ TakenIsAccepted
    /\ CustomerKeySound
    /\ OneRidePerCustomer

LEMMA DriverKeyInductive ==
    ASSUME Orderly, [Next]_vars
    PROVE  DriverKeySound'
<1> USE DEF Orderly
<1> SUFFICES ASSUME NEW d \in Drivers, activeD'[d] \in Trips \ taken'
             PROVE  driver'[activeD'[d]] = d /\ status'[activeD'[d]] \in DriverActive
    BY DEF DriverKeySound
<1>1. CASE activeD'[d] \in FoundForDriver(d) /\ UNCHANGED <<status, driver>>
  BY <1>1 DEF FoundForDriver
<1>2. CASE activeD'[d] \in Trips /\ ApproveTrip(activeD'[d], d)
  BY <1>2 DEF ApproveTrip, TypeOK, DriverActive
<1>3. CASE activeD'[d] = activeD[d]
  <2> DEFINE t == activeD[d]
  <2>1. t \in Trips \ taken /\ driver[t] = d /\ status[t] \in DriverActive
    BY <1>3, TakenStep DEF DriverKeySound
  <2>2. status'[t] \in DriverActive
    <3>1. driver[t] # NoDriver
      BY <2>1, TripAssumption
    <3> QED
      BY <1>3, <2>1, <3>1, RideEnds, TripAssumption
  <2>3. driver'[t] = driver[t]
    <3>1. ~ NamesDriver(t)
      BY <1>3, <2>1 DEF NamesDriver, ApproveTrip, DriverActive
    <3> QED
      BY <2>1, <3>1, Writers
  <2> QED
    BY <1>3, <2>1, <2>2, <2>3
<1> QED
  BY <1>1, <1>2, <1>3, Writers, TripAssumption

(* A trip whose fare is due, paid or has failed stays one of these.        *)
FareDue == {"PAYMENT", "PAYMENT_RETRY", "COMPLETED"}

LEMMA FareStays ==
    ASSUME TypeOK, [Next]_vars, NEW u \in Trips, status[u] \in FareDue
    PROVE  status'[u] \in FareDue
<1> DEFINE Due == status'[u] \in FareDue
<1> USE DEF TypeOK, keyVars, searchVars, moneyVars, FareDue
<1>1. ASSUME NEW c \in Customers, CustomerStep(c) PROVE Due
  <2>1. CASE GetCustomerActiveTrip(c) \/ CustomerKeyExpires(c) \/ ProcessTripPayment(c)
    BY <2>1 DEF GetCustomerActiveTrip, CustomerKeyExpires, ProcessTripPayment
  <2>2. ASSUME NEW t \in Trips, NEW ds \in SUBSET Drivers, RequestDriver(c, t, ds) PROVE Due
    BY <2>2 DEF RequestDriver, Requestable
  <2>3. CASE CancelTripRequest(c) \/ DeleteActiveTrip(c)
    BY <2>3 DEF CancelTripRequest, DeleteActiveTrip, CustomerTripIds, FoundForCustomer,
         RequestCancellable
  <2>4. ASSUME NEW late \in BOOLEAN, NEW charged \in BOOLEAN,
               CancelTripByCustomer(c, late, charged)
        PROVE Due
    <3>1. PICK t \in CustomerTripIds(c) : CancelTripByCustomer(c, late, charged)!(t)
      BY <2>4 DEF CancelTripByCustomer
    <3>2. t # u
      BY <3>1 DEF CustomerCancellable, RequestCancellable, DriverCancellable
    <3>3. status'[u] = status[u]
      BY <3>1, <3>2 DEF CustomerTripIds, FoundForCustomer
    <3> QED
      BY <3>3
  <2>5. CASE RetryCancelTripByCustomer(c)
    BY <2>5 DEF RetryCancelTripByCustomer, CustomerTripIds, FoundForCustomer
  <2> QED
    BY <1>1, <2>1, <2>2, <2>3, <2>4, <2>5 DEF CustomerStep
<1>2. ASSUME NEW d \in Drivers, DriverStep(d) PROVE Due
  <2>1. ASSUME NEW t \in Trips, DeclineTrip(t, d) \/ ApproveTrip(t, d) PROVE Due
    BY <2>1 DEF DeclineTrip, ApproveTrip, CanTransition, StatusTransitions, Statuses
  <2>2. CASE GetDriverActiveTrip(d) \/ DriverKeyExpires(d)
    BY <2>2 DEF GetDriverActiveTrip, DriverKeyExpires
  <2>3. CASE StartPickup(d) \/ ArrivePickup(d) \/ StartTrip(d)
    BY <2>3 DEF StartPickup, ArrivePickup, StartTrip, DriverMoves, DriverTripIds, FoundForDriver,
         CanTransition, StatusTransitions, Statuses
  <2>4. CASE ArrivedStop(d)
    BY <2>4 DEF ArrivedStop, DriverTripIds, FoundForDriver
  <2>5. CASE CancelTripByDriver(d)
    BY <2>5 DEF CancelTripByDriver, DriverTripIds, FoundForDriver, DriverCancellable
  <2>6. CASE DriverConnects(d) \/ DriverDisconnects(d)
    BY <2>6 DEF DriverConnects, DriverDisconnects
  <2>7. ASSUME NEW to \in {"AVAILABLE", "BUSY"}, UpdateAvailability(d, to) PROVE Due
    BY <2>7 DEF UpdateAvailability
  <2> QED
    BY <1>2, <2>1, <2>2, <2>3, <2>4, <2>5, <2>6, <2>7 DEF DriverStep
<1>3. ASSUME NEW t \in Trips, BackgroundStep(t) PROVE Due
  <2>1. ASSUME NEW d \in Drivers, AskDriver(t, d) \/ TakenArrives(t, d) PROVE Due
    BY <2>1 DEF AskDriver, TakenArrives
  <2>2. ASSUME NEW d \in Drivers, DriverTimesOut(t, d) PROVE Due
    BY <2>2 DEF DriverTimesOut
  <2>3. ASSUME NEW event \in {"succeeded", "failed"}, StripeSettles(t, event) PROVE Due
    BY <2>3 DEF StripeSettles
  <2>4. CASE HandlePaymentSuccess(t) \/ HandlePaymentFailure(t)
    BY <2>4 DEF HandlePaymentSuccess, HandlePaymentFailure
  <2> QED
    BY <1>3, <2>1, <2>2, <2>3, <2>4 DEF BackgroundStep
<1>4. CASE UNCHANGED vars
  BY <1>4 DEF vars
<1> QED
  BY <1>1, <1>2, <1>3, <1>4 DEF Next

LEMMA FaresInductive ==
    ASSUME Orderly, [Next]_vars
    PROVE  OnlyFaresCharged'
<1> USE DEF Orderly
<1> SUFFICES ASSUME NEW t \in Trips, open'[t] > 0 \/ hooks'[t] # {}
             PROVE  /\ status'[t] \in {"PAYMENT", "PAYMENT_RETRY", "COMPLETED"}
                    /\ driver'[t] # NoDriver
    BY DEF OnlyFaresCharged
<1>1. status[t] \in {"PAYMENT", "PAYMENT_RETRY", "COMPLETED"} /\ driver[t] # NoDriver
  BY Writers DEF OnlyFaresCharged
<1>2. status'[t] \in {"PAYMENT", "PAYMENT_RETRY", "COMPLETED"}
  BY <1>1, FareStays DEF FareDue
<1>3. ~ NamesDriver(t)
  BY <1>1 DEF NamesDriver, ApproveTrip, CanTransition, StatusTransitions, Statuses
<1> QED
  BY <1>1, <1>2, <1>3, Writers

LEMMA DriverlessInductive ==
    ASSUME Orderly, [Next]_vars
    PROVE  DriverlessSearch'
<1> USE DEF Orderly
<1> SUFFICES ASSUME NEW t \in Trips, status'[t] \in RequestCancellable
             PROVE  driver'[t] = NoDriver
    BY DEF DriverlessSearch
<1>1. status[t] \in RequestCancellable
  BY SearchIsNotResumed
<1>2. ASSUME NEW d \in Drivers, ApproveTrip(t, d) PROVE FALSE
  <2>1. status'[t] = "APPROVED"
    BY <1>2 DEF ApproveTrip, TypeOK
  <2> QED
    BY <2>1 DEF RequestCancellable
<1> QED
  BY <1>1, <1>2, Writers DEF DriverlessSearch, NamesDriver

LEMMA TakenInductive ==
    ASSUME Orderly, [Next]_vars
    PROVE  TakenIsAccepted'
<1> USE DEF Orderly
<1> SUFFICES ASSUME NEW t \in taken' PROVE status'[t] \notin RequestCancellable
    BY DEF TakenIsAccepted
<1>0. t \in Trips
  BY TypeInductive DEF TypeOK
<1>1. CASE t \in taken
  BY <1>0, <1>1, SearchIsNotResumed DEF TakenIsAccepted
<1>2. CASE NamesDriver(t)
  BY <1>0, <1>2 DEF NamesDriver, ApproveTrip, RequestCancellable, TypeOK
<1> QED
  BY <1>0, <1>1, <1>2, TakenStep

(* A trip that becomes Live was just searched for, and no other trip of    *)
(* the customer was Live.                                                  *)
LEMMA NewRideIsOnlyRide ==
    ASSUME Orderly, [Next]_vars, NEW t \in Trips \ taken,
           status'[t] \in Live, status[t] \notin Live
    PROVE  /\ activeC'[Owner[t]] = t
           /\ \A u \in Trips \ {t} : status'[u] = status[u]
           /\ \A u \in Trips \ (taken \cup {t}) : Owner[u] = Owner[t] => status[u] \notin Live
<1> USE TripAssumption DEF Orderly
<1>1. status'[t] = "WAITING_FOR_DRIVER" /\ ~ Waiting(t)
  BY StatusStep
     DEF OrderlyMove, Live, CustomerUnique, DriverActive, DriverCancellable, RequestCancellable,
         Requestable, Waiting
<1>2. PICK ds \in SUBSET Drivers : RequestDriver(Owner[t], t, ds)
  BY <1>1, Writers DEF OpensSearch
<1>3. activeC'[Owner[t]] = t /\ \A u \in Trips \ {t} : status'[u] = status[u]
  BY <1>2 DEF RequestDriver, TypeOK
<1>4. ASSUME NEW u \in Trips \ (taken \cup {t}), Owner[u] = Owner[t], status[u] \in Live PROVE FALSE
  <2> DEFINE c == Owner[t]
  <2>1. c \in Customers
    OBVIOUS
  <2>2. u \in FoundForCustomer(c)
    BY <1>4 DEF FoundForCustomer, Live, CustomerActive
  <2>3. CASE \E k \in Trips \cup {NoTrip} : CustomerLookUp(c, NoTrip, k)
    <3>1. PICK k \in Trips \cup {NoTrip} : CustomerLookUp(c, NoTrip, k)
      BY <2>3
    <3>2. OneOf(FoundForCustomer(c), NoTrip)
      BY <3>1 DEF CustomerLookUp, LookUp
    <3>3. NoTrip \notin FoundForCustomer(c)
      BY DEF FoundForCustomer
    <3> QED
      BY <2>2, <3>2, <3>3 DEF OneOf
  <2>4. CASE /\ status[t] = "DRIVER_NOT_FOUND"
             /\ \E k \in Trips \cup {NoTrip} : CustomerLookUp(c, t, k)
    <3>1. t \notin FoundForCustomer(c)
      BY <2>4 DEF FoundForCustomer, CustomerActive, CustomerUnique, DriverActive
    <3>2. activeC[c] = t
      BY <2>2, <2>4, <3>1 DEF CustomerLookUp, LookUp, OneOf
    <3> QED
      BY <1>4, <2>1, <2>4, <3>2 DEF CustomerKeySound
  <2> QED
    BY <1>2, <2>3, <2>4 DEF RequestDriver
<1> QED
  BY <1>3, <1>4

LEMMA OneRideInductive ==
    ASSUME Orderly, [Next]_vars
    PROVE  OneRidePerCustomer'
<1> USE DEF Orderly
<1> SUFFICES ASSUME NEW t \in Trips \ taken', NEW u \in Trips \ taken', Owner[t] = Owner[u],
                    status'[t] \in Live, status'[u] \in Live, t # u
             PROVE  FALSE
    BY DEF OneRidePerCustomer
<1>0. t \notin taken /\ u \notin taken
  BY TakenStep
<1>1. CASE status[t] \notin Live
  BY <1>0, <1>1, NewRideIsOnlyRide
<1>2. CASE status[u] \notin Live
  BY <1>0, <1>2, NewRideIsOnlyRide
<1> QED
  BY <1>0, <1>1, <1>2 DEF OneRidePerCustomer

LEMMA CustomerKeyInductive ==
    ASSUME Orderly, [Next]_vars
    PROVE  CustomerKeySound'
<1> USE TripAssumption DEF Orderly
<1> SUFFICES ASSUME NEW c \in Customers, activeC'[c] # NoTrip
             PROVE  /\ Owner[activeC'[c]] = c
                    /\ status'[activeC'[c]] = "DRIVER_NOT_FOUND" =>
                          \A u \in Trips \ (taken' \cup {activeC'[c]}) :
                              Owner[u] = c => status'[u] \notin Live
    BY DEF CustomerKeySound
<1>0. TypeOK'
  BY TypeInductive
<1> DEFINE k == activeC'[c]
<1>1. k \in Trips
  BY <1>0 DEF TypeOK
<1>2. CASE k \in FoundForCustomer(c) /\ UNCHANGED status
  BY <1>2 DEF FoundForCustomer, CustomerActive, CustomerUnique, DriverActive
<1>3. CASE Owner[k] = c /\ OpensSearch(k)
  <2>1. status'[k] = "WAITING_FOR_DRIVER"
    BY <1>1, <1>3 DEF OpensSearch, RequestDriver, TypeOK
  <2> QED
    BY <1>3, <2>1
<1>4. CASE k = activeC[c]
  <2>1. Owner[k] = c
    BY <1>4 DEF CustomerKeySound
  <2>2. ASSUME status'[k] = "DRIVER_NOT_FOUND",
               NEW u \in Trips \ (taken' \cup {k}), Owner[u] = c, status'[u] \in Live
        PROVE  FALSE
    <3>0. u \notin taken /\ k \notin taken
      <4>1. u \notin taken
        BY <2>2, TakenStep
      <4>2. status[k] \in RequestCancellable
        BY <1>1, <2>2, SearchIsNotResumed DEF RequestCancellable
      <4> QED
        BY <4>1, <4>2 DEF TakenIsAccepted
    <3>1. status[u] \in Live
      BY <1>4, <2>2, <3>0, NewRideIsOnlyRide
    <3>2. status[k] # "DRIVER_NOT_FOUND"
      BY <1>4, <2>2, <3>0, <3>1 DEF CustomerKeySound
    <3>3. status[k] = "WAITING_FOR_DRIVER"
      BY <1>1, <2>2, <3>0, <3>2, StatusStep DEF OrderlyMove, DriverActive
    <3> QED
      BY <1>1, <2>1, <2>2, <3>0, <3>1, <3>3 DEF OneRidePerCustomer, Live, CustomerUnique
  <2> QED
    BY <2>1, <2>2
<1> QED
  BY <1>2, <1>3, <1>4, Writers

LEMMA OrderlyInductive ==
    ASSUME Orderly, [Next]_vars
    PROVE  Orderly'
BY TypeInductive, SearchInductive, DriverKeyInductive, FaresInductive, DriverlessInductive,
   TakenInductive, OneRideInductive, CustomerKeyInductive
   DEF Orderly

LEMMA OrderlyInit == Init => Orderly
<1> SUFFICES ASSUME Init PROVE Orderly
    OBVIOUS
<1>1. TypeOK
  BY TripAssumption DEF Init, TypeOK, Statuses, Availability
<1>2. SearchSound /\ DriverKeySound /\ OnlyFaresCharged /\ DriverlessSearch
  BY TripAssumption DEF Init, SearchSound, SearchIsSound, MayAccept, DriverKeySound, OnlyFaresCharged,
       DriverlessSearch
<1>3. TakenIsAccepted /\ CustomerKeySound /\ OneRidePerCustomer
  BY DEF Init, TakenIsAccepted, CustomerKeySound, OneRidePerCustomer, Live, CustomerUnique, DriverActive
<1> QED
  BY <1>1, <1>2, <1>3 DEF Orderly

LEMMA OrderlyAlways == Spec => []Orderly
<1>1. Orderly /\ [Next]_vars => Orderly'
  BY OrderlyInductive
<1> QED
  BY <1>1, OrderlyInit, PTL DEF Spec

(* A customer never has two trips going, although the active-trip key can  *)
(* expire at any time and the unique index only refuses equal statuses; of *)
(* trips that two drivers took nothing is said.                            *)
THEOREM OneRidePerCustomerAlways == Spec => []OneRidePerCustomer
<1>1. Orderly => OneRidePerCustomer
  BY DEF Orderly
<1> QED
  BY <1>1, OrderlyAlways, PTL

(* The driver's active-trip key names that driver's own ride, or one that  *)
(* another driver took over, so the handlers that obey it move no others.  *)
THEOREM DriverKeySoundAlways == Spec => []DriverKeySound
<1>1. Orderly => DriverKeySound
  BY DEF Orderly
<1> QED
  BY <1>1, OrderlyAlways, PTL

(* In a search that began clean, only drivers who were called and have not *)
(* rejected are asked, and whoever cannot accept any more will be told.    *)
THEOREM SearchSoundAlways == Spec => []SearchSound
<1>1. Orderly => SearchSound
  BY DEF Orderly
<1> QED
  BY <1>1, OrderlyAlways, PTL

(* Stripe is never asked for the fare of a trip that is looking for a      *)
(* driver, under way or cancelled, even one that two drivers took.         *)
THEOREM OnlyFaresChargedAlways == Spec => []OnlyFaresCharged
<1>1. Orderly => OnlyFaresCharged
  BY DEF Orderly
<1> QED
  BY <1>1, OrderlyAlways, PTL

(* Every status change is one of OrderlyMove, unless two drivers took the  *)
(* trip: finished and cancelled trips are not revived, though arrivedStop  *)
(* and the payment events look at no status.                               *)
THEOREM StatusIsOrderlyAlways == Spec => StatusIsOrderly
<1>1. Orderly /\ [Next]_vars =>
        [\A t \in Trips \ taken :
            status'[t] # status[t] => OrderlyMove(status[t], status'[t])]_vars
  BY StatusStep DEF Orderly
<1> QED
  BY <1>1, OrderlyAlways, PTL DEF Spec, StatusIsOrderly

(* A trip changes hands only while TRIP_ALREADY_TAKEN is under way to its  *)
(* new driver, or by a request left over from an earlier search, which     *)
(* approveTrip, not looking at trip.driver, accepts.                       *)
THEOREM TakenOverInTimeAlways == Spec => TakenOverInTime
<1>1. ASSUME Orderly, [Next]_vars, NEW t \in Trips, driver'[t] # driver[t]
      PROVE  \/ status[t] = "WAITING_FOR_DRIVER"
             \/ t \in told[driver'[t]]
             \/ t \in stale
  <2>1. PICK d \in Drivers : ApproveTrip(t, d)
    BY <1>1, Writers DEF Orderly, NamesDriver
  <2>2. driver'[t] = d /\ t \in shown[d]
    BY <1>1, <2>1 DEF ApproveTrip, Orderly, TypeOK
  <2>3. t \notin stale => d \in MayAccept(t) \/ t \in told[d]
    BY <1>1, <2>2 DEF Orderly, SearchSound, SearchIsSound
  <2> QED
    BY <2>2, <2>3 DEF MayAccept
<1>2. Orderly /\ [Next]_vars =>
        [\A t \in Trips :
            driver'[t] # driver[t] => \/ status[t] = "WAITING_FOR_DRIVER"
                                     \/ t \in told[driver'[t]]
                                     \/ t \in stale]_vars
  BY <1>1
<1> QED
  BY <1>2, OrderlyAlways, PTL DEF Spec, TakenOverInTime
=============================================================================
