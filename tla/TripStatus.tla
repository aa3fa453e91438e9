----------------------------- MODULE TripStatus -----------------------------
(***************************************************************************)
(* The trip statuses, TripStatusService's transition table and the status  *)
(* lists the handlers, the repository and the database indexes go by.      *)
(* Constant-level: Trip.tla and the modules after it build on it.          *)
(***************************************************************************)

Statuses ==
    {"DRAFT", "WAITING_FOR_DRIVER", "DRIVER_NOT_FOUND", "APPROVED",
     "DRIVER_ON_WAY_TO_PICKUP", "ARRIVED_AT_PICKUP", "TRIP_IN_PROGRESS",
     "PAYMENT", "PAYMENT_RETRY", "COMPLETED", "CANCELLED_PAYMENT", "CANCELLED"}

(* statusTransitions: the statuses each status may be followed by.         *)
StatusTransitions == [s \in Statuses |->
    CASE s = "DRAFT"                   -> {"WAITING_FOR_DRIVER", "CANCELLED"}
      [] s = "WAITING_FOR_DRIVER"      -> {"DRIVER_NOT_FOUND", "APPROVED", "CANCELLED"}
      [] s = "DRIVER_NOT_FOUND"        -> {"WAITING_FOR_DRIVER", "CANCELLED", "DRAFT"}
      [] s = "APPROVED"                -> {"DRIVER_ON_WAY_TO_PICKUP", "CANCELLED"}
      [] s = "DRIVER_ON_WAY_TO_PICKUP" -> {"ARRIVED_AT_PICKUP", "CANCELLED"}
      [] s = "ARRIVED_AT_PICKUP"       -> {"TRIP_IN_PROGRESS", "CANCELLED"}
      [] s = "TRIP_IN_PROGRESS"        -> {"PAYMENT", "CANCELLED"}
      [] s = "PAYMENT"                 -> {"COMPLETED", "CANCELLED"}
      [] s = "PAYMENT_RETRY"           -> {"COMPLETED"}
      [] s = "CANCELLED_PAYMENT"       -> {"CANCELLED"}
      [] s \in {"COMPLETED", "CANCELLED"} -> {}]

(* canTransition: "If current and new status are the same, it's valid".    *)
CanTransition(from, to) == from = to \/ to \in StatusTransitions[from]

(* isTripCompleted: the trip no longer counts as anybody's active trip.    *)
Finished == {"COMPLETED", "CANCELLED"}

(* findActiveByDriverId, and the statuses unique per driver in the index.  *)
DriverActive ==
    {"APPROVED", "DRIVER_ON_WAY_TO_PICKUP", "ARRIVED_AT_PICKUP", "TRIP_IN_PROGRESS"}

(* The statuses unique per customer in the partial index of trip.schema.   *)
CustomerUnique == DriverActive \cup {"WAITING_FOR_DRIVER", "PAYMENT"}

(* findActiveByCustomerId.                                                 *)
CustomerActive == CustomerUnique \cup {"PAYMENT_RETRY", "CANCELLED_PAYMENT"}

(* findAndValidateRequestTrip.                                             *)
Requestable == {"DRAFT", "DRIVER_NOT_FOUND"}

(* validateTripRequestCancellableStatus.                                   *)
RequestCancellable == {"DRAFT", "WAITING_FOR_DRIVER", "DRIVER_NOT_FOUND"}

(* validateCancellableStatus: what a driver may cancel.                    *)
DriverCancellable == {"APPROVED", "DRIVER_ON_WAY_TO_PICKUP", "ARRIVED_AT_PICKUP"}

(* Mutant: the customer may still cancel when the fare is due.             *)
CustomerCancellableAtEnd == RequestCancellable \cup DriverCancellable \cup {"PAYMENT"}

(* validateCustomerCancellableStatus.                                      *)
CustomerCancellable == RequestCancellable \cup DriverCancellable
=============================================================================
