\* Two trips of one customer, one driver.
CONSTANTS
  t1 = t1
  t2 = t2
  c1 = c1
  c2 = c2
  d1 = d1
  d2 = d2
  d3 = d3
  Trips = {t1, t2}
  Customers = {c1}
  Drivers = {d1}
  Owner <- OneCustomer
  NoTrip = NoTrip
  NoDriver = NoDriver
  MaxIntents = 2
SPECIFICATION Spec
SYMMETRY TripsAndDrivers
INVARIANTS
  TypeOK
  RideHasDriver
  CompletedIsPaid
  PenaltySettled
  OneRidePerCustomer
