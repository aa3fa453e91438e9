\* One trip, three drivers.
CONSTANTS
  t1 = t1
  t2 = t2
  c1 = c1
  c2 = c2
  d1 = d1
  d2 = d2
  d3 = d3
  Trips = {t1}
  Customers = {c1}
  Drivers = {d1, d2, d3}
  Owner <- OneTrip
  NoTrip = NoTrip
  NoDriver = NoDriver
  MaxIntents = 1
SPECIFICATION Spec
SYMMETRY TripsAndDrivers
INVARIANTS
  SearchSound
  OnlyFaresCharged
PROPERTIES
  StatusIsOrderly
  AcceptedIsNotUndone
  TakenOverInTime
