\* Two customers with a trip each, one driver.
CONSTANTS
  t1 = t1
  t2 = t2
  c1 = c1
  c2 = c2
  d1 = d1
  d2 = d2
  d3 = d3
  Trips = {t1, t2}
  Customers = {c1, c2}
  Drivers = {d1}
  Owner <- TwoCustomers
  NoTrip = NoTrip
  NoDriver = NoDriver
  MaxIntents = 2
SPECIFICATION Spec
SYMMETRY TripsWithCustomers
INVARIANTS
  DriverKeySound
