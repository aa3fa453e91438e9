\* Two trips, two drivers, two searches in all; servers crash.
CONSTANTS
  d1 = d1
  d2 = d2
  d3 = d3
  Trips = {1, 2}
  Drivers = {d1, d2}
  Accepting = {d1, d2}
  NoTrip = NoTrip
  MaxNext = 3
  MaxSearches = 2
  KeysExpire = TRUE
  Crashes = TRUE
SPECIFICATION Spec
SYMMETRY DriversOnly
INVARIANTS
  TypeOK
  CalledIsCovered
  NotFoundIsJustified
  ScreenIsCurrent
