\* A driver accepts one trip with another in the queue.
CONSTANTS
  d1 = d1
  d2 = d2
  d3 = d3
  Trips = {1, 2}
  Drivers = {d1, d2}
  Accepting = {d1, d2}
  NoTrip = NoTrip
  MaxNext = 3
  MaxSearches = 2
  KeysExpire = FALSE
  Crashes = FALSE
SPECIFICATION Spec
SYMMETRY DriversOnly
INVARIANTS
  AllRejectedEndsSearch
