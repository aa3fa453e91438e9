\* Nobody accepts: every search comes to an end.
CONSTANTS
  d1 = d1
  d2 = d2
  d3 = d3
  Trips = {1, 2}
  Drivers = {d1, d2}
  Accepting = {}
  NoTrip = NoTrip
  MaxNext = 3
  MaxSearches = 2
  KeysExpire = FALSE
  Crashes = FALSE
SPECIFICATION FairSpec
PROPERTIES
  SearchEnds
