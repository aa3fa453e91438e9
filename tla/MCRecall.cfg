\* Two requests to one driver, served by one or two callers.  Each trip calls
\* the driver once, which ends the model, not the system.
CONSTANTS
  Trips = {x1, x2}
  Callers = {c1, c2}
  NoTrip = NoTrip
SPECIFICATION RecallSpec
PROPERTY AskedIsRecalled
CHECK_DEADLOCK FALSE
