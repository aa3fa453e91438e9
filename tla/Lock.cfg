\* Three requests on two names; a lease may run out under its operation.
CONSTANTS
  Requests = {r1, r2, r3}
  Keys = {k1, k2}
  Nobody = Nobody
  MaxRetries = 2
SPECIFICATION FairSpec
INVARIANTS
  MutualExclusion
PROPERTIES
  LockComesBack
  ImplementsMutex
