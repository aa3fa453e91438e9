\* One event of those that are bounded, in each component.  Tokens and sockets
\* run out, which ends the model, not the system.
CONSTANTS
  Devices = {d1, d2}
  Tokens = {t1, t2}
  Sockets = {s1, s2}
  NoToken = NoToken
  NoSession = NoSession
  NoSocket = NoSocket
  MaxEvents = 1
SPECIFICATION ConnectionsSpec
INVARIANTS
  ConnectionsTypeOK
  SocketsAreTracked
  AwayIsNotFound
  AwayIsPushed
PROPERTIES
  EndedIsDisconnected
  GhostsVanish
CHECK_DEADLOCK FALSE
