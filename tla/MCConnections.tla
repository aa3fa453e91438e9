---------------------------- MODULE MCConnections ----------------------------
(* The two components behind handleConnection and handleDisconnect, for    *)
(* TLC: a behaviour is one of a user's sessions and sockets (Session) or   *)
(* one of a driver's presence (Presence).                                  *)
EXTENDS Session

VARIABLES part, at, old, sockets, app, status, loc, writing, ride, heard, late, acts

P == INSTANCE Presence WITH live <- sockets, events <- acts

presenceVars == <<at, old, sockets, app, status, loc, writing, ride, heard, late, acts>>

ConnectionsInit ==
    /\ part \in {"session", "presence"}
    /\ Init /\ P!Init
    /\ part = "session" => loc = "none"

First(S) == CHOOSE x \in S : TRUE

\* Devices are alike, and sockets are: of those not used yet, always the same
\* one is the next.
SessionInOrder ==
    /\ fresh = Tokens => \A d \in Devices : held'[d] # NoToken => d = First(Devices)
    /\ \A s \in live' \ live : s = First({u \in Sockets : pc[u] = "new"})

PresenceInOrder ==
    \A s \in sockets' \ sockets : s = First({u \in Sockets : ~ P!Opened(u)})

\* The component that does not run stays as it is.
ConnectionsNext ==
    /\ UNCHANGED part
    /\ \/ part = "session" /\ Next /\ SessionInOrder /\ UNCHANGED presenceVars
       \/ part = "presence" /\ P!Next /\ PresenceInOrder /\ UNCHANGED vars

ConnectionsServerStep ==
    \/ part = "session" /\ ServerStep /\ UNCHANGED presenceVars
    \/ part = "presence" /\ P!ServerStep /\ UNCHANGED vars

ConnectionsSpec ==
    /\ ConnectionsInit /\ [][ConnectionsNext]_<<part, vars, presenceVars>>
    /\ WF_<<vars, presenceVars>>(ConnectionsServerStep)

\* The type invariants of both.
ConnectionsTypeOK == TypeOK /\ P!TypeOK

\* A driver: see AwayIsNotFound of Presence, about deleteDriverAvailability.
AwayIsNotFound == P!AwayIsNotFound

\* A driver: see AwayIsPushed of Presence, about setDriverAppStateOnDisconnect.
AwayIsPushed == P!AwayIsPushed

\* A driver: see GhostsVanish of Presence, about the keys' ttl.
GhostsVanish ==
    part = "presence" => P!GhostsVanish
=============================================================================
