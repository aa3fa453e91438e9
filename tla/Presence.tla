------------------------------ MODULE Presence ------------------------------
EXTENDS Naturals
(***************************************************************************)
(* What Redis knows of the presence of one driver: app state, availability *)
(* key, and the location record with its copy of the availability.         *)
(* DriverStatusService, LocationService, NearbySearchService and the parts *)
(* of WebSocketGateway and WebSocketService that call them.  Drivers share *)
(* nothing, and the driver is taken to be in the geo index, which nothing  *)
(* takes anyone out of.  The "active" marks are written together with the  *)
(* app state and no code that runs reads them: they are left out.          *)
(*                                                                         *)
(* Each handler is a task of its own, and a step is one command to Redis.  *)
(***************************************************************************)
CONSTANTS
    Sockets,     \* connections of the driver's app, each opened once
    NoSocket,
    MaxEvents    \* bound: what the app posts, taps and sends, rides, forced log-outs,
                 \* crashes and failed calls to Redis, in all

VARIABLES
    at,        \* at[t]: the next step of task t
    old,       \* old[s]: the recorded socket that s replaces, or NoSocket
    live,      \* sockets whose transport is open
    app,       \* Redis: the app state; "none" for any but FOREGROUND
    status,    \* Redis: the availability key, or "none"
    loc,       \* Redis: the location record's availabilityStatus; "plain" for any
               \* but AVAILABLE, "claimed" for an AVAILABLE the app has put there
    writing,   \* updateDriverAvailability calls under way
    ride,      \* is the driver on a ride?
    heard,     \* history: since the app state was last deleted it was written
               \* without a connection, or the deletion failed, or the server died
    late,      \* history: since the availability was last deleted AVAILABLE was
               \* written without a connection or over another status, or the
               \* deletion failed, or the server died
    events     \* how many of the bounded events there have been

vars == <<at, old, live, app, status, loc, writing, ride, heard, late, events>>

\* handleConnection, handleDisconnect and forceLogoutUser of a socket.
Tasks == {"opens", "closes", "ends"} \X Sockets
Steps == {"idle", "forget", "look", "erase", "joined", "done"}
AppStates == {"FOREGROUND", "BACKGROUND"}
Statuses == {"AVAILABLE", "BUSY", "ON_TRIP"}
Writes == [step : {"key", "copy"}, status : Statuses]

TypeOK ==
    /\ at \in [Tasks -> Steps]
    /\ old \in [Sockets -> Sockets \cup {NoSocket}]
    /\ live \subseteq Sockets
    /\ app \in {"none", "FOREGROUND"}
    /\ status \in Statuses \cup {"none"}
    /\ loc \in {"none", "plain", "claimed", "AVAILABLE"}
    /\ writing \subseteq Writes
    /\ ride \in BOOLEAN
    /\ heard \in BOOLEAN /\ late \in BOOLEAN
    /\ events \in Nat

Init ==
    /\ at = [t \in Tasks |-> "idle"]
    /\ old = [s \in Sockets |-> NoSocket]
    /\ live = {} /\ writing = {}
    /\ app = "none" /\ status = "none" /\ loc \in {"none", "plain"}
    /\ ride = FALSE
    /\ heard = FALSE /\ late = FALSE /\ events = 0

\* One of the bounded events.
Happens == events < MaxEvents /\ events' = events + 1

Opened(s) == at[<<"opens", s>>] # "idle"

\* What the search makes of the keys: the availability key when there is one,
\* else the copy in the location record.
CountsAsAvailable ==
    IF status = "none" THEN loc \in {"AVAILABLE", "claimed"}
                       ELSE status = "AVAILABLE"

\* findNearbyAvailableDrivers
Found == CountsAsAvailable

\* getDriverAvailability: an absent key reads as BUSY.
Availability == IF status = "none" THEN "BUSY" ELSE status

\* EventV2Service: an event goes to the user's room, else it is pushed.
UsesSocket == app = "FOREGROUND"

---------------------------------------------------------------------------
(* updateDriverAvailability: the key, then the copy, if there is a record. *)

StartWrite(st) == writing' = writing \cup {[step |-> "key", status |-> st]}

WriteKey(w) ==
    /\ w \in writing /\ w.step = "key"
    /\ status' = w.status
    /\ late' = (late \/ (w.status = "AVAILABLE" /\ live = {}))
    /\ writing' = (writing \ {w}) \cup {[w EXCEPT !.step = "copy"]}
    /\ UNCHANGED <<at, old, live, app, loc, ride, heard, events>>

WriteCopy(w) ==
    /\ w \in writing /\ w.step = "copy"
    /\ loc' = CASE loc = "none" -> loc
              [] w.status = "AVAILABLE" -> w.status
              [] OTHER -> "plain"
    /\ late' = (late \/ /\ w.status = "AVAILABLE"
                        /\ live = {} \/ status \in {"BUSY", "ON_TRIP"})
    /\ writing' = writing \ {w}
    /\ UNCHANGED <<at, old, live, app, status, ride, heard, events>>

---------------------------------------------------------------------------
(* Connecting.                                                             *)

\* handleConnection up to registerUserConnection, which finds the record of an
\* earlier socket, open or not, or finds none.
Connect(s) ==
    /\ ~Opened(s)
    /\ live' = live \cup {s}
    /\ \E o \in {u \in Sockets : Opened(u)} \cup {NoSocket} :
          /\ old' = [old EXCEPT ![s] = o]
          /\ at' = [at EXCEPT ![<<"opens", s>>] =
                        IF o = NoSocket THEN "joined" ELSE "forget"]
    /\ UNCHANGED <<app, status, loc, writing, ride, heard, late, events>>

\* setDriverAppStateOnConnect; and a driver is BUSY when a connection opens,
\* whatever the key says.
SetForeground(s) ==
    /\ at[<<"opens", s>>] = "joined"
    /\ app' = "FOREGROUND"
    /\ heard' = (heard \/ live = {})
    /\ StartWrite("BUSY")
    /\ at' = [at EXCEPT ![<<"opens", s>>] = "done"]
    /\ UNCHANGED <<old, live, status, loc, ride, late, events>>

---------------------------------------------------------------------------
(* Disconnecting.  A closed transport makes handleDisconnect clean up; and *)
(* forceDisconnectSocket does the same before it closes the transport.     *)

Closed(f, s) == IF s \in live THEN [f EXCEPT ![<<"closes", s>>] = "forget"] ELSE f

\* The app closes the connection, or its pings have stopped.
Drop(s) ==
    /\ s \in live
    /\ live' = live \ {s}
    /\ at' = Closed(at, s)
    /\ UNCHANGED <<old, app, status, loc, writing, ride, heard, late, events>>

\* forceLogoutUser has found s in the record, open or not.
ForceOut(s) ==
    /\ Happens
    /\ Opened(s) /\ at[<<"ends", s>>] = "idle"
    /\ at' = [at EXCEPT ![<<"ends", s>>] = "forget"]
    /\ UNCHANGED <<old, live, app, status, loc, writing, ride, heard, late>>

\* Mutant: the app state survives the connection.
ForgetAppStateNever(t) ==
    /\ at[t] = "forget"
    /\ at' = [at EXCEPT ![t] = "look"]
    /\ UNCHANGED <<old, live, app, status, loc, writing, ride, heard, late, events>>

\* setDriverAppStateOnDisconnect
ForgetAppState(t) ==
    /\ at[t] = "forget"
    /\ app' = "none" /\ heard' = FALSE
    /\ at' = [at EXCEPT ![t] = "look"]
    /\ UNCHANGED <<old, live, status, loc, writing, ride, late, events>>

\* Task t has cleaned up; unless handleDisconnect has, it closes the socket,
\* and handleConnection goes on.
CleanedUp(t) ==
    LET s == IF t[1] = "opens" THEN old[t[2]] ELSE t[2]
    IN  /\ live' = live \ {s}
        /\ old' = IF t[1] = "opens" THEN [old EXCEPT ![t[2]] = NoSocket] ELSE old
        /\ at' = Closed([at EXCEPT ![t] = IF t[1] = "opens" THEN "joined" ELSE "idle"], s)

\* A driver on a ride keeps the availability key.
LookAtAvailability(t) ==
    /\ at[t] = "look"
    /\ IF Availability = "ON_TRIP"
       THEN CleanedUp(t)
       ELSE at' = [at EXCEPT ![t] = "erase"] /\ UNCHANGED <<old, live>>
    /\ UNCHANGED << app, status, loc, writing, ride, heard, late, events>>

\* Mutant: only the key is deleted.
DeleteAvailabilityKey(t) ==
    /\ at[t] = "erase"
    /\ status' = "none"
    /\ CleanedUp(t)
    /\ UNCHANGED <<app, loc, writing, ride, heard, late, events>>

\* deleteDriverAvailability: the key and the copy, in one transaction.
DeleteAvailability(t) ==
    /\ at[t] = "erase"
    /\ status' = "none"
    /\ loc' = IF loc = "none" THEN loc ELSE "plain"
    /\ late' = FALSE
    /\ CleanedUp(t)
    /\ UNCHANGED <<app, writing, ride, heard, events>>

\* A call to Redis fails, which is not told: the cleanup goes on without it.
CleanupFails(t) ==
    \/ /\ Happens /\ at[t] = "forget"
       /\ at' = [at EXCEPT ![t] = "look"]
       /\ heard' = TRUE
       /\ UNCHANGED <<old, live, app, status, loc, writing, ride, late>>
    \/ /\ Happens /\ at[t] = "erase"
       /\ CleanedUp(t)
       /\ late' = TRUE
       /\ UNCHANGED <<app, status, loc, writing, ride, heard>>

---------------------------------------------------------------------------
(* What the app and the rides write.                                       *)

\* updateDriverAvailability message: canChangeAvailability refuses ON_TRIP.
AskAvailability(st) ==
    /\ Happens
    /\ live # {}
    /\ st # "ON_TRIP" /\ Availability # "ON_TRIP"
    /\ StartWrite(st)
    /\ UNCHANGED <<at, old, live, app, status, loc, ride, heard, late>>

\* The record is replaced.
StoreUserLocation(copy) ==
    /\ loc' = copy
    /\ UNCHANGED <<at, old, live, app, status, writing, ride, heard, late>>

\* updateLocation message: the new record has no copy.
MessageLocation == live # {} /\ Happens /\ StoreUserLocation("plain")

\* POST /location/driver: the record takes the status the app sends, or BUSY.
PostLocation(st) ==
    Happens /\ StoreUserLocation(IF st = "AVAILABLE" THEN "claimed" ELSE "plain")

\* PUT app-state
PostAppState(a) ==
    /\ Happens
    /\ app' = IF a = "FOREGROUND" THEN a ELSE "none"
    /\ heard' = (heard \/ (a = "FOREGROUND" /\ live = {}))
    /\ UNCHANGED <<at, old, live, status, loc, writing, ride, late>>

\* The driver accepts a trip.
RideStarts ==
    /\ Happens
    /\ ~ride
    /\ StartWrite("ON_TRIP")
    /\ ride' = TRUE
    /\ UNCHANGED <<at, old, live, app, status, loc, heard, late>>

\* The trip is paid or cancelled: AVAILABLE, connected or not.
RideEnds ==
    /\ ride
    /\ StartWrite("AVAILABLE")
    /\ ride' = FALSE
    /\ UNCHANGED <<at, old, live, app, status, loc, heard, late, events>>

---------------------------------------------------------------------------
(* Time and faults.                                                        *)

\* The keys' ttl: 30 minutes, 15 for the location record.
AppStateExpires ==
    /\ app # "none" /\ app' = "none"
    /\ UNCHANGED <<at, old, live, status, loc, writing, ride, heard, late, events>>

\* Mutant: the availability key has no ttl.
StatusExpiresNever == FALSE /\ UNCHANGED vars

StatusExpires ==
    /\ status # "none" /\ status' = "none"
    /\ UNCHANGED <<at, old, live, app, loc, writing, ride, heard, late, events>>

LocationExpires ==
    /\ loc # "none" /\ loc' = "none"
    /\ UNCHANGED <<at, old, live, app, status, writing, ride, heard, late, events>>

\* The server dies: its connections and handlers are lost, Redis is not.
Crash ==
    /\ Happens
    /\ live # {}
    /\ live' = {} /\ writing' = {}
    /\ at' = [t \in Tasks |-> IF t[1] = "opens" /\ Opened(t[2]) THEN "done" ELSE "idle"]
    /\ heard' = TRUE /\ late' = TRUE
    /\ UNCHANGED <<old, app, status, loc, ride>>

CleanupStep(t) ==
    \/ ForgetAppState(t) \/ LookAtAvailability(t) \/ DeleteAvailability(t)
    \/ CleanupFails(t)

Next ==
    \/ \E s \in Sockets : \/ Connect(s) \/ SetForeground(s) \/ Drop(s) \/ ForceOut(s)
    \/ \E t \in Tasks : CleanupStep(t)
    \/ \E w \in Writes : WriteKey(w) \/ WriteCopy(w)
    \/ \E st \in Statuses : AskAvailability(st) \/ PostLocation(st)
    \/ MessageLocation
    \/ \E a \in AppStates : PostAppState(a)
    \/ RideStarts \/ RideEnds
    \/ AppStateExpires \/ StatusExpires \/ LocationExpires
    \/ Crash

Spec == Init /\ [][Next]_vars

\* What is done, or what runs out, without the app.
ServerStep ==
    \/ \E s \in Sockets : SetForeground(s)
    \/ \E t \in Tasks : CleanupStep(t)
    \/ \E w \in Writes : WriteKey(w) \/ WriteCopy(w)
    \/ AppStateExpires \/ StatusExpires \/ LocationExpires

\* As long as a handler is at work or there is a key, there is such a step.
Fairness == WF_vars(ServerStep)

FairSpec == Spec /\ Fairness

---------------------------------------------------------------------------
\* No connection, and no handler at work.
Away ==
    /\ live = {} /\ writing = {}
    /\ \A t \in Tasks : at[t] \in {"idle", "done"}

\* A driver without a connection is offered no trip, unless since the cleanup
\* an update has still written AVAILABLE, the app has posted a location with
\* AVAILABLE in it, or the cleanup did not take place.
AwayIsNotFound == Away /\ Found => late \/ loc = "claimed"

\* The events of a driver without a connection are pushed, not sent to an
\* empty room, unless since the cleanup an app state was still written, or the
\* cleanup did not take place.
AwayIsPushed == Away /\ UsesSocket => heard

\* The app connects, or writes something, or a ride is ended for it.
AppActs ==
    \/ \E s \in Sockets : Connect(s)
    \/ \E st \in Statuses : AskAvailability(st) \/ PostLocation(st)
    \/ MessageLocation
    \/ \E a \in AppStates : PostAppState(a)
    \/ RideStarts \/ RideEnds

\* Whatever was lost in a crash or written late: a driver whose app is silent
\* from some time on is at last neither found nor sent events by socket.
GhostsVanish == []<><<AppActs>>_vars \/ <>[](~Found /\ ~UsesSocket)
=============================================================================
