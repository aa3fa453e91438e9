-------------------------- MODULE ConnectionsProofs --------------------------
(***************************************************************************)
(* Sessions, sockets and presence, whatever overtakes what and whichever   *)
(* calls fail: types; that the record finds every socket it has not lost   *)
(* (SocketsAreTracked); and that a driver who is gone is neither offered   *)
(* trips (AwayIsNotFound) nor sent events by socket (AwayIsPushed).        *)
(***************************************************************************)
EXTENDS MCConnections, TLAPS

-----------------------------------------------------------------------------
(* Sessions: types.                                                        *)

(* What a log-in or a log-out makes of the old session is well-typed.      *)
LEMMA EndedTypes ==
    ASSUME TypeOK, EndsSession
    PROVE  ended' \subseteq Tokens /\ early' \subseteq Sockets
BY DEF TypeOK, EndsSession, Sessions

(* Log-ins, log-outs and requests keep the types.                          *)
LEMMA UserStepTypes ==
    ASSUME TypeOK, NEW d \in Devices, UserStep(d)
    PROVE  TypeOK'
<1>1. ASSUME NEW t \in Tokens, SignsUp(d, t) \/ SignsIn(d, t)
      PROVE  TypeOK'
  <2>1. /\ UNCHANGED <<touching, socketVars, kicked, events>>
        /\ code' = FALSE /\ fresh' = fresh \ {t} /\ held' = [held EXCEPT ![d] = t]
        /\ session' = [token |-> t, device |-> d] /\ expiring' = TRUE
        /\ forced' \in {forced + 1, forced}
        /\ EndsSession
    BY <1>1 DEF SignsUp, SignsIn, TakesCode, ReplaceActiveToken, ExecuteForceLogout,
                HandleForceLogoutRequested
  <2>2. session' \in Sessions /\ forced' \in Nat
    BY <2>1 DEF TypeOK, Sessions
  <2> QED
    BY <2>1, <2>2, EndedTypes DEF TypeOK, socketVars, recordVars
<1>2. ASSUME LogOut(d)
      PROVE  TypeOK'
  BY <1>2, EndedTypes DEF TypeOK, LogOut, HandleManualLogout, Happens, socketVars, recordVars
<1>3. ASSUME Request(d)
      PROVE  TypeOK'
  BY <1>3 DEF TypeOK, Request, IsCurrent, Happens, tokenVars, socketVars, recordVars, kickVars
<1>4. ASSUME NEW s \in Sockets, Connect(s, d)
      PROVE  TypeOK'
  BY <1>4 DEF TypeOK, Connect, IsCurrent, tokenVars, recordVars, kickVars, Progress
<1> QED
  BY <1>1, <1>2, <1>3, <1>4
  DEF UserStep, CompleteCustomerSignup, CompleteCustomerSignin, CompleteDriverSignup,
      CompleteDriverSignin

(* So do the steps of handleConnection, handleDisconnect and the others.   *)
LEMMA SocketStepTypes ==
    ASSUME TypeOK, NEW s \in Sockets, SocketStep(s)
    PROVE  TypeOK'
<1> USE DEF TypeOK, tokenVars, recordVars, kickVars, Overwrites
<1>1. CASE ReadRecord(s)
  BY <1>1 DEF ReadRecord, Progress
<1>2. CASE Register(s)
  BY <1>2 DEF Register, Progress
<1>3. CASE RegisterFails(s)
  <2>1. missed' \subseteq Sockets /\ record' \in Sockets \cup {NoSocket} /\ timed' \in BOOLEAN
    BY <1>3 DEF RegisterFails
  <2> QED
    BY <1>3, <2>1 DEF RegisterFails, Happens, Progress
<1>4. CASE ReplaceOld(s)
  BY <1>4 DEF ReplaceOld, Closes, Progress
<1>5. CASE Join(s)
  BY <1>5 DEF Join, Progress
<1>6. CASE LookAtClosed(s)
  BY <1>6 DEF LookAtClosed
<1>7. CASE RemoveRecord(s)
  BY <1>7 DEF RemoveRecord
<1>8. CASE CleanupFails(s)
  BY <1>8 DEF CleanupFails, Happens
<1>9. CASE UpdateLastActivity(s)
  BY <1>9 DEF UpdateLastActivity
<1>10. CASE DisconnectForced(s)
  BY <1>10 DEF DisconnectForced, Closes
<1> QED
  BY <1>1, <1>2, <1>3, <1>4, <1>5, <1>6, <1>7, <1>8, <1>9, <1>10 DEF SocketStep

(* And what the environment does.                                          *)
LEMMA EnvironmentTypes ==
    ASSUME TypeOK, Environment
    PROVE  TypeOK'
<1> USE DEF TypeOK, tokenVars, recordVars, kickVars
<1>1. ASSUME NEW s \in Sockets, Drop(s) \/ RefuseMessage(s) PROVE TypeOK'
  BY <1>1 DEF Drop, RefuseMessage, Closes
<1>2. ASSUME NEW s \in Sockets, Message(s) PROVE TypeOK'
  BY <1>2 DEF Message, IsCurrent, Happens
<1>3. CASE SendsCode
  BY <1>3 DEF SendsCode, SendOTPSMS, socketVars
<1>4. CASE SessionExpires
  BY <1>4 DEF SessionExpires, Happens, socketVars
<1>5. CASE RecordExpires
  BY <1>5 DEF RecordExpires, Happens, Overwrites
<1>6. CASE Crash
  BY <1>6 DEF Crash, Happens, Progress
<1> QED
  BY <1>1, <1>2, <1>3, <1>4, <1>5, <1>6
  DEF Environment, InitiateCustomerSignup, SigninCustomer, ResendCustomerOtp,
      InitiateDriverSignup, SigninDriver, ResendDriverOtp

(* Every step of Session keeps the types.                                  *)
LEMMA SessionTypes == TypeOK /\ [Next]_vars => TypeOK'
<1> SUFFICES ASSUME TypeOK, [Next]_vars PROVE TypeOK'
  OBVIOUS
<1>1. ASSUME NEW was \in Sessions, Touch(was) PROVE TypeOK'
  BY <1>1 DEF TypeOK, Touch, socketVars, recordVars, kickVars
<1>2. CASE ForceLogout \/ ForceLogoutFails
  BY <1>2 DEF TypeOK, ForceLogout, ForceLogoutFails, Happens, Overwrites, tokenVars,
              socketVars, recordVars
<1>3. CASE UNCHANGED vars
  BY <1>3 DEF TypeOK, vars, tokenVars, socketVars, recordVars, kickVars
<1> QED
  BY <1>1, <1>2, <1>3, UserStepTypes, SocketStepTypes, EnvironmentTypes DEF Next

(* A user nobody has logged in has them.                                   *)
LEMMA SessionInit == Init => TypeOK
<1> SUFFICES ASSUME Init PROVE TypeOK
  OBVIOUS
<1>1. /\ held \in [Devices -> Tokens \cup {NoToken}]
      /\ pc \in [Sockets -> Progress]
      /\ opened \in [Sockets -> Sessions \cup {NoSession}]
      /\ prior \in [Sockets -> Sockets \cup {NoSocket}]
      /\ kicked \in [Sockets -> Nat]
  BY DEF Init, Progress
<1>2. forced \in Nat /\ events \in Nat
  BY DEF Init
<1> QED
  BY <1>1, <1>2 DEF Init, TypeOK

-----------------------------------------------------------------------------
(* Sessions: the record finds every socket it has not lost.                *)

(* A socket is opened once: one that has closed stays closed.              *)
ClosedIsClosed ==
    /\ \A s \in live : pc[s] # "new"
    /\ \A s \in leaving \cup removing : s \notin live /\ pc[s] # "new"

Tracking == ClosedIsClosed /\ SocketsAreTracked

(* Steps that move no socket and write no record keep track, even if they  *)
(* lose one.                                                               *)
LEMMA OthersKeepTracking ==
    ASSUME Tracking, UNCHANGED <<pc, live, prior, record, leaving, removing>>,
           missed \subseteq missed'
    PROVE  Tracking'
BY DEF Tracking, ClosedIsClosed, SocketsAreTracked

(* What users do keeps track.                                              *)
LEMMA UserStepTracks ==
    ASSUME TypeOK, Tracking, NEW d \in Devices, UserStep(d)
    PROVE  Tracking'
<1>1. ASSUME NEW t \in Tokens, SignsUp(d, t) \/ SignsIn(d, t)
      PROVE  Tracking'
  BY <1>1, OthersKeepTracking DEF SignsUp, SignsIn, socketVars, recordVars
<1>2. ASSUME LogOut(d) \/ Request(d)
      PROVE  Tracking'
  BY <1>2, OthersKeepTracking DEF LogOut, Request, socketVars, recordVars
<1>3. ASSUME NEW s \in Sockets, Connect(s, d) PROVE Tracking'
  <2>1. /\ UNCHANGED <<prior, record, leaving, removing, missed>>
        /\ pc[s] = "new"
        /\ pc' = [pc EXCEPT ![s] = "checked"]
        /\ live' = live \cup {s}
    BY <1>3 DEF Connect, recordVars
  <2>2. ClosedIsClosed'
    BY <2>1 DEF TypeOK, Tracking, ClosedIsClosed
  <2>3. SocketsAreTracked'
    BY <2>1 DEF TypeOK, Tracking, SocketsAreTracked
  <2> QED
    BY <2>2, <2>3 DEF Tracking
<1> QED
  BY <1>1, <1>2, <1>3
  DEF UserStep, CompleteCustomerSignup, CompleteCustomerSignin, CompleteDriverSignup,
      CompleteDriverSignin

(* Sockets that close, whoever closes them, keep track, even if the record *)
(* of the one that closes goes as well.                                    *)
LEMMA ClosingTracks ==
    ASSUME TypeOK, Tracking, NEW s \in Sockets, Closes({s}),
           UNCHANGED <<pc, prior, removing>>,
           \/ UNCHANGED <<record, missed>>
           \/ record' = NoSocket /\ Overwrites(s)
    PROVE  Tracking'
<1>1. live' = live \ {s} /\ leaving' = leaving \cup (live \cap {s})
  BY DEF Closes
<1>2. ClosedIsClosed'
  BY <1>1 DEF TypeOK, Tracking, ClosedIsClosed
<1>3. SocketsAreTracked'
  BY <1>1 DEF TypeOK, Tracking, SocketsAreTracked, Overwrites
<1> QED
  BY <1>2, <1>3 DEF Tracking

(* The steps of handleConnection and handleDisconnect keep track: whoever  *)
(* overwrites the record closes the socket it has found there, and what it *)
(* has not found is lost.                                                  *)
LEMMA SocketStepTracks ==
    ASSUME TypeOK, Tracking, NEW s \in Sockets, SocketStep(s)
    PROVE  Tracking'
<1> USE SessionAssumption DEF recordVars
<1>1. CASE ReadRecord(s)
  <2>1. /\ UNCHANGED <<live, record, leaving, removing, missed>>
        /\ pc[s] = "checked" /\ pc' = [pc EXCEPT ![s] = "reading"]
        /\ prior' = [prior EXCEPT ![s] = record]
    BY <1>1 DEF ReadRecord
  <2>2. ClosedIsClosed' /\ SocketsAreTracked'
    BY <2>1 DEF TypeOK, Tracking, ClosedIsClosed, SocketsAreTracked
  <2> QED
    BY <2>2 DEF Tracking
<1>2. CASE Register(s)
  <2>1. /\ UNCHANGED <<live, prior, leaving, removing>>
        /\ pc[s] = "reading" /\ record' = s
        /\ missed' = missed \cup ({record} \cap (Sockets \ {prior[s]}))
        /\ pc' = [pc EXCEPT ![s] = IF prior[s] = NoSocket THEN "joining" ELSE "replacing"]
    BY <1>2 DEF Register, Overwrites
  <2>2. ClosedIsClosed'
    BY <2>1 DEF TypeOK, Tracking, ClosedIsClosed
  <2>3. SocketsAreTracked'
    <3> SUFFICES ASSUME NEW v \in live' \ missed',
                        pc'[v] \in {"replacing", "joining", "joined"}, v # s
                 PROVE  \E u \in Sockets : pc'[u] = "replacing" /\ prior'[u] = v
      BY <2>1 DEF SocketsAreTracked
    <3>1. v \in live \ missed /\ v \in Sockets /\ pc[v] = pc'[v]
      BY <2>1 DEF TypeOK
    <3>2. CASE record = v
      <4>1. prior[s] = v /\ pc'[s] = "replacing"
        BY <2>1, <3>1, <3>2 DEF TypeOK
      <4> QED
        BY <2>1, <4>1
    <3>3. CASE \E u \in Sockets : pc[u] = "replacing" /\ prior[u] = v
      <4>1. PICK u \in Sockets : pc[u] = "replacing" /\ prior[u] = v
        BY <3>3
      <4>2. pc'[u] = "replacing" /\ prior'[u] = v
        BY <2>1, <4>1 DEF TypeOK
      <4> QED
        BY <4>2
    <3> QED
      BY <3>1, <3>2, <3>3 DEF Tracking, SocketsAreTracked
  <2> QED
    BY <2>2, <2>3 DEF Tracking
<1>3. CASE RegisterFails(s)
  <2>1. /\ UNCHANGED <<live, prior, leaving, removing>>
        /\ pc[s] = "reading" /\ pc' = [pc EXCEPT ![s] = "joining"]
        /\ missed \subseteq missed'
        /\ \/ record' = record /\ s \in missed'
           \/ record' = s /\ ({record} \cap Sockets) \subseteq missed'
    BY <1>3 DEF RegisterFails, Overwrites
  <2>2. ClosedIsClosed' /\ SocketsAreTracked'
    BY <2>1 DEF TypeOK, Tracking, ClosedIsClosed, SocketsAreTracked
  <2> QED
    BY <2>2 DEF Tracking
<1>4. CASE ReplaceOld(s)
  <2>1. /\ UNCHANGED <<record, removing, missed>>
        /\ pc[s] = "replacing"
        /\ pc' = [pc EXCEPT ![s] = "joining"]
        /\ prior' = [prior EXCEPT ![s] = NoSocket]
        /\ live' = live \ {prior[s]}
        /\ leaving' = leaving \cup (live \cap {prior[s]})
    BY <1>4 DEF ReplaceOld, Closes
  <2>2. ClosedIsClosed'
    BY <2>1 DEF TypeOK, Tracking, ClosedIsClosed
  <2>3. SocketsAreTracked'
    BY <2>1 DEF TypeOK, Tracking, SocketsAreTracked
  <2> QED
    BY <2>2, <2>3 DEF Tracking
<1>5. CASE Join(s)
  <2>1. /\ UNCHANGED <<live, prior, record, leaving, removing, missed>>
        /\ pc[s] = "joining" /\ pc' = [pc EXCEPT ![s] = "joined"]
    BY <1>5 DEF Join
  <2>2. ClosedIsClosed' /\ SocketsAreTracked'
    BY <2>1 DEF TypeOK, Tracking, ClosedIsClosed, SocketsAreTracked
  <2> QED
    BY <2>2 DEF Tracking
<1>6. CASE LookAtClosed(s) \/ CleanupFails(s)
  <2>1. /\ UNCHANGED <<pc, live, prior, record, missed>>
        /\ (leaving' \cup removing') \subseteq (leaving \cup removing)
    BY <1>6 DEF LookAtClosed, CleanupFails
  <2> QED
    BY <2>1 DEF Tracking, ClosedIsClosed, SocketsAreTracked
<1>7. CASE RemoveRecord(s)
  <2>1. /\ UNCHANGED <<pc, live, prior, leaving>>
        /\ s \in removing /\ removing' = removing \ {s}
        /\ missed' = missed \cup ({record} \cap (Sockets \ {s}))
    BY <1>7 DEF RemoveRecord, Overwrites
  <2>2. s \notin live
    BY <2>1 DEF Tracking, ClosedIsClosed
  <2> QED
    BY <2>1, <2>2 DEF TypeOK, Tracking, ClosedIsClosed, SocketsAreTracked
<1>8. CASE UpdateLastActivity(s)
  <2>1. /\ UNCHANGED <<pc, live, prior, leaving, removing>>
        /\ record' = s
        /\ missed' = missed \cup ({record} \cap (Sockets \ {s}))
    BY <1>8 DEF UpdateLastActivity, Overwrites
  <2> QED
    BY <2>1 DEF TypeOK, Tracking, ClosedIsClosed, SocketsAreTracked
<1>9. CASE DisconnectForced(s)
  BY <1>9, ClosingTracks DEF DisconnectForced
<1> QED
  BY <1>1, <1>2, <1>3, <1>4, <1>5, <1>6, <1>7, <1>8, <1>9 DEF SocketStep

(* And what the environment does: a record that goes by itself is lost.    *)
LEMMA EnvironmentTracks ==
    ASSUME TypeOK, Tracking, Environment
    PROVE  Tracking'
<1> USE DEF recordVars
<1>1. ASSUME NEW s \in Sockets, Drop(s) \/ RefuseMessage(s) PROVE Tracking'
  BY <1>1, ClosingTracks DEF Drop, RefuseMessage
<1>2. ASSUME NEW s \in Sockets, Message(s) PROVE Tracking'
  BY <1>2, OthersKeepTracking DEF Message
<1>3. CASE SendsCode \/ SessionExpires
  BY <1>3, OthersKeepTracking DEF SendsCode, SessionExpires, socketVars
<1>4. CASE RecordExpires
  <2>1. /\ UNCHANGED <<pc, live, prior, leaving, removing>>
        /\ missed' = missed \cup ({record} \cap (Sockets \ {NoSocket}))
    BY <1>4 DEF RecordExpires, Overwrites
  <2> QED
    BY <2>1, SessionAssumption DEF TypeOK, Tracking, ClosedIsClosed, SocketsAreTracked
<1>5. CASE Crash
  <2>1. live' = {} /\ leaving' = {} /\ removing' = {}
    BY <1>5 DEF Crash
  <2> QED
    BY <2>1 DEF Tracking, ClosedIsClosed, SocketsAreTracked
<1> QED
  BY <1>1, <1>2, <1>3, <1>4, <1>5
  DEF Environment, InitiateCustomerSignup, SigninCustomer, ResendCustomerOtp,
      InitiateDriverSignup, SigninDriver, ResendDriverOtp

(* Every step of Session keeps track.                                      *)
LEMMA SessionTracks == TypeOK /\ Tracking /\ [Next]_vars => Tracking'
<1> SUFFICES ASSUME TypeOK, Tracking, [Next]_vars PROVE Tracking'
  OBVIOUS
<1> USE DEF recordVars
<1>1. ASSUME NEW was \in Sessions, Touch(was) PROVE Tracking'
  BY <1>1, OthersKeepTracking DEF Touch, socketVars
<1>2. CASE ForceLogout \/ ForceLogoutFails
  BY <1>2, OthersKeepTracking DEF ForceLogout, ForceLogoutFails, Overwrites, socketVars
<1>3. CASE UNCHANGED vars
  BY <1>3, OthersKeepTracking DEF vars, socketVars
<1> QED
  BY <1>1, <1>2, <1>3, UserStepTracks, SocketStepTracks, EnvironmentTracks DEF Next

(* Without sockets there is nothing to track.                              *)
LEMMA SessionInitTracks == Init => Tracking
BY DEF Init, Tracking, ClosedIsClosed, SocketsAreTracked

-----------------------------------------------------------------------------
(* Presence: types.                                                        *)

(* A cleanup that is over keeps the types of the tasks.                    *)
LEMMA CleanedUpTypes ==
    ASSUME P!TypeOK, NEW t \in P!Tasks, P!CleanedUp(t)
    PROVE  /\ sockets' \subseteq sockets
           /\ old' \in [Sockets -> Sockets \cup {NoSocket}]
           /\ at' \in [P!Tasks -> P!Steps]
BY DEF P!TypeOK, P!CleanedUp, P!Closed, P!Steps

(* Every step of Presence keeps the types.                                 *)
LEMMA PresenceTypes == P!TypeOK /\ [P!Next]_presenceVars => P!TypeOK'
<1> SUFFICES ASSUME P!TypeOK, [P!Next]_presenceVars PROVE P!TypeOK'
  OBVIOUS
<1>1. ASSUME NEW s \in Sockets, P!Connect(s) PROVE P!TypeOK'
  <2>1. PICK o \in {u \in Sockets : P!Opened(u)} \cup {NoSocket} :
            /\ old' = [old EXCEPT ![s] = o]
            /\ at' = [at EXCEPT ![<<"opens", s>>] = IF o = NoSocket THEN "joined" ELSE "forget"]
    BY <1>1 DEF P!Connect
  <2>2. old' \in [Sockets -> Sockets \cup {NoSocket}] /\ at' \in [P!Tasks -> P!Steps]
    BY <2>1 DEF P!TypeOK, P!Steps
  <2> QED
    BY <1>1, <2>2 DEF P!TypeOK, P!Connect
<1>2. ASSUME NEW s \in Sockets, P!SetForeground(s) PROVE P!TypeOK'
  <2>1. heard' \in BOOLEAN
    BY <1>2, Zenon DEF P!SetForeground
  <2>2. /\ UNCHANGED <<old, sockets, status, loc, ride, late, acts>> /\ app' = "FOREGROUND"
        /\ writing' = writing \cup {[step |-> "key", status |-> "BUSY"]}
        /\ at' = [at EXCEPT ![<<"opens", s>>] = "done"]
    BY <1>2 DEF P!SetForeground, P!StartWrite
  <2>3. at' \in [P!Tasks -> P!Steps]
    BY <2>2 DEF P!TypeOK, P!Steps
  <2>4. writing' \subseteq P!Writes
    BY <2>2 DEF P!TypeOK, P!Writes, P!Statuses
  <2> QED
    BY <2>1, <2>2, <2>3, <2>4 DEF P!TypeOK
<1>3. ASSUME NEW s \in Sockets, P!Drop(s) \/ P!ForceOut(s) PROVE P!TypeOK'
  BY <1>3 DEF P!TypeOK, P!Drop, P!ForceOut, P!Closed, P!Happens, P!Steps
<1>4. ASSUME NEW t \in P!Tasks, P!CleanupStep(t) PROVE P!TypeOK'
  <2>1. CASE P!ForgetAppState(t)
    BY <2>1 DEF P!TypeOK, P!ForgetAppState, P!Steps
  <2>2. CASE P!LookAtAvailability(t)
    <3>1. CASE P!CleanedUp(t)
      BY <2>2, <3>1, CleanedUpTypes DEF P!TypeOK, P!LookAtAvailability
    <3>2. CASE at' = [at EXCEPT ![t] = "erase"] /\ UNCHANGED <<old, sockets>>
      BY <2>2, <3>2 DEF P!TypeOK, P!LookAtAvailability, P!Steps
    <3> QED
      BY <2>2, <3>1, <3>2 DEF P!LookAtAvailability
  <2>3. CASE P!DeleteAvailability(t)
    BY <2>3, CleanedUpTypes DEF P!TypeOK, P!DeleteAvailability
  <2>4. CASE P!CleanupFails(t)
    <3>1. CASE at[t] = "forget"
      BY <2>4, <3>1 DEF P!TypeOK, P!CleanupFails, P!Happens, P!Steps
    <3>2. CASE at[t] = "erase"
      BY <2>4, <3>2, CleanedUpTypes DEF P!TypeOK, P!CleanupFails, P!Happens
    <3> QED
      BY <2>4, <3>1, <3>2 DEF P!CleanupFails
  <2> QED
    BY <1>4, <2>1, <2>2, <2>3, <2>4 DEF P!CleanupStep
<1>5. ASSUME NEW w \in P!Writes, P!WriteKey(w) \/ P!WriteCopy(w) PROVE P!TypeOK'
  <2>1. late' \in BOOLEAN
    BY <1>5, Zenon DEF P!WriteKey, P!WriteCopy
  <2>2. writing' \subseteq P!Writes /\ status' \in P!Statuses \cup {"none"}
    BY <1>5 DEF P!TypeOK, P!WriteKey, P!WriteCopy, P!Writes
  <2>3. loc' \in {"none", "plain", "claimed", "AVAILABLE"}
    BY <1>5 DEF P!TypeOK, P!WriteKey, P!WriteCopy
  <2> QED
    BY <1>5, <2>1, <2>2, <2>3 DEF P!TypeOK, P!WriteKey, P!WriteCopy
<1>6. ASSUME NEW st \in P!Statuses, P!AskAvailability(st) PROVE P!TypeOK'
  BY <1>6 DEF P!TypeOK, P!AskAvailability, P!StartWrite, P!Happens, P!Writes
<1>7. ASSUME NEW st \in P!Statuses, P!PostLocation(st) \/ P!MessageLocation PROVE P!TypeOK'
  BY <1>7 DEF P!TypeOK, P!PostLocation, P!MessageLocation, P!StoreUserLocation, P!Happens
<1>8. ASSUME NEW a \in P!AppStates, P!PostAppState(a) PROVE P!TypeOK'
  <2>1. heard' \in BOOLEAN
    BY <1>8, Zenon DEF P!PostAppState
  <2>2. /\ UNCHANGED <<at, old, sockets, status, loc, writing, ride, late>>
        /\ app' \in {"none", "FOREGROUND"} /\ acts' = acts + 1
    BY <1>8 DEF P!PostAppState, P!Happens
  <2> QED
    BY <2>1, <2>2 DEF P!TypeOK
<1>9. CASE P!RideStarts \/ P!RideEnds
  <2>1. writing' \subseteq P!Writes
    BY <1>9 DEF P!TypeOK, P!RideStarts, P!RideEnds, P!StartWrite, P!Writes, P!Statuses
  <2>2. /\ UNCHANGED <<at, old, sockets, app, status, loc, heard, late>>
        /\ ride' \in BOOLEAN /\ acts' \in {acts, acts + 1}
    BY <1>9 DEF P!RideStarts, P!RideEnds, P!Happens
  <2> QED
    BY <2>1, <2>2 DEF P!TypeOK
<1>10. CASE P!AppStateExpires \/ P!StatusExpires \/ P!LocationExpires
  BY <1>10 DEF P!TypeOK, P!AppStateExpires, P!StatusExpires, P!LocationExpires
<1>11. CASE P!Crash
  BY <1>11 DEF P!TypeOK, P!Crash, P!Happens, P!Steps
<1>12. CASE UNCHANGED presenceVars
  BY <1>12 DEF P!TypeOK, presenceVars
<1>13. P!MessageLocation => \E st \in P!Statuses : P!PostLocation(st) \/ P!MessageLocation
  BY DEF P!Statuses
<1> QED
  BY <1>1, <1>2, <1>3, <1>4, <1>5, <1>6, <1>7, <1>8, <1>9, <1>10, <1>11, <1>12, <1>13
  DEF P!Next, presenceVars, P!vars

-----------------------------------------------------------------------------
(* Presence: what is left of a driver who has gone.                        *)

(* handleDisconnect of s still has something to do.                        *)
Closing(s) == at[<<"closes", s>>] \in {"forget", "look", "erase"}

(* The copy is about to become something else than AVAILABLE.              *)
WillUncopy == \E w \in writing : w.step = "copy" /\ w.status # "AVAILABLE"

(* handleDisconnect begins when the socket has closed; a socket that has   *)
(* not been opened has no handler.                                         *)
TasksFit ==
    /\ \A s \in sockets : P!Opened(s) /\ at[<<"closes", s>>] = "idle"
    /\ \A s \in Sockets : at[<<"closes", s>>] # "idle" => P!Opened(s)

(* The copy says AVAILABLE and the key something else only until an update *)
(* has made both equal.                                                    *)
CopyFollows ==
    loc = "AVAILABLE" /\ status \in {"BUSY", "ON_TRIP"} => late \/ WillUncopy

(* Without a connection: a driver who seems available, or in front, is     *)
(* still being cleaned up after.                                           *)
AvailabilityIsCleaned ==
    sockets = {} /\ (status = "AVAILABLE" \/ (loc = "AVAILABLE" /\ ~ WillUncopy)) =>
        late \/ \E s \in Sockets : Closing(s)

AppStateIsCleaned ==
    sockets = {} /\ app = "FOREGROUND" =>
        heard \/ \E s \in Sockets : at[<<"closes", s>>] = "forget"

Presence == TasksFit /\ CopyFollows /\ AvailabilityIsCleaned /\ AppStateIsCleaned

(* A driver who has never connected is away.                               *)
LEMMA PresenceInit == P!Init => P!TypeOK /\ Presence
<1> SUFFICES ASSUME P!Init PROVE P!TypeOK /\ Presence
  OBVIOUS
<1>1. /\ at \in [P!Tasks -> P!Steps] /\ old \in [Sockets -> Sockets \cup {NoSocket}]
      /\ acts \in Nat
  BY DEF P!Init, P!Steps
<1> QED
  BY <1>1 DEF P!Init, P!TypeOK, P!Tasks, Presence, TasksFit, CopyFollows,
              AvailabilityIsCleaned, AppStateIsCleaned

(* Connecting: a driver who is connected is not away.                      *)
LEMMA ConnectingKeepsPresence ==
    ASSUME P!TypeOK, Presence, NEW s \in Sockets, P!Connect(s) \/ P!SetForeground(s)
    PROVE  Presence'
<1>1. CASE P!Connect(s)
  <2>1. /\ ~ P!Opened(s) /\ sockets' = sockets \cup {s}
        /\ \E v \in {"joined", "forget"} : at' = [at EXCEPT ![<<"opens", s>>] = v]
        /\ UNCHANGED <<status, loc, writing, late>>
    BY <1>1 DEF P!Connect
  <2>2. TasksFit'
    BY <2>1 DEF P!TypeOK, P!Tasks, P!Opened, Presence, TasksFit
  <2>3. CopyFollows' /\ s \in sockets'
    BY <2>1 DEF Presence, CopyFollows, WillUncopy
  <2> QED
    BY <2>2, <2>3 DEF Presence, AvailabilityIsCleaned, AppStateIsCleaned
<1>2. CASE P!SetForeground(s)
  <2>1. /\ UNCHANGED <<sockets, status, loc, late>>
        /\ at' = [at EXCEPT ![<<"opens", s>>] = "done"]
        /\ writing' = writing \cup {[step |-> "key", status |-> "BUSY"]}
    BY <1>2 DEF P!SetForeground, P!StartWrite
  <2>2. WillUncopy' <=> WillUncopy
    BY <2>1 DEF WillUncopy
  <2>3. /\ \A u \in Sockets : at'[<<"closes", u>>] = at[<<"closes", u>>]
        /\ \A u \in Sockets : P!Opened(u) => P!Opened(u)'
    BY <2>1 DEF P!TypeOK, P!Tasks, P!Opened
  <2>4. TasksFit' /\ CopyFollows' /\ AvailabilityIsCleaned'
    BY <2>1, <2>2, <2>3
    DEF P!TypeOK, Presence, TasksFit, CopyFollows, AvailabilityIsCleaned, Closing
  <2>5. sockets = {} => heard'
    BY <1>2 DEF P!SetForeground
  <2> QED
    BY <2>1, <2>4, <2>5 DEF Presence, AppStateIsCleaned
<1> QED
  BY <1>1, <1>2

(* Disconnecting: handleDisconnect is going to clean up.                   *)
LEMMA LeavingKeepsPresence ==
    ASSUME P!TypeOK, Presence, NEW s \in Sockets, P!Drop(s) \/ P!ForceOut(s)
    PROVE  Presence'
<1>1. CASE P!Drop(s)
  <2>1. /\ UNCHANGED <<status, loc, writing, late>>
        /\ s \in sockets /\ sockets' = sockets \ {s}
        /\ at' = [at EXCEPT ![<<"closes", s>>] = "forget"]
    BY <1>1 DEF P!Drop, P!Closed
  <2>2. TasksFit'
    BY <2>1 DEF P!TypeOK, P!Tasks, P!Opened, Presence, TasksFit
  <2>3. CopyFollows' /\ at'[<<"closes", s>>] = "forget"
    BY <2>1 DEF P!TypeOK, P!Tasks, Presence, CopyFollows, WillUncopy
  <2> QED
    BY <2>2, <2>3 DEF Presence, AvailabilityIsCleaned, AppStateIsCleaned, Closing
<1>2. CASE P!ForceOut(s)
  <2>1. /\ UNCHANGED <<sockets, app, status, loc, writing, heard, late>>
        /\ at' = [at EXCEPT ![<<"ends", s>>] = "forget"]
    BY <1>2 DEF P!ForceOut
  <2>2. /\ \A u \in Sockets : at'[<<"closes", u>>] = at[<<"closes", u>>]
        /\ \A u \in Sockets : P!Opened(u)' <=> P!Opened(u)
    BY <2>1 DEF P!TypeOK, P!Tasks, P!Opened
  <2> QED
    BY <2>1, <2>2 DEF P!TypeOK, Presence, TasksFit, CopyFollows, WillUncopy,
                      AvailabilityIsCleaned, AppStateIsCleaned, Closing
<1> QED
  BY <1>1, <1>2

(* What a cleanup that is over leaves of the tasks: whoever it closes is   *)
(* cleaned up after, and other tasks go on.                                *)
LEMMA CleanedUpTasks ==
    ASSUME P!TypeOK, TasksFit, NEW t \in P!Tasks, at[t] \in {"look", "erase"},
           P!CleanedUp(t)
    PROVE  /\ TasksFit'
           /\ \A u \in sockets \ sockets' : at'[<<"closes", u>>] = "forget"
           /\ sockets' \subseteq sockets
           /\ \A u \in Sockets : <<"closes", u>> # t /\ at[<<"closes", u>>] # "idle" =>
                  at'[<<"closes", u>>] = at[<<"closes", u>>]
<1> DEFINE v == IF t[1] = "opens" THEN old[t[2]] ELSE t[2]
           f == [at EXCEPT ![t] = IF t[1] = "opens" THEN "joined" ELSE "idle"]
<1>1. /\ sockets' = sockets \ {v}
      /\ at' = IF v \in sockets THEN [f EXCEPT ![<<"closes", v>>] = "forget"] ELSE f
  BY DEF P!CleanedUp, P!Closed
<1>2. /\ \A u \in Sockets : f[<<"closes", u>>] =
             IF t = <<"closes", u>> THEN "idle" ELSE at[<<"closes", u>>]
      /\ \A u \in Sockets : f[<<"opens", u>>] # "idle" <=> P!Opened(u)
      /\ f \in [P!Tasks -> P!Steps]
  BY DEF P!TypeOK, P!Tasks, P!Steps, P!Opened
<1>3. v \in sockets => t # <<"closes", v>>
  BY DEF TasksFit
<1> HIDE DEF f, v
<1>4. /\ \A u \in Sockets : at'[<<"closes", u>>] =
             IF u = v /\ v \in sockets THEN "forget" ELSE f[<<"closes", u>>]
      /\ \A u \in Sockets : P!Opened(u)' <=> P!Opened(u)
  BY <1>1, <1>2 DEF P!Tasks, P!Opened
<1>5. sockets \subseteq Sockets
  BY DEF P!TypeOK
<1> QED
  BY <1>1, <1>2, <1>3, <1>4, <1>5 DEF TasksFit

(* A cleanup leaves nothing, or is not the last, or has failed.            *)
LEMMA CleaningKeepsPresence ==
    ASSUME P!TypeOK, Presence, NEW t \in P!Tasks, P!CleanupStep(t)
    PROVE  Presence'
<1>1. ASSUME P!ForgetAppState(t) \/ (P!CleanupFails(t) /\ at[t] = "forget")
      PROVE  Presence'
  <2>1. /\ UNCHANGED <<sockets, status, loc, writing, late>>
        /\ at[t] = "forget" /\ at' = [at EXCEPT ![t] = "look"]
        /\ app' = "none" \/ heard'
    BY <1>1 DEF P!ForgetAppState, P!CleanupFails
  <2>2. /\ \A u \in Sockets : at'[<<"closes", u>>] = "idle" <=> at[<<"closes", u>>] = "idle"
        /\ \A u \in Sockets : Closing(u) => Closing(u)'
        /\ \A u \in Sockets : P!Opened(u)' <=> P!Opened(u)
    BY <2>1 DEF P!TypeOK, P!Tasks, P!Opened, Closing
  <2>3. TasksFit' /\ CopyFollows' /\ AvailabilityIsCleaned'
    BY <2>1, <2>2
    DEF P!TypeOK, Presence, TasksFit, CopyFollows, WillUncopy, AvailabilityIsCleaned
  <2> QED
    BY <2>1, <2>3 DEF Presence, AppStateIsCleaned
<1>2. ASSUME P!LookAtAvailability(t), ~ P!CleanedUp(t)
      PROVE  Presence'
  <2>1. /\ UNCHANGED <<sockets, app, status, loc, writing, heard, late>>
        /\ at[t] = "look" /\ at' = [at EXCEPT ![t] = "erase"]
    BY <1>2 DEF P!LookAtAvailability
  <2>2. /\ \A u \in Sockets : at'[<<"closes", u>>] = "idle" <=> at[<<"closes", u>>] = "idle"
        /\ \A u \in Sockets : at[<<"closes", u>>] = "forget" => at'[<<"closes", u>>] = "forget"
        /\ \A u \in Sockets : Closing(u) => Closing(u)'
        /\ \A u \in Sockets : P!Opened(u)' <=> P!Opened(u)
    BY <2>1 DEF P!TypeOK, P!Tasks, P!Opened, Closing
  <2> QED
    BY <2>1, <2>2
    DEF P!TypeOK, Presence, TasksFit, CopyFollows, WillUncopy, AvailabilityIsCleaned,
        AppStateIsCleaned
<1>3. ASSUME P!CleanedUp(t), at[t] \in {"look", "erase"}, UNCHANGED <<app, writing, heard>>,
             \/ status' = "none" /\ loc' # "AVAILABLE"
             \/ late' /\ UNCHANGED <<status, loc>>
             \/ P!Availability = "ON_TRIP" /\ UNCHANGED <<status, loc, late>>
      PROVE  Presence'
  <2>1. /\ TasksFit'
        /\ \A u \in sockets \ sockets' : at'[<<"closes", u>>] = "forget"
        /\ \A u \in Sockets : at[<<"closes", u>>] = "forget" => at'[<<"closes", u>>] = "forget"
    BY <1>3, CleanedUpTasks DEF Presence
  <2>2. sockets' = {} => sockets = {} \/ \E u \in Sockets : at'[<<"closes", u>>] = "forget"
    BY <2>1 DEF P!TypeOK
  <2>3. AppStateIsCleaned'
    BY <1>3, <2>1, <2>2 DEF Presence, AppStateIsCleaned
  <2>4. CopyFollows'
    BY <1>3 DEF Presence, CopyFollows, WillUncopy
  <2>5. AvailabilityIsCleaned'
    BY <1>3, <2>4 DEF AvailabilityIsCleaned, CopyFollows, P!Availability
  <2> QED
    BY <2>1, <2>3, <2>4, <2>5 DEF Presence
<1>4. ASSUME P!LookAtAvailability(t), P!CleanedUp(t)
      PROVE  Presence'
  <2>1. CASE P!Availability = "ON_TRIP"
    BY <1>3, <1>4, <2>1 DEF P!LookAtAvailability
  <2>2. CASE P!Availability # "ON_TRIP"
    \* "erase" is no step a cleanup ends with.
    <3>1. at[t] = "look" /\ at' = [at EXCEPT ![t] = "erase"]
      BY <1>4, <2>2 DEF P!LookAtAvailability
    <3>2. at'[t] # "erase"
      <4>1. at' = [at EXCEPT ![t] = "erase"]
        BY <3>1
      <4>2. PICK v : at' = P!Closed([at EXCEPT ![t] = IF t[1] = "opens" THEN "joined" ELSE "idle"], v)
        BY <1>4 DEF P!CleanedUp
      <4> QED
        BY <4>2 DEF P!Closed, P!TypeOK, P!Tasks
    <3> QED
      BY <3>1, <3>2 DEF P!TypeOK
  <2> QED
    BY <2>1, <2>2
<1>5. ASSUME P!DeleteAvailability(t) \/ (P!CleanupFails(t) /\ at[t] = "erase")
      PROVE  Presence'
  <2>1. CASE P!DeleteAvailability(t)
    BY <1>3, <2>1 DEF P!DeleteAvailability
  <2>2. CASE P!CleanupFails(t) /\ at[t] = "erase"
    BY <1>3, <2>2 DEF P!CleanupFails
  <2> QED
    BY <1>5, <2>1, <2>2
<1>6. P!CleanupFails(t) => at[t] \in {"forget", "erase"}
  BY DEF P!CleanupFails
<1> QED
  BY <1>1, <1>2, <1>4, <1>5, <1>6 DEF P!CleanupStep

(* The two writes of an update.                                            *)
LEMMA WritingKeepsPresence ==
    ASSUME P!TypeOK, Presence, NEW w \in P!Writes, P!WriteKey(w) \/ P!WriteCopy(w)
    PROVE  Presence'
<1>1. /\ UNCHANGED <<at, sockets, app, heard>> /\ w \in writing
      /\ w.status \in {"AVAILABLE", "BUSY", "ON_TRIP"}
  BY DEF P!WriteKey, P!WriteCopy, P!Writes, P!Statuses
<1>2. TasksFit' /\ AppStateIsCleaned'
  BY <1>1 DEF Presence, TasksFit, AppStateIsCleaned, P!Opened
<1>3. late => late'
  BY Zenon DEF P!WriteKey, P!WriteCopy
<1>4. CASE P!WriteKey(w)
  <2> DEFINE v == [w EXCEPT !.step = "copy"]
  <2>1. /\ w.step = "key" /\ writing' = (writing \ {w}) \cup {v}
        /\ v.step = "copy" /\ v.status = w.status
        /\ status' = w.status /\ loc' = loc
        /\ w.status = "AVAILABLE" /\ sockets = {} => late'
    BY <1>4 DEF P!WriteKey, P!Writes
  <2> HIDE DEF v
  <2>2. /\ WillUncopy => WillUncopy'
        /\ w.status # "AVAILABLE" => WillUncopy'
    BY <2>1 DEF WillUncopy
  <2>3. CopyFollows'
    BY <1>1, <2>1, <2>2 DEF CopyFollows
  <2>4. AvailabilityIsCleaned'
    BY <1>1, <1>3, <2>1, <2>2 DEF Presence, AvailabilityIsCleaned, Closing
  <2> QED
    BY <1>2, <2>3, <2>4 DEF Presence
<1>5. CASE P!WriteCopy(w)
  <2>1. /\ w.step = "copy" /\ writing' = writing \ {w} /\ status' = status
        /\ loc' = "AVAILABLE" => w.status = "AVAILABLE"
        /\ w.status = "AVAILABLE" /\ sockets = {} => late'
        /\ w.status = "AVAILABLE" /\ status \in {"BUSY", "ON_TRIP"} => late'
    BY <1>5 DEF P!WriteCopy
  <2>2. CopyFollows'
    BY <2>1 DEF CopyFollows
  <2>3. AvailabilityIsCleaned'
    BY <1>1, <1>3, <2>1 DEF Presence, AvailabilityIsCleaned, Closing
  <2> QED
    BY <1>2, <2>2, <2>3 DEF Presence
<1> QED
  BY <1>4, <1>5

(* What the app posts and taps, and the rides: no update is over yet.      *)
LEMMA AppKeepsPresence ==
    ASSUME P!TypeOK, Presence,
           \/ \E st \in P!Statuses : P!AskAvailability(st) \/ P!PostLocation(st)
           \/ P!MessageLocation
           \/ \E a \in P!AppStates : P!PostAppState(a)
           \/ P!RideStarts \/ P!RideEnds
    PROVE  Presence'
<1>1. /\ UNCHANGED <<at, sockets, status, late>>
      /\ loc' \in {loc, "plain", "claimed"}
      /\ \E st : writing' = writing \cup {[step |-> "key", status |-> st]} \/ writing' = writing
  BY DEF P!AskAvailability, P!PostLocation, P!MessageLocation, P!PostAppState, P!RideStarts,
         P!RideEnds, P!StoreUserLocation, P!StartWrite
<1>2. WillUncopy' <=> WillUncopy
  BY <1>1 DEF WillUncopy
<1>3. TasksFit' /\ CopyFollows' /\ AvailabilityIsCleaned'
  BY <1>1, <1>2
  DEF Presence, TasksFit, CopyFollows, AvailabilityIsCleaned, P!Opened, Closing
<1>4. heard => heard'
  <2>1. ASSUME NEW a \in P!AppStates, P!PostAppState(a) PROVE heard => heard'
    BY <2>1, Zenon DEF P!PostAppState
  <2>2. CASE ~ \E a \in P!AppStates : P!PostAppState(a)
    BY <2>2 DEF P!AskAvailability, P!PostLocation, P!MessageLocation, P!RideStarts,
                P!RideEnds, P!StoreUserLocation
  <2> QED
    BY <2>1, <2>2
<1>5. sockets = {} /\ app' = "FOREGROUND" => app = "FOREGROUND" \/ heard'
  BY DEF P!AskAvailability, P!PostLocation, P!MessageLocation, P!PostAppState,
         P!RideStarts, P!RideEnds, P!StoreUserLocation
<1>6. AppStateIsCleaned'
  BY <1>1, <1>4, <1>5 DEF Presence, AppStateIsCleaned
<1> QED
  BY <1>3, <1>6 DEF Presence

(* Every step of Presence keeps its invariant.                             *)
LEMMA PresenceKept == P!TypeOK /\ Presence /\ [P!Next]_presenceVars => Presence'
<1> SUFFICES ASSUME P!TypeOK, Presence, [P!Next]_presenceVars PROVE Presence'
  OBVIOUS
<1>1. CASE \/ P!AppStateExpires \/ P!StatusExpires \/ P!LocationExpires
           \/ UNCHANGED presenceVars
  <2>1. /\ UNCHANGED <<at, sockets, writing, heard, late>>
        /\ app' \in {app, "none"} /\ status' \in {status, "none"} /\ loc' \in {loc, "none"}
    BY <1>1 DEF P!AppStateExpires, P!StatusExpires, P!LocationExpires, presenceVars
  <2> QED
    BY <2>1 DEF Presence, TasksFit, CopyFollows, WillUncopy, AvailabilityIsCleaned,
                AppStateIsCleaned, P!Opened, Closing
<1>2. CASE P!Crash
  <2>1. /\ sockets' = {} /\ heard' /\ late'
        /\ at' = [t \in P!Tasks |->
                     IF t[1] = "opens" /\ P!Opened(t[2]) THEN "done" ELSE "idle"]
    BY <1>2 DEF P!Crash
  <2>2. \A s \in Sockets : at'[<<"closes", s>>] = "idle"
    BY <2>1 DEF P!Tasks
  <2> QED
    BY <2>1, <2>2 DEF Presence, TasksFit, CopyFollows, AvailabilityIsCleaned,
                      AppStateIsCleaned
<1> QED
  BY <1>1, <1>2, ConnectingKeepsPresence, LeavingKeepsPresence, CleaningKeepsPresence,
     WritingKeepsPresence, AppKeepsPresence
  DEF P!Next, presenceVars, P!vars

-----------------------------------------------------------------------------
(* Both components, of which one runs.                                     *)

(* A step of the two is a step or a stutter of each.                       *)
LEMMA OneRuns ==
    ASSUME [ConnectionsNext]_<<part, vars, presenceVars>>
    PROVE  [Next]_vars /\ [P!Next]_presenceVars
BY DEF ConnectionsNext

(* Whatever is overtaken, the state keeps its types.                       *)
THEOREM ConnectionsTypeCorrect == ConnectionsSpec => []ConnectionsTypeOK
<1>1. ConnectionsInit => ConnectionsTypeOK
  BY SessionInit, PresenceInit DEF ConnectionsInit, ConnectionsTypeOK
<1>2. ConnectionsTypeOK /\ [ConnectionsNext]_<<part, vars, presenceVars>> => ConnectionsTypeOK'
  BY OneRuns, SessionTypes, PresenceTypes DEF ConnectionsTypeOK
<1> QED
  BY <1>1, <1>2, PTL DEF ConnectionsSpec

Inv == ConnectionsTypeOK /\ Tracking /\ Presence

(* So both invariants hold.                                                *)
LEMMA InvHolds == ConnectionsSpec => []Inv
<1>1. ConnectionsInit => Inv
  BY SessionInit, SessionInitTracks, PresenceInit DEF ConnectionsInit, ConnectionsTypeOK, Inv
<1>2. Inv /\ [ConnectionsNext]_<<part, vars, presenceVars>> => Inv'
  BY OneRuns, SessionTypes, SessionTracks, PresenceTypes, PresenceKept
  DEF Inv, ConnectionsTypeOK
<1> QED
  BY <1>1, <1>2, PTL DEF ConnectionsSpec

(* The record, or what is about to close it, finds every socket of a user  *)
(* that may hear events and that Redis has not lost: a forced log-out that *)
(* reads the record then misses none of them.                              *)
THEOREM SocketsAreTrackedAlways == ConnectionsSpec => []SocketsAreTracked
<1>1. Inv => SocketsAreTracked
  BY DEF Inv, Tracking
<1> QED
  BY <1>1, InvHolds, PTL

(* A driver without a connection is found by no search, unless since the   *)
(* cleanup AVAILABLE was written late or claimed by the app, or there was  *)
(* no cleanup: it deletes what any earlier update has left.                *)
THEOREM AwayIsNotFoundAlways == ConnectionsSpec => []AwayIsNotFound
<1>1. Inv => AwayIsNotFound
  <2> SUFFICES ASSUME Inv, P!Away, P!Found, ~ late, loc # "claimed" PROVE FALSE
    BY DEF AwayIsNotFound, P!AwayIsNotFound
  <2>1. status = "AVAILABLE" \/ loc = "AVAILABLE"
    BY DEF P!Found, P!CountsAsAvailable
  <2>2. sockets = {} /\ ~ WillUncopy
    BY DEF P!Away, WillUncopy
  <2>3. PICK s \in Sockets : Closing(s)
    BY <2>1, <2>2 DEF Inv, Presence, AvailabilityIsCleaned
  <2> QED
    BY <2>3 DEF P!Away, P!Tasks, Closing
<1> QED
  BY <1>1, InvHolds, PTL

(* The events of a driver without a connection are pushed, unless an app   *)
(* state was written since the cleanup or there was no cleanup.            *)
THEOREM AwayIsPushedAlways == ConnectionsSpec => []AwayIsPushed
<1>1. Inv => AwayIsPushed
  <2> SUFFICES ASSUME Inv, P!Away, P!UsesSocket, ~ heard PROVE FALSE
    BY DEF AwayIsPushed, P!AwayIsPushed
  <2>1. PICK s \in Sockets : at[<<"closes", s>>] = "forget"
    BY DEF P!Away, P!UsesSocket, Inv, Presence, AppStateIsCleaned
  <2> QED
    BY <2>1 DEF P!Away, P!Tasks
<1> QED
  BY <1>1, InvHolds, PTL
=============================================================================
