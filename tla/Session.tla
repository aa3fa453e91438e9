------------------------------ MODULE Session ------------------------------
EXTENDS Naturals
(***************************************************************************)
(* The session and the sockets of one user: TokenManagerService, the three *)
(* guards, the auth controllers with their forced log-outs,                *)
(* WebSocketGateway and WebSocketService.  Users share no key, so one user *)
(* is the whole model, a customer or a driver: they run the same code but  *)
(* for the controllers, whose endpoints are the same too.                  *)
(*                                                                         *)
(* A step is what happens between two awaits that matter: the read of a    *)
(* record and the SET or DEL that relies on it are separate steps.         *)
(***************************************************************************)
CONSTANTS
    Devices, Tokens,   \* JWTs the auth service issues, a new one per log-in
    Sockets,           \* Socket.IO connections, each opened once
    NoToken, NoSession, NoSocket,
    MaxEvents          \* bound: requests and messages that pass a guard, log-outs,
                       \* crashes, failed calls to Redis and keys that expire, in all

ASSUME SessionAssumption ==
    /\ NoToken \notin Tokens
    /\ NoSession \notin [token : Tokens, device : Devices]
    /\ NoSocket \notin Sockets
    /\ MaxEvents \in Nat

VARIABLES
    code,       \* has the user received a one-time code that is still good?
    fresh,      \* tokens it has not issued yet
    held,       \* held[d]: the token the app on device d keeps, or NoToken
    session,    \* Redis: the active session, or NoSession
    expiring,   \* does the session's key have a ttl?
    touching,   \* sessions updateLastSeen has read and is going to write back
    ended,      \* history: tokens whose session was replaced or logged out
    pc,         \* pc[s]: how far handleConnection has come for socket s
    opened,     \* opened[s]: token and device in the handshake of s
    live,       \* sockets whose transport is open
    prior,      \* prior[s]: the record setActiveConnection found, or NoSocket
    record,     \* Redis: the user's active socket, or NoSocket
    timed,      \* does the record's key have a ttl?
    refreshing, \* records updateLastActivity has read and is going to write back
    leaving,    \* closed sockets that handleDisconnect is still to look at
    removing,   \* those of them it found to be the recorded one
    forced,     \* log-out events whose handlers have not read the record yet
    kicked,     \* kicked[s]: the handlers about to disconnect s
    missed,     \* history: sockets of which Redis has lost the record, because a
                \* handler that had read another wrote it, it ran out or a call failed
    early,      \* history: sockets not registered yet when their session ended
    events      \* how many of these there have been

tokenVars  == <<code, fresh, held, session, expiring, ended>>
recordVars == <<record, timed, missed>>
socketVars == <<pc, opened, live, prior, recordVars, refreshing, leaving, removing>>
kickVars   == <<forced, kicked>>
vars == <<tokenVars, touching, early, socketVars, kickVars, events>>

Sessions == [token : Tokens, device : Devices]
Progress == {"new", "checked", "reading", "replacing", "joining", "joined", "over"}

TypeOK ==
    /\ code \in BOOLEAN
    /\ fresh \subseteq Tokens
    /\ held \in [Devices -> Tokens \cup {NoToken}]
    /\ session \in Sessions \cup {NoSession}
    /\ expiring \in BOOLEAN
    /\ touching \subseteq Sessions
    /\ ended \subseteq Tokens
    /\ pc \in [Sockets -> Progress]
    /\ opened \in [Sockets -> Sessions \cup {NoSession}]
    /\ live \subseteq Sockets
    /\ prior \in [Sockets -> Sockets \cup {NoSocket}]
    /\ record \in Sockets \cup {NoSocket}
    /\ timed \in BOOLEAN
    /\ refreshing \subseteq Sockets
    /\ leaving \subseteq Sockets
    /\ removing \subseteq Sockets
    /\ forced \in Nat
    /\ kicked \in [Sockets -> Nat]
    /\ missed \subseteq Sockets
    /\ early \subseteq Sockets
    /\ events \in Nat

Init ==
    /\ code = FALSE
    /\ fresh = Tokens
    /\ held = [d \in Devices |-> NoToken]
    /\ session = NoSession
    /\ expiring = FALSE
    /\ touching = {}
    /\ ended = {}
    /\ pc = [s \in Sockets |-> "new"]
    /\ opened = [s \in Sockets |-> NoSession]
    /\ live = {}
    /\ prior = [s \in Sockets |-> NoSocket]
    /\ record = NoSocket
    /\ timed = FALSE
    /\ refreshing = {}
    /\ leaving = {}
    /\ removing = {}
    /\ forced = 0
    /\ kicked = [s \in Sockets |-> 0]
    /\ missed = {}
    /\ early = {}
    /\ events = 0

(* Mutant: a user without a session passes.                                *)
IsCurrentOrMissing(token, device) ==
    session = NoSession \/ (session.token = token /\ session.device = device)

(* validateToken, the comparisons of the guards and of handleConnection:   *)
(* token and device are those of the active session.                       *)
IsCurrent(token, device) ==
    session # NoSession /\ session.token = token /\ session.device = device

(* One of the events that are bounded.                                     *)
Happens == events < MaxEvents /\ events' = events + 1

-----------------------------------------------------------------------------
(* Tokens.                                                                 *)

(* sendOTPSMS: the message arrives some time.  Or it does not, which is    *)
(* logged, and only another code helps.                                    *)
SendOTPSMS == code' \in BOOLEAN

(* The auth service makes a code, which replaces the one before, and a     *)
(* text message sets out with it; nobody waits for the message.            *)
SendsCode ==
    /\ fresh # {}
    /\ SendOTPSMS
    /\ UNCHANGED <<fresh, held, session, expiring, ended, touching, early, socketVars,
                   kickVars, events>>

(* It refuses to sign up a user twice, and to sign in an unknown one.      *)
InitiateCustomerSignup == SendsCode /\ fresh = Tokens
InitiateDriverSignup == SendsCode /\ fresh = Tokens
SigninCustomer == SendsCode /\ fresh # Tokens
SigninDriver == SendsCode /\ fresh # Tokens
ResendCustomerOtp == SendsCode
ResendDriverOtp == SendsCode

(* The auth service takes the code and issues t, whichever unused token, to *)
(* device d.                                                               *)
TakesCode(d, t) ==
    /\ code
    /\ fresh # {} /\ t = CHOOSE u \in fresh : TRUE
    /\ code' = FALSE
    /\ fresh' = fresh \ {t}
    /\ held' = [held EXCEPT ![d] = t]

(* What a log-in or a log-out makes of the session there was.  A socket    *)
(* that handleConnection has let in by then but not registered is early.   *)
EndsSession ==
    IF session = NoSession
    THEN UNCHANGED <<ended, early>>
    ELSE /\ ended' = ended \cup {session.token}
         /\ early' = early \cup {s \in Sockets : /\ pc[s] \in {"checked", "reading"}
                                                /\ opened[s].token = session.token}

(* replaceActiveToken: SET over whatever session there is, with a ttl.     *)
ReplaceActiveToken(d, t) ==
    /\ EndsSession
    /\ session' = [token |-> t, device |-> d]
    /\ expiring' = TRUE

(* Both log-out events lead to forceLogoutUser.                            *)
HandleForceLogoutRequested == forced' = forced + 1
HandleManualLogout == forced' = forced + 1

ExecuteForceLogout(condition) ==
    IF condition THEN HandleForceLogoutRequested ELSE UNCHANGED forced

(* complete-signup: forces a log-out only when the device is another one.  *)
SignsUp(d, t) ==
    /\ fresh = Tokens
    /\ TakesCode(d, t)
    /\ ReplaceActiveToken(d, t)
    /\ ExecuteForceLogout(session # NoSession /\ session.device # d)
    /\ UNCHANGED <<touching, socketVars, kicked, events>>

CompleteCustomerSignup(d, t) == SignsUp(d, t)
CompleteDriverSignup(d, t) == SignsUp(d, t)

(* Mutant: forces out a session of another device only.                    *)
SignsInOtherDevice(d, t) ==
    /\ fresh # Tokens
    /\ TakesCode(d, t)
    /\ ReplaceActiveToken(d, t)
    /\ ExecuteForceLogout(session # NoSession /\ session.device # d)
    /\ UNCHANGED <<touching, socketVars, kicked, events>>

(* complete-signin: forces out the session there was, of whichever device. *)
SignsIn(d, t) ==
    /\ fresh # Tokens
    /\ TakesCode(d, t)
    /\ ReplaceActiveToken(d, t)
    /\ ExecuteForceLogout(session # NoSession)
    /\ UNCHANGED <<touching, socketVars, kicked, events>>

CompleteCustomerSignin(d, t) == SignsIn(d, t)
CompleteDriverSignin(d, t) == SignsIn(d, t)

(* LogoutGuard: the JWT must be valid, not current.  The event is emitted, *)
(* and the session is deleted, whoever's it is.                            *)
LogOut(d) ==
    /\ Happens
    /\ held[d] # NoToken
    /\ held' = [held EXCEPT ![d] = NoToken]
    /\ session' = NoSession
    /\ EndsSession
    /\ HandleManualLogout
    /\ UNCHANGED <<code, fresh, expiring, touching, socketVars, kicked>>

(* JwtAuthGuard lets a request of device d pass; updateLastSeen has read   *)
(* the session.  A refused request changes nothing.                        *)
Request(d) ==
    /\ Happens
    /\ IsCurrent(held[d], d)
    /\ touching' = touching \cup {session}
    /\ UNCHANGED <<tokenVars, early, socketVars, kickVars>>

(* updateLastSeen writes back what it read.  SET drops the key's ttl, so   *)
(* the PTTL that follows finds none to restore.                            *)
Touch(old) ==
    /\ old \in touching
    /\ session' = old
    /\ expiring' = FALSE
    /\ touching' = touching \ {old}
    /\ UNCHANGED <<code, fresh, held, ended, early, socketVars, kickVars, events>>

SessionExpires ==
    /\ Happens
    /\ session # NoSession
    /\ expiring
    /\ session' = NoSession
    /\ UNCHANGED <<code, fresh, held, expiring, ended, touching, early, socketVars,
                   kickVars>>

-----------------------------------------------------------------------------
(* Sockets: handleConnection, step by step.                                *)

Closes(ss) ==
    /\ live' = live \ ss
    /\ leaving' = leaving \cup (live \cap ss)

(* handleConnection checks the token and the device against the session    *)
(* and stores them in client.data.  The session may be one that had ended  *)
(* and that updateLastSeen has written back.                               *)
Connect(s, d) ==
    /\ pc[s] = "new"
    /\ IsCurrent(held[d], d)
    /\ pc' = [pc EXCEPT ![s] = "checked"]
    /\ opened' = [opened EXCEPT ![s] = session]
    /\ live' = live \cup {s}
    /\ early' = IF held[d] \in ended THEN early \cup {s} ELSE early
    /\ UNCHANGED <<tokenVars, touching, prior, recordVars, refreshing, leaving,
                   removing, kickVars, events>>

(* setActiveConnection reads the record, and then overwrites it.           *)
ReadRecord(s) ==
    /\ pc[s] = "checked"
    /\ pc' = [pc EXCEPT ![s] = "reading"]
    /\ prior' = [prior EXCEPT ![s] = record]
    /\ UNCHANGED <<tokenVars, touching, early, opened, live, recordVars, refreshing,
                   leaving, removing, kickVars, events>>

(* A handler that has read "found" writes the record: if it names another  *)
(* socket by now, nobody who looks at the record will find that one.       *)
Overwrites(found) == missed' = missed \cup ({record} \cap (Sockets \ {found}))

(* Mutant: a user who already has a connection keeps the record of it.     *)
RegisterFirst(s) ==
    /\ pc[s] = "reading"
    /\ record' = IF prior[s] = NoSocket THEN s ELSE record
    /\ timed' = TRUE
    /\ Overwrites(prior[s])
    /\ pc' = [pc EXCEPT ![s] = "joining"]
    /\ UNCHANGED <<tokenVars, touching, early, opened, live, prior, refreshing, leaving,
                   removing, kickVars, events>>

Register(s) ==
    /\ pc[s] = "reading"
    /\ record' = s /\ timed' = TRUE
    /\ Overwrites(prior[s])
    /\ pc' = [pc EXCEPT ![s] = IF prior[s] = NoSocket THEN "joining" ELSE "replacing"]
    /\ UNCHANGED <<tokenVars, touching, early, opened, live, prior, refreshing, leaving,
                   removing, kickVars, events>>

(* setActiveConnection fails, before or after its SET, and returns false:  *)
(* the connection goes on as the only one of the user.                     *)
RegisterFails(s) ==
    /\ Happens
    /\ pc[s] = "reading"
    /\ \/ missed' = missed \cup {s} /\ UNCHANGED <<record, timed>>
       \/ record' = s /\ timed' \in BOOLEAN /\ Overwrites(NoSocket)
    /\ pc' = [pc EXCEPT ![s] = "joining"]
    /\ UNCHANGED <<tokenVars, touching, early, opened, live, prior, refreshing, leaving,
                   removing, kickVars>>

(* registerUserConnection, 200 ms later: the earlier socket is closed.     *)
ReplaceOld(s) ==
    /\ pc[s] = "replacing"
    /\ pc' = [pc EXCEPT ![s] = "joining"]
    /\ prior' = [prior EXCEPT ![s] = NoSocket]
    /\ Closes({prior[s]})
    /\ UNCHANGED <<tokenVars, touching, early, opened, recordVars, refreshing,
                   removing, kickVars, events>>

(* The socket joins the rooms through which events reach the user; one     *)
(* that was closed meanwhile joins nothing that is heard.                  *)
Join(s) ==
    /\ pc[s] = "joining"
    /\ pc' = [pc EXCEPT ![s] = "joined"]
    /\ UNCHANGED <<tokenVars, touching, early, opened, live, prior, recordVars,
                   refreshing, leaving, removing, kickVars, events>>

(* The client goes away, or misses the pings, at any point.                *)
Drop(s) ==
    /\ s \in live
    /\ Closes({s})
    /\ UNCHANGED <<tokenVars, touching, early, pc, opened, prior, recordVars,
                   refreshing, removing, kickVars, events>>

(* WsJwtGuard on a message of s: the session is touched, and then the      *)
(* record; or the socket is disconnected.                                  *)
Message(s) ==
    /\ Happens
    /\ s \in live /\ pc[s] = "joined"
    /\ IsCurrent(opened[s].token, opened[s].device)
    /\ touching' = touching \cup {session}
    /\ refreshing' = refreshing \cup ({record} \ {NoSocket})
    /\ UNCHANGED <<tokenVars, early, pc, opened, live, prior, recordVars, leaving,
                   removing, kickVars>>

RefuseMessage(s) ==
    /\ s \in live /\ pc[s] = "joined"
    /\ ~ IsCurrent(opened[s].token, opened[s].device)
    /\ Closes({s})
    /\ UNCHANGED <<tokenVars, touching, early, pc, opened, prior, recordVars,
                   refreshing, removing, kickVars, events>>

(* updateLastActivity writes back the record it read; as in Touch, the ttl *)
(* is lost.                                                                *)
UpdateLastActivity(s) ==
    /\ s \in refreshing
    /\ refreshing' = refreshing \ {s}
    /\ record' = s /\ timed' = FALSE
    /\ Overwrites(s)
    /\ UNCHANGED <<tokenVars, touching, early, pc, opened, live, prior, leaving,
                   removing, kickVars, events>>

IsActiveSocket(s) == record = s

(* handleSocketDisconnect: the record goes only if it names this socket.   *)
LookAtClosed(s) ==
    /\ s \in leaving
    /\ leaving' = leaving \ {s}
    /\ removing' = IF IsActiveSocket(s) THEN removing \cup {s} ELSE removing
    /\ UNCHANGED <<tokenVars, touching, early, pc, opened, live, prior, recordVars,
                   refreshing, kickVars, events>>

RemoveRecord(s) ==
    /\ s \in removing
    /\ removing' = removing \ {s}
    /\ record' = NoSocket /\ Overwrites(s)
    /\ UNCHANGED <<tokenVars, touching, early, pc, opened, live, prior, timed,
                   refreshing, leaving, kickVars, events>>

(* A call to Redis fails: isActiveSocket answers false, the DEL is not     *)
(* made, and the record stays.                                             *)
CleanupFails(s) ==
    /\ Happens
    /\ s \in leaving \cup removing
    /\ leaving' = leaving \ {s} /\ removing' = removing \ {s}
    /\ UNCHANGED <<tokenVars, touching, early, pc, opened, live, prior, recordVars,
                   refreshing, kickVars>>

(* WEBSOCKET_TTL passes since the registration, without a message.         *)
RecordExpires ==
    /\ Happens
    /\ record # NoSocket /\ timed
    /\ record' = NoSocket /\ Overwrites(NoSocket)
    /\ UNCHANGED <<tokenVars, touching, early, pc, opened, live, prior, timed,
                   refreshing, leaving, removing, kickVars>>

-----------------------------------------------------------------------------
(* AuthEventsHandler and forceLogoutUser: find the user's socket, if any.  *)
ForceLogout ==
    /\ forced > 0
    /\ forced' = forced - 1
    /\ kicked' = [s \in Sockets |-> IF s = record THEN kicked[s] + 1 ELSE kicked[s]]
    /\ UNCHANGED <<tokenVars, touching, early, socketVars, events>>

(* The read of the record fails: nobody seems to be connected.             *)
ForceLogoutFails ==
    /\ Happens
    /\ forced > 0
    /\ forced' = forced - 1
    /\ Overwrites(NoSocket)
    /\ UNCHANGED <<tokenVars, touching, early, pc, opened, live, prior, record, timed,
                   refreshing, leaving, removing, kicked>>

(* forceDisconnectSocket, 100 ms later, and then DEL of the record,        *)
(* whichever socket it names by now.                                       *)
DisconnectForced(s) ==
    /\ kicked[s] > 0
    /\ kicked' = [kicked EXCEPT ![s] = @ - 1]
    /\ Closes({s})
    /\ record' = NoSocket /\ Overwrites(s)
    /\ UNCHANGED <<tokenVars, touching, early, pc, opened, prior, timed, refreshing,
                   removing, forced, events>>

(* The server dies: sockets and everything in memory go, Redis stays.      *)
Crash ==
    /\ Happens
    /\ live # {}
    /\ live' = {}
    /\ pc' = [s \in Sockets |-> IF pc[s] = "new" THEN "new" ELSE "over"]
    /\ touching' = {} /\ refreshing' = {} /\ leaving' = {} /\ removing' = {}
    /\ forced' = 0 /\ kicked' = [s \in Sockets |-> 0]
    /\ UNCHANGED <<tokenVars, early, opened, prior, recordVars>>

-----------------------------------------------------------------------------
UserStep(d) ==
    \/ \E t \in Tokens : \/ CompleteCustomerSignup(d, t) \/ CompleteCustomerSignin(d, t)
                        \/ CompleteDriverSignup(d, t) \/ CompleteDriverSignin(d, t)
    \/ LogOut(d)
    \/ Request(d)
    \/ \E s \in Sockets : Connect(s, d)

SocketStep(s) ==
    \/ ReadRecord(s) \/ Register(s) \/ RegisterFails(s) \/ ReplaceOld(s) \/ Join(s)
    \/ LookAtClosed(s) \/ RemoveRecord(s) \/ CleanupFails(s)
    \/ UpdateLastActivity(s)
    \/ DisconnectForced(s)

Environment ==
    \/ \E s \in Sockets : Drop(s) \/ Message(s) \/ RefuseMessage(s)
    \/ InitiateCustomerSignup \/ SigninCustomer \/ ResendCustomerOtp
    \/ InitiateDriverSignup \/ SigninDriver \/ ResendDriverOtp
    \/ SessionExpires \/ RecordExpires \/ Crash

Next ==
    \/ \E d \in Devices : UserStep(d)
    \/ \E s \in Sockets : SocketStep(s)
    \/ \E old \in Sessions : Touch(old)
    \/ ForceLogout \/ ForceLogoutFails
    \/ Environment

Spec == Init /\ [][Next]_vars

(* The server does not stop while there is something it has begun; nobody  *)
(* is obliged to connect, to send a message or to drop.                    *)
ServerStep ==
    ForceLogout \/ ForceLogoutFails \/ \E s \in Sockets : SocketStep(s)

Fairness == WF_vars(ServerStep)

FairSpec == Spec /\ Fairness

-----------------------------------------------------------------------------
(* Properties.                                                             *)

(* The user's record leads to every socket of the user that may hear       *)
(* events: it names the socket, or names one whose handleConnection is     *)
(* about to close it.  A socket gets lost only when Redis forgets or fails,*)
(* or when a handler writes the record that has read another one before.   *)
SocketsAreTracked ==
    \A s \in live \ missed :
        pc[s] \in {"replacing", "joining", "joined"} =>
            record = s \/ \E u \in Sockets : pc[u] = "replacing" /\ prior[u] = s

(* The session of a connected socket has ended, which must have been       *)
(* registered by then, and its record is not missed.                       *)
Lingers(s) ==
    /\ s \in live \ (missed \cup early)
    /\ pc[s] = "joined"
    /\ opened[s].token \in ended

(* Single session enforcement reaches the sockets: those whose session was *)
(* replaced or logged out are closed, without having to send a message.    *)
EndedIsDisconnected ==
    (\E s \in Sockets : Lingers(s)) ~> (\A s \in Sockets : ~ Lingers(s))
=============================================================================
