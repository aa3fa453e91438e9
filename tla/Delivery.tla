------------------------------ MODULE Delivery -------------------------------
(***************************************************************************)
(* One call that tells users something: an event to one user or to many    *)
(* (Event2Service.sendToUser, sendToUsers) or a stored notification        *)
(* (NotificationsService.sendNotification).  A user whom Redis has in      *)
(* front is sent it by socket, everybody else by Expo push.  Calls share   *)
(* nothing.  Presence says how the states in Redis come about; here they   *)
(* change as they like.                                                    *)
(***************************************************************************)
CONSTANTS Users

Calls == {"event", "events", "notification"}

VARIABLES
    call,      \* which call is made
    answer,    \* what the users service gives for many users: "tokens", which
               \* sendMulticast takes, or "records", which it drops
    front,     \* Redis: users whose app state is FOREGROUND; for notifications,
               \* users with a connection record
    room,      \* users with a socket in their room
    tokens,    \* users with an Expo token
    to,        \* the users the call is for
    looked,    \* those of them whose state the call has read
    socket,    \* those it is to reach by socket
    push,      \* those it is to reach by push
    step,      \* "idle", "save", "send" or "over"
    heard,     \* users whose socket got it
    pushed,    \* users to whom Expo took it
    note,      \* the stored notification: "none", "unread" or "read"
    unsteady,  \* history: users whose presence was in two minds, or changed
    lost       \* history: users for whom a call failed

presenceVars == <<front, room, tokens>>
planVars == <<to, looked, socket, push>>
vars == <<call, answer, presenceVars, planVars, step, heard, pushed, note,
          unsteady, lost>>

TypeOK ==
    /\ call \in Calls /\ answer \in {"tokens", "records"}
    /\ step \in {"idle", "save", "send", "over"}
    /\ {front, room, tokens, to, unsteady, lost} \subseteq SUBSET Users
    /\ looked \subseteq to /\ socket \subseteq looked /\ push \subseteq looked
    /\ heard \subseteq looked /\ pushed \subseteq looked
    /\ note \in {"none", "unread", "read"}

Init ==
    /\ call \in Calls /\ answer \in {"tokens", "records"}
    /\ front \in SUBSET Users /\ room = front /\ tokens \in SUBSET Users
    /\ to = {} /\ looked = {} /\ socket = {} /\ push = {}
    /\ step = "idle" /\ heard = {} /\ pushed = {} /\ note = "none"
    /\ unsteady = {} /\ lost = {}

---------------------------------------------------------------------------
\* sendToUser, sendToUsers or sendNotification is called.
Send(us) ==
    /\ step = "idle" /\ us # {}
    /\ call # "events" => \E u \in Users : us = {u}
    /\ to' = us
    /\ step' = IF call = "notification" THEN "save" ELSE "send"
    /\ UNCHANGED <<call, answer, presenceVars, looked, socket, push, heard, pushed,
                   note, unsteady, lost>>

\* NotificationRepository.create
SaveNotification ==
    /\ step = "save"
    /\ note' = "unread" /\ step' = "send"
    /\ UNCHANGED <<call, answer, presenceVars, planVars, heard, pushed, unsteady, lost>>

\* Mutant: users in the background count as active too.
CategorizeUserAsActive(u) ==
    /\ step = "send" /\ u \in to \ looked
    /\ looked' = looked \cup {u}
    /\ socket' = socket \cup {u} /\ UNCHANGED push
    /\ UNCHANGED <<call, answer, presenceVars, to, step, heard, pushed, note,
                   unsteady, lost>>

\* categorizeUsersByStatus, determineDeliveryMethod and getActiveConnection
CategorizeUser(u) ==
    /\ step = "send" /\ u \in to \ looked
    /\ looked' = looked \cup {u}
    /\ IF u \in front THEN socket' = socket \cup {u} /\ UNCHANGED push
                      ELSE push' = push \cup {u} /\ UNCHANGED socket
    /\ UNCHANGED <<call, answer, presenceVars, to, step, heard, pushed, note,
                   unsteady, lost>>

Categorized == step = "send" /\ looked = to

\* WebSocketService.sendToUser: nobody hears what is sent to an empty room.
EmitToRoom(u) ==
    /\ Categorized /\ u \in socket
    /\ socket' = socket \ {u}
    /\ heard' = heard \cup ({u} \cap room)
    /\ UNCHANGED <<call, answer, presenceVars, to, looked, push, step, pushed, note,
                   unsteady, lost>>

\* sendPushNotificationToDriver and -ToCustomer, and the push of a notification
PushToUser(u) ==
    /\ Categorized /\ call # "events" /\ u \in push
    /\ push' = {}
    /\ pushed' = pushed \cup ({u} \cap tokens)
    /\ UNCHANGED <<call, answer, presenceVars, to, looked, socket, step, heard, note,
                   unsteady, lost>>

\* The push half of broadcastEventWithAck: one multicast to all of them.
PushToUsers ==
    /\ Categorized /\ call = "events" /\ push # {}
    /\ push' = {}
    /\ pushed' = pushed \cup (IF answer = "tokens" THEN push \cap tokens ELSE {})
    /\ UNCHANGED <<call, answer, presenceVars, to, looked, socket, step, heard, note,
                   unsteady, lost>>

Finish ==
    /\ Categorized /\ socket = {} /\ push = {}
    /\ step' = "over"
    /\ UNCHANGED <<call, answer, presenceVars, planVars, heard, pushed, note,
                   unsteady, lost>>

---------------------------------------------------------------------------
\* Mongo, or Redis before everybody is categorized: the call is over.
FailToPlan ==
    /\ step = "save" \/ (step = "send" /\ looked # to)
    /\ step' = "over" /\ lost' = to
    /\ socket' = {} /\ push' = {}
    /\ UNCHANGED <<call, answer, presenceVars, to, looked, heard, pushed, note,
                   unsteady>>

\* fetchSockets gets no answer from the other servers.  The other users are
\* served all the same; a notification is pushed instead.
FailToEmit(u) ==
    /\ Categorized /\ u \in socket
    /\ socket' = socket \ {u}
    /\ IF call = "notification"
       THEN push' = push \cup {u} /\ lost' = lost \cup ({u} \ tokens)
       ELSE lost' = lost \cup {u} /\ UNCHANGED push
    /\ UNCHANGED <<call, answer, presenceVars, to, looked, step, heard, pushed, note,
                   unsteady>>

\* The users service or Expo fails: nobody who was to get a push gets one.
FailToPush ==
    /\ Categorized /\ push # {}
    /\ push' = {} /\ lost' = lost \cup push
    /\ UNCHANGED <<call, answer, presenceVars, to, looked, socket, step, heard, pushed,
                   note, unsteady>>

\* The user comes or goes: the room and what Redis knows change one at a time.
PresenceChanges(u) ==
    /\ step \in {"idle", "save", "send"}
    /\ \/ /\ front' \in {front \cup {u}, front \ {u}} \ {front}
          /\ UNCHANGED room
       \/ /\ room' \in {room \cup {u}, room \ {u}} \ {room}
          /\ UNCHANGED front
    /\ unsteady' = IF step # "idle" \/ (u \in front') # (u \in room')
                   THEN unsteady \cup {u} ELSE unsteady \ {u}
    /\ UNCHANGED <<call, answer, tokens, planVars, step, heard, pushed, note, lost>>

\* NotificationsService.markAsRead by its owner, or markAllAsRead
MarkAsRead ==
    /\ note = "unread" /\ note' = "read"
    /\ UNCHANGED <<call, answer, presenceVars, planVars, step, heard, pushed,
                   unsteady, lost>>

Next ==
    \/ \E us \in SUBSET Users : Send(us)
    \/ \E u \in Users :
          CategorizeUser(u) \/ EmitToRoom(u) \/ PushToUser(u) \/ FailToEmit(u)
          \/ PresenceChanges(u)
    \/ SaveNotification \/ PushToUsers \/ Finish \/ FailToPlan \/ FailToPush \/ MarkAsRead

Spec == Init /\ [][Next]_vars

---------------------------------------------------------------------------
\* Nobody is told twice, by socket and by push, or of a notification that is
\* not in his list.  When the call is over, every user whose presence stayed
\* the same, who can be reached at all and for whom no call failed has been
\* told: one user's coming and going, or a failing socket, costs nobody else
\* the event.
ToldOnce ==
    /\ heard \cap pushed = {}
    /\ call = "notification" /\ note = "none" => heard \cup pushed = {}
    /\ step = "over" =>
          \A u \in to \ (unsteady \cup lost) :
             \/ u \in heard \cup pushed
             \/ u \notin room
                /\ (u \notin tokens \/ (call = "events" /\ answer = "records"))
=============================================================================
