------------------------------- MODULE Asking --------------------------------
(***************************************************************************)
(* How one driver is asked, Redis command by Redis command: several        *)
(* callers of processNextDriverRequest may look at the processing key and  *)
(* pop the queue at once.  Dispatch has the same code with many drivers    *)
(* and every such call as one step.                                        *)
(***************************************************************************)
EXTENDS Naturals, FiniteSets

CONSTANTS
    Trips,
    Callers,     \* handlers, jobs and timers of the server
    NoTrip

VARIABLES
    called,      \* trips that have called this driver
    waiting,     \* those that still wait for some driver
    answered,    \* those of them whose rejected list has this driver
    queue,       \* Redis: the driver's queue
    processing,  \* Redis: the trip the driver is being asked for
    jobs, timers,  \* Bull: request and timeout jobs of the driver
    kicks,       \* setTimeout callbacks of requests
    taken,       \* trip.approved events of other drivers still to be handled
    work,        \* work[c]: what caller c is doing
    shown,       \* requests on the driver's screen
    order,       \* history: "kept"; "stolen" once the end of one trip has deleted the
                 \* key while the driver was asked for another; "lost" once two
                 \* callers were at work at once, a key ran out, a call failed, the
                 \* server died, or an approval of another driver has left this one a
                 \* key, or a queue, that nobody comes back to
    orphans      \* history: trips that a failed call or a dead server was handling

tripVars == <<called, waiting, answered>>
redisVars == <<queue, processing>>
historyVars == <<order, orphans>>
vars == <<tripVars, redisVars, jobs, timers, kicks, taken, work, shown,
          historyVars>>

Reasons == {"next", "decline", "cancel"}
Serving == {"look", "pop", "mark", "job", "timer"}   \* processNextDriverRequest
Steps == Serving \cup {"clear", "remove", "return"}
Idle == [at |-> "none"]

TypeOK ==
    /\ {queue, jobs, timers, kicks, taken, shown} \subseteq SUBSET Trips
    /\ answered \subseteq waiting /\ waiting \subseteq called /\ called \subseteq Trips
    /\ processing \in Trips \cup {NoTrip}
    /\ work \in [Callers -> {Idle} \cup
                    [at : Steps, why : Reasons, trip : Trips \cup {NoTrip},
                     next : Trips \cup {NoTrip}]]
    /\ order \in {"kept", "stolen", "lost"} /\ orphans \subseteq Trips

Init ==
    /\ called = {} /\ waiting = {} /\ answered = {}
    /\ queue = {} /\ processing = NoTrip
    /\ jobs = {} /\ timers = {} /\ kicks = {} /\ taken = {} /\ shown = {}
    /\ work = [c \in Callers |-> Idle]
    /\ order = "kept" /\ orphans = {}

AtWork == {c \in Callers : work[c] # Idle}
Busy == AtWork # {}

Marks(lost, stolen) == order' = IF lost THEN "lost"
                                ELSE IF stolen /\ order = "kept" THEN "stolen" ELSE order

\* Caller c, who had nothing to do, begins at step `at`, on behalf of trip t.
Begins(c, at, why, t) ==
    /\ work[c] = Idle
    /\ work' = [work EXCEPT ![c] = [at |-> at, why |-> why, trip |-> t, next |-> NoTrip]]

Goes(c, at) == work' = [work EXCEPT ![c].at = at]

\* processNextDriverRequest returns to its caller.
Served(c) == IF work[c].why \in {"decline", "cancel"}
             THEN work' = [work EXCEPT ![c].at = "return", ![c].next = NoTrip]
             ELSE work' = [work EXCEPT ![c] = Idle]

---------------------------------------------------------------------------
(* Who calls.                                                              *)

\* addTripRequestSequential: the queue of this driver, and a callback
AddTrip(t) ==
    /\ t \notin called
    /\ called' = called \cup {t} /\ waiting' = waiting \cup {t}
    /\ queue' = queue \cup {t} /\ kicks' = kicks \cup {t}
    /\ UNCHANGED <<answered, processing, jobs, timers, taken, work, shown,
                   historyVars>>

Kick(c, t) ==
    /\ t \in kicks /\ kicks' = kicks \ {t}
    /\ Begins(c, "look", "next", NoTrip) /\ Marks(Busy, FALSE)
    /\ UNCHANGED <<tripVars, redisVars, jobs, timers, taken, shown, orphans>>

\* handleTripRequest: a trip that no longer waits, or a driver who is not
\* available, is timed out at once; else the driver is asked if it is his turn.
RunJob(c, t, away) ==
    /\ t \in jobs /\ jobs' = jobs \ {t}
    /\ IF t \notin waiting \/ away
       THEN Begins(c, "clear", "next", t) /\ UNCHANGED shown
       ELSE /\ shown' = IF processing = t THEN shown \cup {t} ELSE shown
            /\ UNCHANGED work
    /\ Marks(Busy, FALSE)
    /\ UNCHANGED <<tripVars, redisVars, timers, kicks, taken, orphans>>

\* handleTripTimeout; the write of its answer comes first.
DriverTimesOut(c, t) ==
    /\ t \in timers /\ timers' = timers \ {t}
    /\ IF t \in waiting \ answered
       THEN /\ answered' = answered \cup {t} /\ shown' = shown \ {t}
            /\ Begins(c, "clear", "next", t) /\ Marks(Busy, FALSE)
       ELSE UNCHANGED <<answered, shown, work, order>>
    /\ UNCHANGED <<called, waiting, redisVars, jobs, kicks, taken, orphans>>

\* declineTrip and handleDriverResponse; the answer is written on return.
DeclineTrip(c, t) ==
    /\ t \in shown \cap waiting
    /\ shown' = shown \ {t}
    /\ Begins(c, "clear", "decline", t) /\ Marks(Busy, FALSE)
    /\ UNCHANGED <<tripVars, redisVars, jobs, timers, kicks, taken, orphans>>

\* cleanupTripFromQueues of cancelTripRequest
CancelTripRequest(c, t) ==
    /\ t \in waiting
    /\ jobs' = jobs \ {t} /\ timers' = timers \ {t}
    /\ Begins(c, "clear", "cancel", t) /\ Marks(Busy, FALSE)
    /\ UNCHANGED <<tripVars, redisVars, kicks, taken, shown, orphans>>

\* Another driver accepts t, and this one is told.
TakenByOther(t) ==
    /\ t \in waiting
    /\ waiting' = waiting \ {t} /\ answered' = answered \ {t} /\ taken' = taken \cup {t}
    /\ shown' = shown \ {t}
    /\ UNCHANGED <<called, redisVars, jobs, timers, kicks, work,
                   historyVars>>

\* handleTripApproved: t is found in no queue, and all drivers with a queue
\* are affected, of whom three are served.  A driver without a queue keeps his
\* processing key, and the job that would clear it is removed.
HandleTripApproved(c, t, served) ==
    /\ t \in taken /\ taken' = taken \ {t}
    /\ jobs' = jobs \ {t} /\ timers' = timers \ {t}
    /\ IF queue = {}
       THEN /\ Marks(processing # NoTrip, FALSE)
            /\ UNCHANGED <<processing, work>>
       ELSE /\ processing' = NoTrip
            /\ Marks(Busy \/ ~served, processing \notin {t, NoTrip})
            /\ IF served THEN Begins(c, "look", "next", NoTrip) ELSE UNCHANGED work
    /\ UNCHANGED <<tripVars, queue, kicks, shown, orphans>>

---------------------------------------------------------------------------
(* What they call.                                                         *)

ClearProcessing(c) ==
    /\ work[c].at = "clear"
    /\ processing' = NoTrip
    /\ Marks(FALSE, processing \notin {work[c].trip, NoTrip})
    /\ Goes(c, "remove")
    /\ UNCHANGED <<tripVars, queue, jobs, timers, kicks, taken, shown, orphans>>

RemoveSpecificTrip(c) ==
    /\ work[c].at = "remove"
    /\ queue' = queue \ {work[c].trip}
    /\ work' = [work EXCEPT ![c].at = "look",
                           ![c].trip = IF work[c].why = "next" THEN NoTrip ELSE @]
    /\ UNCHANGED <<tripVars, processing, jobs, timers, kicks, taken, shown,
                   historyVars>>

\* Mutant: the driver is not known to be busy with another request.
IsProcessingNobody(c) ==
    /\ work[c].at = "look"
    /\ Goes(c, "pop")
    /\ UNCHANGED <<tripVars, redisVars, jobs, timers, kicks, taken, shown,
                   historyVars>>

IsProcessing(c) ==
    /\ work[c].at = "look"
    /\ IF processing # NoTrip THEN Served(c) ELSE Goes(c, "pop")
    /\ UNCHANGED <<tripVars, redisVars, jobs, timers, kicks, taken, shown,
                   historyVars>>

\* Requests have one priority; which of them ZPOPMIN takes does not matter.
PopNextTrip(c) ==
    /\ work[c].at = "pop"
    /\ IF queue = {} THEN Served(c) /\ UNCHANGED queue
       ELSE \E t \in queue :
               /\ queue' = queue \ {t}
               /\ work' = [work EXCEPT ![c].at = "mark", ![c].next = t]
    /\ UNCHANGED <<tripVars, processing, jobs, timers, kicks, taken, shown,
                   historyVars>>

SetProcessing(c) ==
    /\ work[c].at = "mark"
    /\ processing' = work[c].next
    /\ Goes(c, "job")
    /\ UNCHANGED <<tripVars, queue, jobs, timers, kicks, taken, shown,
                   historyVars>>

AddRequestJob(c) ==
    /\ work[c].at = "job"
    /\ jobs' = jobs \cup {work[c].next}
    /\ Goes(c, "timer")
    /\ UNCHANGED <<tripVars, redisVars, timers, kicks, taken, shown, historyVars>>

\* Mutant: only a trip the driver is still being asked for gets a timeout job.
AddTimeoutJobIfAsked(c) ==
    /\ work[c].at = "timer"
    /\ timers' = IF processing = work[c].next THEN timers \cup {work[c].next} ELSE timers
    /\ Served(c)
    /\ UNCHANGED <<tripVars, redisVars, jobs, kicks, taken, shown, historyVars>>

AddTimeoutJob(c) ==
    /\ work[c].at = "timer"
    /\ timers' = timers \cup {work[c].next}
    /\ Served(c)
    /\ UNCHANGED <<tripVars, redisVars, jobs, kicks, taken, shown, historyVars>>

\* The caller's last step: a decline is written, or a cancelled trip leaves.
Return(c) ==
    /\ work[c].at = "return"
    /\ LET t == work[c].trip IN
          IF work[c].why = "decline"
          THEN /\ answered' = answered \cup ({t} \cap waiting)
               /\ UNCHANGED <<waiting, shown>>
          ELSE /\ answered' = answered \ {t}
               /\ waiting' = waiting \ {t} /\ shown' = shown \ {t}
    /\ work' = [work EXCEPT ![c] = Idle]
    /\ UNCHANGED <<called, redisVars, jobs, timers, kicks, taken, historyVars>>

---------------------------------------------------------------------------
(* The driver.                                                             *)

\* approveTrip and this driver's handleTripApproved: his queue is emptied, and
\* the trips in it have his rejection.
AcceptTrip(t) ==
    /\ t \in shown \cap waiting
    /\ waiting' = waiting \ {t} /\ shown' = shown \ {t}
    /\ answered' = (answered \cup (queue \cap waiting)) \ {t}
    /\ queue' = {} /\ processing' = NoTrip
    /\ jobs' = jobs \ {t} /\ timers' = timers \ {t}
    /\ UNCHANGED <<called, kicks, taken, work, historyVars>>

---------------------------------------------------------------------------
(* What goes wrong.                                                        *)

Handled(C) == {work[c].next : c \in C} \cup
              {work[c].trip : c \in {d \in C : work[d].why = "cancel"}}

\* Bound: once a fault has cost a trip its request, no call fails and no server
\* dies again.
MayFail == orphans = {}

\* A call throws.  processNextDriverRequest clears the key and its caller goes
\* on, and so does a cancellation whose clean-up fails; the others give up.
Fail(c) ==
    /\ MayFail
    /\ work[c] # Idle
    /\ IF work[c].at \in Serving
       THEN Served(c) /\ processing' = NoTrip
       ELSE /\ IF work[c].why = "cancel" /\ work[c].at # "return"
               THEN Goes(c, "return") ELSE work' = [work EXCEPT ![c] = Idle]
            /\ UNCHANGED processing
    /\ order' = "lost"
    /\ orphans' = orphans \cup
          ((Handled({c}) \ {NoTrip}) \ IF work'[c] = Idle THEN {} ELSE {work[c].trip})
    /\ UNCHANGED <<tripVars, queue, jobs, timers, kicks, taken, shown>>

Crash ==
    /\ MayFail
    /\ kicks # {} \/ taken # {} \/ AtWork # {}
    /\ kicks' = {} /\ taken' = {} /\ work' = [c \in Callers |-> Idle]
    /\ order' = "lost" /\ orphans' = orphans \cup (Handled(AtWork) \ {NoTrip})
    /\ UNCHANGED <<tripVars, redisVars, jobs, timers, shown>>

KeyExpires ==
    /\ processing # NoTrip /\ processing' = NoTrip
    /\ order' = "lost"
    /\ UNCHANGED <<tripVars, queue, jobs, timers, kicks, taken, work, shown, orphans>>

Next ==
    \/ \E t \in Trips : AddTrip(t) \/ TakenByOther(t) \/ AcceptTrip(t)
    \/ \E c \in Callers, t \in Trips :
          \/ Kick(c, t) \/ DriverTimesOut(c, t) \/ DeclineTrip(c, t)
          \/ CancelTripRequest(c, t)
          \/ \E b \in BOOLEAN : RunJob(c, t, b) \/ HandleTripApproved(c, t, b)
    \/ \E c \in Callers :
          \/ ClearProcessing(c) \/ RemoveSpecificTrip(c) \/ IsProcessing(c)
          \/ PopNextTrip(c) \/ SetProcessing(c)
          \/ AddRequestJob(c) \/ AddTimeoutJob(c) \/ Return(c) \/ Fail(c)
    \/ Crash \/ KeyExpires

Spec == Init /\ [][Next]_vars

---------------------------------------------------------------------------
\* processNextDriverRequest and its callers: however many of them serve the
\* driver at once, and whatever fails, while a trip waits for his answer it is in
\* his queue, in somebody's hands, or has a timeout job that answers for him; a
\* crash or a failed call forgets no other trip than those it was handling.  And
\* when nothing overlaps, a queue that is not empty has somebody left to serve it.
NobodyIsForgotten ==
    /\ waiting \ (answered \cup orphans) \subseteq queue \cup timers \cup Handled(AtWork)
    /\ queue # {} => \/ order = "lost" \/ Busy
                    \/ kicks \cup jobs \cup timers \cup taken # {}

\* processNextDriverRequest: served by one caller at a time, the driver sees one
\* request at a time, until the end of one trip (its cancellation, a job or timer
\* that comes late, its approval by another driver) deletes the key while he is
\* asked for another: handleDriverTimeout, cleanupTripFromQueues and
\* handleTripApproved do not compare the key's trip with theirs.
OneAtATime == order = "kept" => Cardinality(shown \cap waiting) <= 1
=============================================================================
