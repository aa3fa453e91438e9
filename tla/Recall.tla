------------------------------- MODULE Recall -------------------------------
(***************************************************************************)
(* Asking, with the driver's last request: the key that the pop of the     *)
(* queue writes so that an app that was away can ask what it missed        *)
(* (GET /driver-trips/last-request).                                       *)
(***************************************************************************)
EXTENDS Asking

VARIABLES
    last,      \* Redis: the driver's last request, or NoTrip
    clearing   \* callers whose last step deletes it: declines and timeouts

recallVars == <<vars, last, clearing>>

RecallInit == Init /\ last = NoTrip /\ clearing = {}

SetLastRequest(c) == last' = work'[c].next
ClearLastRequest == last' = NoTrip

\* popNextTripForDriver takes a trip from the queue and remembers it.
Pops(c) ==
    /\ PopNextTrip(c) /\ work'[c].at = "mark"
    /\ SetLastRequest(c)
    /\ UNCHANGED clearing

\* A decline or a timeout that is done deletes the key, whatever it names by
\* now; one that throws before its answer is written does not, except that
\* handleDriverTimeout keeps its errors to itself.
Done(c) ==
    /\ IF c \in clearing /\ work'[c] = Idle /\ (work[c].why # "decline" \/ Return(c))
       THEN ClearLastRequest ELSE UNCHANGED last
    /\ clearing' = IF work'[c] = Idle THEN clearing \ {c} ELSE clearing

Serves(c) ==
    /\ \/ ClearProcessing(c) \/ RemoveSpecificTrip(c) \/ IsProcessing(c)
       \/ PopNextTrip(c) /\ work'[c].at # "mark"
       \/ SetProcessing(c) \/ AddRequestJob(c) \/ AddTimeoutJob(c)
       \/ Return(c) \/ Fail(c)
    /\ Done(c)

Declines(c, t) ==
    /\ DeclineTrip(c, t)
    /\ clearing' = clearing \cup {c} /\ UNCHANGED last

TimesOut(c, t) ==
    /\ DriverTimesOut(c, t)
    /\ clearing' = IF work'[c] = Idle THEN clearing ELSE clearing \cup {c}
    /\ UNCHANGED last

Accepts(t) ==
    /\ AcceptTrip(t)
    /\ ClearLastRequest
    /\ UNCHANGED clearing

\* Only a trip that still waits is shown again; the key of another goes.
GetLastRequest ==
    /\ last # NoTrip /\ last \notin waiting
    /\ ClearLastRequest
    /\ UNCHANGED <<vars, clearing>>

\* The key's ttl, 180 s, is longer than the driver has to answer.
LastRequestExpires ==
    /\ last \notin {NoTrip, processing} \cup Handled(AtWork) \cup shown
    /\ last' = NoTrip
    /\ UNCHANGED <<vars, clearing>>

RecallNext ==
    \/ \E c \in Callers : Pops(c) \/ Serves(c)
    \/ \E c \in Callers, t \in Trips : Declines(c, t) \/ TimesOut(c, t)
    \/ \E t \in Trips : Accepts(t)
    \/ GetLastRequest \/ LastRequestExpires
    \/ /\ \/ \E t \in Trips : AddTrip(t) \/ TakenByOther(t)
          \/ \E c \in Callers, t \in Trips :
                \/ Kick(c, t) \/ CancelTripRequest(c, t)
                \/ \E b \in BOOLEAN : RunJob(c, t, b) \/ HandleTripApproved(c, t, b)
          \/ KeyExpires
       /\ UNCHANGED <<last, clearing>>
    \/ Crash /\ clearing' = {} /\ UNCHANGED last

RecallSpec == RecallInit /\ [][RecallNext]_recallVars

---------------------------------------------------------------------------
\* Requests of waiting trips that the driver is being asked for.
Asked == ({processing} \cup shown) \cap (waiting \ answered)

\* "Save the popped trip as last request for recovery" (popNextTripForDriver):
\* served by one caller at a time, the last request is not deleted while the
\* driver is being asked for it.  A decline or a timeout serves the next trip
\* first and deletes the last request, by then the next one, afterwards.
AskedIsRecalled ==
    [][(last \in (Asked \cap Asked') /\ order' # "lost") => last' # NoTrip]_recallVars
=============================================================================
