----------------------------- MODULE MCAccounts -----------------------------
(* Components that share no state and are small: a behaviour is one of a   *)
(* customer's cards, of one file, of one driver's weekly earnings, of the  *)
(* ratings of one trip, of the cancellation of one, of the administrators' *)
(* accounts, of one call that tells users something or of the requests to  *)
(* one driver.                                                             *)
EXTENDS Naturals, TLC

CONSTANTS
    Things,      \* cards, ratings, trips
    Keys,        \* files, additions of rides, accounts
    Codes, Emails,
    Requests,    \* requests, users who are told something, callers
    Nothing,
    MaxMondays, MaxCharges

ASSUME AccountsAssumption ==
    /\ Nothing \notin Things \cup Keys
    /\ MaxMondays \in Nat /\ MaxCharges \in Nat

VARIABLES part,
    billed, attached, setups, succeeded, created, active, default, cardWork, torn,
    cardsDisturbed,
    kind, record, stored, fresh, fileWork, dropping, replaced,
    weeks, adding, done, brokenOff, job, mondays, weeksRaced,
    completed, rating, commented, rated, rateWork, locked, ratesDisturbed,
    status, late, key, avail, other, penalties, charges, tries, lock, cancelWork,
    cancelsOverlapped, failed, byCustomer,
    accounts, codes, usedIds, usedCodes, adminWork, supers, resets, adminsDisturbed,
    call, answer, front, room, tokens, to, looked, socket, push, step, heard, pushed,
    note, unsteady, lost,
    called, waiting, answered, queue, processing, jobs, timers, kicks, taken, askWork,
    shown, order, orphans

C == INSTANCE Cards WITH Cards <- Things, NoCard <- Nothing, work <- cardWork,
                         disturbed <- cardsDisturbed
F == INSTANCE Files WITH NoKey <- Nothing, work <- fileWork
E == INSTANCE Earnings WITH Additions <- Keys, raced <- weeksRaced
R == INSTANCE Ratings WITH Values <- Things, NoValue <- Nothing, told <- rated,
                           work <- rateWork, disturbed <- ratesDisturbed
X == INSTANCE Cancel WITH work <- cancelWork, overlapped <- cancelsOverlapped
A == INSTANCE Admins WITH Ids <- Keys, work <- adminWork, disturbed <- adminsDisturbed
D == INSTANCE Delivery WITH Users <- Requests
Q == INSTANCE Asking WITH Trips <- Things, Callers <- Requests, NoTrip <- Nothing,
                          work <- askWork

cardVars == <<billed, attached, setups, succeeded, created, active, default, cardWork,
              torn, cardsDisturbed>>
fileVars == <<kind, record, stored, fresh, fileWork, dropping, replaced>>
weekVars == <<weeks, adding, done, brokenOff, job, mondays, weeksRaced>>
rateVars == <<completed, rating, commented, rated, rateWork, locked, ratesDisturbed>>
cancelVars == <<status, late, key, avail, other, penalties, charges, tries, lock,
                cancelWork, cancelsOverlapped, failed, byCustomer>>
adminVars == <<accounts, codes, usedIds, usedCodes, adminWork, supers, resets,
               adminsDisturbed>>
callVars == <<call, answer, front, room, tokens, to, looked, socket, push, step, heard,
              pushed, note, unsteady, lost>>
askVars == <<called, waiting, answered, queue, processing, jobs, timers, kicks, taken,
             askWork, shown, order, orphans>>
vars == <<part, cardVars, fileVars, weekVars, rateVars, cancelVars, adminVars, callVars,
          askVars>>

Parts == {"cards", "file", "weeks", "ratings", "cancel", "admins", "call", "asking"}

\* A component that does not run starts in one of its initial states only.
Init ==
    /\ part \in Parts
    /\ C!Init /\ F!Init /\ E!Init /\ R!Init /\ X!Init /\ A!Init /\ D!Init /\ Q!Init
    /\ part # "file" => kind = "image"
    /\ part # "call" => call = "event" /\ answer = "tokens" /\ front = {} /\ tokens = {}

\* The components that do not run stay as they are.
Next ==
    /\ UNCHANGED part
    /\ \/ part = "cards" /\ C!Next
       \/ part # "cards" /\ UNCHANGED cardVars
    /\ \/ part = "file" /\ F!Next
       \/ part # "file" /\ UNCHANGED fileVars
    /\ \/ part = "weeks" /\ E!Next
       \/ part # "weeks" /\ UNCHANGED weekVars
    /\ \/ part = "ratings" /\ R!Next
       \/ part # "ratings" /\ UNCHANGED rateVars
    /\ \/ part = "cancel" /\ X!Next
       \/ part # "cancel" /\ UNCHANGED cancelVars
    /\ \/ part = "admins" /\ A!Next
       \/ part # "admins" /\ UNCHANGED adminVars
    /\ \/ part = "call" /\ D!Next
       \/ part # "call" /\ UNCHANGED callVars
    /\ \/ part = "asking" /\ Q!Next
       \/ part # "asking" /\ UNCHANGED askVars

Spec == Init /\ [][Next]_vars

Alike == Permutations(Things) \cup Permutations(Requests)

\* The type invariant of the component that runs; the others are in an initial
\* state.
TypeOK ==
    CASE part = "cards"   -> C!TypeOK
      [] part = "file"    -> F!TypeOK
      [] part = "weeks"   -> E!TypeOK
      [] part = "ratings" -> R!TypeOK
      [] part = "cancel"  -> X!TypeOK
      [] part = "admins"  -> A!TypeOK
      [] part = "call"    -> D!TypeOK
      [] part = "asking"  -> Q!TypeOK

\* Cards: see DefaultIsChargeable of Cards, about PaymentMethodService.
DefaultIsChargeable == C!DefaultIsChargeable

\* Files: see RecordedIsStored of Files, about the uploads and deletions.
RecordedIsStored == F!RecordedIsStored

\* Earnings: see WeeksAreSound of Earnings, about DriverEarningsService.
WeeksAreSound == E!WeeksAreSound

\* Ratings: see ToldIsRated of Ratings, about TripService.rateTrip and rateDriverTrip.
ToldIsRated == R!ToldIsRated

\* Cancellations: see CancelIsSettled of Cancel, about TripService's cancellations.
CancelIsSettled == X!CancelIsSettled

\* Administrators: see AccountsAreSound of Admins, about AdminManagementService.
AccountsAreSound == A!AccountsAreSound

\* Events: see ToldOnce of Delivery, about Event2Service and NotificationsService.
ToldOnce == D!ToldOnce

\* One driver: see NobodyIsForgotten of Asking, about TripQueueService and
\* DriverTripQueueService.
NobodyIsForgotten == Q!NobodyIsForgotten

\* One driver: see OneAtATime of Asking, about processNextDriverRequest.
OneAtATime == Q!OneAtATime
=============================================================================
