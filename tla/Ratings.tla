------------------------------- MODULE Ratings -------------------------------
(***************************************************************************)
(* What the customer and the driver of one trip say of it once it is       *)
(* completed: TripService.rateTrip, rateDriverTrip, addCustomerComment and *)
(* addDriverComment under the lock trip:<id>.  A rating is written to the  *)
(* trip and then told to the users service, which keeps the averages and   *)
(* is outside this program.  A step is one call.                           *)
(***************************************************************************)
CONSTANTS
    Requests, Values,
    NoValue      \* nothing said yet

Sides == {"customer", "driver"}

VARIABLES
    completed,  \* the trip's status is COMPLETED
    rating,     \* rating[s]: the trip's rating by side s
    commented,  \* the sides whose comment it has
    told,       \* told[s]: the last rating of s the users service has taken
    work,       \* work[q]: the request q is serving
    locked,     \* Redis holds the lock of the trip
    disturbed   \* history: a call failed, a lock expired under its holder, or
                \* a rating was told past the trip

vars == <<completed, rating, commented, told, work, locked, disturbed>>

Said == Values \cup {NoValue}
Works == [at : {"find", "write", "tell"}, side : Sides, what : {"rating", "comment"},
          value : Values]
Idle == [at |-> "none"]

TypeOK ==
    /\ {completed, locked, disturbed} \subseteq BOOLEAN
    /\ {rating, told} \subseteq [Sides -> Said]
    /\ commented \subseteq Sides
    /\ work \in [Requests -> Works \cup {Idle}]

Init ==
    /\ completed = FALSE /\ locked = FALSE /\ disturbed = FALSE
    /\ rating = [s \in Sides |-> NoValue] /\ told = rating /\ commented = {}
    /\ work = [q \in Requests |-> Idle]

Goes(q, at) == work' = [work EXCEPT ![q].at = at] /\ UNCHANGED locked

\* The operation returns or throws, and its lock is deleted, whoever holds it.
Ends(q) == work' = [work EXCEPT ![q] = Idle] /\ locked' = FALSE

---------------------------------------------------------------------------
Starts(q, side, what, value) ==
    /\ work[q] = Idle
    /\ ~locked /\ locked' = TRUE
    /\ work' = [work EXCEPT ![q] = [at |-> "find", side |-> side, what |-> what,
                                    value |-> value]]
    /\ UNCHANGED <<completed, rating, commented, told, disturbed>>

\* POST /customer-trips/:id/rate and the three requests like it
RateTrip(q, v) == Starts(q, "customer", "rating", v)
RateDriverTrip(q, v) == Starts(q, "driver", "rating", v)
AddCustomerComment(q, v) == Starts(q, "customer", "comment", v)
AddDriverComment(q, v) == Starts(q, "driver", "comment", v)

\* getTrip; only the trip's own users may speak, and only once it is completed.
FindTrip(q) ==
    /\ work[q].at = "find"
    /\ IF completed THEN Goes(q, "write") ELSE Ends(q)
    /\ UNCHANGED <<completed, rating, commented, told, disturbed>>

\* updateTripWithData of a comment
WriteComment(q) ==
    /\ work[q].at = "write" /\ work[q].what = "comment"
    /\ commented' = commented \cup {work[q].side}
    /\ Ends(q)
    /\ UNCHANGED <<completed, rating, told, disturbed>>

\* Mutant: the lock is given back before the users service is told.
WriteRatingUnlocking(q) ==
    /\ work[q].at = "write" /\ work[q].what = "rating"
    /\ rating' = [rating EXCEPT ![work[q].side] = work[q].value]
    /\ work' = [work EXCEPT ![q].at = "tell"] /\ locked' = FALSE
    /\ UNCHANGED <<completed, commented, told, disturbed>>

\* updateTripWithData of a rating
WriteRating(q) ==
    /\ work[q].at = "write" /\ work[q].what = "rating"
    /\ rating' = [rating EXCEPT ![work[q].side] = work[q].value]
    /\ Goes(q, "tell")
    /\ UNCHANGED <<completed, commented, told, disturbed>>

\* updateDriverRate and updateCustomerRate of the clients
Tell(q) ==
    /\ work[q].at = "tell"
    /\ told' = [told EXCEPT ![work[q].side] = work[q].value]
    /\ Ends(q)
    /\ UNCHANGED <<completed, rating, commented, disturbed>>

---------------------------------------------------------------------------
\* PATCH /customers/:id/rate and /drivers/:id/rate tell a rating of no trip.
RateDirectly(s, v) ==
    /\ told' = [told EXCEPT ![s] = v]
    /\ disturbed' = TRUE
    /\ UNCHANGED <<completed, rating, commented, work, locked>>

\* The trip's payment settles; a late failure event reopens the trip.
TripChanges ==
    /\ completed' = ~completed
    /\ UNCHANGED <<rating, commented, told, work, locked, disturbed>>

\* The next call throws; what it asked for may have been done all the same.
\* An error of the users service is swallowed.
Fail(q) ==
    /\ work[q] # Idle
    /\ disturbed' = TRUE
    /\ Ends(q)
    /\ \/ UNCHANGED <<rating, commented, told>>
       \/ /\ work[q].at = "tell"
          /\ told' = [told EXCEPT ![work[q].side] = work[q].value]
          /\ UNCHANGED <<rating, commented>>
       \/ /\ work[q].at = "write" /\ work[q].what = "rating"
          /\ rating' = [rating EXCEPT ![work[q].side] = work[q].value]
          /\ UNCHANGED <<told, commented>>
       \/ /\ work[q].at = "write" /\ work[q].what = "comment"
          /\ commented' = commented \cup {work[q].side}
          /\ UNCHANGED <<told, rating>>
    /\ UNCHANGED completed

\* The lock's 30 seconds are over before its holder is done.
LockExpires ==
    /\ locked /\ locked' = FALSE
    /\ disturbed' = (disturbed \/ \E q \in Requests : work[q] # Idle)
    /\ UNCHANGED <<completed, rating, commented, told, work>>

Next ==
    \/ \E q \in Requests :
          \/ \E v \in Values :
                RateTrip(q, v) \/ RateDriverTrip(q, v)
                \/ AddCustomerComment(q, v) \/ AddDriverComment(q, v)
          \/ FindTrip(q) \/ WriteComment(q) \/ WriteRating(q) \/ Tell(q) \/ Fail(q)
    \/ \E s \in Sides, v \in Values : RateDirectly(s, v)
    \/ TripChanges \/ LockExpires

Spec == Init /\ [][Next]_vars

---------------------------------------------------------------------------
\* When no rating is on its way, the rating the users service has last heard
\* from a side is the one the trip shows, unless a call failed, a lock ran out
\* or somebody told a rating past the trip: two ratings of one side are not
\* told in another order than they are written.
ToldIsRated ==
    ~disturbed /\ (\A q \in Requests : work[q] = Idle) => told = rating
=============================================================================
