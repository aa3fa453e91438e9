------------------------------ MODULE Earnings ------------------------------
(***************************************************************************)
(* The weekly earnings records of one driver: DriverEarningsService, with  *)
(* the rides that are added to them and the Monday job that closes them.   *)
(* A step is one call of the repository.                                   *)
(***************************************************************************)
EXTENDS FiniteSets, Naturals, Sequences

CONSTANTS
    Additions,  \* calls that add a ride. Its payment event comes again after a failure
                \* or a crash and a trip may have two intents; nothing asks whether
                \* a ride has been added, so several of the calls may add the same one
    MaxMondays  \* bound on the runs of the Monday job

VARIABLES
    weeks,      \* the records, oldest first
    adding,     \* adding[a]: the record found for addition a; 0 when there is none
    done,       \* additions that have returned
    brokenOff,  \* additions that a failure ended before
    job,        \* the Monday job: "idle" or "closed"
    mondays,
    raced       \* history: has a record been looked for in vain, since the records were
                \* closed, while another was about to be created?

vars == <<weeks, adding, done, brokenOff, job, mondays, raced>>

\* trips: the additions in the record. History: what it had when it was closed,
\* which is what is paid out, and the additions that had found it by then.
Week == [status : {"ACTIVE", "COMPLETED"}, trips : SUBSET Additions,
         closedWith : SUBSET Additions, expected : SUBSET Additions]

TypeOK ==
    /\ weeks \in Seq(Week)
    /\ DOMAIN adding \subseteq Additions
    /\ \A a \in DOMAIN adding : adding[a] \in 0 .. Len(weeks)
    /\ done \subseteq Additions /\ brokenOff \subseteq Additions
    /\ job \in {"idle", "closed"}
    /\ mondays \in 0 .. MaxMondays
    /\ raced \in BOOLEAN

Init ==
    /\ weeks = <<>> /\ adding = [a \in {} |-> 0] /\ done = {} /\ brokenOff = {}
    /\ job = "idle" /\ mondays = 0 /\ raced = FALSE

Actives == {i \in DOMAIN weeks : weeks[i].status = "ACTIVE"}
NewWeek == [status |-> "ACTIVE", trips |-> {}, closedWith |-> {}, expected |-> {}]
With(f, a, i) == [b \in DOMAIN f \cup {a} |-> IF b = a THEN i ELSE f[b]]
Without(f, a) == [b \in DOMAIN f \ {a} |-> f[b]]
Finders(i) == {a \in DOMAIN adding : adding[a] = i}
Creating == \E a \in DOMAIN adding : adding[a] = 0

\* addTripToWeeklyEarnings: findOne returns any of the active records.
FindWeek(a) ==
    /\ a \notin DOMAIN adding \cup done \cup brokenOff
    /\ \/ \E i \in Actives : adding' = With(adding, a, i) /\ UNCHANGED raced
       \/ /\ Actives = {}
          /\ adding' = With(adding, a, 0)
          /\ raced' = (raced \/ Creating \/ job = "closed")
    /\ UNCHANGED <<weeks, done, brokenOff, job, mondays>>

\* createNewWeekRecord; nothing makes the active record unique.
CreateWeek(a) ==
    /\ a \in DOMAIN adding /\ adding[a] = 0
    /\ weeks' = Append(weeks, NewWeek)
    /\ adding' = With(adding, a, Len(weeks) + 1)
    /\ UNCHANGED <<done, brokenOff, job, mondays, raced>>

\* Mutant: the ride goes into the first record there is.
AddToFirstWeek(a) ==
    /\ a \in DOMAIN adding /\ adding[a] # 0
    /\ weeks' = [weeks EXCEPT ![1].trips = @ \cup {a}]
    /\ adding' = Without(adding, a)
    /\ done' = done \cup {a}
    /\ UNCHANGED <<brokenOff, job, mondays, raced>>

\* addTripToWeeklyRecord, by id: the record may be closed by now.
AddToWeek(a) ==
    /\ a \in DOMAIN adding /\ adding[a] # 0
    /\ weeks' = [weeks EXCEPT ![adding[a]].trips = @ \cup {a}]
    /\ adding' = Without(adding, a)
    /\ done' = done \cup {a}
    /\ UNCHANGED <<brokenOff, job, mondays, raced>>

\* Mongo fails or the server dies, and the call ends where it is. When Stripe then
\* delivers the event again, that is another addition.
FailAdding(a) ==
    /\ a \in DOMAIN adding
    /\ adding' = Without(adding, a)
    /\ brokenOff' = brokenOff \cup {a}
    /\ UNCHANGED <<weeks, done, job, mondays, raced>>

Closed(i) == [status |-> "COMPLETED", trips |-> weeks[i].trips,
              closedWith |-> weeks[i].trips, expected |-> Finders(i)]

\* handleWeeklyTransition: updateManyActiveToCompleted
CloseWeeks ==
    /\ job = "idle" /\ mondays < MaxMondays
    /\ weeks' = [i \in DOMAIN weeks |-> IF i \in Actives THEN Closed(i) ELSE weeks[i]]
    /\ job' = "closed" /\ mondays' = mondays + 1
    /\ raced' = Creating
    /\ UNCHANGED <<adding, done, brokenOff>>

\* A new record for every driver who has one, or an error that is logged.
OpenWeek ==
    /\ job = "closed" /\ job' = "idle"
    /\ weeks' \in {weeks} \cup
                  (IF weeks = <<>> THEN {} ELSE {Append(weeks, NewWeek)})
    /\ UNCHANGED <<adding, done, brokenOff, mondays, raced>>

Next ==
    \/ \E a \in Additions : FindWeek(a) \/ CreateWeek(a) \/ AddToWeek(a) \/ FailAdding(a)
    \/ CloseWeeks \/ OpenWeek

Spec == Init /\ [][Next]_vars

---------------------------------------------------------------------------
\* However additions, their failures and the Monday job meet, an addition that
\* has returned is in one record, and no other is in any. A closed week has what
\* it was closed with, and besides only additions that found it before. Two
\* records are active only if two were created at once, until the next Monday.
WeeksAreSound ==
    /\ \A i, j \in DOMAIN weeks : i # j => weeks[i].trips \cap weeks[j].trips = {}
    /\ done = UNION {weeks[i].trips : i \in DOMAIN weeks}
    /\ \A i \in DOMAIN weeks \ Actives :
          weeks[i].trips \ weeks[i].closedWith \subseteq weeks[i].expected
    /\ raced \/ Cardinality(Actives) <= 1
=============================================================================
