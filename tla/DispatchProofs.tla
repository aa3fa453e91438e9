--------------------------- MODULE DispatchProofs ---------------------------
(***************************************************************************)
(* Dispatch: types, and what holds of every search that began without a    *)
(* trace of an earlier search of its trip, whatever other trips are        *)
(* searched for, keys expire and servers crash: no called driver is        *)
(* forgotten, a search fails only when all have rejected, and what a       *)
(* driver sees can be accepted.                                            *)
(***************************************************************************)
EXTENDS Dispatch, FiniteSetTheorems, WellFoundedInduction, TLAPS

(* The oldest trip of a queue is in the queue.                             *)
LEMMA FirstIsQueued ==
    ASSUME NEW q \in SUBSET Trips, q # {}
    PROVE  First(q) \in q
<1>1. q \subseteq Nat
  BY DispatchAssumption
<1>2. PICK t \in q : \A u \in q : ~ (<<u, t>> \in OpToRel(<, Nat))
  BY <1>1, WFMin, NatLessThanWellFounded
<1>3. \A u \in q : ~ (u < t)
  BY <1>1, <1>2, Zenon DEF OpToRel
<1>4. \A u \in q : t <= u
  BY <1>1, <1>3
<1> QED
  BY <1>4 DEF First

(* What the operators on bags of pairs leave in them.                      *)
LEMMA BagFacts ==
    ASSUME NEW b \in [Pairs -> Nat]
    PROVE  /\ In(b) \in SUBSET Pairs
           /\ \A S : Plus(b, S) \in [Pairs -> Nat]
           /\ \A S \in SUBSET Pairs : In(Plus(b, S)) = In(b) \cup S
           /\ \A S : Purged(b, S) \in [Pairs -> Nat] /\ In(Purged(b, S)) = In(b) \ S
           /\ \A p \in In(b) : /\ Less(b, p) \in [Pairs -> Nat]
                               /\ In(Less(b, p)) \subseteq In(b)
                               /\ In(b) \ {p} \subseteq In(Less(b, p))
<1>1. \A S : Plus(b, S) \in [Pairs -> Nat] /\ Purged(b, S) \in [Pairs -> Nat]
  BY DEF Plus, Purged
<1>2. \A S \in SUBSET Pairs : In(Plus(b, S)) = In(b) \cup S
  BY DEF Plus, In
<1>3. \A S : In(Purged(b, S)) = In(b) \ S
  BY DEF Purged, In
<1>4. ASSUME NEW p \in In(b)
      PROVE  /\ Less(b, p) \in [Pairs -> Nat]
             /\ In(Less(b, p)) \subseteq In(b)
             /\ In(b) \ {p} \subseteq In(Less(b, p))
  <2>1. p \in Pairs /\ b[p] > 0 /\ b[p] - 1 \in Nat
    BY DEF In
  <2> QED
    BY <2>1 DEF Less, In
<1> QED
  BY <1>1, <1>2, <1>3, <1>4 DEF In

(* processNextDriverRequest, for drivers ds: the trips it begins to ask    *)
(* for come from their queues, and each gets a job and a timeout job.  The *)
(* queues, processing keys, jobs and timeout jobs after it are named, for  *)
(* a lemma to speak of them.                                               *)
Serves(ds, q, p, js, ts, q2, p2, js2, ts2) ==
    \E asked \in SUBSET Pairs :
       /\ \A t \in Trips, d \in Drivers :
             <<t, d>> \in asked => d \in ds /\ t \in q[d] /\ p[d] = NoTrip
       /\ q2 \in [Drivers -> SUBSET Trips]
       /\ \A t \in Trips, d \in Drivers :
             t \in q2[d] <=> t \in q[d] /\ <<t, d>> \notin asked
       /\ p2 \in [Drivers -> Trips \cup {NoTrip}]
       /\ \A t \in Trips, d \in Drivers :
             p2[d] = t => <<t, d>> \in asked \/ p[d] = t
       /\ js2 \in [Pairs -> Nat] /\ In(js2) = In(js) \cup asked
       /\ ts2 \in [Pairs -> Nat] /\ In(ts2) = In(ts) \cup asked

(* processNextDriverRequest is such a step.                                *)
LEMMA ServingAsks ==
    ASSUME NEW ds \in SUBSET Drivers,
           NEW q \in [Drivers -> SUBSET Trips],
           NEW p \in [Drivers -> Trips \cup {NoTrip}],
           NEW js \in [Pairs -> Nat], NEW ts \in [Pairs -> Nat],
           ProcessNext(ds, q, p, js, ts)
    PROVE  Serves(ds, q, p, js, ts, queue', processing', jobs', timers')
<1> DEFINE free == Free(ds, q, p)
           asked == {<<First(q[d]), d>> : d \in free}
<1>1. free \subseteq Drivers /\ \A d \in free : d \in ds /\ p[d] = NoTrip /\ q[d] # {}
  BY DEF Free
<1>2. \A d \in free : First(q[d]) \in q[d] /\ First(q[d]) \in Trips
  BY <1>1, FirstIsQueued
<1>3. /\ queue' = [d \in Drivers |-> IF d \in free THEN q[d] \ {First(q[d])} ELSE q[d]]
      /\ processing' = [d \in Drivers |-> IF d \in free THEN First(q[d]) ELSE p[d]]
      /\ jobs' = Plus(js, asked)
      /\ timers' = Plus(ts, asked)
  BY DEF ProcessNext
<1> HIDE DEF free
<1>4. asked \in SUBSET Pairs
  BY <1>1, <1>2 DEF Pairs
<1>5. ASSUME NEW t \in Trips, NEW d \in Drivers
      PROVE  <<t, d>> \in asked <=> d \in free /\ t = First(q[d])
  OBVIOUS
<1> HIDE DEF asked
<1>6. ASSUME NEW t \in Trips, NEW d \in Drivers, <<t, d>> \in asked
      PROVE  d \in ds /\ t \in q[d] /\ p[d] = NoTrip
  BY <1>1, <1>2, <1>5, <1>6
<1>7. ASSUME NEW t \in Trips, NEW d \in Drivers
      PROVE  t \in queue'[d] <=> t \in q[d] /\ <<t, d>> \notin asked
  BY <1>3, <1>5
<1>8. queue' \in [Drivers -> SUBSET Trips]
  BY <1>3
<1>9. processing' \in [Drivers -> Trips \cup {NoTrip}]
  BY <1>2, <1>3
<1>10. ASSUME NEW t \in Trips, NEW d \in Drivers, processing'[d] = t
       PROVE  <<t, d>> \in asked \/ p[d] = t
  BY <1>3, <1>5, <1>10
<1>11. /\ jobs' \in [Pairs -> Nat] /\ In(jobs') = In(js) \cup asked
       /\ timers' \in [Pairs -> Nat] /\ In(timers') = In(ts) \cup asked
  BY <1>3, <1>4, BagFacts
<1> QED
  BY <1>4, <1>6, <1>7, <1>8, <1>9, <1>10, <1>11 DEF Serves

-----------------------------------------------------------------------------
(* The inductive invariant.                                                *)

(* Of trip t, whose status is s and whose lists are c and r: the queues q, *)
(* processing keys p, request jobs js, timeout jobs ts and screens sh fit. *)
(* A queue names a trip only before its driver is asked, and only for a    *)
(* driver who is wanted; so does a processing key.  As long as the trip    *)
(* waits, timeout jobs are of called drivers, a request job is of a driver *)
(* with a timeout job, or of one who has answered, and every wanted driver *)
(* is queued for or has a timeout job.                                     *)
Tracked(t, s, c, r, q, p, js, ts, sh) ==
    \A d \in Drivers :
        /\ t \in q[d] => <<t, d>> \notin js /\ <<t, d>> \notin ts /\ <<t, d>> \notin sh
        /\ s = "WAITING_FOR_DRIVER" =>
             /\ t \in q[d] => d \in c /\ d \notin r
             /\ p[d] = t => d \in c /\ d \notin r
             /\ <<t, d>> \in ts => d \in c
             /\ <<t, d>> \in js => <<t, d>> \in ts \/ d \in r
             /\ d \in c /\ d \notin r => t \in q[d] \/ <<t, d>> \in ts

(* Only called drivers reject, and a search without a driver is one that   *)
(* all have rejected.                                                      *)
Justified(t) ==
    /\ rejected[t] \subseteq called[t]
    /\ status[t] = "DRIVER_NOT_FOUND" => called[t] \subseteq rejected[t]

(* An acceptance still to be handled is of an approved trip.               *)
Approved(t) == \A d \in Drivers : <<t, d>> \in approvals => status[t] = "APPROVED"

(* ScreenIsCurrent, of one trip.                                           *)
Current(t) ==
    \A d \in Drivers : <<t, d>> \in shown => Waiting(t) /\ d \in called[t] \ rejected[t]

(* What a search that began without traces obeys, but for its tracks.      *)
Fits(t) == Justified(t) /\ Current(t)

TripInv(t) ==
    /\ Approved(t)
    /\ t \notin stale =>
         /\ Fits(t)
         /\ Tracked(t, status[t], called[t], rejected[t], queue, processing, In(jobs), In(timers), shown)

(* The types of what processNextDriverRequest leaves alone.                *)
RestOK ==
    /\ status \in [Trips -> DispatchStatuses]
    /\ called \in [Trips -> SUBSET Drivers]
    /\ rejected \in [Trips -> SUBSET Drivers]
    /\ searches \in 0 .. MaxSearches /\ stale \in SUBSET Trips
    /\ avail \in [Drivers -> {"AVAILABLE", "BUSY", "ON_TRIP"}]
    /\ kicks \in [Pairs -> Nat] /\ approvals \in SUBSET Pairs /\ shown \in SUBSET Pairs

Inv == TypeOK /\ \A t \in Trips : TripInv(t)

(* The queues without a trip, and the processing keys without some.        *)
LEMMA MovingOn ==
    ASSUME TypeOK, NEW t \in Trips, NEW ds \in SUBSET Drivers
    PROVE  /\ Without(queue, t, ds) \in [Drivers -> SUBSET Trips]
           /\ \A d \in Drivers, u \in Trips :
                u \in Without(queue, t, ds)[d] <=> u \in queue[d] /\ ~ (u = t /\ d \in ds)
           /\ Cleared(ds) \in [Drivers -> Trips \cup {NoTrip}]
           /\ \A d \in Drivers, u \in Trips :
                Cleared(ds)[d] = u <=> processing[d] = u /\ d \notin ds
<1>1. \A u \in Trips : u # NoTrip
  BY DispatchAssumption
<1> QED
  BY <1>1 DEF TypeOK, Without, Cleared

(* An action that ends by serving drivers keeps the invariant when what it *)
(* starts the serving from fits.                                           *)
LEMMA ServingRestores ==
    ASSUME NEW ds, NEW q, NEW p, NEW js, NEW ts,
           Serves(ds, q, p, js, ts, queue', processing', jobs', timers'),
           RestOK',
           \A u \in Trips : Approved(u)',
           \A u \in Trips \ stale' :
              /\ Fits(u)'
              /\ Tracked(u, status'[u], called'[u], rejected'[u], q, p, In(js), In(ts), shown')
    PROVE  Inv'
<1>1. PICK asked \in SUBSET Pairs :
         /\ \A t \in Trips, d \in Drivers :
               <<t, d>> \in asked => d \in ds /\ t \in q[d] /\ p[d] = NoTrip
         /\ queue' \in [Drivers -> SUBSET Trips]
         /\ \A t \in Trips, d \in Drivers :
               t \in queue'[d] <=> t \in q[d] /\ <<t, d>> \notin asked
         /\ processing' \in [Drivers -> Trips \cup {NoTrip}]
         /\ \A t \in Trips, d \in Drivers :
               processing'[d] = t => <<t, d>> \in asked \/ p[d] = t
         /\ jobs' \in [Pairs -> Nat] /\ In(jobs') = In(js) \cup asked
         /\ timers' \in [Pairs -> Nat] /\ In(timers') = In(ts) \cup asked
  BY DEF Serves
<1>2. TypeOK'
  BY <1>1 DEF RestOK, TypeOK
<1>3. ASSUME NEW u \in Trips, NEW s, NEW c, NEW r, NEW sh,
             Tracked(u, s, c, r, q, p, In(js), In(ts), sh)
      PROVE  Tracked(u, s, c, r, queue', processing', In(jobs'), In(timers'), sh)
  BY <1>1, <1>3 DEF Tracked
<1>4. In(jobs)' = In(jobs') /\ In(timers)' = In(timers')
  BY DEF In
<1>5. ASSUME NEW u \in Trips PROVE TripInv(u)'
  BY <1>3, <1>4 DEF TripInv
<1> QED
  BY <1>2, <1>5 DEF Inv

(* The invariant, taken apart.                                             *)
LEMMA InvParts ==
    ASSUME Inv
    PROVE  /\ RestOK
           /\ queue \in [Drivers -> SUBSET Trips]
           /\ processing \in [Drivers -> Trips \cup {NoTrip}]
           /\ jobs \in [Pairs -> Nat] /\ timers \in [Pairs -> Nat]
           /\ \A u \in Trips : Approved(u)
           /\ \A u \in Trips \ stale :
                /\ Fits(u)
                /\ Tracked(u, status[u], called[u], rejected[u],
                           queue, processing, In(jobs), In(timers), shown)
BY DEF Inv, TypeOK, RestOK, TripInv

-----------------------------------------------------------------------------
(* Every action keeps the invariant.                                       *)

(* A setTimeout callback of the request.                                   *)
LEMMA KickKeepsInv ==
    ASSUME Inv, NEW t \in Trips, NEW d \in Drivers, Kick(t, d)
    PROVE  Inv'
<1>1. Serves({d}, queue, processing, jobs, timers, queue', processing', jobs', timers')
  BY InvParts, ServingAsks DEF Kick
<1>2. UNCHANGED <<status, called, rejected, searches, stale, avail, approvals, shown>>
  BY DEF Kick, tripVars
<1>3. kicks' \in [Pairs -> Nat]
  BY InvParts, BagFacts DEF Kick, RestOK
<1>4. RestOK'
  BY <1>2, <1>3, InvParts DEF RestOK
<1>5. \A u \in Trips : Approved(u)'
  BY <1>2, InvParts DEF Approved
<1>6. ASSUME NEW u \in Trips \ stale'
      PROVE  /\ Fits(u)'
             /\ Tracked(u, status'[u], called'[u], rejected'[u],
                        queue, processing, In(jobs), In(timers), shown')
  BY <1>2, InvParts DEF Fits, Justified, Current, Waiting
<1> QED
  BY <1>1, <1>4, <1>5, <1>6, ServingRestores

(* requestDriver: a search that finds its trip untraced fits.              *)
LEMMA RequestDriverKeepsInv ==
    ASSUME Inv, NEW t \in Trips, NEW ds \in SUBSET Drivers, RequestDriver(t, ds)
    PROVE  Inv'
<1>1. TypeOK'
  <2>1. searches' \in 0 .. MaxSearches
    BY DispatchAssumption DEF Inv, TypeOK, RequestDriver
  <2>2. queue' \in [Drivers -> SUBSET Trips] /\ kicks' \in [Pairs -> Nat]
    BY BagFacts DEF Inv, TypeOK, RequestDriver
  <2>3. /\ status' \in [Trips -> DispatchStatuses]
        /\ called' \in [Trips -> SUBSET Drivers]
        /\ rejected' \in [Trips -> SUBSET Drivers]
        /\ stale' \in SUBSET Trips
    BY DEF Inv, TypeOK, RequestDriver, DispatchStatuses
  <2>4. UNCHANGED <<avail, processing, jobs, timers, approvals, shown>>
    BY DEF RequestDriver
  <2>5. TypeOK
    BY DEF Inv
  <2> QED
    BY <2>1, <2>2, <2>3, <2>4, <2>5 DEF TypeOK
<1>2. In(jobs)' = In(jobs) /\ In(timers)' = In(timers)
  BY DEF RequestDriver, In
<1>3. ASSUME NEW u \in Trips, u # t PROVE TripInv(u)'
  <2>1. TripInv(u)
    BY DEF Inv
  <2>2. /\ status'[u] = status[u] /\ called'[u] = called[u] /\ rejected'[u] = rejected[u]
        /\ u \in stale' <=> u \in stale
        /\ \A d \in Drivers : u \in queue'[d] <=> u \in queue[d]
        /\ UNCHANGED <<processing, approvals, shown>>
    BY <1>3 DEF Inv, TypeOK, RequestDriver
  <2>3. Approved(u)'
    BY <2>1, <2>2 DEF TripInv, Approved
  <2>4. u \notin stale' => Fits(u)'
    BY <2>1, <2>2 DEF TripInv, Fits, Justified, Current, Waiting
  <2>5. u \notin stale' =>
          Tracked(u, status'[u], called'[u], rejected'[u],
                  queue', processing', In(jobs)', In(timers)', shown')
    BY <1>2, <2>1, <2>2 DEF TripInv, Tracked
  <2> QED
    BY <2>3, <2>4, <2>5 DEF TripInv
<1>4. TripInv(t)'
  <2>1. /\ status'[t] = "WAITING_FOR_DRIVER" /\ called'[t] = ds /\ rejected'[t] = {}
        /\ t \notin stale' => Untraced(t)
        /\ \A d \in Drivers : t \in queue'[d] <=> t \in queue[d] \/ d \in ds
        /\ UNCHANGED <<processing, approvals, shown>>
    BY DEF Inv, TypeOK, RequestDriver
  <2>2. Approved(t)'
    BY <2>1, InvParts DEF Approved, RequestDriver, Requestable
  <2>3. SUFFICES ASSUME Untraced(t)
                 PROVE  /\ Fits(t)'
                        /\ Tracked(t, status'[t], called'[t], rejected'[t],
                                   queue', processing', In(jobs)', In(timers)', shown')
    BY <2>1, <2>2 DEF TripInv
  <2>4. Fits(t)'
    BY <2>1, <2>3 DEF Fits, Justified, Current, Waiting, Untraced
  <2>5. Tracked(t, status'[t], called'[t], rejected'[t],
                queue', processing', In(jobs)', In(timers)', shown')
    BY <1>2, <2>1, <2>3 DEF Tracked, Untraced
  <2> QED
    BY <2>4, <2>5
<1> QED
  BY <1>1, <1>3, <1>4 DEF Inv

(* A request job that asks: the driver it names is being asked for t, and  *)
(* so is wanted and in no queue for it.                                    *)
LEMMA RunJobKeepsInv ==
    ASSUME Inv, NEW t \in Trips, NEW d \in Drivers, RunJob(t, d)
    PROVE  Inv'
<1> DEFINE js == Less(jobs, <<t, d>>)
<1>1. js \in [Pairs -> Nat] /\ In(js) \subseteq In(jobs) /\ <<t, d>> \in In(jobs)
  BY InvParts, BagFacts DEF RunJob
<1>2. CASE Waiting(t) /\ avail[d] = "AVAILABLE"
  <2>1. /\ UNCHANGED <<status, called, rejected, searches, stale, avail, kicks, approvals>>
        /\ UNCHANGED <<queue, processing, timers>>
        /\ jobs' = js
        /\ shown' = IF processing[d] = t THEN shown \cup {<<t, d>>} ELSE shown
    BY <1>2 DEF RunJob, tripVars
  <2> HIDE DEF js
  <2>2. TypeOK'
    BY <1>1, <2>1 DEF Inv, TypeOK, Pairs
  <2>3. In(jobs)' \subseteq In(jobs) /\ In(timers)' = In(timers)
    BY <1>1, <2>1 DEF In
  <2>4. ASSUME NEW u \in Trips PROVE TripInv(u)'
    <3>1. Approved(u)'
      BY <2>1, InvParts DEF Approved
    <3>2. u \notin stale => Fits(u)'
      BY <1>1, <1>2, <2>1, InvParts DEF Fits, Justified, Current, Tracked, Waiting
    <3>3. u \notin stale =>
            Tracked(u, status'[u], called'[u], rejected'[u],
                    queue', processing', In(jobs)', In(timers)', shown')
      BY <1>1, <2>1, <2>3, InvParts DEF Tracked
    <3> QED
      BY <2>1, <3>1, <3>2, <3>3 DEF TripInv
  <2> QED
    BY <2>2, <2>4 DEF Inv
<1>3. CASE ~ (Waiting(t) /\ avail[d] = "AVAILABLE")
  <2> DEFINE q == Without(queue, t, {d})
             p == Cleared({d})
  <2>1. /\ q \in [Drivers -> SUBSET Trips] /\ p \in [Drivers -> Trips \cup {NoTrip}]
        /\ \A e \in Drivers, u \in Trips : u \in q[e] <=> u \in queue[e] /\ ~ (u = t /\ e = d)
        /\ \A e \in Drivers, u \in Trips : p[e] = u <=> processing[e] = u /\ e # d
    BY MovingOn DEF Inv
  <2>2. Serves({d}, q, p, js, timers, queue', processing', jobs', timers')
    BY <1>1, <1>3, <2>1, InvParts, ServingAsks DEF RunJob, MoveOn
  <2>3. UNCHANGED <<status, called, rejected, searches, stale, avail, kicks, approvals, shown>>
    BY <1>3 DEF RunJob, tripVars
  <2> HIDE DEF q, p, js
  <2>4. RestOK'
    BY <2>3, InvParts DEF RestOK
  <2>5. \A u \in Trips : Approved(u)'
    BY <2>3, InvParts DEF Approved
  <2>6. ASSUME NEW u \in Trips \ stale'
        PROVE  /\ Fits(u)'
               /\ Tracked(u, status'[u], called'[u], rejected'[u], q, p, In(js), In(timers), shown')
    <3>1. Fits(u)'
      BY <2>3, InvParts DEF Fits, Justified, Current, Waiting
    <3>2. Tracked(u, status'[u], called'[u], rejected'[u], q, p, In(js), In(timers), shown')
      BY <1>1, <2>1, <2>3, InvParts DEF Tracked
    <3> QED
      BY <3>1, <3>2
  <2> QED
    BY <2>2, <2>4, <2>5, <2>6, ServingRestores
<1> QED
  BY <1>2, <1>3

(* declineTrip: the driver is one who is wanted, as the screen is current. *)
LEMMA DeclineTripKeepsInv ==
    ASSUME Inv, NEW t \in Trips, NEW d \in Drivers, DeclineTrip(t, d)
    PROVE  Inv'
<1> DEFINE q == Without(queue, t, {d})
           p == Cleared({d})
<1>1. /\ q \in [Drivers -> SUBSET Trips] /\ p \in [Drivers -> Trips \cup {NoTrip}]
      /\ \A e \in Drivers, u \in Trips : u \in q[e] <=> u \in queue[e] /\ ~ (u = t /\ e = d)
      /\ \A e \in Drivers, u \in Trips : p[e] = u <=> processing[e] = u /\ e # d
  BY MovingOn DEF Inv
<1>2. Serves({d}, q, p, jobs, timers, queue', processing', jobs', timers')
  BY <1>1, InvParts, ServingAsks DEF DeclineTrip, MoveOn
<1>3. /\ UNCHANGED <<called, searches, stale, avail, kicks, approvals>>
      /\ <<t, d>> \in shown /\ Waiting(t)
      /\ shown' = shown \ {<<t, d>>}
      /\ rejected' = [rejected EXCEPT ![t] = rejected[t] \cup {d}]
      /\ status' = [status EXCEPT ![t] = StatusAfterDecline(t, rejected[t] \cup {d})]
  BY DEF DeclineTrip, RejectedBy
<1> HIDE DEF q, p
<1>4. RestOK'
  BY <1>3, InvParts DEF RestOK, StatusAfterDecline, DispatchStatuses
<1>5. /\ rejected'[t] = rejected[t] \cup {d}
      /\ \/ called[t] \subseteq rejected'[t] /\ status'[t] = "DRIVER_NOT_FOUND"
         \/ status'[t] = "WAITING_FOR_DRIVER"
      /\ \A u \in Trips : u # t => rejected'[u] = rejected[u] /\ status'[u] = status[u]
  BY <1>3, InvParts DEF RestOK, StatusAfterDecline, Waiting
<1>6. \A u \in Trips : Approved(u)'
  BY <1>3, <1>5, InvParts DEF Approved, Waiting
<1>7. ASSUME NEW u \in Trips \ stale'
      PROVE  /\ Fits(u)'
             /\ Tracked(u, status'[u], called'[u], rejected'[u], q, p, In(jobs), In(timers), shown')
  <2>1. Justified(u)'
    BY <1>3, <1>5, InvParts DEF Fits, Justified, Current
  <2>2. Current(u)'
    BY <1>3, <1>5, InvParts DEF Fits, Current, Waiting
  <2>3. Tracked(u, status'[u], called'[u], rejected'[u], q, p, In(jobs), In(timers), shown')
    BY <1>1, <1>3, <1>5, InvParts DEF Tracked, Waiting
  <2> QED
    BY <2>1, <2>2, <2>3 DEF Fits
<1> QED
  BY <1>2, <1>4, <1>6, <1>7, ServingRestores

(* A timeout job that finds its trip waiting: its driver was called, so    *)
(* that as many rejections as calls are the rejections of all.             *)
LEMMA DriverTimesOutKeepsInv ==
    ASSUME Inv, NEW t \in Trips, NEW d \in Drivers, DriverTimesOut(t, d)
    PROVE  Inv'
<1> DEFINE ts == Less(timers, <<t, d>>)
<1>1. /\ ts \in [Pairs -> Nat] /\ <<t, d>> \in In(timers)
      /\ In(ts) \subseteq In(timers) /\ In(timers) \ {<<t, d>>} \subseteq In(ts)
  BY InvParts, BagFacts DEF DriverTimesOut
<1>2. CASE Waiting(t) /\ d \notin rejected[t]
  <2> DEFINE q == Without(queue, t, {d})
             p == Cleared({d})
             r == rejected[t] \cup {d}
  <2>1. /\ q \in [Drivers -> SUBSET Trips] /\ p \in [Drivers -> Trips \cup {NoTrip}]
        /\ \A e \in Drivers, u \in Trips : u \in q[e] <=> u \in queue[e] /\ ~ (u = t /\ e = d)
        /\ \A e \in Drivers, u \in Trips : p[e] = u <=> processing[e] = u /\ e # d
    BY MovingOn DEF Inv
  <2>2. Serves({d}, q, p, jobs, ts, queue', processing', jobs', timers')
    BY <1>1, <1>2, <2>1, InvParts, ServingAsks DEF DriverTimesOut, MoveOn
  <2>3. /\ UNCHANGED <<called, searches, stale, avail, kicks, approvals>>
        /\ shown' = shown \ {<<t, d>>}
        /\ rejected' = [rejected EXCEPT ![t] = r]
        /\ status' = [status EXCEPT ![t] = StatusAfterTimeout(t, r)]
    BY <1>2 DEF DriverTimesOut, RejectedBy
  <2> HIDE DEF q, p, ts
  <2>4. RestOK'
    BY <2>3, InvParts DEF RestOK, StatusAfterTimeout, DispatchStatuses
  <2>5. t \notin stale /\ Cardinality(r) = Cardinality(called[t]) => called[t] \subseteq r
    <3>1. SUFFICES ASSUME t \notin stale, Cardinality(r) = Cardinality(called[t])
                   PROVE  called[t] \subseteq r
      OBVIOUS
    <3>2. r \subseteq called[t] /\ called[t] \subseteq Drivers
      BY <1>1, <1>2, <3>1, InvParts DEF RestOK, Fits, Justified, Tracked, Waiting
    <3>3. IsFiniteSet(called[t])
      BY <3>2, DispatchAssumption, FS_Subset
    <3> QED
      BY <3>1, <3>2, <3>3, FS_Subset
  <2>6. /\ rejected'[t] = r
        /\ t \notin stale =>
             \/ called[t] \subseteq r /\ status'[t] = "DRIVER_NOT_FOUND"
             \/ status'[t] = "WAITING_FOR_DRIVER"
        /\ \A u \in Trips : u # t => rejected'[u] = rejected[u] /\ status'[u] = status[u]
    BY <1>2, <2>3, <2>5, InvParts DEF RestOK, StatusAfterTimeout, Waiting
  <2>7. \A u \in Trips : Approved(u)'
    BY <1>2, <2>3, <2>6, InvParts DEF Approved, Waiting
  <2>8. ASSUME NEW u \in Trips \ stale'
        PROVE  /\ Fits(u)'
               /\ Tracked(u, status'[u], called'[u], rejected'[u], q, p, In(jobs), In(ts), shown')
    <3>1. Justified(u)'
      BY <1>1, <1>2, <2>3, <2>6, InvParts DEF Fits, Justified, Tracked, Waiting
    <3>2. Current(u)'
      BY <1>2, <2>3, <2>6, InvParts DEF Fits, Current, Waiting
    <3>3. Tracked(u, status'[u], called'[u], rejected'[u], q, p, In(jobs), In(ts), shown')
      BY <1>1, <1>2, <2>1, <2>3, <2>6, InvParts DEF Tracked, Waiting
    <3> QED
      BY <3>1, <3>2, <3>3 DEF Fits
  <2> QED
    BY <2>2, <2>4, <2>7, <2>8, ServingRestores
<1>3. CASE ~ (Waiting(t) /\ d \notin rejected[t])
  <2>1. /\ UNCHANGED <<status, called, rejected, searches, stale, avail, kicks, approvals, shown>>
        /\ UNCHANGED <<queue, processing, jobs>>
        /\ timers' = ts
    BY <1>3 DEF DriverTimesOut
  <2> HIDE DEF ts
  <2>2. TypeOK'
    BY <1>1, <2>1 DEF Inv, TypeOK
  <2>3. In(jobs)' = In(jobs) /\ In(timers)' = In(ts)
    BY <2>1 DEF In
  <2>4. ASSUME NEW u \in Trips PROVE TripInv(u)'
    <3>1. Approved(u)'
      BY <2>1, InvParts DEF Approved
    <3>2. u \notin stale => Fits(u)'
      BY <2>1, InvParts DEF Fits, Justified, Current, Waiting
    <3>3. u \notin stale =>
            Tracked(u, status'[u], called'[u], rejected'[u],
                    queue', processing', In(jobs)', In(timers)', shown')
      BY <1>1, <1>3, <2>1, <2>3, InvParts DEF Tracked, Waiting
    <3> QED
      BY <2>1, <3>1, <3>2, <3>3 DEF TripInv
  <2> QED
    BY <2>2, <2>4 DEF Inv
<1> QED
  BY <1>2, <1>3

(* cancelTripRequest: nothing of the trip is left but, perhaps, its id in  *)
(* the queues; other trips lose only processing keys.                      *)
LEMMA CancelKeepsInv ==
    ASSUME Inv, NEW t \in Trips, NEW byKey \in BOOLEAN, CancelTripRequest(t, byKey)
    PROVE  Inv'
<1> DEFINE q == IF byKey THEN Without(queue, t, called[t]) ELSE queue
           p == Cleared(called[t])
           js == Purged(jobs, OfTrip(t))
           ts == Purged(timers, OfTrip(t))
<1>1. called[t] \in SUBSET Drivers
  BY InvParts DEF RestOK
<1>2. /\ q \in [Drivers -> SUBSET Trips] /\ p \in [Drivers -> Trips \cup {NoTrip}]
      /\ \A e \in Drivers, u \in Trips :
           (u \in q[e] => u \in queue[e]) /\ (u # t /\ u \in queue[e] => u \in q[e])
      /\ \A e \in Drivers, u \in Trips : p[e] = u => processing[e] = u
  BY <1>1, MovingOn, InvParts DEF Inv
<1>3. /\ js \in [Pairs -> Nat] /\ ts \in [Pairs -> Nat]
      /\ \A e \in Drivers, u \in Trips : <<u, e>> \in In(js) <=> <<u, e>> \in In(jobs) /\ u # t
      /\ \A e \in Drivers, u \in Trips : <<u, e>> \in In(ts) <=> <<u, e>> \in In(timers) /\ u # t
  BY InvParts, BagFacts DEF OfTrip
<1>4. Serves(called[t], q, p, js, ts, queue', processing', jobs', timers')
  BY <1>1, <1>2, <1>3, ServingAsks DEF CancelTripRequest
<1>5. /\ UNCHANGED <<searches, stale, avail, kicks, approvals>>
      /\ status[t] \in {"WAITING_FOR_DRIVER", "DRIVER_NOT_FOUND"}
      /\ status' = [status EXCEPT ![t] = "DRAFT"]
      /\ called' = [called EXCEPT ![t] = {}]
      /\ rejected' = [rejected EXCEPT ![t] = {}]
      /\ shown' = shown \ ({t} \X called[t])
  BY DEF CancelTripRequest, Waiting
<1> HIDE DEF q, p, js, ts
<1>6. RestOK'
  BY <1>5, InvParts DEF RestOK, DispatchStatuses
<1>7. /\ status'[t] = "DRAFT" /\ called'[t] = {} /\ rejected'[t] = {}
      /\ \A u \in Trips : u # t =>
           status'[u] = status[u] /\ called'[u] = called[u] /\ rejected'[u] = rejected[u]
      /\ \A e \in Drivers, u \in Trips :
           <<u, e>> \in shown' <=> <<u, e>> \in shown /\ ~ (u = t /\ e \in called[t])
  BY <1>5, InvParts DEF RestOK
<1>8. \A u \in Trips : Approved(u)'
  BY <1>5, <1>7, InvParts DEF Approved
<1>9. ASSUME NEW u \in Trips \ stale'
      PROVE  /\ Fits(u)'
             /\ Tracked(u, status'[u], called'[u], rejected'[u], q, p, In(js), In(ts), shown')
  <2>1. Justified(u)'
    BY <1>5, <1>7, InvParts DEF Fits, Justified
  <2>2. Current(u)'
    BY <1>5, <1>7, InvParts DEF Fits, Current, Waiting
  <2>3. Tracked(u, status'[u], called'[u], rejected'[u], q, p, In(js), In(ts), shown')
    BY <1>2, <1>3, <1>5, <1>7, InvParts DEF Tracked, Fits, Current
  <2> QED
    BY <2>1, <2>2, <2>3 DEF Fits
<1> QED
  BY <1>4, <1>6, <1>8, <1>9, ServingRestores

(* approveTrip: no screen shows the trip any longer, and it waits no more. *)
LEMMA ApproveTripKeepsInv ==
    ASSUME Inv, NEW t \in Trips, NEW d \in Drivers, ApproveTrip(t, d)
    PROVE  Inv'
<1>1. /\ UNCHANGED <<called, rejected, searches, stale, queue, jobs, timers, kicks>>
      /\ <<t, d>> \in shown
      /\ status' = [status EXCEPT ![t] = "APPROVED"]
      /\ avail' = [avail EXCEPT ![d] = "ON_TRIP"]
      /\ processing' = Cleared({d})
      /\ approvals' = approvals \cup {<<t, d>>}
      /\ shown' = shown \ ({t} \X ((called[t] \ rejected[t]) \cup {d}))
  BY DEF ApproveTrip
<1>2. /\ processing' \in [Drivers -> Trips \cup {NoTrip}]
      /\ \A e \in Drivers, u \in Trips : processing'[e] = u => processing[e] = u
  BY <1>1, MovingOn DEF Inv
<1>3. /\ status'[t] = "APPROVED"
      /\ \A u \in Trips : u # t => status'[u] = status[u]
      /\ \A e \in Drivers, u \in Trips : <<u, e>> \in shown' => <<u, e>> \in shown
      /\ \A e \in Drivers : <<t, e>> \in shown' => e \notin called[t] \ rejected[t]
      /\ \A e \in Drivers, u \in Trips : u # t /\ <<u, e>> \in approvals' => <<u, e>> \in approvals
      /\ In(jobs)' = In(jobs) /\ In(timers)' = In(timers)
  BY <1>1, InvParts DEF RestOK, In
<1>4. TypeOK'
  <2>1. status' \in [Trips -> DispatchStatuses]
        /\ avail' \in [Drivers -> {"AVAILABLE", "BUSY", "ON_TRIP"}]
    BY <1>1, InvParts DEF RestOK, DispatchStatuses
  <2>2. approvals' \subseteq Pairs /\ shown' \subseteq Pairs
    BY <1>1, InvParts DEF RestOK, Pairs
  <2> QED
    BY <1>1, <1>2, <2>1, <2>2 DEF Inv, TypeOK
<1>5. ASSUME NEW u \in Trips PROVE TripInv(u)'
  <2>1. UNCHANGED <<called, rejected, stale, queue>>
    BY <1>1
  <2>2. Approved(u)'
    BY <1>3, InvParts DEF Approved
  <2>3. u \notin stale => Justified(u)'
    BY <1>3, <2>1, InvParts DEF Fits, Justified
  <2>4. u \notin stale => Current(u)'
    BY <1>3, <2>1, InvParts DEF Fits, Current, Waiting
  <2>5. u \notin stale =>
          Tracked(u, status'[u], called'[u], rejected'[u],
                  queue', processing', In(jobs)', In(timers)', shown')
    BY <1>2, <1>3, <2>1, InvParts DEF Tracked
  <2> QED
    BY <2>1, <2>2, <2>3, <2>4, <2>5 DEF TripInv, Fits
<1> QED
  BY <1>4, <1>5 DEF Inv

(* The event handler of trip.approved: d rejects the trips of the queue    *)
(* that is emptied, none of which d was asked for; t is approved, so that  *)
(* nobody misses its jobs.                                                 *)
LEMMA HandleTripApprovedKeepsInv ==
    ASSUME Inv, NEW t \in Trips, NEW d \in Drivers, HandleTripApproved(t, d)
    PROVE  Inv'
<1> DEFINE q == [queue EXCEPT ![d] = {}]
           ds == Affected(q) \cup {d}
           p == Cleared(ds)
           js == Purged(jobs, OfTrip(t))
           ts == Purged(timers, OfTrip(t))
<1>1. PICK next \in SUBSET Drivers : ProcessNext(next, q, p, js, ts)
  BY DEF HandleTripApproved, Affected
<1>2. /\ q \in [Drivers -> SUBSET Trips]
      /\ \A e \in Drivers, u \in Trips : u \in q[e] <=> u \in queue[e] /\ e # d
  BY InvParts
<1>3. ds \in SUBSET Drivers /\ d \in ds
  BY DEF Affected
<1> HIDE DEF q, ds
<1>4. /\ p \in [Drivers -> Trips \cup {NoTrip}]
      /\ \A e \in Drivers, u \in Trips : p[e] = u => processing[e] = u /\ e # d
  BY <1>3, MovingOn DEF Inv
<1>5. /\ js \in [Pairs -> Nat] /\ ts \in [Pairs -> Nat]
      /\ \A e \in Drivers, u \in Trips : <<u, e>> \in In(js) <=> <<u, e>> \in In(jobs) /\ u # t
      /\ \A e \in Drivers, u \in Trips : <<u, e>> \in In(ts) <=> <<u, e>> \in In(timers) /\ u # t
  BY InvParts, BagFacts DEF OfTrip
<1> HIDE DEF p, js, ts
<1>6. Serves(next, q, p, js, ts, queue', processing', jobs', timers')
  BY <1>1, <1>2, <1>4, <1>5, ServingAsks
<1>7. /\ UNCHANGED <<status, called, searches, stale, avail, kicks, shown>>
      /\ <<t, d>> \in approvals
      /\ approvals' = approvals \ {<<t, d>>}
      /\ rejected' = [u \in Trips |->
                         IF u \in queue[d] /\ Waiting(u) THEN rejected[u] \cup {d}
                         ELSE rejected[u]]
  BY DEF HandleTripApproved
<1>8. RestOK'
  BY <1>7, InvParts DEF RestOK
<1>9. \A u \in Trips : rejected'[u] = IF u \in queue[d] /\ Waiting(u)
                                      THEN rejected[u] \cup {d} ELSE rejected[u]
  BY <1>7
<1>10. \A u \in Trips : Approved(u)'
  BY <1>7, InvParts DEF Approved
<1>11. ASSUME NEW u \in Trips \ stale'
       PROVE  /\ Fits(u)'
              /\ Tracked(u, status'[u], called'[u], rejected'[u], q, p, In(js), In(ts), shown')
  <2>1. /\ Fits(u) /\ Approved(u)
        /\ Tracked(u, status[u], called[u], rejected[u],
                   queue, processing, In(jobs), In(timers), shown)
    BY <1>7, InvParts
  <2>2. Justified(u)'
    <3>1. u \in queue[d] /\ Waiting(u) => d \in called[u]
      BY <2>1 DEF Tracked, Waiting
    <3> QED
      BY <1>7, <1>9, <2>1, <3>1 DEF Fits, Justified, Waiting
  <2>3. Current(u)'
    BY <1>7, <1>9, <2>1 DEF Fits, Current, Tracked, Waiting
  <2>4. u = t => status[u] = "APPROVED"
    BY <1>7, <2>1 DEF Approved
  <2>5. Tracked(u, status'[u], called'[u], rejected'[u], q, p, In(js), In(ts), shown')
    BY <1>2, <1>4, <1>5, <1>7, <1>9, <2>1, <2>4 DEF Tracked, Waiting
  <2> QED
    BY <2>2, <2>3, <2>5 DEF Fits
<1> QED
  BY <1>6, <1>8, <1>10, <1>11, ServingRestores

(* Availability and processing keys may change, and the server die, with   *)
(* nothing to keep.                                                        *)
LEMMA RestKeepsInv ==
    ASSUME Inv,
           /\ UNCHANGED <<status, called, rejected, searches, stale, queue, jobs, timers, shown>>
           /\ avail' \in [Drivers -> {"AVAILABLE", "BUSY", "ON_TRIP"}]
           /\ processing' \in [Drivers -> Trips \cup {NoTrip}]
           /\ \A d \in Drivers : processing'[d] \in {processing[d], NoTrip}
           /\ kicks' \in [Pairs -> Nat]
           /\ approvals' \subseteq approvals
    PROVE  Inv'
<1>1. TypeOK'
  BY DEF Inv, TypeOK
<1>2. ASSUME NEW u \in Trips PROVE TripInv(u)'
  <2>1. \A d \in Drivers : processing'[d] = u => processing[d] = u
    BY DispatchAssumption
  <2>2. In(jobs)' = In(jobs) /\ In(timers)' = In(timers)
    BY DEF In
  <2>3. Approved(u)'
    BY InvParts DEF Approved
  <2>4. u \notin stale => Fits(u)'
    BY InvParts DEF Fits, Justified, Current, Waiting
  <2>5. u \notin stale =>
          Tracked(u, status'[u], called'[u], rejected'[u],
                  queue', processing', In(jobs)', In(timers)', shown')
    BY <2>1, <2>2, InvParts DEF Tracked
  <2> QED
    BY <2>3, <2>4, <2>5 DEF TripInv
<1> QED
  BY <1>1, <1>2 DEF Inv

(* Before the first search it holds.                                       *)
LEMMA InitInv == Init => Inv
<1>1. Init => TypeOK
  BY DispatchAssumption DEF Init, TypeOK, DispatchStatuses, Nothing
<1>2. ASSUME Init, NEW u \in Trips PROVE TripInv(u)
  <2>1. Approved(u) /\ Fits(u)
    BY <1>2 DEF Init, Fits, Justified, Approved, Current
  <2>2. In(jobs) = {} /\ In(timers) = {}
    BY <1>2 DEF Init, In, Nothing
  <2>3. Tracked(u, status[u], called[u], rejected[u],
                queue, processing, In(jobs), In(timers), shown)
    BY <1>2, <2>2 DEF Init, Tracked
  <2> QED
    BY <2>1, <2>3 DEF TripInv
<1> QED
  BY <1>1, <1>2 DEF Inv

(* And every step keeps it.                                                *)
LEMMA StepKeepsInv == Inv /\ [Next]_vars => Inv'
<1> SUFFICES ASSUME Inv, [Next]_vars PROVE Inv'
  OBVIOUS
<1>1. CASE Background
  BY <1>1, KickKeepsInv, RunJobKeepsInv, DriverTimesOutKeepsInv, HandleTripApprovedKeepsInv
  DEF Background
<1>2. ASSUME NEW t \in Trips, NEW ds \in SUBSET Drivers, RequestDriver(t, ds) PROVE Inv'
  BY <1>2, RequestDriverKeepsInv
<1>3. ASSUME NEW t \in Trips, NEW byKey \in BOOLEAN, CancelTripRequest(t, byKey) PROVE Inv'
  BY <1>3, CancelKeepsInv
<1>4. ASSUME NEW t \in Trips, NEW d \in Drivers, DeclineTrip(t, d) \/ ApproveTrip(t, d)
      PROVE  Inv'
  BY <1>4, DeclineTripKeepsInv, ApproveTripKeepsInv
<1>5. ASSUME NEW d \in Drivers,
             \/ \E to \in {"AVAILABLE", "BUSY"} : UpdateAvailability(d, to)
             \/ DriverConnects(d)
             \/ RideEnds(d)
      PROVE  Inv'
  <2>1. /\ UNCHANGED <<status, called, rejected, searches, stale, queue, jobs, timers, shown>>
        /\ UNCHANGED <<processing, kicks, approvals>>
        /\ avail' \in [Drivers -> {"AVAILABLE", "BUSY", "ON_TRIP"}]
    BY <1>5, InvParts
    DEF RestOK, UpdateAvailability, DriverConnects, RideEnds, tripVars, queueVars
  <2> QED
    BY <2>1, InvParts, RestKeepsInv DEF RestOK
<1>6. ASSUME NEW d \in Drivers, ProcessingExpires(d) PROVE Inv'
  <2>1. /\ UNCHANGED <<status, called, rejected, searches, stale, queue, jobs, timers, shown>>
        /\ UNCHANGED <<avail, kicks, approvals>>
        /\ processing' = Cleared({d})
    BY <1>6 DEF ProcessingExpires, tripVars
  <2>2. /\ processing' \in [Drivers -> Trips \cup {NoTrip}]
        /\ \A e \in Drivers : processing'[e] \in {processing[e], NoTrip}
    BY <2>1, InvParts DEF Cleared
  <2> QED
    BY <2>1, <2>2, InvParts, RestKeepsInv DEF RestOK
<1>7. CASE Crash
  BY <1>7, InvParts, RestKeepsInv DEF RestOK, Crash, tripVars, queueVars, Nothing
<1>8. CASE UNCHANGED vars
  BY <1>8, InvParts, RestKeepsInv DEF RestOK, vars, tripVars, queueVars
<1> QED
  BY <1>1, <1>2, <1>3, <1>4, <1>5, <1>6, <1>7, <1>8 DEF Next

(* So it holds always, for any number of searches.                         *)
LEMMA InvHolds == Spec => []Inv
BY InitInv, StepKeepsInv, PTL DEF Spec

-----------------------------------------------------------------------------
(* What follows.                                                           *)

(* The state keeps its types: what is queued, asked for, timed and shown   *)
(* is of known trips and drivers, whatever the size of the fleet.          *)
THEOREM DispatchTypeCorrect == Spec => []TypeOK
<1>1. Inv => TypeOK
  BY DEF Inv
<1> QED
  BY <1>1, InvHolds, PTL

(* In a search that began without traces of an earlier one of its trip,    *)
(* as every first search does, no called driver is forgotten.              *)
THEOREM CalledIsCoveredAlways == Spec => []CalledIsCovered
<1>1. Inv => CalledIsCovered
  BY InvParts DEF CalledIsCovered, Tracked, Waiting
<1> QED
  BY <1>1, InvHolds, PTL

(* Such a search fails only when all drivers called have rejected.         *)
THEOREM NotFoundIsJustifiedAlways == Spec => []NotFoundIsJustified
<1>1. Inv => NotFoundIsJustified
  BY InvParts DEF NotFoundIsJustified, Fits, Justified
<1> QED
  BY <1>1, InvHolds, PTL

(* In such a search what a driver sees can be accepted.                    *)
THEOREM ScreenIsCurrentAlways == Spec => []ScreenIsCurrent
<1>1. Inv => ScreenIsCurrent
  BY InvParts DEF ScreenIsCurrent, Fits, Current
<1> QED
  BY <1>1, InvHolds, PTL
=============================================================================
