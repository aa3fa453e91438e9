---------------------------- MODULE AskingProofs ----------------------------
(***************************************************************************)
(* How one driver is asked, for any number of trips and of callers: while  *)
(* a trip waits for his answer somebody has it, whatever overlaps or fails *)
(* (NobodyIsForgotten), and as long as callers take turns he sees one      *)
(* request at a time (OneAtATime).                                         *)
(***************************************************************************)
EXTENDS MCAccounts, FiniteSetTheorems, TLAPS

\* Whatever names a trip names one that has called this driver; a trip another
\* driver has taken does not wait.
Known ==
    /\ queue \cup jobs \cup timers \cup taken \cup shown \subseteq called
    /\ \A c \in Q!AtWork : /\ askWork[c].trip \in called \cup {Nothing}
                           /\ askWork[c].next \in called \cup {Nothing}
    /\ taken \cap waiting = {}

\* A caller that has popped a trip is between the pop and the timeout job, a
\* decline never pops its own trip again.
Fitting ==
    \A c \in Q!AtWork :
       /\ askWork[c].next # Nothing <=> askWork[c].at \in {"mark", "job", "timer"}
       /\ askWork[c].why # "next" \/ askWork[c].at \in {"clear", "remove"} =>
             askWork[c].trip # Nothing
       /\ askWork[c].at = "return" => askWork[c].why # "next"
       /\ askWork[c].why = "decline" => askWork[c].next # askWork[c].trip

\* A trip still in the queue has no job, no timer and no answer, is not on the
\* screen, and nobody works on it but its cancellation: ZPOPMIN hands a trip out
\* once.
Queued ==
    \A t \in queue :
       /\ t \notin jobs /\ t \notin timers /\ t \notin shown /\ t \notin answered
       /\ \A c \in Q!AtWork :
             askWork[c].next # t /\ (askWork[c].why # "cancel" => askWork[c].trip # t)

\* NobodyIsForgotten's first part, trip by trip.  It holds whatever overlaps or fails.
Remembered ==
    \A t \in waiting \ (answered \cup orphans) :
       \/ t \in queue \/ t \in timers
       \/ \E c \in Q!AtWork :
             askWork[c].next = t \/ (askWork[c].why = "cancel" /\ askWork[c].trip = t)

\* As long as one caller works at a time: what it has popped is on no screen and
\* has no timer yet, it pops only when the key is free, and a decline or a
\* cancellation is not what the driver is being asked for any more.
InTurn ==
    /\ \A c, d \in Q!AtWork : c = d
    /\ orphans = {} /\ jobs \cap shown = {}
    /\ \A c \in Q!AtWork :
          /\ askWork[c].next \notin shown \cup timers \cup answered
          /\ askWork[c].why # "cancel" => askWork[c].trip \notin shown
          /\ askWork[c].at \in {"pop", "mark"} => processing = Nothing
          /\ askWork[c].why # "next" /\ askWork[c].at # "clear" =>
                processing # askWork[c].trip
          /\ askWork[c].why # "next" /\ askWork[c].at \notin {"clear", "remove"} =>
                askWork[c].trip \notin queue /\ askWork[c].trip # askWork[c].next

\* Somebody will come for the trip p that the key names: the handler of its
\* approval, its timeout job while it waits for an answer, its request job once it
\* does not wait, or a caller who is about to delete the key or to add these jobs.
Due(p) ==
    \/ p \in taken \/ p \in timers \cap (waiting \ answered) \/ p \in jobs \ waiting
    \/ \E c \in Q!AtWork :
          \/ askWork[c].at = "clear"
          \/ askWork[c].next = p /\ askWork[c].at = "job"
          \/ askWork[c].next = p /\ askWork[c].at = "timer" /\ p \in jobs

\* A key is due, and a queue with no key has a callback, an approval or a caller
\* who will look at it.
Followed ==
    /\ processing # Nothing => Due(processing)
    /\ \/ queue = {} \/ kicks # {} \/ taken # {} \/ processing # Nothing
       \/ \E c \in Q!AtWork : askWork[c].at \notin {"job", "timer", "return"}

\* One request is on the screen, the one the key names or one being cancelled.
Screen ==
    /\ \A t, u \in shown \cap waiting : t = u
    /\ \A t \in shown \cap waiting :
          \/ processing = t
          \/ \E c \in Q!AtWork : askWork[c].why = "cancel" /\ askWork[c].trip = t

\* InTurn and Followed hold until callers overlap or one fails, Screen also until
\* a key is deleted under another trip.
AskInv ==
    /\ Q!TypeOK /\ Known /\ Fitting /\ Queued /\ Remembered
    /\ order # "lost" => InTurn /\ Followed
    /\ order = "kept" => Screen

\* The driver nobody has called has it.
LEMMA AskingBegins == ASSUME Init PROVE AskInv
<1>1. /\ called = {} /\ waiting = {} /\ answered = {} /\ queue = {} /\ processing = Nothing
      /\ jobs = {} /\ timers = {} /\ kicks = {} /\ taken = {} /\ shown = {}
      /\ order = "kept" /\ orphans = {}
  BY DEF Init, Q!Init
<1>2. askWork = [c \in Requests |-> Q!Idle]
  BY DEF Init, Q!Init
<1>3. Q!AtWork = {} /\ askWork \in [Requests -> {Q!Idle}]
  BY <1>2 DEF Q!AtWork
<1>4. Q!TypeOK
  BY <1>1, <1>3 DEF Q!TypeOK
<1> QED
  BY <1>1, <1>3, <1>4
  DEF AskInv, Known, Fitting, Queued, Remembered, InTurn, Followed, Screen

\* A step of another component changes nothing of it.
LEMMA AskingStays == ASSUME AskInv, UNCHANGED askVars PROVE AskInv'
BY DEF askVars, AskInv, Q!TypeOK, Q!AtWork, Known, Fitting, Queued, Remembered,
       InTurn, Followed, Due, Screen

\* Every step of processNextDriverRequest and of its callers, a failing call, a
\* crash and a key that runs out keep it.
LEMMA AskingStep ==
    ASSUME AskInv, Q!Next
    PROVE  AskInv'
<1> DEFINE Work == [at : Q!Steps, why : Q!Reasons, trip : Things \cup {Nothing},
                    next : Things \cup {Nothing}]
           Works == [Requests -> {Q!Idle} \cup Work]
<1>0. /\ queue \subseteq Things /\ jobs \subseteq Things /\ timers \subseteq Things
      /\ kicks \subseteq Things /\ taken \subseteq Things /\ shown \subseteq Things
      /\ answered \subseteq waiting /\ waiting \subseteq called /\ called \subseteq Things
      /\ processing \in Things \cup {Nothing} /\ askWork \in Works
      /\ order \in {"kept", "stolen", "lost"} /\ orphans \subseteq Things
      /\ Nothing \notin Things
  BY AccountsAssumption DEF AskInv, Q!TypeOK
<1>w. \A c \in Q!AtWork : c \in Requests /\ askWork[c] \in Work
  BY <1>0 DEF Q!AtWork
<1>i. \A c \in Requests : askWork[c].at # "none" => c \in Q!AtWork
  BY DEF Q!AtWork, Q!Idle
<1>k. \A w \in Work : w # Q!Idle /\ w.at \in Q!Steps /\ w.why \in Q!Reasons
                       /\ w.trip \in Things \cup {Nothing} /\ w.next \in Things \cup {Nothing}
  BY DEF Q!Idle
<1>a. ASSUME NEW c \in Requests, NEW w \in Work, askWork' = [askWork EXCEPT ![c] = w]
      PROVE  /\ askWork' \in Works /\ askWork'[c] = w /\ Q!AtWork' = Q!AtWork \cup {c}
             /\ \A d \in Requests \ {c} : askWork'[d] = askWork[d]
  BY <1>0, <1>k, <1>a DEF Q!AtWork
<1>d. ASSUME NEW c \in Requests, askWork' = [askWork EXCEPT ![c] = Q!Idle]
      PROVE  /\ askWork' \in Works /\ Q!AtWork' = Q!AtWork \ {c}
             /\ \A d \in Requests \ {c} : askWork'[d] = askWork[d]
  BY <1>0, <1>d DEF Q!AtWork
<1>u. ASSUME askWork' = askWork
      PROVE  askWork' \in Works /\ Q!AtWork' = Q!AtWork
  BY <1>0, <1>u DEF Q!AtWork
<1>b. ASSUME NEW c \in Requests, NEW s \in Q!Steps, NEW y \in Q!Reasons,
             NEW t \in Things \cup {Nothing}, Q!Begins(c, s, y, t)
      PROVE  /\ c \notin Q!AtWork /\ askWork' \in Works /\ Q!AtWork' = Q!AtWork \cup {c}
             /\ \A d \in Requests \ {c} : askWork'[d] = askWork[d]
             /\ askWork'[c].at = s /\ askWork'[c].why = y
             /\ askWork'[c].trip = t /\ askWork'[c].next = Nothing
  <2> DEFINE w == [at |-> s, why |-> y, trip |-> t, next |-> Nothing]
  <2>1. w \in Work /\ w.at = s /\ w.why = y /\ w.trip = t /\ w.next = Nothing
    OBVIOUS
  <2>2. askWork[c] = Q!Idle /\ askWork' = [askWork EXCEPT ![c] = w]
    BY <1>b DEF Q!Begins
  <2> HIDE DEF w, Work
  <2> QED
    BY <1>a, <2>1, <2>2 DEF Q!AtWork
<1>g. ASSUME NEW c \in Q!AtWork, NEW s \in Q!Steps, Q!Goes(c, s)
      PROVE  /\ askWork' \in Works /\ Q!AtWork' = Q!AtWork
             /\ \A d \in Requests \ {c} : askWork'[d] = askWork[d]
             /\ askWork'[c].at = s /\ askWork'[c].why = askWork[c].why
             /\ askWork'[c].trip = askWork[c].trip /\ askWork'[c].next = askWork[c].next
  <2> DEFINE w == [askWork[c] EXCEPT !.at = s]
  <2>1. /\ w \in Work /\ w.at = s /\ w.why = askWork[c].why
        /\ w.trip = askWork[c].trip /\ w.next = askWork[c].next
    BY <1>w
  <2>2. askWork' = [askWork EXCEPT ![c] = w]
    BY <1>g DEF Q!Goes
  <2> HIDE DEF w, Work
  <2>3. c \in Requests /\ Q!AtWork \cup {c} = Q!AtWork
    BY DEF Q!AtWork
  <2> QED
    BY <1>a, <2>1, <2>2, <2>3
<1>s. ASSUME NEW c \in Q!AtWork, Q!Served(c)
      PROVE  /\ askWork' \in Works
             /\ \A d \in Requests \ {c} : askWork'[d] = askWork[d]
             /\ \/ /\ askWork[c].why \in {"decline", "cancel"} /\ Q!AtWork' = Q!AtWork
                   /\ askWork'[c].at = "return" /\ askWork'[c].why = askWork[c].why
                   /\ askWork'[c].trip = askWork[c].trip /\ askWork'[c].next = Nothing
                \/ askWork[c].why = "next" /\ Q!AtWork' = Q!AtWork \ {c}
  <2> DEFINE v == [askWork[c] EXCEPT !.at = "return"]
             w == [v EXCEPT !.next = Nothing]
  <2>1. /\ v \in Work /\ v.at = "return" /\ v.why = askWork[c].why
        /\ v.trip = askWork[c].trip
    BY <1>w DEF Q!Steps
  <2>2. askWork[c].why \in {"decline", "cancel"} => askWork' = [askWork EXCEPT ![c] = w]
    BY <1>s DEF Q!Served
  <2> HIDE DEF v
  <2>3. /\ w \in Work /\ w.at = "return" /\ w.why = askWork[c].why
        /\ w.trip = askWork[c].trip /\ w.next = Nothing
    BY <2>1
  <2>4. askWork[c].why = "next" => askWork' = [askWork EXCEPT ![c] = Q!Idle]
    BY <1>s DEF Q!Served
  <2>5. askWork[c].why \in Q!Reasons /\ c \in Requests
    BY <1>w, <1>k
  <2> HIDE DEF w, Work
  <2>6. CASE askWork[c].why \in {"decline", "cancel"}
    BY <1>a, <2>2, <2>3, <2>5, <2>6
  <2>7. CASE askWork[c].why = "next"
    BY <1>d, <2>4, <2>5, <2>7
  <2> QED
    BY <2>5, <2>6, <2>7 DEF Q!Reasons
<1>1. ASSUME NEW t \in Things, Q!AddTrip(t)
      PROVE  AskInv'
  <2>1. /\ t \notin called
        /\ called' = called \cup {t} /\ waiting' = waiting \cup {t}
        /\ queue' = queue \cup {t} /\ kicks' = kicks \cup {t}
        /\ UNCHANGED <<answered, processing, jobs, timers, taken, shown, order,
                       orphans>>
    BY <1>1 DEF Q!AddTrip, Q!historyVars
  <2>2. askWork' = askWork /\ askWork' \in Works /\ Q!AtWork' = Q!AtWork
    BY <1>u, <1>1 DEF Q!AddTrip
  <2>3. Q!TypeOK'
    BY <2>1, <2>2 DEF AskInv, Q!TypeOK
  <2>4. Known'
    BY <2>1, <2>2 DEF AskInv, Known
  <2>5. Fitting'
    BY <2>1, <2>2 DEF AskInv, Fitting
  <2>6. Queued'
    BY <1>0, <2>1, <2>2 DEF AskInv, Queued, Known
  <2>7. Remembered'
    BY <2>1, <2>2 DEF AskInv, Remembered
  <2>8. ASSUME order' # "lost"
        PROVE  InTurn'
    BY <1>0, <2>1, <2>2, <2>8 DEF AskInv, InTurn, Known
  <2>9. ASSUME order' # "lost"
        PROVE  Followed'
    BY <2>1, <2>2, <2>9
    DEF AskInv, InTurn, Followed, Due, Remembered, Queued, Known, Fitting
  <2>10. ASSUME order' = "kept"
         PROVE  Screen'
    BY <2>1, <2>2, <2>10
    DEF AskInv, Screen, InTurn, Queued, Known, Fitting
  <2> QED
    BY <2>3, <2>4, <2>5, <2>6, <2>7, <2>8, <2>9, <2>10 DEF AskInv
<1>2. ASSUME NEW c \in Requests, NEW t \in Things, Q!Kick(c, t)
      PROVE  AskInv'
  <2>1. /\ kicks' = kicks \ {t}
        /\ order' \in {order, "lost"} /\ (order' # "lost" => Q!AtWork = {})
        /\ UNCHANGED <<called, waiting, answered, queue, processing, jobs, timers,
                       taken, shown, orphans>>
    BY <1>2
    DEF Q!Kick, Q!Marks, Q!Busy, Q!AtWork, Q!tripVars, Q!redisVars,
        Q!historyVars
  <2>2. /\ askWork' \in Works /\ \A d \in Requests \ {c} : askWork'[d] = askWork[d]
        /\ c \notin Q!AtWork /\ Q!AtWork' = Q!AtWork \cup {c}
        /\ askWork'[c].at = "look" /\ askWork'[c].why = "next"
        /\ askWork'[c].trip = Nothing /\ askWork'[c].next = Nothing
    BY <1>2, <1>b, <1>u, <2>1
    DEF Q!Kick, Q!Steps, Q!Serving, Q!Reasons, Q!Marks, Q!Busy
  <2>3. Q!TypeOK'
    BY <2>1, <2>2 DEF AskInv, Q!TypeOK
  <2>4. Known'
    BY <1>w, <2>1, <2>2 DEF AskInv, Known
  <2>5. Fitting'
    BY <1>w, <2>1, <2>2 DEF AskInv, Fitting
  <2>6. Queued'
    BY <1>0, <1>w, <2>1, <2>2 DEF AskInv, Queued
  <2>7. Remembered'
    BY <1>w, <2>1, <2>2 DEF AskInv, Remembered
  <2>8. ASSUME order' # "lost"
        PROVE  InTurn'
    BY <1>0, <2>1, <2>2, <2>8 DEF AskInv, InTurn
  <2>9. ASSUME order' # "lost"
        PROVE  Followed'
    BY <2>1, <2>2, <2>9
    DEF AskInv, InTurn, Followed, Due, Remembered, Queued, Known, Fitting
  <2>10. ASSUME order' = "kept"
         PROVE  Screen'
    BY <2>1, <2>2, <2>10
    DEF AskInv, Screen, InTurn, Queued, Known, Fitting
  <2> QED
    BY <2>3, <2>4, <2>5, <2>6, <2>7, <2>8, <2>9, <2>10 DEF AskInv
<1>3. ASSUME NEW c \in Requests, NEW t \in Things, NEW b \in BOOLEAN, Q!RunJob(c, t, b)
      PROVE  AskInv'
  <2>1. /\ t \in jobs /\ jobs' = jobs \ {t}
        /\ order' \in {order, "lost"} /\ (order' # "lost" => Q!AtWork = {})
        /\ UNCHANGED <<called, waiting, answered, queue, processing, timers, kicks,
                       taken, orphans>>
    BY <1>3
    DEF Q!RunJob, Q!Marks, Q!Busy, Q!AtWork, Q!tripVars, Q!redisVars,
        Q!historyVars
  <2>2. /\ askWork' \in Works /\ \A d \in Requests \ {c} : askWork'[d] = askWork[d]
        /\ \/ /\ t \in waiting /\ Q!AtWork' = Q!AtWork /\ askWork' = askWork
              /\ \/ shown' = shown
                 \/ processing = t /\ shown' = shown \cup {t}
           \/ /\ shown' = shown
              /\ c \notin Q!AtWork /\ Q!AtWork' = Q!AtWork \cup {c}
              /\ askWork'[c].at = "clear" /\ askWork'[c].why = "next"
              /\ askWork'[c].trip = t /\ askWork'[c].next = Nothing
    BY <1>3, <1>b, <1>u, <2>1
    DEF Q!RunJob, Q!Steps, Q!Serving, Q!Reasons, Q!Marks, Q!Busy
  <2>3. Q!TypeOK'
    BY <2>1, <2>2 DEF AskInv, Q!TypeOK
  <2>4. Known'
    BY <1>w, <2>1, <2>2 DEF AskInv, Known
  <2>5. Fitting'
    BY <1>0, <1>w, <2>1, <2>2 DEF AskInv, Fitting
  <2>6. Queued'
    BY <1>0, <1>w, <2>1, <2>2 DEF AskInv, Queued
  <2>7. Remembered'
    BY <1>w, <2>1, <2>2 DEF AskInv, Remembered
  <2>8. ASSUME order' # "lost"
        PROVE  InTurn'
    BY <1>0, <2>1, <2>2, <2>8 DEF AskInv, InTurn
  <2>9. ASSUME order' # "lost"
        PROVE  Followed'
    BY <2>1, <2>2, <2>9
    DEF AskInv, InTurn, Followed, Due, Remembered, Queued, Known, Fitting
  <2>10. ASSUME order' = "kept"
         PROVE  Screen'
    BY <2>1, <2>2, <2>10
    DEF AskInv, Screen, InTurn, Queued, Known, Fitting
  <2> QED
    BY <2>3, <2>4, <2>5, <2>6, <2>7, <2>8, <2>9, <2>10 DEF AskInv
<1>4. ASSUME NEW c \in Requests, NEW t \in Things, Q!DriverTimesOut(c, t)
      PROVE  AskInv'
  <2>1. /\ t \in timers /\ timers' = timers \ {t}
        /\ UNCHANGED <<called, waiting, queue, processing, jobs, kicks, taken,
                       orphans>>
    BY <1>4
    DEF Q!DriverTimesOut, Q!Marks, Q!Busy, Q!AtWork, Q!tripVars, Q!redisVars,
        Q!historyVars
  <2>2. /\ askWork' \in Works /\ \A d \in Requests \ {c} : askWork'[d] = askWork[d]
        /\ \/ /\ t \notin waiting \ answered /\ Q!AtWork' = Q!AtWork /\ askWork' = askWork
              /\ UNCHANGED <<answered, shown, order>>
           \/ /\ t \in waiting /\ answered' = answered \cup {t} /\ shown' = shown \ {t}
              /\ order' \in {order, "lost"} /\ (order' # "lost" => Q!AtWork = {})
              /\ c \notin Q!AtWork /\ Q!AtWork' = Q!AtWork \cup {c}
              /\ askWork'[c].at = "clear" /\ askWork'[c].why = "next"
              /\ askWork'[c].trip = t /\ askWork'[c].next = Nothing
    BY <1>4, <1>b, <1>u, <2>1
    DEF Q!DriverTimesOut, Q!Steps, Q!Serving, Q!Reasons, Q!Marks, Q!Busy
  <2>3. Q!TypeOK'
    BY <2>1, <2>2 DEF AskInv, Q!TypeOK
  <2>4. Known'
    BY <1>w, <2>1, <2>2 DEF AskInv, Known
  <2>5. Fitting'
    BY <1>0, <1>w, <2>1, <2>2 DEF AskInv, Fitting
  <2>6. Queued'
    BY <1>0, <1>w, <2>1, <2>2 DEF AskInv, Queued
  <2>7. Remembered'
    BY <1>w, <2>1, <2>2 DEF AskInv, Remembered
  <2>8. ASSUME order' # "lost"
        PROVE  InTurn'
    BY <1>0, <2>1, <2>2, <2>8 DEF AskInv, InTurn
  <2>9. ASSUME order' # "lost"
        PROVE  Followed'
    BY <2>1, <2>2, <2>9
    DEF AskInv, InTurn, Followed, Due, Remembered, Queued, Known, Fitting
  <2>10. ASSUME order' = "kept"
         PROVE  Screen'
    BY <2>1, <2>2, <2>10
    DEF AskInv, Screen, InTurn, Queued, Known, Fitting
  <2> QED
    BY <2>3, <2>4, <2>5, <2>6, <2>7, <2>8, <2>9, <2>10 DEF AskInv
<1>5. ASSUME NEW c \in Requests, NEW t \in Things, Q!DeclineTrip(c, t)
      PROVE  AskInv'
  <2>1. /\ t \in shown /\ t \in waiting /\ shown' = shown \ {t}
        /\ order' \in {order, "lost"} /\ (order' # "lost" => Q!AtWork = {})
        /\ UNCHANGED <<called, waiting, answered, queue, processing, jobs, timers,
                       kicks, taken, orphans>>
    BY <1>5
    DEF Q!DeclineTrip, Q!Marks, Q!Busy, Q!AtWork, Q!tripVars, Q!redisVars,
        Q!historyVars
  <2>2. /\ askWork' \in Works /\ \A d \in Requests \ {c} : askWork'[d] = askWork[d]
        /\ c \notin Q!AtWork /\ Q!AtWork' = Q!AtWork \cup {c}
        /\ askWork'[c].at = "clear" /\ askWork'[c].why = "decline"
        /\ askWork'[c].trip = t /\ askWork'[c].next = Nothing
    BY <1>5, <1>b, <1>u, <2>1
    DEF Q!DeclineTrip, Q!Steps, Q!Serving, Q!Reasons, Q!Marks, Q!Busy
  <2>3. Q!TypeOK'
    BY <2>1, <2>2 DEF AskInv, Q!TypeOK
  <2>4. Known'
    BY <1>w, <2>1, <2>2 DEF AskInv, Known
  <2>5. Fitting'
    BY <1>0, <1>w, <2>1, <2>2 DEF AskInv, Fitting
  <2>6. Queued'
    BY <1>0, <1>w, <2>1, <2>2 DEF AskInv, Queued
  <2>7. Remembered'
    BY <1>w, <2>1, <2>2 DEF AskInv, Remembered
  <2>8. ASSUME order' # "lost"
        PROVE  InTurn'
    BY <1>0, <2>1, <2>2, <2>8 DEF AskInv, InTurn
  <2>9. ASSUME order' # "lost"
        PROVE  Followed'
    BY <2>1, <2>2, <2>9
    DEF AskInv, InTurn, Followed, Due, Remembered, Queued, Known, Fitting
  <2>10. ASSUME order' = "kept"
         PROVE  Screen'
    BY <2>1, <2>2, <2>10
    DEF AskInv, Screen, InTurn, Queued, Known, Fitting
  <2> QED
    BY <2>3, <2>4, <2>5, <2>6, <2>7, <2>8, <2>9, <2>10 DEF AskInv
<1>6. ASSUME NEW c \in Requests, NEW t \in Things, Q!CancelTripRequest(c, t)
      PROVE  AskInv'
  <2>1. /\ t \in waiting /\ jobs' = jobs \ {t} /\ timers' = timers \ {t}
        /\ order' \in {order, "lost"} /\ (order' # "lost" => Q!AtWork = {})
        /\ UNCHANGED <<called, waiting, answered, queue, processing, kicks, taken,
                       shown, orphans>>
    BY <1>6
    DEF Q!CancelTripRequest, Q!Marks, Q!Busy, Q!AtWork, Q!tripVars, Q!redisVars,
        Q!historyVars
  <2>2. /\ askWork' \in Works /\ \A d \in Requests \ {c} : askWork'[d] = askWork[d]
        /\ c \notin Q!AtWork /\ Q!AtWork' = Q!AtWork \cup {c}
        /\ askWork'[c].at = "clear" /\ askWork'[c].why = "cancel"
        /\ askWork'[c].trip = t /\ askWork'[c].next = Nothing
    BY <1>6, <1>b, <1>u, <2>1
    DEF Q!CancelTripRequest, Q!Steps, Q!Serving, Q!Reasons, Q!Marks, Q!Busy
  <2>3. Q!TypeOK'
    BY <2>1, <2>2 DEF AskInv, Q!TypeOK
  <2>4. Known'
    BY <1>0, <1>w, <2>1, <2>2 DEF AskInv, Known
  <2>5. Fitting'
    BY <1>0, <1>w, <2>1, <2>2 DEF AskInv, Fitting
  <2>6. Queued'
    BY <1>0, <1>w, <2>1, <2>2 DEF AskInv, Queued
  <2>7. Remembered'
    BY <1>w, <2>1, <2>2 DEF AskInv, Remembered
  <2>8. ASSUME order' # "lost"
        PROVE  InTurn'
    BY <1>0, <2>1, <2>2, <2>8 DEF AskInv, InTurn
  <2>9. ASSUME order' # "lost"
        PROVE  Followed'
    BY <2>1, <2>2, <2>9
    DEF AskInv, InTurn, Followed, Due, Remembered, Queued, Known, Fitting
  <2>10. ASSUME order' = "kept"
         PROVE  Screen'
    BY <2>1, <2>2, <2>10
    DEF AskInv, Screen, InTurn, Queued, Known, Fitting
  <2> QED
    BY <2>3, <2>4, <2>5, <2>6, <2>7, <2>8, <2>9, <2>10 DEF AskInv
<1>7. ASSUME NEW t \in Things, Q!TakenByOther(t)
      PROVE  AskInv'
  <2>1. /\ t \in waiting /\ waiting' = waiting \ {t} /\ answered' = answered \ {t}
        /\ taken' = taken \cup {t} /\ shown' = shown \ {t}
        /\ UNCHANGED <<called, queue, processing, jobs, timers, kicks, order,
                       orphans>>
    BY <1>7 DEF Q!TakenByOther, Q!redisVars, Q!historyVars
  <2>2. askWork' = askWork /\ askWork' \in Works /\ Q!AtWork' = Q!AtWork
    BY <1>u, <1>7 DEF Q!TakenByOther
  <2>3. Q!TypeOK'
    BY <2>1, <2>2 DEF AskInv, Q!TypeOK
  <2>4. Known'
    BY <1>0, <2>1, <2>2 DEF AskInv, Known
  <2>5. Fitting'
    BY <2>1, <2>2 DEF AskInv, Fitting
  <2>6. Queued'
    BY <2>1, <2>2 DEF AskInv, Queued
  <2>7. Remembered'
    BY <2>1, <2>2 DEF AskInv, Remembered
  <2>8. ASSUME order' # "lost"
        PROVE  InTurn'
    BY <2>1, <2>2, <2>8 DEF AskInv, InTurn
  <2>9. ASSUME order' # "lost"
        PROVE  Followed'
    BY <2>1, <2>2, <2>9
    DEF AskInv, InTurn, Followed, Due, Remembered, Queued, Known, Fitting
  <2>10. ASSUME order' = "kept"
         PROVE  Screen'
    BY <2>1, <2>2, <2>10
    DEF AskInv, Screen, InTurn, Queued, Known, Fitting
  <2> QED
    BY <2>3, <2>4, <2>5, <2>6, <2>7, <2>8, <2>9, <2>10 DEF AskInv
<1>8. ASSUME NEW c \in Requests, NEW t \in Things, NEW b \in BOOLEAN, Q!HandleTripApproved(c, t, b)
      PROVE  AskInv'
  <2>1. /\ t \in taken /\ taken' = taken \ {t}
        /\ jobs' = jobs \ {t} /\ timers' = timers \ {t}
        /\ order' = "lost" \/ order = "kept" \/ order' = order
        /\ UNCHANGED <<called, waiting, answered, queue, kicks, shown, orphans>>
    BY <1>8
    DEF Q!HandleTripApproved, Q!Marks, Q!Busy, Q!AtWork, Q!tripVars,
        Q!redisVars, Q!historyVars
  <2>2. /\ askWork' \in Works /\ \A d \in Requests \ {c} : askWork'[d] = askWork[d]
        /\ \/ /\ queue = {} /\ processing' = processing /\ Q!AtWork' = Q!AtWork /\ askWork' = askWork
              /\ order' # "lost" => order' = order /\ processing = Nothing
           \/ queue # {} /\ processing' = Nothing /\ order' = "lost" /\ Q!AtWork' = Q!AtWork /\ askWork' = askWork
           \/ /\ queue # {} /\ processing' = Nothing
              /\ order' # "lost" => order # "lost" /\ Q!AtWork = {}
              /\ order' = "kept" => order = "kept" /\ processing \in {t, Nothing}
              /\ order' \in {"kept", "stolen", "lost"}
              /\ c \notin Q!AtWork /\ Q!AtWork' = Q!AtWork \cup {c}
              /\ askWork'[c].at = "look" /\ askWork'[c].why = "next"
              /\ askWork'[c].trip = Nothing /\ askWork'[c].next = Nothing
    <3>1. CASE queue = {}
      BY <1>8, <1>u, <2>1, <3>1 DEF Q!HandleTripApproved, Q!Marks
    <3>2. CASE queue # {} /\ ~b
      BY <1>8, <1>u, <2>1, <3>2 DEF Q!HandleTripApproved, Q!Marks
    <3>3. CASE queue # {} /\ b
      <4>1. Q!Begins(c, "look", "next", Nothing)
        BY <1>8, <3>3 DEF Q!HandleTripApproved
      <4>2. /\ processing' = Nothing /\ order' \in {"kept", "stolen", "lost"}
            /\ order' # "lost" => order # "lost" /\ ~Q!Busy
            /\ order' = "kept" => order = "kept" /\ processing \in {t, Nothing}
        BY <1>8, <1>0, <3>3 DEF Q!HandleTripApproved, Q!Marks
      <4>3. "look" \in Q!Steps /\ "next" \in Q!Reasons
        BY DEF Q!Steps, Q!Serving, Q!Reasons
      <4> QED
        BY <1>b, <3>3, <4>1, <4>2, <4>3 DEF Q!Busy
    <3> QED
      BY <3>1, <3>2, <3>3
  <2>3. Q!TypeOK'
    BY <2>1, <2>2 DEF AskInv, Q!TypeOK
  <2>4. Known'
    BY <1>w, <2>1, <2>2 DEF AskInv, Known
  <2>5. Fitting'
    BY <1>w, <2>1, <2>2 DEF AskInv, Fitting
  <2>6. Queued'
    BY <1>0, <1>w, <2>1, <2>2 DEF AskInv, Queued
  <2>7. Remembered'
    BY <1>w, <2>1, <2>2 DEF AskInv, Remembered, Known
  <2>8. ASSUME order' # "lost"
        PROVE  InTurn'
    BY <1>0, <2>1, <2>2, <2>8 DEF AskInv, InTurn
  <2>9. ASSUME order' # "lost"
        PROVE  Followed'
    BY <2>1, <2>2, <2>9
    DEF AskInv, InTurn, Followed, Due, Remembered, Queued, Known, Fitting
  <2>10. ASSUME order' = "kept"
         PROVE  Screen'
    BY <2>1, <2>2, <2>10
    DEF AskInv, Screen, InTurn, Queued, Known, Fitting
  <2> QED
    BY <2>3, <2>4, <2>5, <2>6, <2>7, <2>8, <2>9, <2>10 DEF AskInv
<1>9. ASSUME NEW c \in Requests, Q!ClearProcessing(c)
      PROVE  AskInv'
  <2>1. /\ askWork[c].at = "clear" /\ c \in Q!AtWork
        /\ processing' = Nothing
        /\ order' # "lost" => order # "lost"
        /\ order' = "kept" => order = "kept" /\ processing \in {askWork[c].trip, Nothing}
        /\ order' \in {"kept", "stolen", "lost"}
        /\ UNCHANGED <<called, waiting, answered, queue, jobs, timers, kicks, taken,
                       shown, orphans>>
    BY <1>0, <1>i, <1>9
    DEF Q!ClearProcessing, Q!Marks, Q!Busy, Q!AtWork, Q!tripVars, Q!redisVars,
        Q!historyVars
  <2>2. /\ askWork' \in Works /\ \A d \in Requests \ {c} : askWork'[d] = askWork[d]
        /\ Q!AtWork' = Q!AtWork /\ askWork'[c].at = "remove" /\ askWork'[c].why = askWork[c].why
        /\ askWork'[c].trip = askWork[c].trip /\ askWork'[c].next = askWork[c].next
    BY <1>9, <1>g, <1>u, <2>1
    DEF Q!ClearProcessing, Q!Steps, Q!Serving, Q!Reasons, Q!Marks, Q!Busy
  <2>3. Q!TypeOK'
    BY <2>1, <2>2 DEF AskInv, Q!TypeOK
  <2>4. Known'
    BY <1>w, <2>1, <2>2 DEF AskInv, Known
  <2>5. Fitting'
    BY <1>w, <2>1, <2>2 DEF AskInv, Fitting
  <2>6. Queued'
    BY <1>w, <2>1, <2>2 DEF AskInv, Queued
  <2>7. Remembered'
    BY <1>w, <2>1, <2>2 DEF AskInv, Remembered
  <2>8. ASSUME order' # "lost"
        PROVE  InTurn'
    BY <2>1, <2>2, <2>8 DEF AskInv, InTurn, Fitting
  <2>9. ASSUME order' # "lost"
        PROVE  Followed'
    BY <2>1, <2>2, <2>9
    DEF AskInv, InTurn, Followed, Due, Remembered, Queued, Known, Fitting
  <2>10. ASSUME order' = "kept"
         PROVE  Screen'
    BY <2>1, <2>2, <2>10
    DEF AskInv, Screen, InTurn, Queued, Known, Fitting
  <2> QED
    BY <2>3, <2>4, <2>5, <2>6, <2>7, <2>8, <2>9, <2>10 DEF AskInv
<1>10. ASSUME NEW c \in Requests, Q!RemoveSpecificTrip(c)
      PROVE  AskInv'
  <2>1. /\ askWork[c].at = "remove" /\ c \in Q!AtWork
        /\ queue' = queue \ {askWork[c].trip}
        /\ UNCHANGED <<called, waiting, answered, processing, jobs, timers, kicks,
                       taken, shown, order, orphans>>
    BY <1>i, <1>10
    DEF Q!RemoveSpecificTrip, Q!Marks, Q!Busy, Q!AtWork, Q!tripVars,
        Q!redisVars, Q!historyVars
  <2>2. /\ askWork' \in Works /\ \A d \in Requests \ {c} : askWork'[d] = askWork[d]
        /\ Q!AtWork' = Q!AtWork /\ askWork'[c].at = "look" /\ askWork'[c].why = askWork[c].why
        /\ askWork'[c].next = askWork[c].next
        /\ \/ askWork[c].why = "next" /\ askWork'[c].trip = Nothing
           \/ askWork[c].why # "next" /\ askWork'[c].trip = askWork[c].trip
    <3> DEFINE v == [askWork[c] EXCEPT !.at = "look"]
               x == IF askWork[c].why = "next" THEN Nothing ELSE askWork[c].trip
               w == [v EXCEPT !.trip = x]
    <3>1. /\ v \in Work /\ v.at = "look" /\ v.why = askWork[c].why
          /\ v.next = askWork[c].next /\ v.trip = askWork[c].trip
      BY <1>w, <2>1 DEF Q!Steps, Q!Serving
    <3>2. askWork' = [askWork EXCEPT ![c] = w]
      BY <2>1, <1>10 DEF Q!RemoveSpecificTrip
    <3>3. x \in Things \cup {Nothing}
      BY <1>w, <2>1
    <3> HIDE DEF v, x
    <3>4. /\ w \in Work /\ w.at = "look" /\ w.why = askWork[c].why
          /\ w.next = askWork[c].next /\ w.trip = x
      BY <3>1, <3>3
    <3>5. Q!AtWork \cup {c} = Q!AtWork
      BY <2>1
    <3> HIDE DEF w, Work
    <3> QED
      BY <1>a, <2>1, <3>2, <3>4, <3>5 DEF x
  <2>3. Q!TypeOK'
    BY <2>1, <2>2 DEF AskInv, Q!TypeOK
  <2>4. Known'
    BY <1>w, <2>1, <2>2 DEF AskInv, Known
  <2>5. Fitting'
    BY <1>w, <2>1, <2>2 DEF AskInv, Fitting
  <2>6. Queued'
    BY <1>0, <1>w, <2>1, <2>2 DEF AskInv, Queued
  <2>7. Remembered'
    BY <1>w, <2>1, <2>2 DEF AskInv, Remembered, Queued
  <2>8. ASSUME order' # "lost"
        PROVE  InTurn'
    BY <2>1, <2>2, <2>8 DEF AskInv, InTurn, Fitting
  <2>9. ASSUME order' # "lost"
        PROVE  Followed'
    BY <2>1, <2>2, <2>9
    DEF AskInv, InTurn, Followed, Due, Remembered, Queued, Known, Fitting
  <2>10. ASSUME order' = "kept"
         PROVE  Screen'
    BY <2>1, <2>2, <2>10
    DEF AskInv, Screen, InTurn, Queued, Known, Fitting
  <2> QED
    BY <2>3, <2>4, <2>5, <2>6, <2>7, <2>8, <2>9, <2>10 DEF AskInv
<1>11. ASSUME NEW c \in Requests, Q!IsProcessing(c)
      PROVE  AskInv'
  <2>1. /\ askWork[c].at = "look" /\ c \in Q!AtWork
        /\ UNCHANGED <<called, waiting, answered, queue, processing, jobs, timers,
                       kicks, taken, shown, order, orphans>>
    BY <1>i, <1>11
    DEF Q!IsProcessing, Q!Marks, Q!Busy, Q!AtWork, Q!tripVars, Q!redisVars,
        Q!historyVars
  <2>2. /\ askWork' \in Works /\ \A d \in Requests \ {c} : askWork'[d] = askWork[d]
        /\ \/ /\ processing # Nothing
              /\ \/ /\ askWork[c].why \in {"decline", "cancel"} /\ Q!AtWork' = Q!AtWork
                    /\ askWork'[c].at = "return" /\ askWork'[c].why = askWork[c].why
                    /\ askWork'[c].trip = askWork[c].trip /\ askWork'[c].next = Nothing
                 \/ askWork[c].why = "next" /\ Q!AtWork' = Q!AtWork \ {c}
           \/ /\ processing = Nothing
              /\ Q!AtWork' = Q!AtWork /\ askWork'[c].at = "pop" /\ askWork'[c].why = askWork[c].why
              /\ askWork'[c].trip = askWork[c].trip /\ askWork'[c].next = askWork[c].next
    BY <1>11, <1>g, <1>s, <1>u, <2>1
    DEF Q!IsProcessing, Q!Steps, Q!Serving, Q!Reasons, Q!Marks, Q!Busy
  <2>3. Q!TypeOK'
    BY <2>1, <2>2 DEF AskInv, Q!TypeOK
  <2>4. Known'
    BY <1>w, <2>1, <2>2 DEF AskInv, Known
  <2>5. Fitting'
    BY <1>w, <2>1, <2>2 DEF AskInv, Fitting
  <2>6. Queued'
    BY <1>0, <1>w, <2>1, <2>2 DEF AskInv, Queued
  <2>7. Remembered'
    BY <1>0, <1>w, <2>1, <2>2 DEF AskInv, Remembered, Fitting
  <2>8. ASSUME order' # "lost"
        PROVE  InTurn'
    BY <2>1, <2>2, <2>8 DEF AskInv, InTurn, Fitting
  <2>9. ASSUME order' # "lost"
        PROVE  Followed'
    BY <2>1, <2>2, <2>9
    DEF AskInv, InTurn, Followed, Due, Remembered, Queued, Known, Fitting
  <2>10. ASSUME order' = "kept"
         PROVE  Screen'
    BY <2>1, <2>2, <2>10
    DEF AskInv, Screen, InTurn, Queued, Known, Fitting
  <2> QED
    BY <2>3, <2>4, <2>5, <2>6, <2>7, <2>8, <2>9, <2>10 DEF AskInv
<1>12. ASSUME NEW c \in Requests, Q!PopNextTrip(c)
      PROVE  AskInv'
  <2>1. /\ askWork[c].at = "pop" /\ c \in Q!AtWork
        /\ UNCHANGED <<called, waiting, answered, processing, jobs, timers, kicks,
                       taken, shown, order, orphans>>
    BY <1>i, <1>12
    DEF Q!PopNextTrip, Q!Marks, Q!Busy, Q!AtWork, Q!tripVars, Q!redisVars,
        Q!historyVars
  <2>2. /\ askWork' \in Works /\ \A d \in Requests \ {c} : askWork'[d] = askWork[d]
        /\ \/ /\ queue = {} /\ queue' = queue
              /\ \/ /\ askWork[c].why \in {"decline", "cancel"} /\ Q!AtWork' = Q!AtWork
                    /\ askWork'[c].at = "return" /\ askWork'[c].why = askWork[c].why
                    /\ askWork'[c].trip = askWork[c].trip /\ askWork'[c].next = Nothing
                 \/ askWork[c].why = "next" /\ Q!AtWork' = Q!AtWork \ {c}
           \/ \E t \in queue :
                    /\ queue' = queue \ {t} /\ Q!AtWork' = Q!AtWork
                    /\ askWork'[c].at = "mark" /\ askWork'[c].why = askWork[c].why
                    /\ askWork'[c].trip = askWork[c].trip /\ askWork'[c].next = t
    <3>1. CASE queue = {}
      BY <1>12, <1>s, <2>1, <3>1 DEF Q!PopNextTrip
    <3>2. CASE queue # {}
      <4>1. PICK t \in queue :
               /\ queue' = queue \ {t}
               /\ askWork' = [askWork EXCEPT ![c].at = "mark", ![c].next = t]
        BY <1>12, <3>2 DEF Q!PopNextTrip
      <4> DEFINE v == [askWork[c] EXCEPT !.at = "mark"]
                 w == [v EXCEPT !.next = t]
      <4>2. /\ v \in Work /\ v.at = "mark" /\ v.why = askWork[c].why
            /\ v.trip = askWork[c].trip
        BY <1>w, <2>1 DEF Q!Steps, Q!Serving
      <4>3. askWork' = [askWork EXCEPT ![c] = w]
        BY <2>1, <4>1
      <4>4. t \in Things
        BY <1>0
      <4> HIDE DEF v
      <4>5. /\ w \in Work /\ w.at = "mark" /\ w.why = askWork[c].why
            /\ w.trip = askWork[c].trip /\ w.next = t
        BY <4>2, <4>4
      <4>6. Q!AtWork \cup {c} = Q!AtWork
        BY <2>1
      <4> HIDE DEF w, Work
      <4> QED
        BY <1>a, <2>1, <4>1, <4>3, <4>5, <4>6
    <3> QED
      BY <3>1, <3>2
  <2>3. Q!TypeOK'
    BY <2>1, <2>2 DEF AskInv, Q!TypeOK
  <2>4. Known'
    BY <1>w, <2>1, <2>2 DEF AskInv, Known
  <2>5. Fitting'
    BY <1>w, <2>1, <2>2 DEF AskInv, Fitting, Queued
  <2>6. Queued'
    BY <1>w, <2>1, <2>2 DEF AskInv, Queued
  <2>7. Remembered'
    BY <1>0, <1>w, <2>1, <2>2 DEF AskInv, Remembered, Fitting
  <2>8. ASSUME order' # "lost"
        PROVE  InTurn'
    BY <1>0, <2>1, <2>2, <2>8 DEF AskInv, InTurn, Queued
  <2>9. ASSUME order' # "lost"
        PROVE  Followed'
    BY <2>1, <2>2, <2>9
    DEF AskInv, InTurn, Followed, Due, Remembered, Queued, Known, Fitting
  <2>10. ASSUME order' = "kept"
         PROVE  Screen'
    BY <2>1, <2>2, <2>10
    DEF AskInv, Screen, InTurn, Queued, Known, Fitting
  <2> QED
    BY <2>3, <2>4, <2>5, <2>6, <2>7, <2>8, <2>9, <2>10 DEF AskInv
<1>13. ASSUME NEW c \in Requests, Q!SetProcessing(c)
      PROVE  AskInv'
  <2>1. /\ askWork[c].at = "mark" /\ c \in Q!AtWork
        /\ processing' = askWork[c].next
        /\ UNCHANGED <<called, waiting, answered, queue, jobs, timers, kicks, taken,
                       shown, order, orphans>>
    BY <1>i, <1>13
    DEF Q!SetProcessing, Q!Marks, Q!Busy, Q!AtWork, Q!tripVars, Q!redisVars,
        Q!historyVars
  <2>2. /\ askWork' \in Works /\ \A d \in Requests \ {c} : askWork'[d] = askWork[d]
        /\ Q!AtWork' = Q!AtWork /\ askWork'[c].at = "job" /\ askWork'[c].why = askWork[c].why
        /\ askWork'[c].trip = askWork[c].trip /\ askWork'[c].next = askWork[c].next
    BY <1>13, <1>g, <1>u, <2>1
    DEF Q!SetProcessing, Q!Steps, Q!Serving, Q!Reasons, Q!Marks, Q!Busy
  <2>3. Q!TypeOK'
    BY <2>1, <2>2 DEF AskInv, Q!TypeOK
  <2>4. Known'
    BY <1>w, <2>1, <2>2 DEF AskInv, Known
  <2>5. Fitting'
    BY <1>w, <2>1, <2>2 DEF AskInv, Fitting
  <2>6. Queued'
    BY <1>w, <2>1, <2>2 DEF AskInv, Queued
  <2>7. Remembered'
    BY <1>w, <2>1, <2>2 DEF AskInv, Remembered
  <2>8. ASSUME order' # "lost"
        PROVE  InTurn'
    BY <2>1, <2>2, <2>8 DEF AskInv, InTurn
  <2>9. ASSUME order' # "lost"
        PROVE  Followed'
    BY <2>1, <2>2, <2>9
    DEF AskInv, InTurn, Followed, Due, Remembered, Queued, Known, Fitting
  <2>10. ASSUME order' = "kept"
         PROVE  Screen'
    BY <1>0, <2>1, <2>2, <2>10
    DEF AskInv, Screen, InTurn, Queued, Known, Fitting
  <2> QED
    BY <2>3, <2>4, <2>5, <2>6, <2>7, <2>8, <2>9, <2>10 DEF AskInv
<1>14. ASSUME NEW c \in Requests, Q!AddRequestJob(c)
      PROVE  AskInv'
  <2>1. /\ askWork[c].at = "job" /\ c \in Q!AtWork
        /\ jobs' = jobs \cup {askWork[c].next}
        /\ UNCHANGED <<called, waiting, answered, queue, processing, timers, kicks,
                       taken, shown, order, orphans>>
    BY <1>i, <1>14
    DEF Q!AddRequestJob, Q!Marks, Q!Busy, Q!AtWork, Q!tripVars, Q!redisVars,
        Q!historyVars
  <2>2. /\ askWork' \in Works /\ \A d \in Requests \ {c} : askWork'[d] = askWork[d]
        /\ Q!AtWork' = Q!AtWork /\ askWork'[c].at = "timer" /\ askWork'[c].why = askWork[c].why
        /\ askWork'[c].trip = askWork[c].trip /\ askWork'[c].next = askWork[c].next
    BY <1>14, <1>g, <1>u, <2>1
    DEF Q!AddRequestJob, Q!Steps, Q!Serving, Q!Reasons, Q!Marks, Q!Busy
  <2>3. Q!TypeOK'
    BY <2>1, <2>2 DEF AskInv, Q!TypeOK, Fitting
  <2>4. Known'
    BY <1>w, <2>1, <2>2 DEF AskInv, Known, Fitting
  <2>5. Fitting'
    BY <1>w, <2>1, <2>2 DEF AskInv, Fitting
  <2>6. Queued'
    BY <1>w, <2>1, <2>2 DEF AskInv, Queued
  <2>7. Remembered'
    BY <1>w, <2>1, <2>2 DEF AskInv, Remembered
  <2>8. ASSUME order' # "lost"
        PROVE  InTurn'
    BY <2>1, <2>2, <2>8 DEF AskInv, InTurn
  <2>9. ASSUME order' # "lost"
        PROVE  Followed'
    BY <2>1, <2>2, <2>9
    DEF AskInv, InTurn, Followed, Due, Remembered, Queued, Known, Fitting
  <2>10. ASSUME order' = "kept"
         PROVE  Screen'
    BY <2>1, <2>2, <2>10
    DEF AskInv, Screen, InTurn, Queued, Known, Fitting
  <2> QED
    BY <2>3, <2>4, <2>5, <2>6, <2>7, <2>8, <2>9, <2>10 DEF AskInv
<1>15. ASSUME NEW c \in Requests, Q!AddTimeoutJob(c)
      PROVE  AskInv'
  <2>1. /\ askWork[c].at = "timer" /\ c \in Q!AtWork
        /\ timers' = timers \cup {askWork[c].next}
        /\ UNCHANGED <<called, waiting, answered, queue, processing, jobs, kicks,
                       taken, shown, order, orphans>>
    BY <1>i, <1>15
    DEF Q!AddTimeoutJob, Q!Marks, Q!Busy, Q!AtWork, Q!tripVars, Q!redisVars,
        Q!historyVars
  <2>2. /\ askWork' \in Works /\ \A d \in Requests \ {c} : askWork'[d] = askWork[d]
        /\ \/ /\ askWork[c].why \in {"decline", "cancel"} /\ Q!AtWork' = Q!AtWork
              /\ askWork'[c].at = "return" /\ askWork'[c].why = askWork[c].why
              /\ askWork'[c].trip = askWork[c].trip /\ askWork'[c].next = Nothing
           \/ askWork[c].why = "next" /\ Q!AtWork' = Q!AtWork \ {c}
    BY <1>15, <1>s, <1>u, <2>1
    DEF Q!AddTimeoutJob, Q!Steps, Q!Serving, Q!Reasons, Q!Marks, Q!Busy
  <2>3. Q!TypeOK'
    BY <1>w, <2>1, <2>2 DEF AskInv, Q!TypeOK, Fitting
  <2>4. Known'
    BY <1>w, <2>1, <2>2 DEF AskInv, Known, Fitting
  <2>5. Fitting'
    BY <1>w, <2>1, <2>2 DEF AskInv, Fitting
  <2>6. Queued'
    BY <1>0, <1>w, <2>1, <2>2 DEF AskInv, Queued
  <2>7. Remembered'
    BY <1>w, <2>1, <2>2 DEF AskInv, Remembered
  <2>8. ASSUME order' # "lost"
        PROVE  InTurn'
    BY <1>0, <2>1, <2>2, <2>8 DEF AskInv, InTurn, Fitting
  <2>9. ASSUME order' # "lost"
        PROVE  Followed'
    BY <2>1, <2>2, <2>9
    DEF AskInv, InTurn, Followed, Due, Remembered, Queued, Known, Fitting
  <2>10. ASSUME order' = "kept"
         PROVE  Screen'
    BY <2>1, <2>2, <2>10
    DEF AskInv, Screen, InTurn, Queued, Known, Fitting
  <2> QED
    BY <2>3, <2>4, <2>5, <2>6, <2>7, <2>8, <2>9, <2>10 DEF AskInv
<1>16. ASSUME NEW c \in Requests, Q!Return(c)
      PROVE  AskInv'
  <2>1. /\ askWork[c].at = "return" /\ c \in Q!AtWork
        /\ Q!AtWork' = Q!AtWork \ {c}
        /\ \/ /\ askWork[c].why = "decline" /\ UNCHANGED <<waiting, shown>>
              /\ answered' = answered \cup ({askWork[c].trip} \cap waiting)
           \/ /\ askWork[c].why # "decline" /\ answered' = answered \ {askWork[c].trip}
              /\ waiting' = waiting \ {askWork[c].trip} /\ shown' = shown \ {askWork[c].trip}
        /\ UNCHANGED <<called, queue, processing, jobs, timers, kicks, taken, order,
                       orphans>>
    BY <1>i, <1>16, <1>d
    DEF Q!Return, Q!Marks, Q!Busy, Q!AtWork, Q!tripVars, Q!redisVars,
        Q!historyVars
  <2>2. /\ askWork' \in Works /\ \A d \in Requests \ {c} : askWork'[d] = askWork[d]
    BY <1>16, <1>d, <1>u, <2>1
    DEF Q!Return, Q!Steps, Q!Serving, Q!Reasons, Q!Marks, Q!Busy
  <2>3. Q!TypeOK'
    BY <2>1, <2>2 DEF AskInv, Q!TypeOK
  <2>4. Known'
    BY <1>w, <2>1, <2>2 DEF AskInv, Known
  <2>5. Fitting'
    BY <1>w, <2>1, <2>2 DEF AskInv, Fitting
  <2>6. Queued'
    BY <1>w, <2>1, <2>2 DEF AskInv, Queued
  <2>7. Remembered'
    BY <1>0, <1>w, <2>1, <2>2 DEF AskInv, Remembered, Fitting
  <2>8. ASSUME order' # "lost"
        PROVE  InTurn'
    BY <2>1, <2>2, <2>8 DEF AskInv, InTurn
  <2>9. ASSUME order' # "lost"
        PROVE  Followed'
    BY <2>1, <2>2, <2>9
    DEF AskInv, InTurn, Followed, Due, Remembered, Queued, Known, Fitting
  <2>10. ASSUME order' = "kept"
         PROVE  Screen'
    BY <2>1, <2>2, <2>10
    DEF AskInv, Screen, InTurn, Queued, Known, Fitting
  <2> QED
    BY <2>3, <2>4, <2>5, <2>6, <2>7, <2>8, <2>9, <2>10 DEF AskInv
<1>17. ASSUME NEW t \in Things, Q!AcceptTrip(t)
      PROVE  AskInv'
  <2>1. /\ t \in shown /\ t \in waiting /\ waiting' = waiting \ {t} /\ shown' = shown \ {t}
        /\ answered' = (answered \cup (queue \cap waiting)) \ {t}
        /\ queue' = {} /\ processing' = Nothing
        /\ jobs' = jobs \ {t} /\ timers' = timers \ {t}
        /\ UNCHANGED <<called, kicks, taken, order, orphans>>
    BY <1>17 DEF Q!AcceptTrip, Q!historyVars
  <2>2. askWork' = askWork /\ askWork' \in Works /\ Q!AtWork' = Q!AtWork
    BY <1>u, <1>17 DEF Q!AcceptTrip
  <2>3. Q!TypeOK'
    BY <2>1, <2>2 DEF AskInv, Q!TypeOK
  <2>4. Known'
    BY <2>1, <2>2 DEF AskInv, Known
  <2>5. Fitting'
    BY <2>1, <2>2 DEF AskInv, Fitting
  <2>6. Queued'
    BY <2>1, <2>2 DEF AskInv, Queued
  <2>7. Remembered'
    BY <2>1, <2>2 DEF AskInv, Remembered
  <2>8. ASSUME order' # "lost"
        PROVE  InTurn'
    BY <2>1, <2>2, <2>8 DEF AskInv, InTurn, Queued, Fitting
  <2>9. ASSUME order' # "lost"
        PROVE  Followed'
    BY <2>1, <2>2, <2>9
    DEF AskInv, InTurn, Followed, Due, Remembered, Queued, Known, Fitting
  <2>10. ASSUME order' = "kept"
         PROVE  Screen'
    BY <2>1, <2>2, <2>10
    DEF AskInv, Screen, InTurn, Queued, Known, Fitting
  <2> QED
    BY <2>3, <2>4, <2>5, <2>6, <2>7, <2>8, <2>9, <2>10 DEF AskInv
<1>18. ASSUME Q!KeyExpires
      PROVE  AskInv'
  <2>1. /\ processing' = Nothing /\ order' = "lost"
        /\ UNCHANGED <<called, waiting, answered, queue, jobs, timers, kicks, taken,
                       shown, orphans>>
    BY <1>18 DEF Q!KeyExpires, Q!tripVars
  <2>2. askWork' = askWork /\ askWork' \in Works /\ Q!AtWork' = Q!AtWork
    BY <1>u, <1>18 DEF Q!KeyExpires
  <2>3. Q!TypeOK'
    BY <2>1, <2>2 DEF AskInv, Q!TypeOK
  <2>4. Known'
    BY <2>1, <2>2 DEF AskInv, Known
  <2>5. Fitting'
    BY <2>1, <2>2 DEF AskInv, Fitting
  <2>6. Queued'
    BY <2>1, <2>2 DEF AskInv, Queued
  <2>7. Remembered'
    BY <2>1, <2>2 DEF AskInv, Remembered
  <2> QED
    BY <2>1, <2>3, <2>4, <2>5, <2>6, <2>7 DEF AskInv
<1>19. ASSUME NEW c \in Requests, Q!Fail(c)
      PROVE  AskInv'
  <2> DEFINE Held(t) == \/ askWork[c].next = t
                        \/ askWork[c].why = "cancel" /\ askWork[c].trip = t
  <2>1. /\ c \in Q!AtWork /\ order' = "lost"
        /\ UNCHANGED <<called, waiting, answered, queue, jobs, timers, kicks, taken, shown>>
    BY <1>19 DEF Q!Fail, Q!AtWork, Q!tripVars
  <2>2. /\ askWork' \in Works /\ \A d \in Requests \ {c} : askWork'[d] = askWork[d]
        /\ processing' \in {processing, Nothing}
        /\ \/ Q!AtWork' = Q!AtWork \ {c} /\ askWork'[c] = Q!Idle
           \/ /\ askWork[c].why \in {"decline", "cancel"} /\ Q!AtWork' = Q!AtWork
              /\ askWork'[c].at = "return" /\ askWork'[c].why = askWork[c].why
              /\ askWork'[c].trip = askWork[c].trip /\ askWork'[c].next = Nothing
    <3>1. CASE askWork[c].at \in Q!Serving
      <4>1. Q!Served(c) /\ processing' = Nothing
        BY <1>19, <3>1 DEF Q!Fail
      <4>2. c \notin Q!AtWork' => askWork'[c] = Q!Idle
        BY DEF Q!AtWork
      <4> QED
        BY <1>s, <2>1, <4>1, <4>2
    <3>2. CASE /\ askWork[c].at \notin Q!Serving
               /\ askWork[c].why = "cancel" /\ askWork[c].at # "return"
      <4>1. Q!Goes(c, "return") /\ processing' = processing /\ "return" \in Q!Steps
        BY <1>19, <3>2 DEF Q!Fail, Q!Steps
      <4>2. askWork[c].next = Nothing
        BY <1>w, <2>1, <3>2 DEF AskInv, Fitting, Q!Steps
      <4> QED
        BY <1>g, <2>1, <3>2, <4>1, <4>2
    <3>3. CASE /\ askWork[c].at \notin Q!Serving
               /\ ~(askWork[c].why = "cancel" /\ askWork[c].at # "return")
      <4>1. askWork' = [askWork EXCEPT ![c] = Q!Idle] /\ processing' = processing
        BY <1>19, <3>3 DEF Q!Fail
      <4> QED
        BY <1>d, <4>1
    <3> QED
      BY <3>1, <3>2, <3>3
  <2>3. /\ orphans \subseteq orphans' /\ orphans' \subseteq Things
        /\ \A t \in Things : Held(t) =>
              t \in orphans' \/ (askWork'[c] # Q!Idle /\ t = askWork[c].trip)
    <3>1. orphans' = orphans \cup ((Q!Handled({c}) \ {Nothing}) \
                        IF askWork'[c] = Q!Idle THEN {} ELSE {askWork[c].trip})
      BY <1>19 DEF Q!Fail
    <3>2. /\ \A t \in Things : Held(t) => t \in Q!Handled({c})
          /\ Q!Handled({c}) \subseteq Things \cup {Nothing}
      BY <1>w, <2>1 DEF Q!Handled
    <3> QED
      BY <1>0, <3>1, <3>2
  <2>4. Q!TypeOK'
    BY <2>1, <2>2, <2>3 DEF AskInv, Q!TypeOK
  <2>5. Known'
    <3>1. \A d \in Q!AtWork' : /\ askWork'[d].trip \in called' \cup {Nothing}
                               /\ askWork'[d].next \in called' \cup {Nothing}
      BY <1>w, <2>1, <2>2 DEF AskInv, Known
    <3> QED
      BY <2>1, <3>1 DEF AskInv, Known
  <2>6. Fitting'
    BY <1>w, <2>1, <2>2 DEF AskInv, Fitting
  <2>7. Queued'
    BY <1>0, <1>w, <2>1, <2>2 DEF AskInv, Queued
  <2>8. Remembered'
    <3>1. Q!AtWork' = Q!AtWork \ {c} => askWork'[c] = Q!Idle
      BY <2>1, <2>2
    <3>2. \A t \in Things : Held(t) =>
             t \in orphans' \/ (c \in Q!AtWork' /\ askWork[c].why = "cancel" /\ t = askWork[c].trip)
      BY <2>1, <2>2, <2>3 DEF AskInv, Fitting
    <3> QED
      BY <1>0, <1>w, <2>1, <2>2, <2>3, <3>2 DEF AskInv, Remembered
  <2> QED
    BY <2>1, <2>4, <2>5, <2>6, <2>7, <2>8 DEF AskInv
<1>20. ASSUME Q!Crash
      PROVE  AskInv'
  <2>1. /\ kicks' = {} /\ taken' = {} /\ order' = "lost"
        /\ UNCHANGED <<called, waiting, answered, queue, processing, jobs, timers, shown>>
    BY <1>20 DEF Q!Crash, Q!tripVars, Q!redisVars
  <2>2. askWork' \in Works /\ Q!AtWork' = {}
    <3>1. askWork' = [c \in Requests |-> Q!Idle]
      BY <1>20 DEF Q!Crash
    <3> QED
      BY <3>1 DEF Q!AtWork
  <2>3. /\ orphans' \subseteq Things /\ orphans \subseteq orphans'
        /\ \A t \in Things, c \in Q!AtWork :
              askWork[c].next = t \/ (askWork[c].why = "cancel" /\ askWork[c].trip = t)
                 => t \in orphans'
    <3>1. orphans' = orphans \cup (Q!Handled(Q!AtWork) \ {Nothing})
      BY <1>20 DEF Q!Crash
    <3>2. /\ Q!Handled(Q!AtWork) \subseteq Things \cup {Nothing}
          /\ \A t \in Things, c \in Q!AtWork :
                askWork[c].next = t \/ (askWork[c].why = "cancel" /\ askWork[c].trip = t)
                   => t \in Q!Handled(Q!AtWork)
      BY <1>w DEF Q!Handled
    <3> QED
      BY <1>0, <3>1, <3>2
  <2>4. Q!TypeOK'
    BY <2>1, <2>2, <2>3 DEF AskInv, Q!TypeOK
  <2>5. Known' /\ Fitting' /\ Queued'
    BY <2>1, <2>2 DEF AskInv, Known, Fitting, Queued
  <2>6. Remembered'
    BY <1>0, <2>1, <2>2, <2>3 DEF AskInv, Remembered
  <2> QED
    BY <2>1, <2>4, <2>5, <2>6 DEF AskInv
<1> QED
  BY <1>1, <1>2, <1>3, <1>4, <1>5, <1>6, <1>7, <1>8, <1>9, <1>10, <1>11, <1>12,
     <1>13, <1>14, <1>15, <1>16, <1>17, <1>18, <1>19, <1>20
  DEF Q!Next

\* TripQueueService and DriverTripQueueService: see NobodyIsForgotten of Asking.
THEOREM NobodyIsForgottenAlways ==
    Spec => []NobodyIsForgotten
<1>1. Init => AskInv
  BY AskingBegins
<1>2. AskInv /\ [Next]_vars => AskInv'
  BY AskingStep, AskingStays DEF Next, vars
<1>3. AskInv => NobodyIsForgotten
  <2> SUFFICES ASSUME AskInv
               PROVE  NobodyIsForgotten
    OBVIOUS
  <2>1. ASSUME NEW t \in waiting \ (answered \cup orphans)
        PROVE  t \in queue \cup timers \cup Q!Handled(Q!AtWork)
    BY DEF AskInv, Remembered, Q!Handled
  <2>2. ASSUME queue # {}, order # "lost", ~Q!Busy
        PROVE  kicks \cup jobs \cup timers \cup taken # {}
    BY <2>2 DEF AskInv, Followed, Due, Q!Busy
  <2> QED
    BY <2>1, <2>2 DEF NobodyIsForgotten, Q!NobodyIsForgotten
<1> QED
  BY <1>1, <1>2, <1>3, PTL DEF Spec

\* processNextDriverRequest: see OneAtATime of Asking.
THEOREM OneAtATimeAlways ==
    Spec => []OneAtATime
<1>1. Init => AskInv
  BY AskingBegins
<1>2. AskInv /\ [Next]_vars => AskInv'
  BY AskingStep, AskingStays DEF Next, vars
<1>3. AskInv => OneAtATime
  <2> SUFFICES ASSUME AskInv, order = "kept"
               PROVE  Q!Cardinality(shown \cap waiting) <= 1
    BY DEF OneAtATime, Q!OneAtATime
  <2> DEFINE seen == shown \cap waiting
  <2>1. \A t, u \in seen : t = u
    BY DEF AskInv, Screen
  <2>2. seen = {} \/ \E t : seen = {t}
    BY <2>1
  <2>3. Cardinality(seen) <= 1
    <3>1. CASE seen = {}
      BY <3>1, FS_EmptySet
    <3>2. ASSUME NEW t, seen = {t}
          PROVE  Cardinality(seen) = 1
      BY <3>2, FS_Singleton
    <3> QED
      BY <2>2, <3>1, <3>2
  <2> QED
    BY <2>3 DEF Q!Cardinality, Cardinality
<1> QED
  BY <1>1, <1>2, <1>3, PTL DEF Spec
=============================================================================
