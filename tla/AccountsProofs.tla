--------------------------- MODULE AccountsProofs ---------------------------
(***************************************************************************)
(* The components of MCAccounts, for any number of cards, keys, codes,     *)
(* users and requests: types, and the safety invariant of each.  A         *)
(* component's section gives the inductive invariant that strengthens its  *)
(* property, proves that the component's initial state has it, that a step *)
(* of another component keeps it and that each of its own steps does, and  *)
(* ends in the theorem about the specification.                            *)
(***************************************************************************)
EXTENDS AskingProofs, SequenceTheorems

-----------------------------------------------------------------------------
(* Files.                                                                  *)

\* A key nobody has made up yet is neither recorded nor in a request's hands.
Taken ==
    /\ fresh \subseteq Keys /\ record \notin fresh
    /\ \A r \in Requests : fileWork[r].new \notin fresh /\ fileWork[r].old \notin fresh

\* A new key is in the hands of one request and not recorded yet; the old key a
\* request is to delete is recorded no more, and is nobody's new key.
OneTaker ==
    \A r \in Requests :
        /\ fileWork[r].new # Nothing =>
              /\ fileWork[r].new # record
              /\ \A q \in Requests : fileWork[q].new = fileWork[r].new => q = r
        /\ fileWork[r].old # Nothing =>
              /\ fileWork[r].old # record
              /\ \A q \in Requests : fileWork[r].old # fileWork[q].new

\* A request about to record a key has stored its file, unless the user has
\* replaced that key since.
FileInv ==
    /\ F!TypeOK /\ Taken /\ OneTaker /\ dropping \subseteq replaced
    /\ \A r \in Requests :
          /\ fileWork[r].at \in {"store", "record"} => fileWork[r].new # Nothing
          /\ fileWork[r].at = "record" => fileWork[r].new \in stored \cup replaced
    /\ RecordedIsStored

\* The state without files has it.
LEMMA FilesBegin == ASSUME Init PROVE FileInv
BY AccountsAssumption
DEF Init, F!Init, FileInv, F!TypeOK, F!Kinds, F!Idle, Taken, OneTaker,
    RecordedIsStored, F!RecordedIsStored

\* A step of another component changes nothing of it.
LEMMA FilesStay == ASSUME FileInv, UNCHANGED fileVars PROVE FileInv'
BY DEF fileVars, FileInv, F!TypeOK, Taken, OneTaker, RecordedIsStored,
       F!RecordedIsStored

\* A request that takes a fresh key, to store a file or to delete one, keeps it.
LEMMA FileTakes ==
    ASSUME FileInv, NEW r \in Requests, NEW k \in fresh, NEW a \in {"store", "unrecord"},
           UNCHANGED <<kind, record, stored>>, fresh' = fresh \ {k}, F!Starts(r, a, k, Nothing),
           dropping' \subseteq replaced', replaced \subseteq replaced', replaced' \subseteq Keys
    PROVE  FileInv'
<1>1. k \in Keys /\ k # Nothing /\ k # record
  BY AccountsAssumption DEF FileInv, Taken
<1>2. fileWork' = [fileWork EXCEPT ![r] = [at |-> a, new |-> k, old |-> Nothing]]
  BY DEF F!Starts
<1>3. fileWork \in [Requests -> F!Works \cup {F!Idle}]
  BY DEF FileInv, F!TypeOK
<1>4. \A q \in Requests : fileWork'[q] = IF q = r THEN [at |-> a, new |-> k, old |-> Nothing] ELSE fileWork[q]
  BY <1>2, <1>3
<1>5. F!TypeOK'
  <2>1. [at |-> a, new |-> k, old |-> Nothing] \in F!Works
    BY <1>1 DEF F!Works, F!Steps
  <2> QED
    BY <1>2, <2>1 DEF FileInv, F!TypeOK
<1>6. Taken'
  BY AccountsAssumption, <1>4 DEF FileInv, Taken
<1>7. OneTaker'
  BY <1>4 DEF FileInv, OneTaker, Taken
<1>8. \A q \in Requests :
          /\ fileWork'[q].at \in {"store", "record"} => fileWork'[q].new # Nothing
          /\ fileWork'[q].at = "record" => fileWork'[q].new \in stored' \cup replaced'
  BY <1>1, <1>4 DEF FileInv
<1>9. RecordedIsStored'
  BY DEF FileInv, RecordedIsStored, F!RecordedIsStored
<1> QED
  BY <1>5, <1>6, <1>7, <1>8, <1>9 DEF FileInv

\* Every step of an upload, of a replacement or of a deletion keeps it.
LEMMA FilesStep ==
    ASSUME FileInv, F!Next
    PROVE  FileInv'
<1> USE DEF F!vars
<1>0. /\ fileWork \in [Requests -> F!Works \cup {F!Idle}]
      /\ record \in Keys \cup {Nothing} /\ stored \subseteq Keys \ fresh
      /\ replaced \subseteq Keys /\ dropping \subseteq replaced /\ fresh \subseteq Keys
      /\ Nothing \notin Keys /\ kind \in F!Kinds
  BY AccountsAssumption DEF FileInv, F!TypeOK, Taken
<1>1. ASSUME NEW r \in Requests, NEW k \in Keys,
             \/ F!UploadDocument(r, k)
             \/ F!UploadDriverPhoto(r, k) \/ F!UploadCustomerPhoto(r, k)
             \/ F!CreateTicket(r, k) \/ F!CreateDriverTicket(r, k)
             \/ F!CreateCampaign(r, k) \/ F!UpdateCampaign(r, k)
      PROVE  FileInv'
  <2>1. /\ UNCHANGED <<kind, record, stored>> /\ k \in fresh /\ fresh' = fresh \ {k}
        /\ F!Starts(r, "store", k, Nothing) \/ F!Starts(r, "unrecord", k, Nothing)
        /\ \/ UNCHANGED <<dropping, replaced>>
           \/ /\ record # Nothing /\ dropping' = dropping \cup {record}
              /\ replaced' = replaced \cup {record}
    BY <1>1
    DEF F!UploadDocument, F!UploadDriverPhoto, F!UploadCustomerPhoto,
        F!CreateTicket, F!CreateDriverTicket, F!Attaches, F!StoresNew,
        F!CreateCampaign, F!UpdateCampaign
  <2>2. dropping' \subseteq replaced' /\ replaced \subseteq replaced' /\ replaced' \subseteq Keys
    BY <2>1, <1>0
  <2> QED
    BY <2>1, <2>2, FileTakes
<1>2. ASSUME NEW r \in Requests, F!DeleteDocument(r) \/ F!Unrecord(r) \/ F!Drop(r)
                                 \/ F!Store(r) \/ F!Record(r) \/ F!Fail(r)
      PROVE  FileInv'
  <2>1. UNCHANGED <<kind, fresh, dropping, replaced>>
    BY <1>2 DEF F!DeleteDocument, F!Unrecord, F!Drop, F!Store, F!Record, F!Fail
  <2>2. ASSUME NEW w \in F!Works \cup {F!Idle}, fileWork' = [fileWork EXCEPT ![r] = w]
        PROVE  /\ fileWork' \in [Requests -> F!Works \cup {F!Idle}]
               /\ \A q \in Requests : fileWork'[q] = IF q = r THEN w ELSE fileWork[q]
    BY <2>2, <1>0
  <2> DEFINE Sets(w) == fileWork' = [fileWork EXCEPT ![r] = w]
  <2>3. CASE F!DeleteDocument(r)
    <3> DEFINE w == [at |-> "unrecord", new |-> Nothing, old |-> Nothing]
    <3>1. Sets(w) /\ UNCHANGED <<record, stored>>
      BY <2>3 DEF F!DeleteDocument, F!Starts
    <3>2. w \in F!Works
      BY DEF F!Works, F!Steps
    <3> QED
      BY <1>0, <2>1, <2>2, <3>1, <3>2
      DEF FileInv, F!TypeOK, Taken, OneTaker, RecordedIsStored, F!RecordedIsStored
  <2>4. CASE F!Unrecord(r)
    <3> DEFINE dropped == [at |-> "drop", new |-> fileWork[r].new, old |-> record]
    <3>1. record' = Nothing /\ UNCHANGED stored /\ fileWork[r] \in F!Works
      BY <1>0, <2>4 DEF F!Unrecord, F!Idle
    <3>2. CASE record = Nothing
      <4>1. \/ Sets(F!Idle)
            \/ fileWork[r].new # Nothing /\ Sets([fileWork[r] EXCEPT !.at = "store"])
        BY <2>4, <3>2 DEF F!Unrecord, F!GoesOn, F!Ends, F!Goes
      <4> QED
        BY <1>0, <2>1, <2>2, <3>1, <4>1
        DEF FileInv, F!TypeOK, Taken, OneTaker, RecordedIsStored, F!RecordedIsStored,
            F!Works, F!Steps, F!Idle
    <3>3. CASE record # Nothing
      <4>1. fileWork' = [fileWork EXCEPT ![r].at = "drop", ![r].old = record]
        BY <2>4, <3>3 DEF F!Unrecord
      <4>2. fileWork'[r] = dropped
        BY <1>0, <3>1, <4>1 DEF F!Works
      <4>3. Sets(dropped)
        BY <4>1, <4>2
      <4>4. dropped \in F!Works
        BY <1>0, <3>1 DEF F!Works, F!Steps
      <4> QED
        BY <1>0, <2>1, <2>2, <3>1, <3>3, <4>3, <4>4
        DEF FileInv, F!TypeOK, Taken, OneTaker, RecordedIsStored, F!RecordedIsStored
    <3> QED
      BY <3>2, <3>3
  <2>5. CASE F!Drop(r)
    <3>1. /\ stored' = stored \ {fileWork[r].old} /\ UNCHANGED record
          /\ fileWork[r] \in F!Works
          /\ \/ Sets(F!Idle)
             \/ fileWork[r].new # Nothing /\ Sets([fileWork[r] EXCEPT !.at = "store"])
      BY <1>0, <2>5 DEF F!Drop, F!GoesOn, F!Ends, F!Goes, F!Idle
    <3> QED
      BY <1>0, <2>1, <2>2, <3>1
      DEF FileInv, F!TypeOK, Taken, OneTaker, RecordedIsStored, F!RecordedIsStored,
          F!Works, F!Steps, F!Idle
  <2>6. CASE F!Store(r)
    <3>1. /\ stored' = stored \cup {fileWork[r].new} /\ UNCHANGED record
          /\ fileWork[r] \in F!Works /\ fileWork[r].at = "store"
          /\ Sets([fileWork[r] EXCEPT !.at = "record"])
      BY <1>0, <2>6 DEF F!Store, F!Goes, F!Idle
    <3> QED
      BY <2>1, <2>2, <3>1
      DEF FileInv, F!TypeOK, Taken, OneTaker, RecordedIsStored, F!RecordedIsStored,
          F!Works, F!Steps, F!Idle
  <2>7. CASE F!Record(r)
    <3>1. /\ record' = fileWork[r].new /\ UNCHANGED stored
          /\ fileWork[r] \in F!Works /\ fileWork[r].at = "record"
          /\ Sets(F!Idle)
      BY <1>0, <2>7 DEF F!Record, F!Ends, F!Idle
    <3> QED
      BY <1>0, <2>1, <2>2, <3>1
      DEF FileInv, F!TypeOK, Taken, OneTaker, RecordedIsStored, F!RecordedIsStored,
          F!Works, F!Steps, F!Idle
  <2>8. CASE F!Fail(r)
    <3>1. UNCHANGED <<record, stored>> /\ Sets(F!Idle)
      BY <2>8 DEF F!Fail, F!Ends
    <3> QED
      BY <1>0, <2>1, <2>2, <3>1
      DEF FileInv, F!TypeOK, Taken, OneTaker, RecordedIsStored, F!RecordedIsStored, F!Idle
  <2> QED
    BY <1>2, <2>3, <2>4, <2>5, <2>6, <2>7, <2>8
<1>3. ASSUME F!DeleteDriverPhoto \/ F!DeleteCustomerPhoto \/ F!DeleteCampaign
      PROVE  FileInv'
  <2>1. record' = Nothing /\ UNCHANGED <<kind, stored, fresh, fileWork, dropping, replaced>>
    BY <1>3
    DEF F!DeleteDriverPhoto, F!DeleteCustomerPhoto, F!DeleteCampaign, F!Forgets
  <2> QED
    BY <1>0, <2>1
    DEF FileInv, F!TypeOK, Taken, OneTaker, RecordedIsStored, F!RecordedIsStored
<1>4. ASSUME NEW k \in Keys, F!DropImage(k)
      PROVE  FileInv'
  <2>1. /\ k \in replaced /\ dropping' = dropping \ {k} /\ stored \ {k} \subseteq stored'
        /\ stored' \subseteq stored
        /\ UNCHANGED <<kind, record, fresh, fileWork, replaced>>
    BY <1>0, <1>4 DEF F!DropImage
  <2> QED
    BY <1>0, <2>1
    DEF FileInv, F!TypeOK, Taken, OneTaker, RecordedIsStored, F!RecordedIsStored
<1> QED
  BY <1>1, <1>2, <1>3, <1>4 DEF F!Next

\* The uploads and deletions of DriversService and CustomersService: whatever
\* overlaps or fails, the file that is recorded is stored, unless it has been
\* replaced or its deletion has failed half-way.
THEOREM RecordedIsStoredAlways ==
    Spec => []RecordedIsStored
<1>1. Init => FileInv
  BY FilesBegin
<1>2. FileInv /\ [Next]_vars => FileInv'
  BY FilesStep, FilesStay DEF Next, vars
<1>3. FileInv => RecordedIsStored
  BY DEF FileInv
<1> QED
  BY <1>1, <1>2, <1>3, PTL DEF Spec

-----------------------------------------------------------------------------
(* Weekly earnings.                                                        *)

\* An addition is in one week once it has returned, and in none before.
InOneWeek ==
    /\ \A i \in DOMAIN weeks : weeks[i].trips \subseteq done
    /\ \A x \in done : \E i \in DOMAIN weeks : x \in weeks[i].trips
    /\ \A i, j \in DOMAIN weeks : i # j => weeks[i].trips \cap weeks[j].trips = {}
    /\ DOMAIN adding \cap done = {}

\* What a closed week has, or is about to get, it had or expected when closed.
ClosedIsKept ==
    \A i \in DOMAIN weeks \ E!Actives :
        /\ weeks[i].trips \subseteq weeks[i].closedWith \cup weeks[i].expected
        /\ \A x \in DOMAIN adding : adding[x] = i => x \in weeks[i].expected

\* Unless two creations raced since Monday: only one is about to create a week, and
\* only while none is active; one is active at most.
OneCreation ==
    /\ \A x, y \in DOMAIN adding : adding[x] = 0 /\ adding[y] = 0 => x = y
    /\ E!Creating => E!Actives = {} /\ job = "idle"
    /\ job = "closed" => E!Actives = {}
    /\ \A i, j \in E!Actives : i = j

\* The last holds until two creations race, and again from a Monday on.
WeekInv == E!TypeOK /\ InOneWeek /\ ClosedIsKept /\ (~weeksRaced => OneCreation)

\* The state without weeks has it.
LEMMA WeeksBegin == ASSUME Init PROVE WeekInv
<1>1. /\ weeks = <<>> /\ DOMAIN adding = {} /\ done = {} /\ brokenOff = {} /\ job = "idle"
      /\ mondays = 0 /\ weeksRaced = FALSE
  BY DEF Init, E!Init
<1>2. weeks \in Seq(E!Week) /\ DOMAIN weeks = {}
  BY <1>1
<1>3. 0 \in 0 .. MaxMondays
  BY AccountsAssumption
<1>4. E!TypeOK
  BY <1>1, <1>2, <1>3 DEF E!TypeOK
<1> QED
  BY <1>1, <1>2, <1>4 DEF WeekInv, InOneWeek, ClosedIsKept, OneCreation, E!Actives, E!Creating

\* A step of another component changes nothing of it.
LEMMA WeeksStay == ASSUME WeekInv, UNCHANGED weekVars PROVE WeekInv'
BY DEF weekVars, WeekInv, E!TypeOK, InOneWeek, ClosedIsKept, OneCreation, E!Actives, E!Creating

\* Every call of an addition and of the Monday job keeps it.
LEMMA WeeksStep ==
    ASSUME WeekInv, E!Next
    PROVE  WeekInv'
<1>0. /\ weeks \in Seq(E!Week) /\ DOMAIN weeks = 1 .. Len(weeks) /\ Len(weeks) \in Nat
      /\ DOMAIN adding \subseteq Keys /\ done \subseteq Keys /\ brokenOff \subseteq Keys
      /\ \A x \in DOMAIN adding : adding[x] \in 0 .. Len(weeks)
      /\ job \in {"idle", "closed"} /\ mondays \in 0 .. MaxMondays
      /\ weeksRaced \in BOOLEAN
      /\ \A i \in DOMAIN weeks : weeks[i] \in E!Week
  BY DEF WeekInv, E!TypeOK
<1>1. ASSUME NEW x \in Keys, E!FindWeek(x)
      PROVE  WeekInv'
  <2>1. PICK v \in 0 .. Len(weeks) :
           /\ adding' = E!With(adding, x, v)
           /\ \/ v \in E!Actives /\ weeksRaced' = weeksRaced
              \/ /\ v = 0 /\ E!Actives = {}
                 /\ weeksRaced' = (weeksRaced \/ E!Creating \/ job = "closed")
    BY <1>0, <1>1 DEF E!FindWeek, E!Actives
  <2>2. x \notin DOMAIN adding \cup done /\ UNCHANGED <<weeks, done, brokenOff, job, mondays>>
    BY <1>1 DEF E!FindWeek
  <2>a. /\ weeksRaced' \in BOOLEAN
        /\ ~weeksRaced' => ~weeksRaced
        /\ ~weeksRaced' /\ v = 0 => E!Actives = {} /\ ~E!Creating /\ job = "idle"
    <3>1. v = 0 => v \notin E!Actives
      BY <1>0 DEF E!Actives
    <3> QED
      BY <1>0, <2>1, <3>1, Zenon
  <2>3. /\ DOMAIN adding' = DOMAIN adding \cup {x} /\ adding'[x] = v
        /\ \A y \in DOMAIN adding : adding'[y] = adding[y]
    BY <2>1, <2>2 DEF E!With
  <2>4. E!TypeOK'
    BY <1>0, <2>2, <2>3, <2>a DEF E!TypeOK
  <2>5. InOneWeek'
    BY <2>2, <2>3 DEF WeekInv, InOneWeek
  <2>6. ClosedIsKept'
    BY <1>0, <2>1, <2>2, <2>3 DEF WeekInv, ClosedIsKept, E!Actives
  <2>7. ASSUME ~weeksRaced'
        PROVE  OneCreation'
    <3>1. OneCreation
      BY <2>7, <2>a DEF WeekInv
    <3>2. CASE v = 0
      BY <2>2, <2>3, <2>7, <2>a, <3>1, <3>2 DEF OneCreation, E!Actives, E!Creating
    <3>3. CASE v # 0
      <4>1. v \in E!Actives
        BY <2>1, <3>3
      <4>2. ~E!Creating'
        BY <2>2, <2>3, <3>1, <3>3, <4>1 DEF OneCreation, E!Creating
      <4> QED
        BY <2>2, <2>3, <3>1, <3>3, <4>2 DEF OneCreation, E!Actives, E!Creating
    <3> QED
      BY <3>2, <3>3
  <2> QED
    BY <2>4, <2>5, <2>6, <2>7 DEF WeekInv
<1>2. ASSUME NEW x \in Keys, E!CreateWeek(x)
      PROVE  WeekInv'
  <2>1. /\ x \in DOMAIN adding /\ adding[x] = 0
        /\ weeks' = Append(weeks, E!NewWeek)
        /\ adding' = E!With(adding, x, Len(weeks) + 1)
        /\ UNCHANGED <<done, brokenOff, job, mondays, weeksRaced>>
    BY <1>2 DEF E!CreateWeek
  <2>2. E!NewWeek \in E!Week
    BY DEF E!NewWeek, E!Week
  <2>3. /\ weeks' \in Seq(E!Week) /\ Len(weeks') = Len(weeks) + 1
        /\ DOMAIN weeks' = 1 .. Len(weeks) + 1
        /\ weeks'[Len(weeks) + 1] = E!NewWeek
        /\ \A i \in 1 .. Len(weeks) : weeks'[i] = weeks[i]
    BY <1>0, <2>1, <2>2
  <2>4. /\ DOMAIN adding' = DOMAIN adding /\ adding'[x] = Len(weeks) + 1
        /\ \A y \in DOMAIN adding \ {x} : adding'[y] = adding[y]
    BY <2>1 DEF E!With
  <2>5. E!TypeOK'
    BY <1>0, <2>1, <2>3, <2>4 DEF E!TypeOK
  <2>6. InOneWeek'
    BY <1>0, <2>1, <2>3, <2>4 DEF WeekInv, InOneWeek, E!NewWeek
  <2>7. E!Actives' = E!Actives \cup {Len(weeks) + 1}
    BY <1>0, <2>3 DEF E!Actives, E!NewWeek
  <2>8. ClosedIsKept'
    BY <1>0, <2>3, <2>4, <2>7 DEF WeekInv, ClosedIsKept, E!Actives
  <2>9. ASSUME ~weeksRaced
        PROVE  OneCreation'
    <3>1. E!Actives = {} /\ job = "idle" /\ \A y \in DOMAIN adding \ {x} : adding[y] # 0
      BY <2>1, <2>9 DEF WeekInv, OneCreation, E!Creating
    <3>2. ~E!Creating'
      BY <1>0, <2>4, <3>1 DEF E!Creating
    <3> QED
      BY <2>1, <2>7, <3>1, <3>2 DEF OneCreation, E!Creating
  <2> QED
    BY <2>1, <2>5, <2>6, <2>8, <2>9 DEF WeekInv
<1>3. ASSUME NEW x \in Keys, E!AddToWeek(x)
      PROVE  WeekInv'
  <2> DEFINE n == adding[x]
  <2>1. /\ x \in DOMAIN adding /\ n \in DOMAIN weeks
        /\ weeks' = [weeks EXCEPT ![n].trips = @ \cup {x}]
        /\ adding' = E!Without(adding, x) /\ done' = done \cup {x}
        /\ UNCHANGED <<brokenOff, job, mondays, weeksRaced>>
    BY <1>0, <1>3 DEF E!AddToWeek
  <2>2. /\ DOMAIN weeks' = DOMAIN weeks
        /\ weeks'[n] = [weeks[n] EXCEPT !.trips = weeks[n].trips \cup {x}]
        /\ \A i \in DOMAIN weeks \ {n} : weeks'[i] = weeks[i]
    BY <1>0, <2>1
  <2>3. /\ weeks'[n] \in E!Week /\ weeks'[n].trips = weeks[n].trips \cup {x}
        /\ weeks'[n].status = weeks[n].status /\ weeks'[n].closedWith = weeks[n].closedWith
        /\ weeks'[n].expected = weeks[n].expected
    <3>1. weeks[n] \in E!Week /\ weeks[n].trips \cup {x} \subseteq Keys
      BY <1>0, <2>1 DEF E!Week
    <3> QED
      BY <2>2, <3>1 DEF E!Week
  <2>4. weeks' \in Seq(E!Week) /\ Len(weeks') = Len(weeks)
    BY <1>0, <2>1, <2>2, <2>3
  <2>5. /\ DOMAIN adding' = DOMAIN adding \ {x}
        /\ \A y \in DOMAIN adding \ {x} : adding'[y] = adding[y]
    BY <2>1 DEF E!Without
  <2>6. E!TypeOK'
    BY <1>0, <2>1, <2>4, <2>5 DEF E!TypeOK
  <2>7. x \notin done /\ \A i \in DOMAIN weeks : x \notin weeks[i].trips
    BY <2>1 DEF WeekInv, InOneWeek
  <2>8. InOneWeek'
    BY <2>1, <2>2, <2>3, <2>5, <2>7 DEF WeekInv, InOneWeek
  <2>9. E!Actives' = E!Actives
    BY <2>2, <2>3 DEF E!Actives
  <2>10. ClosedIsKept'
    BY <2>1, <2>2, <2>3, <2>5, <2>9 DEF WeekInv, ClosedIsKept
  <2>11. ASSUME ~weeksRaced
         PROVE  OneCreation'
    BY <2>1, <2>5, <2>9, <2>11 DEF WeekInv, OneCreation, E!Creating
  <2> QED
    BY <2>1, <2>6, <2>8, <2>10, <2>11 DEF WeekInv
<1>4. ASSUME NEW x \in Keys, E!FailAdding(x)
      PROVE  WeekInv'
  <2>1. /\ x \in DOMAIN adding /\ adding' = E!Without(adding, x)
        /\ brokenOff' = brokenOff \cup {x} /\ UNCHANGED <<weeks, done, job, mondays, weeksRaced>>
    BY <1>4 DEF E!FailAdding
  <2>2. /\ DOMAIN adding' = DOMAIN adding \ {x}
        /\ \A y \in DOMAIN adding \ {x} : adding'[y] = adding[y]
    BY <2>1 DEF E!Without
  <2>3. E!TypeOK' /\ InOneWeek'
    BY <1>0, <2>1, <2>2 DEF WeekInv, E!TypeOK, InOneWeek
  <2>4. ClosedIsKept'
    BY <2>1, <2>2 DEF WeekInv, ClosedIsKept, E!Actives
  <2>5. ASSUME ~weeksRaced
        PROVE  OneCreation'
    BY <2>1, <2>2, <2>5 DEF WeekInv, OneCreation, E!Actives, E!Creating
  <2> QED
    BY <2>1, <2>3, <2>4, <2>5 DEF WeekInv
<1>5. ASSUME E!CloseWeeks
      PROVE  WeekInv'
  <2>1. /\ weeks' = [i \in DOMAIN weeks |-> IF i \in E!Actives THEN E!Closed(i) ELSE weeks[i]]
        /\ job = "idle" /\ job' = "closed" /\ UNCHANGED <<adding, done, brokenOff>>
        /\ weeksRaced' = E!Creating
    BY <1>5 DEF E!CloseWeeks
  <2>a. weeksRaced' \in BOOLEAN
    BY <2>1, Zenon DEF E!Creating
  <2>b. mondays' \in 0 .. MaxMondays
    <3>1. mondays \in 0 .. MaxMondays /\ mondays < MaxMondays /\ mondays' = mondays + 1
      BY <1>0, <1>5 DEF E!CloseWeeks
    <3> QED
      BY AccountsAssumption, <3>1
  <2>2. ASSUME NEW i \in DOMAIN weeks
        PROVE  /\ E!Closed(i) \in E!Week /\ E!Closed(i).trips = weeks[i].trips
               /\ E!Closed(i).closedWith = weeks[i].trips /\ E!Closed(i).status = "COMPLETED"
               /\ E!Closed(i).expected = E!Finders(i)
    <3>1. E!Finders(i) \subseteq Keys /\ weeks[i].trips \subseteq Keys
      BY <1>0 DEF E!Finders, E!Week
    <3> QED
      BY <3>1 DEF E!Closed, E!Week
  <2>3. DOMAIN weeks' = DOMAIN weeks /\ \A i \in DOMAIN weeks :
           weeks'[i] = IF i \in E!Actives THEN E!Closed(i) ELSE weeks[i]
    BY <2>1
  <2>4. /\ \A i \in DOMAIN weeks : weeks'[i] \in E!Week /\ weeks'[i].trips = weeks[i].trips
        /\ \A i \in E!Actives : /\ weeks'[i].closedWith = weeks[i].trips
                                /\ weeks'[i].expected = E!Finders(i)
        /\ \A i \in DOMAIN weeks \ E!Actives : weeks'[i] = weeks[i]
        /\ \A i \in DOMAIN weeks : weeks'[i].status # "ACTIVE"
    BY <1>0, <2>2, <2>3 DEF E!Actives
  <2>5. weeks' \in Seq(E!Week) /\ Len(weeks') = Len(weeks)
    <3>1. weeks' \in [1 .. Len(weeks) -> E!Week]
      BY <1>0, <2>1, <2>4
    <3>2. weeks' \in Seq(E!Week)
      BY <3>1, SeqDef
    <3> QED
      BY <3>1, <3>2, LenProperties
  <2>6. E!Actives' = {}
    BY <2>3, <2>4 DEF E!Actives
  <2>7. E!TypeOK'
    BY <1>0, <2>1, <2>5, <2>a, <2>b DEF E!TypeOK
  <2>8. InOneWeek'
    BY <2>1, <2>3, <2>4 DEF WeekInv, InOneWeek
  <2>9. ClosedIsKept'
    BY <2>1, <2>3, <2>4, <2>6 DEF WeekInv, ClosedIsKept, E!Actives, E!Finders
  <2>10. ASSUME ~weeksRaced'
         PROVE  OneCreation'
    BY <2>1, <2>6, <2>10 DEF OneCreation, E!Creating
  <2> QED
    BY <2>7, <2>8, <2>9, <2>10 DEF WeekInv
<1>6. ASSUME E!OpenWeek
      PROVE  WeekInv'
  <2>1. /\ job = "closed" /\ job' = "idle"
        /\ UNCHANGED <<adding, done, brokenOff, mondays, weeksRaced>>
        /\ weeks' = weeks \/ weeks' = Append(weeks, E!NewWeek)
    BY <1>6 DEF E!OpenWeek
  <2>2. CASE weeks' = weeks
    BY <2>1, <2>2 DEF WeekInv, E!TypeOK, InOneWeek, ClosedIsKept, OneCreation, E!Actives, E!Creating
  <2>3. CASE weeks' = Append(weeks, E!NewWeek)
    <3>1. E!NewWeek \in E!Week
      BY DEF E!NewWeek, E!Week
    <3>2. /\ weeks' \in Seq(E!Week) /\ Len(weeks') = Len(weeks) + 1
          /\ DOMAIN weeks' = 1 .. Len(weeks) + 1
          /\ weeks'[Len(weeks) + 1] = E!NewWeek
          /\ \A i \in 1 .. Len(weeks) : weeks'[i] = weeks[i]
      BY <1>0, <2>3, <3>1
    <3>3. E!TypeOK'
      BY <1>0, <2>1, <3>2 DEF E!TypeOK
    <3>4. InOneWeek'
      BY <1>0, <2>1, <3>2 DEF WeekInv, InOneWeek, E!NewWeek
    <3>5. E!Actives' = E!Actives \cup {Len(weeks) + 1}
      BY <1>0, <3>2 DEF E!Actives, E!NewWeek
    <3>6. ClosedIsKept'
      BY <1>0, <2>1, <3>2, <3>5 DEF WeekInv, ClosedIsKept, E!Actives
    <3>7. ASSUME ~weeksRaced
          PROVE  OneCreation'
      <4>1. E!Actives = {} /\ ~E!Creating
        BY <2>1, <3>7 DEF WeekInv, OneCreation
      <4> QED
        BY <2>1, <3>5, <4>1 DEF OneCreation, E!Creating
    <3> QED
      BY <2>1, <3>3, <3>4, <3>6, <3>7 DEF WeekInv
  <2> QED
    BY <2>1, <2>2, <2>3
<1> QED
  BY <1>1, <1>2, <1>3, <1>4, <1>5, <1>6 DEF E!Next

\* DriverEarningsService: see WeeksAreSound of Earnings.
THEOREM WeeksAreSoundAlways ==
    Spec => []WeeksAreSound
<1>1. Init => WeekInv
  BY WeeksBegin
<1>2. WeekInv /\ [Next]_vars => WeekInv'
  BY WeeksStep, WeeksStay DEF Next, vars
<1>3. WeekInv => WeeksAreSound
  <2> SUFFICES ASSUME WeekInv
               PROVE  WeeksAreSound
    OBVIOUS
  <2>1. /\ \A i, j \in DOMAIN weeks : i # j => weeks[i].trips \cap weeks[j].trips = {}
        /\ done = UNION {weeks[i].trips : i \in DOMAIN weeks}
        /\ \A i \in DOMAIN weeks \ E!Actives :
              weeks[i].trips \ weeks[i].closedWith \subseteq weeks[i].expected
    BY DEF WeekInv, InOneWeek, ClosedIsKept
  <2>2. ASSUME ~weeksRaced
        PROVE  Cardinality(E!Actives) <= 1
    <3>1. CASE E!Actives = {}
      BY <3>1, FS_EmptySet
    <3>2. ASSUME NEW i \in E!Actives
          PROVE  Cardinality(E!Actives) <= 1
      <4>1. E!Actives = {i}
        BY <2>2, <3>2 DEF WeekInv, OneCreation
      <4> QED
        BY <4>1, FS_Singleton
    <3> QED
      BY <3>1, <3>2
  <2>3. E!Cardinality(E!Actives) = Cardinality(E!Actives)
    BY DEF E!Cardinality, Cardinality
  <2>4. weeksRaced \/ E!Cardinality(E!Actives) <= 1
    BY <2>2, <2>3
  <2> QED
    BY <2>1, <2>4, Zenon DEF WeeksAreSound, E!WeeksAreSound
<1> QED
  BY <1>1, <1>2, <1>3, PTL DEF Spec

-----------------------------------------------------------------------------
(* Ratings.                                                                *)

\* The requests under way, one at a time and under the lock.
Speaking == {q \in Requests : rateWork[q] # R!Idle}

\* As long as the lock has not run out under one, none has failed and no rating
\* was written around it: one request is under way at a time, and an average
\* knows the trip's rating, or a request is about to tell it.
RatingsOrderly ==
    /\ \A q \in Speaking : locked
    /\ \A p, q \in Speaking : p = q
    /\ \A q \in Speaking :
          rateWork[q].at = "tell" => rating[rateWork[q].side] = rateWork[q].value
    /\ \A s \in R!Sides :
          \/ rated[s] = rating[s]
          \/ \E q \in Speaking : rateWork[q].at = "tell" /\ rateWork[q].side = s

\* The latter holds until something has gone wrong.
RateInv == R!TypeOK /\ (~ratesDisturbed => RatingsOrderly)

\* The trip without ratings has it.
LEMMA RatesBegin == ASSUME Init PROVE RateInv
<1>1. rating = [s \in R!Sides |-> Nothing] /\ rated = rating
  BY DEF Init, R!Init
<1>2. \A q \in Requests : rateWork[q] = R!Idle
  BY DEF Init, R!Init
<1>3. R!TypeOK
  BY DEF Init, R!Init, R!TypeOK, R!Said
<1> QED
  BY <1>1, <1>2, <1>3 DEF RateInv, RatingsOrderly, Speaking

\* A step of another component changes nothing of it.
LEMMA RatesStay == ASSUME RateInv, UNCHANGED rateVars PROVE RateInv'
BY DEF rateVars, RateInv, R!TypeOK, RatingsOrderly, Speaking

\* Every step of rateTrip, rateDriverTrip and the comments keeps it.
LEMMA RatesStep ==
    ASSUME RateInv, R!Next
    PROVE  RateInv'
<1> DEFINE Type == R!Works \cup {R!Idle}
<1>0. /\ rateWork \in [Requests -> Type]
      /\ rating \in [R!Sides -> R!Said] /\ rated \in [R!Sides -> R!Said]
      /\ commented \subseteq R!Sides
      /\ completed \in BOOLEAN /\ locked \in BOOLEAN /\ ratesDisturbed \in BOOLEAN
  BY DEF RateInv, R!TypeOK
<1> DEFINE Sets(r, w) == rateWork' = [rateWork EXCEPT ![r] = w]
<1>a. ASSUME NEW r \in Requests, NEW w \in Type, Sets(r, w)
      PROVE  /\ rateWork' \in [Requests -> Type]
             /\ \A q \in Requests : rateWork'[q] = IF q = r THEN w ELSE rateWork[q]
  BY <1>0, <1>a
<1>b. \A w \in R!Works : w # R!Idle /\ w.side \in R!Sides /\ w.value \in Things
  BY DEF R!Works, R!Idle
<1>c. \A q \in Requests : rateWork[q].at \in {"find", "write", "tell"} => rateWork[q] \in R!Works
  BY <1>0 DEF R!Idle
<1>1. ASSUME NEW r \in Requests, NEW v \in Things,
             \/ R!RateTrip(r, v) \/ R!RateDriverTrip(r, v)
             \/ R!AddCustomerComment(r, v) \/ R!AddDriverComment(r, v)
      PROVE  RateInv'
  <2>1. PICK w \in R!Works : /\ w.at = "find" /\ Sets(r, w) /\ ~locked /\ locked'
                             /\ UNCHANGED <<completed, rating, commented, rated, ratesDisturbed>>
    <3>1. ASSUME NEW s \in R!Sides, NEW m \in {"rating", "comment"}, R!Starts(r, s, m, v)
          PROVE  \E w \in R!Works : /\ w.at = "find" /\ Sets(r, w) /\ ~locked /\ locked'
                             /\ UNCHANGED <<completed, rating, commented, rated, ratesDisturbed>>
      <4> DEFINE w == [at |-> "find", side |-> s, what |-> m, value |-> v]
      <4>1. w \in R!Works /\ w.at = "find"
        BY DEF R!Works
      <4> QED
        BY <3>1, <4>1 DEF R!Starts
    <3> QED
      BY <1>1, <3>1
      DEF R!RateTrip, R!RateDriverTrip, R!AddCustomerComment,
          R!AddDriverComment, R!Sides
  <2>2. R!TypeOK'
    BY <1>0, <1>a, <2>1 DEF R!TypeOK
  <2>3. ~ratesDisturbed => RatingsOrderly'
    BY <1>a, <1>c, <2>1 DEF RateInv, RatingsOrderly, Speaking
  <2> QED
    BY <2>1, <2>2, <2>3 DEF RateInv
<1>2. ASSUME NEW r \in Requests, R!FindTrip(r)
      PROVE  RateInv'
  <2>1. /\ UNCHANGED <<completed, rating, commented, rated, ratesDisturbed>>
        /\ rateWork[r] \in R!Works /\ rateWork[r].at = "find"
        /\ \/ Sets(r, [rateWork[r] EXCEPT !.at = "write"]) /\ UNCHANGED locked
           \/ Sets(r, R!Idle) /\ locked' = FALSE
    BY <1>2, <1>c DEF R!FindTrip, R!Goes, R!Ends
  <2>2. [rateWork[r] EXCEPT !.at = "write"] \in R!Works /\ [rateWork[r] EXCEPT !.at = "write"].at = "write"
    BY <2>1 DEF R!Works
  <2>3. R!TypeOK'
    BY <1>0, <1>a, <2>1, <2>2 DEF R!TypeOK
  <2>4. ASSUME ~ratesDisturbed
        PROVE  RatingsOrderly'
    <3>1. (\A q \in Speaking : q = r) /\ locked
      BY <2>1, <1>b, <2>4 DEF RateInv, RatingsOrderly, Speaking
    <3>2. \A s \in R!Sides : rated[s] = rating[s]
      BY <2>1, <2>4, <3>1 DEF RateInv, RatingsOrderly
    <3>3. CASE Sets(r, R!Idle)
      <4>1. Speaking' = {}
        BY <1>a, <3>1, <3>3 DEF Speaking
      <4> QED
        BY <2>1, <3>2, <4>1 DEF RatingsOrderly
    <3>4. CASE Sets(r, [rateWork[r] EXCEPT !.at = "write"]) /\ UNCHANGED locked
      <4>1. rateWork'[r].at = "write" /\ Speaking' \subseteq {r}
        BY <1>a, <2>1, <2>2, <3>1, <3>4 DEF Speaking
      <4> QED
        BY <2>1, <3>1, <3>2, <3>4, <4>1 DEF RatingsOrderly
    <3> QED
      BY <2>1, <3>3, <3>4
  <2> QED
    BY <2>1, <2>3, <2>4 DEF RateInv
<1>3. ASSUME NEW r \in Requests, R!WriteComment(r)
      PROVE  RateInv'
  <2>1. /\ UNCHANGED <<completed, rating, rated, ratesDisturbed>>
        /\ rateWork[r] \in R!Works /\ rateWork[r].at = "write"
        /\ commented' = commented \cup {rateWork[r].side}
        /\ Sets(r, R!Idle) /\ locked' = FALSE
    BY <1>3, <1>c DEF R!WriteComment, R!Ends
  <2>3. R!TypeOK'
    BY <1>0, <1>a, <1>b, <2>1 DEF R!TypeOK
  <2>4. ~ratesDisturbed => RatingsOrderly'
    BY <1>0, <1>a, <1>b, <1>c, <2>1 DEF RateInv, RatingsOrderly, Speaking
  <2> QED
    BY <2>1, <2>3, <2>4 DEF RateInv
<1>4. ASSUME NEW r \in Requests, R!WriteRating(r)
      PROVE  RateInv'
  <2> DEFINE w == [rateWork[r] EXCEPT !.at = "tell"]
  <2>1. /\ UNCHANGED <<completed, rated, commented, locked, ratesDisturbed>>
        /\ rateWork[r] \in R!Works /\ rateWork[r].at = "write"
        /\ rating' = [rating EXCEPT ![rateWork[r].side] = rateWork[r].value]
        /\ Sets(r, w)
    BY <1>4, <1>c DEF R!WriteRating, R!Goes
  <2>2. w \in R!Works /\ w.at = "tell" /\ w.side = rateWork[r].side /\ w.value = rateWork[r].value
    BY <2>1 DEF R!Works
  <2>3. R!TypeOK'
    BY <1>0, <1>a, <1>b, <2>1, <2>2 DEF R!TypeOK, R!Said
  <2>4. ~ratesDisturbed => RatingsOrderly'
    BY <1>0, <1>a, <1>b, <1>c, <2>1, <2>2 DEF RateInv, RatingsOrderly, Speaking
  <2> QED
    BY <2>1, <2>3, <2>4 DEF RateInv
<1>5. ASSUME NEW r \in Requests, R!Tell(r)
      PROVE  RateInv'
  <2>1. /\ UNCHANGED <<completed, rating, commented, ratesDisturbed>>
        /\ rateWork[r] \in R!Works /\ rateWork[r].at = "tell"
        /\ rated' = [rated EXCEPT ![rateWork[r].side] = rateWork[r].value]
        /\ Sets(r, R!Idle) /\ locked' = FALSE
    BY <1>5, <1>c DEF R!Tell, R!Ends
  <2>3. R!TypeOK'
    BY <1>0, <1>a, <1>b, <2>1 DEF R!TypeOK, R!Said
  <2>4. ~ratesDisturbed => RatingsOrderly'
    BY <1>0, <1>a, <1>b, <1>c, <2>1 DEF RateInv, RatingsOrderly, Speaking
  <2> QED
    BY <2>1, <2>3, <2>4 DEF RateInv
<1>6. ASSUME NEW r \in Requests, R!Fail(r)
      PROVE  RateInv'
  <2>1. /\ ratesDisturbed' = TRUE /\ UNCHANGED completed /\ rateWork[r] \in R!Works
        /\ Sets(r, R!Idle) /\ locked' = FALSE
        /\ rating' \in {rating, [rating EXCEPT ![rateWork[r].side] = rateWork[r].value]}
        /\ rated' \in {rated, [rated EXCEPT ![rateWork[r].side] = rateWork[r].value]}
        /\ commented' \in {commented, commented \cup {rateWork[r].side}}
    BY <1>0, <1>6 DEF R!Fail, R!Ends
  <2>2. rateWork[r].side \in R!Sides /\ rateWork[r].value \in R!Said
    BY <1>b, <2>1 DEF R!Said
  <2>3. rating' \in [R!Sides -> R!Said] /\ rated' \in [R!Sides -> R!Said]
    BY <1>0, <2>1, <2>2
  <2>4. commented' \subseteq R!Sides
    BY <1>0, <2>1, <2>2
  <2> QED
    BY <1>a, <2>1, <2>3, <2>4 DEF RateInv, R!TypeOK
<1>7. ASSUME NEW s \in R!Sides, NEW v \in Things, R!RateDirectly(s, v)
      PROVE  RateInv'
  BY <1>7 DEF RateInv, R!TypeOK, R!RateDirectly, R!Said
<1>8. ASSUME R!TripChanges
      PROVE  RateInv'
  BY <1>8 DEF RateInv, R!TypeOK, R!TripChanges, RatingsOrderly, Speaking
<1>9. ASSUME R!LockExpires
      PROVE  RateInv'
  <2>1. /\ UNCHANGED <<completed, rating, commented, rated, rateWork>> /\ locked' = FALSE
        /\ ~ratesDisturbed' => ~ratesDisturbed /\ Speaking = {}
        /\ ratesDisturbed' \in BOOLEAN
    BY <1>9 DEF R!LockExpires, Speaking
  <2> QED
    BY <2>1 DEF RateInv, R!TypeOK, RatingsOrderly, Speaking
<1> QED
  BY <1>1, <1>2, <1>3, <1>4, <1>5, <1>6, <1>7, <1>8, <1>9 DEF R!Next

\* TripService.rateTrip and rateDriverTrip: see ToldIsRated of Ratings.
THEOREM ToldIsRatedAlways ==
    Spec => []ToldIsRated
<1>1. Init => RateInv
  BY RatesBegin
<1>2. RateInv /\ [Next]_vars => RateInv'
  BY RatesStep, RatesStay DEF Next, vars
<1>3. RateInv => ToldIsRated
  <2> SUFFICES ASSUME RateInv, ~ratesDisturbed, \A q \in Requests : rateWork[q] = R!Idle
               PROVE  rated = rating
    BY DEF ToldIsRated, R!ToldIsRated
  <2>1. \A s \in R!Sides : rated[s] = rating[s]
    BY DEF RateInv, RatingsOrderly, Speaking
  <2>2. rated \in [R!Sides -> R!Said] /\ rating \in [R!Sides -> R!Said]
    BY DEF RateInv, R!TypeOK
  <2> QED
    BY <2>1, <2>2
<1> QED
  BY <1>1, <1>2, <1>3, PTL DEF Spec

-----------------------------------------------------------------------------
(* The cancellation of a trip.                                             *)

\* The requests being served.
Underway == {q \in Requests : cancelWork[q] # X!Idle}

\* Whoever is charged, or about to be, is late: holds whatever overlaps or fails.
OwedIsLate ==
    /\ charges > 0 \/ status = "CANCELLED_PAYMENT" => late
    /\ \A q \in Requests : cancelWork[q].at \in {"owe", "charge"} => late

\* So does this: a driver's key is removed before his customer's fee is written
\* or charged; a trip that is CANCELLED and still in its driver's key, unless a call
\* failed, is his own cancellation, about to remove it.
Released ==
    /\ status = "CANCELLED_PAYMENT" => key # "this"
    /\ \A q \in Requests :
          cancelWork[q].at \in {"free", "owe", "charge", "end"} => key # "this"
    /\ status = "CANCELLED" /\ key = "this" /\ ~failed =>
          \E q \in Requests : X!At(q, {"driver"}, "unkey")

\* One penalty at most, and none before it was late.
Penalised == penalties = 0 \/ (penalties = 1 /\ late)

\* Nobody has been charged, the customer has not been let through late and the
\* driver is on no other ride.
Untouched == charges = 0 /\ ~byCustomer /\ ~other

\* Neither has the driver a penalty.
Unpunished == Untouched /\ penalties = 0

\* A driver on another ride has that ride's key.
Kept == other => key = "other" /\ avail = "ON_TRIP"

\* What holds of a trip between two requests that did not overlap.
Settled ==
    /\ Kept
    /\ status \in {"APPROVED", "TRIP_IN_PROGRESS"} => Unpunished /\ avail = "ON_TRIP"
    /\ status = "CANCELLED_PAYMENT" => charges = 0 /\ byCustomer /\ penalties = 0
    /\ status = "CANCELLED" /\ byCustomer => charges = 1 /\ penalties = 0
    /\ status = "CANCELLED" /\ ~byCustomer => charges = 0 /\ Penalised

\* What holds of it while a request of kind kind0 is at step at0.
InHand(kind0, at0) ==
    \/ at0 = "read" /\ Settled
    \/ /\ kind0 = "driver" /\ at0 = "penalise" /\ late
       /\ status = "APPROVED" /\ Unpunished /\ avail = "ON_TRIP"
    \/ /\ kind0 = "driver" /\ at0 = "write"
       /\ status = "APPROVED" /\ Untouched /\ Penalised /\ avail = "ON_TRIP"
    \/ /\ kind0 = "driver" /\ at0 \in {"unkey", "free"}
       /\ status = "CANCELLED" /\ Untouched /\ Penalised /\ avail = "ON_TRIP"
    \/ /\ kind0 = "customer" /\ at0 \in {"unkey", "free"}
       /\ status = "APPROVED" /\ Unpunished
    \/ /\ kind0 = "customer" /\ at0 = "owe"
       /\ status = "APPROVED" /\ byCustomer /\ ~other /\ charges = 0 /\ penalties = 0
    \/ /\ kind0 \in {"customer", "retry"} /\ at0 = "charge"
       /\ status = "CANCELLED_PAYMENT" /\ Settled
    \/ /\ kind0 \in {"customer", "retry"} /\ at0 = "end"
       /\ status = "CANCELLED_PAYMENT" /\ Kept /\ byCustomer
       /\ charges = 1 /\ penalties = 0
    \/ /\ kind0 = "customer" /\ at0 = "end"
       /\ status = "APPROVED" /\ Unpunished

\* One request at a time, and at each of its steps what it has done so far.
CancelsOrderly ==
    /\ \A p, q \in Underway : p = q
    /\ \A q \in Underway : InHand(cancelWork[q].kind, cancelWork[q].at)
    /\ Underway = {} => Settled

\* The latter holds until two have overlapped or a call of one has failed.
CancelInv ==
    /\ X!TypeOK /\ OwedIsLate /\ Released
    /\ ~cancelsOverlapped /\ ~failed => CancelsOrderly

\* The accepted trip has it.
LEMMA CancelsBegin == ASSUME Init PROVE CancelInv
<1>1. \A q \in Requests : cancelWork[q] = X!Idle
  BY DEF Init, X!Init
<1>2. \A q \in Requests : cancelWork[q].at = "none" /\ cancelWork[q].kind = "none"
  BY <1>1 DEF X!Idle
<1>3. X!TypeOK
  <2>1. 0 \in 0 .. MaxCharges /\ 0 \in 0 .. 0
    BY AccountsAssumption
  <2>2. cancelWork \in [Requests -> [kind : X!Kinds, at : X!Steps] \cup {X!Idle}]
    BY DEF Init, X!Init
  <2>3. /\ status = "APPROVED" /\ key = "this" /\ avail = "ON_TRIP" /\ lock = {}
        /\ penalties = 0 /\ charges = 0 /\ tries = 0
        /\ late = FALSE /\ other = FALSE /\ cancelsOverlapped = FALSE /\ failed = FALSE
        /\ byCustomer = FALSE
    BY DEF Init, X!Init
  <2> QED
    BY <2>1, <2>2, <2>3 DEF X!TypeOK, X!Statuses
<1>4. OwedIsLate /\ Released
  BY <1>2 DEF Init, X!Init, OwedIsLate, Released
<1>5. CancelsOrderly
  BY <1>1
  DEF Init, X!Init, CancelsOrderly, Underway, Settled, Kept, Unpunished,
      Untouched
<1> QED
  BY <1>3, <1>4, <1>5 DEF CancelInv

\* A step of another component changes nothing of it.
LEMMA CancelsStay == ASSUME CancelInv, UNCHANGED cancelVars PROVE CancelInv'
BY DEF cancelVars, CancelInv, X!TypeOK, OwedIsLate, Released, X!At,
       CancelsOrderly, Underway, InHand, Settled, Kept, Penalised, Unpunished,
       Untouched

\* Every call of the three cancellations, startTrip, the minutes passing, another
\* ride and a failing call keep it.
LEMMA CancelsStep ==
    ASSUME CancelInv, X!Next
    PROVE  CancelInv'
<1> DEFINE Type == [kind : X!Kinds, at : X!Steps] \cup {X!Idle}
<1>0. /\ cancelWork \in [Requests -> Type]
      /\ status \in X!Statuses /\ key \in {"this", "other", "none"}
      /\ avail \in {"ON_TRIP", "AVAILABLE"}
      /\ late \in BOOLEAN /\ other \in BOOLEAN /\ cancelsOverlapped \in BOOLEAN
      /\ failed \in BOOLEAN /\ byCustomer \in BOOLEAN
      /\ penalties \in Nat /\ tries \in 0 .. MaxCharges /\ charges \in 0 .. tries
      /\ lock \subseteq X!Kinds /\ MaxCharges \in Nat
  BY AccountsAssumption DEF CancelInv, X!TypeOK
<1> DEFINE Sets(r, w) == cancelWork' = [cancelWork EXCEPT ![r] = w]
<1>a. ASSUME NEW r \in Requests, NEW w \in Type, Sets(r, w)
      PROVE  /\ cancelWork' \in [Requests -> Type]
             /\ \A q \in Requests : cancelWork'[q] = IF q = r THEN w ELSE cancelWork[q]
  BY <1>0, <1>a
<1>b. ASSUME NEW r \in Requests, NEW ks, NEW s \in X!Steps, X!At(r, ks, s)
      PROVE  cancelWork[r].kind \in ks /\ cancelWork[r].at = s /\ r \in Underway
  BY <1>b DEF X!At, Underway, X!Idle, X!Steps
<1>1. ASSUME NEW r \in Requests, NEW k \in X!Kinds, X!Start(r, k)
      PROVE  CancelInv'
  <2> DEFINE w == [kind |-> k, at |-> "read"]
  <2>1. /\ w \in Type /\ w # X!Idle /\ w.at = "read" /\ w.kind = k
    BY DEF X!Steps, X!Idle
  <2>2. /\ cancelWork[r] = X!Idle /\ Sets(r, w) /\ lock' = lock \cup {k}
        /\ cancelsOverlapped' \in BOOLEAN
        /\ ~cancelsOverlapped' => ~cancelsOverlapped /\ Underway = {}
        /\ UNCHANGED <<status, late, key, avail, other, penalties, charges, tries,
                       failed, byCustomer>>
    BY <1>1 DEF X!Start, X!Busy, X!driverVars, X!moneyVars, Underway
  <2> HIDE DEF w
  <2>3. X!TypeOK'
    BY <1>a, <2>1, <2>2 DEF CancelInv, X!TypeOK
  <2>4. OwedIsLate'
    BY <1>a, <2>1, <2>2 DEF CancelInv, OwedIsLate
  <2>5. Released'
    BY <1>a, <2>1, <2>2 DEF CancelInv, Released, X!At, X!Idle
  <2>6. ASSUME ~cancelsOverlapped', ~failed'
        PROVE  CancelsOrderly'
    <3>0. \A q \in Requests : cancelWork[q] = X!Idle
      BY <2>2, <2>6 DEF Underway
    <3>1. Underway' = {r}
      <4>1. \A q \in Requests : cancelWork'[q] # X!Idle <=> q = r
        BY <1>a, <2>1, <2>2, <3>0
      <4> QED
        BY <4>1 DEF Underway
    <3>2. Settled'
      BY <2>2, <2>6
      DEF CancelInv, CancelsOrderly, Settled, Kept, Penalised, Unpunished,
          Untouched
    <3>3. cancelWork'[r].at = "read"
      BY <1>a, <2>1, <2>2
    <3> QED
      BY <3>1, <3>2, <3>3 DEF CancelsOrderly, InHand
  <2> QED
    BY <2>2, <2>3, <2>4, <2>5, <2>6 DEF CancelInv
<1>g. ASSUME NEW r \in Underway, NEW s \in X!Steps, X!Goes(r, s)
      PROVE  /\ cancelWork' \in [Requests -> Type] /\ lock' = lock /\ Underway' = Underway
             /\ \A q \in Requests \ {r} : cancelWork'[q] = cancelWork[q]
             /\ cancelWork'[r].at = s /\ cancelWork'[r].kind = cancelWork[r].kind
             /\ cancelWork'[r].kind \in X!Kinds
  <2> DEFINE w == [cancelWork[r] EXCEPT !.at = s]
  <2>1. cancelWork[r] \in [kind : X!Kinds, at : X!Steps]
    BY <1>0 DEF Underway
  <2>2. /\ w \in [kind : X!Kinds, at : X!Steps] /\ w.at = s
        /\ w.kind = cancelWork[r].kind /\ w.kind \in X!Kinds
    BY <2>1
  <2>3. w # X!Idle
    BY <2>2 DEF X!Steps, X!Idle
  <2>4. Sets(r, w) /\ lock' = lock
    BY <1>g DEF X!Goes
  <2> HIDE DEF w
  <2>5. /\ cancelWork' \in [Requests -> Type]
        /\ \A q \in Requests : cancelWork'[q] = IF q = r THEN w ELSE cancelWork[q]
    BY <1>a, <2>2, <2>4 DEF Underway
  <2>6. Underway' = Underway
    BY <2>3, <2>5 DEF Underway
  <2> QED
    BY <2>2, <2>4, <2>5, <2>6 DEF Underway
<1>e. ASSUME NEW r \in Underway, X!Ends(r)
      PROVE  /\ cancelWork' \in [Requests -> Type] /\ lock' \subseteq lock
             /\ Underway' = Underway \ {r}
             /\ \A q \in Requests \ {r} : cancelWork'[q] = cancelWork[q]
             /\ cancelWork'[r].at = "none" /\ cancelWork'[r].kind = "none"
  <2>1. Sets(r, X!Idle) /\ lock' \subseteq lock
    BY <1>e DEF X!Ends
  <2>2. /\ cancelWork' \in [Requests -> Type]
        /\ \A q \in Requests : cancelWork'[q] = IF q = r THEN X!Idle ELSE cancelWork[q]
    BY <1>a, <2>1 DEF Underway
  <2> QED
    BY <2>1, <2>2 DEF Underway, X!Idle
<1>o. ASSUME ~cancelsOverlapped, ~failed, NEW r \in Underway
      PROVE  Underway = {r} /\ InHand(cancelWork[r].kind, cancelWork[r].at)
  BY <1>o DEF CancelInv, CancelsOrderly
<1>2. ASSUME NEW r \in Requests, X!ReadByDriver(r)
      PROVE  CancelInv'
  <2>1. /\ cancelWork[r].kind \in {"driver"} /\ cancelWork[r].at = "read" /\ r \in Underway
        /\ UNCHANGED <<status, late, key, avail, other, penalties, charges, tries, cancelsOverlapped, failed, byCustomer>>
    BY <1>b, <1>2
    DEF X!ReadByDriver, X!driverVars, X!moneyVars, X!historyVars, X!Steps
  <2>2. \/ X!Ends(r)
        \/ /\ X!Goes(r, "penalise") /\ late /\ status = "APPROVED"
        \/ /\ X!Goes(r, "write") /\ ~late /\ status = "APPROVED"
    BY <1>2 DEF X!ReadByDriver
  <2>3. /\ cancelWork' \in [Requests -> Type] /\ lock' \subseteq lock
        /\ \A q \in Requests \ {r} : cancelWork'[q] = cancelWork[q]
    BY <1>g, <1>e, <2>1, <2>2 DEF X!Steps
  <2>4. \/ /\ cancelWork'[r].at = "none" /\ cancelWork'[r].kind = "none"
           /\ Underway' = Underway \ {r}
        \/ /\ cancelWork'[r].at = "penalise" /\ cancelWork'[r].kind = cancelWork[r].kind
           /\ Underway' = Underway /\ late /\ status = "APPROVED"
        \/ /\ cancelWork'[r].at = "write" /\ cancelWork'[r].kind = cancelWork[r].kind
           /\ Underway' = Underway /\ ~late /\ status = "APPROVED"
    BY <1>g, <1>e, <2>1, <2>2 DEF X!Steps
  <2>5. X!TypeOK'
    BY AccountsAssumption, <2>1, <2>3 DEF CancelInv, X!TypeOK
  <2>6. OwedIsLate'
    BY <2>1, <2>3, <2>4 DEF CancelInv, OwedIsLate
  <2>7. Released'
    BY <2>1, <2>3, <2>4 DEF CancelInv, Released, X!At
  <2>8. ASSUME ~cancelsOverlapped, ~failed
        PROVE  CancelsOrderly'
    <3>1. Underway = {r} /\ InHand(cancelWork[r].kind, cancelWork[r].at)
      BY <1>o, <2>1, <2>8
    <3> QED
      BY <2>1, <2>4, <3>1
      DEF CancelsOrderly, InHand, Settled, Kept, Penalised, Unpunished, Untouched
  <2> QED
    BY <2>1, <2>5, <2>6, <2>7, <2>8 DEF CancelInv
<1>3. ASSUME NEW r \in Requests, X!Penalise(r)
      PROVE  CancelInv'
  <2>1. /\ cancelWork[r].kind \in {"driver"} /\ cancelWork[r].at = "penalise" /\ r \in Underway
        /\ penalties' = penalties + 1
        /\ UNCHANGED <<status, late, key, avail, other, charges, tries, cancelsOverlapped, failed, byCustomer>>
    BY <1>b, <1>3
    DEF X!Penalise, X!driverVars, X!moneyVars, X!historyVars, X!Steps
  <2>2. X!Goes(r, "write")
    BY <1>3 DEF X!Penalise
  <2>3. /\ cancelWork' \in [Requests -> Type] /\ lock' \subseteq lock
        /\ \A q \in Requests \ {r} : cancelWork'[q] = cancelWork[q]
    BY <1>g, <2>1, <2>2 DEF X!Steps
  <2>4. \/ /\ cancelWork'[r].at = "write" /\ cancelWork'[r].kind = cancelWork[r].kind
           /\ Underway' = Underway
    BY <1>g, <2>1, <2>2 DEF X!Steps
  <2>5. X!TypeOK'
    BY AccountsAssumption, <2>1, <2>3 DEF CancelInv, X!TypeOK
  <2>6. OwedIsLate'
    BY <2>1, <2>3, <2>4 DEF CancelInv, OwedIsLate
  <2>7. Released'
    BY <2>1, <2>3, <2>4 DEF CancelInv, Released, X!At
  <2>8. ASSUME ~cancelsOverlapped, ~failed
        PROVE  CancelsOrderly'
    <3>1. Underway = {r} /\ InHand(cancelWork[r].kind, cancelWork[r].at)
      BY <1>o, <2>1, <2>8
    <3> QED
      BY <2>1, <2>4, <3>1
      DEF CancelsOrderly, InHand, Settled, Kept, Penalised, Unpunished, Untouched
  <2> QED
    BY <2>1, <2>5, <2>6, <2>7, <2>8 DEF CancelInv
<1>4. ASSUME NEW r \in Requests, X!WriteCancelled(r)
      PROVE  CancelInv'
  <2>1. /\ cancelWork[r].kind \in {"driver"} /\ cancelWork[r].at = "write" /\ r \in Underway
        /\ status' = "CANCELLED"
        /\ UNCHANGED <<late, key, avail, other, penalties, charges, tries, cancelsOverlapped, failed, byCustomer>>
    BY <1>b, <1>4
    DEF X!WriteCancelled, X!driverVars, X!moneyVars, X!historyVars, X!Steps
  <2>2. X!Goes(r, "unkey")
    BY <1>4 DEF X!WriteCancelled
  <2>3. /\ cancelWork' \in [Requests -> Type] /\ lock' \subseteq lock
        /\ \A q \in Requests \ {r} : cancelWork'[q] = cancelWork[q]
    BY <1>g, <2>1, <2>2 DEF X!Steps
  <2>4. \/ /\ cancelWork'[r].at = "unkey" /\ cancelWork'[r].kind = cancelWork[r].kind
           /\ Underway' = Underway
    BY <1>g, <2>1, <2>2 DEF X!Steps
  <2>5. X!TypeOK'
    BY AccountsAssumption, <2>1, <2>3 DEF CancelInv, X!TypeOK, X!Statuses
  <2>6. OwedIsLate'
    BY <2>1, <2>3, <2>4 DEF CancelInv, OwedIsLate
  <2>7. Released'
    BY <2>1, <2>3, <2>4 DEF CancelInv, Released, X!At
  <2>8. ASSUME ~cancelsOverlapped, ~failed
        PROVE  CancelsOrderly'
    <3>1. Underway = {r} /\ InHand(cancelWork[r].kind, cancelWork[r].at)
      BY <1>o, <2>1, <2>8
    <3> QED
      BY <2>1, <2>4, <3>1
      DEF CancelsOrderly, InHand, Settled, Kept, Penalised, Unpunished, Untouched
  <2> QED
    BY <2>1, <2>5, <2>6, <2>7, <2>8 DEF CancelInv
<1>5. ASSUME NEW r \in Requests, X!ReadByCustomer(r)
      PROVE  CancelInv'
  <2>1. /\ cancelWork[r].kind \in {"customer"} /\ cancelWork[r].at = "read" /\ r \in Underway
        /\ UNCHANGED <<status, late, key, avail, other, penalties, charges, tries, cancelsOverlapped, failed, byCustomer>>
    BY <1>b, <1>5
    DEF X!ReadByCustomer, X!driverVars, X!moneyVars, X!historyVars, X!Steps
  <2>2. \/ /\ X!Goes(r, "unkey") /\ status = "APPROVED"
        \/ X!Ends(r)
    BY <1>5 DEF X!ReadByCustomer
  <2>3. /\ cancelWork' \in [Requests -> Type] /\ lock' \subseteq lock
        /\ \A q \in Requests \ {r} : cancelWork'[q] = cancelWork[q]
    BY <1>g, <1>e, <2>1, <2>2 DEF X!Steps
  <2>4. \/ /\ cancelWork'[r].at = "unkey" /\ cancelWork'[r].kind = cancelWork[r].kind
           /\ Underway' = Underway /\ status = "APPROVED"
        \/ /\ cancelWork'[r].at = "none" /\ cancelWork'[r].kind = "none"
           /\ Underway' = Underway \ {r}
    BY <1>g, <1>e, <2>1, <2>2 DEF X!Steps
  <2>5. X!TypeOK'
    BY AccountsAssumption, <2>1, <2>3 DEF CancelInv, X!TypeOK
  <2>6. OwedIsLate'
    BY <2>1, <2>3, <2>4 DEF CancelInv, OwedIsLate
  <2>7. Released'
    BY <2>1, <2>3, <2>4 DEF CancelInv, Released, X!At
  <2>8. ASSUME ~cancelsOverlapped, ~failed
        PROVE  CancelsOrderly'
    <3>1. Underway = {r} /\ InHand(cancelWork[r].kind, cancelWork[r].at)
      BY <1>o, <2>1, <2>8
    <3> QED
      BY <2>1, <2>4, <3>1
      DEF CancelsOrderly, InHand, Settled, Kept, Penalised, Unpunished, Untouched
  <2> QED
    BY <2>1, <2>5, <2>6, <2>7, <2>8 DEF CancelInv
<1>6. ASSUME NEW r \in Requests, X!Unkey(r)
      PROVE  CancelInv'
  <2>1. /\ cancelWork[r].kind \in {"driver", "customer"} /\ cancelWork[r].at = "unkey" /\ r \in Underway
        /\ key' = "none"
        /\ UNCHANGED <<status, late, avail, other, penalties, charges, tries, cancelsOverlapped, failed, byCustomer>>
    BY <1>b, <1>6 DEF X!Unkey, X!moneyVars, X!historyVars, X!Steps
  <2>2. X!Goes(r, "free")
    BY <1>6 DEF X!Unkey
  <2>3. /\ cancelWork' \in [Requests -> Type] /\ lock' \subseteq lock
        /\ \A q \in Requests \ {r} : cancelWork'[q] = cancelWork[q]
    BY <1>g, <2>1, <2>2 DEF X!Steps
  <2>4. \/ /\ cancelWork'[r].at = "free" /\ cancelWork'[r].kind = cancelWork[r].kind
           /\ Underway' = Underway
    BY <1>g, <2>1, <2>2 DEF X!Steps
  <2>5. X!TypeOK'
    BY AccountsAssumption, <2>1, <2>3 DEF CancelInv, X!TypeOK
  <2>6. OwedIsLate'
    BY <2>1, <2>3, <2>4 DEF CancelInv, OwedIsLate
  <2>7. Released'
    BY <2>1, <2>3, <2>4 DEF CancelInv, Released
  <2>8. ASSUME ~cancelsOverlapped, ~failed
        PROVE  CancelsOrderly'
    <3>1. Underway = {r} /\ InHand(cancelWork[r].kind, cancelWork[r].at)
      BY <1>o, <2>1, <2>8
    <3> QED
      BY <2>1, <2>4, <3>1
      DEF CancelsOrderly, InHand, Settled, Kept, Penalised, Unpunished, Untouched
  <2> QED
    BY <2>1, <2>5, <2>6, <2>7, <2>8 DEF CancelInv
<1>7. ASSUME NEW r \in Requests, X!Owe(r)
      PROVE  CancelInv'
  <2>1. /\ cancelWork[r].kind \in {"customer"} /\ cancelWork[r].at = "owe" /\ r \in Underway
        /\ status' = "CANCELLED_PAYMENT"
        /\ UNCHANGED <<late, key, avail, other, penalties, charges, tries, cancelsOverlapped, failed, byCustomer>>
    BY <1>b, <1>7 DEF X!Owe, X!driverVars, X!moneyVars, X!historyVars, X!Steps
  <2>2. X!Goes(r, "charge")
    BY <1>7 DEF X!Owe
  <2>3. /\ cancelWork' \in [Requests -> Type] /\ lock' \subseteq lock
        /\ \A q \in Requests \ {r} : cancelWork'[q] = cancelWork[q]
    BY <1>g, <2>1, <2>2 DEF X!Steps
  <2>4. \/ /\ cancelWork'[r].at = "charge" /\ cancelWork'[r].kind = cancelWork[r].kind
           /\ Underway' = Underway
    BY <1>g, <2>1, <2>2 DEF X!Steps
  <2>5. X!TypeOK'
    BY AccountsAssumption, <2>1, <2>3 DEF CancelInv, X!TypeOK, X!Statuses
  <2>6. OwedIsLate'
    BY <2>1, <2>3, <2>4 DEF CancelInv, OwedIsLate
  <2>7. Released'
    BY <2>1, <2>3, <2>4 DEF CancelInv, Released
  <2>8. ASSUME ~cancelsOverlapped, ~failed
        PROVE  CancelsOrderly'
    <3>1. Underway = {r} /\ InHand(cancelWork[r].kind, cancelWork[r].at)
      BY <1>o, <2>1, <2>8
    <3> QED
      BY <2>1, <2>4, <3>1
      DEF CancelsOrderly, InHand, Settled, Kept, Penalised, Unpunished, Untouched
  <2> QED
    BY <2>1, <2>5, <2>6, <2>7, <2>8 DEF CancelInv
<1>8. ASSUME NEW r \in Requests, X!ReadByRetry(r)
      PROVE  CancelInv'
  <2>1. /\ cancelWork[r].kind \in {"retry"} /\ cancelWork[r].at = "read" /\ r \in Underway
        /\ UNCHANGED <<status, late, key, avail, other, penalties, charges, tries, cancelsOverlapped, failed, byCustomer>>
    BY <1>b, <1>8
    DEF X!ReadByRetry, X!driverVars, X!moneyVars, X!historyVars, X!Steps
  <2>2. \/ /\ X!Goes(r, "charge") /\ status = "CANCELLED_PAYMENT"
        \/ X!Ends(r)
    BY <1>8 DEF X!ReadByRetry
  <2>3. /\ cancelWork' \in [Requests -> Type] /\ lock' \subseteq lock
        /\ \A q \in Requests \ {r} : cancelWork'[q] = cancelWork[q]
    BY <1>g, <1>e, <2>1, <2>2 DEF X!Steps
  <2>4. \/ /\ cancelWork'[r].at = "charge" /\ cancelWork'[r].kind = cancelWork[r].kind
           /\ Underway' = Underway /\ status = "CANCELLED_PAYMENT"
        \/ /\ cancelWork'[r].at = "none" /\ cancelWork'[r].kind = "none"
           /\ Underway' = Underway \ {r}
    BY <1>g, <1>e, <2>1, <2>2 DEF X!Steps
  <2>5. X!TypeOK'
    BY AccountsAssumption, <2>1, <2>3 DEF CancelInv, X!TypeOK
  <2>6. OwedIsLate'
    BY <2>1, <2>3, <2>4 DEF CancelInv, OwedIsLate
  <2>7. Released'
    BY <2>1, <2>3, <2>4 DEF CancelInv, Released, X!At
  <2>8. ASSUME ~cancelsOverlapped, ~failed
        PROVE  CancelsOrderly'
    <3>1. Underway = {r} /\ InHand(cancelWork[r].kind, cancelWork[r].at)
      BY <1>o, <2>1, <2>8
    <3> QED
      BY <2>1, <2>4, <3>1
      DEF CancelsOrderly, InHand, Settled, Kept, Penalised, Unpunished, Untouched
  <2> QED
    BY <2>1, <2>5, <2>6, <2>7, <2>8 DEF CancelInv
<1>9. ASSUME NEW r \in Requests, X!Charge(r)
      PROVE  CancelInv'
  <2>1. /\ cancelWork[r].kind \in {"customer", "retry"} /\ cancelWork[r].at = "charge" /\ r \in Underway
        /\ tries' = tries + 1
        /\ charges' = charges + 1
        /\ tries < MaxCharges
        /\ UNCHANGED <<status, late, key, avail, other, penalties, cancelsOverlapped, failed, byCustomer>>
    BY <1>b, <1>9
    DEF X!Charge, X!driverVars, X!moneyVars, X!historyVars, X!Steps
  <2>2. X!Goes(r, "end")
    BY <1>9 DEF X!Charge
  <2>3. /\ cancelWork' \in [Requests -> Type] /\ lock' \subseteq lock
        /\ \A q \in Requests \ {r} : cancelWork'[q] = cancelWork[q]
    BY <1>g, <2>1, <2>2 DEF X!Steps
  <2>4. \/ /\ cancelWork'[r].at = "end" /\ cancelWork'[r].kind = cancelWork[r].kind
           /\ Underway' = Underway
    BY <1>g, <2>1, <2>2 DEF X!Steps
  <2>5. X!TypeOK'
    BY AccountsAssumption, <2>1, <2>3 DEF CancelInv, X!TypeOK
  <2>6. OwedIsLate'
    BY <2>1, <2>3, <2>4 DEF CancelInv, OwedIsLate
  <2>7. Released'
    BY <2>1, <2>3, <2>4 DEF CancelInv, Released
  <2>8. ASSUME ~cancelsOverlapped, ~failed
        PROVE  CancelsOrderly'
    <3>1. Underway = {r} /\ InHand(cancelWork[r].kind, cancelWork[r].at)
      BY <1>o, <2>1, <2>8
    <3> QED
      BY <2>1, <2>4, <3>1
      DEF CancelsOrderly, InHand, Settled, Kept, Penalised, Unpunished, Untouched
  <2> QED
    BY <2>1, <2>5, <2>6, <2>7, <2>8 DEF CancelInv
<1>10. ASSUME NEW r \in Requests, X!Refuse(r)
      PROVE  CancelInv'
  <2>1. /\ cancelWork[r].kind \in {"customer", "retry"} /\ cancelWork[r].at = "charge" /\ r \in Underway
        /\ tries' = tries + 1
        /\ tries < MaxCharges
        /\ UNCHANGED <<status, late, key, avail, other, penalties, charges, cancelsOverlapped, failed, byCustomer>>
    BY <1>b, <1>10
    DEF X!Refuse, X!driverVars, X!moneyVars, X!historyVars, X!Steps
  <2>2. X!Ends(r)
    BY <1>10 DEF X!Refuse
  <2>3. /\ cancelWork' \in [Requests -> Type] /\ lock' \subseteq lock
        /\ \A q \in Requests \ {r} : cancelWork'[q] = cancelWork[q]
    BY <1>e, <2>1, <2>2 DEF X!Steps
  <2>4. \/ /\ cancelWork'[r].at = "none" /\ cancelWork'[r].kind = "none"
           /\ Underway' = Underway \ {r}
    BY <1>e, <2>1, <2>2 DEF X!Steps
  <2>5. X!TypeOK'
    BY AccountsAssumption, <2>1, <2>3 DEF CancelInv, X!TypeOK
  <2>6. OwedIsLate'
    BY <2>1, <2>3, <2>4 DEF CancelInv, OwedIsLate
  <2>7. Released'
    BY <2>1, <2>3, <2>4 DEF CancelInv, Released
  <2>8. ASSUME ~cancelsOverlapped, ~failed
        PROVE  CancelsOrderly'
    <3>1. Underway = {r} /\ InHand(cancelWork[r].kind, cancelWork[r].at)
      BY <1>o, <2>1, <2>8
    <3> QED
      BY <2>1, <2>4, <3>1
      DEF CancelsOrderly, InHand, Settled, Kept, Penalised, Unpunished, Untouched
  <2> QED
    BY <2>1, <2>5, <2>6, <2>7, <2>8 DEF CancelInv
<1>11. ASSUME NEW r \in Requests, X!End(r)
      PROVE  CancelInv'
  <2>1. /\ cancelWork[r].kind \in {"customer", "retry"} /\ cancelWork[r].at = "end" /\ r \in Underway
        /\ status' = "CANCELLED"
        /\ UNCHANGED <<late, key, avail, other, penalties, charges, tries, cancelsOverlapped, failed, byCustomer>>
    BY <1>b, <1>11 DEF X!End, X!driverVars, X!moneyVars, X!historyVars, X!Steps
  <2>2. X!Ends(r)
    BY <1>11 DEF X!End
  <2>3. /\ cancelWork' \in [Requests -> Type] /\ lock' \subseteq lock
        /\ \A q \in Requests \ {r} : cancelWork'[q] = cancelWork[q]
    BY <1>e, <2>1, <2>2 DEF X!Steps
  <2>4. \/ /\ cancelWork'[r].at = "none" /\ cancelWork'[r].kind = "none"
           /\ Underway' = Underway \ {r}
    BY <1>e, <2>1, <2>2 DEF X!Steps
  <2>5. X!TypeOK'
    BY AccountsAssumption, <2>1, <2>3 DEF CancelInv, X!TypeOK, X!Statuses
  <2>6. OwedIsLate'
    BY <2>1, <2>3, <2>4 DEF CancelInv, OwedIsLate
  <2>7. Released'
    BY <2>1, <2>3, <2>4 DEF CancelInv, Released
  <2>8. ASSUME ~cancelsOverlapped, ~failed
        PROVE  CancelsOrderly'
    <3>1. Underway = {r} /\ InHand(cancelWork[r].kind, cancelWork[r].at)
      BY <1>o, <2>1, <2>8
    <3> QED
      BY <2>1, <2>4, <3>1
      DEF CancelsOrderly, InHand, Settled, Kept, Penalised, Unpunished, Untouched
  <2> QED
    BY <2>1, <2>5, <2>6, <2>7, <2>8 DEF CancelInv
<1>12. ASSUME NEW r \in Requests, X!Free(r)
      PROVE  CancelInv'
  <2>1. /\ cancelWork[r].kind \in {"driver", "customer"} /\ cancelWork[r].at = "free"
        /\ r \in Underway
    BY <1>b, <1>12 DEF X!Free, X!Steps
  <2>2. /\ avail' = "AVAILABLE" /\ byCustomer' \in BOOLEAN
        /\ byCustomer' <=> byCustomer \/ (late /\ cancelWork[r].kind = "customer")
        /\ UNCHANGED <<status, late, key, other, penalties, charges, tries,
                       cancelsOverlapped, failed>>
    BY <1>12 DEF X!Free, X!moneyVars
  <2>3. \/ cancelWork[r].kind = "driver" /\ X!Ends(r)
        \/ cancelWork[r].kind = "customer" /\ late /\ X!Goes(r, "owe")
        \/ cancelWork[r].kind = "customer" /\ ~late /\ X!Goes(r, "end")
    BY <1>12, <2>1 DEF X!Free
  <2>4. /\ cancelWork' \in [Requests -> Type] /\ lock' \subseteq lock
        /\ \A q \in Requests \ {r} : cancelWork'[q] = cancelWork[q]
    BY <1>g, <1>e, <2>1, <2>3 DEF X!Steps
  <2>5. \/ /\ cancelWork[r].kind = "driver"
           /\ cancelWork'[r].at = "none" /\ Underway' = Underway \ {r}
        \/ /\ cancelWork[r].kind = "customer" /\ late
           /\ cancelWork'[r].at = "owe" /\ cancelWork'[r].kind = "customer"
           /\ Underway' = Underway
        \/ /\ cancelWork[r].kind = "customer" /\ ~late
           /\ cancelWork'[r].at = "end" /\ cancelWork'[r].kind = "customer"
           /\ Underway' = Underway
    BY <1>g, <1>e, <2>1, <2>3 DEF X!Steps
  <2>6. X!TypeOK'
    BY <2>2, <2>4 DEF CancelInv, X!TypeOK
  <2>7. OwedIsLate'
    BY <2>2, <2>4, <2>5 DEF CancelInv, OwedIsLate
  <2>8. Released'
    BY <2>1, <2>2, <2>4, <2>5 DEF CancelInv, Released
  <2>9. ASSUME ~cancelsOverlapped, ~failed
        PROVE  CancelsOrderly'
    <3>1. Underway = {r} /\ InHand(cancelWork[r].kind, "free")
      BY <1>o, <2>1, <2>9
    <3> QED
      BY <2>1, <2>2, <2>5, <3>1
      DEF CancelsOrderly, InHand, Settled, Kept, Penalised, Unpunished, Untouched
  <2> QED
    BY <2>2, <2>6, <2>7, <2>8, <2>9 DEF CancelInv
<1>13. ASSUME NEW r \in Requests, X!Fail(r)
      PROVE  CancelInv'
  <2>1. /\ r \in Underway /\ tries < MaxCharges /\ tries' = tries + 1 /\ failed'
        /\ failed' \in BOOLEAN /\ X!Ends(r)
        /\ charges' = charges \/ (cancelWork[r].at = "charge" /\ charges' = charges + 1)
        /\ UNCHANGED <<status, late, key, avail, other, penalties, cancelsOverlapped,
                       byCustomer>>
    BY <1>13 DEF X!Fail, X!At, X!driverVars, Underway
  <2>2. /\ cancelWork' \in [Requests -> Type] /\ lock' \subseteq lock
        /\ \A q \in Requests \ {r} : cancelWork'[q] = cancelWork[q]
        /\ cancelWork'[r].at = "none"
    BY <1>e, <2>1
  <2>3. X!TypeOK'
    BY <1>0, <2>1, <2>2 DEF CancelInv, X!TypeOK
  <2>4. OwedIsLate'
    BY <2>1, <2>2 DEF CancelInv, OwedIsLate
  <2>5. Released'
    BY <2>1, <2>2 DEF CancelInv, Released
  <2> QED
    BY <2>1, <2>3, <2>4, <2>5 DEF CancelInv
<1>14. ASSUME X!TimePasses
      PROVE  CancelInv'
  <2>1. /\ ~late /\ late' = TRUE
        /\ UNCHANGED <<status, key, avail, other, penalties, charges, tries, lock,
                       cancelWork, cancelsOverlapped, failed, byCustomer>>
    BY <1>14 DEF X!TimePasses, X!driverVars, X!moneyVars, X!historyVars
  <2>2. X!TypeOK' /\ OwedIsLate' /\ Released'
    BY <2>1 DEF CancelInv, X!TypeOK, OwedIsLate, Released, X!At
  <2>3. CancelsOrderly => CancelsOrderly'
    BY <2>1
    DEF CancelsOrderly, Underway, InHand, Settled, Kept, Penalised, Unpunished,
        Untouched
  <2> QED
    BY <2>1, <2>2, <2>3 DEF CancelInv
<1>15. ASSUME X!StartTrip
      PROVE  CancelInv'
  <2>1. /\ status = "APPROVED" /\ status' = "TRIP_IN_PROGRESS"
        /\ cancelsOverlapped' \in BOOLEAN
        /\ ~cancelsOverlapped' => ~cancelsOverlapped /\ Underway = {}
        /\ UNCHANGED <<late, key, avail, other, penalties, charges, tries, lock,
                       cancelWork, failed, byCustomer>>
    BY <1>15 DEF X!StartTrip, X!driverVars, X!moneyVars, X!Busy, Underway
  <2>2. X!TypeOK' /\ OwedIsLate' /\ Released'
    BY <2>1 DEF CancelInv, X!TypeOK, X!Statuses, OwedIsLate, Released
  <2>3. ASSUME ~cancelsOverlapped', ~failed'
        PROVE  CancelsOrderly'
    <3>1. Underway = {} /\ Underway' = {} /\ Settled
      BY <2>1, <2>3 DEF CancelInv, CancelsOrderly, Underway
    <3>2. Settled'
      BY <2>1, <3>1 DEF Settled, Kept, Unpunished, Untouched
    <3> QED
      BY <3>1, <3>2 DEF CancelsOrderly
  <2> QED
    BY <2>2, <2>3 DEF CancelInv
<1>16. ASSUME X!TakeOtherRide
      PROVE  CancelInv'
  <2>1. /\ avail = "AVAILABLE" /\ ~other /\ status \notin {"APPROVED", "TRIP_IN_PROGRESS"}
        /\ other' = TRUE /\ key' = "other" /\ avail' = "ON_TRIP"
        /\ UNCHANGED <<status, late, penalties, charges, tries, lock, cancelWork,
                       cancelsOverlapped, failed, byCustomer>>
    BY <1>16 DEF X!TakeOtherRide, X!moneyVars, X!historyVars
  <2>2. X!TypeOK' /\ OwedIsLate' /\ Released'
    BY <2>1 DEF CancelInv, X!TypeOK, OwedIsLate, Released
  <2>3. CancelsOrderly => CancelsOrderly'
    BY <2>1
    DEF CancelsOrderly, Underway, InHand, Settled, Kept, Penalised, Unpunished,
        Untouched
  <2> QED
    BY <2>1, <2>2, <2>3 DEF CancelInv
<1>17. ASSUME NEW k \in X!Kinds, X!LockExpires(k)
      PROVE  CancelInv'
  <2>1. /\ cancelsOverlapped' = TRUE /\ lock' = lock \ {k}
        /\ UNCHANGED <<status, late, key, avail, other, penalties, charges, tries,
                       cancelWork, failed, byCustomer>>
    BY <1>17 DEF X!LockExpires, X!driverVars, X!moneyVars
  <2> QED
    BY <2>1 DEF CancelInv, X!TypeOK, OwedIsLate, Released, X!At
<1> QED
  BY <1>1, <1>2, <1>3, <1>4, <1>5, <1>6, <1>7, <1>8, <1>9, <1>10, <1>11, <1>12,
     <1>13, <1>14, <1>15, <1>16, <1>17
  DEF X!Next

\* TripService's cancellations: see CancelIsSettled of Cancel.
THEOREM CancelIsSettledAlways ==
    Spec => []CancelIsSettled
<1>1. Init => CancelInv
  BY CancelsBegin
<1>2. CancelInv /\ [Next]_vars => CancelInv'
  BY CancelsStep, CancelsStay DEF Next, vars
<1>3. CancelInv => CancelIsSettled
  <2> SUFFICES ASSUME CancelInv
               PROVE  CancelIsSettled
    OBVIOUS
  <2>1. charges > 0 => late
    BY DEF CancelInv, OwedIsLate
  <2>2. ASSUME ~X!Busy, ~failed, status \in {"CANCELLED", "CANCELLED_PAYMENT"}
        PROVE  key # "this"
    <3>1. \A q \in Requests : ~X!At(q, {"driver"}, "unkey")
      BY <2>2 DEF X!Busy, X!At, X!Idle
    <3> QED
      BY <2>2, <3>1 DEF CancelInv, Released
  <2>3. ASSUME ~X!Busy, ~failed, ~cancelsOverlapped
        PROVE  /\ other => key = "other" /\ avail = "ON_TRIP"
               /\ charges = IF byCustomer /\ status = "CANCELLED" THEN 1 ELSE 0
               /\ penalties <= IF late /\ ~byCustomer THEN 1 ELSE 0
    <3>1. Settled /\ status \in X!Statuses
      BY <2>3 DEF CancelInv, CancelsOrderly, Underway, X!Busy, X!TypeOK
    <3> QED
      BY <3>1 DEF Settled, Kept, Penalised, Unpunished, Untouched, X!Statuses
  <2> QED
    BY <2>1, <2>2, <2>3 DEF CancelIsSettled, X!CancelIsSettled, X!Answered
<1> QED
  BY <1>1, <1>2, <1>3, PTL DEF Spec

-----------------------------------------------------------------------------
(* Administrators.                                                         *)

\* One account per e-mail; an id is used once, so that a deletion that has read a
\* normal administrator can never come to delete a super administrator.
Accounted ==
    /\ \A a, b \in accounts : a.email = b.email => a = b
    /\ \A a \in accounts : a.id \in usedIds /\ (a.role = "NORMAL_ADMIN" => a.id \notin supers)
    /\ \A i \in supers : \E a \in accounts : a.id = i
    /\ \A q \in Requests : adminWork[q].at = "delete" => adminWork[q].id \in usedIds \ supers

\* The requests being served.
Serving == {q \in Requests : adminWork[q] # A!Idle}

\* As long as requests come one at a time: an e-mail has one code that is not used
\* up, a request that is about to set a password has a code with which none was
\* set, and one with which one was set is about to be marked as used.
Coded ==
    /\ \A p, q \in Serving : p = q
    /\ \A q \in Serving :
          /\ adminWork[q].at = "issue" => \A k \in codes : k.email # adminWork[q].email
          /\ adminWork[q].at \in {"find", "set"} =>
                resets[adminWork[q].code] = 0 /\ adminWork[q].code \in usedCodes
    /\ \A k, l \in codes : ~k.isUsed /\ ~l.isUsed /\ k.email = l.email => k = l
    /\ \A k \in codes :
          \/ k.isUsed \/ resets[k.id] = 0
          \/ \E q \in Serving : adminWork[q].at = "use" /\ adminWork[q].code = k.id
    /\ \A k \in Codes : resets[k] < 2 /\ (k \notin usedCodes => resets[k] = 0)

\* The latter holds until two requests have overlapped or one has failed.
AdminInv ==
    /\ A!TypeOK /\ Accounted
    /\ \A k \in codes : k.id \in usedCodes
    /\ ~adminsDisturbed => Coded

\* The state without accounts has it.
LEMMA AdminsBegin == ASSUME Init PROVE AdminInv
<1>1. /\ accounts = {} /\ codes = {} /\ usedIds = {} /\ usedCodes = {} /\ supers = {}
      /\ adminsDisturbed = FALSE /\ resets = [k \in Codes |-> 0]
  BY DEF Init, A!Init
<1>2. /\ adminWork \in [Requests -> A!Works \cup {A!Idle}]
      /\ \A q \in Requests : adminWork[q] = A!Idle /\ adminWork[q].at = "none"
  BY DEF Init, A!Init, A!Idle
<1>3. A!TypeOK
  <2>1. resets \in [Codes -> 0 .. 2]
    BY <1>1
  <2> QED
    BY <1>1, <1>2, <2>1 DEF A!TypeOK
<1> QED
  BY <1>1, <1>2, <1>3 DEF AdminInv, Accounted, Coded, Serving

\* A step of another component changes nothing of it.
LEMMA AdminsStay == ASSUME AdminInv, UNCHANGED adminVars PROVE AdminInv'
BY DEF adminVars, AdminInv, A!TypeOK, Accounted, Coded, Serving

\* Every call of AdminManagementService and AdminAuthService keeps it.
LEMMA AdminsStep ==
    ASSUME AdminInv, A!Next
    PROVE  AdminInv'
<1> DEFINE Type == A!Works \cup {A!Idle}
<1>0. /\ accounts \subseteq A!Account /\ codes \subseteq A!Code
      /\ usedIds \subseteq Keys /\ usedCodes \subseteq Codes
      /\ adminWork \in [Requests -> Type]
      /\ supers \subseteq usedIds /\ resets \in [Codes -> 0 .. 2]
      /\ adminsDisturbed \in BOOLEAN
  BY DEF AdminInv, A!TypeOK
<1>1. /\ \A a \in accounts : a.id \in Keys /\ a.email \in Emails /\ a.role \in A!Roles
      /\ \A k \in codes : /\ k.id \in Codes /\ k.email \in Emails
                          /\ k.isUsed \in BOOLEAN /\ k.expired \in BOOLEAN
  BY <1>0 DEF A!Account, A!Code
<1> DEFINE Sets(q, w) == adminWork' = [adminWork EXCEPT ![q] = w]
<1>a. ASSUME NEW r \in Requests, NEW w \in Type, Sets(r, w)
      PROVE  /\ adminWork' \in [Requests -> Type]
             /\ \A q \in Requests : adminWork'[q] = IF q = r THEN w ELSE adminWork[q]
  BY <1>0, <1>a
<1>b. ASSUME NEW q \in Requests
      PROVE  /\ adminWork[q].at # "none" => q \in Serving
             /\ adminWork[q].at = "create" =>
                   adminWork[q].email \in Emails /\ adminWork[q].role \in A!Roles
             /\ adminWork[q].at = "delete" => adminWork[q].id \in Keys
             /\ adminWork[q].at \in {"clear", "issue"} => adminWork[q].email \in Emails
             /\ adminWork[q].at = "find" =>
                   adminWork[q].code \in Codes /\ adminWork[q].email \in Emails
             /\ adminWork[q].at = "set" =>
                   adminWork[q].code \in Codes /\ adminWork[q].id \in Keys
             /\ adminWork[q].at = "use" => adminWork[q].code \in Codes
  BY <1>0 DEF A!Works, A!Idle, Serving
<1>i. A!Idle \in Type /\ A!Idle.at = "none"
  BY DEF A!Idle
<1>s. ASSUME NEW q \in Requests, NEW w \in A!Works, A!Starts(q, w),
             w.at \in {"create", "clear"}
               \/ (w.at = "delete" /\ w.id \in usedIds \ supers)
               \/ (w.at = "find" /\ \E k \in codes : k.id = w.code /\ ~k.isUsed)
      PROVE  AdminInv'
  <2>1. /\ adminWork[q] = A!Idle /\ Sets(q, w)
        /\ adminsDisturbed' \in BOOLEAN
        /\ ~adminsDisturbed' => ~adminsDisturbed /\ Serving = {}
        /\ UNCHANGED <<accounts, codes, usedIds, usedCodes, supers, resets>>
    BY <1>s DEF A!Starts, Serving
  <2>2. /\ adminWork' \in [Requests -> Type] /\ adminWork'[q] = w
        /\ \A p \in Requests \ {q} : adminWork'[p] = adminWork[p]
    BY <1>a, <2>1
  <2>3. A!TypeOK'
    BY <1>0, <2>1, <2>2 DEF A!TypeOK
  <2>4. Accounted'
    BY <1>s, <2>1, <2>2 DEF AdminInv, Accounted
  <2>5. ASSUME ~adminsDisturbed'
        PROVE  Coded'
    <3>1. Serving' \subseteq {q}
      BY <2>1, <2>2, <2>5 DEF Serving
    <3> QED
      BY <1>s, <2>1, <2>2, <2>5, <3>1 DEF AdminInv, Coded
  <2> QED
    BY <2>1, <2>3, <2>4, <2>5 DEF AdminInv
<1>2. ASSUME NEW q \in Requests, NEW email \in Emails, NEW role \in A!Roles,
             \/ A!CreateAdmin(q, email, role) \/ A!CreateNormalAdmin(q, email)
      PROVE  AdminInv'
  <2>1. PICK role0 \in A!Roles :
           A!Starts(q, [at |-> "create", email |-> email, role |-> role0])
    BY <1>2 DEF A!CreateAdmin, A!CreateNormalAdmin, A!Roles
  <2>2. [at |-> "create", email |-> email, role |-> role0] \in A!Works
    BY DEF A!Works
  <2> QED
    BY <1>s, <2>1, <2>2
<1>3. ASSUME NEW q \in Requests, NEW email \in Emails, A!SendResetCode(q, email)
      PROVE  AdminInv'
  <2>1. [at |-> "clear", email |-> email] \in A!Works
    BY DEF A!Works
  <2> QED
    BY <1>s, <1>3, <2>1 DEF A!SendResetCode
<1>4. ASSUME NEW q \in Requests, A!DeleteNormalAdmin(q)
      PROVE  AdminInv'
  <2>1. PICK a \in accounts : /\ a.role = "NORMAL_ADMIN"
                              /\ A!Starts(q, [at |-> "delete", id |-> a.id])
    BY <1>4 DEF A!DeleteNormalAdmin
  <2>2. [at |-> "delete", id |-> a.id] \in A!Works
    BY <1>1 DEF A!Works
  <2>3. a.id \in usedIds \ supers
    BY <2>1 DEF AdminInv, Accounted
  <2> QED
    BY <1>s, <2>1, <2>2, <2>3
<1>5. ASSUME NEW q \in Requests, A!ResetPassword(q)
      PROVE  AdminInv'
  <2>1. PICK k \in codes :
           ~k.isUsed /\ A!Starts(q, [at |-> "find", code |-> k.id, email |-> k.email])
    BY <1>5 DEF A!ResetPassword
  <2>2. [at |-> "find", code |-> k.id, email |-> k.email] \in A!Works
    BY <1>1 DEF A!Works
  <2> QED
    BY <1>s, <2>1, <2>2
<1>e. ASSUME NEW q \in Requests, A!Ends(q)
      PROVE  /\ adminWork' \in [Requests -> Type] /\ adminWork'[q] = A!Idle
             /\ \A p \in Requests \ {q} : adminWork'[p] = adminWork[p]
             /\ Serving' = Serving \ {q}
  BY <1>a, <1>e DEF A!Ends, Serving
<1>6. ASSUME NEW q \in Requests, NEW i \in Keys, A!SaveAccount(q, i)
      PROVE  AdminInv'
  <2> DEFINE new == [id |-> i, email |-> adminWork[q].email, role |-> adminWork[q].role]
  <2>1. /\ adminWork[q].at = "create" /\ i \notin usedIds /\ A!Ends(q)
        /\ \A a \in accounts : a.email # new.email
        /\ accounts' = accounts \cup {new} /\ usedIds' = usedIds \cup {i}
        /\ UNCHANGED <<codes, usedCodes, resets, adminsDisturbed>>
        /\ \/ new.role = "SUPER_ADMIN" /\ supers' = supers \cup {i}
           \/ new.role # "SUPER_ADMIN" /\ supers' = supers
    BY <1>6 DEF A!SaveAccount, A!IsNew, A!Of
  <2>2. /\ new \in A!Account /\ new.id = i /\ q \in Serving
    BY <1>b, <2>1 DEF A!Account
  <2> HIDE DEF new
  <2>3. A!TypeOK'
    BY <1>0, <1>e, <2>1, <2>2 DEF A!TypeOK
  <2>4. Accounted'
    BY <1>e, <1>i, <2>1, <2>2 DEF AdminInv, Accounted
  <2>5. ASSUME ~adminsDisturbed
        PROVE  Coded'
    BY <1>e, <2>1, <2>2, <2>5 DEF AdminInv, Coded
  <2> QED
    BY <2>1, <2>3, <2>4, <2>5 DEF AdminInv
<1>7. ASSUME NEW q \in Requests, A!DropAccount(q)
      PROVE  AdminInv'
  <2>1. /\ adminWork[q].at = "delete" /\ A!Ends(q)
        /\ accounts' = {a \in accounts : a.id # adminWork[q].id}
        /\ UNCHANGED <<codes, usedIds, usedCodes, supers, resets, adminsDisturbed>>
    BY <1>7 DEF A!DropAccount
  <2>3. A!TypeOK'
    BY <1>0, <1>e, <2>1 DEF A!TypeOK
  <2>4. Accounted'
    BY <1>e, <1>i, <2>1 DEF AdminInv, Accounted
  <2>5. ASSUME ~adminsDisturbed
        PROVE  Coded'
    BY <1>b, <1>e, <2>1, <2>5 DEF AdminInv, Coded
  <2> QED
    BY <2>1, <2>3, <2>4, <2>5 DEF AdminInv
<1>8. ASSUME NEW q \in Requests, A!ClearCodes(q)
      PROVE  AdminInv'
  <2> DEFINE w == [adminWork[q] EXCEPT !.at = "issue"]
  <2>1. /\ adminWork[q].at = "clear" /\ Sets(q, w)
        /\ codes' = {k \in codes : k.email # adminWork[q].email}
        /\ UNCHANGED <<accounts, usedIds, usedCodes, supers, resets, adminsDisturbed>>
    BY <1>8 DEF A!ClearCodes, A!Goes
  <2>2. w \in A!Works /\ w.at = "issue" /\ w.email = adminWork[q].email /\ q \in Serving
    BY <1>0, <1>b, <2>1 DEF A!Works, A!Idle
  <2> HIDE DEF w
  <2>3. /\ adminWork' \in [Requests -> Type] /\ adminWork'[q] = w
        /\ \A p \in Requests \ {q} : adminWork'[p] = adminWork[p]
    BY <1>a, <2>1, <2>2
  <2>4. A!TypeOK'
    BY <1>0, <2>1, <2>3 DEF A!TypeOK
  <2>5. Accounted'
    BY <2>1, <2>2, <2>3 DEF AdminInv, Accounted
  <2>6. ASSUME ~adminsDisturbed
        PROVE  Coded'
    <3>1. Serving' \subseteq {q}
      BY <2>2, <2>3, <2>6 DEF AdminInv, Coded, Serving
    <3> QED
      BY <2>1, <2>2, <2>3, <2>6, <3>1 DEF AdminInv, Coded
  <2> QED
    BY <2>1, <2>4, <2>5, <2>6 DEF AdminInv
<1>9. ASSUME NEW q \in Requests, NEW k \in Codes, A!IssueCode(q, k)
      PROVE  AdminInv'
  <2> DEFINE new == [id |-> k, email |-> adminWork[q].email, isUsed |-> FALSE,
                     expired |-> FALSE]
  <2>1. /\ adminWork[q].at = "issue" /\ k \notin usedCodes /\ A!Ends(q)
        /\ codes' = codes \cup {new} /\ usedCodes' = usedCodes \cup {k}
        /\ UNCHANGED <<accounts, usedIds, supers, resets, adminsDisturbed>>
    BY <1>9 DEF A!IssueCode, A!IsNew
  <2>2. /\ new \in A!Code /\ new.id = k /\ new.email = adminWork[q].email /\ ~new.isUsed
        /\ q \in Serving
    BY <1>b, <2>1 DEF A!Code
  <2> HIDE DEF new
  <2>3. A!TypeOK'
    BY <1>0, <1>e, <2>1, <2>2 DEF A!TypeOK
  <2>4. Accounted'
    BY <1>e, <1>i, <2>1 DEF AdminInv, Accounted
  <2>5. \A l \in codes' : l.id \in usedCodes'
    BY <2>1, <2>2 DEF AdminInv
  <2>6. ASSUME ~adminsDisturbed
        PROVE  Coded'
    <3>1. Serving' = {}
      BY <1>e, <2>1, <2>2, <2>6 DEF AdminInv, Coded
    <3>2. \A l \in codes : l.email # adminWork[q].email
      BY <2>1, <2>2, <2>6 DEF AdminInv, Coded
    <3> QED
      BY <2>1, <2>2, <2>6, <3>1, <3>2 DEF AdminInv, Coded
  <2> QED
    BY <2>1, <2>3, <2>4, <2>5, <2>6 DEF AdminInv
<1>10. ASSUME NEW q \in Requests, A!FindAccount(q)
      PROVE  AdminInv'
  <2>1. /\ adminWork[q].at = "find"
        /\ UNCHANGED <<accounts, codes, usedIds, usedCodes, supers, resets, adminsDisturbed>>
    BY <1>10 DEF A!FindAccount
  <2>2. PICK w \in Type :
           /\ Sets(q, w)
           /\ w = A!Idle \/ (w.at = "set" /\ w.code = adminWork[q].code)
    <3>1. CASE A!Ends(q)
      BY <3>1 DEF A!Ends
    <3>2. ASSUME NEW a \in accounts,
                 A!Goes(q, [at |-> "set", code |-> adminWork[q].code, id |-> a.id])
          PROVE  \E w \in Type : Sets(q, w) /\ w.at = "set" /\ w.code = adminWork[q].code
      <4> DEFINE w == [at |-> "set", code |-> adminWork[q].code, id |-> a.id]
      <4>1. w \in Type /\ w.at = "set" /\ w.code = adminWork[q].code
        BY <1>1, <1>b, <2>1 DEF A!Works
      <4>2. Sets(q, w)
        BY <3>2 DEF A!Goes
      <4> QED
        BY <4>1, <4>2
    <3> QED
      BY <1>10, <3>1, <3>2 DEF A!FindAccount, A!Of
  <2>3. /\ adminWork' \in [Requests -> Type] /\ adminWork'[q] = w
        /\ \A p \in Requests \ {q} : adminWork'[p] = adminWork[p]
    BY <1>a, <2>2
  <2>4. A!TypeOK'
    BY <1>0, <2>1, <2>3 DEF A!TypeOK
  <2>5. Accounted'
    BY <1>i, <2>1, <2>2, <2>3 DEF AdminInv, Accounted
  <2>6. ASSUME ~adminsDisturbed
        PROVE  Coded'
    <3>1. Serving = {q} /\ Serving' \subseteq {q} /\ resets[adminWork[q].code] = 0
      BY <1>b, <2>1, <2>3, <2>6 DEF AdminInv, Coded, Serving
    <3>2. \A k \in codes : k.isUsed \/ resets[k.id] = 0
      BY <2>1, <2>6, <3>1 DEF AdminInv, Coded
    <3> QED
      BY <1>i, <2>1, <2>2, <2>3, <2>6, <3>1, <3>2 DEF AdminInv, Coded
  <2> QED
    BY <2>1, <2>4, <2>5, <2>6 DEF AdminInv
<1>11. ASSUME NEW q \in Requests, A!SetPassword(q)
      PROVE  AdminInv'
  <2> DEFINE k == adminWork[q].code
             w == [at |-> "use", code |-> k]
  <2>1. /\ adminWork[q].at = "set" /\ Sets(q, w)
        /\ resets' \in {resets, [resets EXCEPT ![k] = IF @ = 2 THEN 2 ELSE @ + 1]}
        /\ UNCHANGED <<accounts, codes, usedIds, usedCodes, supers, adminsDisturbed>>
    BY <1>11 DEF A!SetPassword, A!Goes
  <2>2. k \in Codes /\ w \in Type /\ w.at = "use" /\ w.code = k /\ q \in Serving
    BY <1>b, <2>1 DEF A!Works
  <2> HIDE DEF w
  <2>3. /\ adminWork' \in [Requests -> Type] /\ adminWork'[q] = w
        /\ \A p \in Requests \ {q} : adminWork'[p] = adminWork[p]
    BY <1>a, <2>1, <2>2
  <2>4. /\ resets' \in [Codes -> 0 .. 2]
        /\ \A l \in Codes \ {k} : resets'[l] = resets[l]
        /\ resets[k] = 0 => resets'[k] \in {0, 1}
    BY <1>0, <2>1, <2>2
  <2>5. A!TypeOK'
    BY <1>0, <2>1, <2>3, <2>4 DEF A!TypeOK
  <2>6. Accounted'
    BY <2>1, <2>2, <2>3 DEF AdminInv, Accounted
  <2>7. ASSUME ~adminsDisturbed
        PROVE  Coded'
    <3>1. /\ Serving' \subseteq {q} /\ Serving = {q} /\ q \in Serving'
      BY <1>i, <2>2, <2>3, <2>7 DEF AdminInv, Coded, Serving
    <3>2. resets[k] = 0 /\ k \in usedCodes
      BY <2>1, <2>2, <2>7 DEF AdminInv, Coded
    <3>3. \A l \in codes : l.isUsed \/ resets[l.id] = 0
      BY <2>1, <2>7, <3>1 DEF AdminInv, Coded
    <3> QED
      BY <1>1, <2>1, <2>2, <2>3, <2>4, <2>7, <3>1, <3>2, <3>3
      DEF AdminInv, Coded
  <2> QED
    BY <2>1, <2>5, <2>6, <2>7 DEF AdminInv
<1>12. ASSUME NEW q \in Requests, A!UseCode(q)
      PROVE  AdminInv'
  <2> DEFINE used(k) == IF k.id = adminWork[q].code THEN [k EXCEPT !.isUsed = TRUE] ELSE k
  <2>1. /\ adminWork[q].at = "use" /\ A!Ends(q) /\ codes' = {used(k) : k \in codes}
        /\ UNCHANGED <<accounts, usedIds, usedCodes, supers, resets, adminsDisturbed>>
    BY <1>12 DEF A!UseCode
  <2>2. ASSUME NEW k \in codes
        PROVE  /\ used(k) \in A!Code /\ used(k).id = k.id /\ used(k).email = k.email
               /\ k.id = adminWork[q].code => used(k).isUsed
               /\ k.id # adminWork[q].code => used(k) = k
    BY <1>0 DEF A!Code
  <2> HIDE DEF used
  <2>3. A!TypeOK'
    BY <1>0, <1>e, <2>1, <2>2 DEF A!TypeOK
  <2>4. Accounted'
    BY <1>e, <1>i, <2>1 DEF AdminInv, Accounted
  <2>5. \A k \in codes' : k.id \in usedCodes'
    BY <2>1, <2>2 DEF AdminInv
  <2>6. ASSUME ~adminsDisturbed
        PROVE  Coded'
    <3>1. Serving = {q} /\ Serving' = {}
      BY <1>b, <1>e, <2>1, <2>6 DEF AdminInv, Coded
    <3>2. \A k \in codes' : k.isUsed \/ (k \in codes /\ k.id # adminWork[q].code)
      BY <2>1, <2>2
    <3> QED
      BY <2>1, <2>6, <3>1, <3>2 DEF AdminInv, Coded
  <2> QED
    BY <2>1, <2>3, <2>4, <2>5, <2>6 DEF AdminInv
<1>13. ASSUME NEW q \in Requests, A!Fail(q)
      PROVE  AdminInv'
  <2>1. /\ A!Ends(q) /\ adminsDisturbed' = TRUE
        /\ UNCHANGED <<accounts, codes, usedIds, usedCodes, supers, resets>>
    BY <1>13 DEF A!Fail
  <2>2. A!TypeOK'
    BY <1>0, <1>e, <2>1 DEF A!TypeOK
  <2>3. Accounted'
    BY <1>e, <1>i, <2>1 DEF AdminInv, Accounted
  <2> QED
    BY <2>1, <2>2, <2>3 DEF AdminInv
<1>14. ASSUME A!CodeExpires
      PROVE  AdminInv'
  <2>1. PICK k \in codes : codes' = (codes \ {k}) \cup {[k EXCEPT !.expired = TRUE]}
    BY <1>14 DEF A!CodeExpires
  <2> DEFINE new == [k EXCEPT !.expired = TRUE]
  <2>2. UNCHANGED <<accounts, usedIds, usedCodes, adminWork, supers, resets, adminsDisturbed>>
    BY <1>14 DEF A!CodeExpires
  <2>3. /\ new \in A!Code /\ new.id = k.id /\ new.email = k.email
        /\ new.isUsed = k.isUsed
    BY <1>0 DEF A!Code
  <2>4. codes' = (codes \ {k}) \cup {new}
    BY <2>1
  <2> HIDE DEF new
  <2>5. A!TypeOK'
    BY <1>0, <2>2, <2>3, <2>4 DEF A!TypeOK
  <2>6. Accounted'
    BY <2>2 DEF AdminInv, Accounted
  <2>7. \A l \in codes' : l.id \in usedCodes'
    BY <2>2, <2>3, <2>4 DEF AdminInv
  <2>8. ASSUME ~adminsDisturbed
        PROVE  Coded'
    BY <2>2, <2>3, <2>4, <2>8 DEF AdminInv, Coded, Serving
  <2> QED
    BY <2>2, <2>5, <2>6, <2>7, <2>8 DEF AdminInv
<1> QED
  BY <1>2, <1>3, <1>4, <1>5, <1>6, <1>7, <1>8, <1>9, <1>10, <1>11, <1>12, <1>13,
     <1>14
  DEF A!Next, A!Roles

\* AdminManagementService and AdminAuthService: see AccountsAreSound of Admins.
THEOREM AccountsAreSoundAlways ==
    Spec => []AccountsAreSound
<1>1. Init => AdminInv
  BY AdminsBegin
<1>2. AdminInv /\ [Next]_vars => AdminInv'
  BY AdminsStep, AdminsStay DEF Next, vars
<1>3. AdminInv => AccountsAreSound
  BY DEF AdminInv, Accounted, Coded, AccountsAreSound, A!AccountsAreSound
<1> QED
  BY <1>1, <1>2, <1>3, PTL DEF Spec

-----------------------------------------------------------------------------
(* One call that tells users something.                                    *)

\* A user is to be reached in one way only, and nothing is sent of a notification
\* that is not stored.
Planned ==
    /\ socket \cap (heard \cup push \cup pushed) = {} /\ heard \cap (push \cup pushed) = {}
    /\ call # "events" => \A u, v \in to : u = v
    /\ step \in {"idle", "save"} => looked = {}
    /\ step = "idle" => to = {}
    /\ call = "notification" /\ note = "none" => step # "send" /\ heard = {} /\ pushed = {}

\* A user whose presence did not change is in his room if he is in front.
Steady == \A u \in Requests \ unsteady : u \in front <=> u \in room

\* User u has been told, or nothing could have reached him.
Told(u) ==
    \/ u \in heard \cup pushed
    \/ u \notin room /\ (u \notin tokens \/ (call = "events" /\ answer = "records"))

\* Or he is still to be told, in the way that will reach him.
OnItsWay(u) ==
    \/ u \in socket /\ u \in room
    \/ u \in push /\ (u \notin room \/ (call = "notification" /\ u \in tokens))

\* One of the two, for every user the call has looked at and lost nothing for.
Served == \A u \in looked \ (unsteady \cup lost) : Told(u) \/ OnItsWay(u)

\* A call that is over has lost everybody, or has looked at everybody and has
\* nobody left to tell.
Answered == step = "over" => to \subseteq lost \/ (looked = to /\ socket = {} /\ push = {})

\* All of it, whatever fails.
CallInv == D!TypeOK /\ Planned /\ Steady /\ Served /\ Answered

\* The state before the call has it.
LEMMA CallBegins == ASSUME Init PROVE CallInv
<1>1. D!Init
  BY DEF Init
<1> QED
  BY <1>1
  DEF D!Init, CallInv, D!TypeOK, D!Calls, Planned, Steady, Served, Answered

\* A step of another component changes nothing of it.
LEMMA CallStays == ASSUME CallInv, UNCHANGED callVars PROVE CallInv'
BY DEF callVars, CallInv, D!TypeOK, D!Calls, Planned, Steady, Served, Told,
       OnItsWay, Answered

\* Every step of the call keeps it, and so do users who come and go.
LEMMA CallStep ==
    ASSUME CallInv, D!Next
    PROVE  CallInv'
<1>0. /\ call \in D!Calls /\ answer \in {"tokens", "records"}
      /\ step \in {"idle", "save", "send", "over"}
      /\ front \subseteq Requests /\ room \subseteq Requests /\ tokens \subseteq Requests
      /\ to \subseteq Requests /\ unsteady \subseteq Requests /\ lost \subseteq Requests
      /\ looked \subseteq to /\ socket \subseteq looked /\ push \subseteq looked
      /\ heard \subseteq looked /\ pushed \subseteq looked
      /\ note \in {"none", "unread", "read"}
  BY DEF CallInv, D!TypeOK
<1>1. ASSUME NEW us \in SUBSET Requests, D!Send(us)
      PROVE  CallInv'
  <2>1. /\ step = "idle" /\ us # {}
        /\ call # "events" => \E u \in Requests : us = {u}
        /\ to' = us
        /\ step' = IF call = "notification" THEN "save" ELSE "send"
        /\ UNCHANGED <<call, answer, front, room, tokens, looked, socket, push,
                       heard, pushed, note, unsteady, lost>>
    BY <1>1 DEF D!Send, D!presenceVars
  <2>2. D!TypeOK'
    BY <2>1 DEF CallInv, Planned, D!TypeOK
  <2>3. Planned'
    BY <2>1 DEF CallInv, Planned
  <2>4. Steady'
    BY <2>1 DEF CallInv, Steady
  <2>5. Served'
    BY <2>1 DEF CallInv, Planned, Served
  <2>6. Answered'
    BY <2>1 DEF CallInv, Answered
  <2> QED
    BY <2>2, <2>3, <2>4, <2>5, <2>6 DEF CallInv
<1>2. ASSUME D!SaveNotification
      PROVE  CallInv'
  <2>1. /\ step = "save"
        /\ note' = "unread" /\ step' = "send"
        /\ UNCHANGED <<call, answer, front, room, tokens, to, looked, socket, push,
                       heard, pushed, unsteady, lost>>
    BY <1>0, <1>2
    DEF D!SaveNotification, D!presenceVars, D!planVars, D!Categorized
  <2>2. D!TypeOK'
    BY <2>1 DEF CallInv, D!TypeOK
  <2>3. Planned'
    BY <2>1 DEF CallInv, Planned
  <2>4. Steady'
    BY <2>1 DEF CallInv, Steady
  <2>5. Served'
    BY <2>1 DEF CallInv, Planned, Served
  <2>6. Answered'
    BY <2>1 DEF CallInv, Answered
  <2> QED
    BY <2>2, <2>3, <2>4, <2>5, <2>6 DEF CallInv
<1>3. ASSUME NEW u \in Requests, D!CategorizeUser(u)
      PROVE  CallInv'
  <2>1. /\ step = "send" /\ u \in to \ looked
        /\ looked' = looked \cup {u}
        /\ \/ u \in front /\ socket' = socket \cup {u} /\ push' = push
           \/ u \notin front /\ push' = push \cup {u} /\ socket' = socket
        /\ UNCHANGED <<call, answer, front, room, tokens, to, step, heard, pushed,
                       note, unsteady, lost>>
    BY <1>0, <1>3
    DEF D!CategorizeUser, D!presenceVars, D!planVars, D!Categorized
  <2>2. D!TypeOK'
    BY <2>1 DEF CallInv, D!TypeOK
  <2>3. Planned'
    BY <1>0, <2>1 DEF CallInv, Planned
  <2>4. Steady'
    BY <2>1 DEF CallInv, Steady
  <2>5. Served'
    BY <2>1 DEF CallInv, Steady, Served, Told, OnItsWay
  <2>6. Answered'
    BY <2>1 DEF CallInv, Answered
  <2> QED
    BY <2>2, <2>3, <2>4, <2>5, <2>6 DEF CallInv
<1>4. ASSUME NEW u \in Requests, D!EmitToRoom(u)
      PROVE  CallInv'
  <2>1. /\ step = "send" /\ looked = to /\ u \in socket
        /\ socket' = socket \ {u}
        /\ heard' = heard \cup ({u} \cap room)
        /\ UNCHANGED <<call, answer, front, room, tokens, to, looked, push, step,
                       pushed, note, unsteady, lost>>
    BY <1>4 DEF D!EmitToRoom, D!presenceVars, D!Categorized
  <2>2. D!TypeOK'
    BY <2>1 DEF CallInv, D!TypeOK
  <2>3. Planned'
    BY <2>1 DEF CallInv, Planned
  <2>4. Steady'
    BY <2>1 DEF CallInv, Steady
  <2>5. Served'
    BY <2>1 DEF CallInv, Served, Told, OnItsWay
  <2>6. Answered'
    BY <2>1 DEF CallInv, Answered
  <2> QED
    BY <2>2, <2>3, <2>4, <2>5, <2>6 DEF CallInv
<1>5. ASSUME NEW u \in Requests, D!PushToUser(u)
      PROVE  CallInv'
  <2>1. /\ step = "send" /\ looked = to /\ call # "events" /\ u \in push
        /\ push' = {}
        /\ pushed' = pushed \cup ({u} \cap tokens)
        /\ UNCHANGED <<call, answer, front, room, tokens, to, looked, socket, step,
                       heard, note, unsteady, lost>>
    BY <1>5 DEF D!PushToUser, D!presenceVars, D!Categorized
  <2>2. D!TypeOK'
    BY <2>1 DEF CallInv, D!TypeOK
  <2>3. Planned'
    BY <2>1 DEF CallInv, Planned
  <2>4. Steady'
    BY <2>1 DEF CallInv, Steady
  <2>5. Served'
    BY <1>0, <2>1 DEF CallInv, Planned, Served, Told, OnItsWay
  <2>6. Answered'
    BY <2>1 DEF CallInv, Answered
  <2> QED
    BY <2>2, <2>3, <2>4, <2>5, <2>6 DEF CallInv
<1>6. ASSUME D!PushToUsers
      PROVE  CallInv'
  <2>1. /\ step = "send" /\ looked = to /\ call = "events"
        /\ push' = {}
        /\ \/ answer = "tokens" /\ pushed' = pushed \cup (push \cap tokens)
           \/ answer = "records" /\ pushed' = pushed
        /\ UNCHANGED <<call, answer, front, room, tokens, to, looked, socket, step,
                       heard, note, unsteady, lost>>
    BY <1>0, <1>6 DEF D!PushToUsers, D!presenceVars, D!Categorized
  <2>2. D!TypeOK'
    BY <2>1 DEF CallInv, D!TypeOK
  <2>3. Planned'
    BY <2>1 DEF CallInv, Planned
  <2>4. Steady'
    BY <2>1 DEF CallInv, Steady
  <2>5. Served'
    BY <2>1 DEF CallInv, Served, Told, OnItsWay
  <2>6. Answered'
    BY <2>1 DEF CallInv, Answered
  <2> QED
    BY <2>2, <2>3, <2>4, <2>5, <2>6 DEF CallInv
<1>7. ASSUME D!Finish
      PROVE  CallInv'
  <2>1. /\ step = "send" /\ looked = to /\ socket = {} /\ push = {}
        /\ step' = "over"
        /\ UNCHANGED <<call, answer, front, room, tokens, to, looked, socket, push,
                       heard, pushed, note, unsteady, lost>>
    BY <1>7 DEF D!Finish, D!presenceVars, D!planVars, D!Categorized
  <2>2. D!TypeOK'
    BY <2>1 DEF CallInv, D!TypeOK
  <2>3. Planned'
    BY <2>1 DEF CallInv, Planned
  <2>4. Steady'
    BY <2>1 DEF CallInv, Steady
  <2>5. Served'
    BY <2>1 DEF CallInv, Served, Told, OnItsWay
  <2>6. Answered'
    BY <2>1 DEF CallInv, Answered
  <2> QED
    BY <2>2, <2>3, <2>4, <2>5, <2>6 DEF CallInv
<1>8. ASSUME D!FailToPlan
      PROVE  CallInv'
  <2>1. /\ step = "save" \/ (step = "send" /\ looked # to)
        /\ step' = "over" /\ lost' = to
        /\ socket' = {} /\ push' = {}
        /\ UNCHANGED <<call, answer, front, room, tokens, to, looked, heard, pushed,
                       note, unsteady>>
    BY <1>8 DEF D!FailToPlan, D!presenceVars
  <2>2. D!TypeOK'
    BY <2>1 DEF CallInv, D!TypeOK
  <2>3. Planned'
    BY <2>1 DEF CallInv, Planned
  <2>4. Steady'
    BY <2>1 DEF CallInv, Steady
  <2>5. Served'
    BY <1>0, <2>1 DEF CallInv, Served
  <2>6. Answered'
    BY <2>1 DEF CallInv, Answered
  <2> QED
    BY <2>2, <2>3, <2>4, <2>5, <2>6 DEF CallInv
<1>9. ASSUME NEW u \in Requests, D!FailToEmit(u)
      PROVE  CallInv'
  <2>1. /\ step = "send" /\ looked = to /\ u \in socket
        /\ socket' = socket \ {u}
        /\ \/ /\ call = "notification" /\ push' = push \cup {u}
              /\ lost' = lost \cup ({u} \ tokens)
           \/ call # "notification" /\ lost' = lost \cup {u} /\ push' = push
        /\ UNCHANGED <<call, answer, front, room, tokens, to, looked, step, heard,
                       pushed, note, unsteady>>
    BY <1>9 DEF D!FailToEmit, D!presenceVars, D!Categorized
  <2>2. D!TypeOK'
    BY <2>1 DEF CallInv, D!TypeOK
  <2>3. Planned'
    BY <2>1 DEF CallInv, Planned
  <2>4. Steady'
    BY <2>1 DEF CallInv, Steady
  <2>5. Served'
    BY <2>1 DEF CallInv, Served, Told, OnItsWay
  <2>6. Answered'
    BY <2>1 DEF CallInv, Answered
  <2> QED
    BY <2>2, <2>3, <2>4, <2>5, <2>6 DEF CallInv
<1>10. ASSUME D!FailToPush
      PROVE  CallInv'
  <2>1. /\ step = "send" /\ looked = to
        /\ push' = {} /\ lost' = lost \cup push
        /\ UNCHANGED <<call, answer, front, room, tokens, to, looked, socket, step,
                       heard, pushed, note, unsteady>>
    BY <1>10 DEF D!FailToPush, D!presenceVars, D!Categorized
  <2>2. D!TypeOK'
    BY <2>1 DEF CallInv, D!TypeOK
  <2>3. Planned'
    BY <2>1 DEF CallInv, Planned
  <2>4. Steady'
    BY <2>1 DEF CallInv, Steady
  <2>5. Served'
    BY <2>1 DEF CallInv, Served, Told, OnItsWay
  <2>6. Answered'
    BY <2>1 DEF CallInv, Answered
  <2> QED
    BY <2>2, <2>3, <2>4, <2>5, <2>6 DEF CallInv
<1>11. ASSUME NEW u \in Requests, D!PresenceChanges(u)
      PROVE  CallInv'
  <2>1. /\ step # "over"
        /\ \/ front' \in {front \cup {u}, front \ {u}} /\ room' = room
           \/ room' \in {room \cup {u}, room \ {u}} /\ front' = front
        /\ \/ /\ step # "idle" \/ (u \in front') # (u \in room')
              /\ unsteady' = unsteady \cup {u}
           \/ /\ step = "idle" /\ (u \in front' <=> u \in room')
              /\ unsteady' = unsteady \ {u}
        /\ UNCHANGED <<call, answer, tokens, to, looked, socket, push, step, heard,
                       pushed, note, lost>>
    BY <1>0, <1>11
    DEF D!PresenceChanges, D!presenceVars, D!planVars, D!Categorized
  <2>2. D!TypeOK'
    BY <2>1 DEF CallInv, D!TypeOK
  <2>3. Planned'
    BY <2>1 DEF CallInv, Planned
  <2>4. Steady'
    BY <2>1 DEF CallInv, Steady
  <2>5. Served'
    BY <2>1 DEF CallInv, Planned, Served, Told, OnItsWay
  <2>6. Answered'
    BY <2>1 DEF CallInv, Answered
  <2> QED
    BY <2>2, <2>3, <2>4, <2>5, <2>6 DEF CallInv
<1>12. ASSUME D!MarkAsRead
      PROVE  CallInv'
  <2>1. /\ note = "unread" /\ note' = "read"
        /\ UNCHANGED <<call, answer, front, room, tokens, to, looked, socket, push,
                       step, heard, pushed, unsteady, lost>>
    BY <1>12 DEF D!MarkAsRead, D!presenceVars, D!planVars
  <2>2. D!TypeOK'
    BY <2>1 DEF CallInv, D!TypeOK
  <2>3. Planned'
    BY <2>1 DEF CallInv, Planned
  <2>4. Steady'
    BY <2>1 DEF CallInv, Steady
  <2>5. Served'
    BY <2>1 DEF CallInv, Served, Told, OnItsWay
  <2>6. Answered'
    BY <2>1 DEF CallInv, Answered
  <2> QED
    BY <2>2, <2>3, <2>4, <2>5, <2>6 DEF CallInv
<1> QED
  BY <1>1, <1>2, <1>3, <1>4, <1>5, <1>6, <1>7, <1>8, <1>9, <1>10, <1>11, <1>12
  DEF D!Next

\* Event2Service and NotificationsService: see ToldOnce of Delivery.
THEOREM ToldOnceAlways ==
    Spec => []ToldOnce
<1>1. Init => CallInv
  BY CallBegins
<1>2. CallInv /\ [Next]_vars => CallInv'
  BY CallStep, CallStays DEF Next, vars
<1>3. CallInv => ToldOnce
  BY DEF CallInv, Planned, Served, Told, OnItsWay, Answered, ToldOnce,
         D!ToldOnce
<1> QED
  BY <1>1, <1>2, <1>3, PTL DEF Spec

-----------------------------------------------------------------------------
(* Cards.                                                                  *)

\* A save past its attach, and every other request, works on a card that is
\* attached or recorded; an active card is attached, or its deletion is about to
\* hide it, or has stopped there.
Tracked ==
    /\ \A r \in Requests :
          /\ cardWork[r].op = "save" /\ (cardWork[r].at # "attach" \/ cardWork[r].flag) =>
                cardWork[r].card \in attached \cup C!Known
          /\ cardWork[r].op \in {"default", "delete"} => cardWork[r].card \in C!Known
    /\ \A c \in active :
          \/ c \in attached \cup torn
          \/ \E r \in Requests : cardWork[r].at = "hide" /\ cardWork[r].card = c

\* The steps a request of each kind takes.
StepsFit ==
    \A r \in Requests :
       /\ cardWork[r].op = "save" => cardWork[r].at \in {"attach", "list", "unset", "create"}
       /\ cardWork[r].op = "default" => cardWork[r].at \in {"unset", "mark"}
       /\ cardWork[r].op = "delete" => cardWork[r].at \in {"detach", "hide", "pick", "mark"}

\* Nobody but r is being served.
Alone(r) == \A q \in Requests \ {r} : cardWork[q] = C!Idle

\* A request that sets the default with nothing in between is alone, its card is
\* still active and, once it has unset the others, there is no default.
Mending ==
    \A r \in Requests :
       cardWork[r].op = "default" /\ cardWork[r].flag =>
          /\ Alone(r) /\ cardWork[r].card \in active
          /\ cardWork[r].at = "mark" => default = {}

\* A customer with active cards has one default, an active one.
OneDefault == IF active = {} THEN default = {} ELSE \E c \in active : default = {c}

\* What holds at each step of r when it is alone: while the default is being
\* moved there is none, and a deletion knows whether its card was the default.
InOrder(r) ==
    /\ cardWork[r].at \in {"list", "attach", "unset", "detach", "hide"} => OneDefault
    /\ cardWork[r].at \in {"create", "pick", "mark"} => default = {}
    /\ cardWork[r].op = "save" => cardWork[r].card \notin C!Known
    /\ cardWork[r].at \in {"detach", "hide"} =>
          /\ cardWork[r].card \in active
          /\ cardWork[r].flag <=> cardWork[r].card \in default
    /\ cardWork[r].at = "mark" \/ cardWork[r].op = "default" => cardWork[r].card \in active

\* One request at a time, and one default between two.
Undisturbed ==
    /\ \A r \in Requests : cardWork[r] # C!Idle => Alone(r) /\ InOrder(r)
    /\ C!Quiet => OneDefault

\* The latter holds until requests overlap or one stops half-way, and again once
\* a default has been set with nothing in between.
CardInv ==
    /\ C!TypeOK /\ Tracked /\ StepsFit /\ Mending
    /\ ~cardsDisturbed => Undisturbed

\* The state without cards has it.
LEMMA CardsBegin == ASSUME Init PROVE CardInv
<1>1. /\ billed = FALSE /\ attached = {} /\ setups = {} /\ succeeded = {} /\ created = <<>>
      /\ active = {} /\ default = {} /\ torn = {} /\ cardsDisturbed = FALSE
  BY DEF Init, C!Init
<1>2. /\ cardWork \in [Requests -> C!Works \cup {C!Idle}]
      /\ \A r \in Requests : cardWork[r] = C!Idle
      /\ \A r \in Requests : cardWork[r].op = "none" /\ cardWork[r].at = "none"
  BY DEF Init, C!Init, C!Idle
<1>3. created \in Seq(Things) /\ DOMAIN created = {}
  BY <1>1
<1>4. C!TypeOK
  BY <1>1, <1>2, <1>3 DEF C!TypeOK, C!IsInjective
<1> QED
  BY <1>1, <1>2, <1>4
  DEF CardInv, Tracked, StepsFit, Mending, Undisturbed, OneDefault

\* A step of another component changes nothing of it.
LEMMA CardsStay == ASSUME CardInv, UNCHANGED cardVars PROVE CardInv'
BY DEF cardVars, CardInv, C!TypeOK, C!Known, C!Quiet, Tracked, StepsFit,
       Mending, Alone, OneDefault, InOrder, Undisturbed

\* Every call of PaymentMethodService and what Stripe does keep it.
LEMMA CardsStep ==
    ASSUME CardInv, C!Next
    PROVE  CardInv'
<1> DEFINE Type == C!Works \cup {C!Idle}
<1>0. /\ created \in Seq(Things) /\ C!IsInjective(created)
      /\ active \subseteq C!Known /\ default \subseteq C!Known /\ attached \subseteq Things
      /\ cardWork \in [Requests -> Type]
      /\ succeeded \subseteq setups /\ setups \subseteq Things /\ torn \subseteq Things
      /\ billed \in BOOLEAN /\ cardsDisturbed \in BOOLEAN
  BY DEF CardInv, C!TypeOK
<1>1. C!Known \subseteq Things
  BY <1>0 DEF C!Known
<1>k. created' = created => C!Known' = C!Known
  BY DEF C!Known
<1>t. ASSUME created' = created, active' \subseteq C!Known, default' \subseteq C!Known,
             attached' \subseteq Things, cardWork' \in [Requests -> Type],
             setups' = setups, succeeded' = succeeded, torn' \subseteq Things,
             billed' = billed, cardsDisturbed' \in BOOLEAN
      PROVE  C!TypeOK'
  BY <1>0, <1>k, <1>t DEF C!TypeOK
<1>i. /\ C!Idle.op = "none" /\ C!Idle.at = "none" /\ C!Idle.flag = FALSE
      /\ \A w \in C!Works : /\ w.op \in {"save", "default", "delete"} /\ w.card \in Things
                            /\ w.at \in C!Steps /\ w.flag \in BOOLEAN /\ w # C!Idle
  BY DEF C!Works, C!Idle
<1>w. \A r \in Requests : cardWork[r].at # "none" => cardWork[r] \in C!Works
  BY <1>0, <1>i
<1>g. ASSUME NEW r \in Requests, NEW s \in C!Steps, cardWork[r] \in C!Works, C!Goes(r, s)
      PROVE  /\ cardWork' \in [Requests -> Type] /\ cardWork'[r] \in C!Works
             /\ \A q \in Requests \ {r} : cardWork'[q] = cardWork[q]
             /\ cardWork'[r].at = s /\ cardWork'[r].op = cardWork[r].op
             /\ cardWork'[r].card = cardWork[r].card /\ cardWork'[r].flag = cardWork[r].flag
  <2> DEFINE w == [cardWork[r] EXCEPT !.at = s]
  <2>1. /\ w \in C!Works /\ w.at = s /\ w.op = cardWork[r].op
        /\ w.card = cardWork[r].card /\ w.flag = cardWork[r].flag
    BY <1>g DEF C!Works
  <2>2. cardWork' = [cardWork EXCEPT ![r] = w]
    BY <1>g DEF C!Goes
  <2> HIDE DEF w
  <2> QED
    BY <1>0, <2>1, <2>2
<1>e. ASSUME NEW r \in Requests, C!Ends(r)
      PROVE  /\ cardWork' \in [Requests -> Type] /\ cardWork'[r] = C!Idle
             /\ \A q \in Requests \ {r} : cardWork'[q] = cardWork[q]
  BY <1>0, <1>e DEF C!Ends
<1>s. ASSUME NEW r \in Requests, NEW op \in {"save", "default", "delete"}, NEW c \in Things,
             NEW s \in C!Steps, NEW flag \in BOOLEAN, C!Starts(r, op, c, s, flag),
             UNCHANGED <<billed, attached, setups, succeeded, created, active, default, torn>>,
             \/ /\ op = "save" /\ s = "attach" /\ c \notin C!Known
                /\ flag => c \in attached
             \/ op = "default" /\ s = "unset" /\ c \in active /\ (flag => C!Quiet)
             \/ /\ op = "delete" /\ s = "detach" /\ c \in active
                /\ flag <=> c \in default
      PROVE  CardInv'
  <2> DEFINE w == [op |-> op, card |-> c, at |-> s, flag |-> flag]
  <2>1. w \in C!Works /\ w.op = op /\ w.card = c /\ w.at = s /\ w.flag = flag
    BY DEF C!Works
  <2>2. /\ cardWork[r] = C!Idle /\ cardsDisturbed' \in BOOLEAN
        /\ ~cardsDisturbed' => ~cardsDisturbed /\ C!Quiet
    BY <1>s DEF C!Starts
  <2> DEFINE stale(q) == IF cardWork[q].op = "default" THEN [cardWork[q] EXCEPT !.flag = FALSE]
                                                       ELSE cardWork[q]
  <2>3. cardWork' = [q \in Requests |-> IF q = r THEN w ELSE stale(q)]
    BY <1>s DEF C!Starts
  <2>4. ASSUME NEW q \in Requests
        PROVE  /\ stale(q) \in Type /\ stale(q).op = cardWork[q].op
               /\ stale(q).at = cardWork[q].at /\ stale(q).card = cardWork[q].card
               /\ stale(q).op = "default" => ~stale(q).flag
               /\ stale(q).op # "default" => stale(q) = cardWork[q]
               /\ cardWork[q] = C!Idle => stale(q) = C!Idle
    <3>1. CASE cardWork[q].op = "default"
      <4>1. cardWork[q] \in C!Works
        BY <1>0, <1>i, <3>1
      <4> DEFINE v == [cardWork[q] EXCEPT !.flag = FALSE]
      <4>2. /\ v \in C!Works /\ v.op = cardWork[q].op /\ v.at = cardWork[q].at
            /\ v.card = cardWork[q].card /\ v.flag = FALSE
        BY <4>1 DEF C!Works
      <4>3. stale(q) = v /\ cardWork[q] # C!Idle
        BY <1>i, <3>1
      <4> HIDE DEF v, stale
      <4> QED
        BY <3>1, <4>2, <4>3
    <3>2. CASE cardWork[q].op # "default"
      BY <1>0, <3>2
    <3> QED
      BY <3>1, <3>2
  <2> HIDE DEF w, stale
  <2>5. /\ cardWork' \in [Requests -> Type] /\ cardWork'[r] = w
        /\ \A q \in Requests \ {r} : cardWork'[q] = stale(q)
    BY <2>1, <2>3, <2>4
  <2>6. C!TypeOK'
    BY <1>0, <1>t, <1>s, <2>2, <2>5
  <2>7. Tracked'
    BY <1>0, <1>i, <1>k, <1>s, <2>1, <2>2, <2>4, <2>5 DEF CardInv, Tracked
  <2>8. StepsFit'
    BY <1>s, <2>1, <2>4, <2>5 DEF CardInv, StepsFit
  <2>9. Mending'
    <3>1. flag /\ op = "default" => Alone(r)'
      BY <1>s, <2>4, <2>5 DEF C!Quiet, Alone
    <3> QED
      BY <1>s, <2>1, <2>4, <2>5, <3>1 DEF Mending
  <2>10. ASSUME ~cardsDisturbed'
         PROVE  Undisturbed'
    <3>1. OneDefault'
      BY <1>s, <2>2, <2>10 DEF CardInv, Undisturbed, OneDefault
    <3>2. \A q \in Requests \ {r} : cardWork'[q] = C!Idle
      BY <2>2, <2>4, <2>5, <2>10 DEF C!Quiet
    <3>3. InOrder(r)'
      BY <1>k, <1>s, <2>1, <2>5, <3>1 DEF InOrder
    <3> QED
      BY <3>1, <3>2, <3>3 DEF Undisturbed, Alone
  <2> QED
    BY <2>2, <2>6, <2>7, <2>8, <2>9, <2>10 DEF CardInv
<1>2. ASSUME C!CreateStripeCustomer
      PROVE  CardInv'
  BY <1>2
  DEF C!CreateStripeCustomer, CardInv, C!TypeOK, C!Known, C!Quiet, C!IsInjective, Tracked,
      StepsFit, Mending, Alone, OneDefault, InOrder, Undisturbed
<1>3. ASSUME NEW c \in Things, C!CreateSetupIntent(c)
      PROVE  CardInv'
  BY <1>3
  DEF C!CreateSetupIntent, CardInv, C!TypeOK, C!Known, C!Quiet, C!IsInjective, Tracked,
      StepsFit, Mending, Alone, OneDefault, InOrder, Undisturbed
<1>4. ASSUME NEW c \in Things, C!SetupSucceeds(c)
      PROVE  CardInv'
  BY <1>4
  DEF C!SetupSucceeds, CardInv, C!TypeOK, C!Known, C!Quiet, C!IsInjective, Tracked,
      StepsFit, Mending, Alone, OneDefault, InOrder, Undisturbed
<1>5. ASSUME NEW r \in Requests, NEW c \in Things, C!StartSave(r, c) \/ C!StartFakeSave(r, c)
      PROVE  CardInv'
  <2>1. /\ c \notin C!Known /\ C!Starts(r, "save", c, "attach", c \in attached)
        /\ UNCHANGED <<billed, attached, setups, succeeded, created, active, default, torn>>
    BY <1>5 DEF C!StartSave, C!StartFakeSave, C!Saves, C!stripeVars
  <2> DEFINE flag == c \in attached
  <2>2. flag \in BOOLEAN /\ (flag => c \in attached) /\ "attach" \in C!Steps
    BY DEF C!Steps
  <2>3. C!Starts(r, "save", c, "attach", flag)
    BY <2>1
  <2> HIDE DEF flag
  <2> QED
    BY <1>s, <2>1, <2>2, <2>3
<1>6. ASSUME NEW r \in Requests, NEW c \in Things, C!StartDefault(r, c)
      PROVE  CardInv'
  <2>1. /\ c \in active /\ C!Starts(r, "default", c, "unset", C!Quiet)
        /\ UNCHANGED <<billed, attached, setups, succeeded, created, active, default, torn>>
    BY <1>6 DEF C!StartDefault, C!stripeVars
  <2> DEFINE flag == C!Quiet
  <2>2. flag \in BOOLEAN /\ (flag => C!Quiet) /\ "unset" \in C!Steps
    BY DEF C!Quiet, C!Steps
  <2>3. C!Starts(r, "default", c, "unset", flag)
    BY <2>1
  <2> HIDE DEF flag
  <2> QED
    BY <1>s, <2>1, <2>2, <2>3
<1>7. ASSUME NEW r \in Requests, NEW c \in Things, C!StartDelete(r, c)
      PROVE  CardInv'
  <2>1. /\ c \in active /\ C!Starts(r, "delete", c, "detach", c \in default)
        /\ UNCHANGED <<billed, attached, setups, succeeded, created, active, default, torn>>
    BY <1>7 DEF C!StartDelete, C!stripeVars
  <2> DEFINE flag == c \in default
  <2>2. flag \in BOOLEAN /\ (flag <=> c \in default) /\ "detach" \in C!Steps
    BY DEF C!Steps
  <2>3. C!Starts(r, "delete", c, "detach", flag)
    BY <2>1
  <2> HIDE DEF flag
  <2> QED
    BY <1>s, <2>1, <2>2, <2>3
<1>8. ASSUME NEW r \in Requests, C!Attach(r)
      PROVE  CardInv'
  <2>1. /\ cardWork[r].at = "attach"
        /\ attached \subseteq attached' /\ attached' \subseteq Things
        /\ cardWork[r].flag \/ cardWork[r].card \in attached'
        /\ UNCHANGED <<billed, setups, succeeded, created, active, default, torn,
                       cardsDisturbed>>
    BY <1>0, <1>i, <1>8 DEF C!Attach
  <2>2. cardWork[r] \in C!Works
    BY <1>w, <2>1
  <2>3. C!Goes(r, "list")
    BY <1>8, <2>1 DEF C!Attach
  <2>4. /\ cardWork' \in [Requests -> Type]
        /\ \A q \in Requests \ {r} : cardWork'[q] = cardWork[q]
    BY <1>g, <2>2, <2>3 DEF C!Steps
  <2>5. \/ /\ cardWork'[r].at = "list"
           /\ cardWork'[r] \in C!Works /\ cardWork'[r].op = cardWork[r].op
           /\ cardWork'[r].card = cardWork[r].card /\ cardWork'[r].flag = cardWork[r].flag
    BY <1>g, <2>2, <2>3 DEF C!Steps
  <2>6. C!TypeOK'
    BY <1>0, <1>t, <2>1, <2>2, <2>4 DEF CardInv
  <2>7. Tracked'
    BY <1>k, <2>1, <2>2, <2>4, <2>5 DEF CardInv, Tracked
  <2>8. StepsFit'
    BY <2>1, <2>2, <2>4, <2>5 DEF CardInv, StepsFit
  <2>9. Mending'
    BY <1>i, <2>1, <2>2, <2>4, <2>5 DEF CardInv, Mending, Alone
  <2>10. ASSUME ~cardsDisturbed'
         PROVE  Undisturbed'
    <3>1. /\ \A q \in Requests \ {r} : cardWork[q] = C!Idle
          /\ InOrder(r)
      BY <1>i, <2>1, <2>2, <2>10 DEF CardInv, Undisturbed, Alone
    <3>2. Alone(r)'
      BY <2>4, <3>1 DEF Alone
    <3>3. cardWork'[r] = C!Idle => OneDefault'
      BY <1>i, <2>1, <2>2, <2>5, <3>1 DEF CardInv
    <3>4. cardWork'[r] # C!Idle => InOrder(r)'
      BY <1>k, <2>1, <2>2, <2>5, <3>1
      DEF InOrder, OneDefault, CardInv, StepsFit
    <3> QED
      BY <3>2, <3>3, <3>4 DEF Undisturbed, Alone, C!Quiet
  <2> QED
    BY <2>1, <2>6, <2>7, <2>8, <2>9, <2>10 DEF CardInv
<1>9. ASSUME NEW r \in Requests, C!ListCards(r)
      PROVE  CardInv'
  <2>1. /\ cardWork[r].at = "list"
        /\ UNCHANGED <<billed, attached, setups, succeeded, created, active, default,
                       torn, cardsDisturbed>>
    BY <1>9 DEF C!ListCards, C!stripeVars
  <2>2. cardWork[r] \in C!Works
    BY <1>w, <2>1
  <2>3. \/ active = {} /\ C!Goes(r, "create")
        \/ active # {} /\ C!Goes(r, "unset")
    BY <1>9, <2>1 DEF C!ListCards
  <2>4. /\ cardWork' \in [Requests -> Type]
        /\ \A q \in Requests \ {r} : cardWork'[q] = cardWork[q]
    BY <1>g, <2>2, <2>3 DEF C!Steps
  <2>5. \/ /\ active = {} /\ cardWork'[r].at = "create"
           /\ cardWork'[r] \in C!Works /\ cardWork'[r].op = cardWork[r].op
           /\ cardWork'[r].card = cardWork[r].card /\ cardWork'[r].flag = cardWork[r].flag
        \/ /\ active # {} /\ cardWork'[r].at = "unset"
           /\ cardWork'[r] \in C!Works /\ cardWork'[r].op = cardWork[r].op
           /\ cardWork'[r].card = cardWork[r].card /\ cardWork'[r].flag = cardWork[r].flag
    BY <1>g, <2>2, <2>3 DEF C!Steps
  <2>6. C!TypeOK'
    BY <1>0, <1>t, <2>1, <2>2, <2>4 DEF CardInv
  <2>7. Tracked'
    BY <1>k, <2>1, <2>2, <2>4, <2>5 DEF CardInv, Tracked
  <2>8. StepsFit'
    BY <2>1, <2>2, <2>4, <2>5 DEF CardInv, StepsFit
  <2>9. Mending'
    BY <1>i, <2>1, <2>2, <2>4, <2>5 DEF CardInv, Mending, Alone
  <2>10. ASSUME ~cardsDisturbed'
         PROVE  Undisturbed'
    <3>1. /\ \A q \in Requests \ {r} : cardWork[q] = C!Idle
          /\ InOrder(r)
      BY <1>i, <2>1, <2>2, <2>10 DEF CardInv, Undisturbed, Alone
    <3>2. Alone(r)'
      BY <2>4, <3>1 DEF Alone
    <3>3. cardWork'[r] = C!Idle => OneDefault'
      BY <1>i, <2>1, <2>2, <2>5, <3>1 DEF CardInv
    <3>4. cardWork'[r] # C!Idle => InOrder(r)'
      BY <1>k, <2>1, <2>2, <2>5, <3>1
      DEF InOrder, OneDefault, CardInv, StepsFit
    <3> QED
      BY <3>2, <3>3, <3>4 DEF Undisturbed, Alone, C!Quiet
  <2> QED
    BY <2>1, <2>6, <2>7, <2>8, <2>9, <2>10 DEF CardInv
<1>10. ASSUME NEW r \in Requests, C!Unset(r)
      PROVE  CardInv'
  <2>1. /\ cardWork[r].at = "unset"
        /\ default' = {}
        /\ UNCHANGED <<billed, attached, setups, succeeded, created, active, torn,
                       cardsDisturbed>>
    BY <1>10 DEF C!Unset, C!stripeVars
  <2>2. cardWork[r] \in C!Works
    BY <1>w, <2>1
  <2>3. \/ cardWork[r].op = "save" /\ C!Goes(r, "create")
        \/ cardWork[r].op # "save" /\ C!Goes(r, "mark")
    BY <1>10, <2>1 DEF C!Unset
  <2>4. /\ cardWork' \in [Requests -> Type]
        /\ \A q \in Requests \ {r} : cardWork'[q] = cardWork[q]
    BY <1>g, <2>2, <2>3 DEF C!Steps
  <2>5. \/ /\ cardWork[r].op = "save" /\ cardWork'[r].at = "create"
           /\ cardWork'[r] \in C!Works /\ cardWork'[r].op = cardWork[r].op
           /\ cardWork'[r].card = cardWork[r].card /\ cardWork'[r].flag = cardWork[r].flag
        \/ /\ cardWork[r].op # "save" /\ cardWork'[r].at = "mark"
           /\ cardWork'[r] \in C!Works /\ cardWork'[r].op = cardWork[r].op
           /\ cardWork'[r].card = cardWork[r].card /\ cardWork'[r].flag = cardWork[r].flag
    BY <1>g, <2>2, <2>3 DEF C!Steps
  <2>6. C!TypeOK'
    BY <1>0, <1>t, <2>1, <2>2, <2>4 DEF CardInv
  <2>7. Tracked'
    BY <1>k, <2>1, <2>2, <2>4, <2>5 DEF CardInv, Tracked
  <2>8. StepsFit'
    BY <2>1, <2>2, <2>4, <2>5 DEF CardInv, StepsFit
  <2>9. Mending'
    BY <1>i, <2>1, <2>2, <2>4, <2>5 DEF CardInv, Mending, Alone
  <2>10. ASSUME ~cardsDisturbed'
         PROVE  Undisturbed'
    <3>1. /\ \A q \in Requests \ {r} : cardWork[q] = C!Idle
          /\ InOrder(r)
      BY <1>i, <2>1, <2>2, <2>10 DEF CardInv, Undisturbed, Alone
    <3>2. Alone(r)'
      BY <2>4, <3>1 DEF Alone
    <3>3. cardWork'[r] = C!Idle => OneDefault'
      BY <1>i, <2>1, <2>2, <2>5, <3>1 DEF CardInv
    <3>4. cardWork'[r] # C!Idle => InOrder(r)'
      BY <1>i, <1>k, <2>1, <2>2, <2>5, <3>1
      DEF InOrder, OneDefault, CardInv, StepsFit
    <3> QED
      BY <3>2, <3>3, <3>4 DEF Undisturbed, Alone, C!Quiet
  <2> QED
    BY <2>1, <2>6, <2>7, <2>8, <2>9, <2>10 DEF CardInv
<1>11. ASSUME NEW r \in Requests, C!Mark(r)
      PROVE  CardInv'
  <2>1. /\ cardWork[r].at = "mark"
        /\ default' = default \cup {cardWork[r].card}
        /\ cardsDisturbed' \in BOOLEAN
        /\ cardsDisturbed' <=> cardsDisturbed /\ ~(cardWork[r].op = "default" /\ cardWork[r].flag)
        /\ UNCHANGED <<billed, attached, setups, succeeded, created, active, torn>>
    BY <1>11 DEF C!Mark, C!stripeVars
  <2>2. cardWork[r] \in C!Works
    BY <1>w, <2>1
  <2>3. C!Ends(r)
    BY <1>11, <2>1 DEF C!Mark
  <2>4. /\ cardWork' \in [Requests -> Type]
        /\ \A q \in Requests \ {r} : cardWork'[q] = cardWork[q]
    BY <1>e, <2>2, <2>3 DEF C!Steps
  <2>5. cardWork'[r] = C!Idle
    BY <1>e, <2>2, <2>3 DEF C!Steps
  <2>6. C!TypeOK'
    BY <1>0, <1>i, <1>t, <2>1, <2>2, <2>4 DEF CardInv, Tracked, StepsFit
  <2>7. Tracked'
    BY <1>i, <1>k, <2>1, <2>2, <2>4, <2>5 DEF CardInv, Tracked
  <2>8. StepsFit'
    BY <1>i, <2>1, <2>2, <2>4, <2>5 DEF CardInv, StepsFit
  <2>9. Mending'
    BY <1>i, <2>1, <2>2, <2>4, <2>5 DEF CardInv, Mending, Alone
  <2>10. ASSUME ~cardsDisturbed'
         PROVE  Undisturbed'
    <3>1. /\ \A q \in Requests \ {r} : cardWork[q] = C!Idle
          /\ default = {} /\ cardWork[r].card \in active
      BY <1>i, <2>1, <2>2, <2>10
      DEF CardInv, Mending, Undisturbed, Alone, InOrder
    <3>2. Alone(r)'
      BY <2>4, <3>1 DEF Alone
    <3>3. cardWork'[r] = C!Idle => OneDefault'
      BY <2>1, <3>1 DEF OneDefault
    <3>4. cardWork'[r] # C!Idle => InOrder(r)'
      BY <2>1, <2>2, <2>5, <3>1
      DEF InOrder, OneDefault, CardInv, StepsFit
    <3> QED
      BY <3>2, <3>3, <3>4 DEF Undisturbed, Alone, C!Quiet
  <2> QED
    BY <2>1, <2>6, <2>7, <2>8, <2>9, <2>10 DEF CardInv
<1>12. ASSUME NEW r \in Requests, C!Detach(r)
      PROVE  CardInv'
  <2>1. /\ cardWork[r].at = "detach"
        /\ attached' \in {attached \ {cardWork[r].card}, attached}
        /\ UNCHANGED <<billed, setups, succeeded, created, active, default, torn,
                       cardsDisturbed>>
    BY <1>12 DEF C!Detach
  <2>2. cardWork[r] \in C!Works
    BY <1>w, <2>1
  <2>3. C!Goes(r, "hide")
    BY <1>12, <2>1 DEF C!Detach
  <2>4. /\ cardWork' \in [Requests -> Type]
        /\ \A q \in Requests \ {r} : cardWork'[q] = cardWork[q]
    BY <1>g, <2>2, <2>3 DEF C!Steps
  <2>5. \/ /\ cardWork'[r].at = "hide"
           /\ cardWork'[r] \in C!Works /\ cardWork'[r].op = cardWork[r].op
           /\ cardWork'[r].card = cardWork[r].card /\ cardWork'[r].flag = cardWork[r].flag
    BY <1>g, <2>2, <2>3 DEF C!Steps
  <2>6. C!TypeOK'
    BY <1>0, <1>t, <2>1, <2>2, <2>4 DEF CardInv
  <2>7. Tracked'
    BY <1>i, <1>k, <2>1, <2>2, <2>4, <2>5 DEF CardInv, Tracked, StepsFit
  <2>8. StepsFit'
    BY <2>1, <2>2, <2>4, <2>5 DEF CardInv, StepsFit
  <2>9. Mending'
    BY <1>i, <2>1, <2>2, <2>4, <2>5 DEF CardInv, Mending, Alone
  <2>10. ASSUME ~cardsDisturbed'
         PROVE  Undisturbed'
    <3>1. /\ \A q \in Requests \ {r} : cardWork[q] = C!Idle
          /\ InOrder(r)
      BY <1>i, <2>1, <2>2, <2>10 DEF CardInv, Undisturbed, Alone
    <3>2. Alone(r)'
      BY <2>4, <3>1 DEF Alone
    <3>3. cardWork'[r] = C!Idle => OneDefault'
      BY <1>i, <2>1, <2>2, <2>5, <3>1 DEF CardInv
    <3>4. cardWork'[r] # C!Idle => InOrder(r)'
      BY <2>1, <2>2, <2>5, <3>1
      DEF InOrder, OneDefault, CardInv, StepsFit
    <3> QED
      BY <3>2, <3>3, <3>4 DEF Undisturbed, Alone, C!Quiet
  <2> QED
    BY <2>1, <2>6, <2>7, <2>8, <2>9, <2>10 DEF CardInv
<1>13. ASSUME NEW r \in Requests, C!Hide(r)
      PROVE  CardInv'
  <2>1. /\ cardWork[r].at = "hide"
        /\ active' = active \ {cardWork[r].card}
        /\ default' = default \ {cardWork[r].card}
        /\ UNCHANGED <<billed, attached, setups, succeeded, created, torn,
                       cardsDisturbed>>
    BY <1>13 DEF C!Hide, C!stripeVars
  <2>2. cardWork[r] \in C!Works
    BY <1>w, <2>1
  <2>3. \/ cardWork[r].flag /\ C!Goes(r, "pick")
        \/ ~cardWork[r].flag /\ C!Ends(r)
    BY <1>13, <2>1 DEF C!Hide
  <2>4. /\ cardWork' \in [Requests -> Type]
        /\ \A q \in Requests \ {r} : cardWork'[q] = cardWork[q]
    BY <1>g, <1>e, <2>2, <2>3 DEF C!Steps
  <2>5. \/ /\ cardWork[r].flag /\ cardWork'[r].at = "pick"
           /\ cardWork'[r] \in C!Works /\ cardWork'[r].op = cardWork[r].op
           /\ cardWork'[r].card = cardWork[r].card /\ cardWork'[r].flag = cardWork[r].flag
        \/ ~cardWork[r].flag /\ cardWork'[r] = C!Idle
    BY <1>g, <1>e, <2>2, <2>3 DEF C!Steps
  <2>6. C!TypeOK'
    BY <1>0, <1>t, <2>1, <2>2, <2>4 DEF CardInv
  <2>7. Tracked'
    BY <1>i, <1>k, <2>1, <2>2, <2>4, <2>5 DEF CardInv, Tracked
  <2>8. StepsFit'
    BY <1>i, <2>1, <2>2, <2>4, <2>5 DEF CardInv, StepsFit
  <2>9. Mending'
    BY <1>i, <2>1, <2>2, <2>4, <2>5 DEF CardInv, Mending, StepsFit, Alone
  <2>10. ASSUME ~cardsDisturbed'
         PROVE  Undisturbed'
    <3>1. /\ \A q \in Requests \ {r} : cardWork[q] = C!Idle
          /\ InOrder(r)
      BY <1>i, <2>1, <2>2, <2>10 DEF CardInv, Undisturbed, Alone
    <3>2. Alone(r)'
      BY <2>4, <3>1 DEF Alone
    <3>3. cardWork'[r] = C!Idle => OneDefault'
      BY <1>i, <2>1, <2>2, <2>5, <3>1 DEF OneDefault, InOrder, CardInv
    <3>4. cardWork'[r] # C!Idle => InOrder(r)'
      BY <2>1, <2>2, <2>5, <3>1
      DEF InOrder, OneDefault, CardInv, StepsFit
    <3> QED
      BY <3>2, <3>3, <3>4 DEF Undisturbed, Alone, C!Quiet
  <2> QED
    BY <2>1, <2>6, <2>7, <2>8, <2>9, <2>10 DEF CardInv
<1>14. ASSUME NEW r \in Requests, C!Fail(r)
      PROVE  CardInv'
  <2>1. /\ cardWork[r] # C!Idle
        /\ torn' = IF cardWork[r].at = "hide" THEN torn \cup {cardWork[r].card} ELSE torn
        /\ cardsDisturbed' = TRUE
        /\ UNCHANGED <<billed, attached, setups, succeeded, created, active, default>>
    BY <1>14 DEF C!Fail, C!stripeVars
  <2>2. cardWork[r] \in C!Works
    BY <1>0, <2>1
  <2>3. C!Ends(r)
    BY <1>14, <2>1 DEF C!Fail
  <2>4. /\ cardWork' \in [Requests -> Type]
        /\ \A q \in Requests \ {r} : cardWork'[q] = cardWork[q]
    BY <1>e, <2>2, <2>3 DEF C!Steps
  <2>5. cardWork'[r] = C!Idle
    BY <1>e, <2>2, <2>3 DEF C!Steps
  <2>6. C!TypeOK'
    BY <1>0, <1>i, <1>t, <2>1, <2>2, <2>4 DEF CardInv
  <2>7. Tracked'
    BY <1>i, <1>k, <2>1, <2>2, <2>4, <2>5 DEF CardInv, Tracked
  <2>8. StepsFit'
    BY <1>i, <2>1, <2>2, <2>4, <2>5 DEF CardInv, StepsFit
  <2>9. Mending'
    BY <1>i, <2>1, <2>2, <2>4, <2>5 DEF CardInv, Mending, Alone
  <2> QED
    BY <2>1, <2>6, <2>7, <2>8, <2>9 DEF CardInv
<1>15. ASSUME NEW r \in Requests, C!Create(r)
      PROVE  CardInv'
  <2> DEFINE c == cardWork[r].card
  <2>1. /\ cardWork[r].at = "create" /\ C!Ends(r)
        /\ UNCHANGED <<billed, attached, setups, succeeded, torn, cardsDisturbed>>
        /\ \/ c \in C!Known /\ UNCHANGED <<created, active, default>>
           \/ /\ c \notin C!Known /\ created' = Append(created, c)
              /\ active' = active \cup {c} /\ default' = default \cup {c}
    BY <1>15 DEF C!Create, C!stripeVars
  <2>2. cardWork[r] \in C!Works /\ c \in Things /\ cardWork[r].op = "save"
    BY <1>i, <1>w, <2>1 DEF CardInv, StepsFit
  <2> HIDE DEF c
  <2>3. ASSUME c \notin C!Known
        PROVE  /\ created' \in Seq(Things) /\ C!IsInjective(created')
               /\ C!Known' = C!Known \cup {c}
    <3>1. created' = Append(created, c)
      BY <2>1, <2>3
    <3>2. /\ Len(created') = Len(created) + 1 /\ created' \in Seq(Things)
          /\ \A i \in 1 .. Len(created) : created'[i] = created[i]
          /\ created'[Len(created) + 1] = c
      BY <1>0, <2>2, <3>1
    <3>3. /\ DOMAIN created = 1 .. Len(created) /\ Len(created) \in Nat
          /\ DOMAIN created' = 1 .. (Len(created) + 1)
      BY <1>0, <3>2
    <3>4. \A i \in 1 .. Len(created) : created[i] # c
      BY <2>3, <3>3 DEF C!Known
    <3>5. C!IsInjective(created')
      BY <1>0, <3>2, <3>3, <3>4 DEF C!IsInjective
    <3>6. C!Known' = C!Known \cup {c}
      BY <3>2, <3>3 DEF C!Known
    <3> QED
      BY <3>2, <3>5, <3>6
  <2>4. /\ cardWork' \in [Requests -> Type] /\ cardWork'[r] = C!Idle
        /\ \A q \in Requests \ {r} : cardWork'[q] = cardWork[q]
    BY <1>e, <2>1
  <2>5. C!Known' = C!Known \cup {c} /\ created' \in Seq(Things) /\ C!IsInjective(created')
    BY <1>0, <1>k, <2>1, <2>3
  <2>6. C!TypeOK'
    BY <1>0, <2>1, <2>4, <2>5 DEF C!TypeOK
  <2>7. Tracked'
    BY <1>i, <2>1, <2>2, <2>4, <2>5 DEF CardInv, Tracked, c
  <2>8. StepsFit'
    BY <1>i, <2>4 DEF CardInv, StepsFit
  <2>9. Mending'
    BY <1>i, <2>1, <2>2, <2>4 DEF CardInv, Mending, Alone
  <2>10. ASSUME ~cardsDisturbed'
         PROVE  Undisturbed'
    <3>1. /\ \A q \in Requests \ {r} : cardWork[q] = C!Idle
          /\ default = {} /\ c \notin C!Known
      BY <1>i, <2>1, <2>2, <2>10 DEF CardInv, Undisturbed, Alone, InOrder, c
    <3>2. OneDefault'
      BY <2>1, <3>1 DEF OneDefault
    <3> QED
      BY <2>4, <3>1, <3>2 DEF Undisturbed
  <2> QED
    BY <2>1, <2>6, <2>7, <2>8, <2>9, <2>10 DEF CardInv
<1>16. ASSUME NEW r \in Requests, C!Pick(r)
      PROVE  CardInv'
  <2>1. /\ cardWork[r].at = "pick"
        /\ UNCHANGED <<billed, attached, setups, succeeded, created, active, default, torn,
                       cardsDisturbed>>
        /\ \/ active = {} /\ C!Ends(r)
           \/ \E c \in active :
                 cardWork' = [cardWork EXCEPT ![r].at = "mark", ![r].card = c]
    BY <1>16 DEF C!Pick, C!stripeVars
  <2>2. cardWork[r] \in C!Works /\ cardWork[r].op = "delete"
    BY <1>i, <1>w, <2>1 DEF CardInv, StepsFit
  <2>3. PICK w \in Type :
           /\ cardWork' = [cardWork EXCEPT ![r] = w]
           /\ \/ active = {} /\ w = C!Idle
              \/ /\ w.op = "delete" /\ w.at = "mark" /\ w.card \in active
                 /\ w.flag = cardWork[r].flag
    <3>1. CASE active = {} /\ C!Ends(r)
      BY <3>1 DEF C!Ends
    <3>2. ASSUME NEW c \in active,
                 cardWork' = [cardWork EXCEPT ![r].at = "mark", ![r].card = c]
          PROVE  \E w \in Type : /\ cardWork' = [cardWork EXCEPT ![r] = w]
                                 /\ w.op = "delete" /\ w.at = "mark" /\ w.card \in active
                                 /\ w.flag = cardWork[r].flag
      <4> DEFINE w == [op |-> "delete", card |-> c, at |-> "mark", flag |-> cardWork[r].flag]
      <4>1. w \in C!Works /\ w.op = "delete" /\ w.at = "mark" /\ w.card \in active
            /\ w.flag = cardWork[r].flag
        BY <1>0, <1>1, <2>2 DEF C!Works, C!Steps
      <4>2. cardWork[r] = [op |-> "delete", card |-> cardWork[r].card, at |-> "pick",
                           flag |-> cardWork[r].flag]
        BY <2>1, <2>2 DEF C!Works
      <4>3. cardWork' = [cardWork EXCEPT ![r] = w]
        <5> DEFINE v == [cardWork[r] EXCEPT !.at = "mark"]
        <5>1. v = [op |-> "delete", card |-> cardWork[r].card, at |-> "mark",
                   flag |-> cardWork[r].flag]
          BY <4>2
        <5> HIDE DEF v
        <5>2. [v EXCEPT !.card = c] = w
          BY <5>1
        <5>3. cardWork' = [cardWork EXCEPT ![r] = [v EXCEPT !.card = c]]
          BY <3>2 DEF v
        <5> HIDE DEF w
        <5> QED
          BY <5>2, <5>3
      <4> QED
        BY <4>1, <4>3
    <3> QED
      BY <2>1, <3>1, <3>2
  <2>4. /\ cardWork' \in [Requests -> Type] /\ cardWork'[r] = w
        /\ \A q \in Requests \ {r} : cardWork'[q] = cardWork[q]
    BY <1>0, <2>3
  <2>6. C!TypeOK'
    BY <1>0, <1>t, <2>1, <2>4
  <2>7. Tracked'
    BY <1>0, <1>i, <1>k, <2>1, <2>2, <2>3, <2>4 DEF CardInv, Tracked
  <2>8. StepsFit'
    BY <1>i, <2>3, <2>4 DEF CardInv, StepsFit
  <2>9. Mending'
    <3>1. cardWork'[r].op # "default"
      BY <1>i, <2>3, <2>4
    <3>2. ASSUME NEW q \in Requests, cardWork'[q].op = "default", cardWork'[q].flag
          PROVE  /\ cardWork[r] = C!Idle
                 /\ cardWork[q].op = "default" /\ cardWork[q].flag
      BY <2>4, <3>1, <3>2 DEF CardInv, Mending, Alone
    <3> QED
      BY <1>i, <2>1, <3>2 DEF Mending
  <2>10. ASSUME ~cardsDisturbed'
         PROVE  Undisturbed'
    <3>1. /\ \A q \in Requests \ {r} : cardWork[q] = C!Idle
          /\ default = {}
      BY <1>i, <2>1, <2>2, <2>10 DEF CardInv, Undisturbed, Alone, InOrder
    <3>2. w = C!Idle => OneDefault'
      BY <1>i, <2>1, <2>3, <3>1 DEF OneDefault
    <3>3. w # C!Idle => InOrder(r)'
      BY <2>1, <2>3, <2>4, <3>1 DEF InOrder
    <3> QED
      BY <2>4, <3>1, <3>2, <3>3 DEF Undisturbed, Alone, C!Quiet
  <2> QED
    BY <2>1, <2>6, <2>7, <2>8, <2>9, <2>10 DEF CardInv
<1> QED
  BY <1>2, <1>3, <1>4, <1>5, <1>6, <1>7, <1>8, <1>9, <1>10, <1>11, <1>12, <1>13,
     <1>14, <1>15, <1>16
  DEF C!Next

\* PaymentMethodService: see DefaultIsChargeable of Cards.
THEOREM DefaultIsChargeableAlways ==
    Spec => []DefaultIsChargeable
<1>1. Init => CardInv
  BY CardsBegin
<1>2. CardInv /\ [Next]_vars => CardInv'
  BY CardsStep, CardsStay DEF Next, vars
<1>3. CardInv => DefaultIsChargeable
  <2> SUFFICES ASSUME CardInv, C!Quiet
               PROVE  /\ active \subseteq attached \cup torn
                      /\ ~cardsDisturbed =>
                           /\ default \subseteq active
                           /\ C!Cardinality(default) = IF active = {} THEN 0 ELSE 1
    BY DEF DefaultIsChargeable, C!DefaultIsChargeable
  <2>1. active \subseteq attached \cup torn
    BY DEF CardInv, Tracked, C!Quiet, C!Idle
  <2>2. ASSUME ~cardsDisturbed
        PROVE  /\ default \subseteq active
               /\ C!Cardinality(default) = IF active = {} THEN 0 ELSE 1
    <3>1. OneDefault
      BY <2>2 DEF CardInv, Undisturbed
    <3>2. C!Cardinality(default) = Cardinality(default)
      BY DEF C!Cardinality, Cardinality
    <3>3. /\ Cardinality({}) = 0
          /\ \A c \in active : Cardinality({c}) = 1
      BY FS_EmptySet, FS_Singleton
    <3> QED
      BY <3>1, <3>2, <3>3 DEF OneDefault
  <2> QED
    BY <2>1, <2>2
<1> QED
  BY <1>1, <1>2, <1>3, PTL DEF Spec

-----------------------------------------------------------------------------
(* Types.                                                                  *)

\* Whichever component runs, its variables keep their types.
THEOREM AccountsTypeCorrect ==
    Spec => []TypeOK
<1> DEFINE Inv == /\ part \in Parts
                  /\ CardInv /\ FileInv /\ WeekInv /\ RateInv /\ CancelInv /\ AdminInv
                  /\ CallInv /\ AskInv
<1>1. Init => Inv
  BY CardsBegin, FilesBegin, WeeksBegin, RatesBegin, CancelsBegin, AdminsBegin,
     CallBegins, AskingBegins
  DEF Init
<1>2. Inv /\ [Next]_vars => Inv'
  <2> SUFFICES ASSUME Inv, [Next]_vars
               PROVE  Inv'
    OBVIOUS
  <2>1. part' \in Parts
    BY DEF Next, vars
  <2>2. CardInv' /\ FileInv' /\ WeekInv' /\ RateInv'
    BY CardsStep, CardsStay, FilesStep, FilesStay, WeeksStep, WeeksStay,
       RatesStep, RatesStay
    DEF Next, vars
  <2>3. CancelInv' /\ AdminInv' /\ CallInv' /\ AskInv'
    BY CancelsStep, CancelsStay, AdminsStep, AdminsStay, CallStep, CallStays,
       AskingStep, AskingStays
    DEF Next, vars
  <2> QED
    BY <2>1, <2>2, <2>3
<1>3. Inv => TypeOK
  BY DEF TypeOK, Parts, CardInv, FileInv, WeekInv, RateInv, CancelInv, AdminInv,
         CallInv, AskInv
<1> QED
  BY <1>1, <1>2, <1>3, PTL DEF Spec
=============================================================================
