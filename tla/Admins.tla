------------------------------- MODULE Admins --------------------------------
(***************************************************************************)
(* The accounts of administrators and the codes that reset a password:     *)
(* AdminManagementService and AdminAuthService.  A step is one call of a   *)
(* repository.  Logging in and the lists only read.                        *)
(***************************************************************************)
EXTENDS Naturals

CONSTANTS
    Emails, Requests,
    Ids,         \* documents of accounts, each created once
    Codes        \* documents of reset codes, each created once

VARIABLES
    accounts,  \* the accounts there are
    codes,     \* the codes there are
    usedIds, usedCodes,
    work,      \* work[q]: the request q is serving
    supers,    \* history: ids created with the role SUPER_ADMIN
    resets,    \* history: resets[k]: passwords set with code k, up to 2
    disturbed  \* history: two requests overlapped, or one failed

vars == <<accounts, codes, usedIds, usedCodes, work, supers, resets, disturbed>>

Roles == {"SUPER_ADMIN", "NORMAL_ADMIN"}
Account == [id : Ids, email : Emails, role : Roles]
Code == [id : Codes, email : Emails, isUsed : BOOLEAN, expired : BOOLEAN]
Works ==
    [at : {"create"}, email : Emails, role : Roles]
    \cup [at : {"delete"}, id : Ids]
    \cup [at : {"clear", "issue"}, email : Emails]
    \cup [at : {"find"}, code : Codes, email : Emails]
    \cup [at : {"set"}, code : Codes, id : Ids]
    \cup [at : {"use"}, code : Codes]
Idle == [at |-> "none"]

TypeOK ==
    /\ accounts \subseteq Account /\ codes \subseteq Code
    /\ usedIds \subseteq Ids /\ usedCodes \subseteq Codes
    /\ work \in [Requests -> Works \cup {Idle}]
    /\ supers \subseteq usedIds
    /\ resets \in [Codes -> 0 .. 2]
    /\ disturbed \in BOOLEAN

Init ==
    /\ accounts = {} /\ codes = {} /\ usedIds = {} /\ usedCodes = {}
    /\ work = [q \in Requests |-> Idle]
    /\ supers = {} /\ resets = [k \in Codes |-> 0] /\ disturbed = FALSE

Of(email) == {a \in accounts : a.email = email}

\* i is the id of a new document; which of those not used yet does not matter.
IsNew(i, ids, used) == i \notin used /\ i = CHOOSE j \in ids \ used : TRUE

\* A request that is not refused by what it has read.
Starts(q, w) ==
    /\ work[q] = Idle
    /\ work' = [work EXCEPT ![q] = w]
    /\ disturbed' = (disturbed \/ \E o \in Requests : work[o] # Idle)
    /\ UNCHANGED <<accounts, codes, usedIds, usedCodes, supers, resets>>

Goes(q, w) == work' = [work EXCEPT ![q] = w]
Ends(q) == work' = [work EXCEPT ![q] = Idle]

---------------------------------------------------------------------------
(* Accounts.                                                               *)

CreateAdmin(q, email, role) ==
    Of(email) = {} /\ Starts(q, [at |-> "create", email |-> email, role |-> role])

CreateNormalAdmin(q, email) ==
    Of(email) = {} /\ Starts(q, [at |-> "create", email |-> email, role |-> "NORMAL_ADMIN"])

\* Mutant: nothing makes the e-mail unique in the collection.
SaveAccountUnindexed(q, i) ==
    /\ work[q].at = "create" /\ IsNew(i, Ids, usedIds)
    /\ accounts' = accounts \cup {[id |-> i, email |-> work[q].email, role |-> work[q].role]}
    /\ usedIds' = usedIds \cup {i}
    /\ supers' = IF work[q].role = "SUPER_ADMIN" THEN supers \cup {i} ELSE supers
    /\ Ends(q)
    /\ UNCHANGED <<codes, usedCodes, resets, disturbed>>

\* AdminUserRepository.create; the unique index refuses a second account.
SaveAccount(q, i) ==
    /\ work[q].at = "create" /\ IsNew(i, Ids, usedIds)
    /\ Of(work[q].email) = {}
    /\ accounts' = accounts \cup {[id |-> i, email |-> work[q].email, role |-> work[q].role]}
    /\ usedIds' = usedIds \cup {i}
    /\ supers' = IF work[q].role = "SUPER_ADMIN" THEN supers \cup {i} ELSE supers
    /\ Ends(q)
    /\ UNCHANGED <<codes, usedCodes, resets, disturbed>>

DeleteNormalAdmin(q) ==
    \E a \in accounts :
        a.role = "NORMAL_ADMIN" /\ Starts(q, [at |-> "delete", id |-> a.id])

\* AdminUserRepository.deleteById
DropAccount(q) ==
    /\ work[q].at = "delete"
    /\ accounts' = {a \in accounts : a.id # work[q].id}
    /\ Ends(q)
    /\ UNCHANGED <<codes, usedIds, usedCodes, supers, resets, disturbed>>

---------------------------------------------------------------------------
(* Passwords.                                                              *)

SendResetCode(q, email) ==
    Of(email) # {} /\ Starts(q, [at |-> "clear", email |-> email])

\* PasswordResetCodeRepository.deleteByEmail
ClearCodes(q) ==
    /\ work[q].at = "clear"
    /\ codes' = {k \in codes : k.email # work[q].email}
    /\ Goes(q, [work[q] EXCEPT !.at = "issue"])
    /\ UNCHANGED <<accounts, usedIds, usedCodes, supers, resets, disturbed>>

\* PasswordResetCodeRepository.create
IssueCode(q, k) ==
    /\ work[q].at = "issue" /\ IsNew(k, Codes, usedCodes)
    /\ codes' = codes \cup {[id |-> k, email |-> work[q].email, isUsed |-> FALSE,
                             expired |-> FALSE]}
    /\ usedCodes' = usedCodes \cup {k}
    /\ Ends(q)
    /\ UNCHANGED <<accounts, usedIds, supers, resets, disturbed>>

\* resetPassword: findByEmailAndCode
ResetPassword(q) ==
    \E k \in codes :
        ~k.isUsed /\ ~k.expired
        /\ Starts(q, [at |-> "find", code |-> k.id, email |-> k.email])

\* findByEmail
FindAccount(q) ==
    /\ work[q].at = "find"
    /\ \/ \E a \in Of(work[q].email) :
             Goes(q, [at |-> "set", code |-> work[q].code, id |-> a.id])
       \/ Of(work[q].email) = {} /\ Ends(q)
    /\ UNCHANGED <<accounts, codes, usedIds, usedCodes, supers, resets, disturbed>>

\* updatePassword by id; an account that is gone meanwhile is not missed.
SetPassword(q) ==
    /\ work[q].at = "set"
    /\ LET k == work[q].code IN
          /\ resets' = IF \E a \in accounts : a.id = work[q].id
                       THEN [resets EXCEPT ![k] = IF @ = 2 THEN 2 ELSE @ + 1]
                       ELSE resets
          /\ Goes(q, [at |-> "use", code |-> k])
    /\ UNCHANGED <<accounts, codes, usedIds, usedCodes, supers, disturbed>>

\* markAsUsed
UseCode(q) ==
    /\ work[q].at = "use"
    /\ codes' = {IF k.id = work[q].code THEN [k EXCEPT !.isUsed = TRUE] ELSE k : k \in codes}
    /\ Ends(q)
    /\ UNCHANGED <<accounts, usedIds, usedCodes, supers, resets, disturbed>>

---------------------------------------------------------------------------
\* The code's 15 minutes are over.
CodeExpires ==
    \E k \in codes :
        /\ ~k.expired
        /\ codes' = (codes \ {k}) \cup {[k EXCEPT !.expired = TRUE]}
        /\ UNCHANGED <<accounts, usedIds, usedCodes, work, supers, resets, disturbed>>

\* Mongo fails or the server dies.
Fail(q) ==
    /\ work[q] # Idle
    /\ Ends(q)
    /\ disturbed' = TRUE
    /\ UNCHANGED <<accounts, codes, usedIds, usedCodes, supers, resets>>

Next ==
    \/ \E q \in Requests :
          \/ \E email \in Emails :
                CreateNormalAdmin(q, email) \/ SendResetCode(q, email)
                \/ \E role \in Roles : CreateAdmin(q, email, role)
          \/ \E i \in Ids : SaveAccount(q, i)
          \/ \E k \in Codes : IssueCode(q, k)
          \/ DeleteNormalAdmin(q) \/ DropAccount(q) \/ ClearCodes(q)
          \/ ResetPassword(q) \/ FindAccount(q) \/ SetPassword(q) \/ UseCode(q) \/ Fail(q)
    \/ CodeExpires

Spec == Init /\ [][Next]_vars

---------------------------------------------------------------------------
\* However requests overlap or stop, no two accounts have one e-mail and no
\* super administrator is deleted.  When they came one at a time, an e-mail has
\* at most one code that is not used up, and no code has set two passwords.
AccountsAreSound ==
    /\ \A a, b \in accounts : a.email = b.email => a = b
    /\ supers \subseteq {a.id : a \in accounts}
    /\ ~disturbed =>
          /\ \A k, l \in codes : ~k.isUsed /\ ~l.isUsed /\ k.email = l.email => k = l
          /\ \A k \in Codes : resets[k] < 2
=============================================================================
