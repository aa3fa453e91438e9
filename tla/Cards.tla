-------------------------------- MODULE Cards --------------------------------
(***************************************************************************)
(* The payment methods of one customer: PaymentMethodService with its      *)
(* repository, and what Stripe has attached to the customer.  A step is    *)
(* what a request does between two awaits.                                 *)
(***************************************************************************)
EXTENDS Naturals, FiniteSets, Sequences, Functions

CONSTANTS Cards, Requests, NoCard

VARIABLES
    billed,     \* users service: has the sign-up recorded a Stripe customer?
    attached,   \* Stripe: the cards attached to the customer
    setups,     \* Stripe: cards with a setup intent of the customer; one that has
                \* succeeded has attached the card
    succeeded,  \* Stripe: those whose setup intent has succeeded
    created,    \* Mongo: the cards with a record, oldest first
    active,     \* those whose record has isActive
    default,    \* those whose record has isDefault
    work,       \* work[r]: the request r is serving, with what it has read
    torn,       \* history: cards whose deletion stopped after the detach
    disturbed   \* history: requests have overlapped or one has stopped half-way,
                \* and the default has not been set since

stripeVars == <<billed, attached, setups, succeeded>>
vars == <<stripeVars, created, active, default, work, torn, disturbed>>

Known == {created[i] : i \in DOMAIN created}
Steps == {"attach", "list", "unset", "create", "mark", "detach", "hide", "pick"}
Works == [op : {"save", "default", "delete"}, card : Cards, at : Steps, flag : BOOLEAN]
Idle == [op |-> "none", card |-> NoCard, at |-> "none", flag |-> FALSE]

TypeOK ==
    /\ created \in Seq(Cards) /\ IsInjective(created) /\ active \subseteq Known
    /\ default \subseteq Known /\ attached \subseteq Cards
    /\ work \in [Requests -> Works \cup {Idle}]
    /\ succeeded \subseteq setups /\ setups \subseteq Cards
    /\ torn \subseteq Cards /\ {billed, disturbed} \subseteq BOOLEAN

Init ==
    /\ billed = FALSE /\ attached = {} /\ setups = {} /\ succeeded = {}
    /\ created = <<>> /\ active = {} /\ default = {}
    /\ work = [r \in Requests |-> Idle]
    /\ torn = {} /\ disturbed = FALSE

Quiet == \A r \in Requests : work[r] = Idle

\* A request that sets the default on its own, start to end, mends what was
\* disturbed; flag says that nothing has come in between yet.
Starts(r, op, c, at, flag) ==
    /\ work[r] = Idle
    /\ LET other(q) == IF work[q].op = "default" THEN [work[q] EXCEPT !.flag = FALSE]
                                                 ELSE work[q]
       IN work' = [q \in Requests |->
                     IF q = r THEN [op |-> op, card |-> c, at |-> at, flag |-> flag]
                              ELSE other(q)]
    /\ disturbed' = (disturbed \/ ~Quiet)

Goes(r, at) == work' = [work EXCEPT ![r].at = at]
Ends(r) == work' = [work EXCEPT ![r] = Idle]

---------------------------------------------------------------------------
\* createStripeCustomer; when it fails the sign-up goes on, without a customer
\* and so without cards.
CreateStripeCustomer ==
    /\ ~billed /\ billed' = TRUE
    /\ UNCHANGED <<attached, setups, succeeded, created, active, default, work, torn,
                   disturbed>>

CreateSetupIntent(c) ==
    /\ billed
    /\ c \notin setups /\ setups' = setups \cup {c}
    /\ UNCHANGED <<billed, attached, succeeded, created, active, default, work, torn, disturbed>>

\* The customer confirms the intent in the app.
SetupSucceeds(c) ==
    /\ c \in setups \ succeeded
    /\ succeeded' = succeeded \cup {c} /\ attached' = attached \cup {c}
    /\ UNCHANGED <<billed, setups, created, active, default, work, torn, disturbed>>

\* A card with a record, active or not, is returned as it is.  flag: Stripe
\* shows a customer on the card.
Saves(r, c) ==
    /\ billed /\ c \notin Known
    /\ Starts(r, "save", c, "attach", c \in attached)
    /\ UNCHANGED <<stripeVars, created, active, default, torn>>

\* savePaymentMethodFromSetupIntent
StartSave(r, c) == c \in succeeded /\ Saves(r, c)

\* saveFakePaymentMethodFromSetupIntent asks for no setup intent.
StartFakeSave(r, c) == Saves(r, c)

Attach(r) ==
    /\ work[r].at = "attach"
    /\ attached' = IF work[r].flag THEN attached ELSE attached \cup {work[r].card}
    /\ Goes(r, "list")
    /\ UNCHANGED <<billed, setups, succeeded, created, active, default, torn, disturbed>>

\* The first card needs no other one unset.
ListCards(r) ==
    /\ work[r].at = "list"
    /\ Goes(r, IF active = {} THEN "create" ELSE "unset")
    /\ UNCHANGED <<stripeVars, created, active, default, torn, disturbed>>

Unset(r) ==
    /\ work[r].at = "unset"
    /\ default' = {}
    /\ Goes(r, IF work[r].op = "save" THEN "create" ELSE "mark")
    /\ UNCHANGED <<stripeVars, created, active, torn, disturbed>>

\* The index on the Stripe id refuses a second record.
Create(r) ==
    /\ work[r].at = "create"
    /\ LET c == work[r].card IN
       IF c \in Known
       THEN UNCHANGED <<created, active, default>>
       ELSE /\ created' = Append(created, c)
            /\ active' = active \cup {c}
            /\ default' = default \cup {c}
    /\ Ends(r)
    /\ UNCHANGED <<stripeVars, torn, disturbed>>

\* setDefaultPaymentMethod
StartDefault(r, c) ==
    /\ c \in active
    /\ Starts(r, "default", c, "unset", Quiet)
    /\ UNCHANGED <<stripeVars, created, active, default, torn>>

\* setAsDefault, by id: the card may be inactive by now.
Mark(r) ==
    /\ work[r].at = "mark"
    /\ default' = default \cup {work[r].card}
    /\ disturbed' = (disturbed /\ ~(work[r].op = "default" /\ work[r].flag))
    /\ Ends(r)
    /\ UNCHANGED <<stripeVars, created, active, torn>>

---------------------------------------------------------------------------
\* deletePaymentMethod; flag: the record it has read is the default.
StartDelete(r, c) ==
    /\ c \in active
    /\ Starts(r, "delete", c, "detach", c \in default)
    /\ UNCHANGED <<stripeVars, created, active, default, torn>>

\* An error of Stripe's is logged and forgotten.
Detach(r) ==
    /\ work[r].at = "detach"
    /\ \/ attached' = attached \ {work[r].card}
       \/ UNCHANGED attached
    /\ Goes(r, "hide")
    /\ UNCHANGED <<billed, setups, succeeded, created, active, default, torn, disturbed>>

\* Mutant: whether another default is needed is asked after this one is gone.
HideThenLook(r) ==
    /\ work[r].at = "hide"
    /\ active' = active \ {work[r].card}
    /\ default' = default \ {work[r].card}
    /\ Ends(r)
    /\ UNCHANGED <<stripeVars, created, torn, disturbed>>

\* setInactive
Hide(r) ==
    /\ work[r].at = "hide"
    /\ active' = active \ {work[r].card}
    /\ default' = default \ {work[r].card}
    /\ IF work[r].flag THEN Goes(r, "pick") ELSE Ends(r)
    /\ UNCHANGED <<stripeVars, created, torn, disturbed>>

\* findAnyActiveByCustomerId: the newest active card becomes the default.
Pick(r) ==
    /\ work[r].at = "pick"
    /\ \/ active = {} /\ Ends(r)
       \/ \E i \in DOMAIN created :
             /\ created[i] \in active
             /\ \A j \in DOMAIN created : created[j] \in active => j <= i
             /\ work' = [work EXCEPT ![r].at = "mark", ![r].card = created[i]]
    /\ UNCHANGED <<stripeVars, created, active, default, torn, disturbed>>

\* Mongo or Stripe throws, or the server dies: the request ends where it is.
Fail(r) ==
    /\ work[r] # Idle
    /\ torn' = IF work[r].at = "hide" THEN torn \cup {work[r].card} ELSE torn
    /\ disturbed' = TRUE
    /\ Ends(r)
    /\ UNCHANGED <<stripeVars, created, active, default>>

Next ==
    \/ CreateStripeCustomer
    \/ \E c \in Cards : CreateSetupIntent(c) \/ SetupSucceeds(c)
    \/ \E r \in Requests :
          \/ \E c \in Cards : \/ StartSave(r, c) \/ StartFakeSave(r, c)
                            \/ StartDefault(r, c) \/ StartDelete(r, c)
          \/ Attach(r) \/ ListCards(r) \/ Unset(r) \/ Create(r) \/ Mark(r)
          \/ Detach(r) \/ Hide(r) \/ Pick(r) \/ Fail(r)

Spec == Init /\ [][Next]_vars

---------------------------------------------------------------------------
\* When no request is at work, every active card can be charged, unless its
\* deletion has stopped half-way, whatever has overlapped; and a customer
\* with active cards has exactly one default, an active one, once the default
\* has been set after the last overlap or failure.
DefaultIsChargeable ==
    Quiet =>
        /\ active \subseteq attached \cup torn
        /\ ~disturbed => /\ default \subseteq active
                         /\ Cardinality(default) = IF active = {} THEN 0 ELSE 1
=============================================================================
