-------------------------------- MODULE Fare --------------------------------
(***************************************************************************)
(* The fare of one trip from the moment it has to be paid: campaigns that  *)
(* lower it, payment intents that charge it, Stripe's events that settle   *)
(* it, the retry after a failure, the driver's earnings and the summary.   *)
(* TripService, TripPaymentService, PaymentsService, WebhookHandlerService.*)
(*                                                                         *)
(* A campaign handler holds the lock trip:<id>, a payment request the lock *)
(* trip-payment:<id>; webhooks take no lock.  Each write is a step.        *)
(***************************************************************************)
EXTENDS Naturals, FiniteSets

CONSTANTS
    Campaigns, NoCampaign,
    Percentage,        \* campaigns of type PERCENTAGE; the others give an AMOUNT
    Worth,             \* Worth[c]: percents, or fils
    TargetGroup,       \* TargetGroup[c]: the customers c is meant for
    Past,              \* the customer's earlier trips: none, the last one recent, or old
    Cost,              \* calculateFinalTripCost, in fils; at least 15 AED
    Intents,           \* requests to pay, one Stripe intent each
    MaxRedeliveries, MaxCrashes

ASSUME FareAssumption ==
    /\ NoCampaign \notin Campaigns
    /\ Worth \in [Campaigns -> Nat]
    /\ Percentage \subseteq Campaigns
    /\ Past \in {"none", "recent", "old"}
    /\ Cost \in Nat \ {0}
    /\ MaxRedeliveries \in Nat /\ MaxCrashes \in Nat

VARIABLES
    status,            \* trip.status; paymentStatus is written and never read
    lasted,            \* is trip.actualDuration, in whole seconds, not 0?
    finalCost, originalFinalCost,   \* 0: not set
    applied,           \* trip.appliedCampaign
    usage,             \* the campaign of the trip's CampaignUsage record
    work,              \* the campaign handler that holds trip:<id>
    request,           \* request[i]: how far processTripPayment is with intent i
    record,            \* record[i]: its Payment record: none, PAID, or any other status
    stripe,            \* stripe[i]: status of the intent at Stripe
    hook,              \* hook[i]: how far the event that settles it is handled
    retry,             \* has the retry endpoint charged and is to write the trip?
    earned,            \* is the ride in the driver's weekly earnings?
    unearned,          \* history: has an addition to them failed, and none succeeded?
    summary,           \* does the trip have a cost summary?
    redeliveries, crashes

fareVars     == <<lasted, finalCost, originalFinalCost, applied>>
tripVars     == <<status, fareVars>>
campaignVars == <<usage, work>>
stripeVars   == <<request, record, stripe, hook>>
earningVars  == <<earned, unearned>>
settledVars  == <<retry, earningVars, summary, redeliveries, crashes>>
vars == <<tripVars, campaignVars, stripeVars, settledVars>>

Discounts == [campaign : Campaigns, discount : Nat]
None == [campaign |-> NoCampaign, discount |-> 0]
Idle == [step |-> "idle", campaign |-> NoCampaign, discount |-> 0, base |-> 0]

RequestSteps == {"new", "asked", "recorded", "succeeded", "open", "thrown", "done"}
HookSteps == {"none", "due", "earn", "complete", "summarise", "reopen", "acked"}

TypeOK ==
    /\ status \in {"PAYMENT", "PAYMENT_RETRY", "COMPLETED"}
    /\ lasted \in BOOLEAN
    /\ finalCost \in 0 .. Cost
    /\ originalFinalCost \in 0 .. Cost
    /\ applied \in Discounts \cup {None}
    /\ usage \in Campaigns \cup {NoCampaign}
    /\ work \in [step : {"idle", "choose", "write", "use", "unset", "forget"},
                 campaign : Campaigns \cup {NoCampaign}, discount : Nat, base : 0 .. Cost]
    /\ request \in [Intents -> RequestSteps]
    /\ record \in [Intents -> {"none", "unpaid", "PAID"}]
    /\ stripe \in [Intents -> {"none", "open", "succeeded", "failed", "canceled"}]
    /\ hook \in [Intents -> HookSteps]
    /\ retry \in BOOLEAN
    /\ earned \in BOOLEAN /\ unearned \in BOOLEAN
    /\ summary \in BOOLEAN
    /\ redeliveries \in 0 .. MaxRedeliveries
    /\ crashes \in 0 .. MaxCrashes

(* arrivedStop has written PAYMENT, the fare and how long the ride was.    *)
Init ==
    /\ status = "PAYMENT"
    /\ lasted \in BOOLEAN
    /\ finalCost = Cost /\ originalFinalCost = 0
    /\ applied = None
    /\ usage = NoCampaign
    /\ work = Idle
    /\ request = [i \in Intents |-> "new"]
    /\ record = [i \in Intents |-> "none"]
    /\ stripe = [i \in Intents |-> "none"]
    /\ hook = [i \in Intents |-> "none"]
    /\ retry = FALSE
    /\ earned = FALSE /\ unearned = FALSE
    /\ summary = FALSE
    /\ redeliveries = 0 /\ crashes = 0

-----------------------------------------------------------------------------
(* Campaigns.                                                              *)

IsFirstTimeUser == Past = "none"
IsInactiveUser == Past = "old"

IsUserEligible(c) ==
    \/ TargetGroup[c] = "FIRST_TIME_USERS" /\ IsFirstTimeUser
    \/ TargetGroup[c] = "INACTIVE_USERS" /\ IsInactiveUser

(* Rounded to a fils.                                                      *)
DiscountAmount(c, base) ==
    IF c \in Percentage THEN (base * Worth[c] + 50) \div 100 ELSE Worth[c]

(* Mutant: the fare without a floor of 0; it becomes more than it was here.*)
DiscountedUnfloored(base, discount) ==
    IF discount <= base THEN base - discount ELSE base + discount

(* Math.max(0, base - discount)                                            *)
Discounted(base, discount) ==
    IF discount <= base THEN base - discount ELSE 0

(* trip.originalFinalCost || trip.finalCost                                *)
FullCost == IF originalFinalCost # 0 THEN originalFinalCost ELSE finalCost

Writing(c, base) ==
    [step |-> "write", campaign |-> c, discount |-> DiscountAmount(c, base), base |-> base]

(* applyCampaignToTrip: all it checks; it refuses a trip that has one.     *)
(* Administrators make and delete campaigns and change their dates at any  *)
(* time, so whether c exists and is active at the moment is left open.     *)
ApplyCampaignToTrip(c) ==
    /\ work = Idle
    /\ status = "PAYMENT"
    /\ applied = None
    /\ IsUserEligible(c)
    /\ work' = Writing(c, finalCost)
    /\ UNCHANGED <<tripVars, usage, stripeVars, settledVars>>

(* Mutant: the cost that the earlier campaign has lowered is not reset.    *)
ApplyCampaignToActiveTripCompounding(c) ==
    /\ work = Idle
    /\ status = "PAYMENT"
    /\ usage' = IF applied = None THEN usage ELSE NoCampaign
    /\ work' = [step |-> "choose", campaign |-> c, discount |-> 0, base |-> finalCost]
    /\ UNCHANGED <<tripVars, stripeVars, settledVars>>

(* applyCampaignToActiveTrip replaces a campaign: the usage record of the  *)
(* old one goes and the cost is reset, in memory, before the new campaign  *)
(* is looked at.                                                           *)
ApplyCampaignToActiveTrip(c) ==
    /\ work = Idle
    /\ status = "PAYMENT"
    /\ usage' = IF applied = None THEN usage ELSE NoCampaign
    /\ work' = [step |-> "choose", campaign |-> c, discount |-> 0,
                base |-> IF applied = None THEN finalCost ELSE FullCost]
    /\ UNCHANGED <<tripVars, stripeVars, settledVars>>

ChooseCampaign ==
    /\ work.step = "choose"
    /\ IsUserEligible(work.campaign)
    /\ work' = Writing(work.campaign, work.base)
    /\ UNCHANGED <<tripVars, usage, stripeVars, settledVars>>

(* It is unknown, not active, or not for this customer.                    *)
RefuseCampaign ==
    /\ work.step = "choose"
    /\ work' = Idle
    /\ UNCHANGED <<tripVars, usage, stripeVars, settledVars>>

(* updateTripWithData: whatever the trip's status is by now.               *)
WriteCampaign ==
    /\ work.step = "write"
    /\ originalFinalCost' = work.base
    /\ finalCost' = Discounted(work.base, work.discount)
    /\ applied' = [campaign |-> work.campaign, discount |-> work.discount]
    /\ work' = [work EXCEPT !.step = "use"]
    /\ UNCHANGED <<status, lasted, usage, stripeVars, settledVars>>

(* campaignUsageRepository.create: one record per trip, by a unique index. *)
CreateUsage ==
    /\ work.step = "use"
    /\ usage' = IF usage = NoCampaign THEN work.campaign ELSE usage
    /\ work' = Idle
    /\ UNCHANGED <<tripVars, stripeVars, settledVars>>

(* removeCampaignFromTrip and removeCampaignFromActiveTrip.                *)
RemoveCampaign ==
    /\ work = Idle
    /\ status = "PAYMENT"
    /\ applied # None
    /\ work' = [Idle EXCEPT !.step = "unset", !.base = FullCost]
    /\ UNCHANGED <<tripVars, usage, stripeVars, settledVars>>

UnsetCampaign ==
    /\ work.step = "unset"
    /\ finalCost' = work.base
    /\ originalFinalCost' = 0
    /\ applied' = None
    /\ work' = [work EXCEPT !.step = "forget"]
    /\ UNCHANGED <<status, lasted, usage, stripeVars, settledVars>>

(* Mutant: the usage record stays.                                         *)
DeleteUsageNever ==
    /\ work.step = "forget"
    /\ work' = Idle
    /\ UNCHANGED <<tripVars, usage, stripeVars, settledVars>>

DeleteUsage ==
    /\ work.step = "forget"
    /\ usage' = NoCampaign
    /\ work' = Idle
    /\ UNCHANGED <<tripVars, stripeVars, settledVars>>

-----------------------------------------------------------------------------
(* A request to pay, with intent i.                                        *)

StepRequest(i, from, to) == request[i] = from /\ request' = [request EXCEPT ![i] = to]

(* processTripPayment reads the trip before it takes its lock; what        *)
(* validateTripForPayment looks at is this copy.                           *)
ProcessTripPayment(i) ==
    /\ StepRequest(i, "new", "asked")
    /\ status = "PAYMENT" /\ finalCost > 0
    /\ UNCHANGED <<tripVars, campaignVars, record, stripe, hook, settledVars>>

(* The lock is had and the payment record created, without an intent yet.  *)
CreateRecord(i) ==
    /\ \A j \in Intents : request[j] \in {"new", "asked", "done"}
    /\ StepRequest(i, "asked", "recorded")
    /\ record' = [record EXCEPT ![i] = "unpaid"]
    /\ UNCHANGED <<tripVars, campaignVars, stripe, hook, settledVars>>

(* createOffSessionPaymentIntent.  The intent's events are on their way    *)
(* from here, with the record's id in their metadata.                      *)
ChargeSucceeds(i) ==
    /\ StepRequest(i, "recorded", "succeeded")
    /\ stripe' = [stripe EXCEPT ![i] = "succeeded"]
    /\ hook' = [hook EXCEPT ![i] = "due"]
    /\ UNCHANGED <<tripVars, campaignVars, record, settledVars>>

(* The bank is at work, or the customer has to act (3D Secure).            *)
ChargeOpens(i) ==
    /\ StepRequest(i, "recorded", "open")
    /\ stripe' = [stripe EXCEPT ![i] = "open"]
    /\ UNCHANGED <<tripVars, campaignVars, record, hook, settledVars>>

(* The card is declined, or Stripe cannot be reached and knows no intent.  *)
ChargeThrows(i, declined) ==
    /\ StepRequest(i, "recorded", "thrown")
    /\ stripe' = [stripe EXCEPT ![i] = IF declined THEN "failed" ELSE "none"]
    /\ hook' = [hook EXCEPT ![i] = IF declined THEN "due" ELSE "none"]
    /\ UNCHANGED <<tripVars, campaignVars, record, settledVars>>

(* updatePaymentIntent and updateStatus with what Stripe answered; an      *)
(* event may have written the record's status meanwhile.                   *)
SaveIntent(i) ==
    /\ request[i] \in {"succeeded", "open", "thrown"}
    /\ request' = [request EXCEPT ![i] = "done"]
    /\ record' = [record EXCEPT ![i] = IF request[i] = "succeeded" THEN "PAID" ELSE "unpaid"]
    /\ UNCHANGED <<tripVars, campaignVars, stripe, hook, settledVars>>

-----------------------------------------------------------------------------
(* Stripe, and the webhooks.                                               *)

(* External: an open intent ends, and its event is due.                    *)
IntentSettles(i) ==
    /\ stripe[i] = "open"
    /\ \E s \in {"succeeded", "failed", "canceled"} : stripe' = [stripe EXCEPT ![i] = s]
    /\ hook' = [hook EXCEPT ![i] = "due"]
    /\ UNCHANGED <<tripVars, campaignVars, request, record, settledVars>>

(* payment_intent.processing and requires_action come as late as they will *)
(* and write the record without a look at its status.                      *)
HandleEarlyEvent(i) ==
    /\ record[i] = "PAID"
    /\ record' = [record EXCEPT ![i] = "unpaid"]
    /\ UNCHANGED <<tripVars, campaignVars, request, stripe, hook, settledVars>>

StepHook(i, from, to) == hook[i] = from /\ hook' = [hook EXCEPT ![i] = to]

(* Mutant: an event for a record that is PAID already is acknowledged.     *)
HandlePaymentSucceededOnce(i) ==
    /\ stripe[i] = "succeeded"
    /\ StepHook(i, "due", IF record[i] = "PAID" THEN "acked" ELSE "earn")
    /\ record' = [record EXCEPT ![i] = "PAID"]
    /\ UNCHANGED <<tripVars, campaignVars, request, stripe, settledVars>>

(* payment_intent.succeeded: the payment's record first.                   *)
HandlePaymentSucceeded(i) ==
    /\ stripe[i] = "succeeded"
    /\ StepHook(i, "due", "earn")
    /\ record' = [record EXCEPT ![i] = "PAID"]
    /\ UNCHANGED <<tripVars, campaignVars, request, stripe, settledVars>>

(* Mutant: a ride of a completed trip is taken to be in the earnings.      *)
AddEarningsUnlessCompleted(i) ==
    /\ lasted
    /\ StepHook(i, "earn", "complete")
    /\ earned' = (earned \/ status # "COMPLETED")
    /\ UNCHANGED <<tripVars, campaignVars, request, record, stripe, retry, unearned,
                   summary, redeliveries, crashes>>

(* handlePaymentSuccess of the trip adds the ride; once more if it has     *)
(* been added, which is a matter of Earnings.                              *)
AddEarnings(i) ==
    /\ lasted
    /\ StepHook(i, "earn", "complete")
    /\ earned' = TRUE /\ unearned' = FALSE
    /\ UNCHANGED <<tripVars, campaignVars, request, record, stripe, retry, summary,
                   redeliveries, crashes>>

(* addTripToWeeklyEarnings throws: that is logged, and the handler goes on.*)
FailEarnings(i) ==
    /\ lasted
    /\ StepHook(i, "earn", "complete")
    /\ unearned' = ~ earned
    /\ UNCHANGED <<tripVars, campaignVars, request, record, stripe, retry, earned,
                   summary, redeliveries, crashes>>

(* A ride without a duration is not added.                                 *)
SkipEarnings(i) ==
    /\ ~ lasted
    /\ StepHook(i, "earn", "complete")
    /\ UNCHANGED <<tripVars, campaignVars, request, record, stripe, settledVars>>

CompleteTrip(i) ==
    /\ StepHook(i, "complete", "summarise")
    /\ status' = "COMPLETED"
    /\ UNCHANGED <<fareVars, campaignVars, request, record, stripe, settledVars>>

(* createFromCompletedTrip, unless there is one; then Stripe gets its 200. *)
CreateSummary(i) ==
    /\ StepHook(i, "summarise", "acked")
    /\ summary' = TRUE
    /\ UNCHANGED <<tripVars, campaignVars, request, record, stripe, retry, earningVars,
                   redeliveries, crashes>>

(* payment_intent.payment_failed and canceled.                             *)
HandlePaymentFailed(i) ==
    /\ stripe[i] \in {"failed", "canceled"}
    /\ StepHook(i, "due", "reopen")
    /\ record' = [record EXCEPT ![i] = "unpaid"]
    /\ UNCHANGED <<tripVars, campaignVars, request, stripe, settledVars>>

(* handlePaymentFailure of the trip, whatever its status is; that the      *)
(* driver is freed again is a matter of Trip.                              *)
ReopenTrip(i) ==
    /\ StepHook(i, "reopen", "acked")
    /\ status' = "PAYMENT_RETRY"
    /\ UNCHANGED <<fareVars, campaignVars, request, record, stripe, settledVars>>

(* External: Stripe delivers an event again.                               *)
Redeliver(i) ==
    /\ redeliveries < MaxRedeliveries
    /\ redeliveries' = redeliveries + 1
    /\ StepHook(i, "acked", "due")
    /\ UNCHANGED <<tripVars, campaignVars, request, record, stripe, retry, earningVars,
                   summary, crashes>>

-----------------------------------------------------------------------------
(* retryCancelTripByCustomer charges the fare and waits for the answer.    *)
(* There is no payment record, so the intent's event finds none.           *)
RetryCharge ==
    /\ ~ retry
    /\ status = "PAYMENT_RETRY"
    /\ retry' = TRUE
    /\ UNCHANGED <<tripVars, campaignVars, stripeVars, earningVars, summary, redeliveries,
                   crashes>>

RetryCompletes ==
    /\ retry
    /\ retry' = FALSE
    /\ status' = "COMPLETED"
    /\ UNCHANGED <<fareVars, campaignVars, stripeVars, earningVars, summary, redeliveries,
                   crashes>>

(* The server dies.  Its locks expire; an event without a 200 comes again. *)
Crash ==
    /\ crashes < MaxCrashes
    /\ crashes' = crashes + 1
    /\ work' = Idle
    /\ request' = [i \in Intents |-> IF request[i] = "new" THEN "new" ELSE "done"]
    /\ hook' = [i \in Intents |->
                  IF hook[i] \in {"earn", "complete", "summarise", "reopen"} THEN "due" ELSE hook[i]]
    /\ retry' = FALSE
    /\ UNCHANGED <<tripVars, usage, record, stripe, earningVars, summary, redeliveries>>

-----------------------------------------------------------------------------
Customer ==
    \/ \E c \in Campaigns : ApplyCampaignToTrip(c) \/ ApplyCampaignToActiveTrip(c)
    \/ RemoveCampaign
    \/ \E i \in Intents : ProcessTripPayment(i)
    \/ RetryCharge

CampaignStep ==
    \/ ChooseCampaign \/ RefuseCampaign \/ WriteCampaign \/ CreateUsage \/ UnsetCampaign \/ DeleteUsage

RequestStep(i) ==
    \/ CreateRecord(i)
    \/ ChargeSucceeds(i) \/ ChargeOpens(i) \/ \E declined \in BOOLEAN : ChargeThrows(i, declined)
    \/ SaveIntent(i)

HookStep(i) ==
    \/ HandlePaymentSucceeded(i)
    \/ AddEarnings(i) \/ FailEarnings(i) \/ SkipEarnings(i)
    \/ CompleteTrip(i) \/ CreateSummary(i)
    \/ HandlePaymentFailed(i) \/ ReopenTrip(i)

Environment ==
    \/ \E i \in Intents : IntentSettles(i) \/ HandleEarlyEvent(i) \/ Redeliver(i)
    \/ Crash

Next ==
    \/ Customer
    \/ CampaignStep
    \/ \E i \in Intents : RequestStep(i) \/ HookStep(i)
    \/ RetryCompletes
    \/ Environment

Spec == Init /\ [][Next]_vars

(* What the server has begun it goes on with, and Stripe delivers an event *)
(* until it is acknowledged.                                               *)
FairSpec == Spec /\ \A i \in Intents : WF_vars(HookStep(i))

-----------------------------------------------------------------------------
(* Properties.                                                             *)

(* The fare is the full cost less one discount, in every state: campaigns  *)
(* that are put on, replaced and taken off again do not add up.            *)
FareIsRight ==
    IF applied = None
    THEN finalCost = Cost
    ELSE finalCost = Discounted(Cost, applied.discount)

(* Unless a crash cut a handler short, a usage record is the one of the    *)
(* campaign on the trip, once nobody is at work on it.                     *)
UsageIsApplied ==
    (crashes = 0 /\ work = Idle /\ usage # NoCampaign) => applied.campaign = usage

(* A trip with a cost summary is in its driver's earnings, although the    *)
(* handler may be cut short anywhere and another payment may fail; unless  *)
(* the ride took no second or adding it has failed, which nothing repairs. *)
SettledIsEarned == summary /\ lasted => earned \/ unearned

(* Once Stripe has taken the fare, the trip is completed: by the time the  *)
(* event has got through, whatever crashes there were.                     *)
SuccessCompletes ==
    \A i \in Intents :
        (stripe[i] = "succeeded" /\ hook[i] = "due") ~> status = "COMPLETED"
=============================================================================
