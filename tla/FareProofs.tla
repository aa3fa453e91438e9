----------------------------- MODULE FareProofs -----------------------------
(***************************************************************************)
(* Fare: the state keeps its types, the fare is never lowered twice, usage *)
(* records belong to the trip's campaign and a summary means that the ride *)
(* was added to the earnings or that this failed, for any campaigns, any   *)
(* number of requests to pay and of crashes.                               *)
(***************************************************************************)
EXTENDS Fare, TLAPS

(* A handler that is going to write has a campaign.                        *)
WorkHasCampaign ==
    work.step \in {"choose", "write", "use"} => work.campaign \in Campaigns

(* The full cost is always at hand: in finalCost, in originalFinalCost and *)
(* in what a handler is going to write.                                    *)
CostIsKept ==
    /\ applied = None => finalCost = Cost /\ originalFinalCost = 0
    /\ applied # None => /\ originalFinalCost = Cost
                         /\ finalCost = Discounted(Cost, applied.discount)
    /\ work.step \in {"choose", "write", "unset"} => work.base = Cost

(* What the usage record is while a handler is at work.                    *)
UsageIsKept ==
    crashes = 0 =>
        /\ work.step \in {"idle", "unset"} /\ usage # NoCampaign => applied.campaign = usage
        /\ work.step \in {"choose", "write", "use"} => usage = NoCampaign
        /\ work.step = "use" => applied.campaign = work.campaign

(* Past the addition a ride is in the earnings, or this has failed.        *)
EarnedIsKept ==
    lasted /\ (summary \/ \E i \in Intents : hook[i] \in {"complete", "summarise"}) =>
        earned \/ unearned

Inv == TypeOK /\ WorkHasCampaign /\ CostIsKept /\ UsageIsKept /\ EarnedIsKept

-----------------------------------------------------------------------------
(* A discount is a natural number of fils.                                 *)
LEMMA DiscountIsNat ==
    ASSUME NEW c \in Campaigns, NEW base \in Nat
    PROVE  DiscountAmount(c, base) \in Nat
<1>1. Worth[c] \in Nat
  BY FareAssumption
<1>2. base * Worth[c] \in Nat
  BY <1>1
<1> DEFINE product == base * Worth[c]
<1>3. (product + 50) \div 100 \in Nat
  <2> HIDE DEF product
  <2> product \in Nat
    BY <1>2 DEF product
  <2> QED
    OBVIOUS
<1> QED
  BY <1>1, <1>3 DEF DiscountAmount

(* A discounted fare lies between 0 and the fare.                          *)
LEMMA DiscountedInRange ==
    ASSUME NEW base \in 0 .. Cost, NEW discount \in Nat
    PROVE  Discounted(base, discount) \in 0 .. Cost
  BY FareAssumption DEF Discounted

LEMMA NoneIsNoDiscount == None \notin Discounts
  BY FareAssumption DEF None, Discounts

(* The initial state.                                                      *)
LEMMA InitInv == Init => Inv
<1> SUFFICES ASSUME Init PROVE Inv
  OBVIOUS
<1> USE FareAssumption DEF Init
<1>1. status \in {"PAYMENT", "PAYMENT_RETRY", "COMPLETED"} /\ finalCost \in 0 .. Cost
      /\ originalFinalCost \in 0 .. Cost /\ crashes \in 0 .. MaxCrashes
      /\ redeliveries \in 0 .. MaxRedeliveries
  OBVIOUS
<1>2. TypeOK
  BY <1>1 DEF TypeOK, Idle, RequestSteps, HookSteps
<1>3. WorkHasCampaign /\ CostIsKept /\ UsageIsKept
  BY DEF WorkHasCampaign, CostIsKept, UsageIsKept, Idle
<1>4. EarnedIsKept
  BY DEF EarnedIsKept
<1> QED
  BY <1>2, <1>3, <1>4 DEF Inv

(* A campaign handler begins or goes on.                                   *)
LEMMA CampaignKeeps ==
    ASSUME Inv,
           \/ \E c \in Campaigns : ApplyCampaignToTrip(c) \/ ApplyCampaignToActiveTrip(c)
           \/ RemoveCampaign
           \/ CampaignStep
    PROVE  Inv'
<1> USE FareAssumption, NoneIsNoDiscount
<1>t. TypeOK /\ WorkHasCampaign /\ CostIsKept /\ UsageIsKept /\ EarnedIsKept
  BY DEF Inv
<1>1. ASSUME NEW c \in Campaigns, ApplyCampaignToTrip(c) PROVE Inv'
  <2>1. DiscountAmount(c, finalCost) \in Nat
    BY <1>t, DiscountIsNat DEF TypeOK
  <2> QED
    BY <1>1, <1>t, <2>1 DEF ApplyCampaignToTrip, Writing, Inv, TypeOK, WorkHasCampaign, CostIsKept,
       UsageIsKept, EarnedIsKept, tripVars, fareVars, stripeVars, settledVars, earningVars, Idle, None
<1>2. ASSUME NEW c \in Campaigns, ApplyCampaignToActiveTrip(c) PROVE Inv'
  BY <1>2, <1>t DEF ApplyCampaignToActiveTrip, FullCost, Inv, TypeOK, WorkHasCampaign, CostIsKept,
     UsageIsKept, EarnedIsKept, tripVars, fareVars, stripeVars, settledVars, earningVars, Idle, None
<1>3. ASSUME RemoveCampaign PROVE Inv'
  BY <1>3, <1>t DEF RemoveCampaign, FullCost, Inv, TypeOK, WorkHasCampaign, CostIsKept,
     UsageIsKept, EarnedIsKept, tripVars, fareVars, stripeVars, settledVars, earningVars, Idle
<1>4. ASSUME ChooseCampaign PROVE Inv'
  <2>1. DiscountAmount(work.campaign, work.base) \in Nat
    BY <1>4, <1>t, DiscountIsNat DEF ChooseCampaign, TypeOK, WorkHasCampaign
  <2> QED
    BY <1>4, <1>t, <2>1 DEF ChooseCampaign, Writing, Inv, TypeOK, WorkHasCampaign, CostIsKept,
       UsageIsKept, EarnedIsKept, tripVars, fareVars, stripeVars, settledVars, earningVars
<1>5. ASSUME RefuseCampaign PROVE Inv'
  BY <1>5, <1>t DEF RefuseCampaign, Inv, TypeOK, WorkHasCampaign, CostIsKept, UsageIsKept,
     EarnedIsKept, tripVars, fareVars, stripeVars, settledVars, earningVars, Idle
<1>6. ASSUME WriteCampaign PROVE Inv'
  <2>1. work.campaign \in Campaigns /\ work.discount \in Nat /\ work.base = Cost
    BY <1>6, <1>t DEF WriteCampaign, TypeOK, WorkHasCampaign, CostIsKept
  <2>2. applied' \in Discounts /\ applied' # None /\ applied'.discount = work.discount
    BY <1>6, <2>1 DEF WriteCampaign, Discounts
  <2>3. finalCost' = Discounted(Cost, applied'.discount) /\ finalCost' \in 0 .. Cost
    BY <1>6, <2>1, <2>2, DiscountedInRange DEF WriteCampaign
  <2>4. TypeOK'
    BY <1>6, <1>t, <2>1, <2>2, <2>3 DEF WriteCampaign, TypeOK, stripeVars, settledVars, earningVars
  <2>5. WorkHasCampaign' /\ CostIsKept' /\ UsageIsKept' /\ EarnedIsKept'
    BY <1>6, <1>t, <2>1, <2>2, <2>3 DEF WriteCampaign, TypeOK, WorkHasCampaign, CostIsKept,
       UsageIsKept, EarnedIsKept, stripeVars, settledVars, earningVars
  <2> QED
    BY <2>4, <2>5 DEF Inv
<1>7. ASSUME CreateUsage PROVE Inv'
  BY <1>7, <1>t DEF CreateUsage, Inv, TypeOK, WorkHasCampaign, CostIsKept, UsageIsKept,
     EarnedIsKept, tripVars, fareVars, stripeVars, settledVars, earningVars, Idle
<1>8. ASSUME UnsetCampaign PROVE Inv'
  BY <1>8, <1>t DEF UnsetCampaign, Inv, TypeOK, WorkHasCampaign, CostIsKept, UsageIsKept,
     EarnedIsKept, stripeVars, settledVars, earningVars
<1>9. ASSUME DeleteUsage PROVE Inv'
  BY <1>9, <1>t DEF DeleteUsage, Inv, TypeOK, WorkHasCampaign, CostIsKept, UsageIsKept,
     EarnedIsKept, tripVars, fareVars, stripeVars, settledVars, earningVars, Idle
<1> QED
  BY <1>1, <1>2, <1>3, <1>4, <1>5, <1>6, <1>7, <1>8, <1>9 DEF CampaignStep

(* Requests to pay, events and retries leave the campaign and the fare.    *)
LEMMA PaymentKeepsFare ==
    ASSUME Inv, UNCHANGED <<fareVars, campaignVars, crashes>>
    PROVE  WorkHasCampaign' /\ CostIsKept' /\ UsageIsKept'
  BY DEF Inv, WorkHasCampaign, CostIsKept, UsageIsKept, fareVars, campaignVars

LEMMA RequestKeeps ==
    ASSUME Inv, NEW i \in Intents,
           ProcessTripPayment(i) \/ RequestStep(i) \/ IntentSettles(i) \/ HandleEarlyEvent(i)
    PROVE  Inv'
<1>t. TypeOK /\ EarnedIsKept
  BY DEF Inv
<1>k. UNCHANGED <<tripVars, campaignVars, settledVars>>
  BY DEF ProcessTripPayment, RequestStep, CreateRecord, ChargeSucceeds, ChargeOpens, ChargeThrows,
     SaveIntent, IntentSettles, HandleEarlyEvent
<1>f. WorkHasCampaign' /\ CostIsKept' /\ UsageIsKept'
  BY <1>k, PaymentKeepsFare DEF tripVars, fareVars, settledVars, earningVars
<1>r. TypeOK' /\ EarnedIsKept'
  <2>1. CASE ProcessTripPayment(i)
    BY <1>t, <1>k, <2>1 DEF ProcessTripPayment, StepRequest, TypeOK, EarnedIsKept, RequestSteps,
       tripVars, fareVars, campaignVars, settledVars, earningVars
  <2>2. CASE CreateRecord(i)
    BY <1>t, <1>k, <2>2 DEF CreateRecord, StepRequest, TypeOK, EarnedIsKept, RequestSteps,
       tripVars, fareVars, campaignVars, settledVars, earningVars
  <2>3. CASE ChargeSucceeds(i)
    BY <1>t, <1>k, <2>3 DEF ChargeSucceeds, StepRequest, TypeOK, EarnedIsKept, RequestSteps,
       HookSteps, tripVars, fareVars, campaignVars, settledVars, earningVars
  <2>4. CASE ChargeOpens(i)
    BY <1>t, <1>k, <2>4 DEF ChargeOpens, StepRequest, TypeOK, EarnedIsKept, RequestSteps,
       tripVars, fareVars, campaignVars, settledVars, earningVars
  <2>5. ASSUME NEW declined \in BOOLEAN, ChargeThrows(i, declined) PROVE TypeOK' /\ EarnedIsKept'
    BY <1>t, <1>k, <2>5 DEF ChargeThrows, StepRequest, TypeOK, EarnedIsKept, RequestSteps,
       HookSteps, tripVars, fareVars, campaignVars, settledVars, earningVars
  <2>6. CASE SaveIntent(i)
    BY <1>t, <1>k, <2>6 DEF SaveIntent, TypeOK, EarnedIsKept, RequestSteps,
       tripVars, fareVars, campaignVars, settledVars, earningVars
  <2>7. CASE IntentSettles(i)
    BY <1>t, <1>k, <2>7 DEF IntentSettles, TypeOK, EarnedIsKept, HookSteps,
       tripVars, fareVars, campaignVars, settledVars, earningVars
  <2>8. CASE HandleEarlyEvent(i)
    BY <1>t, <1>k, <2>8 DEF HandleEarlyEvent, TypeOK, EarnedIsKept,
       tripVars, fareVars, campaignVars, settledVars, earningVars
  <2> QED
    BY <2>1, <2>2, <2>3, <2>4, <2>5, <2>6, <2>7, <2>8 DEF RequestStep
<1> QED
  BY <1>t, <1>f, <1>r DEF Inv

LEMMA HookKeeps ==
    ASSUME Inv, NEW i \in Intents, HookStep(i) \/ Redeliver(i)
    PROVE  Inv'
<1>t. TypeOK /\ EarnedIsKept
  BY DEF Inv
<1>k. UNCHANGED <<fareVars, campaignVars, crashes>>
  BY DEF HookStep, HandlePaymentSucceeded, AddEarnings, FailEarnings, SkipEarnings, CompleteTrip, CreateSummary,
     HandlePaymentFailed, ReopenTrip, Redeliver, tripVars, fareVars, settledVars, earningVars
<1>f. WorkHasCampaign' /\ CostIsKept' /\ UsageIsKept'
  BY <1>k, PaymentKeepsFare
<1>r. TypeOK' /\ EarnedIsKept'
  <2> USE DEF StepHook, TypeOK, EarnedIsKept, HookSteps, tripVars, fareVars, campaignVars, settledVars, earningVars
  <2>1. CASE HandlePaymentSucceeded(i)
    BY <1>t, <2>1 DEF HandlePaymentSucceeded
  <2>2. CASE AddEarnings(i)
    BY <1>t, <2>2 DEF AddEarnings
  <2>8. CASE FailEarnings(i)
    <3>1. unearned' = ~ earned /\ unearned' \in BOOLEAN
      BY <2>8 DEF FailEarnings
    <3>2. hook' \in [Intents -> HookSteps]
      BY <1>t, <2>8 DEF FailEarnings
    <3>3. TypeOK'
      BY <1>t, <2>8, <3>1, <3>2 DEF FailEarnings
    <3>4. EarnedIsKept'
      BY <1>t, <2>8, <3>1 DEF FailEarnings
    <3> QED
      BY <3>3, <3>4
  <2>9. CASE SkipEarnings(i)
    BY <1>t, <2>9 DEF SkipEarnings
  <2>3. CASE CompleteTrip(i)
    BY <1>t, <2>3 DEF CompleteTrip
  <2>4. CASE CreateSummary(i)
    BY <1>t, <2>4 DEF CreateSummary
  <2>5. CASE HandlePaymentFailed(i)
    BY <1>t, <2>5 DEF HandlePaymentFailed
  <2>6. CASE ReopenTrip(i)
    BY <1>t, <2>6 DEF ReopenTrip
  <2>7. CASE Redeliver(i)
    <3>1. redeliveries' \in 0 .. MaxRedeliveries
      BY <1>t, <2>7, FareAssumption DEF Redeliver
    <3>2. hook' \in [Intents -> HookSteps]
      BY <1>t, <2>7 DEF Redeliver
    <3> QED
      BY <1>t, <2>7, <3>1, <3>2 DEF Redeliver
  <2> QED
    BY <2>1, <2>2, <2>3, <2>4, <2>5, <2>6, <2>7, <2>8, <2>9 DEF HookStep
<1> QED
  BY <1>f, <1>r DEF Inv

LEMMA RetryKeeps ==
    ASSUME Inv, RetryCharge \/ RetryCompletes
    PROVE  Inv'
<1>k. UNCHANGED <<fareVars, campaignVars, crashes>>
  BY DEF RetryCharge, RetryCompletes, tripVars, fareVars
<1>f. WorkHasCampaign' /\ CostIsKept' /\ UsageIsKept'
  BY <1>k, PaymentKeepsFare
<1>r. TypeOK' /\ EarnedIsKept'
  <2>1. CASE RetryCharge
    BY <2>1 DEF Inv, RetryCharge, TypeOK, EarnedIsKept, tripVars, fareVars, campaignVars,
       stripeVars, earningVars
  <2>2. CASE RetryCompletes
    BY <2>2 DEF Inv, RetryCompletes, TypeOK, EarnedIsKept, tripVars, fareVars, campaignVars,
       stripeVars, earningVars
  <2> QED
    BY <2>1, <2>2
<1> QED
  BY <1>f, <1>r DEF Inv

LEMMA CrashKeeps ==
    ASSUME Inv, Crash
    PROVE  Inv'
<1> USE FareAssumption
<1>1. TypeOK'
  <2>1. request' \in [Intents -> RequestSteps] /\ hook' \in [Intents -> HookSteps]
    BY DEF Inv, Crash, TypeOK, RequestSteps, HookSteps
  <2>2. crashes' \in 0 .. MaxCrashes
    BY DEF Inv, Crash, TypeOK
  <2>3. work' \in [step : {"idle", "choose", "write", "use", "unset", "forget"},
                   campaign : Campaigns \cup {NoCampaign}, discount : Nat, base : 0 .. Cost]
    BY DEF Crash, Idle
  <2> QED
    BY <2>1, <2>2, <2>3 DEF Inv, Crash, TypeOK, tripVars, fareVars, earningVars
<1>2. WorkHasCampaign' /\ CostIsKept'
  BY DEF Inv, Crash, TypeOK, WorkHasCampaign, CostIsKept, Idle, tripVars, fareVars
<1>3. crashes' # 0
  BY DEF Inv, Crash, TypeOK
<1>4. EarnedIsKept'
  BY DEF Inv, Crash, TypeOK, EarnedIsKept, tripVars, fareVars, earningVars
<1> QED
  BY <1>1, <1>2, <1>3, <1>4 DEF Inv, UsageIsKept

(* Every step keeps the invariant.                                         *)
LEMMA StepInv == Inv /\ [Next]_vars => Inv'
<1> SUFFICES ASSUME Inv, [Next]_vars PROVE Inv'
  OBVIOUS
<1>1. CASE Customer
  BY <1>1, CampaignKeeps, RequestKeeps, RetryKeeps DEF Customer
<1>2. CASE CampaignStep
  BY <1>2, CampaignKeeps
<1>3. CASE \E i \in Intents : RequestStep(i) \/ HookStep(i)
  BY <1>3, RequestKeeps, HookKeeps
<1>4. CASE RetryCompletes
  BY <1>4, RetryKeeps
<1>5. CASE Environment
  BY <1>5, RequestKeeps, HookKeeps, CrashKeeps DEF Environment
<1>6. CASE UNCHANGED vars
  BY <1>6 DEF Inv, TypeOK, WorkHasCampaign, CostIsKept, UsageIsKept, EarnedIsKept, vars,
     tripVars, fareVars, campaignVars, stripeVars, settledVars, earningVars
<1> QED
  BY <1>1, <1>2, <1>3, <1>4, <1>5, <1>6 DEF Next

LEMMA InvAlways == Spec => []Inv
  BY InitInv, StepInv, PTL DEF Spec

(* The state keeps its types; in particular the fare is between 0 and the  *)
(* full cost, however large a campaign's worth is.                         *)
THEOREM FareTypeCorrect == Spec => []TypeOK
<1>1. Inv => TypeOK
  BY DEF Inv
<1> QED
  BY <1>1, InvAlways, PTL

(* Campaigns put on, replaced and taken off in any order, with handlers    *)
(* cut short anywhere, lower the fare by one discount at most.             *)
THEOREM FareIsRightAlways == Spec => []FareIsRight
<1>1. Inv => FareIsRight
  BY DEF Inv, CostIsKept, FareIsRight
<1> QED
  BY <1>1, InvAlways, PTL

(* Until a server dies, a usage record is that of the trip's campaign.     *)
THEOREM UsageIsAppliedAlways == Spec => []UsageIsApplied
<1>1. Inv => UsageIsApplied
  BY DEF Inv, UsageIsKept, UsageIsApplied, Idle
<1> QED
  BY <1>1, InvAlways, PTL

(* A summary is never written before the ride has been added to the        *)
(* earnings, or this has failed, whatever number of payments, retries and  *)
(* crashes there are.                                                      *)
THEOREM SettledIsEarnedAlways == Spec => []SettledIsEarned
<1>1. Inv => SettledIsEarned
  BY DEF Inv, EarnedIsKept, SettledIsEarned
<1> QED
  BY <1>1, InvAlways, PTL
=============================================================================
