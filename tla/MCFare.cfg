\* Two campaigns for first-time users, two requests to pay, one event delivered again, one crash.
CONSTANTS
  c1 = c1
  c2 = c2
  i1 = i1
  i2 = i2
  Campaigns = {c1, c2}
  NoCampaign = NoCampaign
  Percentage = {c1}
  Worth <- WorthOf
  TargetGroup <- ForNewcomers
  Past = "none"
  Cost = 1500
  Intents = {i1, i2}
  MaxRedeliveries = 1
  MaxCrashes = 1
SPECIFICATION FairSpec
INVARIANTS
  TypeOK
  FareIsRight
  UsageIsApplied
  SettledIsEarned
PROPERTIES
  SuccessCompletes
CHECK_DEADLOCK FALSE
