CONSTANTS
    Things = {t1, t2}
    Keys = {k1, k2, k3}
    Codes = {c1, c2}
    Emails = {e1}
    Requests = {r1, r2}
    Nothing = Nothing
    MaxMondays = 2  MaxCharges = 3
SPECIFICATION Spec
SYMMETRY Alike
CHECK_DEADLOCK FALSE
INVARIANTS
    TypeOK
    DefaultIsChargeable
    RecordedIsStored
    WeeksAreSound
    ToldIsRated
    CancelIsSettled
    AccountsAreSound
    ToldOnce
    NobodyIsForgotten
    OneAtATime
