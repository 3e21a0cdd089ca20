SPECIFICATION Spec
CONSTANTS
    plan = plan
    review = review
    checkin = checkin
    Plans = {plan}
    Candidates = {review, checkin}
    PlanOf <- OnePlan
    Order <- ScanOrder
    CheckIns = {checkin}
    Day = 3
    Quiet = {0}
    Beat = 1
    Backoff = 2
    Cooldown = 1
    NotifyCooldown = 1
    CheckIn = 1
    Limit = 1
    MaxCalls = 2
    MaxFaults = 2
    MaxTurns = 2
    None = None
INVARIANTS Decided
PROPERTIES ComesBackInTime
