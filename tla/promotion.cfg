\* Two overlapping passes of the promotion worker, two overlapping requests.
CONSTANTS
    Promoters = {p1, p2}
    Requests = {q1, q2}
    MaxSubs = 4
    MaxCalls = 3
    MaxUpsets = 2
SPECIFICATION FairSpec
INVARIANTS BilledAlways OneSubscription ReleasedAtDeletion
PROPERTIES PromotionResolves GraceSuspends StaleExpiryCleared
CHECK_DEADLOCK FALSE
