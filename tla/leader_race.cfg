\* The bounds of leader_timely: two replicas that keep every deadline.
CONSTANTS
    Replicas = {r1, r2}
    Types = {t1}
    OneShot = {}
    None = None
    LeaseTime = 8
    ExtendBefore = 4
    Interval = 2
    MaxPass = 1
    MaxFaults = 0
SPECIFICATION Spec
INVARIANTS SingleReconciler
