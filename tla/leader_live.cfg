\* The bounds of leader_timely with one worker type.
CONSTANTS
    Replicas = {r1, r2}
    Types = {t1}
    OneShot = {}
    None = None
    LeaseTime = 8
    ExtendBefore = 4
    Interval = 2
    MaxPass = 1
    MaxFaults = 1
SPECIFICATION FairSpec
PROPERTIES OverlapResolved LeaseRecovered
