\* One unit is 7.5s: LeaderLeaseExpirationTime is 60s, the holder extends when
\* less than 30s are left, the election ticker fires every 15s.
CONSTANTS
    Replicas = {r1, r2}
    Types = {t1, t2}
    OneShot = {t2}
    None = None
    LeaseTime = 8
    ExtendBefore = 4
    Interval = 2
    MaxPass = 1
    MaxFaults = 0
SPECIFICATION Spec
INVARIANTS LeaseKept
PROPERTIES FreshTakeover
SYMMETRY Symmetric
