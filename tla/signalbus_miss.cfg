\* Notify walks an array that close and Subscribe write.
CONSTANTS
    Subs = {s1, s2, s3, s4}
    Nil = Nil
    MaxQueue = 2
    MaxSignals = 3
SPECIFICATION Spec
SYMMETRY Symmetric
INVARIANTS NotifiesAll
CHECK_DEADLOCK FALSE
