\* Four subscriptions: the array grows twice and is shared while it is walked.
CONSTANTS
    Subs = {s1, s2, s3, s4}
    Nil = Nil
    MaxQueue = 2
    MaxSignals = 3
SPECIFICATION Spec
SYMMETRY Symmetric
INVARIANTS Registered WakeupComes
CHECK_DEADLOCK FALSE
