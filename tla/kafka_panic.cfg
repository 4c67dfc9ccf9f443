\* A Kafka is deleted before its records are created.
CONSTANTS
    Clusters = {c1}
    None = None
    CNAMERegistration = TRUE
    MaxInflight = 1
    MaxCalls = 1
    MaxFaults = 0
SPECIFICATION Spec
INVARIANTS NoPanic
CHECK_DEADLOCK FALSE
