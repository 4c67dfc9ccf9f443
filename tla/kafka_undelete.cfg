\* An admin update overlaps a deletion.
CONSTANTS
    Clusters = {c1}
    None = None
    CNAMERegistration = TRUE
    MaxInflight = 2
    MaxCalls = 1
    MaxFaults = 0
SPECIFICATION Spec
PROPERTIES DeletionIrrevocable
CHECK_DEADLOCK FALSE
