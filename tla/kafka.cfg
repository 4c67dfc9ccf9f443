\* One handler at a time, with fairness; two clusters, so that a Kafka can move.
CONSTANTS
    Clusters = {c1, c2}
    None = None
    CNAMERegistration = TRUE
    MaxInflight = 1
    MaxCalls = 3
    MaxFaults = 1
SPECIFICATION FairSpec
INVARIANTS HostPlaced ReadyRecords CleanDeletion ReadyRouted RecordsTracked QuotaReleased
PROPERTIES  DeletionCompletes SuspensionCompletes CanaryProvided
CHECK_DEADLOCK FALSE
