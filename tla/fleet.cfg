\* Both scaling types, two sizes of Kafka, two managed clusters and an enterprise
\* one; up to three requests of users, and one fault or overlap.
CONSTANTS
    MaxManaged = 2
    Enterprise = {e1}
    MaxKafkas = 3
    Requests = {q1, q2}
    Replicas = {r1, r2}
    Scalings = {"auto", "manual"}
    Sizes = {1, 2}
    Units = 2
    RegionLimit = 3
    Slack = 1
    MaxCalls = 3
    MaxUpsets = 1
SPECIFICATION FairSpec
INVARIANTS   HostKept CleanRemoval
PROPERTIES NoFlapping DeregistrationKept KafkaPlaced DeprovisioningEnds
CHECK_DEADLOCK FALSE
