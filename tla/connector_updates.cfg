\* Two connectors, two changes, one change of a deployment, one fault.
CONSTANTS
    Connectors = {k1, k2}
    MaxWrites = 2
    MaxUpgrades = 1
    MaxFaults = 1
SPECIFICATION FairSpec
INVARIANTS StaleAhead 
PROPERTIES UpdatesReach
