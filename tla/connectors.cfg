\* One connector through all of its life, in one namespace; two requests at a
\* time, one crash, failed call or race.
CONSTANTS
    Connectors = {k1}
    Namespaces = {n1}
    None = None
    MaxCalls = 2
    MaxRequests = 2
    MaxDeployments = 2
    MaxUpsets = 1
SPECIFICATION FairSpec
INVARIANTS OneDeployment NoDangling NamespaceKept
PROPERTIES DeletionFinal ConnectorDeletionCompletes  ConnectorsDeployed
CHECK_DEADLOCK FALSE
