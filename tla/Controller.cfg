SPECIFICATION Spec
CONSTANTS
    c1 = c1
    c2 = c2
    f1 = f1
    Pods <- MCPods
    Flows <- MCFlows
    Hash <- MCHash
    Scheduled <- MCScheduled
    Timeout = 1
    MaxFaults = 1
INVARIANTS
    CronDuplicatesNeedStaleView
PROPERTIES
    ActiveRunsServed
    OrphansCollected
