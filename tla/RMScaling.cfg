SPECIFICATION Spec
CONSTANTS
    a = a
    b = b
    Calls <- MCCalls
    SandboxCalls <- MCSandboxCalls
    Slots <- MCSlots
    MinPods <- MCMinPods
    MaxPods <- MCMaxPods
    Cached = TRUE
    MaxFaults = 1
INVARIANTS
    PoolSized
PROPERTIES
    IdlePoolsShrink
