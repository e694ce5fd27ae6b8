SPECIFICATION Spec
CONSTANTS
    t0 = t0
    t1 = t1
    Tasks <- MCTasks
    ZeroTag = t0
    Probe = Probe
    Mgmt = Mgmt
    Other = Other
    NumConns = 2
    AsyncEvents <- MCSessionEvents
    DaemonMayDie = FALSE
    CounterMod <- MCCounterMod
    MaxSubmits = 1
    MaxFaults = 1
    MaxCalls = 4
INVARIANTS NoLostWakeup OneHome PendingIsCurrent ActiveCountAccounted
PROPERTIES ImplementsLifecycle
\* Submissions, faults and calls are bounded: a run ends when they are spent.
CHECK_DEADLOCK FALSE
