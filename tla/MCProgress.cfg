SPECIFICATION FairSpec
CONSTANTS
    t0 = t0
    t1 = t1
    Tasks <- MCTasks
    ZeroTag = t0
    Probe = Probe
    Mgmt = Mgmt
    Other = Other
    NumConns = 1
    AsyncEvents <- MCConnectionEvents
    DaemonMayDie = FALSE
    CounterMod <- MCCounterMod
    MaxSubmits = 1
    MaxFaults = 1
    MaxCalls = 3
PROPERTIES GateReleased QueuedTaskLeaves DispatchedTaskEnds
\* Submissions, faults and calls are bounded: a run ends when they are spent.
CHECK_DEADLOCK FALSE
