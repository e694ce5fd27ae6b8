SPECIFICATION Spec
CONSTANTS
    t0 = t0
    t1 = t1
    Tasks <- MCTasks
    ZeroTag = t0
    Probe = Probe
    Mgmt = Mgmt
    Other = Other
    NumConns = 1
    AsyncEvents <- MCLogout
    DaemonMayDie = FALSE
    CounterMod <- MCCounterMod
    MaxSubmits = 1
    MaxFaults = 1
    MaxCalls = 3
PROPERTY QueuedTasksAreRejected
\* Submissions, faults and calls are bounded: a run ends when they are spent.
CHECK_DEADLOCK FALSE
