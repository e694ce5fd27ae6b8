SPECIFICATION Spec
CONSTANTS
    t0 = t0
    t1 = t1
    Tasks <- MCTasks
    ZeroTag = t0
    Probe = Probe
    Mgmt = Mgmt
    Other = Other
    NumConns = 1
    AsyncEvents <- MCLogout
    DaemonMayDie = FALSE
    CounterMod <- MCCounterMod
    MaxSubmits = 2
    MaxFaults = 2
    MaxCalls = 2
INVARIANTS TypeOK NoLostWakeup OneHome PendingIsCurrent InHand LiveSections ActiveCountAccounted
PROPERTIES ImplementsLifecycle
\* Submissions, faults and calls are bounded: a run ends when they are spent.
CHECK_DEADLOCK FALSE
