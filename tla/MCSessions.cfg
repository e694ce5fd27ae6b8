SPECIFICATION Spec
CONSTANTS
    t0 = t0
    p0 = p0
    p1 = p1
    Targets <- MCTargets
    Portals <- MCPortals
    QueryPortals <- MCQueryPortals
    Discovery = Discovery
    None = None
    MaxSessions = 2
    MaxConns = 2
    MaxOps = 2
    MaxQueries = 1
    MaxFaults = 2
    MaxNotes = 2
INVARIANTS TypeOK NameLeadsToItsSession FoundUnlessSecond NothingForgotten
\* Operations, queries and faults are bounded.
CHECK_DEADLOCK FALSE
