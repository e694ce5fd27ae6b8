SPECIFICATION Spec
CONSTANTS
    t0 = t0
    p0 = p0
    a = a
    b = b
    d = d
    e = e
    f = f
    Targets <- MCTargets
    Portals <- MCPortals
    MaxPortals = 1
    Clients <- MCClients
    None = None
    Threads <- MCThreads
    Issued <- MCIssued
    LoginTo <- MCLoginTo
    Offered <- MCOffered
    Stored <- MCStored
    MaxParties = 2
    MaxFaults = 2
SYMMETRY Symmetry
INVARIANTS TypeOK DynamicIsListed MirrorAgrees RecordsLive
PROPERTIES NoLostUpdate
\* Clients and faults are bounded, and the daemon can wait for itself.
CHECK_DEADLOCK FALSE
