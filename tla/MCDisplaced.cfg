SPECIFICATION Spec
CONSTANTS
    t0 = t0
    p0 = p0
    a = a
    b = b
    d = d
    e = e
    f = f
    Targets <- MCTargets
    Portals <- MCPortals
    MaxPortals = 1
    Clients <- MCClients
    None = None
    Threads <- MCThreads
    Issued <- MCAdds
    LoginTo <- MCNoLogins
    Offered <- MCOffered
    Stored <- MCStored
    MaxParties = 3
    MaxFaults = 0
SYMMETRY Symmetry
INVARIANT HolderIsServed
\* Clients and faults are bounded, and the daemon can wait for itself.
CHECK_DEADLOCK FALSE
