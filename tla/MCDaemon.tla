------------------------------ MODULE MCDaemon -------------------------------
(***************************************************************************)
(* Daemon for TLC: the commands the clients issue and what is stored when  *)
(* the system starts.                                                      *)
(***************************************************************************)
EXTENDS Daemon, TLC

CONSTANTS t0, p0, a, b, d, e, f

MCTargets == {t0}
MCPortals == {p0}
MCClients == {a, b}
MCThreads == {d, e, f}

\* Discovery is set up and may bring the target in.
MCStored == {[Blank EXCEPT !.dsc[p0].on = TRUE, !.enabled = TRUE]}

MCIssued ==
    {[do |-> "add", arg |-> t0], [do |-> "remove", arg |-> t0],
     [do |-> "rename", arg |-> t0, to |-> t0],
     [do |-> "addDiscovery", arg |-> p0], [do |-> "removeDiscovery", arg |-> p0],
     [do |-> "disable"]}
MCAdds == {[do |-> "add", arg |-> t0]}
MCLoginTo == {t0}
MCNoLogins == {}
MCOffered == {t0}
Symmetry == Permutations(MCClients) \cup Permutations(MCThreads)
=============================================================================
