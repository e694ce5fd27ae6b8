---------------------------- MODULE MCVirtualHBA ----------------------------
(***************************************************************************)
(* VirtualHBA for TLC: the values of its constants that are not model      *)
(* values of the configurations.                                           *)
(***************************************************************************)
EXTENDS VirtualHBA

CONSTANTS t0, t1

\* Two tasks, one of which has the initiator tag 0.
MCTasks == {t0, t1}

\* The asynchronous messages the target may send, by the purpose of the run.
MCAllEvents == Events
MCLogout == {"logout"}
MCDropConnection == {"dropConn"}
MCSessionEvents == {"dropAll", "logout"}
MCConnectionEvents == {"dropConn", "logout"}

\* Activations and deactivations of a run move numActiveConnections by less
\* than this, so it wraps where the 32-bit counter does: at zero.
MCCounterMod == 16
=============================================================================
