----------------------------- MODULE MCSessions -----------------------------
(***************************************************************************)
(* Sessions for TLC: two slots, so that one that is freed is taken again   *)
(* while its old identifier is still in use.                               *)
(***************************************************************************)
EXTENDS Sessions

CONSTANTS t0, p0, p1

MCTargets == {t0}
MCPortals == {p0, p1}
MCQueryPortals == {p0}
=============================================================================
