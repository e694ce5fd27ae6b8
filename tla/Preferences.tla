---------------------------- MODULE Preferences ----------------------------
(***************************************************************************)
(* A preferences object (iSCSIPreferences.c): the targets, each with the   *)
(* way it was configured and its portals, and the portals asked for        *)
(* targets by SendTargets discovery, each with the targets it has ever     *)
(* brought in.  The operators are the functions that change one, and what  *)
(* iscsictl makes of them for each of its commands.                        *)
(*                                                                         *)
(* Keys whose value no decision here depends on (digests, names, the alias *)
(* a login writes, secrets) are left out.                                  *)
(***************************************************************************)
EXTENDS Integers, FiniteSets

CONSTANTS
    Targets,        \* target names (IQNs)
    Portals,        \* discovery portals
    MaxPortals      \* bound: portals of a target

ASSUME PreferencesAssumption ==
    /\ MaxPortals \in Nat \ {0}
    /\ {"none", "static"} \cap Portals = {}

\* cfg: absent, static, or the discovery portal that manages the target;
\* portals: how many there are, 0 when there is no list of them.
Missing == [cfg |-> "none", portals |-> 0]
Fresh   == [cfg |-> "static", portals |-> 0]
Entries == {Missing} \cup [cfg : {"static"} \cup Portals, portals : 0..MaxPortals]
Objects == [tgt : [Targets -> Entries],
            dsc : [Portals -> [on : BOOLEAN, list : SUBSET Targets]],
            enabled : BOOLEAN]

\* A dynamic target is listed by the discovery portal that manages it.
Listed(P) ==
    \A t \in Targets : \A p \in Portals :
        P.tgt[t].cfg = p => P.dsc[p].on /\ t \in P.dsc[p].list

Contains(P, t) == P.tgt[t].cfg # "none"
IsStatic(P, t) == P.tgt[t].cfg = "static"

\* iSCSIPreferencesGetTargetDict with createIfMissing: a getter that creates.
Created(P, t) == IF Contains(P, t) THEN P ELSE [P EXCEPT !.tgt[t] = Fresh]

AddStaticTarget(P, t) ==
    [P EXCEPT !.tgt[t] = [Fresh EXCEPT !.portals = 1]]

\* Only a target that has a list of portals is given another one.
AddPortal(P, t) ==
    IF P.tgt[t].portals \in 1..(MaxPortals - 1)
    THEN [P EXCEPT !.tgt[t].portals = @ + 1]
    ELSE P

RemoveTarget(P, t) == [P EXCEPT !.tgt[t] = Missing]

\* Removing the only portal removes the target.
RemovePortal(P, t) ==
    CASE P.tgt[t].portals = 0 -> P
      [] P.tgt[t].portals = 1 -> RemoveTarget(P, t)
      [] OTHER -> [P EXCEPT !.tgt[t].portals = @ - 1]

\* The new name is set before the old one is removed.
SetTargetIQN(P, t, u) ==
    [P EXCEPT !.tgt = [[@ EXCEPT ![u] = P.tgt[t]] EXCEPT ![t] = Missing]]

AddDiscoveryPortal(P, p) ==
    IF P.dsc[p].on THEN P
    ELSE [P EXCEPT !.dsc[p] = [on |-> TRUE, list |-> {}]]

\* Slip: the targets the portal brought in are left behind.
RemoveDiscoveryPortalOnly(P, p) ==
    [P EXCEPT !.dsc[p] = [on |-> FALSE, list |-> {}]]
RemoveDiscoveryPortal(P, p) ==
    [P EXCEPT !.dsc[p] = [on |-> FALSE, list |-> {}],
              !.tgt = [t \in Targets |->
                           IF t \in P.dsc[p].list THEN Missing ELSE @[t]]]

\* What a merge of the targets F found over p adds and removes.  A target that
\* was ever listed stays listed.
MergeAdds(P, F) == {t \in F : ~Contains(P, t)}
MergeDrops(P, p, F) == (P.dsc[p].list \cup MergeAdds(P, F)) \ F
Merged(P, p, F) ==
    [P EXCEPT !.dsc[p].list = @ \cup MergeAdds(P, F),
              !.tgt = [t \in Targets |->
                  CASE t \in MergeAdds(P, F) ->
                           [cfg |-> p, portals |-> 1]
                    [] t \in MergeDrops(P, p, F) -> Missing
                    [] OTHER -> @[t]]]

-----------------------------------------------------------------------------
(* The commands of iscsictl that change preferences. *)

Commands ==
    [do : {"add", "remove", "removePortal"}, arg : Targets]
      \cup [do : {"rename"}, arg : Targets, to : Targets]
      \cup [do : {"addDiscovery", "removeDiscovery"}, arg : Portals]
      \cup [do : {"enable", "disable"}]

\* The command ends with an error, whatever is active.
Refused(P, cmd) ==
    CASE cmd.do = "add" -> Contains(P, cmd.arg) /\ P.tgt[cmd.arg].portals = MaxPortals
      [] cmd.do \in {"remove", "removePortal", "rename"} -> ~IsStatic(P, cmd.arg)
      [] cmd.do = "addDiscovery" -> P.dsc[cmd.arg].on
      [] cmd.do = "removeDiscovery" -> ~P.dsc[cmd.arg].on
      [] OTHER -> FALSE

\* The command asks the daemon whether these targets are active before it goes
\* on: a target it is about, or those a discovery portal brought in.
Asked(P, cmd) ==
    CASE cmd.do \in {"remove", "removePortal", "rename"} -> {cmd.arg}
      [] cmd.do = "removeDiscovery" -> P.dsc[cmd.arg].list
      [] OTHER -> {}

Edited(P, cmd) ==
    CASE cmd.do = "add" -> IF Contains(P, cmd.arg) THEN AddPortal(P, cmd.arg)
                           ELSE AddStaticTarget(P, cmd.arg)
      [] cmd.do = "remove" -> RemoveTarget(P, cmd.arg)
      [] cmd.do = "removePortal" -> RemovePortal(P, cmd.arg)
      [] cmd.do = "rename" -> SetTargetIQN(P, cmd.arg, cmd.to)
      [] cmd.do = "addDiscovery" -> AddDiscoveryPortal(P, cmd.arg)
      [] cmd.do = "removeDiscovery" -> RemoveDiscoveryPortal(P, cmd.arg)
      [] OTHER -> [P EXCEPT !.enabled = (cmd.do = "enable")]

\* The commands after which the daemon is told to update its discovery.
UpdatesDiscovery == {"addDiscovery", "enable", "disable"}
=============================================================================
