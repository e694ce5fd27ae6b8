--------------------------- MODULE Daemon_proofs ----------------------------
(***************************************************************************)
(* The properties of Daemon hold for every number of clients, targets,     *)
(* portals and discovery threads, and for every set of commands.           *)
(***************************************************************************)
EXTENDS Daemon, TLAPS

\* Objects whose dynamic targets are listed.
Listing == {P \in Objects : Listed(P)}
Discovery == [on : BOOLEAN, list : SUBSET Targets]

\* What a command is and what it names.
LEMMA CommandCases ==
    ASSUME NEW cmd \in Commands
    PROVE  /\ cmd.do \in {"add", "remove", "removePortal", "rename",
                          "addDiscovery", "removeDiscovery", "enable", "disable"}
           /\ cmd.do \in {"add", "remove", "removePortal", "rename"}
                  => cmd.arg \in Targets
           /\ cmd.do = "rename" => cmd.to \in Targets
           /\ cmd.do \in {"addDiscovery", "removeDiscovery"} => cmd.arg \in Portals
BY DEF Commands

\* An object, put together from its parts.
LEMMA ListingParts ==
    ASSUME NEW T \in [Targets -> Entries], NEW D \in [Portals -> Discovery],
           NEW e \in BOOLEAN,
           \A t \in Targets : \A p \in Portals :
               T[t].cfg = p => D[p].on /\ t \in D[p].list
    PROVE  [tgt |-> T, dsc |-> D, enabled |-> e] \in Listing
BY DEF Listing, Objects, Listed, Discovery

LEMMA PartsOf ==
    ASSUME NEW P \in Listing
    PROVE  /\ P.tgt \in [Targets -> Entries]
           /\ P.dsc \in [Portals -> Discovery]
           /\ P.enabled \in BOOLEAN
           /\ P = [tgt |-> P.tgt, dsc |-> P.dsc, enabled |-> P.enabled]
           /\ \A t \in Targets : \A p \in Portals :
                  P.tgt[t].cfg = p => P.dsc[p].on /\ t \in P.dsc[p].list
BY DEF Listing, Objects, Listed, Discovery

LEMMA EntryCases ==
    /\ Missing \in Entries /\ Fresh \in Entries
    /\ \A x \in Entries : /\ x.portals \in 0..MaxPortals
                          /\ x.cfg = "none" => x = Missing
    /\ Missing.cfg \notin Portals /\ Fresh.cfg \notin Portals
    /\ Missing.portals = 0 /\ Fresh.portals = 0
    /\ Missing.cfg = "none" /\ Fresh.cfg = "static"
BY PreferencesAssumption DEF Entries, Missing, Fresh

\* One target is given another entry that is not dynamic, or has another
\* number of portals.
LEMMA EntryListing ==
    ASSUME NEW P \in Listing, NEW t \in Targets, NEW x \in Entries,
           x.cfg \notin Portals \/ x.cfg = P.tgt[t].cfg
    PROVE  [P EXCEPT !.tgt[t] = x] \in Listing
<1> DEFINE T == [P.tgt EXCEPT ![t] = x]
<1>1. T \in [Targets -> Entries]
  BY PartsOf
<1>2. \A u \in Targets : \A p \in Portals :
          T[u].cfg = p => P.dsc[p].on /\ u \in P.dsc[p].list
  BY PartsOf
<1>3. [P EXCEPT !.tgt[t] = x] = [tgt |-> T, dsc |-> P.dsc, enabled |-> P.enabled]
  BY PartsOf
<1> HIDE DEF T
<1> QED BY <1>1, <1>2, <1>3, PartsOf, ListingParts

LEMMA BlankListing == Blank \in Listing
BY EntryCases DEF Blank, Listing, Objects, Listed

LEMMA CreatedListing ==
    ASSUME NEW P \in Listing, NEW t \in Targets
    PROVE  Created(P, t) \in Listing
BY EntryCases, EntryListing DEF Created

LEMMA RemovedListing ==
    ASSUME NEW P \in Listing, NEW t \in Targets
    PROVE  RemoveTarget(P, t) \in Listing
BY EntryCases, EntryListing DEF RemoveTarget

\* Another number of portals.
LEMMA PortalsListing ==
    ASSUME NEW P \in Listing, NEW t \in Targets, NEW n \in 1..MaxPortals,
           P.tgt[t].portals # 0
    PROVE  [P EXCEPT !.tgt[t].portals = n] \in Listing
<1> DEFINE x == [P.tgt[t] EXCEPT !.portals = n]
<1>1. x \in Entries /\ x.cfg = P.tgt[t].cfg
  BY PartsOf DEF Entries, Missing
<1>2. [P EXCEPT !.tgt[t].portals = n] = [P EXCEPT !.tgt[t] = x]
  BY PartsOf
<1> HIDE DEF x
<1> QED BY <1>1, <1>2, EntryListing

\* What a command that is not refused makes of an object.
LEMMA EditedListing ==
    ASSUME NEW P \in Listing, NEW cmd \in Commands, ~Refused(P, cmd)
    PROVE  Edited(P, cmd) \in Listing
<1>0. PICK t, p : /\ t = cmd.arg /\ p = cmd.arg
  OBVIOUS
<1>1. CASE cmd.do = "add"
  <2>1. t \in Targets
    BY <1>0, <1>1, CommandCases
  <2>2. CASE ~Contains(P, t)
    <3> DEFINE x == [cfg |-> "static", portals |-> 1]
    <3>1. x \in Entries /\ x.cfg \notin Portals
      BY PreferencesAssumption DEF Entries
    <3>2. Edited(P, cmd) = [P EXCEPT !.tgt[t] = x]
      BY <1>0, <1>1, <2>2 DEF Edited, AddStaticTarget, Fresh
    <3> QED BY <2>1, <3>1, <3>2, EntryListing
  <2>3. CASE Contains(P, t)
    <3>1. Edited(P, cmd) = AddPortal(P, t)
      BY <1>0, <1>1, <2>3 DEF Edited
    <3>2. CASE P.tgt[t].portals \in 1..(MaxPortals - 1)
      <4>1. P.tgt[t].portals + 1 \in 1..MaxPortals /\ P.tgt[t].portals # 0
        BY <3>2, PreferencesAssumption
      <4>2. AddPortal(P, t) = [P EXCEPT !.tgt[t].portals = P.tgt[t].portals + 1]
        BY <2>1, <3>2, PartsOf DEF AddPortal
      <4> QED BY <2>1, <3>1, <4>1, <4>2, PortalsListing
    <3>3. CASE P.tgt[t].portals \notin 1..(MaxPortals - 1)
      BY <3>1, <3>3 DEF AddPortal
    <3> QED BY <3>2, <3>3
  <2> QED BY <2>2, <2>3
<1>2. CASE cmd.do = "remove"
  BY <1>2, CommandCases, RemovedListing DEF Edited
<1>3. CASE cmd.do = "removePortal"
  <2>1. t \in Targets /\ Edited(P, cmd) = RemovePortal(P, t)
    BY <1>0, <1>3, CommandCases DEF Edited
  <2>2. P.tgt[t].portals \in 0..MaxPortals
    BY <2>1, PartsOf, EntryCases
  <2>3. CASE P.tgt[t].portals = 0
    BY <2>1, <2>3 DEF RemovePortal
  <2>4. CASE P.tgt[t].portals = 1
    BY <2>1, <2>4, RemovedListing DEF RemovePortal
  <2>5. CASE P.tgt[t].portals \notin {0, 1}
    <3>1. P.tgt[t].portals - 1 \in 1..MaxPortals
      BY <2>2, <2>5, PreferencesAssumption
    <3>2. RemovePortal(P, t) = [P EXCEPT !.tgt[t].portals = P.tgt[t].portals - 1]
      BY <2>1, <2>5, PartsOf DEF RemovePortal
    <3> QED BY <2>1, <2>5, <3>1, <3>2, PortalsListing
  <2> QED BY <2>3, <2>4, <2>5
<1>4. CASE cmd.do = "rename"
  <2>1. t \in Targets /\ cmd.to \in Targets
    BY <1>0, <1>4, CommandCases
  <2>2. P.tgt[t] \in Entries /\ P.tgt[t].cfg \notin Portals
    BY <1>0, <1>4, <2>1, PartsOf, PreferencesAssumption DEF Refused, IsStatic
  <2>3. [P EXCEPT !.tgt[cmd.to] = P.tgt[t]] \in Listing
    BY <2>1, <2>2, EntryListing
  <2>4. Edited(P, cmd) = RemoveTarget([P EXCEPT !.tgt[cmd.to] = P.tgt[t]], t)
    BY <1>0, <1>4, <2>1, PartsOf DEF Edited, SetTargetIQN, RemoveTarget
  <2> QED BY <2>1, <2>3, <2>4, RemovedListing
<1>5. CASE cmd.do = "addDiscovery"
  <2>1. p \in Portals /\ Edited(P, cmd) = AddDiscoveryPortal(P, p)
    BY <1>0, <1>5, CommandCases DEF Edited
  <2>2. CASE P.dsc[p].on
    BY <2>1, <2>2 DEF AddDiscoveryPortal
  <2>3. CASE ~P.dsc[p].on
    <3> DEFINE D == [P.dsc EXCEPT ![p] = [on |-> TRUE, list |-> {}]]
    <3>1. D \in [Portals -> Discovery]
      BY PartsOf DEF Discovery
    <3>2. \A u \in Targets : \A q \in Portals :
              P.tgt[u].cfg = q => D[q].on /\ u \in D[q].list
      BY <2>1, <2>3, PartsOf
    <3>3. Edited(P, cmd) = [tgt |-> P.tgt, dsc |-> D, enabled |-> P.enabled]
      BY <2>1, <2>3, PartsOf DEF AddDiscoveryPortal
    <3> HIDE DEF D
    <3> QED BY <3>1, <3>2, <3>3, PartsOf, ListingParts
  <2> QED BY <2>2, <2>3
<1>6. CASE cmd.do = "removeDiscovery"
  <2>1. p \in Portals /\ Edited(P, cmd) = RemoveDiscoveryPortal(P, p)
    BY <1>0, <1>6, CommandCases DEF Edited
  <2> DEFINE D == [P.dsc EXCEPT ![p] = [on |-> FALSE, list |-> {}]]
             T == [u \in Targets |-> IF u \in P.dsc[p].list THEN Missing
                                     ELSE P.tgt[u]]
  <2>2. D \in [Portals -> Discovery] /\ T \in [Targets -> Entries]
    BY PartsOf, EntryCases, ZenonT(30) DEF Discovery
  <2>3. \A u \in Targets : \A q \in Portals :
            T[u].cfg = q => D[q].on /\ u \in D[q].list
    BY <2>1, PartsOf, EntryCases
  <2>4. Edited(P, cmd) = [tgt |-> T, dsc |-> D, enabled |-> P.enabled]
    BY <2>1, PartsOf DEF RemoveDiscoveryPortal
  <2> HIDE DEF D, T
  <2> QED BY <2>2, <2>3, <2>4, PartsOf, ListingParts
<1>7. CASE cmd.do \in {"enable", "disable"}
  BY <1>7 DEF Edited, Listing, Objects, Listed
<1> QED BY <1>1, <1>2, <1>3, <1>4, <1>5, <1>6, <1>7, CommandCases

\* A merge of what was found over a portal that is still one.
LEMMA MergedListing ==
    ASSUME NEW P \in Listing, NEW p \in Portals, NEW F \in SUBSET Targets,
           P.dsc[p].on
    PROVE  Merged(P, p, F) \in Listing /\ MergeDrops(P, p, F) \subseteq Targets
<1> DEFINE A == MergeAdds(P, F)
           R == MergeDrops(P, p, F)
           L == P.dsc[p].list \cup A
           D == [P.dsc EXCEPT ![p] = [on |-> TRUE, list |-> L]]
           N == [cfg |-> p, portals |-> 1]
           T == [u \in Targets |-> CASE u \in A -> N
                                     [] u \in R -> Missing
                                     [] OTHER -> P.tgt[u]]
<1>1. A \subseteq Targets /\ L \subseteq Targets /\ R \subseteq Targets \ A
  BY PartsOf DEF MergeAdds, MergeDrops, Discovery
<1>2. N \in Entries /\ N.cfg = p
  BY PreferencesAssumption DEF Entries
<1> HIDE DEF A, R, L, N
<1>3. D \in [Portals -> Discovery]
  BY <1>1, PartsOf DEF Discovery
<1>4. T \in [Targets -> Entries]
  BY <1>1, <1>2, PartsOf, EntryCases
<1>5. A \subseteq L /\ P.dsc[p].list \subseteq L
  BY DEF L
<1>6. ASSUME NEW u \in Targets, NEW q \in Portals, T[u].cfg = q
      PROVE  D[q].on /\ u \in D[q].list
  <2>1. CASE u \in A
    <3>1. T[u] = N
      BY <1>1, <2>1
    <3>2. q = p
      BY <1>2, <1>6, <3>1
    <3>3. D[p].on /\ D[p].list = L
      BY PartsOf
    <3> QED BY <1>5, <2>1, <3>2, <3>3
  <2>2. CASE u \notin A /\ u \in R
    BY <1>6, <2>2, EntryCases
  <2>3. CASE u \notin A /\ u \notin R
    BY <1>5, <1>6, <2>3, PartsOf
  <2> QED BY <2>1, <2>2, <2>3
<1>7. Merged(P, p, F) = [P EXCEPT !.dsc[p].list = L, !.tgt = T]
  BY PartsOf DEF Merged, A, R, L, N
<1> HIDE DEF D, T
<1>8. [P EXCEPT !.dsc[p].list = L, !.tgt = T] \in Objects
  BY <1>1, <1>4 DEF Listing, Objects
<1>9. Listed([P EXCEPT !.dsc[p].list = L, !.tgt = T])
  BY <1>1, <1>4, <1>6, PartsOf DEF Listed, D, Listing, Objects
<1> QED BY <1>1, <1>7, <1>8, <1>9 DEF R, Listing

-----------------------------------------------------------------------------
(* What getters created apart. *)

Plainly(x) == IF x.portals = 0 THEN Missing ELSE x

LEMMA PlainEntry ==
    ASSUME NEW x \in Entries
    PROVE  /\ Plainly(x) \in Entries /\ Plainly(Plainly(x)) = Plainly(x)
           /\ x.portals # 0 => Plainly(x) = x
           /\ x.portals = 0 => Plainly(x) = Missing
           /\ Plainly(x).portals = x.portals
BY EntryCases DEF Plainly

LEMMA PlainParts ==
    ASSUME NEW P \in Listing
    PROVE  /\ Plain(P).tgt = [t \in Targets |-> Plainly(P.tgt[t])]
           /\ Plain(P).dsc = P.dsc /\ Plain(P).enabled = P.enabled
           /\ Plain(P) \in Listing
<1>1. Plain(P) = [P EXCEPT !.tgt = [t \in Targets |-> Plainly(P.tgt[t])]]
  BY PartsOf DEF Plain, Plainly
<1>2. [t \in Targets |-> Plainly(P.tgt[t])] \in [Targets -> Entries]
  BY PartsOf, PlainEntry
<1>3. [P EXCEPT !.tgt = [t \in Targets |-> Plainly(P.tgt[t])]] \in Objects
  BY <1>2 DEF Listing, Objects
<1>4. \A t \in Targets : Plainly(P.tgt[t]).cfg \in {P.tgt[t].cfg, "none"}
  BY EntryCases DEF Plainly
<1>5. Listed(Plain(P))
  BY <1>1, <1>4, PartsOf, PreferencesAssumption DEF Listed, Listing, Objects
<1> QED BY <1>1, <1>3, <1>5 DEF Listing, Objects

\* Two objects that differ in what getters created.
LEMMA PlainSame ==
    ASSUME NEW P \in Listing, NEW Q \in Listing,
           P.dsc = Q.dsc, P.enabled = Q.enabled,
           \A t \in Targets : Plainly(P.tgt[t]) = Plainly(Q.tgt[t])
    PROVE  Plain(P) = Plain(Q)
<1>1. Plain(P).tgt = Plain(Q).tgt
  <2>1. Plain(P).tgt = [t \in Targets |-> Plainly(P.tgt[t])]
    BY PlainParts
  <2>2. Plain(Q).tgt = [t \in Targets |-> Plainly(Q.tgt[t])]
    BY PlainParts
  <2>3. [t \in Targets |-> Plainly(P.tgt[t])] = [t \in Targets |-> Plainly(Q.tgt[t])]
    OBVIOUS
  <2> QED BY <2>1, <2>2, <2>3, Zenon
<1>2. Plain(P) \in Listing /\ Plain(Q) \in Listing
  BY PlainParts
<1>3. Plain(P).dsc = Plain(Q).dsc /\ Plain(P).enabled = Plain(Q).enabled
  BY PlainParts
<1> QED BY <1>1, <1>2, <1>3 DEF Listing, Objects

\* The same entry is set in an object and in what is plain of it.
LEMMA PlainEntrySet ==
    ASSUME NEW P \in Listing, NEW t \in Targets, NEW x \in Entries,
           \/ x.cfg \notin Portals
           \/ x.cfg = P.tgt[t].cfg /\ P.tgt[t].portals # 0
    PROVE  /\ [P EXCEPT !.tgt[t] = x] \in Listing
           /\ [Plain(P) EXCEPT !.tgt[t] = Plainly(x)] \in Listing
           /\ Plain([P EXCEPT !.tgt[t] = x])
                 = Plain([Plain(P) EXCEPT !.tgt[t] = Plainly(x)])
<1> DEFINE Q == Plain(P)
           y == Plainly(x)
<1>1. Q \in Listing /\ Q.dsc = P.dsc /\ Q.enabled = P.enabled
      /\ \A u \in Targets : Q.tgt[u] = Plainly(P.tgt[u])
  BY PlainParts
<1>2. y \in Entries /\ Plainly(y) = y
  BY PlainEntry
<1>3. y.cfg \notin Portals \/ y.cfg = Q.tgt[t].cfg
  BY <1>1, PartsOf, PlainEntry, EntryCases DEF Plainly
<1>4. \A u \in Targets : Plainly(Q.tgt[u]) = Plainly(P.tgt[u])
  BY <1>1, PartsOf, PlainEntry
<1>5. [P EXCEPT !.tgt[t] = x] \in Listing
  BY EntryListing
<1> HIDE DEF Q, y
<1>6. [Q EXCEPT !.tgt[t] = y] \in Listing
  BY <1>1, <1>2, <1>3, EntryListing
<1>7. \A u \in Targets : Plainly([P EXCEPT !.tgt[t] = x].tgt[u])
                            = Plainly([Q EXCEPT !.tgt[t] = y].tgt[u])
  BY <1>1, <1>2, <1>4, PartsOf DEF y
<1>8. /\ [P EXCEPT !.tgt[t] = x].dsc = [Q EXCEPT !.tgt[t] = y].dsc
      /\ [P EXCEPT !.tgt[t] = x].enabled = [Q EXCEPT !.tgt[t] = y].enabled
  BY <1>1, PartsOf
<1>9. Plain([P EXCEPT !.tgt[t] = x]) = Plain([Q EXCEPT !.tgt[t] = y])
  BY <1>5, <1>6, <1>7, <1>8, PlainSame
<1> QED BY <1>5, <1>6, <1>9 DEF Q, y

\* A command does not see what getters created.
LEMMA EditedPlain ==
    ASSUME NEW P \in Listing, NEW cmd \in Commands, ~Refused(P, cmd)
    PROVE  Plain(Edited(P, cmd)) \in {Plain(P), Plain(Edited(Plain(P), cmd))}
<1> DEFINE Q == Plain(P)
<1>0. PICK t, p : /\ t = cmd.arg /\ p = cmd.arg
  OBVIOUS
<1>q. /\ Q \in Listing /\ Q.dsc = P.dsc /\ Q.enabled = P.enabled
      /\ \A u \in Targets : Q.tgt[u] = Plainly(P.tgt[u])
  BY PlainParts
<1>p. \A u \in Targets : P.tgt[u] \in Entries
  BY PartsOf
<1>r. \A u \in Targets : Plainly(P.tgt[u]) = Plainly(Q.tgt[u])
  BY <1>p, <1>q, PlainEntry
<1> HIDE DEF Q
<1>1. CASE cmd.do = "add"
  <2>1. t \in Targets
    BY <1>0, <1>1, CommandCases
  <2>2. CASE ~Contains(P, t)
    <3> DEFINE x == [cfg |-> "static", portals |-> 1]
    <3>1. x \in Entries /\ x.cfg \notin Portals /\ Plainly(x) = x
      BY PreferencesAssumption DEF Entries, Plainly
    <3>2. ~Contains(Q, t)
      BY <1>p, <1>q, <2>1, <2>2, EntryCases DEF Contains, Plainly
    <3>3. /\ Edited(P, cmd) = [P EXCEPT !.tgt[t] = x]
          /\ Edited(Q, cmd) = [Q EXCEPT !.tgt[t] = x]
      BY <1>0, <1>1, <2>2, <3>2 DEF Edited, AddStaticTarget, Fresh
    <3> HIDE DEF x
    <3> QED BY <2>1, <3>1, <3>3, PlainEntrySet DEF Q
  <2>3. CASE Contains(P, t) /\ P.tgt[t].portals = 0
    BY <1>0, <1>1, <2>3 DEF Edited, AddPortal
  <2>4. CASE Contains(P, t) /\ P.tgt[t].portals # 0
    <3>1. Q.tgt[t] = P.tgt[t] /\ Contains(Q, t)
      BY <1>p, <1>q, <2>1, <2>4, PlainEntry DEF Contains
    <3>2. Edited(P, cmd) = AddPortal(P, t) /\ Edited(Q, cmd) = AddPortal(Q, t)
      BY <1>0, <1>1, <2>4, <3>1 DEF Edited
    <3>3. CASE P.tgt[t].portals \in 1..(MaxPortals - 1)
      <4> DEFINE x == [P.tgt[t] EXCEPT !.portals = P.tgt[t].portals + 1]
      <4>1. x \in Entries /\ x.cfg = P.tgt[t].cfg /\ x.portals # 0
        BY <1>p, <1>q, <2>1, <3>3, PreferencesAssumption DEF Entries, Missing
      <4>2. /\ Edited(P, cmd) = [P EXCEPT !.tgt[t] = x]
            /\ Edited(Q, cmd) = [Q EXCEPT !.tgt[t] = x]
        BY <1>p, <1>q, <2>1, <3>1, <3>2, <3>3, PartsOf DEF AddPortal
      <4>3. Plainly(x) = x
        BY <4>1, PlainEntry
      <4> HIDE DEF x
      <4> QED BY <2>1, <2>4, <4>1, <4>2, <4>3, PlainEntrySet DEF Q
    <3>4. CASE P.tgt[t].portals \notin 1..(MaxPortals - 1)
      BY <3>2, <3>4 DEF AddPortal
    <3> QED BY <3>3, <3>4
  <2> QED BY <2>2, <2>3, <2>4
<1>2. CASE cmd.do \in {"remove", "removePortal"} /\ Edited(P, cmd) = RemoveTarget(P, t)
           /\ (cmd.do = "remove" \/ P.tgt[t].portals = 1)
  <2>1. t \in Targets
    BY <1>0, <1>2, CommandCases
  <2>2. P.tgt[t].portals = 1 => Q.tgt[t] = P.tgt[t]
    BY <1>p, <1>q, <2>1, PlainEntry
  <2>3. Edited(Q, cmd) = RemoveTarget(Q, t)
    BY <1>0, <1>2, <2>2 DEF Edited, RemovePortal
  <2>4. Plainly(Missing) = Missing
    BY EntryCases, PlainEntry
  <2> QED BY <1>2, <2>1, <2>3, <2>4, EntryCases, PlainEntrySet DEF RemoveTarget, Q
<1>3. CASE cmd.do = "removePortal"
  <2>1. t \in Targets /\ Edited(P, cmd) = RemovePortal(P, t)
        /\ Edited(Q, cmd) = RemovePortal(Q, t)
    BY <1>0, <1>3, CommandCases DEF Edited
  <2>2. P.tgt[t].portals \in 0..MaxPortals
    BY <1>p, <1>q, <2>1, EntryCases
  <2>3. CASE P.tgt[t].portals = 0
    BY <2>1, <2>3 DEF RemovePortal
  <2>4. CASE P.tgt[t].portals = 1
    BY <1>2, <1>3, <2>1, <2>4 DEF RemovePortal
  <2>5. CASE P.tgt[t].portals \notin {0, 1}
    <3> DEFINE x == [P.tgt[t] EXCEPT !.portals = P.tgt[t].portals - 1]
    <3>0. Q.tgt[t] = P.tgt[t]
      BY <1>p, <1>q, <2>1, <2>5, PlainEntry
    <3>1. x \in Entries /\ x.cfg = P.tgt[t].cfg /\ x.portals # 0
      BY <1>p, <1>q, <2>1, <2>2, <2>5, PreferencesAssumption DEF Entries, Missing
    <3>2. /\ Edited(P, cmd) = [P EXCEPT !.tgt[t] = x]
          /\ Edited(Q, cmd) = [Q EXCEPT !.tgt[t] = x]
      BY <1>p, <1>q, <2>1, <2>5, <3>0, PartsOf DEF RemovePortal
    <3>3. Plainly(x) = x
      BY <3>1, PlainEntry
    <3> HIDE DEF x
    <3> QED BY <2>1, <2>5, <3>1, <3>2, <3>3, PlainEntrySet DEF Q
  <2> QED BY <2>3, <2>4, <2>5
<1>4. CASE cmd.do = "rename"
  <2> DEFINE u == cmd.to
             x == P.tgt[t]
             P1 == [P EXCEPT !.tgt[u] = x]
             Q1 == [Q EXCEPT !.tgt[u] = Plainly(x)]
  <2>1. t \in Targets /\ u \in Targets
    BY <1>0, <1>4, CommandCases
  <2>2. x \in Entries /\ x.cfg \notin Portals
    BY <1>0, <1>4, <2>1, PartsOf, PreferencesAssumption DEF Refused, IsStatic
  <2>3. P1 \in Listing /\ Q1 \in Listing /\ Plain(P1) = Plain(Q1)
    BY <2>1, <2>2, PlainEntrySet DEF Q
  <2>4. Edited(P, cmd) = RemoveTarget(P1, t)
    BY <1>0, <1>4, <2>1, PartsOf DEF Edited, SetTargetIQN, RemoveTarget
  <2>5. Edited(Q, cmd) = RemoveTarget(Q1, t)
    BY <1>0, <1>4, <1>q, <2>1, PartsOf DEF Edited, SetTargetIQN, RemoveTarget
  <2> HIDE DEF P1, Q1
  <2>6. ASSUME NEW R \in Listing
        PROVE  Plain(RemoveTarget(R, t)) = Plain(RemoveTarget(Plain(R), t))
    BY <2>1, EntryCases, PlainEntry, PlainEntrySet DEF RemoveTarget
  <2> QED BY <2>3, <2>4, <2>5, <2>6 DEF Q
<1>5. CASE cmd.do \in {"addDiscovery", "removeDiscovery", "enable", "disable"}
  <2>1. ~Refused(Q, cmd)
    BY <1>5, <1>q DEF Refused
  <2>2. Edited(P, cmd) \in Listing /\ Edited(Q, cmd) \in Listing
    BY <1>p, <1>q, <2>1, EditedListing
  <2>3. Plain(Edited(P, cmd)) = Plain(Edited(Q, cmd))
    <3>1. CASE cmd.do = "addDiscovery"
      <4>1. p \in Portals
        BY <1>0, <3>1, CommandCases
      <4>2. /\ Edited(P, cmd).dsc = Edited(Q, cmd).dsc
            /\ Edited(P, cmd).enabled = Edited(Q, cmd).enabled
            /\ Edited(P, cmd).tgt = P.tgt /\ Edited(Q, cmd).tgt = Q.tgt
        BY <1>0, <1>p, <1>q, <3>1, PartsOf DEF Edited, AddDiscoveryPortal
      <4> QED BY <1>r, <2>2, <4>2, PlainSame
    <3>2. CASE cmd.do = "removeDiscovery"
      <4> DEFINE Left(R) == [v \in Targets |-> IF v \in R.dsc[p].list THEN Missing
                                               ELSE R.tgt[v]]
      <4>1. ASSUME NEW R \in Listing
            PROVE  /\ Edited(R, cmd).enabled = R.enabled
                   /\ Edited(R, cmd).tgt = Left(R)
                   /\ Edited(R, cmd).dsc
                        = [R.dsc EXCEPT ![p] = [on |-> FALSE, list |-> {}]]
        <5>1. Edited(R, cmd) = RemoveDiscoveryPortal(R, p)
          BY <1>0, <3>2 DEF Edited
        <5> QED BY <5>1, PartsOf DEF RemoveDiscoveryPortal
      <4>2. /\ Edited(P, cmd).dsc = Edited(Q, cmd).dsc
            /\ Edited(P, cmd).enabled = Edited(Q, cmd).enabled
            /\ Edited(P, cmd).tgt = Left(P) /\ Edited(Q, cmd).tgt = Left(Q)
        BY <1>q, <4>1
      <4>3. \A v \in Targets : Plainly(Left(P)[v]) = Plainly(Left(Q)[v])
        BY <1>p, <1>q, <1>r
      <4> QED BY <2>2, <4>2, <4>3, PlainSame
    <3>3. CASE cmd.do \in {"enable", "disable"}
      <4>2. /\ Edited(P, cmd).dsc = Edited(Q, cmd).dsc
            /\ Edited(P, cmd).enabled = Edited(Q, cmd).enabled
            /\ Edited(P, cmd).tgt = P.tgt /\ Edited(Q, cmd).tgt = Q.tgt
        BY <1>p, <1>q, <3>3, PartsOf DEF Edited
      <4> QED BY <1>r, <2>2, <4>2, PlainSame
    <3> QED BY <1>5, <3>1, <3>2, <3>3
  <2> QED BY <2>3 DEF Q
<1>6. CASE cmd.do = "remove"
  BY <1>0, <1>2, <1>6 DEF Edited
<1> QED BY <1>1, <1>3, <1>4, <1>5, <1>6, CommandCases

-----------------------------------------------------------------------------
(* The inductive invariant. *)

\* The requests a client sends.
Sent == {Lock, Abandon, Update} \cup {IsActive(t) : t \in Targets}
          \cup {Login(t) : t \in Targets} \cup {Unlock(P) : P \in Listing}
Contents(s) == {s[i] : i \in 1..Len(s)}

States == {"idle", "edit", "decide", "refuse", "notify", "done"} \cup Waiting
Holding == {"decide", "ask", "refuse"}
Records == [pc : States, cmd : Commands \cup {NoCommand}, copy : Listing,
            ask : SUBSET Targets, chan : Seq(Sent), late : BOOLEAN,
            conn : {"none", "backlog", "up", "reset"}]

Silent(r, q) == \A m \in Contents(r.chan) : m.req # q

\* A client edits what is not refused to it, and asks for the lock, and
\* unlocks, once; before it is connected it has done neither.
GoodClient(r) ==
    /\ r \in Records
    /\ r.pc \in Holding \cup {"lock", "edit"} => r.cmd \in Commands
    /\ r.pc \in Holding => ~Refused(r.copy, r.cmd)
    /\ r.pc \notin {"lock", "done"} => Silent(r, "lock")
    /\ r.pc \in Holding \cup {"lock", "edit", "login"} => Silent(r, "unlock")
    /\ r.pc = "idle" => r.conn = "none" /\ r.chan = <<>>
    /\ r.conn \in {"none", "backlog"} =>
           r.pc \in {"idle", "lock", "login", "done"} /\ Silent(r, "unlock")

\* What a client has read, and what it has sent, is based on what is stored.
Holds(r, P) ==
    /\ r.pc \in Holding => Plain(r.copy) = Plain(P)
    /\ \A m \in Contents(r.chan) : m.req = "unlock" =>
           Plain(m.data) \in {Plain(P), Plain(Edited(Plain(P), r.cmd))}

ClientsOK ==
    /\ cl \in [Clients -> Records]
    /\ \A c \in Clients : GoodClient(cl[c])
    /\ fd \in Clients => cl[fd].conn = "up"

PrefsOK ==
    /\ store \in Listing /\ mirror \in Listing
    /\ main \notin {"merge", "down"} => Agrees(mirror, store)

MainOK ==
    /\ main \in {"loop", "read", "peek", "merge", "blocked", "down"}
    /\ fd \in Clients \cup {None} /\ lock \in Clients \cup {None}
    /\ main \in {"read", "peek"} => fd # None
    /\ main = "merge" => lock = None
    /\ ready \in BOOLEAN /\ deaf \in BOOLEAN /\ timer \in BOOLEAN
    /\ discLock \in BOOLEAN /\ signaled \in BOOLEAN

\* What is so as long as no discovery has overlapped another.
Alone ==
    /\ \A i, j \in Threads :
           thread[i].pc # "none" /\ thread[j].pc # "none" => i = j
    /\ ~merging.freed
    /\ signaled \/ main = "merge" => \A i \in Threads : thread[i].pc = "none"
    /\ records.st = "freed" => \E i \in Threads : thread[i].pc = "query"

DiscoveryOK ==
    /\ thread \in [Threads -> [pc : {"none", "start", "query", "signal"},
                               ports : SUBSET Portals, stale : BOOLEAN]]
    /\ records \in [st : {"null", "live", "freed"}, found : Finds]
    /\ merging \in [found : Finds, ports : SUBSET Portals, freed : BOOLEAN]
    /\ merging.ports \subseteq DOMAIN merging.found
    /\ overlap \in BOOLEAN /\ overlaps \in Nat
    /\ ~overlap => Alone

SessionsOK == active \subseteq Targets /\ queued \subseteq Targets

\* As long as a client that is served has the lock.
Kept == fd \in Clients /\ lock # None => Holds(cl[fd], store)

IInv == /\ ClientsOK /\ PrefsOK /\ MainOK /\ DiscoveryOK /\ SessionsOK
        /\ Kept /\ faults \in 0..MaxFaults

-----------------------------------------------------------------------------
(* Requests and clients. *)

LEMMA SentCases ==
    /\ \A m \in Sent :
           /\ m.req \in {"active", "login"} => m.tgt \in Targets
           /\ m.req = "unlock" => m.data \in Listing
    /\ Lock \in Sent /\ Lock.req = "lock"
    /\ Abandon \in Sent /\ Abandon.req = "abandon"
    /\ Update \in Sent /\ Update.req = "update"
    /\ \A t \in Targets : IsActive(t) \in Sent /\ IsActive(t).req = "active"
    /\ \A t \in Targets : Login(t) \in Sent /\ Login(t).req = "login"
    /\ \A P \in Listing : /\ Unlock(P) \in Sent /\ Unlock(P).req = "unlock"
                           /\ Unlock(P).data = P
<1>1. /\ Lock \in Sent /\ Abandon \in Sent /\ Update \in Sent
      /\ \A t \in Targets : IsActive(t) \in Sent /\ Login(t) \in Sent
      /\ \A P \in Listing : Unlock(P) \in Sent
  BY Zenon DEF Sent
<1>2. /\ Lock.req = "lock" /\ Abandon.req = "abandon" /\ Update.req = "update"
      /\ \A t : IsActive(t).req = "active" /\ IsActive(t).tgt = t
      /\ \A t : Login(t).req = "login" /\ Login(t).tgt = t
      /\ \A P : Unlock(P).req = "unlock" /\ Unlock(P).data = P
  BY DEF Lock, Abandon, Update, IsActive, Login, Unlock
<1>3. ASSUME NEW m \in Sent
      PROVE  \/ m \in {Lock, Abandon, Update}
             \/ \E t \in Targets : m \in {IsActive(t), Login(t)}
             \/ \E P \in Listing : m = Unlock(P)
  BY <1>3, Zenon DEF Sent
<1>4. ASSUME NEW m \in Sent
      PROVE  /\ m.req \in {"active", "login"} => m.tgt \in Targets
             /\ m.req = "unlock" => m.data \in Listing
  <2>1. CASE m \in {Lock, Abandon, Update}
    BY <1>2, <2>1
  <2>2. CASE \E t \in Targets : m \in {IsActive(t), Login(t)}
    BY <1>2, <2>2
  <2>3. CASE \E P \in Listing : m = Unlock(P)
    BY <1>2, <2>3
  <2> QED BY <1>3, <2>1, <2>2, <2>3
<1> QED BY <1>1, <1>2, <1>4

LEMMA Channel ==
    ASSUME NEW s \in Seq(Sent)
    PROVE  /\ \A m \in Sent : /\ Append(s, m) \in Seq(Sent)
                              /\ Contents(Append(s, m)) = Contents(s) \cup {m}
           /\ s # <<>> => /\ Tail(s) \in Seq(Sent)
                          /\ Contents(Tail(s)) \subseteq Contents(s)
                          /\ Head(s) \in Contents(s)
           /\ Contents(s) \subseteq Sent
<1>1. ASSUME NEW m \in Sent
      PROVE  /\ Append(s, m) \in Seq(Sent)
             /\ Contents(Append(s, m)) = Contents(s) \cup {m}
  <2>1. /\ Append(s, m) \in Seq(Sent) /\ Len(Append(s, m)) = Len(s) + 1
        /\ \A i \in 1..Len(s) : Append(s, m)[i] = s[i]
        /\ Append(s, m)[Len(s) + 1] = m
    OBVIOUS
  <2>2. Len(s) \in Nat /\ 1..(Len(s) + 1) = (1..Len(s)) \cup {Len(s) + 1}
    OBVIOUS
  <2> QED BY <2>1, <2>2 DEF Contents
<1>2. ASSUME s # <<>>
      PROVE  /\ Tail(s) \in Seq(Sent) /\ Contents(Tail(s)) \subseteq Contents(s)
             /\ Head(s) \in Contents(s)
  <2>1. /\ Tail(s) \in Seq(Sent) /\ Len(Tail(s)) = Len(s) - 1
        /\ \A i \in 1..(Len(s) - 1) : Tail(s)[i] = s[i + 1]
        /\ Head(s) = s[1] /\ Len(s) \in Nat \ {0}
    BY <1>2
  <2> QED BY <2>1 DEF Contents
<1>3. Contents(s) \subseteq Sent
  BY DEF Contents
<1> QED BY <1>1, <1>2, <1>3

LEMMA NoContents == Contents(<<>>) = {}
BY DEF Contents

LEMMA EndedGood ==
    ASSUME NEW r, GoodClient(r), r.pc # "idle"
    PROVE  /\ GoodClient(Ended(r)) /\ Ended(r).conn = r.conn
           /\ \A P \in Listing : Holds(r, P) => Holds(Ended(r), P)
<1> DEFINE e == Ended(r)
<1>1. /\ e.pc = "done" /\ e.copy = Blank /\ e.ask = {} /\ e.late = FALSE
      /\ e.chan = r.chan /\ e.conn = r.conn
      /\ e.cmd = IF r.chan = <<>> THEN NoCommand ELSE r.cmd
      /\ e \in Records
  BY BlankListing DEF GoodClient, Records, Ended, States
<1> HIDE DEF e
<1>2. GoodClient(e)
  BY <1>1 DEF GoodClient, Silent, Holding
<1>3. \A P \in Listing : Holds(r, P) => Holds(e, P)
  BY <1>1, NoContents DEF Holds, Holding
<1> QED BY <1>1, <1>2, <1>3 DEF e

LEMMA AfterGood ==
    ASSUME NEW r, GoodClient(r), r.pc # "idle", NEW ok \in BOOLEAN,
           ok /\ r.pc = "lock" => r.chan = <<>> /\ r.conn = "up"
    PROVE  /\ GoodClient(After(r, ok)) /\ After(r, ok).conn = r.conn
           /\ \A P \in Listing : Holds(r, P) => Holds(After(r, ok), P)
<1> DEFINE e == After(r, ok)
<1>1. CASE r.pc = "lock" /\ ok
  <2>1. /\ e.pc = "edit" /\ e.cmd = r.cmd /\ e.chan = r.chan /\ e.conn = r.conn
        /\ e \in Records
    BY <1>1 DEF GoodClient, Records, After, States
  <2> HIDE DEF e
  <2> QED BY <1>1, <2>1, NoContents DEF GoodClient, Silent, Holding, Holds, e
<1>2. CASE r.pc = "ask"
  <2>1. /\ e.pc \in {"refuse", "decide"} /\ e.cmd = r.cmd /\ e.chan = r.chan
        /\ e.conn = r.conn /\ e.copy = r.copy /\ e \in Records
    BY <1>2 DEF GoodClient, Records, After, States
  <2> HIDE DEF e
  <2> QED BY <1>2, <2>1 DEF GoodClient, Silent, Holding, Holds, e
<1>3. CASE r.pc = "unlock" /\ r.ask = {} /\ r.cmd.do \in UpdatesDiscovery
  <2>1. /\ e.pc = "notify" /\ e.cmd = r.cmd /\ e.chan = r.chan
        /\ e.conn = r.conn /\ e \in Records
    BY <1>3, BlankListing DEF GoodClient, Records, After, States
  <2> HIDE DEF e
  <2> QED BY <1>3, <2>1 DEF GoodClient, Silent, Holding, Holds, e
<1>4. CASE /\ ~(r.pc = "lock" /\ ok) /\ r.pc # "ask"
           /\ ~(r.pc = "unlock" /\ r.ask = {} /\ r.cmd.do \in UpdatesDiscovery)
  <2>1. e = Ended(r)
    BY <1>4 DEF After
  <2> QED BY <2>1, EndedGood
<1> QED BY <1>1, <1>2, <1>3, <1>4

LEMMA ResetGood ==
    ASSUME NEW r, GoodClient(r)
    PROVE  GoodClient(Reset(r))
<1>1. CASE r.conn = "up"
  <2> DEFINE e == Reset(r)
  <2>1. /\ e.pc = r.pc /\ e.cmd = r.cmd /\ e.copy = r.copy /\ e.chan = <<>>
        /\ e.conn = "reset" /\ e \in Records
    <3>1. <<>> \in Seq(Sent)
      OBVIOUS
    <3>2. e = [r EXCEPT !.conn = "reset", !.chan = <<>>] /\ r \in Records
      BY <1>1 DEF Reset, GoodClient
    <3> HIDE DEF e
    <3> QED BY <3>1, <3>2 DEF Records
  <2> HIDE DEF e
  <2> QED BY <1>1, <2>1, NoContents DEF GoodClient, Silent, Holding, e
<1>2. CASE r.conn # "up"
  BY <1>2 DEF Reset
<1> QED BY <1>1, <1>2

LEMMA PlainAgrees ==
    ASSUME NEW P \in Listing, NEW Q \in Listing, Agrees(Q, P)
    PROVE  Plain(Q) = Plain(P)
<1>1. \A t \in Targets : Q.tgt[t] # P.tgt[t] => P.tgt[t] = Missing /\ Q.tgt[t] = Fresh
  BY PartsOf, EntryCases DEF Agrees, Contains
<1>2. Plainly(Missing) = Missing /\ Plainly(Fresh) = Missing
  BY EntryCases DEF Plainly
<1>3. \A t \in Targets : Plainly(Q.tgt[t]) = Plainly(P.tgt[t])
  BY <1>1, <1>2
<1> QED BY <1>3, PlainSame DEF Agrees

LEMMA CreatedAgrees ==
    ASSUME NEW P \in Listing, NEW Q \in Listing, Agrees(Q, P), NEW t \in Targets
    PROVE  Agrees(Created(Q, t), P)
<1>1. CASE Contains(Q, t)
  BY <1>1 DEF Created
<1>2. CASE ~Contains(Q, t)
  <2>1. Q.tgt[t] = Missing
    BY <1>2, PartsOf, EntryCases DEF Contains
  <2>2. Q.tgt[t] = P.tgt[t]
    BY <2>1 DEF Agrees, Missing, Fresh
  <2>3. Created(Q, t) = [Q EXCEPT !.tgt[t] = Fresh]
    BY <1>2 DEF Created
  <2> QED BY <2>1, <2>2, <2>3, PartsOf DEF Agrees, Contains, Missing
<1> QED BY <1>1, <1>2

\* A step of a client.
LEMMA ClientMoves ==
    ASSUME IInv, NEW c \in Clients, NEW r, GoodClient(r),
           cl[c].conn = "up" => r.conn = "up",
           Holds(cl[c], store) => Holds(r, store),
           cl' = [cl EXCEPT ![c] = r], faults' \in 0..MaxFaults,
           UNCHANGED <<prefVars, main, fd, ready, deaf, lock, discVars, sessVars>>
    PROVE  IInv'
<1>1. ClientsOK'
  <2>1. r \in Records
    BY DEF GoodClient
  <2> QED BY <2>1 DEF IInv, ClientsOK
<1>2. Kept'
  BY DEF IInv, Kept, ClientsOK, prefVars
<1>3. PrefsOK' /\ MainOK' /\ DiscoveryOK' /\ SessionsOK'
  BY DEF IInv, PrefsOK, MainOK, DiscoveryOK, Alone, SessionsOK, prefVars,
         discVars, sessVars
<1> QED BY <1>1, <1>2, <1>3 DEF IInv

\* A client sends a request, after which it is at another place.
LEMMA SendKeeps ==
    ASSUME IInv, NEW c \in Clients, NEW r, NEW m \in Sent,
           GoodClient([r EXCEPT !.chan = Append(@, m)]),
           cl[c].conn = "up" => [r EXCEPT !.chan = Append(@, m)].conn = "up",
           Holds(cl[c], store) => Holds([r EXCEPT !.chan = Append(@, m)], store),
           Send(c, r, m), Quiet(c), UNCHANGED faults
    PROVE  IInv'
<1>1. faults' \in 0..MaxFaults
  BY DEF IInv
<1> QED BY <1>1, ClientMoves DEF Send, Quiet

LEMMA Typed ==
    ASSUME IInv, NEW c \in Clients
    PROVE  /\ GoodClient(cl[c]) /\ cl[c] \in Records
           /\ cl[c].chan \in Seq(Sent) /\ cl[c].ask \subseteq Targets
           /\ cl[c].copy \in Listing
           /\ store \in Listing /\ mirror \in Listing
BY DEF IInv, ClientsOK, GoodClient, Records, PrefsOK

LEMMA StartKeeps ==
    ASSUME IInv, NEW c \in Clients, Start(c)
    PROVE  IInv'
<1> USE Typed
<1>1. ASSUME NEW cmd \in Issued,
             Send(c, [cl[c] EXCEPT !.pc = "lock", !.cmd = cmd,
                                   !.copy = store, !.conn = "backlog"], Lock)
      PROVE  IInv'
  <2> DEFINE r == [cl[c] EXCEPT !.pc = "lock", !.cmd = cmd, !.copy = store,
                                !.conn = "backlog"]
             e == [r EXCEPT !.chan = Append(@, Lock)]
  <2>1. cl[c].chan = <<>> /\ cl[c].conn = "none"
    BY DEF Start, GoodClient
  <2>2. Contents(Append(cl[c].chan, Lock)) = {Lock}
        /\ Append(cl[c].chan, Lock) \in Seq(Sent)
    <3>1. Contents(cl[c].chan) = {}
      BY <2>1, NoContents
    <3> QED BY <3>1, Channel, SentCases
  <2>3. /\ e.pc = "lock" /\ e.cmd = cmd /\ e.conn = "backlog"
        /\ e.chan = Append(cl[c].chan, Lock) /\ e \in Records
    BY <2>2, DaemonAssumption DEF Records, States, Waiting
  <2> HIDE DEF e
  <2>4. GoodClient(e)
    BY <2>2, <2>3, SentCases, DaemonAssumption DEF GoodClient, Silent, Holding
  <2>5. Holds(e, store)
    BY <2>2, <2>3, SentCases DEF Holds, Holding
  <2> QED BY <1>1, <2>1, <2>4, <2>5, SendKeeps, SentCases DEF Start, e
<1>2. ASSUME NEW t \in LoginTo,
             Send(c, [cl[c] EXCEPT !.pc = "login", !.conn = "backlog"], Login(t))
      PROVE  IInv'
  <2> DEFINE r == [cl[c] EXCEPT !.pc = "login", !.conn = "backlog"]
             e == [r EXCEPT !.chan = Append(@, Login(t))]
  <2>1. cl[c].chan = <<>> /\ cl[c].conn = "none"
    BY DEF Start, GoodClient
  <2>2. /\ Login(t) \in Sent /\ Login(t).req = "login"
        /\ Contents(Append(cl[c].chan, Login(t))) = {Login(t)}
        /\ Append(cl[c].chan, Login(t)) \in Seq(Sent)
    <3>1. Contents(cl[c].chan) = {}
      BY <2>1, NoContents
    <3>2. Login(t) \in Sent /\ Login(t).req = "login"
      BY SentCases, DaemonAssumption
    <3> QED BY <3>1, <3>2, Channel
  <2>3. /\ e.pc = "login" /\ e.conn = "backlog"
        /\ e.chan = Append(cl[c].chan, Login(t)) /\ e \in Records
    BY <2>2 DEF Records, States, Waiting
  <2> HIDE DEF e
  <2>4. GoodClient(e)
    BY <2>2, <2>3, SentCases DEF GoodClient, Silent, Holding
  <2>5. Holds(e, store)
    BY <2>2, <2>3, SentCases DEF Holds, Holding
  <2> QED BY <1>2, <2>1, <2>2, <2>4, <2>5, SendKeeps DEF Start, e
<1> QED BY <1>1, <1>2 DEF Start

LEMMA RefreshKeeps ==
    ASSUME IInv, NEW c \in Clients, Refresh(c)
    PROVE  IInv'
<1> USE Typed
<1> DEFINE r == [cl[c] EXCEPT !.copy = store, !.ask = Asked(store, cl[c].cmd)]
           f == [r EXCEPT !.pc = "unlock", !.copy = Blank, !.ask = {}]
           e == [f EXCEPT !.chan = Append(@, Abandon)]
           g == [r EXCEPT !.pc = "decide"]
<1>0. /\ cl[c].pc = "edit" /\ cl[c].cmd \in Commands
      /\ cl[c].conn \notin {"none", "backlog"}
      /\ Silent(cl[c], "lock") /\ Silent(cl[c], "unlock")
  BY DEF Refresh, GoodClient, Holding
<1>1. CASE Refused(store, cl[c].cmd)
  <2>1. /\ Contents(Append(cl[c].chan, Abandon)) = Contents(cl[c].chan) \cup {Abandon}
        /\ Append(cl[c].chan, Abandon) \in Seq(Sent)
    BY Channel, SentCases
  <2>2. /\ e.pc = "unlock" /\ e.cmd = cl[c].cmd /\ e.conn = cl[c].conn
        /\ e.chan = Append(cl[c].chan, Abandon) /\ e \in Records
    BY <2>1, BlankListing DEF Records, States, Waiting
  <2> HIDE DEF e
  <2>3. GoodClient(e)
    BY <1>0, <2>1, <2>2, SentCases DEF GoodClient, Silent, Holding
  <2>4. Holds(e, store)
    BY <1>0, <2>1, <2>2, SentCases DEF Holds, Holding, Silent
  <2>5. Send(c, f, Abandon)
    BY <1>1 DEF Refresh, Refreshed
  <2> QED BY <2>2, <2>3, <2>4, <2>5, SendKeeps, SentCases DEF Refresh, e
<1>2. CASE ~Refused(store, cl[c].cmd)
  <2>1. Asked(store, cl[c].cmd) \subseteq Targets
    BY <1>0, CommandCases, PartsOf DEF Asked, Discovery
  <2>2. /\ g.pc = "decide" /\ g.cmd = cl[c].cmd /\ g.conn = cl[c].conn
        /\ g.chan = cl[c].chan /\ g.copy = store /\ g \in Records
    BY <2>1 DEF Records, States
  <2>3. cl' = [cl EXCEPT ![c] = g]
    BY <1>2 DEF Refresh, Refreshed
  <2> HIDE DEF g
  <2>4. GoodClient(g)
    BY <1>0, <1>2, <2>2 DEF GoodClient, Silent, Holding
  <2>5. Holds(g, store)
    BY <1>0, <2>2 DEF Holds, Silent
  <2>6. faults' \in 0..MaxFaults
    BY DEF Refresh, IInv
  <2> QED BY <2>2, <2>3, <2>4, <2>5, <2>6, ClientMoves DEF Refresh, Quiet
<1> QED BY <1>1, <1>2

\* A request of a client that holds the preferences or is past that.
LEMMA LaterRequest ==
    ASSUME IInv, NEW c \in Clients, NEW r, NEW m \in Sent, NEW pc \in States,
           r.pc = pc, r \in Records, r.cmd = cl[c].cmd, r.chan = cl[c].chan,
           r.conn = cl[c].conn,
           cl[c].pc \in Holding \cup {"notify"}, m.req # "lock",
           pc \in {"ask", "unlock", "update"},
           pc = "ask" => /\ cl[c].pc = "decide" /\ r.copy = cl[c].copy
                         /\ m.req # "unlock",
           pc = "update" => m.req # "unlock",
           m.req = "unlock" =>
               cl[c].pc \in Holding /\
               (Plain(cl[c].copy) = Plain(store) =>
                  Plain(m.data) \in {Plain(store),
                                     Plain(Edited(Plain(store), cl[c].cmd))}),
           Send(c, r, m), Quiet(c), UNCHANGED faults
    PROVE  IInv'
<1> USE Typed
<1> DEFINE e == [r EXCEPT !.chan = Append(@, m)]
<1>1. /\ Contents(Append(cl[c].chan, m)) = Contents(cl[c].chan) \cup {m}
      /\ Append(cl[c].chan, m) \in Seq(Sent)
  BY Channel
<1>2. /\ e.pc = pc /\ e.cmd = cl[c].cmd /\ e.conn = cl[c].conn /\ e.copy = r.copy
      /\ e.chan = Append(cl[c].chan, m) /\ e \in Records
  BY <1>1 DEF Records
<1> HIDE DEF e
<1>3. GoodClient(e)
  BY <1>1, <1>2 DEF GoodClient, Silent, Holding
<1>4. ASSUME Holds(cl[c], store)
      PROVE  Holds(e, store)
  BY <1>1, <1>2, <1>4 DEF Holds, Holding
<1> QED BY <1>2, <1>3, <1>4, SendKeeps DEF e

LEMMA ClientKeeps ==
    ASSUME IInv, NEW c \in Clients, ClientStep(c)
    PROVE  IInv'
<1> USE Typed
<1>1. CASE Start(c)
  BY <1>1, StartKeeps
<1>2. CASE Refresh(c)
  BY <1>2, RefreshKeeps
<1>3. CASE Ask(c)
  <2>1. PICK t \in cl[c].ask :
            Send(c, [cl[c] EXCEPT !.pc = "ask", !.ask = @ \ {t}], IsActive(t))
    BY <1>3 DEF Ask
  <2> DEFINE r == [cl[c] EXCEPT !.pc = "ask", !.ask = @ \ {t}]
  <2>2. /\ r.pc = "ask" /\ r.cmd = cl[c].cmd /\ r.chan = cl[c].chan
        /\ r.conn = cl[c].conn /\ r.copy = cl[c].copy /\ r \in Records
    BY DEF Records, States, Waiting
  <2>3. IsActive(t) \in Sent /\ IsActive(t).req = "active"
    BY SentCases
  <2>4. "ask" \in States
    BY DEF States, Waiting
  <2> HIDE DEF r
  <2> QED BY <1>3, <2>1, <2>2, <2>3, <2>4, LaterRequest DEF Ask, Holding, r
<1>4. CASE Commit(c)
  <2> DEFINE r == [cl[c] EXCEPT !.pc = "unlock", !.copy = Blank]
             P == Edited(cl[c].copy, cl[c].cmd)
  <2>1. /\ cl[c].pc = "decide" /\ cl[c].cmd \in Commands
        /\ ~Refused(cl[c].copy, cl[c].cmd)
    BY <1>4 DEF Commit, GoodClient, Holding
  <2>2. /\ P \in Listing
        /\ Plain(P) \in {Plain(cl[c].copy),
                         Plain(Edited(Plain(cl[c].copy), cl[c].cmd))}
    BY <2>1, EditedListing, EditedPlain
  <2>3. /\ r.pc = "unlock" /\ r.cmd = cl[c].cmd /\ r.chan = cl[c].chan
        /\ r.conn = cl[c].conn /\ r \in Records
    BY BlankListing DEF Records, States, Waiting
  <2> HIDE DEF P
  <2>4. Unlock(P) \in Sent /\ Unlock(P).req = "unlock" /\ Unlock(P).data = P
    BY <2>2, SentCases
  <2>5. "unlock" \in States
    BY DEF States, Waiting
  <2>6. Send(c, r, Unlock(P)) /\ Quiet(c) /\ UNCHANGED faults
    BY <1>4 DEF Commit, P
  <2> HIDE DEF r
  <2>7. cl[c].pc \in Holding
    BY <2>1 DEF Holding
  <2> QED BY <2>2, <2>3, <2>4, <2>5, <2>6, <2>7, LaterRequest
<1>5. CASE BackOut(c)
  <2> DEFINE r == [cl[c] EXCEPT !.pc = "unlock", !.copy = Blank, !.ask = {}]
             m == IF cl[c].cmd.do = "removeDiscovery" THEN Abandon
                  ELSE Unlock(cl[c].copy)
  <2>3. /\ r.pc = "unlock" /\ r.cmd = cl[c].cmd /\ r.chan = cl[c].chan
        /\ r.conn = cl[c].conn /\ r \in Records
    BY BlankListing DEF Records, States, Waiting
  <2>4. /\ m \in Sent /\ m.req # "lock"
        /\ m.req = "unlock" => m.data = cl[c].copy
    BY SentCases
  <2>5. "unlock" \in States
    BY DEF States, Waiting
  <2>6. Send(c, r, m) /\ Quiet(c) /\ UNCHANGED faults
    BY <1>5 DEF BackOut
  <2>7. cl[c].pc \in Holding
    BY <1>5 DEF BackOut, Holding
  <2> HIDE DEF r, m
  <2> QED BY <2>3, <2>4, <2>5, <2>6, <2>7, LaterRequest
<1>6. CASE Notify(c)
  <2> DEFINE r == [cl[c] EXCEPT !.pc = "update"]
  <2>3. /\ r.pc = "update" /\ r.cmd = cl[c].cmd /\ r.chan = cl[c].chan
        /\ r.conn = cl[c].conn /\ r \in Records
    BY DEF Records, States, Waiting
  <2>5. "update" \in States
    BY DEF States, Waiting
  <2>6. Send(c, r, Update) /\ Quiet(c) /\ UNCHANGED faults /\ cl[c].pc = "notify"
    BY <1>6 DEF Notify
  <2> HIDE DEF r
  <2> QED BY <2>3, <2>5, <2>6, SentCases, LaterRequest
<1>7. CASE GiveUp(c)
  <2>1. cl[c].pc \in Waiting /\ cl[c].pc # "idle"
    BY <1>7 DEF GiveUp, Waiting
  <2>2. ASSUME NEW r, GoodClient(r), r.pc = cl[c].pc, r.conn = cl[c].conn,
               Holds(cl[c], store) => Holds(r, store),
               cl' = [cl EXCEPT ![c] = After(r, FALSE)],
               faults' \in 0..MaxFaults
        PROVE  IInv'
    <3>1. /\ GoodClient(After(r, FALSE)) /\ After(r, FALSE).conn = r.conn
          /\ Holds(r, store) => Holds(After(r, FALSE), store)
      BY <2>1, <2>2, AfterGood
    <3> QED BY <1>7, <2>2, <3>1, ClientMoves DEF GiveUp, Quiet
  <2>3. CASE cl[c].late
    <3> DEFINE r == [cl[c] EXCEPT !.late = FALSE]
    <3>1. /\ r \in Records /\ r.pc = cl[c].pc /\ r.cmd = cl[c].cmd
          /\ r.copy = cl[c].copy /\ r.chan = cl[c].chan /\ r.conn = cl[c].conn
      BY DEF Records
    <3>2. cl' = [cl EXCEPT ![c] = After(r, FALSE)] /\ faults' \in 0..MaxFaults
      BY <1>7, <2>3 DEF GiveUp, IInv
    <3> HIDE DEF r
    <3>3. GoodClient(r) /\ (Holds(cl[c], store) => Holds(r, store))
      BY <3>1 DEF GoodClient, Silent, Holds
    <3> QED BY <2>2, <3>1, <3>2, <3>3
  <2>4. CASE ~cl[c].late
    <3>1. /\ cl' = [cl EXCEPT ![c] = After(cl[c], FALSE)]
          /\ faults < MaxFaults /\ faults' = faults + 1
      BY <1>7, <2>4 DEF GiveUp
    <3>2. faults' \in 0..MaxFaults
      BY <3>1, DaemonAssumption DEF IInv
    <3> QED BY <2>2, <3>1, <3>2
  <2> QED BY <2>3, <2>4
<1>8. CASE Cut(c)
  <2>1. cl[c].pc # "idle" /\ cl[c].conn = "reset"
        /\ cl' = [cl EXCEPT ![c] = Ended(cl[c])]
    BY <1>8 DEF Cut, GoodClient
  <2>2. GoodClient(Ended(cl[c])) /\ (Holds(cl[c], store) => Holds(Ended(cl[c]), store))
    BY <2>1, EndedGood
  <2>3. faults' \in 0..MaxFaults
    BY <1>8 DEF Cut, IInv
  <2> QED BY <1>8, <2>1, <2>2, <2>3, ClientMoves DEF Cut
<1> QED BY <1>1, <1>2, <1>3, <1>4, <1>5, <1>6, <1>7, <1>8 DEF ClientStep

-----------------------------------------------------------------------------
(* The daemon. *)

LEMMA CrashKeeps ==
    ASSUME IInv, Crash
    PROVE  IInv'
<1>1. ClientsOK'
  <2>1. \A c \in Clients : GoodClient(Reset(cl[c])) /\ Reset(cl[c]) \in Records
    BY ResetGood, Typed DEF GoodClient
  <2>2. fd' \notin Clients
    BY DaemonAssumption DEF Crash
  <2> QED BY <2>1, <2>2 DEF Crash, ClientsOK
<1>2. PrefsOK'
  BY BlankListing DEF Crash, IInv, PrefsOK
<1>3. MainOK' /\ Kept' /\ SessionsOK' /\ faults' \in 0..MaxFaults
  BY DaemonAssumption DEF Crash, IInv, MainOK, Kept, SessionsOK
<1>4. DiscoveryOK'
  <2>1. <<>> \in Finds
    <3>1. <<>> \in [{} -> SUBSET Targets]
      OBVIOUS
    <3> QED BY <3>1 DEF Finds
  <2>2. records' = Null /\ merging' = NoMerge /\ overlap' = FALSE /\ overlaps' = overlaps
        /\ thread' = [i \in Threads |-> NoThread]
    BY DEF Crash
  <2>3. /\ records' \in [st : {"null", "live", "freed"}, found : Finds]
        /\ merging' \in [found : Finds, ports : SUBSET Portals, freed : BOOLEAN]
        /\ merging'.ports \subseteq DOMAIN merging'.found
        /\ merging'.freed = FALSE /\ records'.st = "null"
    BY <2>1, <2>2 DEF Null, NoMerge
  <2>4. /\ thread' \in [Threads -> [pc : {"none", "start", "query", "signal"},
                                   ports : SUBSET Portals, stale : BOOLEAN]]
        /\ \A i \in Threads : thread'[i].pc = "none"
    BY <2>2 DEF NoThread
  <2> QED BY <2>2, <2>3, <2>4 DEF IInv, DiscoveryOK, Alone
<1> QED BY <1>1, <1>2, <1>3, <1>4 DEF IInv

\* A step of the main thread that leaves the clients, the discovery and the
\* sessions alone.
LEMMA OutdatedSame ==
    ASSUME DiscoveryOK
    PROVE  /\ Outdated(thread) \in [Threads ->
                   [pc : {"none", "start", "query", "signal"},
                    ports : SUBSET Portals, stale : BOOLEAN]]
           /\ \A i \in Threads : Outdated(thread)[i].pc = thread[i].pc
<1> DEFINE T == [pc : {"none", "start", "query", "signal"},
                 ports : SUBSET Portals, stale : BOOLEAN]
<1>1. ASSUME NEW i \in Threads
      PROVE  /\ Outdated(thread)[i] \in T
             /\ Outdated(thread)[i].pc = thread[i].pc
  <2>1. thread[i] \in T
    BY DEF DiscoveryOK
  <2>2. PICK b \in BOOLEAN : Outdated(thread)[i] = [thread[i] EXCEPT !.stale = b]
    <3>1. (thread[i].stale \/ thread[i].pc = "query") \in BOOLEAN
      OBVIOUS
    <3> QED BY <3>1, Zenon DEF Outdated
  <2> QED BY <2>1, <2>2
<1>2. Outdated(thread) = [i \in Threads |-> Outdated(thread)[i]]
  BY DEF Outdated
<1> QED BY <1>1, <1>2

LEMMA DiscoveryStays ==
    ASSUME IInv, thread' \in {thread, Outdated(thread)},
           UNCHANGED <<records, merging, overlap, overlaps>>,
           signaled' => signaled, main' = "merge" => main = "merge"
    PROVE  DiscoveryOK'
<1>1. /\ thread' \in [Threads -> [pc : {"none", "start", "query", "signal"},
                                 ports : SUBSET Portals, stale : BOOLEAN]]
      /\ \A i \in Threads : thread'[i].pc = thread[i].pc
  BY OutdatedSame DEF IInv, DiscoveryOK
<1>2. ASSUME Alone
      PROVE  Alone'
  BY <1>1, <1>2 DEF Alone
<1> QED BY <1>1, <1>2 DEF IInv, DiscoveryOK

LEMMA AcceptKeeps ==
    ASSUME IInv, NEW c \in Clients, Accept(c)
    PROVE  IInv'
<1> DEFINE r == [cl[c] EXCEPT !.conn = "up"]
<1>1. cl[c].conn = "backlog" /\ GoodClient(cl[c]) /\ cl[c] \in Records
  BY Typed DEF Accept
<1>2. /\ r.pc = cl[c].pc /\ r.cmd = cl[c].cmd /\ r.copy = cl[c].copy
      /\ r.chan = cl[c].chan /\ r.conn = "up" /\ r \in Records
  BY <1>1 DEF Records
<1> HIDE DEF r
<1>3. GoodClient(r) /\ Holds(r, store)
  BY <1>1, <1>2 DEF GoodClient, Silent, Holds, Holding
<1>4. /\ fd' = c /\ cl'[c] = r
      /\ \A d \in Clients : d # c => cl'[d] = Reset(cl[d])
      /\ cl' = [d \in Clients |-> cl'[d]]
  BY DEF Accept, r
<1>5. \A d \in Clients : GoodClient(cl'[d]) /\ cl'[d] \in Records
  BY <1>3, <1>4, Typed, ResetGood DEF GoodClient
<1>6. ClientsOK' /\ Kept'
  BY <1>2, <1>3, <1>4, <1>5 DEF ClientsOK, Kept, Accept, prefVars
<1>7. PrefsOK' /\ MainOK' /\ SessionsOK' /\ faults' \in 0..MaxFaults
  BY DaemonAssumption
     DEF Accept, AtLoop, IInv, PrefsOK, MainOK, SessionsOK, prefVars, discVars, sessVars
<1>8. DiscoveryOK'
  BY DiscoveryStays DEF Accept, discVars
<1> QED BY <1>6, <1>7, <1>8 DEF IInv

\* What a reply does to the client, the connection and the lock.
LEMMA ReplyKeeps ==
    ASSUME IInv, main = "read", cl[fd].chan # <<>>, NEW ok \in BOOLEAN,
           NEW held \in Clients \cup {None}, Reply(ok, held)
    PROVE  /\ ClientsOK'
           /\ main' \in {"loop", "peek"} /\ deaf' \in BOOLEAN
           /\ fd' \in {fd, None} /\ lock' \in {held, None}
           /\ main' = "peek" => fd' # None
           /\ lock' # None => /\ fd' = fd /\ cl[fd].pc # "done"
                             /\ \A P \in Listing : Holds(cl[fd], P) => Holds(cl'[fd], P)
<1>1. /\ fd \in Clients /\ cl[fd].conn = "up" /\ GoodClient(cl[fd])
      /\ cl[fd] \in Records /\ cl[fd].chan \in Seq(Sent)
      /\ cl \in [Clients -> Records] /\ fd # None
  BY Typed DEF IInv, MainOK, ClientsOK
<1> DEFINE rest == [cl[fd] EXCEPT !.chan = Tail(@)]
<1>2. /\ Tail(cl[fd].chan) \in Seq(Sent)
      /\ Contents(Tail(cl[fd].chan)) \subseteq Contents(cl[fd].chan)
  BY <1>1, Channel
<1>3. /\ rest.pc = cl[fd].pc /\ rest.cmd = cl[fd].cmd /\ rest.copy = cl[fd].copy
      /\ rest.chan = Tail(cl[fd].chan) /\ rest.conn = "up" /\ rest \in Records
  BY <1>1, <1>2 DEF Records
<1>4. cl[fd].pc # "idle"
  BY <1>1 DEF GoodClient
<1> HIDE DEF rest
<1>5. GoodClient(rest) /\ \A P \in Listing : Holds(cl[fd], P) => Holds(rest, P)
  BY <1>1, <1>2, <1>3 DEF GoodClient, Silent, Holds
<1>6. ASSUME NEW r, GoodClient(r), r.conn = "up", cl' = [cl EXCEPT ![fd] = r],
             fd' \in {fd, None}
      PROVE  ClientsOK'
  BY <1>1, <1>6, DaemonAssumption DEF IInv, ClientsOK, GoodClient
<1>7. CASE cl[fd].pc = "done"
  <2>1. /\ cl' = [cl EXCEPT ![fd] = Ended(rest)]
        /\ lock' = None /\ fd' = None /\ deaf' = TRUE /\ main' = "loop"
    BY <1>7 DEF Reply, rest
  <2>2. GoodClient(Ended(rest)) /\ Ended(rest).conn = "up"
    BY <1>3, <1>4, <1>5, EndedGood
  <2> QED BY <1>6, <2>1, <2>2
<1>8. CASE cl[fd].pc # "done"
  <2> DEFINE well == ok /\ rest.chan = <<>> /\ ~cl[fd].late
             r == IF cl[fd].pc \in Waiting THEN After(rest, well)
                  ELSE [rest EXCEPT !.late = TRUE]
  <2>1. /\ cl' = [cl EXCEPT ![fd] = r]
        /\ lock' = held /\ main' = "peek" /\ fd' = fd /\ deaf' = deaf
    BY <1>8 DEF Reply, rest
  <2>2. /\ GoodClient(r) /\ r.conn = "up"
        /\ \A P \in Listing : Holds(rest, P) => Holds(r, P)
    <3>1. CASE cl[fd].pc \in Waiting
      <4>1. well \in BOOLEAN /\ (well => rest.chan = <<>>)
        OBVIOUS
      <4> HIDE DEF well
      <4> QED BY <1>3, <1>4, <1>5, <3>1, <4>1, AfterGood
    <3>2. CASE cl[fd].pc \notin Waiting
      <4> DEFINE e == [rest EXCEPT !.late = TRUE]
      <4>1. /\ e.pc = rest.pc /\ e.cmd = rest.cmd /\ e.copy = rest.copy
            /\ e.chan = rest.chan /\ e.conn = rest.conn /\ e \in Records
        BY <1>3 DEF Records
      <4>2. r = e
        BY <3>2
      <4> HIDE DEF e, r
      <4> QED BY <1>3, <1>5, <4>1, <4>2 DEF GoodClient, Silent, Holds
    <3> QED BY <3>1, <3>2
  <2> HIDE DEF r
  <2>3. cl'[fd] = r
    BY <1>1, <2>1
  <2>4. deaf' \in BOOLEAN
    BY <2>1 DEF IInv, MainOK
  <2> QED BY <1>1, <1>5, <1>6, <1>8, <2>1, <2>2, <2>3, <2>4
<1> QED BY <1>7, <1>8

LEMMA Requesting ==
    ASSUME IInv, NEW q, Requested(q)
    PROVE  /\ main = "read" /\ fd \in Clients /\ cl[fd].chan # <<>>
           /\ Request \in Contents(cl[fd].chan) /\ Request.req = q
           /\ Request \in Sent /\ GoodClient(cl[fd])
<1>1. main = "read" /\ cl[fd].chan # <<>> /\ Request.req = q
  BY DEF Requested, Request
<1>2. fd \in Clients
  BY <1>1 DEF IInv, MainOK
<1> QED BY <1>1, <1>2, Typed, Channel DEF Request

\* A request that is answered and leaves the preferences plainly the same.
LEMMA AnswerKeeps ==
    ASSUME IInv, main = "read", fd \in Clients, cl[fd].chan # <<>>,
           NEW ok \in BOOLEAN, NEW held \in Clients \cup {None},
           Reply(ok, held),
           held \in {lock, None} \/ Holds(cl[fd], store),
           store' = store, mirror' \in Listing, Agrees(mirror', store),
           thread' \in {thread, Outdated(thread)}, timer' \in BOOLEAN,
           active' \subseteq Targets, faults' \in 0..MaxFaults,
           UNCHANGED <<ready, discLock, records, signaled, merging, overlap,
                       overlaps, queued>>
    PROVE  IInv'
<1>1. /\ ClientsOK'
      /\ main' \in {"loop", "peek"} /\ deaf' \in BOOLEAN
      /\ fd' \in {fd, None} /\ lock' \in {held, None}
      /\ main' = "peek" => fd' # None
      /\ lock' # None => /\ fd' = fd /\ cl[fd].pc # "done"
                        /\ \A P \in Listing : Holds(cl[fd], P) => Holds(cl'[fd], P)
  BY ReplyKeeps
<1>2. PrefsOK' /\ SessionsOK'
  BY DEF IInv, PrefsOK, SessionsOK
<1>3. MainOK'
  BY <1>1 DEF IInv, MainOK
<1>4. Kept'
  BY <1>1 DEF IInv, Kept, PrefsOK
<1>5. DiscoveryOK'
  BY <1>1, DiscoveryStays
<1> QED BY <1>1, <1>2, <1>3, <1>4, <1>5 DEF IInv

LEMMA AgreesSelf ==
    ASSUME NEW P
    PROVE  Agrees(P, P)
BY DEF Agrees

LEMMA ServeKeeps ==
    ASSUME IInv, ServeLock \/ ServeIsActive \/ ServeUpdate
    PROVE  IInv'
<1>0. /\ store \in Listing /\ mirror \in Listing
      /\ main = "read" => Agrees(mirror, store)
      /\ lock \in Clients \cup {None} /\ active \subseteq Targets
      /\ faults \in 0..MaxFaults /\ timer \in BOOLEAN
  BY DEF IInv, PrefsOK, MainOK, SessionsOK
<1>1. CASE ServeLock
  <2>1. /\ main = "read" /\ fd \in Clients /\ cl[fd].chan # <<>>
        /\ Request \in Contents(cl[fd].chan) /\ Request.req = "lock"
        /\ GoodClient(cl[fd])
    BY <1>1, Requesting DEF ServeLock
  <2>2. CASE lock = None /\ Reply(TRUE, fd) /\ UNCHANGED faults
    <3>1. CASE cl[fd].pc = "done"
      <4>1. Reply(TRUE, None)
        BY <2>2, <3>1 DEF Reply
      <4> QED BY <1>0, <1>1, <2>1, <2>2, <4>1, AnswerKeeps
              DEF ServeLock, prefVars, discVars, sessVars
    <3>2. CASE cl[fd].pc # "done"
      <4>1. cl[fd].pc = "lock"
        BY <2>1, <3>2 DEF GoodClient, Silent
      <4>2. Holds(cl[fd], store)
        BY <2>1, <4>1 DEF GoodClient, Holding, Silent, Holds
      <4> QED BY <1>0, <1>1, <2>1, <2>2, <4>2, AnswerKeeps
              DEF ServeLock, prefVars, discVars, sessVars
    <3> QED BY <3>1, <3>2
  <2>3. CASE main' = "blocked" /\ UNCHANGED <<fd, deaf, lock, cl, faults>>
    <3>1. DiscoveryOK'
      BY <1>1, <2>3, DiscoveryStays DEF ServeLock, discVars
    <3> QED BY <1>1, <2>1, <2>3, <3>1
            DEF ServeLock, IInv, ClientsOK, PrefsOK, MainOK, SessionsOK, Kept,
                prefVars, discVars, sessVars
  <2>4. CASE faults < MaxFaults /\ faults' = faults + 1 /\ Reply(FALSE, lock)
    <3>1. faults' \in 0..MaxFaults
      BY <1>0, <2>4, DaemonAssumption
    <3> QED BY <1>0, <1>1, <2>1, <2>4, <3>1, AnswerKeeps
            DEF ServeLock, prefVars, discVars, sessVars
  <2> QED BY <1>1, <2>2, <2>3, <2>4 DEF ServeLock
<1>2. CASE ServeIsActive
  <2>1. main = "read" /\ fd \in Clients /\ cl[fd].chan # <<>>
    BY <1>2, Requesting DEF ServeIsActive
  <2>2. PICK ok \in BOOLEAN : Reply(ok, lock)
    <3>1. (Request.tgt \in active) \in BOOLEAN
      OBVIOUS
    <3> QED BY <1>2, <3>1, Zenon DEF ServeIsActive
  <2> QED BY <1>0, <1>2, <2>1, <2>2, AnswerKeeps
          DEF ServeIsActive, prefVars, discVars, sessVars
<1>3. CASE ServeUpdate
  <2>1. main = "read" /\ fd \in Clients /\ cl[fd].chan # <<>>
    BY <1>3, Requesting DEF ServeUpdate
  <2>2. timer' \in BOOLEAN
    BY <1>0, <1>3, PartsOf DEF ServeUpdate
  <2> QED BY <1>0, <1>3, <2>1, <2>2, AgreesSelf, AnswerKeeps
          DEF ServeUpdate, discVars, sessVars
<1> QED BY <1>1, <1>2, <1>3

LEMMA UnlockKeeps ==
    ASSUME IInv, ServeUnlock
    PROVE  IInv'
<1>0. /\ store \in Listing /\ mirror \in Listing
      /\ main = "read" => Agrees(mirror, store)
      /\ active \subseteq Targets /\ faults \in 0..MaxFaults /\ timer \in BOOLEAN
  BY DEF IInv, PrefsOK, MainOK, SessionsOK
<1>1. /\ main = "read" /\ fd \in Clients /\ cl[fd].chan # <<>> /\ Request \in Sent
  BY Requesting DEF ServeUnlock
<1>2. /\ ClientsOK'
      /\ main' \in {"loop", "peek"} /\ deaf' \in BOOLEAN
      /\ fd' \in {fd, None} /\ lock' = None
      /\ main' = "peek" => fd' # None
  BY <1>1, ReplyKeeps DEF ServeUnlock
<1>3. PrefsOK' /\ thread' \in {thread, Outdated(thread)}
  <2>1. CASE Request.req = "unlock" /\ lock # None
    <3>1. /\ store' = Request.data /\ mirror' = Request.data
          /\ thread' = Outdated(thread)
      BY <2>1 DEF ServeUnlock, Synced
    <3>2. Request.data \in Listing
      BY <1>1, <2>1, SentCases
    <3> QED BY <3>1, <3>2, AgreesSelf DEF PrefsOK
  <2>2. CASE ~(Request.req = "unlock" /\ lock # None)
    BY <1>0, <1>1, <2>2 DEF ServeUnlock, PrefsOK, prefVars
  <2> QED BY <2>1, <2>2
<1>4. DiscoveryOK'
  BY <1>2, <1>3, DiscoveryStays DEF ServeUnlock
<1> QED BY <1>0, <1>2, <1>3, <1>4
        DEF ServeUnlock, IInv, MainOK, SessionsOK, Kept, sessVars

LEMMA LoginKeeps ==
    ASSUME IInv, ServeLogin
    PROVE  IInv'
<1>0. store \in Listing /\ faults \in 0..MaxFaults /\ timer \in BOOLEAN
      /\ active \subseteq Targets
  BY DEF IInv, PrefsOK, MainOK, SessionsOK
<1>1. /\ main = "read" /\ fd \in Clients /\ cl[fd].chan # <<>>
      /\ Request.tgt \in Targets
  BY Requesting, SentCases DEF ServeLogin
<1>2. CASE Crash
  BY <1>2, CrashKeeps
<1>3. CASE ~Crash
  <2>1. /\ LoginCommon(store, Request.tgt, active) /\ Reply(TRUE, lock)
        /\ thread' = Outdated(thread)
        /\ UNCHANGED <<ready, timer, discLock, records, signaled,
                       merging, overlap, overlaps, queued, faults>>
    BY <1>3 DEF ServeLogin
  <2>2. /\ mirror' = store /\ store' = store /\ active' \subseteq Targets
    BY <1>0, <1>1, <2>1 DEF LoginCommon, LoginSucceeds, LoginFails
  <2>3. lock \in Clients \cup {None}
    BY DEF IInv, MainOK
  <2> QED BY <1>0, <1>1, <2>1, <2>2, <2>3, AgreesSelf, AnswerKeeps
<1> QED BY <1>2, <1>3

\* A step in the run loop that may write the daemon's object, and may store it.
LEMMA LoopKeeps ==
    ASSUME IInv, AtLoop, NEW P \in Listing, Agrees(P, store),
           mirror' = P, store' \in {store, P},
           active' \subseteq Targets, queued' \subseteq Targets,
           faults' \in 0..MaxFaults, UNCHANGED <<main, reqVars, discVars>>
    PROVE  IInv'
<1>1. store \in Listing /\ store' \in Listing /\ Agrees(mirror', store')
      /\ Plain(store') = Plain(store)
  BY AgreesSelf, PlainAgrees DEF IInv, PrefsOK
<1>2. ASSUME NEW r, Holds(r, store)
      PROVE  Holds(r, store')
  BY <1>1, <1>2 DEF Holds
<1>3. Kept' /\ PrefsOK' /\ SessionsOK'
  BY <1>1, <1>2 DEF IInv, Kept, PrefsOK, SessionsOK, reqVars
<1>4. DiscoveryOK'
  BY DiscoveryStays DEF discVars
<1> QED BY <1>3, <1>4 DEF IInv, ClientsOK, MainOK, reqVars, discVars

LEMMA TimeoutKeeps ==
    ASSUME IInv, NEW t \in Targets, SessionTimeout(t) \/ QueuedLogin(t)
    PROVE  IInv'
<1>0. /\ store \in Listing /\ mirror \in Listing
      /\ active \subseteq Targets /\ queued \subseteq Targets
      /\ faults \in 0..MaxFaults /\ AtLoop /\ Agrees(mirror, store)
  BY DEF IInv, PrefsOK, SessionsOK, SessionTimeout, QueuedLogin, AtLoop
<1>1. CASE SessionTimeout(t)
  <2> DEFINE P == Created(mirror, t)
  <2>1. P \in Listing /\ Agrees(P, store)
    BY <1>0, CreatedListing, CreatedAgrees
  <2>2. faults' \in 0..MaxFaults /\ UNCHANGED <<main, reqVars, discVars>>
    <3>1. faults < MaxFaults /\ faults' = faults + 1
          /\ UNCHANGED <<main, reqVars, discVars>>
      BY <1>1 DEF SessionTimeout
    <3> QED BY <1>0, <3>1, DaemonAssumption
  <2>3. \/ mirror' = P /\ store' \in {store, P}
        \/ mirror' = mirror /\ store' = store
    BY <1>1 DEF SessionTimeout, LoginCommon, LoginSucceeds, LoginFails, prefVars
  <2>4. active' \subseteq Targets /\ queued' \subseteq Targets
    BY <1>0, <1>1 DEF SessionTimeout, LoginCommon, LoginSucceeds, LoginFails
  <2> HIDE DEF P
  <2> QED BY <1>0, <2>1, <2>2, <2>3, <2>4, LoopKeeps
<1>2. CASE QueuedLogin(t) /\ ~Crash
  <2>1. /\ LoginCommon(mirror, t, active) /\ queued' = queued \ {t}
        /\ UNCHANGED <<main, reqVars, discVars, faults>>
    BY <1>2 DEF QueuedLogin
  <2>2. mirror' = mirror /\ store' \in {store, mirror} /\ active' \subseteq Targets
    BY <1>0, <2>1 DEF LoginCommon, LoginSucceeds, LoginFails
  <2> QED BY <1>0, <2>1, <2>2, LoopKeeps
<1>3. CASE Crash
  BY <1>3, CrashKeeps
<1> QED BY <1>1, <1>2, <1>3

\* A step that is about discovery only.
LEMMA DiscoveryKeeps ==
    ASSUME IInv, DiscoveryOK', discLock' \in BOOLEAN, signaled' \in BOOLEAN,
           UNCHANGED <<prefVars, main, reqVars, timer, sessVars, faults>>
    PROVE  IInv'
BY DEF IInv, ClientsOK, PrefsOK, MainOK, SessionsOK, Kept, prefVars, reqVars, sessVars

Thread == [pc : {"none", "start", "query", "signal"},
           ports : SUBSET Portals, stale : BOOLEAN]

LEMMA ThreadTypes ==
    ASSUME IInv
    PROVE  /\ thread \in [Threads -> Thread]
           /\ records \in [st : {"null", "live", "freed"}, found : Finds]
           /\ merging \in [found : Finds, ports : SUBSET Portals, freed : BOOLEAN]
           /\ merging.ports \subseteq DOMAIN merging.found
           /\ overlap \in BOOLEAN /\ overlaps \in Nat /\ (~overlap => Alone)
           /\ discLock \in BOOLEAN /\ signaled \in BOOLEAN
BY DEF IInv, DiscoveryOK, MainOK, Thread

LEMMA TickKeeps ==
    ASSUME IInv, Tick
    PROVE  IInv'
<1> USE ThreadTypes
<1>1. CASE ~discLock /\ discLock' = TRUE /\ UNCHANGED <<thread, overlap, overlaps>>
  <2>1. DiscoveryOK'
    BY <1>1, DiscoveryStays DEF Tick
  <2> QED BY <1>1, <2>1, DiscoveryKeeps DEF Tick
<1>2. CASE discLock /\ UNCHANGED discLock
  <2>1. PICK i \in Threads : /\ thread[i].pc = "none"
                             /\ thread' = [thread EXCEPT ![i].pc = "start"]
    BY <1>2 DEF Tick
  <2>2. thread' \in [Threads -> Thread]
    BY <2>1 DEF Thread
  <2>3. /\ overlap' \in BOOLEAN /\ overlaps' \in Nat /\ main = "loop"
        /\ UNCHANGED <<records, merging, signaled, main>>
    <3>1. \/ UNCHANGED <<overlap, overlaps>>
          \/ overlap' = TRUE /\ overlaps' = overlaps + 1
      BY <1>2, Zenon DEF Tick
    <3>2. overlap \in BOOLEAN /\ overlaps \in Nat
      BY ThreadTypes
    <3>3. overlap' \in BOOLEAN
      BY <3>1, <3>2, Zenon
    <3>4. overlaps' \in Nat
      BY <3>1, <3>2
    <3> QED BY <1>2, <3>3, <3>4 DEF Tick, AtLoop
  <2>4. ASSUME ~overlap'
        PROVE  Alone'
    <3>1. ~signaled /\ \A j \in Threads : thread[j].pc = "none"
      BY <1>2, <2>4 DEF Tick, Quiescent
    <3>2. Alone
      BY <1>2, <2>4 DEF Tick
    <3>3. \A j \in Threads : j # i => thread'[j].pc = "none"
      BY <2>1, <3>1
    <3> QED BY <2>3, <3>1, <3>2, <3>3 DEF Alone
  <2>5. DiscoveryOK'
    BY <2>2, <2>3, <2>4 DEF DiscoveryOK, Thread
  <2> QED BY <1>2, <2>3, <2>5, DiscoveryKeeps DEF Tick
<1> QED BY <1>1, <1>2 DEF Tick

LEMMA ThreadKeeps ==
    ASSUME IInv, NEW i \in Threads, ThreadStep(i)
    PROVE  IInv'
<1> USE ThreadTypes
<1>1. CASE Crash
  BY <1>1, CrashKeeps
<1>2. CASE RunDiscovery(i) /\ ~Crash
  <2>1. /\ thread[i].pc = "start" /\ records.st # "freed"
        /\ records' = IF records.st = "null" THEN records
                      ELSE [records EXCEPT !.st = "freed"]
        /\ thread' = [thread EXCEPT ![i] =
                         [pc |-> "query", stale |-> FALSE,
                          ports |-> {p \in Portals : mirror.dsc[p].on}]]
        /\ UNCHANGED <<prefVars, main, reqVars, timer, discLock, signaled,
                       overlap, overlaps, sessVars, faults>>
    BY <1>2 DEF RunDiscovery
  <2>2. /\ records' \in [st : {"null", "live", "freed"}, found : Finds]
        /\ thread' \in [Threads -> Thread]
        /\ thread'[i].pc = "query"
        /\ \A j \in Threads : j # i => thread'[j] = thread[j]
    BY <2>1 DEF Thread
  <2>3. PICK b \in BOOLEAN : /\ merging' = [merging EXCEPT !.freed = b]
                             /\ b = (merging.freed \/ main = "merge")
    <3>1. (merging.freed \/ main = "merge") \in BOOLEAN
      OBVIOUS
    <3> QED BY <1>2, <3>1, Zenon DEF RunDiscovery
  <2>4. /\ merging' \in [found : Finds, ports : SUBSET Portals, freed : BOOLEAN]
        /\ merging'.ports = merging.ports /\ merging'.found = merging.found
        /\ merging'.freed = b
    BY <2>3
  <2>5. ASSUME Alone
        PROVE  Alone'
    <3>1. main # "merge" /\ ~signaled /\ ~merging.freed
      BY <2>1, <2>5 DEF Alone
    <3>2. ~merging'.freed
      BY <2>3, <2>4, <3>1
    <3>3. \A j, k \in Threads :
              thread'[j].pc # "none" /\ thread'[k].pc # "none" => j = k
      BY <2>1, <2>2, <2>5 DEF Alone
    <3> QED BY <2>1, <2>2, <3>1, <3>2, <3>3 DEF Alone
  <2>6. DiscoveryOK'
    BY <2>1, <2>2, <2>4, <2>5 DEF DiscoveryOK, Thread
  <2> QED BY <2>1, <2>6, DiscoveryKeeps
<1>3. CASE Queried(i)
  <2>1. /\ thread[i].pc = "query" /\ discLock' = FALSE
        /\ thread' = [thread EXCEPT ![i] = [NoThread EXCEPT !.pc = "signal"]]
        /\ UNCHANGED <<prefVars, main, reqVars, timer, signaled, merging,
                       overlap, overlaps, sessVars, faults>>
    BY <1>3 DEF Queried
  <2>2. /\ records' \in [st : {"null", "live", "freed"}, found : Finds]
        /\ records'.st = "live"
    <3>1. PICK S \in SUBSET thread[i].ports : \E F \in [S -> SUBSET Offered] :
              records' = [st |-> "live", found |-> F]
      BY <1>3 DEF Queried
    <3>2. PICK F \in [S -> SUBSET Offered] : records' = [st |-> "live", found |-> F]
      BY <3>1
    <3>3. S \subseteq Portals
      BY <3>1 DEF Thread
    <3>4. F \in [S -> SUBSET Targets]
      BY <3>2, DaemonAssumption
    <3>5. F \in Finds
      BY <3>3, <3>4 DEF Finds
    <3> QED BY <3>2, <3>5
  <2>3. /\ thread' \in [Threads -> Thread] /\ thread'[i].pc = "signal"
        /\ \A j \in Threads : j # i => thread'[j] = thread[j]
    <3>1. /\ [NoThread EXCEPT !.pc = "signal"] \in Thread
          /\ [NoThread EXCEPT !.pc = "signal"].pc = "signal"
      BY DEF Thread, NoThread
    <3> QED BY <2>1, <3>1
  <2>4. ASSUME Alone
        PROVE  Alone'
    BY <2>1, <2>2, <2>3, <2>4 DEF Alone
  <2>5. DiscoveryOK'
    BY <2>1, <2>2, <2>3, <2>4 DEF DiscoveryOK, Thread
  <2> QED BY <2>1, <2>5, DiscoveryKeeps
<1>4. CASE Signal(i)
  <2>1. /\ thread[i].pc = "signal" /\ signaled' = TRUE
        /\ thread' = [thread EXCEPT ![i].pc = "none"]
        /\ UNCHANGED <<prefVars, main, reqVars, timer, discLock, records,
                       merging, overlap, overlaps, sessVars, faults>>
    BY <1>4 DEF Signal
  <2>2. /\ thread' \in [Threads -> Thread] /\ thread'[i].pc = "none"
        /\ \A j \in Threads : j # i => thread'[j] = thread[j]
    BY <2>1 DEF Thread
  <2>3. ASSUME Alone
        PROVE  Alone'
    BY <2>1, <2>2, <2>3 DEF Alone
  <2>4. DiscoveryOK'
    BY <2>1, <2>2, <2>3 DEF DiscoveryOK, Thread
  <2> QED BY <2>1, <2>4, DiscoveryKeeps
<1> QED BY <1>1, <1>2, <1>3, <1>4 DEF ThreadStep, QueryCrashes

LEMMA ProcessKeeps ==
    ASSUME IInv, ProcessDiscoveryData
    PROVE  IInv'
<1> USE ThreadTypes
<1>0. /\ store \in Listing /\ mirror \in Listing /\ main = "loop" /\ signaled
      /\ Agrees(mirror, store)
  BY DEF ProcessDiscoveryData, AtLoop, IInv, PrefsOK
<1>1. CASE records.st # "null" /\ lock = None
  <2>1. /\ main' = "merge" /\ mirror' = store /\ thread' = Outdated(thread)
        /\ merging' = [found |-> records.found, freed |-> FALSE,
                       ports |-> DOMAIN records.found]
        /\ signaled' = FALSE
        /\ UNCHANGED <<store, reqVars, timer, discLock, records, overlap, overlaps,
                       sessVars, faults>>
    BY <1>1 DEF ProcessDiscoveryData
  <2>2. /\ thread' \in [Threads -> Thread]
        /\ \A i \in Threads : thread'[i].pc = thread[i].pc
    BY <2>1, OutdatedSame DEF IInv, Thread
  <2>3. records.found \in Finds /\ DOMAIN records.found \subseteq Portals
    <3>1. records.found \in Finds
      OBVIOUS
    <3> QED BY <3>1 DEF Finds
  <2>4. /\ merging' \in [found : Finds, ports : SUBSET Portals, freed : BOOLEAN]
        /\ merging'.ports \subseteq DOMAIN merging'.found /\ ~merging'.freed
    BY <2>1, <2>3
  <2>5. ASSUME Alone
        PROVE  Alone'
    BY <1>0, <2>1, <2>2, <2>4, <2>5 DEF Alone
  <2>6. DiscoveryOK'
    BY <2>1, <2>2, <2>4, <2>5 DEF DiscoveryOK, Thread
  <2> QED BY <1>0, <1>1, <2>1, <2>6
          DEF IInv, ClientsOK, PrefsOK, MainOK, SessionsOK, Kept, reqVars, sessVars
<1>2. CASE ~(records.st # "null" /\ lock = None)
  <2>1. /\ main' \in {"loop", "blocked"} /\ signaled' = FALSE
        /\ UNCHANGED <<mirror, thread, merging, store, reqVars, timer, discLock,
                       records, overlap, overlaps, sessVars, faults>>
    BY <1>0, <1>2 DEF ProcessDiscoveryData
  <2>2. DiscoveryOK'
    BY <2>1, DiscoveryStays
  <2> QED BY <1>0, <2>1, <2>2
          DEF IInv, ClientsOK, PrefsOK, MainOK, SessionsOK, Kept, reqVars, sessVars
<1> QED BY <1>1, <1>2

LEMMA MergeKeeps ==
    ASSUME IInv, NEW p \in Portals, Merge(p)
    PROVE  IInv'
<1> USE ThreadTypes
<1>1. CASE Crash
  BY <1>1, CrashKeeps
<1>2. CASE ~Crash
  <2> DEFINE F == merging.found[p]
  <2>1. /\ main = "merge" /\ p \in merging.ports /\ mirror.dsc[p].on
        /\ mirror' = Merged(mirror, p, F)
        /\ active' = active \ MergeDrops(mirror, p, F)
        /\ merging' = [merging EXCEPT !.ports = @ \ {p}]
        /\ UNCHANGED <<store, main, reqVars, timer, discLock, thread,
                       records, signaled, overlap, overlaps, queued, faults>>
    BY <1>2 DEF Merge
  <2>2. F \in SUBSET Targets
    <3>1. merging.found \in Finds /\ p \in DOMAIN merging.found
      BY <2>1
    <3>2. PICK S \in SUBSET Portals : merging.found \in [S -> SUBSET Targets]
      BY <3>1 DEF Finds
    <3> QED BY <3>1, <3>2
  <2> HIDE DEF F
  <2>3. mirror' \in Listing
    BY <2>1, <2>2, MergedListing DEF IInv, PrefsOK
  <2>4. /\ merging' \in [found : Finds, ports : SUBSET Portals, freed : BOOLEAN]
        /\ merging'.ports \subseteq DOMAIN merging'.found
        /\ merging'.freed = merging.freed
    BY <2>1
  <2>5. ASSUME Alone
        PROVE  Alone'
    BY <2>1, <2>4, <2>5 DEF Alone
  <2>6. DiscoveryOK'
    BY <2>1, <2>4, <2>5 DEF DiscoveryOK, Thread
  <2> QED BY <2>1, <2>3, <2>6
          DEF IInv, ClientsOK, PrefsOK, MainOK, SessionsOK, Kept, reqVars
<1> QED BY <1>1, <1>2

LEMMA MergeDoneKeeps ==
    ASSUME IInv, MergeDone
    PROVE  IInv'
<1> USE ThreadTypes
<1>1. CASE Crash
  BY <1>1, CrashKeeps
<1>2. CASE ~Crash
  <2>1. /\ main = "merge" /\ main' = "loop" /\ merging' = NoMerge
        /\ store' = mirror /\ records' = Null
        /\ UNCHANGED <<mirror, reqVars, timer, discLock, thread, signaled,
                       overlap, overlaps, sessVars, faults>>
    BY <1>2 DEF MergeDone, Released
  <2>2. <<>> \in Finds
    <3>1. <<>> \in [{} -> SUBSET Targets]
      OBVIOUS
    <3> QED BY <3>1 DEF Finds
  <2>3. /\ records' \in [st : {"null", "live", "freed"}, found : Finds]
        /\ merging' \in [found : Finds, ports : SUBSET Portals, freed : BOOLEAN]
        /\ merging'.ports \subseteq DOMAIN merging'.found
        /\ merging'.freed = FALSE /\ records'.st = "null"
    BY <2>1, <2>2 DEF Null, NoMerge
  <2>4. ASSUME Alone
        PROVE  Alone'
    BY <2>1, <2>3, <2>4 DEF Alone
  <2>5. DiscoveryOK'
    BY <2>1, <2>3, <2>4 DEF DiscoveryOK, Thread
  <2>6. PrefsOK' /\ Kept'
    BY <2>1, AgreesSelf DEF IInv, PrefsOK, MainOK, Kept, reqVars
  <2> QED BY <2>1, <2>5, <2>6 DEF IInv, ClientsOK, MainOK, SessionsOK, reqVars, sessVars
<1> QED BY <1>1, <1>2

LEMMA RestartKeeps ==
    ASSUME IInv, Restart
    PROVE  IInv'
<1>1. DiscoveryOK'
  BY DiscoveryStays DEF Restart
<1>2. PrefsOK' /\ timer' \in BOOLEAN
  BY AgreesSelf, PartsOf DEF Restart, IInv, PrefsOK
<1> QED BY <1>1, <1>2
        DEF Restart, IInv, ClientsOK, MainOK, SessionsOK, Kept, reqVars

LEMMA WaitKeeps ==
    ASSUME IInv, ReadSource \/ NoRequest \/ Peek
    PROVE  IInv'
<1>1. /\ UNCHANGED <<prefVars, fd, deaf, lock, cl, discVars, sessVars, faults>>
      /\ main \in {"loop", "read", "peek"} /\ main' \in {"loop", "read", "peek"}
      /\ main' \in {"read", "peek"} => fd # None
  BY DEF ReadSource, NoRequest, Peek, AtLoop, reqVars, IInv, MainOK
<1>2. ready' \in BOOLEAN
  BY DEF ReadSource, NoRequest, Peek, reqVars, IInv, MainOK
<1>3. DiscoveryOK'
  BY <1>1, DiscoveryStays DEF discVars
<1> QED BY <1>1, <1>2, <1>3
        DEF IInv, ClientsOK, PrefsOK, MainOK, SessionsOK, Kept, prefVars,
            discVars, sessVars

\* The invariant holds at the start.
LEMMA InitIInv == Init => IInv
<1> SUFFICES ASSUME Init PROVE IInv
  OBVIOUS
<1>1. /\ \A c \in Clients : cl[c] = NewClient /\ NewClient \in Records
      /\ cl \in [Clients -> Records] /\ GoodClient(NewClient)
  <2>1. <<>> \in Seq(Sent)
    OBVIOUS
  <2>2. NewClient \in Records
    BY <2>1, BlankListing DEF NewClient, Records, States
  <2>3. GoodClient(NewClient)
    <3>1. /\ NewClient.pc = "idle" /\ NewClient.chan = <<>>
          /\ NewClient.conn = "none"
      BY DEF NewClient
    <3> QED BY <2>2, <3>1, NoContents DEF GoodClient, Silent, Holding
  <2> QED BY <2>2, <2>3 DEF Init
<1>2. ClientsOK /\ Kept
  BY <1>1, DaemonAssumption DEF Init, ClientsOK, Kept
<1>3. PrefsOK
  <2>1. store \in Listing /\ mirror \in Listing
    BY BlankListing, DaemonAssumption DEF Init, Listing
  <2>2. main = "down"
    BY DEF Init
  <2> QED BY <2>1, <2>2 DEF PrefsOK
<1>5. MainOK /\ SessionsOK
  BY DEF Init, MainOK, SessionsOK
<1>6. faults \in 0..MaxFaults
  BY DaemonAssumption DEF Init
<1>4. DiscoveryOK
  <2>1. <<>> \in Finds
    <3>1. <<>> \in [{} -> SUBSET Targets]
      OBVIOUS
    <3> QED BY <3>1 DEF Finds
  <2>2. /\ records \in [st : {"null", "live", "freed"}, found : Finds]
        /\ merging \in [found : Finds, ports : SUBSET Portals, freed : BOOLEAN]
        /\ merging.ports \subseteq DOMAIN merging.found
        /\ merging.freed = FALSE /\ records.st = "null"
    BY <2>1 DEF Null, NoMerge, Init
  <2>3. thread \in [Threads -> Thread] /\ \A i \in Threads : thread[i].pc = "none"
    BY DEF Init, NoThread, Thread
  <2> QED BY <2>2, <2>3 DEF Init, DiscoveryOK, Alone, Thread
<1> QED BY <1>2, <1>3, <1>4, <1>5, <1>6 DEF IInv

\* Every step keeps it: one case for each part of the daemon.
LEMMA NextIInv == IInv /\ [Next]_vars => IInv'
<1> SUFFICES ASSUME IInv, [Next]_vars PROVE IInv'
  OBVIOUS
<1>1. CASE \E c \in Clients : ClientStep(c)
  BY <1>1, ClientKeeps
<1>2. CASE \E c \in Clients : Accept(c)
  BY <1>2, AcceptKeeps
<1>3. CASE ReadSource \/ NoRequest \/ Peek
  BY <1>3, WaitKeeps
<1>4. CASE ServeLock \/ ServeIsActive \/ ServeUpdate
  BY <1>4, ServeKeeps
<1>5. CASE ServeUnlock
  BY <1>5, UnlockKeeps
<1>6. CASE ServeLogin
  BY <1>6, LoginKeeps
<1>7. CASE \E t \in Targets : SessionTimeout(t) \/ QueuedLogin(t)
  BY <1>7, TimeoutKeeps
<1>8. CASE Tick
  BY <1>8, TickKeeps
<1>9. CASE ProcessDiscoveryData
  BY <1>9, ProcessKeeps
<1>10. CASE MergeDone
  BY <1>10, MergeDoneKeeps
<1>11. CASE \E p \in Portals : Merge(p)
  BY <1>11, MergeKeeps
<1>12. CASE Restart
  BY <1>12, RestartKeeps
<1>13. CASE \E i \in Threads : ThreadStep(i)
  BY <1>13, ThreadKeeps
<1>14. CASE UNCHANGED vars
  BY <1>14
     DEF vars, prefVars, reqVars, discVars, sessVars, IInv, ClientsOK, PrefsOK,
         MainOK, DiscoveryOK, Alone, SessionsOK, Kept
<1> QED BY <1>1, <1>2, <1>3, <1>4, <1>5, <1>6, <1>7, <1>8, <1>9, <1>10, <1>11,
           <1>12, <1>13, <1>14 DEF Next, MainStep

\* It holds in every reachable state.
LEMMA Inductive == Spec => []IInv
BY InitIInv, NextIInv, PTL DEF Spec

-----------------------------------------------------------------------------
(* The theorems. *)

\* Every variable keeps its type, for every number of clients, targets,
\* portals and threads: the daemon reads requests from a connection only.
THEOREM TypeCorrect == Spec => []TypeOK
<1>1. IInv => TypeOK
  <2> SUFFICES ASSUME IInv PROVE TypeOK
    OBVIOUS
  <2>1. Sent \subseteq Requests
    BY Zenon DEF Sent, Requests, Listing
  <2>2. Records \subseteq ClientStates
    <3>1. Seq(Sent) \subseteq Seq(Requests)
      BY <2>1
    <3>2. Listing \subseteq Objects
      BY DEF Listing
    <3> QED BY <3>1, <3>2 DEF Records, ClientStates, States
  <2>3. cl \in [Clients -> ClientStates]
    BY <2>2 DEF IInv, ClientsOK
  <2> QED BY <2>3
          DEF IInv, PrefsOK, Listing, MainOK, DiscoveryOK, SessionsOK, TypeOK
<1> QED BY <1>1, Inductive, PTL

\* A dynamic target that is stored is listed by the portal that manages it,
\* under every interleaving of edits, merges, logins and crashes: it can be
\* removed again (iSCSIDiscoveryUpdatePreferencesWithDiscoveredTargets).
THEOREM DynamicTargetsListed == Spec => []DynamicIsListed
<1>1. IInv => DynamicIsListed
  BY DEF IInv, PrefsOK, Listing, DynamicIsListed
<1> QED BY <1>1, Inductive, PTL

\* The daemon's own object agrees with what is stored whenever a callback that
\* uses it can run (iSCSIDLoginCommon).
THEOREM MirrorNeverStale == Spec => []MirrorAgrees
<1>1. IInv => MirrorAgrees
  BY DEF IInv, PrefsOK, MirrorAgrees, AtLoop
<1> QED BY <1>1, Inductive, PTL

\* The records of a discovery are released once, and are not read after that,
\* as long as no discovery of this daemon has started before the main thread was
\* called for the last one: whatever edits, logins, merges and timers come in
\* between, and again after a crash (iSCSIDProcessDiscoveryData).
THEOREM RecordsStayLive == Spec => []RecordsLive
<1>1. IInv => RecordsLive
  BY DEF IInv, DiscoveryOK, Alone, RecordsLive
<1> QED BY <1>1, Inductive, PTL

\* No edit of a client undoes what another client, a merge or a login stored
\* (iSCSIDPreferencesIOLockAndSync, iSCSIDPreferencesIOUnlockAndSync).
THEOREM NoUpdateLost == Spec => NoLostUpdate
<1> DEFINE Kind == Plain(store') \in
                      {Plain(store), Plain(Edited(Plain(store), cl[fd].cmd))}
<1>1. IInv /\ [Next]_vars => (Requested("unlock") => Kind)
  <2> SUFFICES ASSUME IInv, [Next]_vars, Requested("unlock") PROVE Kind
    OBVIOUS
  <2>0. main = "read" /\ Request.req = "unlock" /\ store' \in {store', store}
    BY DEF Requested, Request
  <2>1. CASE store' = store
    BY <2>1
  <2>2. CASE ServeUnlock
    <3>1. CASE lock # None
      <4>1. /\ fd \in Clients /\ Request \in Contents(cl[fd].chan)
        BY Requesting
      <4>2. Holds(cl[fd], store)
        BY <3>1, <4>1 DEF IInv, Kept
      <4>3. store' = Request.data
        BY <2>0, <2>2, <3>1 DEF ServeUnlock
      <4> QED BY <2>0, <4>1, <4>2, <4>3 DEF Holds
    <3>2. CASE lock = None
      BY <2>2, <3>2 DEF ServeUnlock, prefVars
    <3> QED BY <3>1, <3>2
  <2>3. CASE ServeLogin
    BY <2>0, <2>3 DEF ServeLogin, Requested, Request
  <2>4. CASE \E c \in Clients : ClientStep(c)
    <3>1. PICK c \in Clients : ClientStep(c)
      BY <2>4
    <3>2. UNCHANGED prefVars
      BY <3>1 DEF ClientStep, Start, Refresh, Ask, Commit, BackOut, Notify, GiveUp,
                  Cut, Quiet
    <3> QED BY <2>1, <3>2 DEF prefVars
  <2>5. CASE \E i \in Threads : ThreadStep(i)
    BY <2>1, <2>5 DEF ThreadStep, RunDiscovery, Queried, QueryCrashes, Signal, Crash,
                      prefVars
  <2>6. CASE MainStep /\ ~ServeUnlock /\ ~ServeLogin
    BY <2>0, <2>1, <2>6
       DEF MainStep, Accept, ReadSource, NoRequest, Peek, ServeLock, ServeIsActive,
           ServeUpdate, SessionTimeout, QueuedLogin, Tick, ProcessDiscoveryData,
           MergeDone, Merge, Restart, AtLoop, prefVars
  <2>7. CASE UNCHANGED vars
    BY <2>1, <2>7 DEF vars, prefVars
  <2> QED BY <2>2, <2>3, <2>4, <2>5, <2>6, <2>7 DEF Next
<1>2. IInv /\ [Next]_vars => [Requested("unlock") => Kind]_vars
  BY <1>1
<1> QED BY <1>2, Inductive, PTL DEF NoLostUpdate, Spec
=============================================================================
