--------------------------- MODULE Sessions_proofs ---------------------------
(***************************************************************************)
(* The session table stays consistent under every interleaving of the two  *)
(* threads of the daemon, the workloop and deaths of the daemon, for any   *)
(* number of slots, connections, targets and portals.  The invariant       *)
(* Consistent is one of tables: each function of SessionTable preserves    *)
(* it (one lemma each), and every step of Sessions applies one or two of   *)
(* them to the table.  The second part accounts for the connections that   *)
(* somebody has to release.                                                *)
(***************************************************************************)
EXTENDS Sessions, WellFoundedInduction, FiniteSetTheorems, TLAPS

\* The two properties, of a table instead of the variable.
Leads(H) == \A n \in Names : H.name[n] # NoId => H.list[H.name[n]].iqn = n
Found(H) ==
    \A s \in Live(H) : H.name[H.list[s].iqn] = s \/ H.list[s].second
Consistent(H) == H \in Tables /\ Leads(H) /\ Found(H)

-----------------------------------------------------------------------------
(* Facts on slots and identifiers. *)

\* The loops that look for the first free slot or connection find one when
\* there is one (CreateSession, CreateConnection).
LEMMA LowestIn ==
  ASSUME NEW S, S \subseteq Nat, S # {}
  PROVE  Lowest(S) \in S
<1>1. \E n \in S : \A m \in S : n <= m
  <2> DEFINE R == OpToRel(<, Nat)
  <2>1. IsWellFoundedOn(R, Nat)
    BY NatLessThanWellFounded, Zenon
  <2>2. \A m, n \in Nat : m < n => <<m, n>> \in R
    BY DEF OpToRel
  <2> HIDE DEF R
  <2>3. PICK x \in S : \A y \in S : ~ (<<y, x>> \in R)
    BY <2>1, WFMin
  <2>4. ASSUME NEW y \in S PROVE x <= y
    <3>1. x \in Nat /\ y \in Nat
      OBVIOUS
    <3>2. ~ (y < x)
      BY <2>2, <2>3, <3>1, Zenon
    <3> QED BY <3>1, <3>2
  <2> QED BY <2>4
<1> QED BY <1>1 DEF Lowest

\* Slots and connections are numbered from 0, and "none" is not a number of
\* either.
LEMMA Numbers ==
  /\ Slots \subseteq Nat /\ Ids \subseteq Nat /\ 0 \in Ids
  /\ NoId \notin Slots /\ NoId \notin Ids
  /\ None \notin Names /\ None \notin Portals /\ Discovery \in Names
BY SessionTableAssumption DEF Slots, Ids, NoId, Names

LEMMA LowestFree ==
  ASSUME NEW H, Free(H) # {}
  PROVE  Lowest(Free(H)) \in Slots /\ Lowest(Free(H)) \notin Live(H)
BY LowestIn, Numbers DEF Free

LEMMA LowestFreeConn ==
  ASSUME NEW H, NEW s, FreeConns(H, s) # {}
  PROVE  Lowest(FreeConns(H, s)) \in Ids
BY LowestIn, Numbers DEF FreeConns

-----------------------------------------------------------------------------
(* Each function of the table preserves consistency. *)

\* The empty table is consistent.
LEMMA NoTableConsistent == Consistent(NoTable)
<1>1. NoConn \in Conns
  BY DEF NoConn, Conns
<1>2. NoSession \in Sessions
  BY <1>1, SessionTableAssumption DEF NoSession, Sessions
<1>3. NoTable \in Tables
  BY <1>2 DEF NoTable, Tables
<1> QED BY <1>3, Numbers DEF NoTable, NoSession, Consistent, Leads, Found, Live

\* What changes connections and parameters only.
LEMMA ConnsOnly ==
  ASSUME NEW H, NEW G, Consistent(H), G \in Tables, G.name = H.name,
         \A s \in Slots : /\ G.list[s].iqn = H.list[s].iqn
                          /\ G.list[s].second = H.list[s].second
  PROVE  Consistent(G)
<1>1. Live(G) = Live(H)
  BY DEF Live
<1>2. Leads(G)
  BY DEF Consistent, Leads, Tables
<1>3. Found(G)
  BY <1>1 DEF Consistent, Found, Live
<1> QED BY <1>2, <1>3 DEF Consistent

\* Replacing the connections of a session keeps the table consistent.
LEMMA SetConn ==
  ASSUME NEW H, Consistent(H), NEW s \in Slots, NEW conn \in [Ids -> Conns]
  PROVE  Consistent([H EXCEPT !.list[s].conn = conn])
<1> DEFINE G == [H EXCEPT !.list[s].conn = conn]
<1>0. H \in Tables
  BY DEF Consistent
<1>1. H.list[s] \in Sessions
  BY <1>0 DEF Tables
<1>2. [H.list[s] EXCEPT !.conn = conn] \in Sessions
  BY <1>1 DEF Sessions
<1>3. G \in Tables
  BY <1>0, <1>2 DEF Tables
<1>4. \A t \in Slots : G.list[t].iqn = H.list[t].iqn
                       /\ G.list[t].second = H.list[t].second
  BY <1>0, <1>1 DEF Tables, Sessions
<1>5. G.name = H.name
  BY <1>0 DEF Tables
<1> QED BY <1>3, <1>4, <1>5, ConnsOnly

\* What changes one connection.
LEMMA SetOneConn ==
  ASSUME NEW H, Consistent(H), NEW s \in Slots, NEW c, NEW k \in Conns
  PROVE  Consistent([H EXCEPT !.list[s].conn[c] = k])
<1>1. H.list[s].conn \in [Ids -> Conns]
  BY DEF Consistent, Tables, Sessions
<1>2. [H.list[s].conn EXCEPT ![c] = k] \in [Ids -> Conns]
  BY <1>1
<1>3. Consistent([H EXCEPT !.list[s].conn = [H.list[s].conn EXCEPT ![c] = k]])
  BY <1>2, SetConn
<1>4. [H EXCEPT !.list[s].conn[c] = k]
        = [H EXCEPT !.list[s].conn = [H.list[s].conn EXCEPT ![c] = k]]
  BY DEF Consistent, Tables
<1> QED BY <1>3, <1>4

LEMMA SetOneState ==
  ASSUME NEW H, Consistent(H), NEW s \in Slots, NEW c \in ConnsOf(H, s),
         NEW st \in ConnStates \ {"none"}
  PROVE  Consistent([H EXCEPT !.list[s].conn[c].st = st])
<1>1. H.list[s].conn[c] \in Conns /\ H.list[s].conn[c].st # "none"
  BY DEF Consistent, Tables, Sessions, ConnsOf
<1>2. [H.list[s].conn[c] EXCEPT !.st = st] \in Conns
  BY <1>1 DEF Conns, NoConn
<1>3. Consistent([H EXCEPT !.list[s].conn[c] = [H.list[s].conn[c] EXCEPT !.st = st]])
  BY <1>2, SetOneConn
<1>4. [H EXCEPT !.list[s].conn[c].st = st]
        = [H EXCEPT !.list[s].conn[c] = [H.list[s].conn[c] EXCEPT !.st = st]]
  BY DEF Consistent, Tables
<1> QED BY <1>3, <1>4

LEMMA CreateConnectionConsistent ==
  ASSUME NEW H, Consistent(H), NEW s \in Slots, NEW p \in Portals
  PROVE  Consistent(CreateConnection(H, s, p))
<1>1. [st |-> "off", portal |-> p] \in Conns
  BY DEF Conns, ConnStates
<1> QED BY <1>1, SetOneConn DEF CreateConnection

LEMMA ReleaseConnectionConsistent ==
  ASSUME NEW H, Consistent(H), NEW s, NEW c
  PROVE  Consistent(ReleaseConnection(H, s, c))
<1>1. NoConn \in Conns
  BY DEF Conns
<1>2. Exists(H, s, c) => s \in Slots
  BY DEF Exists, Live
<1> QED BY <1>1, <1>2, SetOneConn DEF ReleaseConnection

LEMMA ActivateConnectionConsistent ==
  ASSUME NEW H, Consistent(H), NEW s, NEW c, NEW st \in ConnStates \ {"none"}
  PROVE  Consistent(ActivateConnection(H, s, c, st))
<1>1. Exists(H, s, c) => s \in Slots /\ c \in ConnsOf(H, s)
  BY DEF Exists, Live
<1> QED BY <1>1, SetOneState DEF ActivateConnection

LEMMA DeactivateConnectionConsistent ==
  ASSUME NEW H, Consistent(H), NEW s, NEW c \in Ids,
         NEW st \in ConnStates \ {"none"}
  PROVE  Consistent(DeactivateConnection(H, s, c, st))
<1>1. s \in Live(H) => s \in Slots
  BY DEF Live
<1>2. H.list[s].conn[c].st = "up" => c \in ConnsOf(H, s)
  BY DEF ConnsOf
<1> QED BY <1>1, <1>2, SetOneState DEF DeactivateConnection

LEMMA DeactivateAllConsistent ==
  ASSUME NEW H, Consistent(H), NEW s, NEW st \in ConnStates \ {"none"}
  PROVE  Consistent(DeactivateAllConnections(H, s, st))
<1> SUFFICES ASSUME s \in Live(H) PROVE Consistent(DeactivateAllConnections(H, s, st))
  BY DEF DeactivateAllConnections
<1> DEFINE new == [c \in Ids |-> IF H.list[s].conn[c].st = "up"
                                THEN [H.list[s].conn[c] EXCEPT !.st = st]
                                ELSE H.list[s].conn[c]]
<1>0. s \in Slots
  BY DEF Live
<1>1. H.list[s].conn \in [Ids -> Conns]
  BY <1>0 DEF Consistent, Tables, Sessions
<1>2. new \in [Ids -> Conns]
  BY <1>1 DEF Conns, NoConn
<1>3. DeactivateAllConnections(H, s, st) = [H EXCEPT !.list[s].conn = new]
  BY <1>0 DEF Consistent, Tables, DeactivateAllConnections
<1> HIDE DEF new
<1> QED BY <1>0, <1>2, <1>3, SetConn

LEMMA SetParameterConsistent ==
  ASSUME NEW H, Consistent(H), NEW s, NEW m \in 1..MaxConns
  PROVE  Consistent(SetSessionParameter(H, s, m))
<1> SUFFICES ASSUME s \in Live(H) PROVE Consistent(SetSessionParameter(H, s, m))
  BY DEF SetSessionParameter
<1> DEFINE G == [H EXCEPT !.list[s].max = m]
<1>0. s \in Slots /\ H \in Tables
  BY DEF Live, Consistent
<1>1. [H.list[s] EXCEPT !.max = m] \in Sessions
  BY <1>0 DEF Tables, Sessions
<1>2. G \in Tables
  BY <1>0, <1>1 DEF Tables
<1>3. \A t \in Slots : G.list[t].iqn = H.list[t].iqn
                       /\ G.list[t].second = H.list[t].second
  BY <1>0 DEF Tables, Sessions
<1>4. G.name = H.name
  BY <1>0 DEF Tables
<1>5. Consistent(G)
  BY <1>2, <1>3, <1>4, ConnsOnly
<1> QED BY <1>5 DEF SetSessionParameter

\* A slot that is freed had at most one name, its own: by Leads the choice of
\* the name to remove has nothing to choose between.
LEMMA ReleaseSessionConsistent ==
  ASSUME NEW H, Consistent(H), NEW s
  PROVE  Consistent(ReleaseSession(H, s))
<1> SUFFICES ASSUME s \in Live(H) PROVE Consistent(ReleaseSession(H, s))
  BY DEF ReleaseSession
<1> DEFINE i == H.list[s].iqn
           led == {n \in Names : H.name[n] = s}
           G == ReleaseSession(H, s)
<1>1. H \in Tables /\ s \in Slots /\ i \in Names
  BY DEF Consistent, Tables, Sessions, Live
<1>2. NoSession \in Sessions /\ NoSession.iqn = None
  BY NoTableConsistent, <1>1 DEF Consistent, Tables, NoTable, NoSession
<1>3. led \subseteq {i}
  BY <1>1, Numbers DEF Consistent, Leads
<1>4. G.list = [H.list EXCEPT ![s] = NoSession]
  BY DEF ReleaseSession
<1>5. G.name = IF led = {} THEN H.name ELSE [H.name EXCEPT ![i] = NoId]
  <2>1. led # {} => (CHOOSE n \in led : TRUE) = i
    BY <1>3
  <2> QED BY <2>1 DEF ReleaseSession
<1>6. G \in Tables
  <2>1. G.list \in [Slots -> Sessions]
    BY <1>1, <1>2, <1>4 DEF Tables
  <2>2. G.name \in [Names -> Slots \cup {NoId}]
    BY <1>1, <1>5 DEF Tables
  <2>3. G = [list |-> G.list, name |-> G.name]
    BY DEF ReleaseSession
  <2> QED BY <2>1, <2>2, <2>3 DEF Tables
<1>7. Leads(G)
  <2> SUFFICES ASSUME NEW n \in Names, G.name[n] # NoId
               PROVE  G.list[G.name[n]].iqn = n
    BY DEF Leads
  <2>1. G.name[n] = H.name[n] /\ n \notin led
    BY <1>1, <1>3, <1>5 DEF Tables
  <2>2. H.name[n] \in Slots /\ H.name[n] # s
    BY <1>1, <2>1 DEF Tables
  <2>3. G.list[H.name[n]] = H.list[H.name[n]]
    BY <1>1, <1>4, <2>2 DEF Tables
  <2> QED BY <2>1, <2>3 DEF Consistent, Leads
<1>8. Found(G)
  <2> SUFFICES ASSUME NEW t \in Live(G)
               PROVE  G.name[G.list[t].iqn] = t \/ G.list[t].second
    BY DEF Found
  <2>1. t \in Slots /\ t # s /\ G.list[t] = H.list[t]
    BY <1>1, <1>2, <1>4 DEF Live, Tables
  <2>2. t \in Live(H) /\ H.list[t].iqn \in Names
    BY <1>1, <2>1 DEF Live, Tables, Sessions
  <2>3. H.name[H.list[t].iqn] = t \/ H.list[t].second
    BY <2>2 DEF Consistent, Found
  <2>4. CASE H.list[t].second
    BY <2>1, <2>4
  <2>5. CASE H.name[H.list[t].iqn] = t
    <3>1. H.list[t].iqn \notin led
      BY <2>1, <2>5
    <3>2. G.name[H.list[t].iqn] = H.name[H.list[t].iqn]
      BY <1>1, <1>3, <1>5, <2>2, <3>1 DEF Tables
    <3> QED BY <2>1, <2>5, <3>2
  <2> QED BY <2>3, <2>4, <2>5
<1> QED BY <1>6, <1>7, <1>8 DEF Consistent

\* Both ways of making a session mark the older ones of the same name.
LEMMA MarkedIsASession ==
  ASSUME NEW x \in Sessions, NEW b \in BOOLEAN
  PROVE  /\ [x EXCEPT !.second = b] \in Sessions
         /\ [x EXCEPT !.second = b].iqn = x.iqn
         /\ [x EXCEPT !.second = b].second = b
BY DEF Sessions

LEMMA CreateSessionConsistent ==
  ASSUME NEW H, Consistent(H), NEW n \in Names, NEW p \in Portals, Free(H) # {}
  PROVE  Consistent(CreateSession(H, n, p))
<1> DEFINE s == Lowest(Free(H))
           new == [NoSession EXCEPT !.iqn = n,
                                    !.conn[0] = [st |-> "off", portal |-> p]]
           marked(i) == [H.list[i] EXCEPT !.second = @ \/ H.list[i].iqn = n]
           G == CreateSession(H, n, p)
<1>1. H \in Tables /\ s \in Slots /\ s \notin Live(H)
  BY LowestFree DEF Consistent
<1>2. new \in Sessions /\ new.iqn = n
  <2>1. [st |-> "off", portal |-> p] \in Conns
    BY DEF Conns, ConnStates
  <2>2. NoConn \in Conns
    BY DEF Conns
  <2>3. NoSession \in Sessions
    BY <2>2, SessionTableAssumption DEF NoSession, Sessions
  <2>4. [NoSession.conn EXCEPT ![0] = [st |-> "off", portal |-> p]] \in [Ids -> Conns]
    BY <2>1, <2>3 DEF Sessions
  <2>5. new = [NoSession EXCEPT !.iqn = n,
                   !.conn = [NoSession.conn EXCEPT ![0] = [st |-> "off", portal |-> p]]]
    BY <2>3 DEF Sessions
  <2> HIDE DEF new
  <2> QED BY <2>3, <2>4, <2>5 DEF Sessions
<1>3. \A i \in Slots : /\ marked(i) \in Sessions
                       /\ marked(i).iqn = H.list[i].iqn
                       /\ marked(i).second = (H.list[i].second \/ H.list[i].iqn = n)
  BY <1>1, MarkedIsASession DEF Tables, Sessions
<1>4. G.name = [H.name EXCEPT ![n] = s]
  BY DEF CreateSession
<1>5. G.list = [i \in Slots |-> IF i = s THEN new ELSE marked(i)]
  BY DEF CreateSession
<1> HIDE DEF new, marked, s
<1>6. G \in Tables
  <2>1. G.list \in [Slots -> Sessions]
    BY <1>2, <1>3, <1>5
  <2>2. G.name \in [Names -> Slots \cup {NoId}]
    BY <1>1, <1>4 DEF Tables
  <2>3. G = [list |-> G.list, name |-> G.name]
    BY DEF CreateSession
  <2> QED BY <2>1, <2>2, <2>3 DEF Tables
<1> HIDE DEF G
<1>7. Leads(G)
  <2> SUFFICES ASSUME NEW m \in Names, G.name[m] # NoId
               PROVE  G.list[G.name[m]].iqn = m
    BY DEF Leads
  <2>1. CASE m = n
    BY <1>1, <1>2, <1>4, <1>5, <2>1 DEF Tables
  <2>2. CASE m # n
    <3>1. G.name[m] = H.name[m] /\ H.name[m] \in Slots
      BY <1>1, <1>4, <2>2 DEF Tables
    <3>2. H.list[H.name[m]].iqn = m
      BY <3>1 DEF Consistent, Leads
    <3>3. H.name[m] # s
      BY <1>1, <3>1, <3>2, Numbers DEF Live
    <3> QED BY <1>3, <1>5, <3>1, <3>2, <3>3
  <2> QED BY <2>1, <2>2
<1>8. Found(G)
  <2> SUFFICES ASSUME NEW t \in Live(G)
               PROVE  G.name[G.list[t].iqn] = t \/ G.list[t].second
    BY DEF Found
  <2>0. t \in Slots
    BY DEF Live
  <2>1. CASE t = s
    BY <1>1, <1>2, <1>4, <1>5, <2>1 DEF Tables
  <2>2. CASE t # s
    <3>1. G.list[t] = marked(t)
      BY <1>5, <2>0, <2>2
    <3>2. t \in Live(H) /\ H.list[t].iqn \in Names
      BY <1>1, <1>3, <2>0, <3>1 DEF Live, Tables, Sessions
    <3>3. H.name[H.list[t].iqn] = t \/ H.list[t].second
      BY <3>2 DEF Consistent, Found
    <3>4. H.list[t].iqn = n \/ G.name[H.list[t].iqn] = H.name[H.list[t].iqn]
      BY <1>1, <1>4, <3>2 DEF Tables
    <3> QED BY <1>3, <2>0, <3>1, <3>3, <3>4
  <2> QED BY <2>1, <2>2
<1> QED BY <1>6, <1>7, <1>8 DEF Consistent, G

LEMMA CreateSessionFailsConsistent ==
  ASSUME NEW H, Consistent(H), NEW n \in Names
  PROVE  Consistent(CreateSessionFails(H, n))
<1> DEFINE marked(i) == [H.list[i] EXCEPT !.second = @ \/ H.list[i].iqn = n]
           G == CreateSessionFails(H, n)
<1>1. H \in Tables
  BY DEF Consistent
<1>3. \A i \in Slots : /\ marked(i) \in Sessions
                       /\ marked(i).iqn = H.list[i].iqn
                       /\ marked(i).second = (H.list[i].second \/ H.list[i].iqn = n)
  BY <1>1, MarkedIsASession DEF Tables, Sessions
<1>4. G.name = [H.name EXCEPT ![n] = NoId]
  BY DEF CreateSessionFails
<1>5. G.list = [i \in Slots |-> marked(i)]
  BY DEF CreateSessionFails
<1> HIDE DEF marked
<1>6. G \in Tables
  <2>1. G.list \in [Slots -> Sessions]
    BY <1>3, <1>5
  <2>2. G.name \in [Names -> Slots \cup {NoId}]
    BY <1>1, <1>4 DEF Tables
  <2>3. G = [list |-> G.list, name |-> G.name]
    BY DEF CreateSessionFails
  <2> QED BY <2>1, <2>2, <2>3 DEF Tables
<1> HIDE DEF G
<1>7. Leads(G)
  <2> SUFFICES ASSUME NEW m \in Names, G.name[m] # NoId
               PROVE  G.list[G.name[m]].iqn = m
    BY DEF Leads
  <2>1. m # n /\ G.name[m] = H.name[m] /\ H.name[m] \in Slots
    BY <1>1, <1>4 DEF Tables
  <2>2. H.list[H.name[m]].iqn = m
    BY <2>1 DEF Consistent, Leads
  <2> QED BY <1>3, <1>5, <2>1, <2>2
<1>8. Found(G)
  <2> SUFFICES ASSUME NEW t \in Live(G)
               PROVE  G.name[G.list[t].iqn] = t \/ G.list[t].second
    BY DEF Found
  <2>0. t \in Slots /\ G.list[t] = marked(t)
    BY <1>5 DEF Live
  <2>2. t \in Live(H) /\ H.list[t].iqn \in Names
    BY <1>1, <1>3, <2>0 DEF Live, Tables, Sessions
  <2>3. H.name[H.list[t].iqn] = t \/ H.list[t].second
    BY <2>2 DEF Consistent, Found
  <2>4. H.list[t].iqn = n \/ G.name[H.list[t].iqn] = H.name[H.list[t].iqn]
    BY <1>1, <1>4, <2>2 DEF Tables
  <2> QED BY <1>3, <2>0, <2>3, <2>4
<1> QED BY <1>6, <1>7, <1>8 DEF Consistent, G

LEMMA TimeOutConsistent ==
  ASSUME NEW H, Consistent(H), NEW s, NEW c \in Ids
  PROVE  Consistent(TimeOut(H, s, c)) /\ Consistent(TimeOutUnattended(H, s, c))
<1>1. "lost" \in ConnStates \ {"none"}
  BY DEF ConnStates
<1> QED BY <1>1, DeactivateConnectionConsistent, DeactivateAllConsistent,
           ReleaseConnectionConsistent, ReleaseSessionConsistent
        DEF TimeOut, TimeOutUnattended

LEMMA AsyncMsgConsistent ==
  ASSUME NEW H, Consistent(H), NEW s, NEW c \in Ids, NEW event \in Events
  PROVE  Consistent(AsyncMsg(H, s, c, event))
<1>1. "idle" \in ConnStates \ {"none"}
  BY DEF ConnStates
<1> QED BY <1>1, DeactivateConnectionConsistent, ReleaseConnectionConsistent,
           ReleaseSessionConsistent DEF AsyncMsg, Events

LEMMA ClientReleaseConsistent ==
  ASSUME NEW H, Consistent(H), NEW s, NEW c
  PROVE  Consistent(ClientReleaseConnection(H, s, c))
BY ReleaseConnectionConsistent, ReleaseSessionConsistent
   DEF ClientReleaseConnection

-----------------------------------------------------------------------------
(***************************************************************************)
(* The inductive invariant.  A thread that is about to make a session has  *)
(* a name and a portal for it.                                             *)
(***************************************************************************)
ThreadsOK ==
    /\ th \in [Threads -> Thread]
    /\ \A w \in Threads :
        th[w].at = "create" => th[w].name \in Names /\ th[w].portal \in Portals

WorkOK ==
    /\ notes \in Seq(Notes)
    /\ unmounts \subseteq Unmounts
    /\ resume \subseteq Names \X Portals /\ todo \subseteq Names \X Portals
    /\ alive \in BOOLEAN /\ died \in BOOLEAN /\ panicked \in BOOLEAN
    /\ ops \in 0..MaxOps /\ queries \in 0..MaxQueries /\ faults \in 0..MaxFaults

IInv == Consistent(table) /\ ThreadsOK /\ WorkOK

LEMMA StepOK ==
  ASSUME ThreadsOK, NEW w \in Threads, NEW step \in Steps \ {"create"},
         Step(w, step)
  PROVE  ThreadsOK'
BY DEF ThreadsOK, Step, Thread

LEMMA RestOK ==
  ASSUME ThreadsOK, NEW w \in Threads, Rest(w)
  PROVE  ThreadsOK'
<1>1. Resting \in Thread /\ Resting.at # "create"
  BY DEF Resting, Thread, Jobs, Steps
<1> QED BY <1>1 DEF ThreadsOK, Rest

LEMMA BeginOK ==
  ASSUME ThreadsOK, NEW w \in Threads, NEW job \in Jobs, NEW step \in Steps,
         NEW n \in Names, NEW p \in Portals \cup {None},
         NEW s \in Slots \cup {NoId}, NEW c \in Ids \cup {NoId},
         step = "create" => p \in Portals,
         Begin(w, job, step, n, p, s, c)
  PROVE  ThreadsOK'
<1> DEFINE x == [Resting EXCEPT !.job = job, !.at = step, !.name = n,
                                !.portal = p, !.sid = s, !.cid = c]
<1>1. Resting \in Thread
  BY DEF Resting, Thread, Jobs, Steps
<1>2. x \in Thread /\ x.at = step /\ x.name = n /\ x.portal = p
  BY <1>1 DEF Thread
<1>3. th' = [th EXCEPT ![w] = x]
  BY DEF Begin
<1> HIDE DEF x
<1> QED BY <1>2, <1>3 DEF ThreadsOK

LEMMA AskOK ==
  ASSUME ThreadsOK, NEW w \in Threads, NEW step \in Steps \ {"create"},
         Ask(w, TRUE, step) \/ AskFails(w, step)
  PROVE  ThreadsOK'
<1> DEFINE x == [th[w] EXCEPT !.data = TRUE, !.at = step, !.err = FALSE]
           y == [th[w] EXCEPT !.at = step, !.err = TRUE]
<1>1. th[w] \in Thread
  BY DEF ThreadsOK
<1>2. x \in Thread /\ x.at = step /\ y \in Thread /\ y.at = step
  BY <1>1 DEF Thread
<1>3. th' = [th EXCEPT ![w] = x] \/ th' = [th EXCEPT ![w] = y]
  BY DEF ThreadsOK, Ask, AskFails
<1> HIDE DEF x, y
<1> QED BY <1>2, <1>3 DEF ThreadsOK

-----------------------------------------------------------------------------
(* The calls of the two threads. *)

LEMMA CallKeeps ==
  ASSUME IInv, NEW w \in Threads, Call(w)
  PROVE  IInv'
<1> USE DEF IInv
<1>0. th[w] \in Thread
  BY DEF ThreadsOK
<1>1. CASE RecvData(w)
  BY <1>1, ZenonT(30) DEF RecvData, ThreadsOK, Thread, WorkOK, work, bounds
<1>2. CASE NewSession(w)
  <2>1. th[w].name \in Names /\ th[w].portal \in Portals
    BY <1>2 DEF NewSession, At, ThreadsOK
  <2>2. WorkOK'
    BY <1>2 DEF NewSession, WorkOK, work, life, bounds
  <2>3. CASE Free(table) # {} /\ table' = CreateSession(table, th[w].name, th[w].portal)
             /\ th' = [th EXCEPT ![w].sid = Lowest(Free(table)), ![w].cid = 0,
                                 ![w].at = "auth"]
    <3>1. Consistent(table')
      BY <2>1, <2>3, CreateSessionConsistent
    <3>2. Lowest(Free(table)) \in Slots /\ 0 \in Ids
      BY <2>3, LowestFree, Numbers
    <3> DEFINE x == [th[w] EXCEPT !.sid = Lowest(Free(table)), !.cid = 0, !.at = "auth"]
    <3>3. x \in Thread /\ x.at = "auth"
      BY <1>0, <3>2 DEF Thread, Steps
    <3>4. th' = [th EXCEPT ![w] = x]
      BY <2>3 DEF ThreadsOK
    <3> HIDE DEF x
    <3>5. ThreadsOK'
      BY <3>3, <3>4 DEF ThreadsOK
    <3> QED BY <2>2, <3>1, <3>5
  <2>4. CASE /\ table' = IF Free(table) = {} THEN table
                         ELSE CreateSessionFails(table, th[w].name)
             /\ Rest(w) \/ Step(w, "release")
    <3>1. Consistent(table')
      BY <2>1, <2>4, CreateSessionFailsConsistent
    <3>2. ThreadsOK'
      BY <2>4, RestOK, StepOK DEF Steps
    <3> QED BY <2>2, <3>1, <3>2
  <2> QED BY <1>2, <2>3, <2>4 DEF NewSession
<1>3. CASE Authenticate(w)
  <2>1. ThreadsOK'
    BY <1>3, AskOK DEF Authenticate, Steps
  <2> QED BY <1>3, <2>1 DEF Authenticate, WorkOK, work, life, bounds
<1>4. CASE NegotiateSession(w)
  <2>1. ThreadsOK'
    BY <1>4, AskOK DEF NegotiateSession, Steps
  <2>2. Consistent(table')
    BY <1>4, SetParameterConsistent DEF NegotiateSession
  <2> QED BY <1>4, <2>1, <2>2 DEF NegotiateSession, WorkOK, work, life, bounds
<1>5. CASE Activate(w)
  <2>1. ThreadsOK'
    BY <1>5, StepOK, RestOK DEF Activate, Steps
  <2>2. Consistent(table')
    <3>1. {"up", "idle"} \subseteq ConnStates \ {"none"}
      BY DEF ConnStates
    <3> QED BY <1>5, <3>1, ActivateConnectionConsistent
            DEF Activate, InterfaceActivateConnection
  <2> QED BY <1>5, <2>1, <2>2 DEF Activate, WorkOK, work, life, bounds
<1>6. CASE Release(w)
  <2>1. ThreadsOK'
    BY <1>6, StepOK, RestOK DEF Release, Released, Steps
  <2>2. Consistent(table')
    BY <1>6, ReleaseSessionConsistent DEF Release, InterfaceReleaseSession
  <2> QED BY <1>6, <2>1, <2>2 DEF Release, WorkOK, work, life, bounds
<1>7. CASE SendTargets(w)
  <2>1. ThreadsOK'
    BY <1>7, AskOK DEF SendTargets, Steps
  <2> QED BY <1>7, <2>1 DEF SendTargets, WorkOK, work, life, bounds
<1>8. CASE Deactivate(w)
  <2>1. ThreadsOK'
    BY <1>8, StepOK DEF Deactivate, Steps
  <2>2. Consistent(table')
    BY <1>8, DeactivateAllConsistent
       DEF Deactivate, InterfaceDeactivateAllConnections, ConnStates
  <2> QED BY <1>8, <2>1, <2>2 DEF Deactivate, WorkOK, work, life, bounds
<1>9. CASE LogoutCommon(w)
  <2>1. GetConnection(table, th[w].sid) \in Ids \cup {NoId}
    <3>1. ConnsOf(table, th[w].sid) \subseteq Nat
      BY Numbers DEF ConnsOf
    <3>2. ConnsOf(table, th[w].sid) # {} => Lowest(ConnsOf(table, th[w].sid)) \in Ids
      BY <3>1, LowestIn DEF ConnsOf
    <3> QED BY <3>2 DEF GetConnection
  <2> DEFINE x == [th[w] EXCEPT !.cid = GetConnection(table, th[w].sid), !.at = "drop"]
  <2>3. x \in Thread /\ x.at = "drop"
    BY <1>0, <2>1 DEF Thread, Steps
  <2>4. th' = [th EXCEPT ![w] = x]
    BY <1>9 DEF LogoutCommon, ThreadsOK
  <2> HIDE DEF x
  <2>2. ThreadsOK'
    BY <2>3, <2>4 DEF ThreadsOK
  <2> QED BY <1>9, <2>2 DEF LogoutCommon, WorkOK, work, life, bounds
<1>10. CASE DropSession(w)
  <2>1. ThreadsOK'
    BY <1>10, RestOK DEF DropSession
  <2>2. Consistent(table')
    BY <1>10, ReleaseSessionConsistent DEF DropSession, InterfaceReleaseSession
  <2> QED BY <1>10, <2>1, <2>2 DEF DropSession, WorkOK, work, life, bounds
<1> QED BY <1>1, <1>2, <1>3, <1>4, <1>5, <1>6, <1>7, <1>8, <1>9, <1>10 DEF Call

-----------------------------------------------------------------------------
(* What the main thread starts, and what comes from outside. *)

\* A login makes a session, or adds a connection to one its name leads to.
LEMMA LoginWithPortalKeeps ==
  ASSUME Consistent(table), ThreadsOK, NEW n \in Names, NEW p \in Portals,
         LoginWithPortal(n, p)
  PROVE  Consistent(table') /\ ThreadsOK'
<1> DEFINE s == GetSessionIdForTargetIQN(table, n)
<1>1. s \in Slots \cup {NoId}
  BY DEF GetSessionIdForTargetIQN, Consistent, Tables
<1>2. Main \in Threads
  BY DEF Threads
<1>3. CASE UNCHANGED <<th, table>>
  BY <1>3 DEF ThreadsOK
<1>4. CASE Begin(Main, "login", "create", n, p, NoId, NoId) /\ UNCHANGED table
  <2>1. ThreadsOK'
    BY <1>2, <1>4, BeginOK DEF Jobs, Steps
  <2> QED BY <1>4, <2>1
<1>5. CASE /\ s # NoId /\ FreeConns(table, s) # {}
           /\ table' = CreateConnection(table, s, p)
           /\ Begin(Main, "add", "undo", n, p, s, Lowest(FreeConns(table, s)))
  <2>1. Consistent(table')
    BY <1>1, <1>5, CreateConnectionConsistent
  <2>2. Lowest(FreeConns(table, s)) \in Ids
    BY <1>5, LowestFreeConn
  <2>3. ThreadsOK'
    BY <1>1, <1>2, <1>5, <2>2, BeginOK DEF Jobs, Steps
  <2> QED BY <2>1, <2>3
<1> QED BY <1>3, <1>4, <1>5 DEF LoginWithPortal

LEMMA DieKeeps ==
  ASSUME IInv, Die, UNCHANGED <<ops, queries>>, faults' \in 0..MaxFaults
  PROVE  IInv'
<1>1. Resting \in Thread /\ Resting.at # "create"
  BY DEF Resting, Thread, Jobs, Steps
<1>2. ThreadsOK'
  BY <1>1 DEF Die, ThreadsOK
<1>3. alive' \in BOOLEAN /\ died' \in BOOLEAN /\ panicked' \in BOOLEAN
  BY Zenon DEF IInv, Die, WorkOK
<1>4. <<>> \in Seq(Notes)
  OBVIOUS
<1>5. WorkOK'
  BY <1>3, <1>4 DEF IInv, Die, WorkOK
<1> QED BY <1>2, <1>5 DEF IInv, Die

LEMMA MainKeeps ==
  ASSUME IInv, AddConnection \/ Restore \/ Notification
  PROVE  IInv'
<1> USE DEF IInv
<1>0. Main \in Threads
  BY DEF Threads
<1>1. CASE AddConnection
  <2>1. ThreadsOK'
    BY <1>0, <1>1, RestOK DEF AddConnection
  <2>2. Consistent(table')
    BY <1>1, ClientReleaseConsistent DEF AddConnection, InterfaceReleaseConnection
  <2> QED BY <1>1, <2>1, <2>2 DEF AddConnection, WorkOK, work, life, bounds
<1>2. CASE Restore
  <2>1. PICK x \in todo :
           \/ Die /\ UNCHANGED bounds
           \/ /\ LoginWithPortal(x[1], x[2]) /\ todo' = todo \ {x}
              /\ UNCHANGED <<notes, unmounts, resume, life, bounds>>
    BY <1>2 DEF Restore
  <2>2. x[1] \in Names /\ x[2] \in Portals
    BY DEF WorkOK
  <2>3. CASE Die /\ UNCHANGED bounds
    BY <2>3, DieKeeps DEF bounds, WorkOK
  <2>4. CASE /\ LoginWithPortal(x[1], x[2]) /\ todo' = todo \ {x}
             /\ UNCHANGED <<notes, unmounts, resume, life, bounds>>
    <3>1. Consistent(table') /\ ThreadsOK'
      BY <2>2, <2>4, LoginWithPortalKeeps
    <3> QED BY <2>4, <3>1 DEF WorkOK, life, bounds
  <2> QED BY <2>1, <2>3, <2>4
<1>3. CASE Notification
  <2>1. Consistent(table')
    BY <1>3, ClientReleaseConsistent
       DEF Notification, TimeoutMessage, RemoveConnection, InterfaceReleaseConnection
  <2>2. ThreadsOK'
    BY <1>3 DEF Notification, ThreadsOK
  <2>3. notes' \in Seq(Notes)
    BY <1>3 DEF Notification, WorkOK
  <2> QED BY <1>3, <2>1, <2>2, <2>3 DEF Notification, WorkOK, life, bounds
<1> QED BY <1>1, <1>2, <1>3

LEMMA CommandKeeps ==
  ASSUME IInv, Command
  PROVE  IInv'
<1> USE DEF IInv
<1>0. Main \in Threads
  BY DEF Threads
<1>1. ASSUME NEW t \in Targets, NEW p \in Portals, Login(t, p) PROVE IInv'
  <2>1. Consistent(table') /\ ThreadsOK'
    BY <1>1, LoginWithPortalKeeps DEF Login, Names
  <2>2. ops' \in 0..MaxOps
    BY <1>1, SessionsAssumption DEF Login, WorkOK
  <2> QED BY <1>1, <2>1, <2>2 DEF Login, WorkOK, work, life
<1>2. ASSUME NEW t \in Targets, NEW p \in QueryPortals, QueryTargetForAuthMethod(t, p)
      PROVE  IInv'
  <2>1. ThreadsOK'
    BY <1>0, <1>2, BeginOK, SessionsAssumption
       DEF QueryTargetForAuthMethod, Names, Jobs, Steps
  <2>2. ops' \in 0..MaxOps
    BY <1>2, SessionsAssumption DEF QueryTargetForAuthMethod, WorkOK
  <2> QED BY <1>2, <2>1, <2>2 DEF QueryTargetForAuthMethod, WorkOK, work, life
<1>3. ASSUME NEW t \in Targets, Logout(t) PROVE IInv'
  <2>1. ops' \in 0..MaxOps
    BY <1>3, SessionsAssumption DEF Logout, WorkOK
  <2>2. unmounts' \subseteq Unmounts
    BY <1>3 DEF Logout, WorkOK, Unmounts, Names
  <2> QED BY <1>3, <2>1, <2>2 DEF Logout, WorkOK, life, ThreadsOK
<1>4. ASSUME NEW u \in unmounts, NEW success \in BOOLEAN, UnmountComplete(u, success)
      PROVE  IInv'
  <2>1. u.name \in Names /\ u.sid \in Slots \cup {NoId}
    BY DEF WorkOK, Unmounts
  <2>2. GetSessionIdForTargetIQN(table, u.name) \in Slots \cup {NoId}
    BY <2>1 DEF GetSessionIdForTargetIQN, Consistent, Tables
  <2>3. ThreadsOK'
    <3>1. CASE UNCHANGED th
      BY <3>1 DEF ThreadsOK
    <3>2. CASE SleepComplete(u)
      BY <1>0, <2>1, <3>2, BeginOK DEF SleepComplete, Jobs, Steps
    <3>3. CASE LogoutComplete(u, success) /\ ~ UNCHANGED th
      BY <1>0, <2>1, <2>2, <3>3, BeginOK DEF LogoutComplete, Jobs, Steps
    <3> QED BY <1>4, <3>1, <3>2, <3>3 DEF UnmountComplete
  <2> QED BY <1>4, <2>3 DEF UnmountComplete, WorkOK, life, bounds
<1>5. CASE Sleep
  <2>1. faults' \in 0..MaxFaults
    BY <1>5, SessionsAssumption DEF Sleep, WorkOK
  <2>2. resume' \subseteq Names \X Portals
    BY <1>5 DEF Sleep
  <2>3. \A s \in Slots : GetTargetIQNForSessionId(table, s) \in Names \cup {None}
    BY DEF GetTargetIQNForSessionId
  <2>4. unmounts' \subseteq Unmounts
    BY <1>5, <2>3 DEF Sleep, WorkOK, Unmounts, GetSessionIds, Live
  <2> QED BY <1>5, <2>1, <2>2, <2>4 DEF Sleep, WorkOK, life, ThreadsOK
<1>6. CASE Wake
  BY <1>6 DEF Wake, WorkOK, life, bounds, ThreadsOK
<1> QED BY <1>1, <1>2, <1>3, <1>4, <1>5, <1>6 DEF Command

LEMMA KernelKeeps ==
  ASSUME IInv, Kernel
  PROVE  IInv'
<1> USE DEF IInv
<1>1. ASSUME NEW s \in Slots, NEW c \in Ids, ConnectionTimeout(s, c) PROVE IInv'
  <2>1. Consistent(table')
    BY <1>1, TimeOutConsistent DEF ConnectionTimeout
  <2>2. [type |-> "timeout", sid |-> s, cid |-> c] \in Notes
    BY DEF Notes
  <2>3. notes' \in Seq(Notes)
    BY <1>1, <2>2 DEF ConnectionTimeout, Note, WorkOK
  <2>4. faults' \in 0..MaxFaults
    BY <1>1, SessionsAssumption DEF ConnectionTimeout, WorkOK
  <2> QED BY <1>1, <2>1, <2>3, <2>4 DEF ConnectionTimeout, WorkOK, life, ThreadsOK
<1>2. ASSUME NEW s \in Slots, NEW c \in Ids, NEW event \in Events,
             AsyncMessage(s, c, event)
      PROVE  IInv'
  <2>1. Consistent(table')
    BY <1>2, AsyncMsgConsistent DEF AsyncMessage
  <2>2. [type |-> event, sid |-> s, cid |-> c] \in Notes
    BY DEF Notes
  <2>3. notes' \in Seq(Notes)
    BY <1>2, <2>2 DEF AsyncMessage, Note, WorkOK
  <2>4. faults' \in 0..MaxFaults
    BY <1>2, SessionsAssumption DEF AsyncMessage, WorkOK
  <2> QED BY <1>2, <2>1, <2>3, <2>4 DEF AsyncMessage, WorkOK, life, ThreadsOK
<1>3. CASE Death
  <2>1. faults' \in 0..MaxFaults
    BY <1>3, SessionsAssumption DEF Death, WorkOK
  <2> QED BY <1>3, <2>1, DieKeeps DEF Death
<1>4. CASE Restart
  BY <1>4 DEF Restart, WorkOK, work, bounds, ThreadsOK
<1> QED BY <1>1, <1>2, <1>3, <1>4 DEF Kernel

\* The invariant holds at the start.
LEMMA InitIInv ==
  ASSUME Init
  PROVE  IInv
<1>1. Resting \in Thread /\ Resting.at # "create"
  BY DEF Resting, Thread, Jobs, Steps
<1>2. ThreadsOK
  BY <1>1 DEF Init, ThreadsOK
<1>3. <<>> \in Seq(Notes) /\ 0 \in 0..MaxOps /\ 0 \in 0..MaxQueries
      /\ 0 \in 0..MaxFaults
  BY SessionsAssumption
<1>4. alive \in BOOLEAN /\ died \in BOOLEAN /\ panicked \in BOOLEAN
  BY Zenon DEF Init
<1>5. WorkOK
  BY <1>3, <1>4 DEF Init, WorkOK
<1> QED BY <1>2, <1>5, NoTableConsistent DEF Init, IInv

\* Every step keeps it.
LEMMA NextIInv ==
  ASSUME IInv, [Next]_vars
  PROVE  IInv'
<1>0. Main \in Threads /\ Discoverer \in Threads
  BY DEF Threads
<1>1. CASE MainStep
  BY <1>0, <1>1, CallKeeps, MainKeeps DEF MainStep
<1>2. CASE Command
  BY <1>2, CommandKeeps
<1>3. CASE Call(Discoverer)
  BY <1>0, <1>3, CallKeeps
<1>4. ASSUME NEW p \in QueryPortals, QueryPortal(p) PROVE IInv'
  <2>1. p \in Portals /\ Discovery \in Names
    BY SessionsAssumption, Numbers
  <2>2. ThreadsOK'
    BY <1>0, <1>4, <2>1, BeginOK DEF IInv, QueryPortal, Jobs, Steps
  <2>3. queries' \in 0..MaxQueries
    BY <1>4, SessionsAssumption DEF IInv, QueryPortal, WorkOK
  <2> QED BY <1>4, <2>2, <2>3 DEF IInv, QueryPortal, WorkOK, work, life
<1>5. CASE Kernel
  BY <1>5, KernelKeeps
<1>6. CASE UNCHANGED vars
  BY <1>6 DEF vars, work, life, bounds, IInv, ThreadsOK, WorkOK
<1> QED BY <1>1, <1>2, <1>3, <1>4, <1>5, <1>6 DEF Next

\* It holds in every reachable state.
LEMMA Inductive == Spec => []IInv
BY InitIInv, NextIInv, PTL DEF Spec

-----------------------------------------------------------------------------
(* The theorems. *)

\* Every variable keeps the type the code gives it.
THEOREM TypeCorrect == Spec => []TypeOK
<1>1. IInv => TypeOK
  BY DEF IInv, TypeOK, Consistent, ThreadsOK, WorkOK
<1> QED BY <1>1, Inductive, PTL

\* A name leads to a session of that name or to none: what a logout, a sleep or
\* a second login looks up is never another target's session, for any number
\* of slots, targets and threads' steps.
THEOREM NamesLeadHome == Spec => []NameLeadsToItsSession
<1>1. IInv => NameLeadsToItsSession
  BY DEF IInv, Consistent, Leads, NameLeadsToItsSession
<1> QED BY <1>1, Inductive, PTL

\* A session without a second of its name is found by its name.
THEOREM SessionsAreFound == Spec => []FoundUnlessSecond
<1>1. IInv => FoundUnlessSecond
  BY DEF IInv, Consistent, Found, FoundUnlessSecond
<1> QED BY <1>1, Inductive, PTL

-----------------------------------------------------------------------------
(* What each function of the table does to the connections in one state. *)

ConnIs(H, s, c, st) == s \in Live(H) /\ c \in Ids /\ H.list[s].conn[c].st = st

\* A released session has no connection, and nobody else gets one by it.
LEMMA ReleaseSessionDrops ==
  ASSUME NEW H \in Tables, NEW s, NEW t, NEW d, NEW st,
         ConnIs(ReleaseSession(H, s), t, d, st)
  PROVE  t # s /\ ConnIs(H, t, d, st)
<1>1. CASE s \notin Live(H)
  BY <1>1 DEF ReleaseSession, ConnIs
<1>2. CASE s \in Live(H)
  <2>1. ReleaseSession(H, s).list = [H.list EXCEPT ![s] = NoSession]
    BY <1>2 DEF ReleaseSession
  <2>2. s \in Slots /\ NoSession.iqn = None
    BY <1>2 DEF Live, NoSession
  <2> QED BY <2>1, <2>2 DEF ConnIs, Live, Tables
<1> QED BY <1>1, <1>2

\* One connection of a session is replaced.
LEMMA ConnReplaced ==
  ASSUME NEW H \in Tables, NEW s \in Slots, NEW c \in Ids, NEW k, NEW t, NEW d, NEW st,
         ConnIs([H EXCEPT !.list[s].conn[c] = k], t, d, st)
  PROVE  \/ t = s /\ d = c /\ k.st = st
         \/ ~(t = s /\ d = c) /\ ConnIs(H, t, d, st)
<1> DEFINE G == [H EXCEPT !.list[s].conn[c] = k]
<1>1. \A i \in Slots : H.list[i] \in Sessions
  BY DEF Tables
<1>2. \A i \in Slots : G.list[i].iqn = H.list[i].iqn
  BY <1>1 DEF Tables, Sessions
<1>3. t \in Slots /\ d \in Ids
  BY DEF ConnIs, Live
<1>4. G.list[t].conn[d] = IF t = s /\ d = c THEN k ELSE H.list[t].conn[d]
  BY <1>1, <1>3 DEF Tables, Sessions
<1> HIDE DEF G
<1>5. ConnIs(G, t, d, st)
  BY DEF G
<1> QED BY <1>2, <1>3, <1>4, <1>5 DEF ConnIs, Live

\* Changing the state of a connection changes nobody else's.
LEMMA StateReplaced ==
  ASSUME NEW H \in Tables, NEW s \in Slots, NEW c \in Ids, NEW x, NEW t, NEW d, NEW st,
         ConnIs([H EXCEPT !.list[s].conn[c].st = x], t, d, st)
  PROVE  \/ t = s /\ d = c /\ x = st
         \/ ~(t = s /\ d = c) /\ ConnIs(H, t, d, st)
<1> DEFINE k == [H.list[s].conn[c] EXCEPT !.st = x]
<1>1. H.list[s].conn[c] \in Conns
  BY DEF Tables, Sessions
<1>2. k.st = x
  BY <1>1 DEF Conns, NoConn
<1>3. [H EXCEPT !.list[s].conn[c].st = x] = [H EXCEPT !.list[s].conn[c] = k]
  BY DEF Tables
<1> HIDE DEF k
<1> QED BY <1>2, <1>3, ConnReplaced

\* A released connection is gone.
LEMMA ReleaseConnectionDrops ==
  ASSUME NEW H \in Tables, NEW s, NEW c, NEW t, NEW d, NEW st \in {"off", "lost"},
         ConnIs(ReleaseConnection(H, s, c), t, d, st)
  PROVE  ConnIs(H, t, d, st) /\ ~(t = s /\ d = c)
<1>1. CASE Exists(H, s, c)
  <2>1. s \in Slots /\ c \in Ids /\ NoConn.st = "none"
    BY <1>1 DEF Exists, Live, ConnsOf, NoConn
  <2> QED BY <1>1, <2>1, ConnReplaced DEF ReleaseConnection
<1>2. CASE ~Exists(H, s, c)
  <2>1. ConnIs(H, t, d, st)
    BY <1>2 DEF ReleaseConnection
  <2>2. t = s /\ d = c => Exists(H, s, c)
    BY <2>1 DEF ConnIs, Exists, ConnsOf
  <2> QED BY <1>2, <2>1, <2>2
<1> QED BY <1>1, <1>2

\* So it is if its session goes with it.
LEMMA ClientReleaseDrops ==
  ASSUME NEW H \in Tables, NEW s \in Slots, NEW c \in Ids, NEW t, NEW d,
         NEW st \in {"off", "lost"},
         ConnIs(ClientReleaseConnection(H, s, c), t, d, st)
  PROVE  ConnIs(H, t, d, st) /\ ~(t = s /\ d = c)
BY ReleaseSessionDrops, ReleaseConnectionDrops DEF ClientReleaseConnection

\* An activated connection is neither off nor lost.
LEMMA ActivateConnectionDrops ==
  ASSUME NEW H \in Tables, NEW s, NEW c, NEW x \in {"up", "idle"}, NEW t, NEW d,
         NEW st \in {"off", "lost"},
         ConnIs(ActivateConnection(H, s, c, x), t, d, st)
  PROVE  ConnIs(H, t, d, st) /\ ~(t = s /\ d = c)
<1>1. CASE Exists(H, s, c)
  <2>1. s \in Slots /\ c \in Ids
    BY <1>1 DEF Exists, Live, ConnsOf
  <2> QED BY <1>1, <2>1, StateReplaced DEF ActivateConnection
<1>2. CASE ~Exists(H, s, c)
  <2>1. ConnIs(H, t, d, st)
    BY <1>2 DEF ActivateConnection
  <2>2. t = s /\ d = c => Exists(H, s, c)
    BY <2>1 DEF ConnIs, Exists, ConnsOf
  <2> QED BY <1>2, <2>1, <2>2
<1> QED BY <1>1, <1>2

\* Deactivating one connection changes that one only.
LEMMA DeactivateConnectionLeaves ==
  ASSUME NEW H \in Tables, NEW s, NEW c \in Ids, NEW x, NEW t, NEW d, NEW st,
         ConnIs(DeactivateConnection(H, s, c, x), t, d, st)
  PROVE  ConnIs(H, t, d, st) \/ (t = s /\ d = c /\ st = x)
<1>1. s \in Live(H) => s \in Slots
  BY DEF Live
<1>2. CASE s \in Live(H) /\ H.list[s].conn[c].st = "up"
  <2>1. ConnIs([H EXCEPT !.list[s].conn[c].st = x], t, d, st)
    BY <1>2 DEF DeactivateConnection
  <2> QED BY <1>1, <1>2, <2>1, StateReplaced
<1>3. CASE ~(s \in Live(H) /\ H.list[s].conn[c].st = "up")
  BY <1>3 DEF DeactivateConnection
<1> QED BY <1>2, <1>3

\* Deactivating all changes those that are up.
LEMMA DeactivateAllLeaves ==
  ASSUME NEW H \in Tables, NEW s, NEW x, NEW t, NEW d, NEW st,
         ConnIs(DeactivateAllConnections(H, s, x), t, d, st)
  PROVE  ConnIs(H, t, d, st) \/ (t = s /\ st = x /\ ConnIs(H, s, d, "up"))
<1>1. CASE s \notin Live(H)
  BY <1>1 DEF DeactivateAllConnections
<1>2. CASE s \in Live(H)
  <2> DEFINE new == [c \in Ids |-> IF H.list[s].conn[c].st = "up"
                                  THEN [H.list[s].conn[c] EXCEPT !.st = x]
                                  ELSE H.list[s].conn[c]]
             G == [H EXCEPT !.list[s].conn = new]
  <2>1. s \in Slots /\ \A i \in Slots : H.list[i] \in Sessions
    BY <1>2 DEF Live, Tables
  <2>2. DeactivateAllConnections(H, s, x) = G
    BY <1>2, <2>1 DEF Tables, DeactivateAllConnections
  <2>3. t \in Slots /\ d \in Ids /\ ConnIs(G, t, d, st)
    BY <2>2 DEF ConnIs, Live
  <2>4. G.list[t].iqn = H.list[t].iqn
    BY <2>1, <2>3 DEF Tables, Sessions
  <2>5. G.list[t].conn[d] = IF t = s THEN new[d] ELSE H.list[t].conn[d]
    BY <2>1, <2>3 DEF Tables, Sessions
  <2>6. H.list[s].conn[d] \in Conns
    BY <2>1, <2>3 DEF Sessions
  <2>7. new[d].st = IF H.list[s].conn[d].st = "up" THEN x ELSE H.list[s].conn[d].st
    BY <2>3, <2>6 DEF Conns, NoConn
  <2> HIDE DEF new, G
  <2> QED BY <1>2, <2>3, <2>4, <2>5, <2>7 DEF ConnIs, Live
<1> QED BY <1>1, <1>2

\* The time-out of a connection loses that connection only: with it alone in its
\* session there is no other to deactivate.
LEMMA TimeOutLeaves ==
  ASSUME NEW H \in Tables, NEW s, NEW c \in ConnsOf(H, s), NEW t, NEW d,
         NEW st \in {"off", "lost"}, ConnIs(TimeOut(H, s, c), t, d, st)
  PROVE  ConnIs(H, t, d, st) \/ (t = s /\ d = c /\ st = "lost")
<1>0. c \in Ids
  BY DEF ConnsOf
<1>1. CASE Cardinality(ConnsOf(H, s)) > 1
  BY <1>0, <1>1, DeactivateConnectionLeaves DEF TimeOut
<1>2. CASE ~(Cardinality(ConnsOf(H, s)) > 1)
  <2>1. ConnIs(H, t, d, st) \/ (t = s /\ st = "lost" /\ ConnIs(H, s, d, "up"))
    BY <1>2, DeactivateAllLeaves DEF TimeOut
  <2>2. ASSUME ConnIs(H, s, d, "up"), d # c PROVE FALSE
    <3>1. IsFiniteSet(Ids)
      BY FS_Interval, SessionTableAssumption DEF Ids
    <3>2. IsFiniteSet(ConnsOf(H, s)) /\ {c, d} \subseteq ConnsOf(H, s)
      BY <2>2, <3>1, FS_Subset DEF ConnsOf, ConnIs
    <3>3. Cardinality({c, d}) = 2
      <4>1. IsFiniteSet({c}) /\ Cardinality({c}) = 1
        BY FS_Singleton
      <4>2. Cardinality({c} \cup {d}) = 2
        BY <2>2, <4>1, FS_AddElement
      <4>3. {c, d} = {c} \cup {d}
        OBVIOUS
      <4> QED BY <4>2, <4>3
    <3>4. Cardinality({c, d}) <= Cardinality(ConnsOf(H, s))
      BY <3>2, FS_Subset
    <3>5. Cardinality(ConnsOf(H, s)) \in Nat
      BY <3>2, FS_CardinalityType
    <3> QED BY <1>2, <3>3, <3>4, <3>5
  <2> QED BY <2>1, <2>2
<1> QED BY <1>1, <1>2

\* An asynchronous message leaves no connection off or lost that was not.
LEMMA AsyncMsgLeaves ==
  ASSUME NEW H \in Tables, NEW s, NEW c \in Ids, NEW event \in Events, NEW t, NEW d,
         NEW st \in {"off", "lost"}, ConnIs(AsyncMsg(H, s, c, event), t, d, st)
  PROVE  ConnIs(H, t, d, st)
<1>1. CASE event = "dropAll"
  BY <1>1, ReleaseSessionDrops DEF AsyncMsg
<1>2. CASE event = "drop"
  BY <1>2, ReleaseConnectionDrops DEF AsyncMsg
<1>3. CASE event \notin {"dropAll", "drop"}
  BY <1>3, DeactivateConnectionLeaves DEF AsyncMsg
<1> QED BY <1>1, <1>2, <1>3

\* A connection that is added is off, and in a slot that was free.
LEMMA CreateConnectionAdds ==
  ASSUME NEW H \in Tables, NEW s \in Slots, FreeConns(H, s) # {}, NEW p, NEW t, NEW d,
         NEW st, ConnIs(CreateConnection(H, s, p), t, d, st)
  PROVE  \/ ConnIs(H, t, d, st)
         \/ t = s /\ d = Lowest(FreeConns(H, s)) /\ st = "off"
<1>1. Lowest(FreeConns(H, s)) \in Ids
  BY LowestFreeConn
<1> DEFINE k == [st |-> "off", portal |-> p]
<1>2. k.st = "off"
  OBVIOUS
<1>3. ConnIs([H EXCEPT !.list[s].conn[Lowest(FreeConns(H, s))] = k], t, d, st)
  BY DEF CreateConnection
<1> HIDE DEF k
<1> QED BY <1>1, <1>2, <1>3, ConnReplaced

\* A parameter is not about connections.
LEMMA SetParameterLeaves ==
  ASSUME NEW H \in Tables, NEW s, NEW m, NEW t, NEW d, NEW st,
         ConnIs(SetSessionParameter(H, s, m), t, d, st)
  PROVE  ConnIs(H, t, d, st)
<1>1. CASE s \notin Live(H)
  BY <1>1 DEF SetSessionParameter
<1>2. CASE s \in Live(H)
  <2> DEFINE G == [H EXCEPT !.list[s].max = m]
  <2>1. s \in Slots /\ \A i \in Slots : H.list[i] \in Sessions
    BY <1>2 DEF Live, Tables
  <2>2. \A i \in Slots : G.list[i].iqn = H.list[i].iqn /\ G.list[i].conn = H.list[i].conn
    BY <2>1 DEF Tables, Sessions
  <2>3. ConnIs(G, t, d, st)
    BY <1>2 DEF SetSessionParameter
  <2> HIDE DEF G
  <2> QED BY <2>2, <2>3 DEF ConnIs, Live
<1> QED BY <1>1, <1>2

\* A session is made with one connection, which is off.
LEMMA CreateSessionAdds ==
  ASSUME NEW H \in Tables, Free(H) # {}, NEW n \in Names, NEW p \in Portals, NEW t, NEW d,
         NEW st \in {"off", "lost"}, ConnIs(CreateSession(H, n, p), t, d, st)
  PROVE  ConnIs(H, t, d, st) \/ (t = Lowest(Free(H)) /\ d = 0 /\ st = "off")
<1> DEFINE s == Lowest(Free(H))
           new == [NoSession EXCEPT !.iqn = n,
                                    !.conn[0] = [st |-> "off", portal |-> p]]
           marked(i) == [H.list[i] EXCEPT !.second = @ \/ H.list[i].iqn = n]
<1>1. CreateSession(H, n, p).list = [i \in Slots |-> IF i = s THEN new ELSE marked(i)]
  BY DEF CreateSession
<1>2. \A i \in Slots : marked(i).iqn = H.list[i].iqn /\ marked(i).conn = H.list[i].conn
  BY DEF Tables, Sessions
<1>3. \A c \in Ids : new.conn[c].st = IF c = 0 THEN "off" ELSE "none"
  BY DEF NoSession, NoConn
<1> HIDE DEF new, marked, s
<1>4. t \in Slots /\ d \in Ids
  BY DEF ConnIs, Live
<1>5. CASE t = s
  BY <1>1, <1>3, <1>4, <1>5 DEF ConnIs, s
<1>6. CASE t # s
  BY <1>1, <1>2, <1>4, <1>6 DEF ConnIs, Live
<1> QED BY <1>5, <1>6

\* A session that is not made leaves the connections alone.
LEMMA CreateSessionFailsLeaves ==
  ASSUME NEW H \in Tables, NEW n, NEW t, NEW d, NEW st,
         ConnIs(CreateSessionFails(H, n), t, d, st)
  PROVE  ConnIs(H, t, d, st)
<1> DEFINE marked(i) == [H.list[i] EXCEPT !.second = @ \/ H.list[i].iqn = n]
<1>1. CreateSessionFails(H, n).list = [i \in Slots |-> marked(i)]
  BY DEF CreateSessionFails
<1>2. \A i \in Slots : marked(i).iqn = H.list[i].iqn /\ marked(i).conn = H.list[i].conn
  BY DEF Tables, Sessions
<1> HIDE DEF marked
<1> QED BY <1>1, <1>2 DEF ConnIs, Live

-----------------------------------------------------------------------------
(***************************************************************************)
(* Nothing is forgotten.  A connection that is off is the business of a    *)
(* thread that holds its session: the discovery thread, which always ends  *)
(* by releasing the session; the main thread, which activates or releases  *)
(* the very connection it holds, unless it is logging out and has taken    *)
(* all of them down.  A connection that is lost has a notification of its  *)
(* own on the way.                                                         *)
(***************************************************************************)
KeptBy(w, x, s, c) ==
    /\ x.job # "none" /\ x.sid = s
    /\ w = Discoverer \/ x.at \in {"bye", "drop"} \/ x.cid = c
Noted(s, c) ==
    \E i \in DOMAIN notes : notes[i] = [type |-> "timeout", sid |-> s, cid |-> c]

\* A thread at rest has no job, one about to make a session has no identifiers,
\* and the discovery thread never activates what it made.
Fit(w, x) ==
    /\ x.job = "none" <=> x.at = "none"
    /\ x.at = "create" => x.sid = NoId
    /\ w = Discoverer => x.at = "none" \/ x.name = Discovery

Kept ==
    /\ \A w \in Threads : Fit(w, th[w])
    /\ alive \/ died
    /\ died \/ \A s \in Slots, c \in Ids :
           /\ ConnIs(table, s, c, "off") => \E w \in Threads : KeptBy(w, th[w], s, c)
           /\ ConnIs(table, s, c, "lost") => Noted(s, c)

\* Steps of one thread: what is off afterwards is kept by it, or was off before
\* and not kept by it.
LEMMA ThreadKeeps ==
  ASSUME ThreadsOK, Kept, NEW w \in Threads, NEW x, Fit(w, x),
         th' = [th EXCEPT ![w] = x], UNCHANGED <<notes, alive, died>>,
         \A s \in Slots, c \in Ids : ConnIs(table', s, c, "off") =>
             \/ KeptBy(w, x, s, c)
             \/ ConnIs(table, s, c, "off") /\ ~KeptBy(w, th[w], s, c),
         \A s \in Slots, c \in Ids :
             ConnIs(table', s, c, "lost") => ConnIs(table, s, c, "lost")
  PROVE  Kept'
<1>1. \A v \in Threads : th'[v] = IF v = w THEN x ELSE th[v]
  BY DEF ThreadsOK
<1>2. \A v \in Threads : Fit(v, th'[v])
  BY <1>1 DEF Kept
<1>3. ASSUME ~died', NEW s \in Slots, NEW c \in Ids, ConnIs(table', s, c, "off")
      PROVE  \E v \in Threads : KeptBy(v, th'[v], s, c)
  BY <1>1, <1>3 DEF Kept
<1>4. ASSUME ~died', NEW s \in Slots, NEW c \in Ids, ConnIs(table', s, c, "lost")
      PROVE  Noted(s, c)'
  BY <1>4 DEF Kept, Noted
<1>5. alive' \/ died'
  BY DEF Kept
<1> HIDE DEF Fit, KeptBy, ConnIs
<1> QED BY <1>2, <1>3, <1>4, <1>5 DEF Kept

\* A thread that goes on with the session it has and leaves the table alone.
LEMMA GoesOn ==
  ASSUME Consistent(table), ThreadsOK, Kept, NEW w \in Threads, NEW x,
         x.job = th[w].job, x.sid = th[w].sid, x.name = th[w].name,
         x.at \in Steps \ {"none", "create"}, th[w].at # "none",
         \/ th[w].at \notin {"bye", "drop"} /\ x.cid = th[w].cid
         \/ x.at \in {"bye", "drop"},
         th' = [th EXCEPT ![w] = x], UNCHANGED <<notes, alive, died>>,
         \A s \in Slots, c \in Ids, st \in {"off", "lost"} :
             ConnIs(table', s, c, st) => ConnIs(table, s, c, st)
  PROVE  Kept'
<1>1. Fit(w, x)
  BY DEF Fit, Kept
<1>2. \A s \in Slots, c \in Ids : KeptBy(w, th[w], s, c) => KeptBy(w, x, s, c)
  BY DEF KeptBy
<1>3. \A s \in Slots, c \in Ids : ConnIs(table', s, c, "off") =>
          \/ KeptBy(w, x, s, c)
          \/ ConnIs(table, s, c, "off") /\ ~KeptBy(w, th[w], s, c)
  BY <1>2
<1>4. \A s \in Slots, c \in Ids :
          ConnIs(table', s, c, "lost") => ConnIs(table, s, c, "lost")
  OBVIOUS
<1> HIDE DEF Kept
<1> QED BY <1>1, <1>3, <1>4, ThreadKeeps

\* A thread that comes to rest leaves nothing it kept.
LEMMA ComesToRest ==
  ASSUME ThreadsOK, Kept, NEW w \in Threads, Rest(w), UNCHANGED <<notes, alive, died>>,
         \A s \in Slots, c \in Ids, st \in {"off", "lost"} : ConnIs(table', s, c, st) =>
             ConnIs(table, s, c, st) /\ ~KeptBy(w, th[w], s, c)
  PROVE  Kept'
<1>1. Fit(w, Resting)
  BY DEF Fit, Resting
<1>2. th' = [th EXCEPT ![w] = Resting]
  BY DEF Rest
<1> QED BY <1>1, <1>2, ThreadKeeps

\* A thread at rest begins a job with the session s or none.
LEMMA BeginsWith ==
  ASSUME ThreadsOK, Kept, NEW w \in Threads, th[w].at = "none",
         NEW job \in Jobs \ {"none"}, NEW step \in Steps \ {"none"}, NEW n, NEW p,
         NEW s, NEW c, Begin(w, job, step, n, p, s, c),
         step = "create" => s = NoId, w = Discoverer => n = Discovery,
         UNCHANGED <<notes, alive, died>>,
         \A t \in Slots, d \in Ids, st \in {"off", "lost"} : ConnIs(table', t, d, st) =>
             ConnIs(table, t, d, st) \/ (t = s /\ d = c /\ st = "off")
  PROVE  Kept'
<1> DEFINE x == [Resting EXCEPT !.job = job, !.at = step, !.name = n,
                                !.portal = p, !.sid = s, !.cid = c]
<1>1. x.job = job /\ x.at = step /\ x.name = n /\ x.sid = s /\ x.cid = c
  BY DEF Resting
<1>2. th' = [th EXCEPT ![w] = x]
  BY DEF Begin
<1> HIDE DEF x
<1>3. Fit(w, x)
  BY <1>1 DEF Fit
<1>4. th[w].job = "none"
  BY DEF Kept, Fit
<1>5. \A t \in Slots, d \in Ids : ConnIs(table', t, d, "off") =>
          \/ KeptBy(w, x, t, d)
          \/ ConnIs(table, t, d, "off") /\ ~KeptBy(w, th[w], t, d)
  BY <1>1, <1>4 DEF KeptBy
<1> QED BY <1>2, <1>3, <1>5, ThreadKeeps

\* The calls a thread makes once it has begun.
LEMMA CallForgetsNothing ==
  ASSUME IInv, Kept, NEW w \in Threads, Call(w)
  PROVE  Kept'
<1>0. Consistent(table) /\ ThreadsOK /\ table \in Tables /\ th[w] \in Thread
  BY DEF IInv, Consistent, ThreadsOK
<1>1. Fit(w, th[w])
  BY DEF Kept
<1> DEFINE old == th[w]
           Same == \A s \in Slots, c \in Ids, st \in {"off", "lost"} :
                       ConnIs(table', s, c, st) => ConnIs(table, s, c, st)
           Known == old.job # "none" /\ old.at \notin {"none", "create"}
           Asks(step) == Ask(w, TRUE, step) \/ AskFails(w, step)
           Dropped == \A s \in Slots, c \in Ids, st \in {"off", "lost"} :
                          ConnIs(table', s, c, st) =>
                              ConnIs(table, s, c, st) /\ ~KeptBy(w, old, s, c)
<1>2. ASSUME NEW step \in Steps \ {"none", "create"}, Asks(step), Same,
             old.at \notin {"none", "bye", "drop"}, UNCHANGED <<notes, alive, died>>
      PROVE  Kept'
  <2> DEFINE x == [old EXCEPT !.data = TRUE, !.at = step, !.err = FALSE]
             y == [old EXCEPT !.at = step, !.err = TRUE]
  <2>1. /\ x.job = old.job /\ x.sid = old.sid /\ x.name = old.name /\ x.cid = old.cid
        /\ y.job = old.job /\ y.sid = old.sid /\ y.name = old.name /\ y.cid = old.cid
        /\ x.at = step /\ y.at = step
    BY <1>0 DEF Thread
  <2>2. th' = [th EXCEPT ![w] = x] \/ th' = [th EXCEPT ![w] = y]
    BY <1>0, <1>2 DEF ThreadsOK, Ask, AskFails
  <2> HIDE DEF x, y
  <2>3. CASE th' = [th EXCEPT ![w] = x]
    BY <1>0, <1>2, <2>1, <2>3, GoesOn
  <2>4. CASE th' = [th EXCEPT ![w] = y]
    BY <1>0, <1>2, <2>1, <2>4, GoesOn
  <2> QED BY <2>2, <2>3, <2>4
<1>3. ASSUME NEW step \in Steps \ {"none", "create"}, Step(w, step),
             old.at \notin {"none", "bye", "drop"}, Same, UNCHANGED <<notes, alive, died>>
      PROVE  Kept'
  <2> DEFINE x == [old EXCEPT !.at = step]
  <2>1. /\ x.job = old.job /\ x.sid = old.sid /\ x.name = old.name /\ x.cid = old.cid
        /\ x.at = step
    BY <1>0 DEF Thread
  <2>2. th' = [th EXCEPT ![w] = x]
    BY <1>0, <1>3 DEF ThreadsOK, Step
  <2> HIDE DEF x
  <2> QED BY <1>0, <1>3, <2>1, <2>2, GoesOn
<1>4. ASSUME table' = InterfaceReleaseSession(old.sid) PROVE Dropped
  <2> SUFFICES ASSUME NEW s \in Slots, NEW c \in Ids, NEW st \in {"off", "lost"},
                      ConnIs(table', s, c, st)
               PROVE  ConnIs(table, s, c, st) /\ old.sid # s
    BY DEF KeptBy
  <2>1. CASE old.sid = NoId
    BY <1>0, <1>4, <2>1, Numbers DEF InterfaceReleaseSession
  <2>2. CASE old.sid # NoId
    BY <1>0, <1>4, <2>2, ReleaseSessionDrops DEF InterfaceReleaseSession
  <2> QED BY <2>1, <2>2
<1> HIDE DEF Asks
<1>5. CASE RecvData(w)
  <2> DEFINE x == [old EXCEPT !.data = FALSE]
  <2>1. /\ x.job = old.job /\ x.sid = old.sid /\ x.name = old.name /\ x.cid = old.cid
        /\ x.at = old.at
    BY <1>0 DEF Thread
  <2>2. th' = [th EXCEPT ![w] = x]
    BY <1>0, <1>5 DEF ThreadsOK, RecvData
  <2>3. UNCHANGED <<table, notes, alive, died>>
    BY <1>5 DEF RecvData, work
  <2> HIDE DEF x
  <2>4. Fit(w, x)
    BY <1>1, <2>1 DEF Fit
  <2>5. \A s \in Slots, c \in Ids : KeptBy(w, x, s, c) <=> KeptBy(w, old, s, c)
    BY <2>1 DEF KeptBy
  <2> QED BY <1>0, <2>2, <2>3, <2>4, <2>5, ThreadKeeps
<1>6. CASE NewSession(w)
  <2>1. /\ old.at = "create" /\ old.sid = NoId /\ old.job # "none"
        /\ old.name \in Names /\ old.portal \in Portals
        /\ UNCHANGED <<notes, alive, died>>
    BY <1>0, <1>1, <1>6 DEF NewSession, At, Fit, ThreadsOK, work, life
  <2>2. \A s \in Slots, c \in Ids : ~KeptBy(w, old, s, c)
    BY <2>1, Numbers DEF KeptBy
  <2>3. CASE /\ Free(table) # {}
             /\ table' = CreateSession(table, old.name, old.portal)
             /\ th' = [th EXCEPT ![w].sid = Lowest(Free(table)), ![w].cid = 0,
                                 ![w].at = "auth"]
    <3> DEFINE x == [old EXCEPT !.sid = Lowest(Free(table)), !.cid = 0, !.at = "auth"]
    <3>1. /\ x.job = old.job /\ x.name = old.name /\ x.at = "auth" /\ x.cid = 0
          /\ x.sid = Lowest(Free(table))
      BY <1>0 DEF Thread
    <3>2. th' = [th EXCEPT ![w] = x]
      BY <1>0, <2>3 DEF ThreadsOK
    <3> HIDE DEF x
    <3>3. Fit(w, x)
      BY <1>1, <2>1, <3>1 DEF Fit
    <3>4. \A s \in Slots, c \in Ids, st \in {"off", "lost"} : ConnIs(table', s, c, st) =>
              \/ ConnIs(table, s, c, st)
              \/ s = Lowest(Free(table)) /\ c = 0 /\ st = "off"
      BY <1>0, <2>1, <2>3, CreateSessionAdds
    <3>5. \A s \in Slots, c \in Ids : ConnIs(table', s, c, "off") =>
              KeptBy(w, x, s, c) \/ (ConnIs(table, s, c, "off") /\ ~KeptBy(w, old, s, c))
      BY <2>1, <2>2, <3>1, <3>4 DEF KeptBy
    <3> QED BY <1>0, <2>1, <3>2, <3>3, <3>4, <3>5, ThreadKeeps
  <2>4. CASE /\ table' = IF Free(table) = {} THEN table
                         ELSE CreateSessionFails(table, old.name)
             /\ Rest(w) \/ Step(w, "release")
    <3>1. Same
      BY <1>0, <2>4, CreateSessionFailsLeaves
    <3>2. CASE Rest(w)
      BY <1>0, <2>1, <2>2, <3>1, <3>2, ComesToRest
    <3>3. CASE Step(w, "release")
      BY <1>3, <2>1, <3>1, <3>3 DEF Steps
    <3> QED BY <2>4, <3>2, <3>3
  <2> QED BY <1>6, <2>3, <2>4 DEF NewSession
<1>7. CASE Authenticate(w)
  <2>1. old.at = "auth" /\ UNCHANGED <<table, notes, alive, died>>
    BY <1>7 DEF Authenticate, At, work, life
  <2>2. Asks("release") \/ Asks("negotiate")
    BY <1>7 DEF Authenticate, Asks
  <2> QED BY <1>2, <2>1, <2>2 DEF Steps
<1>8. CASE NegotiateSession(w)
  <2>1. old.at = "negotiate" /\ UNCHANGED <<notes, alive, died>>
    BY <1>8 DEF NegotiateSession, At, work, life
  <2>2. Asks("release") \/ Asks("activate")
    BY <1>8 DEF NegotiateSession, Asks
  <2>3. Same
    BY <1>0, <1>8, SetParameterLeaves, ZenonT(30) DEF NegotiateSession
  <2> QED BY <1>2, <2>1, <2>2, <2>3 DEF Steps
<1>9. CASE Activate(w)
  <2>1. old.at = "activate" /\ UNCHANGED <<notes, alive, died>>
    BY <1>9 DEF Activate, At, work, life
  <2>2. CASE old.name = Discovery
    <3>1. Step(w, "text") /\ UNCHANGED table
      BY <1>9, <2>2 DEF Activate
    <3> QED BY <1>3, <2>1, <3>1 DEF Steps
  <2>3. CASE old.name # Discovery
    <3>1. w # Discoverer
      BY <1>1, <2>1, <2>3 DEF Fit
    <3>2. PICK x \in {"up", "idle"} :
              table' = InterfaceActivateConnection(old.sid, old.cid, x)
      BY <1>9, <2>3 DEF Activate
    <3>3. ASSUME NEW s \in Slots, NEW c \in Ids, NEW st \in {"off", "lost"},
                 ConnIs(table', s, c, st)
          PROVE  ConnIs(table, s, c, st) /\ ~(s = old.sid /\ c = old.cid)
      <4>1. CASE old.sid = NoId \/ old.cid = NoId
        BY <3>2, <3>3, <4>1, Numbers DEF InterfaceActivateConnection
      <4>2. CASE ~(old.sid = NoId \/ old.cid = NoId)
        BY <1>0, <3>2, <3>3, <4>2, ActivateConnectionDrops
           DEF InterfaceActivateConnection
      <4> QED BY <4>1, <4>2
    <3>4. Dropped
      BY <2>1, <3>1, <3>3 DEF KeptBy
    <3>5. Rest(w)
      BY <1>9, <2>3 DEF Activate
    <3> QED BY <1>0, <2>1, <3>4, <3>5, ComesToRest
  <2> QED BY <2>2, <2>3
<1>10. CASE Release(w)
  <2>1. old.at = "release" /\ Dropped /\ UNCHANGED <<notes, alive, died>>
    BY <1>4, <1>10 DEF Release, At, work, life
  <2>2. CASE Rest(w)
    BY <1>0, <2>1, <2>2, ComesToRest
  <2>3. CASE Step(w, "text")
    BY <1>3, <2>1, <2>3 DEF Steps
  <2> QED BY <1>10, <2>2, <2>3 DEF Release, Released
<1>11. CASE SendTargets(w)
  <2>1. old.at = "text" /\ UNCHANGED <<table, notes, alive, died>>
    BY <1>11 DEF SendTargets, At, work, life
  <2>2. Asks("deactivate")
    BY <1>11 DEF SendTargets, Asks
  <2> QED BY <1>2, <2>1, <2>2 DEF Steps
<1>12. CASE Deactivate(w)
  <2> DEFINE x == [old EXCEPT !.at = "bye"]
  <2>1. /\ x.job = old.job /\ x.sid = old.sid /\ x.name = old.name /\ x.at = "bye"
    BY <1>0 DEF Thread
  <2>2. th' = [th EXCEPT ![w] = x]
    BY <1>0, <1>12 DEF ThreadsOK, Deactivate, Step
  <2>3. old.at = "deactivate" /\ UNCHANGED <<notes, alive, died>>
    BY <1>12 DEF Deactivate, At, work, life
  <2>4. \A s \in Slots, c \in Ids, st \in {"off", "lost"} : ConnIs(table', s, c, st) =>
            ConnIs(table, s, c, st) \/ (s = old.sid /\ st = "off")
    <3>1. table' = table \/ table' = DeactivateAllConnections(table, old.sid, "off")
      BY <1>12 DEF Deactivate, InterfaceDeactivateAllConnections
    <3> QED BY <1>0, <3>1, DeactivateAllLeaves
  <2> HIDE DEF x
  <2>5. Fit(w, x) /\ old.job # "none"
    BY <1>1, <2>1, <2>3 DEF Fit
  <2>6. \A s \in Slots, c \in Ids :
            /\ s = old.sid => KeptBy(w, x, s, c)
            /\ s # old.sid => ~KeptBy(w, old, s, c)
    BY <2>1, <2>5 DEF KeptBy
  <2>7. \A s \in Slots, c \in Ids : ConnIs(table', s, c, "off") =>
            KeptBy(w, x, s, c) \/ (ConnIs(table, s, c, "off") /\ ~KeptBy(w, old, s, c))
    BY <2>4, <2>6
  <2>8. \A s \in Slots, c \in Ids :
            ConnIs(table', s, c, "lost") => ConnIs(table, s, c, "lost")
    BY <2>4
  <2> QED BY <1>0, <2>2, <2>3, <2>5, <2>7, <2>8, ThreadKeeps
<1>13. CASE LogoutCommon(w)
  <2> DEFINE x == [old EXCEPT !.cid = GetConnection(table, old.sid), !.at = "drop"]
  <2>1. x.job = old.job /\ x.sid = old.sid /\ x.name = old.name /\ x.at = "drop"
    BY <1>0 DEF Thread
  <2>2. th' = [th EXCEPT ![w] = x]
    BY <1>0, <1>13 DEF LogoutCommon, ThreadsOK
  <2>3. old.at = "bye" /\ UNCHANGED <<table, notes, alive, died>>
    BY <1>13 DEF LogoutCommon, At, work, life
  <2> HIDE DEF x
  <2> QED BY <1>0, <2>1, <2>2, <2>3, GoesOn DEF Steps
<1>14. CASE DropSession(w)
  <2>1. Dropped /\ Rest(w) /\ UNCHANGED <<notes, alive, died>>
    BY <1>4, <1>14 DEF DropSession, work, life
  <2> QED BY <1>0, <2>1, ComesToRest
<1> QED BY <1>5, <1>6, <1>7, <1>8, <1>9, <1>10, <1>11, <1>12, <1>13, <1>14 DEF Call

\* A login takes charge of the connection it will make.
LEMMA LoginForgetsNothing ==
  ASSUME IInv, Kept, th[Main].at = "none", NEW n \in Names, NEW p \in Portals,
         LoginWithPortal(n, p), UNCHANGED <<notes, alive, died>>
  PROVE  Kept'
<1> DEFINE s == GetSessionIdForTargetIQN(table, n)
<1>0. /\ Consistent(table) /\ ThreadsOK /\ table \in Tables
      /\ s \in Slots \cup {NoId} /\ Main \in Threads /\ Main # Discoverer
  BY DEF IInv, Consistent, Tables, GetSessionIdForTargetIQN, Threads, Main, Discoverer
<1>1. CASE UNCHANGED <<th, table>>
  BY <1>1 DEF Kept, Noted
<1>2. CASE Begin(Main, "login", "create", n, p, NoId, NoId) /\ UNCHANGED table
  BY <1>0, <1>2, BeginsWith DEF Jobs, Steps
<1>3. CASE /\ s # NoId /\ FreeConns(table, s) # {}
           /\ table' = CreateConnection(table, s, p)
           /\ Begin(Main, "add", "undo", n, p, s, Lowest(FreeConns(table, s)))
  <2> HIDE DEF s
  <2>1. \A t \in Slots, d \in Ids, st \in {"off", "lost"} : ConnIs(table', t, d, st) =>
            \/ ConnIs(table, t, d, st)
            \/ t = s /\ d = Lowest(FreeConns(table, s)) /\ st = "off"
    BY <1>0, <1>3, CreateConnectionAdds
  <2>2. "add" \in Jobs \ {"none"} /\ "undo" \in Steps \ {"none"}
    BY DEF Jobs, Steps
  <2> QED BY <1>0, <1>3, <2>1, <2>2, BeginsWith
<1> QED BY <1>1, <1>2, <1>3 DEF LoginWithPortal

\* A job of the main thread begins and the table is left alone.
LEMMA JobForgetsNothing ==
  ASSUME IInv, Kept, NEW w \in Threads, th[w].at = "none",
         NEW job \in Jobs \ {"none"}, NEW step \in Steps \ {"none"}, NEW n, NEW p,
         NEW s, Begin(w, job, step, n, p, s, NoId),
         step = "create" => s = NoId, w = Discoverer => n = Discovery,
         UNCHANGED <<table, notes, alive, died>>
  PROVE  Kept'
BY BeginsWith DEF IInv

\* Whatever leaves the threads, the notifications and the two states alone.
LEMMA TableForgetsNothing ==
  ASSUME Kept, UNCHANGED <<th, alive, died>>,
         \A s \in Slots, c \in Ids : Noted(s, c) => Noted(s, c)' \/ ~ConnIs(table', s, c, "lost"),
         \A s \in Slots, c \in Ids, st \in {"off", "lost"} : ConnIs(table', s, c, st) =>
             ConnIs(table, s, c, st) \/ (st = "lost" /\ Noted(s, c)')
  PROVE  Kept'
<1>1. \A w \in Threads : Fit(w, th'[w])
  BY DEF Kept
<1>2. alive' \/ died'
  BY DEF Kept
<1>3. ASSUME ~died', NEW s \in Slots, NEW c \in Ids, ConnIs(table', s, c, "off")
      PROVE  \E w \in Threads : KeptBy(w, th'[w], s, c)
  BY <1>3 DEF Kept
<1>4. ASSUME ~died', NEW s \in Slots, NEW c \in Ids, ConnIs(table', s, c, "lost")
      PROVE  Noted(s, c)'
  BY <1>4 DEF Kept
<1> HIDE DEF Fit, KeptBy, ConnIs, Noted
<1> QED BY <1>1, <1>2, <1>3, <1>4 DEF Kept

\* A death is the exception the property names.
LEMMA DieForgetsNothing ==
  ASSUME Die
  PROVE  Kept'
<1>1. died' /\ th' = [w \in Threads |-> Resting]
  BY DEF Die
<1>2. \A w \in Threads : Fit(w, th'[w])
  BY <1>1 DEF Fit, Resting
<1> QED BY <1>1, <1>2 DEF Kept

\* The steps of the main thread that are not part of a job.
LEMMA MainForgetsNothing ==
  ASSUME IInv, Kept, AddConnection \/ Restore \/ Notification
  PROVE  Kept'
<1>0. /\ Consistent(table) /\ ThreadsOK /\ table \in Tables /\ WorkOK
      /\ Main \in Threads /\ Main # Discoverer
  BY DEF IInv, Consistent, Threads, Main, Discoverer
<1>1. CASE AddConnection
  <2> DEFINE old == th[Main]
  <2>1. /\ old.at = "undo" /\ Rest(Main) /\ UNCHANGED <<notes, alive, died>>
        /\ old.sid \in Slots \cup {NoId} /\ old.cid \in Ids \cup {NoId}
    BY <1>0, <1>1 DEF AddConnection, At, work, life, ThreadsOK, Thread
  <2>2. ASSUME NEW s \in Slots, NEW c \in Ids, NEW st \in {"off", "lost"},
               ConnIs(table', s, c, st)
        PROVE  ConnIs(table, s, c, st) /\ ~(s = old.sid /\ c = old.cid)
    <3>1. CASE old.sid = NoId \/ old.cid = NoId
      BY <1>1, <2>2, <3>1, Numbers DEF AddConnection, InterfaceReleaseConnection
    <3>2. CASE ~(old.sid = NoId \/ old.cid = NoId)
      BY <1>0, <1>1, <2>1, <2>2, <3>2, ClientReleaseDrops
         DEF AddConnection, InterfaceReleaseConnection
    <3> QED BY <3>1, <3>2
  <2>3. \A s \in Slots, c \in Ids, st \in {"off", "lost"} : ConnIs(table', s, c, st) =>
            ConnIs(table, s, c, st) /\ ~KeptBy(Main, old, s, c)
    BY <1>0, <2>1, <2>2 DEF KeptBy
  <2> QED BY <1>0, <2>1, <2>3, ComesToRest
<1>2. CASE Restore
  <2>1. PICK x \in todo :
           \/ Die
           \/ /\ LoginWithPortal(x[1], x[2])
              /\ UNCHANGED <<notes, alive, died>>
    BY <1>2 DEF Restore, life
  <2>2. x[1] \in Names /\ x[2] \in Portals /\ th[Main].at = "none"
    BY <1>0, <1>2 DEF WorkOK, Restore, At
  <2> QED BY <2>1, <2>2, DieForgetsNothing, LoginForgetsNothing
<1>3. CASE Notification
  <2> DEFINE m == Head(notes)
  <2>1. /\ notes # <<>> /\ notes \in Seq(Notes) /\ notes' = Tail(notes)
        /\ UNCHANGED <<th, alive, died>>
    BY <1>0, <1>3 DEF Notification, WorkOK, life
  <2>2. m \in Notes /\ m = notes[1]
    BY <2>1
  <2>3. m.sid \in Slots /\ m.cid \in Ids
    BY <2>2 DEF Notes
  <2>4. /\ m.type = "timeout" => table' = ClientReleaseConnection(table, m.sid, m.cid)
        /\ m.type # "timeout" => table' = table
    <3>1. GetNumConnections(table, m.sid).error
      BY DEF GetNumConnections
    <3>2. m.sid # NoId /\ m.cid # NoId
      BY <2>3, Numbers
    <3>3. table' = CASE m.type = "timeout" -> TimeoutMessage(m.sid, m.cid)
                     [] m.type \in {"logout", "negotiate"} -> RemoveConnection(m.sid, m.cid)
                     [] OTHER -> table
      BY <1>3 DEF Notification
    <3>4. CASE m.type = "timeout"
      BY <3>2, <3>3, <3>4 DEF TimeoutMessage, InterfaceReleaseConnection
    <3>5. CASE m.type # "timeout"
      BY <3>1, <3>3, <3>5 DEF RemoveConnection
    <3> QED BY <3>4, <3>5
  <2> HIDE DEF m
  <2>5. \A s \in Slots, c \in Ids, st \in {"off", "lost"} : ConnIs(table', s, c, st) =>
            /\ ConnIs(table, s, c, st)
            /\ m.type = "timeout" => ~(s = m.sid /\ c = m.cid)
    BY <1>0, <2>3, <2>4, ClientReleaseDrops
  <2>6. ASSUME NEW s \in Slots, NEW c \in Ids, Noted(s, c), ConnIs(table', s, c, "lost")
        PROVE  Noted(s, c)'
    <3>1. PICK i \in DOMAIN notes :
              notes[i] = [type |-> "timeout", sid |-> s, cid |-> c]
      BY <2>6 DEF Noted
    <3>2. i # 1
      BY <2>2, <2>5, <2>6, <3>1
    <3>3. /\ i \in 1..Len(notes) /\ Len(notes) \in Nat
          /\ Len(notes') = Len(notes) - 1
          /\ \A j \in 1..(Len(notes) - 1) : notes'[j] = notes[j + 1]
          /\ notes' \in Seq(Notes)
      BY <2>1
    <3>4. i - 1 \in DOMAIN notes' /\ notes'[i - 1] = notes[i]
      BY <3>2, <3>3
    <3> QED BY <3>1, <3>4 DEF Noted
  <2> QED BY <2>1, <2>5, <2>6, TableForgetsNothing
<1> QED BY <1>1, <1>2, <1>3

\* A command begins a job with nothing in hand.
LEMMA CommandForgetsNothing ==
  ASSUME IInv, Kept, Command
  PROVE  Kept'
<1> USE DEF Idle, At
<1>0. /\ WorkOK /\ Main \in Threads /\ Main # Discoverer
      /\ {"login", "probe", "logout"} \subseteq Jobs \ {"none"}
      /\ {"create", "deactivate"} \subseteq Steps \ {"none"}
  BY DEF IInv, Threads, Main, Discoverer, Jobs, Steps
<1>1. ASSUME NEW t \in Targets, NEW p \in Portals, Login(t, p) PROVE Kept'
  BY <1>1, LoginForgetsNothing DEF Login, Names, work, life
<1>2. ASSUME NEW t \in Targets, NEW p \in QueryPortals, QueryTargetForAuthMethod(t, p)
      PROVE  Kept'
  <2>1. /\ th[Main].at = "none" /\ Begin(Main, "probe", "create", t, p, NoId, NoId)
        /\ UNCHANGED <<table, notes, alive, died>>
    BY <1>2 DEF QueryTargetForAuthMethod, work, life
  <2> QED BY <1>0, <2>1, JobForgetsNothing
<1>3. ASSUME NEW u \in unmounts, NEW success \in BOOLEAN, UnmountComplete(u, success)
      PROVE  Kept'
  <2>1. th[Main].at = "none" /\ UNCHANGED <<table, notes, alive, died>>
    BY <1>3 DEF UnmountComplete, life
  <2>2. CASE UNCHANGED th
    BY <2>1, <2>2 DEF Kept, Noted
  <2>3. ASSUME NEW s, Begin(Main, "logout", "deactivate", u.name, None, s, NoId)
        PROVE  Kept'
    BY <1>0, <2>1, <2>3, JobForgetsNothing
  <2> QED BY <1>3, <2>2, <2>3 DEF UnmountComplete, LogoutComplete, SleepComplete
<1>4. CASE Sleep \/ Wake \/ \E t \in Targets : Logout(t)
  <2>1. UNCHANGED <<th, table, notes, alive, died>>
    BY <1>4 DEF Sleep, Wake, Logout, life
  <2> QED BY <2>1 DEF Kept, Noted
<1> QED BY <1>1, <1>2, <1>3, <1>4 DEF Command

\* The kernel notes what it loses.
LEMMA KernelForgetsNothing ==
  ASSUME IInv, Kept, Kernel
  PROVE  Kept'
<1>0. table \in Tables /\ WorkOK /\ notes \in Seq(Notes)
  BY DEF IInv, Consistent, WorkOK
<1>1. ASSUME NEW type \in {"timeout"} \cup Events, NEW s \in Slots, NEW c \in Ids,
             Note(type, s, c)
      PROVE  /\ \A t \in Slots, d \in Ids : Noted(t, d) => Noted(t, d)'
             /\ alive /\ type = "timeout" => Noted(s, c)'
  <2> DEFINE m == [type |-> type, sid |-> s, cid |-> c]
  <2>1. notes' = notes \/ notes' = Append(notes, m)
    BY <1>1 DEF Note
  <2>2. alive => notes' = Append(notes, m)
    BY <1>1 DEF Note
  <2>3. m \in Notes
    BY DEF Notes
  <2> HIDE DEF m
  <2>4. ASSUME notes' = Append(notes, m)
        PROVE  /\ \A i \in DOMAIN notes : i \in DOMAIN notes' /\ notes'[i] = notes[i]
               /\ Len(notes) + 1 \in DOMAIN notes' /\ notes'[Len(notes) + 1] = m
    BY <1>0, <2>3, <2>4
  <2>5. \A t \in Slots, d \in Ids : Noted(t, d) => Noted(t, d)'
    BY <2>1, <2>4 DEF Noted
  <2>6. alive /\ type = "timeout" => Noted(s, c)'
    BY <2>2, <2>4 DEF Noted, m
  <2> QED BY <2>5, <2>6
<1>2. ASSUME NEW s \in Slots, NEW c \in Ids, ConnectionTimeout(s, c) PROVE Kept'
  <2>1. /\ c \in ConnsOf(table, s) /\ Note("timeout", s, c)
        /\ UNCHANGED <<th, alive, died>>
    BY <1>2 DEF ConnectionTimeout, ConnsOf, life
  <2>2. CASE alive
    <3>1. \A t \in Slots, d \in Ids, st \in {"off", "lost"} : ConnIs(table', t, d, st) =>
              ConnIs(table, t, d, st) \/ (t = s /\ d = c /\ st = "lost")
      BY <1>0, <1>2, <2>1, <2>2, TimeOutLeaves DEF ConnectionTimeout
    <3> QED BY <1>1, <2>1, <2>2, <3>1, TableForgetsNothing
  <2>3. CASE ~alive
    <3>1. \A t \in Slots, d \in Ids, st \in {"off", "lost"} :
              ConnIs(table', t, d, st) => ConnIs(table, t, d, st)
      BY <1>0, <1>2, <2>3, ReleaseSessionDrops, ReleaseConnectionDrops
         DEF ConnectionTimeout, TimeOutUnattended
    <3> QED BY <1>1, <2>1, <3>1, TableForgetsNothing
  <2> QED BY <2>2, <2>3
<1>3. ASSUME NEW s \in Slots, NEW c \in Ids, NEW event \in Events,
             AsyncMessage(s, c, event)
      PROVE  Kept'
  <2>1. /\ Note(event, s, c) /\ UNCHANGED <<th, alive, died>>
        /\ table' = AsyncMsg(table, s, c, event)
    BY <1>3 DEF AsyncMessage, life
  <2>2. \A t \in Slots, d \in Ids, st \in {"off", "lost"} :
            ConnIs(table', t, d, st) => ConnIs(table, t, d, st)
    BY <1>0, <2>1, AsyncMsgLeaves
  <2> QED BY <1>1, <2>1, <2>2, TableForgetsNothing
<1>4. CASE Death
  BY <1>4, DieForgetsNothing DEF Death
<1>5. CASE Restart
  <2>1. alive' /\ UNCHANGED <<table, th, notes, died>>
    BY <1>5 DEF Restart, work
  <2> QED BY <2>1 DEF Kept, Noted
<1> QED BY <1>2, <1>3, <1>4, <1>5 DEF Kernel

\* A session whose connection was never activated, or was taken down by a logout,
\* is in the hands of the thread that will release it, and one that timed out
\* has its notification on the way, for any number of slots, connections,
\* targets, portals and faults, unless the daemon died.
THEOREM NothingIsForgotten == Spec => []NothingForgotten
<1>1. Init => Kept
  <2> SUFFICES ASSUME Init PROVE Kept
    OBVIOUS
  <2>1. \A s \in Slots, c \in Ids, st \in {"off", "lost"} : ~ConnIs(table, s, c, st)
    BY DEF Init, NoTable, NoSession, NoConn, ConnIs
  <2>2. \A w \in Threads : Fit(w, th[w])
    BY DEF Init, Fit, Resting
  <2> QED BY <2>1, <2>2 DEF Init, Kept
<1>2. IInv /\ Kept /\ [Next]_vars => Kept'
  <2> SUFFICES ASSUME IInv, Kept, [Next]_vars PROVE Kept'
    OBVIOUS
  <2>0. /\ Main \in Threads /\ Discoverer \in Threads
        /\ "query" \in Jobs \ {"none"} /\ "create" \in Steps \ {"none"}
    BY DEF Threads, Jobs, Steps
  <2>1. CASE MainStep
    BY <2>0, <2>1, CallForgetsNothing, MainForgetsNothing DEF MainStep
  <2>2. CASE Command
    BY <2>2, CommandForgetsNothing
  <2>3. CASE Call(Discoverer)
    BY <2>0, <2>3, CallForgetsNothing
  <2>4. ASSUME NEW p \in QueryPortals, QueryPortal(p) PROVE Kept'
    <3>1. /\ th[Discoverer].at = "none"
          /\ Begin(Discoverer, "query", "create", Discovery, p, NoId, NoId)
          /\ UNCHANGED <<table, notes, alive, died>>
      BY <2>4 DEF QueryPortal, At, work, life
    <3> QED BY <2>0, <3>1, JobForgetsNothing
  <2>5. CASE Kernel
    BY <2>5, KernelForgetsNothing
  <2>6. CASE UNCHANGED vars
    BY <2>6 DEF vars, work, life, Kept, Noted
  <2> QED BY <2>1, <2>2, <2>3, <2>4, <2>5, <2>6 DEF Next
<1>3. IInv /\ Kept => NothingForgotten
  <2> SUFFICES ASSUME IInv, Kept, ~died, NEW s \in Live(table)
               PROVE  /\ Has(table, s, "off") => \E w \in Threads : Holds(w, s)
                      /\ Has(table, s, "lost") => \E i \in DOMAIN notes :
                             notes[i].type = "timeout" /\ notes[i].sid = s
    BY DEF NothingForgotten
  <2>1. s \in Slots
    BY DEF Live
  <2>2. ASSUME Has(table, s, "off") PROVE \E w \in Threads : Holds(w, s)
    <3>1. PICK c \in Ids : ConnIs(table, s, c, "off")
      BY <2>2 DEF Has, ConnIs
    <3>2. PICK w \in Threads : KeptBy(w, th[w], s, c)
      BY <2>1, <3>1 DEF Kept
    <3> QED BY <3>2 DEF KeptBy, Holds
  <2>3. ASSUME Has(table, s, "lost")
        PROVE  \E i \in DOMAIN notes : notes[i].type = "timeout" /\ notes[i].sid = s
    <3>1. PICK c \in Ids : ConnIs(table, s, c, "lost")
      BY <2>3 DEF Has, ConnIs
    <3>2. Noted(s, c)
      BY <2>1, <3>1 DEF Kept
    <3> QED BY <3>2 DEF Noted
  <2> QED BY <2>2, <2>3
<1>4. Spec => []Kept
  BY <1>1, <1>2, Inductive, PTL DEF Spec
<1> QED BY <1>3, <1>4, Inductive, PTL
=============================================================================
