---------------------------- MODULE SessionTable ----------------------------
(***************************************************************************)
(* The session table of the kernel: the slots (sessionList), the lookup    *)
(* from a target's name to a slot (targetList) and the connections of each *)
(* session, as the daemon sees and changes them through the user client.   *)
(* Every operator is a function from one table to the next; each call of   *)
(* the user client runs under its accessLock, so each is one step of the   *)
(* modules that use them.                                                  *)
(*                                                                         *)
(* Tasks, sockets and sequence numbers of a connection are in VirtualHBA.  *)
(***************************************************************************)
EXTENDS Integers, FiniteSets

CONSTANTS
    MaxSessions,    \* kMaxSessions
    MaxConns,       \* kMaxConnectionsPerSession
    Targets,        \* names of targets
    Discovery,      \* the unspecified name, that of every discovery session
    Portals,        \* addresses of portals
    None            \* no name, no portal

ASSUME SessionTableAssumption ==
    /\ MaxSessions \in Nat \ {0} /\ MaxConns \in Nat \ {0}
    /\ Discovery \notin Targets
    /\ None \notin Targets \cup {Discovery} \cup Portals

Slots == 0..(MaxSessions - 1)
Ids   == 0..(MaxConns - 1)
Names == Targets \cup {Discovery}
NoId  == -1         \* kiSCSIInvalidSessionId, kiSCSIInvalidConnectionId

(***************************************************************************)
(* A connection is off until it is activated and after a logout took it    *)
(* down; lost when it timed out; idle when it is inactive and the daemon   *)
(* has no way to know: the target asked for a logout, or activation failed *)
(* behind a call that reports success.                                     *)
(***************************************************************************)
ConnStates == {"none", "off", "up", "lost", "idle"}
NoConn == [st |-> "none", portal |-> None]
Conns == [st : ConnStates \ {"none"}, portal : Portals] \cup {NoConn}

\* second: another session was made for the same name since this one.
Sessions == [iqn : Names \cup {None}, conn : [Ids -> Conns],
             max : 1..MaxConns, second : BOOLEAN]
NoSession == [iqn |-> None, conn |-> [c \in Ids |-> NoConn], max |-> 1,
              second |-> FALSE]
Tables == [list : [Slots -> Sessions], name : [Names -> Slots \cup {NoId}]]
NoTable == [list |-> [s \in Slots |-> NoSession],
            name |-> [n \in Names |-> NoId]]

Live(H) == {s \in Slots : H.list[s].iqn # None}
Free(H) == Slots \ Live(H)
ConnsOf(H, s) == {c \in Ids : H.list[s].conn[c].st # "none"}
Exists(H, s, c) == s \in Live(H) /\ c \in ConnsOf(H, s)
Has(H, s, st) ==
    s \in Live(H) /\ \E c \in Ids : H.list[s].conn[c].st = st
Lowest(S) == CHOOSE x \in S : \A y \in S : x <= y

-----------------------------------------------------------------------------
(* iSCSIVirtualHBA *)

\* The first free slot is taken and the name is made to lead to it, whatever
\* session it led to before.
CreateSession(H, n, p) ==
    LET s == Lowest(Free(H))
    IN  [list |-> [i \in Slots |->
             IF i = s
             THEN [NoSession EXCEPT !.iqn = n,
                                    !.conn[0] = [st |-> "off", portal |-> p]]
             ELSE [H.list[i] EXCEPT !.second = @ \/ H.list[i].iqn = n]],
         name |-> [H.name EXCEPT ![n] = s]]

\* No connection could be made: the slot is freed and the name removed.
CreateSessionFails(H, n) ==
    [list |-> [i \in Slots |->
         [H.list[i] EXCEPT !.second = @ \/ H.list[i].iqn = n]],
     name |-> [H.name EXCEPT ![n] = NoId]]

\* Slip: the name outlives the session.
ReleaseSlot(H, s) ==
    IF s \notin Live(H) THEN H ELSE [H EXCEPT !.list[s] = NoSession]
\* Slip: the first name found is removed, whatever it leads to.
ReleaseFirstName(H, s) ==
    LET led == {n \in Names : H.name[n] # NoId}
    IN  IF s \notin Live(H) \/ led = {} THEN ReleaseSlot(H, s)
        ELSE [list |-> [H.list EXCEPT ![s] = NoSession],
              name |-> [H.name EXCEPT ![CHOOSE n \in led : TRUE] = NoId]]
ReleaseSession(H, s) ==
    IF s \notin Live(H) THEN H
    ELSE LET led == {n \in Names : H.name[n] = s}
         IN  [list |-> [H.list EXCEPT ![s] = NoSession],
              name |-> IF led = {} THEN H.name
                       ELSE [H.name EXCEPT ![CHOOSE n \in led : TRUE] = NoId]]

FreeConns(H, s) == Ids \ ConnsOf(H, s)
CreateConnection(H, s, p) ==
    [H EXCEPT !.list[s].conn[Lowest(FreeConns(H, s))] =
        [st |-> "off", portal |-> p]]

ReleaseConnection(H, s, c) ==
    IF Exists(H, s, c) THEN [H EXCEPT !.list[s].conn[c] = NoConn] ELSE H

ActivateConnection(H, s, c, st) ==
    IF Exists(H, s, c) THEN [H EXCEPT !.list[s].conn[c].st = st] ELSE H

\* Only a connection that is up changes; what it becomes says why.
DeactivateConnection(H, s, c, st) ==
    IF s \in Live(H) /\ H.list[s].conn[c].st = "up"
    THEN [H EXCEPT !.list[s].conn[c].st = st]
    ELSE H
\* Slip: the loop does not look whether there is a connection.
DeactivateEverySlot(H, s, st) ==
    IF s \notin Live(H) THEN H
    ELSE [H EXCEPT !.list[s].conn = [c \in Ids |-> [@[c] EXCEPT !.st = st]]]
DeactivateAllConnections(H, s, st) ==
    IF s \notin Live(H) THEN H
    ELSE [H EXCEPT !.list[s].conn = [c \in Ids |->
             IF @[c].st = "up" THEN [@[c] EXCEPT !.st = st] ELSE @[c]]]

\* HandleConnectionTimeout: the last connection takes the session with it.
TimeOut(H, s, c) ==
    IF Cardinality(ConnsOf(H, s)) > 1
    THEN DeactivateConnection(H, s, c, "lost")
    ELSE DeactivateAllConnections(H, s, "lost")
TimeOutUnattended(H, s, c) ==
    IF Cardinality(ConnsOf(H, s)) > 1
    THEN ReleaseConnection(H, s, c)
    ELSE ReleaseSession(H, s)

\* ProcessAsyncMsg, by the event of the message.
Events == {"dropAll", "drop", "logout", "negotiate"}
AsyncMsg(H, s, c, event) ==
    CASE event = "dropAll" -> ReleaseSession(H, s)
      [] event = "drop" -> ReleaseConnection(H, s, c)
      [] OTHER -> DeactivateConnection(H, s, c, "idle")

-----------------------------------------------------------------------------
(* iSCSIHBAUserClient *)

\* Slip: the loop that counts the connections overwrites the identifier of the
\* one to release.
ClientReleaseLost(H, s, c) ==
    IF s \notin Slots \/ c \notin Ids THEN H
    ELSE IF Cardinality(ConnsOf(H, s)) = 1 THEN ReleaseSession(H, s)
    ELSE ReleaseConnection(H, s, MaxConns)
ClientReleaseConnection(H, s, c) ==
    IF s \notin Slots \/ c \notin Ids THEN H
    ELSE IF Cardinality(ConnsOf(H, s)) = 1 THEN ReleaseSession(H, s)
    ELSE ReleaseConnection(H, s, c)

\* The lowest identifier; none when there is no session or no connection.
GetConnection(H, s) ==
    IF s \notin Live(H) \/ ConnsOf(H, s) = {} THEN NoId
    ELSE Lowest(ConnsOf(H, s))

\* The count is right and the call fails all the same.
GetNumConnections(H, s) ==
    [error |-> TRUE, count |-> Cardinality(ConnsOf(H, s))]

GetSessionIdForTargetIQN(H, n) == H.name[n]

GetConnectionIdForPortalAddress(H, s, p) ==
    LET match == {c \in ConnsOf(H, s) : H.list[s].conn[c].portal = p}
    IN  IF match = {} THEN NoId ELSE Lowest(match)

GetSessionIds(H) == Live(H)
GetConnectionIds(H, s) == ConnsOf(H, s)

\* A session that lost its name to another has none.
GetTargetIQNForSessionId(H, s) ==
    LET led == {n \in Names : H.name[n] = s}
    IN  IF s \notin Live(H) \/ led = {} THEN None ELSE CHOOSE n \in led : TRUE

GetPortalAddressForConnectionId(H, s, c) == H.list[s].conn[c].portal

SetSessionParameter(H, s, m) ==
    IF s \in Live(H) THEN [H EXCEPT !.list[s].max = m] ELSE H
GetSessionParameter(H, s) == H.list[s].max
=============================================================================
