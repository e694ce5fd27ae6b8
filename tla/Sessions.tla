------------------------------ MODULE Sessions ------------------------------
(***************************************************************************)
(* How the daemon uses the kernel's session table.  Two threads make calls *)
(* that interleave: the main thread, which logs in and out, asks a target  *)
(* for its authentication method, follows sleep and wake and handles the   *)
(* kernel's notifications, and the discovery thread, which queries portals.*)
(* Each keeps the identifiers a call gave it and uses them in later calls. *)
(* The kernel's workloop changes the table underneath: connections time    *)
(* out and targets send asynchronous messages.  Each call of the user      *)
(* client is a step; a request to a target and its answer are one step,    *)
(* because nothing of the table changes in between, and the data of the    *)
(* answer is another.                                                      *)
(*                                                                         *)
(* The preferences these commands read and write are in Daemon.            *)
(***************************************************************************)
EXTENDS SessionTable, Sequences

CONSTANTS
    QueryPortals,   \* the portals queries and probes go to
    MaxOps,         \* bound: operations of the main thread
    MaxQueries,     \* bound: portals the discovery thread queries
    MaxFaults,      \* bound: time-outs, asynchronous messages, sleeps, deaths
    MaxNotes        \* bound: notifications on their way

ASSUME SessionsAssumption ==
    /\ QueryPortals \subseteq Portals
    /\ MaxOps \in Nat /\ MaxQueries \in Nat /\ MaxFaults \in Nat
    /\ MaxNotes \in Nat \ {0}

Main == "main"
Discoverer == "discoverer"
Threads == {Main, Discoverer}

VARIABLES
    table,          \* the session table
    th,             \* the two threads of the daemon
    notes,          \* notifications sent to the daemon's port
    unmounts,       \* unmounts whose callback is to come
    resume,         \* activeTargets: what to log in to after a sleep
    todo,           \* what is left of it while waking
    alive,          \* the daemon runs
    died,           \* it has died before
    panicked,       \* the kernel used a connection that is not there
    ops, queries, faults    \* counters of the bounds

work == <<notes, unmounts, resume, todo>>
life == <<alive, died, panicked>>
bounds == <<ops, queries, faults>>
vars == <<table, th, work, life, bounds>>

(***************************************************************************)
(* What a thread does: the job, the step it is at, the name, portal and    *)
(* identifiers it works with, whether the data of an answer is still to be *)
(* received, and whether the last call failed.                             *)
(***************************************************************************)
Jobs == {"none", "login", "probe", "add", "query", "logout"}
Steps == {"none", "create", "auth", "negotiate", "activate", "release",
          "text", "deactivate", "bye", "drop", "undo"}
Thread == [job : Jobs, at : Steps, name : Names \cup {None},
           portal : Portals \cup {None}, sid : Slots \cup {NoId},
           cid : Ids \cup {NoId}, data : BOOLEAN, err : BOOLEAN]
Resting == [job |-> "none", at |-> "none", name |-> None, portal |-> None,
            sid |-> NoId, cid |-> NoId, data |-> FALSE, err |-> FALSE]

At(w, step) == alive /\ ~panicked /\ ~th[w].data /\ th[w].at = step
Idle == At(Main, "none") /\ todo = {}
Step(w, step) == th' = [th EXCEPT ![w].at = step]
Rest(w) == th' = [th EXCEPT ![w] = Resting]
Begin(w, job, step, n, p, s, c) ==
    th' = [th EXCEPT ![w] = [Resting EXCEPT !.job = job, !.at = step,
               !.name = n, !.portal = p, !.sid = s, !.cid = c]]
-----------------------------------------------------------------------------
(* iSCSIHBAInterface: an identifier that is not one stops the call here. *)

InterfaceReleaseSession(s) ==
    IF s = NoId THEN table ELSE ReleaseSession(table, s)
InterfaceReleaseConnection(s, c) ==
    IF s = NoId \/ c = NoId THEN table ELSE ClientReleaseConnection(table, s, c)
InterfaceDeactivateAllConnections(s) ==
    IF s = NoId THEN table ELSE DeactivateAllConnections(table, s, "off")
InterfaceActivateConnection(s, c, st) ==
    IF s = NoId \/ c = NoId THEN table ELSE ActivateConnection(table, s, c, st)
\* The connection is looked up by its identifiers at every call.
InterfaceSend(s, c) == s # NoId /\ c # NoId /\ Exists(table, s, c)
InterfaceReceive(s, c) == s # NoId /\ c # NoId /\ Exists(table, s, c)

\* A request and the header of its answer: data follows, or the call failed.
Ask(w, data, next) ==
    /\ InterfaceSend(th[w].sid, th[w].cid) /\ InterfaceReceive(th[w].sid, th[w].cid)
    /\ th' = [th EXCEPT ![w].data = data, ![w].at = next, ![w].err = FALSE]
AskFails(w, next) == th' = [th EXCEPT ![w].at = next, ![w].err = TRUE]

\* The data of an answer.  The user client does not look whether there still
\* is a connection, as it does for the header.
RecvData(w) ==
    /\ alive /\ ~panicked /\ th[w].data
    /\ th' = [th EXCEPT ![w].data = FALSE]
    /\ panicked' = ~Exists(table, th[w].sid, th[w].cid)
    /\ UNCHANGED <<table, work, alive, died, bounds>>

-----------------------------------------------------------------------------
(* iSCSISessionLogin, iSCSIQueryTargetForAuthMethod. *)

NewSession(w) ==
    /\ At(w, "create")
    /\ LET n == th[w].name  p == th[w].portal  s == Lowest(Free(table))
           failed == IF th[w].job = "probe" THEN "release" ELSE "none"
       IN  \/ /\ Free(table) # {}
              /\ table' = CreateSession(table, n, p)
              /\ th' = [th EXCEPT ![w].sid = s, ![w].cid = 0, ![w].at = "auth"]
           \/ /\ table' = IF Free(table) = {} THEN table
                          ELSE CreateSessionFails(table, n)
              /\ IF failed = "none" THEN Rest(w) ELSE Step(w, failed)
    /\ UNCHANGED <<work, life, bounds>>

\* iSCSIAuthNegotiate, iSCSIAuthInterrogate: accepted, refused by the target,
\* or failed.
Authenticate(w) ==
    /\ At(w, "auth")
    /\ \/ Ask(w, TRUE, IF th[w].job = "probe" THEN "release" ELSE "negotiate")
       \/ Ask(w, TRUE, "release")
       \/ AskFails(w, "release")
    /\ UNCHANGED <<table, work, life, bounds>>

\* iSCSINegotiateSession; MaxConnections is among what it agrees on.
NegotiateSession(w) ==
    /\ At(w, "negotiate")
    /\ \/ /\ Ask(w, TRUE, "activate")
          /\ \E m \in 1..MaxConns :
                 table' = SetSessionParameter(table, th[w].sid, m)
       \/ Ask(w, TRUE, "release") /\ UNCHANGED table
       \/ AskFails(w, "release") /\ UNCHANGED table
    /\ UNCHANGED <<work, life, bounds>>

\* The result of an activation does not reach the daemon.
Activate(w) ==
    /\ At(w, "activate")
    /\ IF th[w].name = Discovery
       THEN Step(w, "text") /\ UNCHANGED table
       ELSE /\ \E st \in {"up", "idle"} :
                   table' = InterfaceActivateConnection(th[w].sid, th[w].cid, st)
            /\ Rest(w)
    /\ UNCHANGED <<work, life, bounds>>

\* A login that did not succeed, and every probe.  A query goes on with the
\* identifiers it had unless the failure was an error.
Released(w) ==
    IF th[w].job = "query" /\ ~th[w].err THEN Step(w, "text") ELSE Rest(w)
Release(w) ==
    /\ At(w, "release")
    /\ table' = InterfaceReleaseSession(th[w].sid)
    /\ Released(w)
    /\ UNCHANGED <<work, life, bounds>>

-----------------------------------------------------------------------------
(* iSCSIQueryPortalForTargets and iSCSISessionLogout. *)

\* SendTargets: whatever comes of it, the session is logged out.
SendTargets(w) ==
    /\ At(w, "text")
    /\ Ask(w, TRUE, "deactivate") \/ AskFails(w, "deactivate")
    /\ UNCHANGED <<table, work, life, bounds>>

Deactivate(w) ==
    /\ At(w, "deactivate")
    /\ table' = InterfaceDeactivateAllConnections(th[w].sid)
    /\ Step(w, "bye")
    /\ UNCHANGED <<work, life, bounds>>

\* LogoutCommon over the first connection there is.
LogoutCommon(w) ==
    /\ At(w, "bye")
    /\ LET c == GetConnection(table, th[w].sid)
       IN  th' = [th EXCEPT ![w].cid = c, ![w].at = "drop"]
    /\ UNCHANGED <<table, work, life, bounds>>

DropSession(w) ==
    /\ At(w, "drop")
    /\ table' = InterfaceReleaseSession(th[w].sid)
    /\ Rest(w)
    /\ UNCHANGED <<work, life, bounds>>

\* iSCSISessionAddConnection: the status it tests is the one it was given,
\* never that of a login, so the new connection is always released.
AddConnection ==
    /\ At(Main, "undo")
    /\ table' = InterfaceReleaseConnection(th[Main].sid, th[Main].cid)
    /\ Rest(Main)
    /\ UNCHANGED <<work, life, bounds>>

-----------------------------------------------------------------------------
(* What the main thread starts: iscsid's commands and callbacks. *)

\* iSCSIDLoginWithPortal goes on to log in when there is no session, or when it
\* has no connection over the portal and fewer or more than it may have.
LogsIn(n, p) ==
    LET s == GetSessionIdForTargetIQN(table, n)
    IN  \/ s = NoId
        \/ /\ GetConnectionIdForPortalAddress(table, s, p) = NoId
           /\ Cardinality(GetConnectionIds(table, s)) # GetSessionParameter(table, s)

LoginWithPortal(n, p) ==
    LET s == GetSessionIdForTargetIQN(table, n)
    IN  IF ~LogsIn(n, p) THEN UNCHANGED <<th, table>>
        ELSE IF s = NoId
        THEN Begin(Main, "login", "create", n, p, NoId, NoId) /\ UNCHANGED table
        ELSE IF FreeConns(table, s) = {} THEN UNCHANGED <<th, table>>
        ELSE /\ table' = CreateConnection(table, s, p)
             /\ Begin(Main, "add", "undo", n, p, s, Lowest(FreeConns(table, s)))

Login(t, p) ==
    /\ Idle /\ ops < MaxOps
    /\ LoginWithPortal(t, p)
    /\ ops' = ops + 1
    /\ UNCHANGED <<work, life, queries, faults>>

QueryTargetForAuthMethod(t, p) ==
    /\ Idle /\ ops < MaxOps
    /\ Begin(Main, "probe", "create", t, p, NoId, NoId)
    /\ ops' = ops + 1
    /\ UNCHANGED <<table, work, life, queries, faults>>

\* A target has an entry in the I/O registry while a connection is up.
InRegistry(n) == \E s \in Live(table) : table.list[s].iqn = n /\ Has(table, s, "up")

\* iSCSIDLogout of a session: its volumes are unmounted first.  Without an
\* entry or a volume there is no callback.  (The logout of one portal among
\* several ends in RemoveConnection, which changes nothing.)
Logout(t) ==
    /\ Idle /\ ops < MaxOps
    /\ GetSessionIdForTargetIQN(table, t) # NoId
    /\ InRegistry(t)
    /\ unmounts' = unmounts \cup {[why |-> "logout", name |-> t, sid |-> NoId]}
    /\ ops' = ops + 1
    /\ UNCHANGED <<table, th, notes, resume, todo, life, queries, faults>>

\* iSCSIDLogoutComplete: the session is the one the name leads to by now.
LogoutComplete(u, success) ==
    LET s == GetSessionIdForTargetIQN(table, u.name)
    IN  IF success /\ s # NoId
        THEN Begin(Main, "logout", "deactivate", u.name, None, s, NoId)
        ELSE UNCHANGED th

\* iSCSIDPrepareForSystemSleepComplete: the one it was when the sleep began,
\* whether its volumes could be unmounted or not.
SleepComplete(u) ==
    Begin(Main, "logout", "deactivate", u.name, None, u.sid, NoId)

UnmountComplete(u, success) ==
    /\ Idle /\ u \in unmounts
    /\ IF u.why = "logout" THEN LogoutComplete(u, success) ELSE SleepComplete(u)
    /\ unmounts' = unmounts \ {u}
    /\ UNCHANGED <<table, notes, resume, todo, life, bounds>>

\* iSCSIDPrepareForSystemSleep: every session that has a name, with the portals
\* of its connections.
Sleep ==
    /\ Idle /\ faults < MaxFaults
    /\ LET named == {s \in GetSessionIds(table) :
                        GetTargetIQNForSessionId(table, s) # None}
           name(s) == GetTargetIQNForSessionId(table, s)
       IN  /\ resume' = {<<name(s), GetPortalAddressForConnectionId(table, s, c)>> :
                            s \in named, c \in Ids}
                        \cap (Names \X Portals)
           /\ unmounts' = unmounts \cup
                  {[why |-> "sleep", name |-> name(s), sid |-> s] :
                      s \in {s \in named : InRegistry(name(s))}}
    /\ faults' = faults + 1
    /\ UNCHANGED <<table, th, notes, todo, life, ops, queries>>

\* iSCSIDRestoreFromSystemSleep: all of it is done before anything else.
Wake ==
    /\ Idle /\ resume # {}
    /\ todo' = resume /\ resume' = {}
    /\ UNCHANGED <<table, th, notes, unmounts, life, bounds>>

Die ==
    /\ alive' = FALSE /\ died' = TRUE
    /\ th' = [w \in Threads |-> Resting]
    /\ notes' = <<>> /\ unmounts' = {} /\ resume' = {} /\ todo' = {}
    /\ UNCHANGED <<table, panicked>>

\* A session to the unspecified target: it has no preferences to log in with,
\* and reading them is fatal.
Restore ==
    /\ At(Main, "none")
    /\ \E x \in todo :
           IF x[1] = Discovery /\ LogsIn(x[1], x[2])
           THEN Die /\ UNCHANGED bounds
           ELSE /\ LoginWithPortal(x[1], x[2])
                /\ todo' = todo \ {x}
                /\ UNCHANGED <<notes, unmounts, resume, life, bounds>>

-----------------------------------------------------------------------------
(* iSCSISessionManager: the kernel's notifications, in the order sent. *)

\* By now the identifiers may be those of another session.
TimeoutMessage(s, c) == InterfaceReleaseConnection(s, c)

\* RemoveConnection starts by asking for the number of connections.
RemoveConnection(s, c) ==
    IF GetNumConnections(table, s).error THEN table
    ELSE InterfaceReleaseConnection(s, c)

Notification ==
    /\ Idle /\ notes # <<>>
    /\ LET m == Head(notes)
       IN  table' = CASE m.type = "timeout" -> TimeoutMessage(m.sid, m.cid)
                      [] m.type \in {"logout", "negotiate"} -> RemoveConnection(m.sid, m.cid)
                      [] OTHER -> table
    /\ notes' = Tail(notes)
    /\ UNCHANGED <<th, unmounts, resume, todo, life, bounds>>

-----------------------------------------------------------------------------
(* The discovery thread, the kernel and launchd. *)

QueryPortal(p) ==
    /\ At(Discoverer, "none") /\ queries < MaxQueries
    /\ Begin(Discoverer, "query", "create", Discovery, p, NoId, NoId)
    /\ queries' = queries + 1
    /\ UNCHANGED <<table, work, life, ops, faults>>

Note(type, s, c) ==
    notes' = IF alive THEN Append(notes, [type |-> type, sid |-> s, cid |-> c])
             ELSE notes

\* A task on a broken connection times out: one that is up, or tasks left over
\* on one that is lost already.
ConnectionTimeout(s, c) ==
    /\ ~panicked /\ faults < MaxFaults /\ Len(notes) < MaxNotes
    /\ s \in Live(table) /\ table.list[s].conn[c].st \in {"up", "lost"}
    /\ table' = IF alive THEN TimeOut(table, s, c)
                ELSE TimeOutUnattended(table, s, c)
    /\ Note("timeout", s, c)
    /\ faults' = faults + 1
    /\ UNCHANGED <<th, unmounts, resume, todo, life, ops, queries>>

AsyncMessage(s, c, event) ==
    /\ ~panicked /\ faults < MaxFaults /\ Len(notes) < MaxNotes
    /\ s \in Live(table) /\ table.list[s].conn[c].st = "up"
    /\ table' = AsyncMsg(table, s, c, event)
    /\ Note(event, s, c)
    /\ faults' = faults + 1
    /\ UNCHANGED <<th, unmounts, resume, todo, life, ops, queries>>

Death ==
    /\ alive /\ ~panicked /\ faults < MaxFaults
    /\ Die
    /\ faults' = faults + 1
    /\ UNCHANGED <<ops, queries>>
Restart ==
    /\ ~alive /\ ~panicked
    /\ alive' = TRUE
    /\ UNCHANGED <<table, th, work, died, panicked, bounds>>

-----------------------------------------------------------------------------
Init ==
    /\ table = NoTable
    /\ th = [w \in Threads |-> Resting]
    /\ notes = <<>> /\ unmounts = {} /\ resume = {} /\ todo = {}
    /\ alive = TRUE /\ died = FALSE /\ panicked = FALSE
    /\ ops = 0 /\ queries = 0 /\ faults = 0

\* What a thread does once it has begun.
Call(w) ==
    \/ RecvData(w) \/ NewSession(w) \/ Authenticate(w) \/ NegotiateSession(w)
    \/ Activate(w) \/ Release(w) \/ SendTargets(w) \/ Deactivate(w)
    \/ LogoutCommon(w) \/ DropSession(w)
MainStep == Call(Main) \/ AddConnection \/ Restore \/ Notification
Command ==
    \/ \E t \in Targets, p \in Portals : Login(t, p)
    \/ \E t \in Targets, p \in QueryPortals : QueryTargetForAuthMethod(t, p)
    \/ \E t \in Targets : Logout(t)
    \/ \E u \in unmounts, success \in BOOLEAN : UnmountComplete(u, success)
    \/ Sleep \/ Wake
Kernel ==
    \/ \E s \in Slots, c \in Ids :
           \/ ConnectionTimeout(s, c)
           \/ \E event \in Events : AsyncMessage(s, c, event)
    \/ Death \/ Restart

Next ==
    \/ MainStep \/ Command \/ Call(Discoverer)
    \/ \E p \in QueryPortals : QueryPortal(p)
    \/ Kernel

Spec == Init /\ [][Next]_vars

-----------------------------------------------------------------------------
Notes == [type : {"timeout"} \cup Events, sid : Slots, cid : Ids]
Unmounts == [why : {"logout", "sleep"}, name : Names, sid : Slots \cup {NoId}]

\* The variables keep the shape the code gives them.
TypeOK ==
    /\ table \in Tables
    /\ th \in [Threads -> Thread]
    /\ notes \in Seq(Notes)
    /\ unmounts \subseteq Unmounts
    /\ resume \subseteq Names \X Portals /\ todo \subseteq Names \X Portals
    /\ {alive, died, panicked} \subseteq BOOLEAN
    /\ ops \in 0..MaxOps /\ queries \in 0..MaxQueries /\ faults \in 0..MaxFaults

\* A name never leads to a slot that is free or that belongs to another
\* target: what the daemon looks up by name is a session of that name, in
\* whatever order sessions are made, fail, time out and are released.
NameLeadsToItsSession ==
    \A n \in Names : table.name[n] # NoId => table.list[table.name[n]].iqn = n

\* A session is found by its name unless another was made for the same name
\* since: nothing else that happens to it or to others hides it from
\* IsTargetActive, a logout or a second login.
FoundUnlessSecond ==
    \A s \in Live(table) :
        table.name[table.list[s].iqn] = s \/ table.list[s].second

Holds(w, s) == th[w].job # "none" /\ th[w].sid = s
\* Unless the daemon died, a session whose connection was never activated, or
\* was taken down by a logout, is in the hands of the thread that will release
\* it, and one that timed out has its notification on the way.
NothingForgotten ==
    ~died =>
        \A s \in Live(table) :
            /\ Has(table, s, "off") => \E w \in Threads : Holds(w, s)
            /\ Has(table, s, "lost") =>
                   \/ \E i \in DOMAIN notes :
                          notes[i].type = "timeout" /\ notes[i].sid = s
                   \/ \E w \in Threads : Holds(w, s)
=============================================================================
