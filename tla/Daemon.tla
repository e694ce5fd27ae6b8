------------------------------- MODULE Daemon -------------------------------
(***************************************************************************)
(* The daemon iscsid and the preferences it shares with the processes of   *)
(* iscsictl: the one-connection request loop, the preferences mutex that   *)
(* is taken by one request and released by another, SendTargets discovery  *)
(* on a thread of its own, the logins and the session timeouts that write  *)
(* preferences, and launchd, which starts the daemon again when it dies.   *)
(*                                                                         *)
(* The main thread runs one callback of its run loop at a time; main says  *)
(* where it is.  A client is one iscsictl process that runs one command.   *)
(* Secrets go to the keychain, which no decision here depends on.          *)
(***************************************************************************)
EXTENDS Preferences, Sequences

CONSTANTS
    Clients,        \* processes of iscsictl
    None,           \* no client
    Threads,        \* bound: discovery threads alive at a time
    Issued,         \* the commands the clients issue
    LoginTo,        \* the targets the clients log in to
    Offered,        \* the targets discovery may bring in
    Stored,         \* what may be stored when the system starts
    MaxFaults,      \* bound: timeouts, denials, lost sessions
    MaxParties      \* bound: clients that have started, and discoveries that
                    \* have overlapped another

ASSUME DaemonAssumption ==
    /\ None \notin Clients
    /\ Issued \subseteq Commands
    /\ LoginTo \subseteq Targets /\ Offered \subseteq Targets
    /\ Stored \subseteq {P \in Objects : Listed(P)}
    /\ MaxFaults \in Nat /\ MaxParties \in Nat

VARIABLES
    store,          \* the application values kept by CFPreferences
    mirror,         \* preferences, the daemon's own object
    main,           \* what the main thread is doing
    fd,             \* reqInfo->fd: the client that is connected
    ready,          \* the read source is signalled
    deaf,           \* the listening socket has been invalidated
    lock,           \* preferencesMutex: who asked for it
    timer,          \* the discovery timer exists
    discLock,       \* discoveryMutex is held
    thread,         \* the discovery threads
    records,        \* discoveryRecords: null, live or freed, and what they say
    signaled,       \* the discovery source is signalled
    merging,        \* the records ProcessDiscoveryData holds, and has yet to merge
    overlap,        \* history: a discovery of this daemon started before the
                    \* main thread was called for the last one
    active,         \* the targets with a session
    queued,         \* the targets whose login waits for the network
    cl,             \* the clients
    overlaps,       \* counter of the bound: discoveries that did so
    faults          \* counter of the bound: see MaxFaults

prefVars == <<store, mirror>>
reqVars  == <<fd, ready, deaf, lock, cl>>
discVars == <<timer, discLock, thread, records, signaled, merging, overlap,
              overlaps>>
sessVars == <<active, queued>>
vars == <<prefVars, main, reqVars, discVars, sessVars, faults>>

Blank == [tgt |-> [t \in Targets |-> Missing],
          dsc |-> [p \in Portals |-> [on |-> FALSE, list |-> {}]],
          enabled |-> FALSE]
NoCommand == [do |-> "none"]
Null == [st |-> "null", found |-> <<>>]
NoMerge == [found |-> <<>>, ports |-> {}, freed |-> FALSE]
NoThread == [pc |-> "none", ports |-> {}, stale |-> FALSE]
NewClient == [pc |-> "idle", cmd |-> NoCommand, copy |-> Blank, ask |-> {},
              chan |-> <<>>, late |-> FALSE, conn |-> "none"]

\* The requests, as they lie in the socket.
Lock == [req |-> "lock"]
IsActive(t) == [req |-> "active", tgt |-> t]
Unlock(P) == [req |-> "unlock", data |-> P]
Abandon == [req |-> "abandon"]      \* an unlock without preferences
Update == [req |-> "update"]
Login(t) == [req |-> "login", tgt |-> t]
Requests == {Lock, Abandon, Update} \cup {IsActive(t) : t \in Targets}
              \cup {Login(t) : t \in Targets} \cup {Unlock(P) : P \in Objects}

Parties == Cardinality({c \in Clients : cl[c].pc # "idle"}) + overlaps

Running == main \notin {"down", "blocked"}
AtLoop == main = "loop"
Waiting == {"lock", "ask", "unlock", "update", "login"}

\* iSCSIDUpdatePreferencesFromAppValues frees the object a thread is reading.
Outdated(th) ==
    [i \in Threads |-> [th[i] EXCEPT !.stale = @ \/ th[i].pc = "query"]]

-----------------------------------------------------------------------------
(* iscsictl. *)

\* The process ends and its end of the connection is closed; what it sent
\* stays in the socket (and its command is remembered as long).
Ended(r) == [r EXCEPT !.pc = "done", !.copy = Blank, !.ask = {}, !.late = FALSE,
                      !.cmd = IF r.chan = <<>> THEN NoCommand ELSE @]

\* The reply to a request, or no reply in time (ok is FALSE): a request that
\* fails counts as "not active"; what unlock and update return is ignored.
\* One active target decides: the answers about the others change nothing.
After(r, ok) ==
    CASE r.pc = "lock" -> IF ok THEN [r EXCEPT !.pc = "edit"] ELSE Ended(r)
      [] r.pc = "ask" -> IF ok THEN [r EXCEPT !.pc = "refuse"]
                         ELSE [r EXCEPT !.pc = "decide"]
      [] r.pc = "unlock" /\ r.ask = {} /\ r.cmd.do \in UpdatesDiscovery ->
             [r EXCEPT !.pc = "notify", !.copy = Blank]
      [] OTHER -> Ended(r)

Send(c, r, req) == cl' = [cl EXCEPT ![c] = [r EXCEPT !.chan = Append(@, req)]]
Quiet(c) == /\ cl[c].conn # "reset"
            /\ UNCHANGED <<prefVars, main, fd, ready, deaf, lock,
                           discVars, sessVars>>

\* Connect, read the preferences, and ask for the lock; or ask for a login.
Start(c) ==
    /\ cl[c].pc = "idle" /\ Parties < MaxParties
    /\ \/ \E cmd \in Issued :
              Send(c, [cl[c] EXCEPT !.pc = "lock", !.cmd = cmd,
                                    !.copy = store, !.conn = "backlog"], Lock)
       \/ \E t \in LoginTo :
              /\ Contains(store, t)
              /\ Send(c, [cl[c] EXCEPT !.pc = "login", !.conn = "backlog"],
                      Login(t))
    /\ Quiet(c) /\ UNCHANGED faults

\* Slip: the lock is held, but what was read before it is what is edited.
NotRefreshed(c) == cl[c].copy
\* iSCSIDaemonPreferencesIOLockAndSync reads the preferences again.
Refreshed(c) == store

Refresh(c) ==
    /\ cl[c].pc = "edit"
    /\ LET P == Refreshed(c)
           r == [cl[c] EXCEPT !.copy = P, !.ask = Asked(P, cl[c].cmd)]
       IN  IF Refused(P, cl[c].cmd)
           THEN Send(c, [r EXCEPT !.pc = "unlock", !.copy = Blank,
                                  !.ask = {}], Abandon)
           ELSE cl' = [cl EXCEPT ![c] = [r EXCEPT !.pc = "decide"]]
    /\ Quiet(c) /\ UNCHANGED faults

Ask(c) ==
    /\ cl[c].pc = "decide"
    /\ \E t \in cl[c].ask :
           Send(c, [cl[c] EXCEPT !.pc = "ask", !.ask = @ \ {t}], IsActive(t))
    /\ Quiet(c) /\ UNCHANGED faults

Commit(c) ==
    /\ cl[c].pc = "decide" /\ cl[c].ask = {}
    /\ Send(c, [cl[c] EXCEPT !.pc = "unlock", !.copy = Blank],
            Unlock(Edited(cl[c].copy, cl[c].cmd)))
    /\ Quiet(c) /\ UNCHANGED faults

\* A target is active: the preferences go back as they came, or not at all.
BackOut(c) ==
    /\ cl[c].pc = "refuse"
    /\ Send(c, [cl[c] EXCEPT !.pc = "unlock", !.copy = Blank, !.ask = {}],
            IF cl[c].cmd.do = "removeDiscovery" THEN Abandon
            ELSE Unlock(cl[c].copy))
    /\ Quiet(c) /\ UNCHANGED faults

Notify(c) ==
    /\ cl[c].pc = "notify"
    /\ Send(c, [cl[c] EXCEPT !.pc = "update"], Update)
    /\ Quiet(c) /\ UNCHANGED faults

\* recv() gives up: the daemon is slow, deaf, blocked, or did not see the
\* request in time.  Or it takes an answer to an earlier request, which has
\* another function code.
GiveUp(c) ==
    /\ cl[c].pc \in Waiting
    /\ \/ /\ cl[c].late
          /\ cl' = [cl EXCEPT ![c] = After([@ EXCEPT !.late = FALSE], FALSE)]
          /\ UNCHANGED faults
       \/ /\ ~cl[c].late /\ faults < MaxFaults
          /\ cl' = [cl EXCEPT ![c] = After(@, FALSE)]
          /\ faults' = faults + 1
    /\ Quiet(c)

\* The daemon has closed the connection: every later request fails.
Cut(c) ==
    /\ cl[c].conn = "reset" /\ cl[c].pc # "done"
    /\ cl' = [cl EXCEPT ![c] = Ended(@)]
    /\ UNCHANGED <<prefVars, main, fd, ready, deaf, lock, discVars, sessVars,
                   faults>>

ClientStep(c) ==
    \/ Start(c) \/ Refresh(c) \/ Ask(c) \/ Commit(c) \/ BackOut(c)
    \/ Notify(c) \/ GiveUp(c) \/ Cut(c)

-----------------------------------------------------------------------------
(* The request loop. *)

Reset(r) == IF r.conn = "up" THEN [r EXCEPT !.conn = "reset", !.chan = <<>>]
            ELSE r

\* iSCSIDAcceptConnection: the client that was connected is disconnected.
Accept(c) ==
    /\ AtLoop /\ ~deaf /\ cl[c].conn = "backlog"
    /\ fd' = c /\ main' = "read"
    /\ cl' = [d \in Clients |-> IF d = c THEN [cl[d] EXCEPT !.conn = "up"]
                                ELSE Reset(cl[d])]
    /\ UNCHANGED <<prefVars, ready, deaf, lock, discVars, sessVars, faults>>

\* The read source: nothing is read when there is no connection.
\* Slip: the descriptor is not looked at.
ReadSourceAnyway ==
    /\ AtLoop /\ ready
    /\ ready' = FALSE /\ main' = "read"
    /\ UNCHANGED <<prefVars, fd, deaf, lock, cl, discVars, sessVars, faults>>
ReadSource ==
    /\ AtLoop /\ ready
    /\ ready' = FALSE
    /\ main' = IF fd = None THEN "loop" ELSE "read"
    /\ UNCHANGED <<prefVars, fd, deaf, lock, cl, discVars, sessVars, faults>>

\* recv() of 250 ms, or the end of the stream.
NoRequest ==
    /\ main = "read" /\ cl[fd].chan = <<>>
    /\ main' = "peek"
    /\ UNCHANGED <<prefVars, reqVars, discVars, sessVars, faults>>

\* MSG_PEEK after a request: only what arrives now is ever read.
Peek ==
    /\ main = "peek"
    /\ main' = "loop"
    /\ ready' = (ready \/ cl[fd].chan # <<>>)
    /\ UNCHANGED <<prefVars, fd, deaf, lock, cl, discVars, sessVars, faults>>

\* A reply.  A client that does not wait finds it when it asks for something
\* else.  When the client is gone, sig_pipe_handler drops the lock and the
\* listening socket.
Reply(ok, held) ==
    LET r == cl[fd]
        rest == [r EXCEPT !.chan = Tail(@)]
    IN  IF r.pc = "done"
        THEN /\ cl' = [cl EXCEPT ![fd] = Ended(rest)]
             /\ lock' = None /\ fd' = None /\ deaf' = TRUE
             /\ main' = "loop"
        ELSE /\ cl' = [cl EXCEPT ![fd] =
                 IF r.pc \in Waiting
                 THEN After(rest, ok /\ rest.chan = <<>> /\ ~r.late)
                 ELSE [rest EXCEPT !.late = TRUE]]
             /\ lock' = held
             /\ main' = "peek"
             /\ UNCHANGED <<fd, deaf>>

Requested(req) ==
    main = "read" /\ cl[fd].chan # <<>> /\ Head(cl[fd].chan).req = req
Request == Head(cl[fd].chan)

\* iSCSIDPreferencesIOLockAndSync: the main thread takes the mutex, and waits
\* for itself when a client has it already.
ServeLock ==
    /\ Requested("lock")
    /\ UNCHANGED <<prefVars, ready, discVars, sessVars>>
    /\ \/ lock = None /\ Reply(TRUE, fd) /\ UNCHANGED faults
       \/ /\ lock # None
          /\ main' = "blocked"
          /\ UNCHANGED <<fd, deaf, lock, cl, faults>>
       \/ /\ faults < MaxFaults     \* the right to modify is denied
          /\ faults' = faults + 1
          /\ Reply(FALSE, lock)

ServeIsActive ==
    /\ Requested("active")
    /\ Reply(Request.tgt \in active, lock)
    /\ UNCHANGED <<prefVars, ready, discVars, sessVars, faults>>

\* Slip: the daemon's own object is not brought up to date.
SyncedOnly(P) == UNCHANGED <<mirror, thread>>
\* iSCSIPreferencesUpdateWithAppValues after the values were stored.
Synced(P) == mirror' = P /\ thread' = Outdated(thread)

\* iSCSIDPreferencesIOUnlockAndSync: what the client sent is stored when the
\* mutex is held, by whomever; the mutex is released in any case.
ServeUnlock ==
    /\ Requested("unlock") \/ Requested("abandon")
    /\ IF Request.req = "unlock" /\ lock # None
       THEN store' = Request.data /\ Synced(Request.data)
       ELSE UNCHANGED <<prefVars, thread>>
    /\ Reply(TRUE, None)
    /\ UNCHANGED <<ready, timer, discLock, records, signaled, merging, overlap,
                   overlaps, sessVars, faults>>

\* iSCSIDUpdateDiscovery
ServeUpdate ==
    /\ Requested("update")
    /\ mirror' = store /\ thread' = Outdated(thread)
    /\ timer' = store.enabled
    /\ Reply(TRUE, lock)
    /\ UNCHANGED <<store, ready, discLock, records, signaled, merging, overlap,
                   overlaps, sessVars, faults>>

\* The process dies.  launchd keeps the listening socket; sessions are in the
\* kernel; everything else is lost.
Crash ==
    /\ main' = "down"
    /\ mirror' = Blank /\ fd' = None /\ ready' = FALSE /\ deaf' = FALSE
    /\ lock' = None /\ timer' = FALSE /\ discLock' = FALSE
    /\ thread' = [i \in Threads |-> NoThread]
    /\ records' = Null /\ signaled' = FALSE /\ merging' = NoMerge
    /\ queued' = {}
    /\ cl' = [c \in Clients |-> Reset(cl[c])]
    /\ overlap' = FALSE
    /\ UNCHANGED <<store, active, overlaps, faults>>

-----------------------------------------------------------------------------
(* Logins. *)

\* iSCSIDLoginCommon: a login that succeeds writes the target's alias in the
\* daemon's object and stores all of it, with no lock.  (A first login of a
\* target the object does not have reads its settings from a null dictionary.)
LoginSucceeds(P, t, rest) ==
    /\ Contains(P, t) \/ t \in rest
    /\ mirror' = P /\ store' = P
    /\ active' = rest \cup {t}
LoginFails(P, t, rest) ==
    /\ Contains(P, t) \/ t \in rest
    /\ mirror' = P /\ active' = rest
    /\ UNCHANGED store
LoginCommon(P, t, rest) == LoginSucceeds(P, t, rest) \/ LoginFails(P, t, rest)
LoginCrashes(P, t, rest) == ~Contains(P, t) /\ t \notin rest

\* iSCSIDLogin over all portals: a target without a list of them is fatal.
ServeLogin ==
    /\ Requested("login")
    /\ LET t == Request.tgt
       IN  \/ /\ store.tgt[t].portals > 0
              /\ LoginCommon(store, t, active)
              /\ thread' = Outdated(thread)
              /\ Reply(TRUE, lock)
              /\ UNCHANGED <<ready, timer, discLock, records, signaled,
                             merging, overlap, overlaps, queued, faults>>
           \/ store.tgt[t].portals = 0 /\ Crash

\* iSCSIDSessionTimeoutHandler: the kernel gave the session up.  Asking
\* whether a target is persistent creates it when it is missing.
SessionTimeout(t) ==
    /\ AtLoop /\ t \in active /\ faults < MaxFaults
    /\ faults' = faults + 1
    /\ LET P == Created(mirror, t)
       IN  \/ /\ mirror' = P /\ active' = active \ {t}
              /\ queued' = queued \cup {t}
              /\ UNCHANGED store
           \/ /\ LoginCommon(P, t, active \ {t})
              /\ UNCHANGED queued
           \/ /\ Contains(mirror, t)       \* not a persistent target
              /\ active' = active \ {t}
              /\ UNCHANGED <<prefVars, queued>>
    /\ UNCHANGED <<main, reqVars, discVars>>

\* iSCSIDProcessQueuedLogin: the network is back.
QueuedLogin(t) ==
    /\ AtLoop /\ t \in queued
    /\ \/ /\ LoginCommon(mirror, t, active)
          /\ queued' = queued \ {t}
          /\ UNCHANGED <<main, reqVars, discVars, faults>>
       \/ LoginCrashes(mirror, t, active) /\ Crash

-----------------------------------------------------------------------------
(* SendTargets discovery. *)

\* iSCSIDLaunchDiscoveryThread: the sense of trylock is inverted, so the first
\* tick takes the mutex and every later one starts a thread, until one of them
\* gives the mutex back.  That is before it signals the discovery source, which
\* does not wake the run loop: a timer may fire first.
Quiescent == ~signaled /\ \A i \in Threads : thread[i].pc = "none"

Tick ==
    /\ AtLoop /\ timer
    /\ \/ /\ ~discLock
          /\ discLock' = TRUE
          /\ UNCHANGED <<thread, overlap, overlaps>>
       \/ /\ discLock
          /\ \E i \in Threads :
                 /\ thread[i].pc = "none"
                 /\ thread' = [thread EXCEPT ![i].pc = "start"]
          /\ IF Quiescent
             THEN UNCHANGED <<overlap, overlaps>>
             ELSE /\ Parties < MaxParties
                  /\ overlap' = TRUE /\ overlaps' = overlaps + 1
          /\ UNCHANGED discLock
    /\ UNCHANGED <<prefVars, main, reqVars, timer, records, signaled, merging,
                   sessVars, faults>>

\* iSCSIDRunDiscovery: the last records are released, the portals are read
\* from the daemon's object and queried, and the main thread is told.
RunDiscovery(i) ==
    /\ Running /\ thread[i].pc = "start"
    /\ IF records.st = "freed" THEN Crash
       ELSE /\ records' = IF records.st = "null" THEN records
                          ELSE [records EXCEPT !.st = "freed"]
            /\ merging' = [merging EXCEPT !.freed = @ \/ main = "merge"]
            /\ thread' = [thread EXCEPT ![i] =
                   [pc |-> "query", stale |-> FALSE,
                    ports |-> {p \in Portals : mirror.dsc[p].on}]]
            /\ UNCHANGED <<prefVars, main, reqVars, timer, discLock, signaled,
                           overlap, overlaps, sessVars, faults>>

\* A portal that cannot be queried has no record.
Queried(i) ==
    /\ Running /\ thread[i].pc = "query"
    /\ \E S \in SUBSET thread[i].ports : \E F \in [S -> SUBSET Offered] :
           records' = [st |-> "live", found |-> F]
    /\ discLock' = FALSE
    /\ thread' = [thread EXCEPT ![i] = [NoThread EXCEPT !.pc = "signal"]]
    /\ UNCHANGED <<prefVars, main, reqVars, timer, signaled, merging, overlap,
                   overlaps, sessVars, faults>>

\* The object the thread is reading has been freed under it.
QueryCrashes(i) == main # "down" /\ thread[i].stale /\ Crash

Signal(i) ==
    /\ Running /\ thread[i].pc = "signal"
    /\ signaled' = TRUE
    /\ thread' = [thread EXCEPT ![i].pc = "none"]
    /\ UNCHANGED <<prefVars, main, reqVars, timer, discLock, records, merging,
                   overlap, overlaps, sessVars, faults>>

\* iSCSIDProcessDiscoveryData waits for a mutex that only the main thread can
\* release.
ProcessDiscoveryData ==
    /\ AtLoop /\ signaled
    /\ signaled' = FALSE
    /\ IF records.st # "null" /\ lock = None
       THEN /\ main' = "merge"
            /\ mirror' = store /\ thread' = Outdated(thread)
            /\ merging' = [found |-> records.found, freed |-> FALSE,
                           ports |-> DOMAIN records.found]
       ELSE /\ main' = IF records.st = "null" THEN main ELSE "blocked"
            /\ UNCHANGED <<mirror, thread, merging>>
    /\ UNCHANGED <<store, reqVars, timer, discLock, records, overlap, overlaps,
                   sessVars, faults>>

\* The records of one portal.  A portal that is no longer one has no list.
Merge(p) ==
    /\ main = "merge" /\ p \in merging.ports
    /\ LET F == merging.found[p]
       IN  \/ /\ ~merging.freed /\ mirror.dsc[p].on
              /\ mirror' = Merged(mirror, p, F)
              /\ active' = active \ MergeDrops(mirror, p, F)
              /\ merging' = [merging EXCEPT !.ports = @ \ {p}]
              /\ UNCHANGED <<store, main, reqVars, timer, discLock, thread,
                             records, signaled, overlap, overlaps, queued, faults>>
           \/ (merging.freed \/ ~mirror.dsc[p].on) /\ Crash

\* Slip: the pointer to the released records stays.
ReleasedOnly == [records EXCEPT !.st = "freed"]
Released == Null

\* What is released is what the pointer leads to by now.
MergeDone ==
    /\ main = "merge" /\ merging.ports = {}
    /\ \/ /\ records.st # "freed"
          /\ main' = "loop" /\ merging' = NoMerge
          /\ store' = mirror
          /\ records' = Released
          /\ UNCHANGED <<mirror, reqVars, timer, discLock, thread, signaled,
                         overlap, overlaps, sessVars, faults>>
       \/ records.st = "freed" /\ Crash

-----------------------------------------------------------------------------
\* main(): discovery is set up and logins are queued for targets that ask for
\* it.
Restart ==
    /\ main = "down"
    /\ main' = "loop"
    /\ mirror' = store
    /\ timer' = store.enabled
    /\ queued' \in SUBSET {t \in Targets : store.tgt[t].portals > 0}
    /\ UNCHANGED <<store, reqVars, discLock, thread, records, signaled,
                   merging, overlap, overlaps, active, faults>>

Init ==
    /\ store \in Stored /\ mirror = Blank
    /\ main = "down"
    /\ fd = None /\ ready = FALSE /\ deaf = FALSE /\ lock = None
    /\ timer = FALSE /\ discLock = FALSE
    /\ thread = [i \in Threads |-> NoThread]
    /\ records = Null /\ signaled = FALSE /\ merging = NoMerge
    /\ overlap = FALSE /\ overlaps = 0
    /\ active = {} /\ queued = {}
    /\ cl = [c \in Clients |-> NewClient]
    /\ faults = 0

MainStep ==
    \/ \E c \in Clients : Accept(c)
    \/ ReadSource \/ NoRequest \/ Peek
    \/ ServeLock \/ ServeIsActive \/ ServeUnlock \/ ServeUpdate \/ ServeLogin
    \/ \E t \in Targets : SessionTimeout(t) \/ QueuedLogin(t)
    \/ Tick \/ ProcessDiscoveryData \/ MergeDone
    \/ \E p \in Portals : Merge(p)
    \/ Restart

ThreadStep(i) ==
    RunDiscovery(i) \/ Queried(i) \/ QueryCrashes(i) \/ Signal(i)

Next ==
    \/ \E c \in Clients : ClientStep(c)
    \/ MainStep
    \/ \E i \in Threads : ThreadStep(i)

Spec == Init /\ [][Next]_vars

-----------------------------------------------------------------------------
(* Properties. *)

ClientStates ==
    [pc : {"idle", "edit", "decide", "refuse", "notify", "done"} \cup Waiting,
     cmd : Commands \cup {NoCommand}, copy : Objects, ask : SUBSET Targets,
     chan : Seq(Requests), late : BOOLEAN,
     conn : {"none", "backlog", "up", "reset"}]

Finds == UNION {[S -> SUBSET Targets] : S \in SUBSET Portals}

\* Every variable keeps its type: the preferences stay well formed under any
\* sequence of edits, merges and logins, and a request is only read from a
\* connection there is.
TypeOK ==
    /\ store \in Objects /\ mirror \in Objects
    /\ main \in {"loop", "read", "peek", "merge", "blocked", "down"}
    /\ fd \in Clients \cup {None} /\ lock \in Clients \cup {None}
    /\ main \in {"read", "peek"} => fd # None
    /\ {ready, deaf, timer, discLock, signaled} \subseteq BOOLEAN
    /\ thread \in [Threads -> [pc : {"none", "start", "query", "signal"},
                               ports : SUBSET Portals, stale : BOOLEAN]]
    /\ records \in [st : {"null", "live", "freed"}, found : Finds]
    /\ merging \in [found : Finds, ports : SUBSET Portals, freed : BOOLEAN]
    /\ merging.ports \subseteq DOMAIN merging.found
    /\ overlap \in BOOLEAN /\ overlaps \in Nat
    /\ active \subseteq Targets /\ queued \subseteq Targets
    /\ cl \in [Clients -> ClientStates]
    /\ faults \in 0..MaxFaults

\* A dynamic target is listed by the discovery portal that manages it, so that
\* a later merge, or the removal of the portal, can remove it: iscsictl refuses
\* to (iSCSICtlRemoveTarget).
DynamicIsListed == Listed(store)

\* What getters created apart.
Plain(P) ==
    [P EXCEPT !.tgt = [t \in Targets |->
        IF @[t].portals = 0 THEN Missing ELSE @[t]]]

\* An edit that is stored is the client's command applied to what was stored,
\* or changes nothing: nobody's edit, and no merge, is lost under it
\* (iSCSIDPreferencesIOLockAndSync and iSCSIDPreferencesIOUnlockAndSync).
NoLostUpdate ==
    [][ Requested("unlock") =>
          Plain(store') \in
              {Plain(store), Plain(Edited(Plain(store), cl[fd].cmd))}
      ]_vars

\* Q is P, but for targets a getter created.
Agrees(Q, P) ==
    /\ Q.dsc = P.dsc /\ Q.enabled = P.enabled
    /\ \A t \in Targets :
           Q.tgt[t] # P.tgt[t] => ~Contains(P, t) /\ Q.tgt[t] = Fresh

\* Whenever the main thread waits in its run loop, its own object agrees with
\* what is stored: the logins that use it without reading it again, and then
\* store it, bring nothing back (iSCSIDLoginCommon).
MirrorAgrees == AtLoop => Agrees(mirror, store)

\* As long as no discovery of this daemon started before the main thread was
\* called for what the last one had found, records that have been released are
\* not about to be read by the main thread, nor to be released again by a
\* discovery thread (the double free that iSCSIDProcessDiscoveryData warns of).
\* Discoveries that overlap do both: nothing in the code prevents it.
RecordsLive ==
    ~overlap =>
        /\ ~merging.freed
        /\ signaled \/ main = "merge" \/ (\E i \in Threads : thread[i].pc = "start")
               => records.st # "freed"

\* A client that has the preferences locked is served until it has unlocked
\* them or is gone: no other connection and no other callback comes between.
HolderIsServed ==
    lock # None /\ cl[lock].pc # "done" => fd = lock /\ main # "blocked"
=============================================================================
