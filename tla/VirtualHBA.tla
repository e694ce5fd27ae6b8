----------------------------- MODULE VirtualHBA -----------------------------
(***************************************************************************)
(* The data path of one session of iSCSIVirtualHBA: SCSI tasks accepted    *)
(* from the macOS SCSI stack, queued on a connection, dispatched on the    *)
(* workloop, answered by the target, timed out by the stack, and torn down *)
(* with the connection that carries them.                                  *)
(*                                                                         *)
(* Threads.  One IOWorkLoop runs the event sources of every connection     *)
(* (iSCSITaskQueue, iSCSIIOEventSource); the SCSI stack, its timer and the *)
(* user client enter through the command gate (runAction), so a gated      *)
(* section excludes the workloop.  wl says what the holder of the gate is  *)
(* doing; a section that calls back into the SCSI stack, or that the       *)
(* ungated user client can interleave with, is split into steps.           *)
(*                                                                         *)
(* A parallel task stands for its initiator task tag as well: the tag is a *)
(* function of LUN and tagged task id (see iSCSITaskTag).                  *)
(***************************************************************************)
EXTENDS Integers, Sequences, FiniteSets

CONSTANTS
    Tasks,          \* parallel tasks the SCSI stack can have outstanding
    ZeroTag,        \* the task whose initiator tag is 0 (untagged, LUN 0)
    Probe,          \* the latency measurement task and its NOP
    Mgmt,           \* a task management request
    Other,          \* what a PDU that answers nothing is about
    NumConns,       \* kiSCSIMaxConnectionsPerSession
    AsyncEvents,    \* asynchronous messages the target may send
    DaemonMayDie,   \* whether the user client may go away
    CounterMod,     \* 2^32 in the code: the range of numActiveConnections
    MaxSubmits,     \* bound: submissions of one task
    MaxFaults,      \* bound: faults, asynchronous messages, management requests
    MaxCalls        \* bound: calls of the user client

Conns == 0..(NumConns - 1)
Items == Tasks \cup {Probe}
Pdus  == (Tasks \cup {Probe, Mgmt, Other}) \X (0..MaxSubmits)
NoPdu == <<Other, 0>>   \* also stands for a PDU the target sends unasked
Events == {"dropAll", "dropConn", "logout"}

ASSUME ConstantsAssumption ==
    /\ NumConns \in Nat \ {0}
    /\ CounterMod \in Nat \ {0}
    /\ MaxSubmits \in Nat /\ MaxFaults \in Nat /\ MaxCalls \in Nat
    /\ {Probe, Mgmt, Other} \cap Tasks = {}
    /\ Probe # Mgmt /\ Probe # Other /\ Mgmt # Other
    /\ ZeroTag # Probe
    /\ AsyncEvents \subseteq Events
    /\ DaemonMayDie \in BOOLEAN

VARIABLES
    session,        \* sessionList[sessionId] is not NULL
    slot,           \* session->connections[]: NULL, installed, initialised
    enabled,        \* taskQueue and dataRecvEventSource are enabled
    broken,         \* the socket has lost its peer
    queue,          \* iSCSITaskQueue::taskQueue
    newTask,        \* iSCSITaskQueue::newTask
    pending,        \* what the target received and has not answered
    numActive,      \* session->numActiveConnections
    mounted,        \* the target device exists in the SCSI stack
    bound,          \* tasks registered by SetControllerTaskIdentifier
    busy,           \* tasks accepted from the stack and not completed
    hbaData,        \* the connection identifier in the task's HBA data
    armed,          \* tasks whose timer is running
    expired,        \* tasks whose timer thread waits in HandleTimeout
    client,         \* getClient() is not NULL
    wl,             \* the holder of the gate: step, connection, PDU
    wlLive,         \* the connection wl points at has not been freed
    uc,             \* the ungated call of the user client in progress
    ucLive,         \* the connection uc points at has not been freed
    panic,          \* a step has used memory that is not a live object
    serial,         \* history: submissions of each task
    timedOut,       \* history: tasks ever completed by their timer
    drift,          \* history: decrements that match no active connection
    faults, calls   \* counters of the bounds

connVars == <<session, slot, enabled, broken, queue, newTask, pending,
              numActive, mounted, drift>>
taskVars == <<bound, busy, hbaData, armed, expired, serial, timedOut>>
ctrlVars == <<client, wl, wlLive, uc, ucLive, panic>>
vars == <<connVars, taskVars, ctrlVars, faults, calls>>

-----------------------------------------------------------------------------
(* Helpers on the queue of a connection. *)

Elems(q) == {q[i] : i \in 1..Len(q)}
Queued(c) == Elems(queue[c])
Distinct(q) == \A i, j \in 1..Len(q) : q[i] = q[j] => i = j

\* The positions DeactivateConnectionGated pops: its loop stops after a tag 0.
DrainedPos(q) == {i \in 1..Len(q) : \A j \in 1..(i - 1) : q[j] # ZeroTag}
Drained(q) == {q[i] : i \in DrainedPos(q)}
Undrained(q) == SubSeq(q, Cardinality(DrainedPos(q)) + 1, Len(q))

\* removeTask: drop the first entry with the tag of t, if there is one.
RemoveTask(q, t) ==
    IF \E i \in 1..Len(q) : q[i] = t /\ \A j \in 1..(i - 1) : q[j] # t
    THEN LET k == CHOOSE i \in 1..Len(q) :
                      q[i] = t /\ \A j \in 1..(i - 1) : q[j] # t
         IN  [i \in 1..(Len(q) - 1) |-> IF i < k THEN q[i] ELSE q[i + 1]]
    ELSE q

\* checkForWork takes the head off the queue when it dispatches it.  (Before
\* pipelining it left it there for completeCurrentTask: PeekHead.)
PeekHead(c) == queue
Dequeue(c) == [queue EXCEPT ![c] = Tail(@)]

\* completeCurrentTask: pop the head, if there is one.
PopHead(q) == IF q = <<>> THEN q ELSE Tail(q)

NonEmpty == {c \in Conns : slot[c] # "empty"}
Active == {c \in Conns : enabled[c]}

\* Who may move: the gate is free; the workloop is in one of its steps; the
\* user client is in one of its ungated steps.  Nothing moves after a panic.
Gated == ~panic /\ wl.op = "free"
In(steps) == ~panic /\ wlLive /\ wl.op \in steps
Calling(step) == ~panic /\ ucLive /\ uc.op = step
Free == [op |-> "free", conn |-> 0, pdu |-> NoPdu]
NoCall == [op |-> "none", conn |-> 0, fresh |-> FALSE]

\* The socket of a connection still connecting has no peer either.
Opening(c) == uc.op = "open" /\ uc.conn = c
Dead(c) == broken[c] \/ Opening(c)

-----------------------------------------------------------------------------
(* Fragments shared by the actions.  An operator whose comment begins with     *)
(* "Slip" is a plausible mistake in the definition that follows it: no action  *)
(* uses it, and the properties are known to notice it.                         *)

\* Accepting a task leaves the base class's list of tags to the workloop.
\* Slip: the task is registered under its tag at once.
RegisteredAtOnce(t) == bound \cup {t}
RegisteredOnSubmit(t) == bound

\* SetTimeoutForTask, for a parallel task that is dispatched.
\* Slip: the timer is forgotten.
NoTimeout(item) == armed
SetTimeout(item) == armed \cup ({item} \cap Tasks)

\* OSDecrementAtomic, n times, on the UInt32 numActiveConnections.
\* Slip: a signed counter.
DecrementedSigned(n) == numActive - n
Decremented(n) == (numActive - n) % CounterMod

\* The tasks DeactivateConnectionGated finds and completes: FindTask knows only
\* the registered ones, B.  Slip: it also completes the tasks in flight, whose
\* answers may be waiting in the socket.
FoundInFlight(D, Q, B) == {t \in B : hbaData[t] \in D}
Found(D, Q, B) == B \cap UNION {Drained(Q[c]) : c \in D}

\* DeactivateConnectionGated on D, then ReleaseConnectionGated on R; sections
\* that end the session also free it.  Q, B and A are the queues, the
\* registered tasks and the running timers when the section starts.
Teardown(D, R, endSession, Q, B, A) ==
    LET found == Found(D, Q, B)
        n == Cardinality(D)
    IN  /\ enabled' = [c \in Conns |-> enabled[c] /\ c \notin D /\ c \notin R]
        /\ queue' = [c \in Conns |-> IF c \in R THEN <<>>
                                     ELSE IF c \in D THEN Undrained(Q[c]) ELSE Q[c]]
        /\ newTask' = [c \in Conns |-> newTask[c] /\ c \notin R]
        /\ slot' = [c \in Conns |-> IF c \in R THEN "empty" ELSE slot[c]]
        /\ broken' = [c \in Conns |-> broken[c] /\ c \notin R]
        /\ pending' = [c \in Conns |-> IF c \in R THEN {} ELSE pending[c]]
        /\ bound' = B \ found
        /\ busy' = busy \ found
        /\ armed' = A \ found
        /\ numActive' = IF endSession THEN 0 ELSE Decremented(n)
        /\ mounted' = (mounted /\ \A k \in 1..n : Decremented(k) # 0)
        /\ drift' = IF endSession THEN 0 ELSE drift + n - Cardinality(D \cap Active)
        /\ session' = (session /\ ~endSession)
        /\ wlLive' = (wlLive /\ (wl.op = "free" \/ wl.conn \notin R))
        /\ ucLive' = (ucLive /\ (uc = NoCall \/ uc.conn \notin R))

\* HandleConnectionTimeout.  With one connection DeactivateAllConnections
\* deactivates just that one, and ReleaseSession ends the session.
ConnectionTimeout(c, Q, B, A) ==
    IF client
    THEN Teardown({c}, {}, FALSE, Q, B, A)
    ELSE Teardown({c}, {c}, NonEmpty = {c}, Q, B, A)

\* sock_send / sock_receive fail on a dead socket, or when the one-second
\* timeout passes on a live one.
IOFails(c) ==
    \/ Dead(c) /\ UNCHANGED faults
    \/ ~Dead(c) /\ faults < MaxFaults /\ faults' = faults + 1

\* CompleteParallelTask.  Every bytesPerSecHistory window a task that moved
\* data also queues a latency probe (one at a time here: the bound on probes).
CompleteParallelTask(c, t, Q) ==
    /\ bound' = bound \ {t}
    /\ busy' = busy \ {t}
    /\ armed' = armed \ {t}
    /\ \/ queue' = Q /\ UNCHANGED newTask
       \/ /\ Probe \notin Elems(Q[c])
          /\ <<Probe, 0>> \notin pending[c]
          /\ queue' = [Q EXCEPT ![c] = Append(@, Probe)]
          /\ newTask' = [newTask EXCEPT ![c] = TRUE]

Panic == panic' = TRUE /\ UNCHANGED <<connVars, taskVars, client, wl, wlLive,
                                      uc, ucLive, faults, calls>>
-----------------------------------------------------------------------------
(* The SCSI stack. *)

\* ProcessParallelTaskGated accepts a task on an enabled connection (which one
\* depends on transfer rates, abstracted to any).  It runs under the gate, or
\* inline on the workloop when a completion makes the stack submit again.  The
\* queue of a slot being initialised is enabled from its init() to the disable()
\* that follows.
ProcessParallelTask(t, c) ==
    /\ (Gated \/ In({"pop"}))
    /\ session /\ mounted
    /\ t \notin busy /\ serial[t] < MaxSubmits
    /\ (slot[c] = "ready" /\ enabled[c]) \/ slot[c] = "raw"
    /\ hbaData' = [hbaData EXCEPT ![t] = c]
    /\ busy' = busy \cup {t}
    /\ serial' = [serial EXCEPT ![t] = @ + 1]
    /\ queue' = [queue EXCEPT ![c] = Append(@, t)]
    /\ newTask' = [newTask EXCEPT ![c] = TRUE]
    /\ bound' = RegisteredOnSubmit(t)
    /\ UNCHANGED <<session, slot, enabled, broken, pending, numActive, mounted,
                   drift, armed, expired, timedOut, ctrlVars, faults, calls>>

\* The loop over the connections reads taskQueue of a slot that CreateConnection
\* has installed and not initialised yet.
ProcessParallelTaskRaw(t) ==
    /\ (Gated \/ In({"pop"}))
    /\ session /\ mounted /\ t \notin busy
    /\ \E c \in Conns : slot[c] = "raw"
    /\ Panic

\* The timer armed by SetTimeoutForTask fires; its thread waits for the gate.
TimerFires(t) ==
    /\ ~panic /\ t \in armed
    /\ armed' = armed \ {t}
    /\ expired' = expired \cup {t}
    /\ UNCHANGED <<connVars, bound, busy, hbaData, serial, timedOut, ctrlVars,
                   faults, calls>>

\* HandleTimeoutGated, for a task that may have been answered meanwhile.
HandleTimeout(t) ==
    LET c == hbaData[t] IN
    /\ Gated /\ t \in expired
    /\ \/ /\ slot[c] = "empty"
          /\ expired' = expired \ {t}
          /\ UNCHANGED <<connVars, bound, busy, armed, hbaData, serial, timedOut, ctrlVars>>
       \/ slot[c] = "raw" /\ Panic
       \/ /\ slot[c] = "ready" /\ Dead(c)
          /\ ConnectionTimeout(c, queue, bound, armed)
          /\ expired' = expired \ {t}
          /\ UNCHANGED <<hbaData, serial, timedOut, client, wl, uc, panic>>
       \/ /\ slot[c] = "ready" /\ ~Dead(c)
          /\ CompleteParallelTask(c, t, [queue EXCEPT ![c] = RemoveTask(@, t)])
          /\ expired' = expired \ {t}
          /\ timedOut' = timedOut \cup {t}
          /\ UNCHANGED <<session, slot, enabled, broken, pending, numActive,
                         mounted, drift, hbaData, serial, ctrlVars>>
    /\ UNCHANGED <<faults, calls>>

-----------------------------------------------------------------------------
(* The workloop. *)

TaskFrame == <<hbaData, expired, serial, timedOut>>

\* The workloop runs an event source that CreateConnection has added and not
\* disabled yet: there is no socket.
CheckForWorkRaw ==
    /\ Gated
    /\ \E c \in Conns : slot[c] = "raw"
    /\ Panic

\* iSCSITaskQueue::checkForWork starts: it clears newTask, then drains.
CheckForWork(c) ==
    /\ Gated
    /\ slot[c] = "ready" /\ enabled[c] /\ newTask[c]
    /\ newTask' = [newTask EXCEPT ![c] = FALSE]
    /\ wl' = [op |-> "drain", conn |-> c, pdu |-> NoPdu]
    /\ wlLive' = TRUE
    /\ UNCHANGED <<session, slot, enabled, broken, queue, pending, numActive,
                   mounted, drift, taskVars, client, uc, ucLive, panic, faults, calls>>

\* One turn of its loop: dequeue the head and run BeginTaskOnWorkloopThread on
\* it.  A task is registered under its tag before its command is sent; a latency
\* item sends a NOP.  The loop goes on whatever the send returned.  wl.pdu
\* remembers a task that may still have unsolicited data to send.
Dispatch ==
    LET c == wl.conn
        item == Head(queue[c])
        Q == Dequeue(c)
        B == bound \cup ({item} \cap Tasks)
        pdu == IF item = Probe THEN <<Probe, 0>> ELSE <<item, serial[item]>>
    IN
    /\ In({"drain"})
    /\ queue[c] # <<>>
    /\ \/ /\ ~Dead(c)
          /\ queue' = Q /\ bound' = B
          /\ armed' = SetTimeout(item)
          /\ pending' = [pending EXCEPT ![c] = @ \cup {pdu}]
          /\ UNCHANGED <<session, slot, enabled, broken, newTask, numActive,
                         mounted, drift, busy, wlLive, ucLive, faults>>
       \/ IOFails(c) /\ ConnectionTimeout(c, Q, B, SetTimeout(item))
    /\ wl' = [wl EXCEPT !.pdu = IF item = Probe THEN NoPdu ELSE pdu]
    /\ UNCHANGED <<TaskFrame, client, uc, panic, calls>>

\* The data-out PDUs that follow a write command fail to be sent.  The result of
\* sending the command is not looked at, so this can be the second failure.
UnsolicitedDataFails ==
    /\ In({"drain"}) /\ wl.pdu # NoPdu
    /\ IOFails(wl.conn) /\ ConnectionTimeout(wl.conn, queue, bound, armed)
    /\ wl' = [wl EXCEPT !.pdu = NoPdu]
    /\ UNCHANGED <<TaskFrame, client, uc, panic, calls>>

\* Slip: the loop dispatches one task a pass, as it did before pipelining.
DrainOnePerPass ==
    /\ In({"drain"})
    /\ wl' = Free
    /\ UNCHANGED <<connVars, taskVars, client, wlLive, uc, ucLive, panic, faults, calls>>

\* The loop finds the queue empty.
DrainDone ==
    /\ In({"drain"})
    /\ queue[wl.conn] = <<>>
    /\ wl' = Free
    /\ UNCHANGED <<connVars, taskVars, client, wlLive, uc, ucLive, panic, faults, calls>>

\* The section goes on with a connection it has freed.
UseAfterFree == ~panic /\ wl.op # "free" /\ ~wlLive /\ Panic

\* Slip: the header is looked at and left in the socket.
RecvPDUHeaderPeek(c, p) ==
    /\ Gated
    /\ slot[c] = "ready" /\ enabled[c]
    /\ p \in pending[c] \cup {NoPdu}
    /\ wl' = [op |-> "recv", conn |-> c, pdu |-> p]
    /\ wlLive' = TRUE
    /\ UNCHANGED <<connVars, taskVars, client, uc, ucLive, panic, faults, calls>>

\* Slip: the event source of a new connection is not disabled.
RecvPDUHeaderEarly(c, p) ==
    /\ Gated
    /\ slot[c] = "ready"
    /\ p \in pending[c] \cup {NoPdu}
    /\ pending' = [pending EXCEPT ![c] = @ \ {p}]
    /\ wl' = [op |-> "recv", conn |-> c, pdu |-> p]
    /\ wlLive' = TRUE
    /\ UNCHANGED <<session, slot, enabled, broken, queue, newTask, numActive,
                   mounted, drift, taskVars, client, uc, ucLive, panic, faults, calls>>

\* iSCSIIOEventSource::checkForWork finds a PDU and ProcessTaskOnWorkloopThread
\* reads its header: the answer p to something sent before, or a PDU of the
\* target's own (R2T, ping, asynchronous message).
RecvPDUHeader(c, p) ==
    /\ Gated
    /\ slot[c] = "ready" /\ enabled[c]
    /\ p \in pending[c] \cup {NoPdu}
    /\ pending' = [pending EXCEPT ![c] = @ \ {p}]
    /\ wl' = [op |-> "recv", conn |-> c, pdu |-> p]
    /\ wlLive' = TRUE
    /\ UNCHANGED <<session, slot, enabled, broken, queue, newTask, numActive,
                   mounted, drift, taskVars, client, uc, ucLive, panic, faults, calls>>

\* A receive fails (the header, or a data segment whose handler goes on), or a
\* send of the handler fails (data-out for an R2T, the reply to a ping).
HandlerIOFails ==
    /\ In({"recv"})
    /\ IOFails(wl.conn) /\ ConnectionTimeout(wl.conn, queue, bound, armed)
    /\ \E op \in {"poll", "handle"} : wl' = [wl EXCEPT !.op = op]
    /\ UNCHANGED <<TaskFrame, client, uc, panic, calls>>

\* A PDU is consumed with no effect: a short header or a bad digest, a reject, a
\* data-in PDU that has status but no data, a ping reply of another length.
DropPDU ==
    /\ In({"recv"}) /\ wl.pdu # NoPdu
    /\ faults < MaxFaults /\ faults' = faults + 1
    /\ wl' = [wl EXCEPT !.op = "poll"]
    /\ UNCHANGED <<connVars, taskVars, client, wlLive, uc, ucLive, panic, calls>>

\* ProcessSCSIResponse, and ProcessDataIn for a data-in PDU with status: the task
\* registered under the tag is completed; the stack may submit before the pop.
ProcessSCSIResponse ==
    LET c == wl.conn
        t == wl.pdu[1]
    IN
    /\ In({"recv", "handle"}) /\ t \in Tasks
    /\ \/ /\ t \in bound
          /\ CompleteParallelTask(c, t, queue)
          /\ wl' = [wl EXCEPT !.op = "pop"]
       \/ /\ t \notin bound
          /\ wl' = [wl EXCEPT !.op = "poll"]
          /\ UNCHANGED <<queue, newTask, bound, busy, armed>>
    /\ UNCHANGED <<session, slot, enabled, broken, pending, numActive, mounted,
                   drift, TaskFrame, client, wlLive, uc, ucLive, panic, faults, calls>>

\* The completeCurrentTask that follows a completion.
CompleteCurrentTask ==
    /\ In({"pop"})
    /\ queue' = [queue EXCEPT ![wl.conn] = PopHead(@)]
    /\ wl' = [wl EXCEPT !.op = "poll"]
    /\ UNCHANGED <<session, slot, enabled, broken, newTask, pending, numActive,
                   mounted, drift, taskVars, client, wlLive, uc, ucLive, panic,
                   faults, calls>>

\* ProcessNOPIn, for the echo of a latency probe: pops the queue.
ProcessNOPIn ==
    /\ In({"recv"}) /\ wl.pdu[1] = Probe
    /\ queue' = [queue EXCEPT ![wl.conn] = PopHead(@)]
    /\ wl' = [wl EXCEPT !.op = "poll"]
    /\ UNCHANGED <<session, slot, enabled, broken, newTask, pending, numActive,
                   mounted, drift, taskVars, client, wlLive, uc, ucLive, panic,
                   faults, calls>>

\* ProcessTaskMgmtRsp: tells the stack, then pops the queue.
ProcessTaskMgmtRsp ==
    /\ In({"recv", "handle"}) /\ wl.pdu[1] = Mgmt
    /\ wl' = [wl EXCEPT !.op = "pop"]
    /\ UNCHANGED <<connVars, taskVars, client, wlLive, uc, ucLive, panic, faults, calls>>

\* ProcessAsyncMsg.
ProcessAsyncMsg(e) ==
    LET c == wl.conn
    IN
    /\ In({"recv", "handle"}) /\ wl.pdu = NoPdu
    /\ faults < MaxFaults /\ faults' = faults + 1
    /\ \/ /\ e = "dropAll" /\ \A d \in Conns : slot[d] # "raw"
          /\ Teardown(Active, NonEmpty, TRUE, queue, bound, armed)
       \/ e = "dropConn" /\ Teardown({c} \cap Active, {c}, FALSE, queue, bound, armed)
       \/ e = "logout" /\ Teardown({c}, {}, FALSE, queue, bound, armed)
    /\ wl' = [wl EXCEPT !.op = "poll"]
    /\ UNCHANGED <<TaskFrame, client, uc, panic, calls>>

\* The target drops a session one of whose connections is not initialised.
ProcessAsyncMsgRaw ==
    /\ In({"recv", "handle"}) /\ wl.pdu = NoPdu
    /\ "dropAll" \in AsyncEvents
    /\ \E c \in Conns : slot[c] = "raw"
    /\ Panic

\* Back in iSCSIIOEventSource::checkForWork, which asks the same connection
\* whether more is available.  The handlers of the target's own PDUs end here
\* when nothing fails, and ProcessNOPIn when it could not read the echo.
PollAgain ==
    /\ \/ In({"poll"})
       \/ In({"recv", "handle"}) /\ wl.pdu = NoPdu
       \/ In({"handle"}) /\ wl.pdu[1] = Probe
    /\ wl' = Free
    /\ UNCHANGED <<connVars, taskVars, client, wlLive, uc, ucLive, panic, faults, calls>>

-----------------------------------------------------------------------------
(* The network and task management. *)

\* A connection dies; what it has received so far may or may not be readable.
PeerLost(c) ==
    /\ ~panic /\ slot[c] = "ready" /\ ~Dead(c)
    /\ faults < MaxFaults /\ faults' = faults + 1
    /\ broken' = [broken EXCEPT ![c] = TRUE]
    /\ \E kept \in {{}, pending[c]} : pending' = [pending EXCEPT ![c] = kept]
    /\ UNCHANGED <<session, slot, enabled, queue, newTask, numActive, mounted,
                   drift, taskVars, ctrlVars, calls>>

\* AbortTaskRequest ... TargetResetRequest: sent on connections[0], on the
\* thread of the stack and not under the gate.
TaskMgmtRequest ==
    /\ ~panic /\ session /\ mounted /\ slot[0] = "ready"
    /\ <<Mgmt, 0>> \notin pending[0]
    /\ faults < MaxFaults /\ faults' = faults + 1
    /\ \/ /\ ~Dead(0)
          /\ pending' = [pending EXCEPT ![0] = @ \cup {<<Mgmt, 0>>}]
          /\ UNCHANGED <<session, slot, enabled, broken, queue, newTask,
                         numActive, mounted, drift, bound, busy, armed, wlLive, ucLive>>
       \/ Gated /\ ConnectionTimeout(0, queue, bound, armed)
    /\ UNCHANGED <<TaskFrame, client, wl, uc, panic, calls>>

TaskMgmtRequestRaw == ~panic /\ session /\ mounted /\ slot[0] = "raw" /\ Panic

-----------------------------------------------------------------------------
(* The user client: the daemon's calls, one at a time (accessLock).         *)

MayCall == ~panic /\ client /\ uc.op = "none" /\ calls < MaxCalls
CallFrame == <<taskVars, client, wl, wlLive, panic, faults>>

\* CreateConnection, after CreateSession if there is no session, whose counter
\* starts at 0: the new object goes into the first free slot before its event
\* sources exist.
CreateConnection(c) ==
    /\ MayCall
    /\ slot[c] = "empty" /\ \A d \in Conns : d < c => slot[d] # "empty"
    /\ calls' = calls + 1
    /\ session' = TRUE
    /\ slot' = [slot EXCEPT ![c] = "raw"]
    /\ uc' = [op |-> "raw", conn |-> c, fresh |-> ~session]
    /\ ucLive' = TRUE
    /\ IF session THEN UNCHANGED <<numActive, drift>> ELSE numActive' = 0 /\ drift' = 0
    /\ UNCHANGED <<enabled, broken, queue, newTask, pending, mounted, CallFrame>>

\* Its queue and event source are initialised (disabled); it connects.
InitConnection ==
    /\ Calling("raw")
    /\ slot' = [slot EXCEPT ![uc.conn] = "ready"]
    /\ uc' = [uc EXCEPT !.op = "open"]
    /\ UNCHANGED <<session, enabled, broken, queue, newTask, pending, numActive,
                   mounted, drift, ucLive, calls, CallFrame>>

\* It is connected, or the connection attempt fails and is unwound.
ConnectDone ==
    LET c == uc.conn IN
    /\ Calling("open")
    /\ uc' = NoCall
    /\ \/ UNCHANGED <<session, slot, enabled, broken, queue, newTask, pending,
                      numActive, mounted, drift>>
       \/ /\ slot' = [slot EXCEPT ![c] = "empty"]
          /\ pending' = [pending EXCEPT ![c] = {}]
          /\ queue' = [queue EXCEPT ![c] = <<>>]
          /\ newTask' = [newTask EXCEPT ![c] = FALSE]
          /\ session' = (session /\ ~uc.fresh)
          /\ UNCHANGED <<enabled, broken, numActive, mounted, drift>>
    /\ UNCHANGED <<ucLive, calls, CallFrame>>

\* ActivateConnection enables the queue and the event source ...
ActivateConnection(c) ==
    /\ MayCall /\ slot[c] = "ready" /\ ~enabled[c]
    /\ calls' = calls + 1
    /\ enabled' = [enabled EXCEPT ![c] = TRUE]
    /\ uc' = [op |-> "mount", conn |-> c, fresh |-> FALSE]
    /\ ucLive' = TRUE
    /\ UNCHANGED <<session, slot, broken, queue, newTask, pending, numActive,
                   mounted, drift, CallFrame>>

\* ... then mounts the target if no connection was active ...
MountTarget ==
    LET c == uc.conn IN
    /\ Calling("mount")
    /\ \/ /\ numActive # 0
          /\ uc' = [uc EXCEPT !.op = "count"]
          /\ UNCHANGED <<enabled, mounted, drift>>
       \/ /\ numActive = 0
          /\ uc' = [uc EXCEPT !.op = "count"]
          /\ mounted' = TRUE
          /\ UNCHANGED <<enabled, drift>>
       \/ /\ numActive = 0
          /\ uc' = NoCall
          /\ enabled' = [enabled EXCEPT ![c] = FALSE]
          /\ drift' = drift + (IF enabled[c] THEN 0 ELSE 1)
          /\ UNCHANGED mounted
    /\ UNCHANGED <<session, slot, broken, queue, newTask, pending, numActive,
                   ucLive, calls, CallFrame>>

\* Slip: the connection is not counted.
CountForgotten ==
    /\ Calling("count")
    /\ uc' = NoCall
    /\ UNCHANGED <<connVars, ucLive, calls, CallFrame>>

\* ... and counts the connection.
CountConnection ==
    /\ Calling("count")
    /\ numActive' = (numActive + 1) % CounterMod
    /\ uc' = NoCall
    /\ UNCHANGED <<session, slot, enabled, broken, queue, newTask, pending,
                   mounted, drift, ucLive, calls, CallFrame>>

\* The call goes on with a connection that another thread has freed.
CallUseAfterFree == ~panic /\ uc.op # "none" /\ ~ucLive /\ Panic

GatedCall == MayCall /\ Gated /\ session /\ calls' = calls + 1

\* DeactivateConnection, whether the connection is active or not.
DeactivateConnection(c) ==
    /\ GatedCall /\ slot[c] # "empty"
    /\ Teardown({c}, {}, FALSE, queue, bound, armed)
    /\ UNCHANGED <<TaskFrame, client, wl, uc, panic, faults>>

\* DeactivateAllConnections: the first step of iSCSISessionLogout.
DeactivateAllConnections ==
    /\ GatedCall
    /\ Teardown(NonEmpty, {}, FALSE, queue, bound, armed)
    /\ UNCHANGED <<TaskFrame, client, wl, uc, panic, faults>>

\* The ReleaseConnection call of the user client, which releases the session
\* with its only connection, and ReleaseSession.
ReleaseConnection(c) ==
    /\ GatedCall /\ slot[c] # "empty"
    /\ Teardown({c} \cap Active, {c}, NonEmpty = {c}, queue, bound, armed)
    /\ UNCHANGED <<TaskFrame, client, wl, uc, panic, faults>>

ReleaseSession ==
    /\ GatedCall
    /\ Teardown(Active, NonEmpty, TRUE, queue, bound, armed)
    /\ UNCHANGED <<TaskFrame, client, wl, uc, panic, faults>>

\* The daemon exits, and a new one opens the user client.
ClientClose ==
    /\ ~panic /\ DaemonMayDie
    /\ client' = ~client
    /\ UNCHANGED <<connVars, taskVars, wl, wlLive, uc, ucLive, panic, faults, calls>>

-----------------------------------------------------------------------------
Init ==
    /\ session = FALSE
    /\ slot = [c \in Conns |-> "empty"]
    /\ enabled = [c \in Conns |-> FALSE]
    /\ broken = [c \in Conns |-> FALSE]
    /\ queue = [c \in Conns |-> <<>>]
    /\ newTask = [c \in Conns |-> FALSE]
    /\ pending = [c \in Conns |-> {}]
    /\ numActive = 0 /\ mounted = FALSE /\ drift = 0
    /\ bound = {} /\ busy = {} /\ armed = {} /\ expired = {} /\ timedOut = {}
    /\ hbaData = [t \in Tasks |-> 0]
    /\ serial = [t \in Tasks |-> 0]
    /\ client = TRUE /\ wl = Free /\ wlLive = TRUE
    /\ uc = NoCall /\ ucLive = TRUE /\ panic = FALSE
    /\ faults = 0 /\ calls = 0

StackNext ==
    \/ \E t \in Tasks, c \in Conns : ProcessParallelTask(t, c)
    \/ \E t \in Tasks : ProcessParallelTaskRaw(t)
    \/ \E t \in Tasks : TimerFires(t)
    \/ \E t \in Tasks : HandleTimeout(t)
    \/ TaskMgmtRequest
    \/ TaskMgmtRequestRaw

WorkloopNext ==
    \/ CheckForWorkRaw
    \/ \E c \in Conns : CheckForWork(c)
    \/ Dispatch
    \/ UnsolicitedDataFails
    \/ DrainDone
    \/ UseAfterFree
    \/ \E c \in Conns, p \in Pdus : RecvPDUHeader(c, p)
    \/ HandlerIOFails
    \/ DropPDU
    \/ ProcessSCSIResponse
    \/ CompleteCurrentTask
    \/ ProcessNOPIn
    \/ ProcessTaskMgmtRsp
    \/ \E e \in AsyncEvents : ProcessAsyncMsg(e)
    \/ ProcessAsyncMsgRaw
    \/ PollAgain

UserClientNext ==
    \/ \E c \in Conns : CreateConnection(c)
    \/ InitConnection
    \/ ConnectDone
    \/ \E c \in Conns : ActivateConnection(c)
    \/ MountTarget
    \/ CountConnection
    \/ CallUseAfterFree
    \/ \E c \in Conns : DeactivateConnection(c)
    \/ DeactivateAllConnections
    \/ \E c \in Conns : ReleaseConnection(c)
    \/ ReleaseSession
    \/ ClientClose

Next ==
    \/ StackNext
    \/ WorkloopNext
    \/ UserClientNext
    \/ \E c \in Conns : PeerLost(c)

Spec == Init /\ [][Next]_vars

-----------------------------------------------------------------------------
Steps == {"free", "drain", "recv", "handle", "pop", "poll"}
Calls == {"none", "raw", "open", "mount", "count"}

\* Every variable has its type.
TypeOK ==
    /\ session \in BOOLEAN /\ mounted \in BOOLEAN
    /\ slot \in [Conns -> {"empty", "raw", "ready"}]
    /\ enabled \in [Conns -> BOOLEAN] /\ broken \in [Conns -> BOOLEAN]
    /\ queue \in [Conns -> Seq(Items)] /\ newTask \in [Conns -> BOOLEAN]
    /\ pending \in [Conns -> SUBSET Pdus]
    /\ numActive \in 0..(CounterMod - 1) /\ drift \in Int
    /\ armed \in SUBSET Tasks
    /\ bound \in SUBSET Tasks /\ busy \in SUBSET Tasks
    /\ expired \in SUBSET Tasks /\ timedOut \in SUBSET Tasks
    /\ hbaData \in [Tasks -> Conns] /\ serial \in [Tasks -> 0..MaxSubmits]
    /\ client \in BOOLEAN /\ wlLive \in BOOLEAN /\ ucLive \in BOOLEAN
    /\ panic \in BOOLEAN
    /\ wl \in [op : Steps, conn : Conns, pdu : Pdus]
    /\ uc \in [op : Calls, conn : Conns, fresh : BOOLEAN]
    /\ faults \in Nat /\ calls \in Nat

\* A queued entry is never stranded: the queue's flag is set, or the loop that
\* cleared it is still draining this very queue (iSCSITaskQueue::checkForWork
\* clears newTask before it looks at the queue).
NoLostWakeup ==
    \A c \in Conns : queue[c] # <<>> =>
        newTask[c] \/ (wl.op = "drain" /\ wl.conn = c /\ wlLive)

\* A task the stack is waiting for is in one place: at most one entry of one
\* queue, the queue of the connection its HBA data names, or registered with
\* the base class, never both.
OneHome ==
    /\ bound \subseteq busy
    /\ \A c \in Conns :
        /\ queue[c] # <<>> => slot[c] # "empty"
        /\ Distinct(queue[c])
        /\ \A t \in Queued(c) \ {Probe} : t \in busy \ bound /\ hbaData[t] = c

\* What the target has still to answer belongs to the current submission of its
\* task, dispatched on this connection, unless the task was once abandoned by a
\* timeout, which sends no abort and frees its tag for reuse.
PendingIsCurrent ==
    \A c \in Conns : \A p \in pending[c] :
        p[1] \in Tasks \ timedOut =>
            /\ p[1] \in bound
            /\ p[2] = serial[p[1]]
            /\ hbaData[p[1]] = c

\* An answer the workloop has read and not dispatched to its task yet is the only
\* one: the target owes nothing more for a task never abandoned by a timeout.
InHand ==
    wl.op \in {"recv", "handle"} /\ wl.pdu[1] \in Tasks \ timedOut =>
        \A c \in Conns : \A p \in pending[c] : p[1] # wl.pdu[1]

\* A section of the workloop that has not lost its connection runs on one that is
\* initialised, and never on the one the user client is opening: its login PDUs
\* are the daemon's to read.
LiveSections ==
    /\ wl.op # "free" /\ wlLive => slot[wl.conn] = "ready"
    /\ \A c \in Conns : enabled[c] => slot[c] = "ready"
    /\ uc.op = "raw" /\ ucLive => slot[uc.conn] = "raw"
    /\ uc.op = "open" /\ ucLive => /\ ~enabled[uc.conn]
                                   /\ wl.op # "free" /\ wlLive => wl.conn # uc.conn

\* numActiveConnections counts the enabled connections, but for the activation
\* that has not counted its own yet and for the decrements of connections that
\* were not active.
ActiveCountAccounted ==
    session =>
    (numActive + drift + (IF uc.op \in {"mount", "count"} THEN 1 ELSE 0)
        - Cardinality(Active)) % CounterMod = 0

-----------------------------------------------------------------------------
(* What comments of the code say of it; the runs show where it differs. *)

\* "With pipelining ... this is normally a no-op during steady-state I/O"
\* (iSCSITaskQueue::completeCurrentTask): the pop after a completion removes
\* nothing, as the completed task left the queue when it was dispatched.
CompleteCurrentTaskIsNoOp ==
    [][wl.op = "pop" /\ wl'.op = "poll" => queue' = queue]_vars

\* "Tell driver stack that tasks have been rejected" (DeactivateConnection): the
\* tasks still queued when a connection is deactivated are reported to the stack.
QueuedTasksAreRejected ==
    [][\A c \in Conns : enabled[c] /\ ~enabled'[c] =>
        (Queued(c) \cap Tasks) \cap busy' \subseteq Elems(queue'[c]) \cup bound']_vars

\* "If this is the last active connection, un-mount the target"
\* (DeactivateConnection): when the driver itself deactivates a connection, the
\* target of one that stays active is not un-mounted.
UnmountOnlyAfterLast ==
    [][mounted /\ ~mounted' /\ calls' = calls => \A c \in Conns : ~enabled'[c]]_vars

\* "Cache identifiers up front ... any later dereference of session/connection
\* would be a use-after-free" (ProcessAsyncMsg): a handler that has released its
\* own connection returns, and nothing on the way out uses the connection.
NoUseAfterFree ==
    [][wl.op = "poll" /\ ~wlLive /\ uc = NoCall => ~panic']_vars

-----------------------------------------------------------------------------
(* Liveness. *)

\* A step of the workloop inside a gated section.
SectionStep ==
    \/ Dispatch \/ DrainDone \/ UseAfterFree
    \/ ProcessSCSIResponse \/ CompleteCurrentTask \/ ProcessNOPIn
    \/ ProcessTaskMgmtRsp \/ PollAgain

\* The workloop finishes what it starts and every pass asks every event source;
\* timers fire, and the gate does not starve the thread of a timer.  Nothing
\* makes the target answer, a socket fail, or the daemon call.
Fairness ==
    /\ WF_vars(SectionStep)
    /\ \A c \in Conns : SF_vars(CheckForWork(c))
    /\ \A t \in Tasks : WF_vars(TimerFires(t))
    /\ \A t \in Tasks : SF_vars(HandleTimeout(t))

FairSpec == Spec /\ Fairness

\* The workloop always comes back to its event sources: draining a queue ends,
\* even though completions add to queues, and every PDU's handler ends.
GateReleased == wl.op # "free" ~> (wl.op = "free" \/ panic)

\* A queued task leaves the queue, unless the connection is deactivated.
QueuedTaskLeaves ==
    \A t \in Tasks, c \in Conns :
        t \in Queued(c) ~> (t \notin Queued(c) \/ ~enabled[c] \/ panic)

\* A dispatched task is completed, if by nothing else by its timer, unless its
\* connection dies or is released first: then nothing completes it.
DispatchedTaskEnds ==
    \A t \in Tasks :
        t \in bound ~> \/ t \notin bound \/ panic
                       \/ slot[hbaData[t]] # "ready" \/ Dead(hbaData[t])

-----------------------------------------------------------------------------
(* The life of a task as the SCSI stack sees it (TaskLifecycle). *)

TaskState(t) ==
    IF t \in bound THEN "sent"
    ELSE IF \E c \in Conns : t \in Queued(c) THEN "queued"
    ELSE IF t \in busy THEN "lost"
    ELSE "idle"

Lifecycle == INSTANCE TaskLifecycle WITH state <- [t \in Tasks |-> TaskState(t)]
ImplementsLifecycle == Lifecycle!Spec
=============================================================================
