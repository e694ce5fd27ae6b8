# A verification development of the iSCSI initiator

The repository is an iSCSI initiator for macOS: a kernel extension that presents
iSCSI targets to the SCSI stack, a daemon that logs in to targets, a command line
tool and a menu bar application. This directory holds TLA+ models of it, TLC
configurations, and proofs checked by TLAPS. Paths below are relative to
`src/Source/`.

## 1. Inventory

| Part | State it keeps | Operations | What makes it correct |
|---|---|---|---|
| HBA (`Kernel/iSCSIVirtualHBA.cpp`) | `sessionList`, `targetList`, per session two connection slots and `numActiveConnections`, the base class's list of tagged tasks | `ProcessParallelTask`, dispatch, one handler per PDU type, `HandleTimeout`, task management, create / activate / deactivate / release | every accepted task is completed once; answers meet the task they belong to; no object is used after its release; the target is mounted while a connection is active |
| Task queue (`Kernel/iSCSITaskQueue.cpp`) | FIFO of (tag, task), `newTask`, enabled | `queueTask`, `checkForWork`, `completeCurrentTask`, `removeTask` | no entry is stranded, lost or dispatched twice |
| Receive source (`Kernel/iSCSIIOEventSource.cpp`) | enabled | `checkForWork`, socket upcall | reads only enabled, live connections |
| Task tag (`Kernel/iSCSITaskTag.h`) | none | pack and parse | parse inverts pack; no two live tasks share a tag |
| PDU framing (`Kernel/iSCSIPDUKernel.*`, `SendPDU`, `RecvPDUHeader`) | CmdSN, ExpCmdSN, MaxCmdSN, ExpStatSN | send, receive, digests | numbers follow RFC 3720 across a wrap |
| User client (`Kernel/iSCSIHBAUserClient.cpp`) | header buffer, `accessLock`, notification port | one method per call of the daemon | the two calls of a send belong together |
| HBA interface (`User/iscsid/iSCSIHBAInterface.c`) | connection to the user client | marshals calls | as above |
| Session layer (`User/iscsid/iSCSISession.c`, `iSCSIQueryTarget.c`, `iSCSIAuth.c`) | context of a login | stages, key negotiation, CHAP, logout | both sides end with the same parameters; a failed login leaves nothing behind |
| Session manager (`User/iscsid/iSCSISessionManager.c`) | callbacks | timeout and asynchronous notifications | a notification acts on the session it is about |
| Daemon (`User/iscsid/iSCSIDaemon.c`, `iSCSIDiscovery.c`) | preferences and their lock, discovery records, timer and lock, targets active before sleep, queued logins | request loop, discovery thread, run-loop callbacks | every request is answered; the lock is given back; what was active before sleep is active after it |
| Framework (`User/iSCSI Framework/`) | preference dictionaries; counters of an unmount | accessors, disk arbitration, daemon messages | an unmount calls back once |
| `iscsictl`, application, scripts | per-target state of the application | one daemon call each; overlapping tasks in the application | a removed target stays removed |

**How they interact.** The SCSI stack calls the HBA on its own threads; the HBA
enters its command gate, which excludes the workloop, and queues the task. The
workloop runs the task queue and the receive source of every connection: it sends
commands, reads PDUs, and completes tasks, and the stack may submit again from
inside the completion. A timer thread of the stack enters the gate with
`HandleTimeout`. The daemon enters through the user client under `accessLock`;
deactivating and releasing go through the gate, creating, activating and sending do
not. The kernel notifies the daemon of timeouts and of asynchronous messages; the
daemon answers with releases.

**What is hard.** Four kinds of threads meet in a session; tasks are in flight,
queued and expiring while their connection is torn down; teardown happens inside the
code that uses what is torn down; a connection is visible before it is built; a
counter decides when the target is un-mounted. In user space: two threads over
shared records, a lock held on behalf of a client, and operations that continue in
callbacks. `PROJECT.json` lists each hazard at its line.

## 2. Modules, and what is left

| Module | What it models |
|---|---|
| `VirtualHBA` | one session of the driver: its tasks, connections, and every thread that enters it |
| `TaskLifecycle` | what the SCSI stack sees of a task; `VirtualHBA` implements it |
| `SessionTable` | `sessionList`, `targetList` and the connection slots: the operations, as functions of the table |
| `Sessions` | the two threads of the daemon that use the table, the notifications, sleep, and the death of the daemon |
| `Preferences` | a preferences object and the operations on it |
| `Daemon` | the request loop, the preference lock, discovery, logins, and the `iscsictl` processes |
| `Negotiation` | the rule of each operational key |
| `Login` | stages, retries, CHAP and the listing of targets, against a target |
| `Transfer` | the data of a task under the parameters a login ended with |
| `VirtualHBA_proofs`, `VirtualHBA_invariants`, `VirtualHBA_refinement` | theorems of `VirtualHBA` |
| `Sessions_proofs`, `Daemon_proofs` | theorems of `Sessions` and of `Daemon` |
| `Login_proofs`, `Login_invariants`, `Transfer_proofs` | theorems of `Login` and `Transfer` |
| `MCVirtualHBA`, `MCSessions`, `MCDaemon`, `MCTransfer` | instances for TLC |

`Sessions` extends `SessionTable`; `Daemon` extends `Preferences`; `Transfer`
extends `Login`, which extends `Negotiation`. The four compositions meet where one
abstracts another: a login is some steps of `Sessions`, a request of `Daemon`, and
all of `Login`; a connection of `SessionTable` is what `VirtualHBA` opens and tears
down.

Left for later, in this order: the header buffer that the two calls of a send share,
composed with `Sessions`; the overlapping operations of the application.

## 3. `VirtualHBA`

### State

| Variables | In the code |
|---|---|
| `session`, `slot`, `enabled`, `broken` | `sessionList[id]`, `session->connections[]` (empty, installed but not initialised, ready), `isEnabled()` of the two event sources, whether `sock_getpeername` fails |
| `queue`, `newTask` | the members of `iSCSITaskQueue` |
| `pending` | what a target has received and still has to answer, each with the submission it belongs to |
| `numActive`, `mounted` | `numActiveConnections`, a `UInt32`; whether `CreateTargetForID` has a target |
| `bound`, `busy`, `hbaData` | tasks entered by `SetControllerTaskIdentifier`; tasks the stack waits for; the connection in the task's HBA data |
| `armed`, `expired` | timers running; timer threads waiting for the gate |
| `wl`, `wlLive` | what the holder of the gate is in the middle of; whether its connection still exists |
| `uc`, `ucLive`, `client` | the call of the user client in progress; its connection; `getClient()` |
| `panic` | memory that is not a live object has been used: nothing happens after it |
| `serial`, `timedOut`, `drift` | history variables: submissions of a task, tasks once completed by their timer, decrements of the session's `numActiveConnections` for connections that were not active |

### Steps

A section that runs under the gate and calls nothing back is one action:
`HandleTimeout`, `DeactivateConnection`, `ReleaseConnection`, `ReleaseSession`. A
section of the workloop is several actions, as ungated threads act between them and
the stack submits inside it: `CheckForWork`, `Dispatch` and `UnsolicitedDataFails`,
`DrainDone` for the task queue; `RecvPDUHeader`, then a handler
(`ProcessSCSIResponse` and `CompleteCurrentTask`, `ProcessNOPIn`,
`ProcessTaskMgmtRsp`, `ProcessAsyncMsg`, `DropPDU`, `HandlerIOFails`), then
`PollAgain` for the receive source. The ungated calls of the user client are split
where they publish something: `CreateConnection`, `InitConnection`, `ConnectDone`;
`ActivateConnection`, `MountTarget`, `CountConnection`.

`Teardown` is the code every ending shares: deactivate some connections, release
some, perhaps free the session. An I/O failure in a section runs it inside that
section, as `SendPDU` calls `HandleConnectionTimeout`. A failing send of the
daemon's own does the same from its thread, which is `DeactivateConnection`.

Three ungated sequences are one step where the code has two: `ActivateConnection`
enables the task queue and the receive source together; `TaskMgmtRequest` sends, and,
when the send fails, runs `HandleConnectionTimeout` with it, whose deactivation and
release enter the gate one after the other; and a failed connect is unwound at once.

What is abstracted: the tag of a task is the task (one task, `ZeroTag`, has tag 0);
the choice of a connection by transfer rates is any choice among the enabled ones;
the content of PDUs, digests and data; the window of thirty completions after which
a latency probe is queued is any completion, with one probe at a time.

### Properties

- `NoLostWakeup`: a queued entry is covered by `newTask` or by the drain in
  progress.
- `OneHome`: a task the stack waits for is at most once in one queue, that of the
  connection named in its HBA data, or registered, and never both.
- `PendingIsCurrent`, `InHand`: an answer belongs to the current submission of its
  task, and there is one, unless the task was abandoned by a timeout. The exception
  is what the code does: a timeout sends no abort and frees the tag.
- `LiveSections`: sections run on initialised connections, never on one that is
  being opened. It says nothing of a section whose connection was released inside it
  (`NoUseAfterFree` does), nor of the negotiation that follows the opening.
- `ActiveCountAccounted`: `numActiveConnections` is the number of enabled
  connections, up to the activation in progress and the surplus decrements. It is an
  account, not a judgement: that a surplus is wrong is what `UnmountOnlyAfterLast`
  says, and the run `unmount` shows.
- `ImplementsLifecycle`: `VirtualHBA` implements `TaskLifecycle` under the mapping
  `TaskState`. Submission, dispatch and completion come in this order and once each;
  the one way to lose a task is to lose it from a queue.
- `GateReleased`, `QueuedTaskLeaves`, `DispatchedTaskEnds`: liveness.

Some definitions come in pairs: the one the actions use, and before it, marked
"Slip", the form a plausible mistake would give it. `PROJECT.json` lists under
`mutants` which property notices which slip, in every run: no property holds
whatever the code does.

## 4. `SessionTable` and `Sessions`

### State

| Variables | In the code |
|---|---|
| `table.list` | `sessionList`: per slot the name, the connections with their portals, `maxConnections` |
| `table.name` | `targetList` |
| `th` | for the main thread and the discovery thread: the function they are in, the identifiers a call gave them, whether the data of an answer is still to be received |
| `notes` | Mach messages of the user client on their way to `iSCSIHBANotificationHandler` |
| `unmounts` | contexts that wait for `iSCSIDADiskUnmountComplete` |
| `resume`, `todo` | `activeTargets`, and what is left of it while waking |
| `alive`, `died`, `panicked` | the daemon runs; has died; the kernel used a connection that is not there |

A connection is `off` until it is activated and after a logout took it down, `up`
while active, `lost` when it timed out, and `idle` when it is inactive and the
daemon cannot know (the target asked for a logout, or an activation failed behind a
call that reports success). `second` marks a session whose name was given to another
one since.

### Steps

A call of the user client runs under `accessLock`, so it is one step on the table;
the operators of `SessionTable` say what it does, and `Sessions` which call comes
next and what becomes of its result. A request to the target and the header of its
answer are one step, as nothing of the table changes between; so is `CreateSession`,
although it publishes the slot and the name before its connect, which may block,
outside the gate: in the code another thread may find the half-made session a little
earlier than here. The data of the answer
is another, because `RecvData` does not look whether the connection is still there.
Between any two steps the other thread, a timeout or an asynchronous message may
change the table.

The code's own slips are in the model: `AddConnection` tests a status nobody has
set, so the new connection is always released; `GetNumConnections` reports an error
on every call, so `RemoveConnection` never removes; a query whose login was refused
by the target, not by an error, goes on with identifiers of a released session; a
failed `CreateSession` removes the name even if it was that of an older session; the
callback of an unmount that began before sleep logs out the slot it remembers.

### Properties

- `NameLeadsToItsSession`: what `targetList` says of a name is a session of that
  name. A stale entry would send the logout of one target to another.
- `FoundUnlessSecond`: a session is found by its name unless a second session was
  made for the name since. The exception is what the code does: a probe of a target
  that is logged in replaces and then removes its entry.
- `NothingForgotten`: unless the daemon died, a session with a connection that was
  never activated is in the hands of the thread that will release it, and one that
  timed out has its notification on the way or is in such hands. After a death the
  half-open sessions stay, as `clientClose` releases nothing.

## 5. `Preferences` and `Daemon`

### State

| Variables | In the code |
|---|---|
| `store`, `mirror` | the application values of `CFPreferences`; the daemon's `preferences` |
| `main` | what the main thread is doing; `blocked` when it waits for a lock that only it can release |
| `fd`, `ready`, `deaf` | `reqInfo->fd`, the signalled read source, the invalidated listening socket |
| `lock` | `preferencesMutex`, and the client that asked for it |
| `timer`, `discLock`, `thread`, `records`, `signaled`, `merging` | the discovery timer, `discoveryMutex`, the threads, `discoveryRecords` (null, live or freed), the discovery source, and what `iSCSIDProcessDiscoveryData` has yet to merge |
| `active`, `queued` | targets with a session; logins that wait for the network |
| `cl` | the `iscsictl` processes: where each is, its copy of the preferences, and what it sent and the daemon has not read |
| `overlap`, `overlaps` | history: whether this daemon started a discovery before the main thread was called for the last one (a crash makes it false); how many did, which is bounded |

### Steps

The run loop does one callback at a time, so a callback is one step, except where a
thread acts in between: a request is read and answered in one step, and what
`MSG_PEEK` finds after it is another; a merge takes one step per portal, as a
discovery thread may release the records meanwhile. A client is one process that
runs one command: lock, read the preferences again, ask whether targets are active,
send the edited preferences with the unlock, perhaps ask for a new discovery. Every
wait of a client may time out, and the answer that comes later is taken for that of
its next request, which has another function code and so fails.

What is in the code and therefore in the model: accepting a connection closes the
one before, and the lock its client holds stays locked; an answer to a client that
is gone raises SIGPIPE, whose handler drops the lock and the listening socket; the
test of `discoveryMutex` is inverted, so the first tick takes it and later ones
start threads; a tick looks at that lock only, while a thread unlocks it before it
signals the source and does not wake the run loop, so a tick may start the next
discovery with the records of the last still to be merged (`Quiescent` is false
then, and the discovery counts as one that overlaps); a getter creates the target it
is asked about; a login writes the alias and stores all of the daemon's object
without the lock; renaming a target to its own name removes it. Where the code
dereferences null or freed memory the process dies and launchd starts it again.
While the main thread is blocked its discovery threads take no step but the read of
a freed object, which is what could still end the process.

### Properties

- `DynamicIsListed`: a dynamic target is listed by the discovery portal that manages
  it. `iscsictl` refuses to remove a dynamic target, so one that no portal lists
  stays for ever.
- `MirrorAgrees`: whenever the main thread is at its run loop, the daemon's object
  agrees with what is stored, but for targets a getter created. It is what makes the
  write of a login harmless although it holds no lock.
- `RecordsLive`: as long as no discovery of this daemon started before the main
  thread was called for the last one, records that have been released are neither
  about to be merged nor to be released again. The comment in
  `iSCSIDProcessDiscoveryData` tells of that double free. The condition is one on the
  timing of the program, not something it sees to: a tick during a discovery, or
  between the end of one and the call of the source, breaks it, and then the double
  free happens. The property says that nothing else brings it about.
- `NoLostUpdate`: an edit that is stored is the client's command applied to what was
  stored at that moment, or changes nothing. Clients are displaced, time out and go
  while the lock passes on, so this does not follow from the lock being held.

## 6. `Negotiation`, `Login` and `Transfer`

### State

| Variables | In the code |
|---|---|
| `cfg`, `step`, `query`, `status`, `rsp` | the arguments of the login, the function it is in, `iSCSILoginQueryContext` with the loops of `iSCSISessionLoginQuery`, `*statusCode`, the response dictionary |
| `kern` | the kernel's TSIH, `expStatSN` and parameters of the session and connection; `skipped`, a history of the answers not counted for their number |
| `recs`, `name` | the discovery record; the static `targetIQN` of its parser |
| `out`, `in`, `tgt` | requests and answers on their way; the target |
| `task`, `burst`, `pdu`, `lost` | the task in flight, the loop of `ProcessDataOutForTask`, the PDU last sent, whether the connection timed out |
| `got`, `ask` | what the target has of the data, and what it asked for |

The target is external. It answers a request, keeps or changes its stage, refuses,
or closes the connection; it may choose any method it was offered, prove itself or
not, and answer with any of `Answers`. Every answer may come after the initiator has
stopped waiting. A digest is right or wrong. A dictionary is a function on the keys
that are present, a length is a few units.

One thing is assumed of its answers, `AnswersAssumption`: a target answers
`ImmediateData` if it is offered (RFC 3720, 5.2). The code relies on it. A key that is
not answered keeps the value the kernel was created with, which for this key is the
one offered: without an answer the initiator would send immediate data that nobody
agreed to, against `UnsolicitedAllowed`.

And one of its listings, `ListingsAssumption`: a listing has no other keys than
`TargetName` and `TargetAddress`, and starts with a name (RFC 3720, appendix D). The
parser does not check it. It keeps the name it read last in a static variable, which a
discovery that ended with a name without an address leaves for the next (`LastListed`);
a listing that starts with an address would be recorded under that name.

### Steps

A query is a loop of sends and receives, each a step, between which the target acts.
`AuthNegotiate`, `AuthNegotiateCHAP`, `NegotiateSession` and `QueryPortalForTargets`
say what follows the end of a query. `Transfer` goes on with the parameters left in
`kern`: `BeginWrite` sends the command with immediate data, `DataOut` one PDU of a
burst, `R2T` starts a burst.

Kept as the code has them: keys in the answer to an empty request are not parsed; an
error of a retry does not end the retries; the second half of an answer that
continues is awaited without asking for it; a portal group that differs is no error;
the outcome of the request that follows the choice of no authentication is not
looked at; portals of a listed target after its first address are dropped; the final
bit is not set when immediate data alone fills the first burst; rejects,
asynchronous messages and answers numbered 0xffffffff are not acknowledged.

### Properties

- `StagesAgree`: a session handed to the kernel, or used for a listing, is one the
  target has in full feature phase under the same TSIH.
- `TargetProved`: where the target is to be authenticated, no session is used with
  one that has not proved that it knows the secret.
- `AcknowledgesReceived`: `expStatSN` acknowledges what was received and nothing
  more, whatever the order of the answers. The login sets it and the driver counts
  on. It stays behind by the asynchronous messages, and by the answers whose number is
  0xffffffff, which the driver takes for unnumbered (`AllOnes`).

Numbers of answers are naturals, and `expStatSN` is one; the 32-bit value of `sn` is
`sn % Wrap`. The models only add to them and compare them, so that what is equal here
is equal modulo 2^32, and only the test for 0xffffffff looks at the value.
- `SegmentsFit`, `UnsolicitedAllowed`: data segments and unsolicited data stay
  within what the target declared, though the two sides keep separate copies of the
  parameters. What it declares only in the answer to an empty request, which the code
  does not parse, is exempt (`tgt.late`).
- `BurstsAssembled`: the target receives every burst without a gap, and the PDU it
  takes for the last one is.
- `RecordsAttributed`: a listed target is recorded with an address listed for it, or,
  if none is, with the portal of the listing. A listing comes in one answer or two, and
  the name the parser starts from may be left by the discovery before.
- `LoginEnds`: a login ends whatever the target answers and when.

## 7. Runs

The first eight use `MCVirtualHBA`, the others the MC module of their system. Each
gives the constants that are not model values.

| Run | Instance | Question |
|---|---|---|
| `two_connections` | 2 connections, 2 tasks, 4 calls, 1 fault | are tasks and counts right when connections come and go? |
| `resubmission` | 1 connection, 2 tasks submitted twice, 2 faults | do late answers and late timers meet the right submission? |
| `daemon_death` | 1 connection, 2 tasks, 3 calls, the daemon dies and returns | do the driver's own releases keep the invariants? |
| `progress` | 1 connection, 2 tasks, fairness | does everything that starts end? |
| `pop_not_noop` | expects a violation | see findings |
| `rejected_tasks` | expects a violation | see findings |
| `unmount` | expects a violation | see findings |
| `use_after_free` | expects a violation | see findings |
| `sessions` | 2 slots of 2 connections, 1 target, 2 portals, 2 operations, 1 query, 2 faults | do names lead to sessions, and is every session released? |
| `daemon` | 1 target, 1 discovery portal, 2 clients, 3 threads, 2 faults | do edits, merges and logins keep one another's changes? |
| `displaced` | 2 clients that add a target; expects a violation | see findings |
| `transfer` | 42 answers to the parameters, 2 retries, 1 task, 1 asynchronous message | does a login end right, and is data sent as agreed? |

**Bounds.** `MaxSubmits`, `MaxFaults` and `MaxCalls` cap submissions of a task,
events of the network, target and management functions, and calls of the daemon;
they appear in guards only. Two tasks are enough for every race of the queue, where
one is dispatched and one is waiting, and one of the two has tag 0. Two connections
are what the code allows (`kiSCSIMaxConnectionsPerSession`). Two calls are needed to
have an active connection, a third to deactivate or release it, and four for two
connections to be active. Two submissions are what it takes for an answer to be
late. `CounterMod` is 16 where the code has 2^32: no run moves the counter so far,
so it wraps only below zero, as the 32-bit counter would. Deadlock is not checked: a
bounded run ends, and so does one in which nobody calls.

**Bounds of the other runs.** `sessions`: two slots are what it takes for one to be
freed and taken again while its old identifier is in use, and for a session of a
portal query beside one of a target; two operations are a login and what undoes or
repeats it; the code has 16 slots and 2 connections, and the theorems hold for any
number. `daemon`: `MaxParties` is the number of clients that started plus the
discoveries that overlap another, so two clients meet, or one client and one such
discovery, or two of them. One target suffices for a rename to itself, and for a static and a
dynamic one of the same name. Commands are one of each kind of edit. Clients and
threads are symmetric. `transfer`: `MaxRetries` is 2 where the code has 5, as only
the first, a middle and the last retry differ. First burst 3, maximum burst 4 and
segment 2 are in the order of the RFC's defaults, so that a burst is more than one
segment with a short one at its end; `Wrap` is 4 and the first answer has number 3,
the one that stands for 0xffffffff, so that it meets the login and comes again in the
session; sizes 1 and 5 are below a segment and above a
burst. The answers take the keys that govern the data in every combination, and then
each key missing or out of range. The listings have a target with one address, two or
none, one after and one before others, the listing portal's own address, and nothing.
Deadlock is not checked: operations, faults and
tasks are bounded, and the daemon can wait for itself.

**Fairness** (`progress`, `transfer`). Weak fairness of the steps of a section: the
workloop thread runs. Strong fairness of `CheckForWork`, per connection: the
workloop asks each event source on every pass, although each may be disabled and
enabled in between. Weak fairness of the timers, strong fairness of `HandleTimeout`:
a thread that waits for the gate gets it again and again. Nothing is assumed of the
target, the network, the daemon or the stack. A step that ends in `panic` is one of
the outcomes the liveness properties name, and so is a connection that dies: the
code completes nothing for it.

In `transfer`, weak fairness of the initiator's steps of a login: its thread runs,
and a receive that gets nothing ends with the socket's time-out, which is one of
those steps. Nothing is assumed of the target, so `LoginEnds` covers one that falls
silent.

**Findings.** Each quotes the comment it contradicts in `PROJECT.json`.

- *The pop after a completion.* `completeCurrentTask` after a completion removes the
  head of the queue. If the stack has submitted a task meanwhile, that task is lost:
  not dispatched, and without a timer, as timers start at dispatch.
- *The drain.* Deactivating looks queued tags up in a list they enter only at
  dispatch, so queued tasks are dropped and not reported.
- *The count.* `numActiveConnections` is decremented for connections that are not
  active. A management request that fails on an inactive `connections[0]` un-mounts
  the target of the other connection.
- *After a release.* A handler that releases its connection returns to an event
  source that uses it.
- *The holder of the lock* (`displaced`). The comment on `iSCSIDAcceptConnection`
  says that a client is served to its end before anything else is. The code serves
  one request and returns to the run loop: the next connection closes that of the
  client that holds the lock, and the next lock request, or discovery data, makes
  the main thread wait for itself.

The models keep all five: the invariants are those the code does maintain with these
behaviours in it.

Two more states the model reaches, about which the code claims nothing: a connection
used between its publication and its initialisation (`slot` = `"raw"`), and
`ActivateConnection` going on with a connection that was released by a timer
(`CallUseAfterFree`).

## 8. Proofs

The assumptions are those of `ConstantsAssumption`: there is a connection, the
bounds are naturals, the special items are not tasks. The number of connections,
tasks, submissions and faults is arbitrary.

- `VirtualHBA_proofs`: lemmas on the queue operations (what `Tail`, `Append`,
  `RemoveTask` and `Undrained` keep of a sequence) and `TypeCorrect`. `Teardown` and
  `ConnectionTimeout` have a lemma each, so that every action that ends a connection
  cites one fact.
- `VirtualHBA_invariants`: `IInv` is `TypeOK` with `NoLostWakeup`, `OneHome`,
  `PendingIsCurrent`, `InHand` and `LiveSections` together. None of them is
  inductive alone. `OneHome` rests on `InHand` when an answer completes a task;
  `InHand` rests on `PendingIsCurrent` when the answer is read; that one rests on
  `OneHome` when a task is dispatched; all of them rest on `LiveSections`, since a
  section on a freed connection could do anything. The key step is
  `DrainFindsNothing`: by `OneHome` no queued task is registered, so the drain of
  `DeactivateConnection` completes nothing, and a teardown changes neither `bound`
  nor `busy`. It is the finding about the drain, for every queue. `TornIsSafe` then
  covers the twelve places that tear down, `CompletionHouses` the places that
  complete.
  Theorems: `NeverStranded`, `TaskHasOneHome`, `AnswersAreCurrent`, `AnswerIsTheLast`,
  `SectionsAreLive`, `DrainFindsNothing`.
- `ActiveCountIsExact`, in the same module, rests on an invariant of its own,
  `Accounted`. `Balance` is what the counter is off by: the counter, the surplus
  decrements and the activation that is not counted yet, less the enabled
  connections. It is a multiple of the counter's modulus, so the wrap below zero is
  in the theorem. It is one between sessions too, which begin and end with their
  connections; the exception is an activation that lost its connection with the
  session, and the other parts of `Accounted` tell such a call from one of the next
  session.
- `VirtualHBA_refinement`: `LifecycleImplemented`, which is `ImplementsLifecycle` for
  all constants. By `OneHome` only four combinations exist of a task being registered,
  in a queue, and waited for by the stack (`StateIs`), one for each state of
  `TaskLifecycle`. A step is mapped by how it changes them (`MoveIs`): most steps only
  take tasks out of queues, and the rest submit, dispatch or complete one.
- `Sessions_proofs`: for any number of slots, connections, names, portals and
  operations. `IInv` is `Consistent(table)` with the types of the threads and of
  what is pending. `Consistent` is that the table is one (`Tables`), that names lead
  to sessions of theirs (`Leads`) and that sessions are found (`Found`). Each
  operator of `SessionTable` has a lemma that it keeps `Consistent`, whatever
  identifiers it is given: that is why stale ones do no harm to the names. `Found`
  alone is not inductive: releasing a slot removes the entry of its name, and only
  `Leads` tells that no other session was found there. Theorems: `TypeCorrect`,
  `NamesLeadHome`, `SessionsAreFound`.
- `NothingIsForgotten`, in the same module, needs more than `NothingForgotten`, which
  speaks of sessions: `Kept` gives every connection that is off a thread that will
  activate or release that very connection, or release the session, and every one
  that is lost a notification of its own. The main thread holds one connection, so
  what keeps the others of its session is that they are not off, unless it is logging
  out.
- `Daemon_proofs`: for any number of clients, targets, portals and threads. `IInv`
  adds to the types: `Kept`, what the client that is connected has read and sent is
  based on what is stored as long as the lock is taken; `PrefsOK`, both objects list
  their dynamic targets, and agree except in a merge; `Alone`, as long as no discovery
  started before the main thread was called for the last one there is one thread, and
  while the source is signalled or the main thread merges there is none. `NoLostUpdate`
  needs `Kept`, and `Kept` needs that a merge starts only with the lock free, that
  logins store what agrees with what is stored (`PrefsOK`), and that a client sends
  its edit once (`GoodClient`); the lemmas on `Plain` show that targets a getter
  created make no difference to an edit. Theorems: `TypeCorrect`,
  `DynamicTargetsListed`, `MirrorNeverStale`, `RecordsStayLive`, `NoUpdateLost`.

- `Login_proofs`, `Login_invariants`: for any answers, listings and number of retries,
  and whatever the order of sends, answers and time-outs. The two lines of messages
  are described by their elements (`Appended`, `Popped`), and the steps of both sides
  by what they do to them (`TargetSteps`, `InitiatorSteps`); each part of the invariant
  is then kept by each of these. The parts:
  - `Shapes`: types, and the stages and requests a query can have.
  - `AskedOnce`: our challenge and the parameters are each asked for once, and before
    that nothing of their answers is anywhere. It is what allows a late answer to be
    taken for another one without harm.
  - `Numbered`: the numbers of the answers on their way, and of those acknowledged.
    `Lag` is what was read beyond `expStatSN`, less what was skipped for its number;
    `AdvancedIs` says that every answer read moves one of the two.
  - `Staged`: who claims a stage has a target in that stage. A late answer that moves
    to a stage may be of the authentication; `ErrorRecoveryLevel`, without which no
    parameters are accepted, tells an answer to the parameters from it.
  - `Verified`: a right answer to our challenge comes from a target that proved itself.
  - `Heard`: what the target declared reaches the dictionary, all of it or nothing that
    matters, but for what it says in its answers to empty requests, which are not
    parsed. From it follows `Governed`: in full feature phase the kernel's parameters
    are within what the target declared.
  - `Bounded`: a query sends one request per try and reads an answer before it tries
    again, so only time-outs let messages pile up. They could over several queries: a
    login is three or four of them. They do not, because a query that goes on after
    more than one try was moved to the next stage, and what it leaves on its way is
    refused there.
  - `ListingRead`: the listing is asked for once, so that the parts of it on their way
    are parts of one listing, in order, and what was recorded is what its first `n`
    pairs say (`IsRead`), for all its pairs when the query has ended well. What the
    parser makes of pairs is a recursive function of them. `ListingParsed` says what
    that is without recursion, for answers of any length, by induction on the length
    of the answer: the induction theorems of the library take an operator, which no
    prover here can instantiate, so `SetInduction` states induction up to a number
    for a set, and proves it from the least number outside the set (`WFMin`).
- `Transfer_proofs`: `LoginPart` is all of these, and that the kernel lags by the
  asynchronous messages (`Acknowledged`). `DataPart`: nothing is sent before the login
  ends (`Unused`), what was sent last is within the parameters (`Sent`), and what is
  still to be sent goes on where the target is and ends where it expects (`Sending`).
  Theorems: `TypeCorrect`, `PhasesAgree`, `MutualAuthentication`,
  `AnswersAcknowledged`, `ListingsRecorded`, `SegmentsWithinDeclared`,
  `UnsolicitedWithinAgreed`, `BurstsWithoutGap`.

The assumptions of each are those its modules state of their constants, none of which
bounds a set. Every safety property a passing run checks is a theorem.

Only model-checked: the liveness properties (`LoginEnds`, `GateReleased`,
`QueuedTaskLeaves`, `DispatchedTaskEnds`: fairness and `ENABLED` are beyond the
prover).

## 9. Not modelled, and why

- The header buffer of the user client: in `Sessions` a request is one step, so the
  header of one thread never meets the data of the other.
- Requests of the daemon that only read (active portals, properties of sessions and
  connections), shared secrets, and the commands of `iscsictl` that list: they
  change nothing that a decision here depends on.
- Settings of a target that are stored and read back, among them those that decide
  how its sessions are negotiated: `Login` takes what the initiator offers as a
  constant.
- `ActivateAllConnections`, and the mounting of volumes: nothing calls them.
- The daemon reading PDUs of a deactivated connection: that would only shrink
  `pending` of `VirtualHBA`.
- `maxCmdSN` and `expCmdSN`: stored, and read by nothing. `dataToTransfer`, which
  drifts when tasks fail, skews the choice of a connection, which is any choice
  here.
- Data-in segments: their bytes go to the buffer of the stack. Digests: whether one
  matches is a choice in `DropPDU`.
- Missing keys that make the authentication dereference null: the target of `Login`
  sends `AuthMethod`.
- Termination of the controller, where the gate may be gone.
- The legacy client (`Kernel/iSCSIInitiatorClient.*`,
  `User/iscsid/iSCSIKernelInterface.*`): in no build target.
- The task tag, checksums, the bus object, keychain, rights and registry calls,
  argument parsing, views and scripts: no protocol of their own.
- The menu bar application: it runs `iscsictl` and reads its output; the operations
  that overlap on one target are a hazard listed in `PROJECT.json`.
