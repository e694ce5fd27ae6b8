------------------------------ MODULE Transfer ------------------------------
(***************************************************************************)
(* The data of a task on a connection in full feature phase, governed by   *)
(* the parameters the login left: a command with immediate data, data-out  *)
(* PDUs of the first burst and of each R2T, and data-in.  The workloop     *)
(* sends the PDUs of a burst one after another; each is a step.  One task  *)
(* is in flight; the queue it came from is in VirtualHBA.                  *)
(***************************************************************************)
EXTENDS Login

CONSTANTS
    Sizes,      \* the sizes of a transfer
    MaxTasks,   \* bound: tasks
    MaxAsync    \* bound: asynchronous messages of the target

ASSUME TransferAssumption ==
    Sizes \subseteq Nat /\ MaxTasks \in Nat /\ MaxAsync \in Nat

VARIABLES
    task,       \* the task in flight: what it is, its size, what has been sent
    burst,      \* the loop over data-out PDUs: offset, what is left, dataSN
    pdu,        \* the data last sent, and whether it ends what was announced
    lost,       \* the connection has timed out
    got,        \* the target: what it has of the task's data
    ask,        \* and what it asked for last
    tasks, asyncs   \* counters of the bounds

taskVars == <<task, burst, pdu, lost, got, ask, tasks, asyncs>>

NoTask == [op |-> "none", size |-> 0, realized |-> 0]
NoBurst == [off |-> 0, left |-> 0, sn |-> 0, tag |-> "none"]
NoAsk == [off |-> 0, len |-> 0]
NoPDU == [kind |-> "none", off |-> 0, len |-> 0, sn |-> 0, final |-> FALSE]

\* What the target has once it receives len bytes at off: a gap spoils it.
Gap == -1
Received(off, len) == IF off = got THEN got + len ELSE Gap

TransferInit ==
    /\ task = NoTask /\ burst = NoBurst /\ pdu = NoPDU
    /\ lost = FALSE /\ got = 0 /\ ask = NoAsk
    /\ tasks = 0 /\ asyncs = 0

Ready == step = "full" /\ ~ lost
Idle == burst.left = 0
InFlight == task.op # "none"

(***************************************************************************)
(* ActivateConnection sets the length of immediate data once, from the     *)
(* parameters, which do not change any more.                               *)
(***************************************************************************)
immediateDataLength == Smaller(kern.par[MaxSegment], kern.par["FirstBurstLength"])

\* Slip: what the target can take in a segment is forgotten.
ImmediateUnlimited(size) ==
    IF kern.par["ImmediateData"] THEN Smaller(kern.par["FirstBurstLength"], size)
    ELSE 0
Immediate(size) ==
    IF kern.par["ImmediateData"] THEN Smaller(immediateDataLength, size) ELSE 0

\* The unsolicited data-out PDUs after the command.  Slip: the first burst is
\* counted without the immediate data.
FirstBurstAnew(size, off) ==
    IF ~ kern.par["InitialR2T"] /\ off < kern.par["FirstBurstLength"] /\ off < size
    THEN [off |-> off, left |-> Smaller(kern.par["FirstBurstLength"], size - off),
          sn |-> 0, tag |-> "unsolicited"]
    ELSE NoBurst
FirstBurst(size, off) ==
    IF ~ kern.par["InitialR2T"] /\ off < kern.par["FirstBurstLength"] /\ off < size
    THEN [off |-> off, sn |-> 0, tag |-> "unsolicited",
          left |-> Smaller(kern.par["FirstBurstLength"] - off, size - off)]
    ELSE NoBurst

\* BeginTaskOnWorkloopThread; kiSCSIPDUSCSICmdFlagNoUnsolicitedData is final.
BeginWrite ==
    /\ Ready /\ ~ InFlight /\ tasks < MaxTasks
    /\ \E size \in Sizes :
        LET off == Immediate(size)
        IN  /\ task' = [op |-> "write", size |-> size, realized |-> off]
            /\ burst' = FirstBurst(size, off)
            /\ pdu' = [kind |-> "command", off |-> 0, len |-> off, sn |-> 0,
                       final |-> kern.par["InitialR2T"] \/ off = size]
            /\ got' = off
    /\ ask' = NoAsk /\ tasks' = tasks + 1
    /\ UNCHANGED <<loginVars, lost, asyncs>>

BeginRead ==
    /\ Ready /\ ~ InFlight /\ tasks < MaxTasks
    /\ \E size \in Sizes :
        /\ task' = [op |-> "read", size |-> size, realized |-> 0]
        /\ pdu' = [NoPDU EXCEPT !.kind = "command", !.final = TRUE]
    /\ burst' = NoBurst /\ got' = 0 /\ ask' = NoAsk
    /\ tasks' = tasks + 1
    /\ UNCHANGED <<loginVars, lost, asyncs>>

(***************************************************************************)
(* ProcessDataOutForTask: one turn of its loop.                            *)
(***************************************************************************)
\* Slip: the last PDU is the one that is shorter.
IsLastShort(left) == left < kern.par[MaxSegment]
IsLast(left) == left <= kern.par[MaxSegment]

DataOut ==
    /\ Ready /\ InFlight /\ ~ Idle
    /\ LET len == Smaller(burst.left, kern.par[MaxSegment])
       IN  /\ pdu' = [kind |-> burst.tag, off |-> burst.off, len |-> len,
                      sn |-> burst.sn, final |-> IsLast(burst.left)]
           /\ burst' = [burst EXCEPT !.off = @ + len, !.left = @ - len,
                                     !.sn = @ + 1]
           /\ task' = [task EXCEPT !.realized = @ + len]
           /\ got' = Received(burst.off, len)
    /\ UNCHANGED <<loginVars, lost, ask, tasks, asyncs>>

\* A send or a receive fails: HandleConnectionTimeout.
ConnectionLost ==
    /\ Ready
    /\ lost' = TRUE /\ task' = NoTask /\ burst' = NoBurst
    /\ UNCHANGED <<loginVars, pdu, got, ask, tasks, asyncs>>

(***************************************************************************)
(* The target's PDUs.  It asks for what it does not have, no more at once  *)
(* than the burst it agreed to, and answers when it has all or wants no    *)
(* more.  RecvPDUHeader counts an answer with a status (see Counted).      *)
(***************************************************************************)
Theirs(key) ==
    IF key \in DOMAIN tgt.heard THEN Smaller(Offered[key], tgt.heard[key])
    ELSE Offered[key]

\* expStatSN moves with a status that has a task.  Slip: it moves with an R2T.
HasStatusOrR2T(op) == op \notin {"data", "async"}
HasStatus(op) == op \notin {"R2T", "data", "async"}

Hears(op, advances) ==
    /\ kern' = IF HasStatus(op) THEN Advanced(kern, tgt.sn) ELSE kern
    /\ tgt' = IF advances THEN [tgt EXCEPT !.sn = @ + 1] ELSE tgt
    /\ UNCHANGED <<cfg, step, query, status, rsp, recs, name, out, in>>

\* ProcessR2T
R2T ==
    /\ Ready /\ tgt.open /\ task.op = "write" /\ Idle /\ got < task.size
    /\ \E len \in 1 .. Smaller(Theirs("MaxBurstLength"), task.size - got) :
        /\ ask' = [off |-> got, len |-> len]
        /\ burst' = [off |-> got, left |-> len, sn |-> 0, tag |-> "solicited"]
    /\ Hears("R2T", FALSE)
    /\ UNCHANGED <<task, pdu, lost, got, tasks, asyncs>>

\* ProcessSCSIResponse completes the task, all of it realized.
SCSIResponse ==
    /\ Ready /\ tgt.open /\ InFlight /\ Idle
    /\ task' = NoTask
    /\ Hears("response", TRUE)
    /\ UNCHANGED <<burst, pdu, lost, got, ask, tasks, asyncs>>

\* ProcessDataIn: data in the range of the task is written; a status ends it.
DataIn ==
    /\ Ready /\ tgt.open /\ task.op = "read" /\ got < task.size
    /\ \E len \in 1 .. task.size - got, final \in BOOLEAN :
        /\ final => got + len = task.size
        /\ task' = IF final THEN NoTask
                   ELSE [task EXCEPT !.realized = got + len]
        /\ got' = got + len
        /\ Hears(IF final THEN "response" ELSE "data", final)
    /\ UNCHANGED <<burst, pdu, lost, ask, tasks, asyncs>>

\* A SCSI or vendor event, which ProcessAsyncMsg ignores: it has a status number and no task tag.
AsyncMessage ==
    /\ Ready /\ tgt.open /\ asyncs < MaxAsync
    /\ asyncs' = asyncs + 1
    /\ Hears("async", TRUE)
    /\ UNCHANGED <<task, burst, pdu, lost, got, ask, tasks>>

TransferNext ==
    \/ BeginWrite \/ BeginRead \/ DataOut \/ ConnectionLost
    \/ R2T \/ SCSIResponse \/ DataIn \/ AsyncMessage

Init == LoginInit /\ TransferInit
Next == (LoginNext /\ UNCHANGED taskVars) \/ TransferNext
vars == <<loginVars, taskVars>>

\* The initiator's thread runs, and its receive ends with the socket's time-out.
Spec == Init /\ [][Next]_vars /\ WF_vars(Initiator /\ UNCHANGED taskVars)

(***************************************************************************)
(* Properties                                                              *)
(***************************************************************************)
TypeOK ==
    /\ cfg \in Configs /\ step \in Steps /\ query \in QueryTypes
    /\ status \in {"success", "failure", "refused"}
    /\ kern.tsih \in {0, 1} /\ kern.ack \in Nat /\ kern.skipped \in Nat
    /\ DOMAIN kern.par = Keys
    /\ \A k \in Numeric : kern.par[k] \in Nat
    /\ \A k \in Flags \cup Digests : kern.par[k] \in BOOLEAN
    /\ Len(out) <= 1 + MaxRetries /\ Len(in) <= 1 + MaxRetries
    /\ tgt.stage \in Stages /\ tgt.sn \in Nat /\ tgt.open \in BOOLEAN
    /\ task \in [op : {"none", "read", "write"}, size : Sizes \cup {0},
                 realized : Nat]
    /\ burst \in [off : Nat, left : Nat, sn : Nat,
                  tag : {"none", "unsolicited", "solicited"}]
    /\ lost \in BOOLEAN /\ got \in Nat \cup {Gap}

(***************************************************************************)
(* Both sides enter full feature phase together: a session that is handed  *)
(* to the kernel, or used to list targets, is one the target has in that   *)
(* phase, and both know it by the same identifier.                         *)
(***************************************************************************)
StagesAgree ==
    step \in {"text", "full", "listed"} =>
        tgt.stage = "full" /\ kern.tsih = tgt.tsih

(***************************************************************************)
(* Where the target is to be authenticated, no session is used with one    *)
(* that has not proved that it knows the secret.                           *)
(***************************************************************************)
TargetProved ==
    step \in {"text", "full", "listed"} /\ cfg.initiator = "CHAP"
        /\ cfg.target = "CHAP" => tgt.proved

(***************************************************************************)
(* expStatSN, which every PDU of the initiator carries, acknowledges what  *)
(* has been received and nothing more, whatever the order in which answers *)
(* came, late ones included.  Of a session in use it lags only by the      *)
(* asynchronous messages and by the answers whose number is 0xffffffff,    *)
(* neither of which RecvPDUHeader counts: for the rest of the connection   *)
(* it then never acknowledges all that was received.                       *)
(***************************************************************************)
AcknowledgesReceived ==
    /\ kern.ack <= tgt.sn - Len(in)
    /\ step = "full" => kern.ack = tgt.sn - Len(in) - asyncs - kern.skipped

(***************************************************************************)
(* No data segment is longer than the target declared it can take, unless  *)
(* it declared it in the answer to an empty request, which is not parsed.  *)
(***************************************************************************)
SegmentsFit ==
    pdu.kind # "none" /\ MaxSegment \in DOMAIN tgt.heard /\ ~ tgt.late =>
        pdu.len <= tgt.heard[MaxSegment]

(***************************************************************************)
(* Data the target did not ask for stays within what it agreed to.         *)
(***************************************************************************)
UnsolicitedAllowed ==
    pdu.kind \in {"command", "unsolicited"} =>
        /\ pdu.off + pdu.len <= Theirs("FirstBurstLength") \/ pdu.len = 0
        /\ pdu.kind = "command" /\ ~ Says(tgt.heard, "ImmediateData") => pdu.len = 0
        /\ pdu.kind = "unsolicited" => ~ Says(tgt.heard, "InitialR2T")

(***************************************************************************)
(* What the target receives has no gap, is what it asked for, and the PDU  *)
(* it takes for the last one is: nothing of the burst follows it, and when *)
(* nothing follows it was told so, unless immediate data alone filled the  *)
(* first burst.                                                            *)
(***************************************************************************)
BurstsAssembled ==
    /\ got # Gap
    /\ task.op = "write" /\ ~ Idle => ~ pdu.final \/ burst.sn = 0
    /\ burst.tag = "solicited" /\ InFlight =>
        burst.off = got /\ burst.off + burst.left = ask.off + ask.len
    /\ task.op = "write" /\ Idle /\ ~ pdu.final =>
        pdu.kind = "command" /\ got = kern.par["FirstBurstLength"]

(***************************************************************************)
(* A target of a listing is recorded with an address that was listed for   *)
(* it, or, if none was, with the portal the list came from.                *)
(***************************************************************************)
FollowedBy(t) ==
    {tgt.list[i].val : i \in
        {j \in DOMAIN tgt.list : tgt.list[j].key = "TargetAddress"
            /\ \E k \in 1 .. j - 1 : tgt.list[k] = [key |-> "TargetName", val |-> t]
                /\ \A m \in k + 1 .. j : tgt.list[m].key = "TargetAddress"}}

RecordsAttributed ==
    /\ \A r \in recs : r[2] \notin {Nobody, Here} => r[2] \in FollowedBy(r[1])
    /\ step = "listed" => \A t \in Recorded :
        IF FollowedBy(t) = {} THEN <<t, Here>> \in recs
        ELSE /\ <<t, Here>> \in recs => Here \in FollowedBy(t)
             /\ \E p \in FollowedBy(t) : <<t, p>> \in recs

(***************************************************************************)
(* A login ends, whatever the target answers and when.                     *)
(***************************************************************************)
LoginEnds == Querying ~> ~ Querying
=============================================================================
