------------------------- MODULE VirtualHBA_refinement -------------------------
(***************************************************************************)
(* The HBA implements the life of a task: under the mapping TaskState each *)
(* of its steps moves every task along TaskLifecycle, or leaves it.        *)
(***************************************************************************)
EXTENDS VirtualHBA_invariants

InQueue(t) == \E c \in Conns : t \in Queued(c)

TaskMoves(t) ==
    TaskState(t)' # TaskState(t) => <<TaskState(t), TaskState(t)'>> \in Lifecycle!Moves
AllMove == \A t \in Tasks : TaskMoves(t)

\* Where a task is, by the sets it is in: OneHome leaves four combinations.
LEMMA StateIs ==
  ASSUME OneHome, NEW t \in Tasks
  PROVE  \/ TaskState(t) = "sent" /\ t \in bound /\ t \in busy /\ ~ InQueue(t)
         \/ TaskState(t) = "queued" /\ t \notin bound /\ t \in busy /\ InQueue(t)
         \/ TaskState(t) = "lost" /\ t \notin bound /\ t \in busy /\ ~ InQueue(t)
         \/ TaskState(t) = "idle" /\ t \notin bound /\ t \notin busy /\ ~ InQueue(t)
<1>1. t # Probe
  BY ConstantsAssumption
<1>2. InQueue(t) => t \in busy \ bound
  BY <1>1 DEF InQueue, OneHome
<1> QED BY <1>2 DEF TaskState, InQueue, OneHome

\* The same of the next state.
LEMMA StateNext ==
  ASSUME OneHome', NEW t \in Tasks
  PROVE  \/ TaskState(t)' = "sent" /\ t \in bound' /\ t \in busy' /\ ~ InQueue(t)'
         \/ TaskState(t)' = "queued" /\ t \notin bound' /\ t \in busy' /\ InQueue(t)'
         \/ TaskState(t)' = "lost" /\ t \notin bound' /\ t \in busy' /\ ~ InQueue(t)'
         \/ TaskState(t)' = "idle" /\ t \notin bound' /\ t \notin busy' /\ ~ InQueue(t)'
<1>1. t # Probe
  BY ConstantsAssumption
<1>2. InQueue(t)' => t \in busy' \ bound'
  BY <1>1 DEF InQueue, OneHome
<1> QED BY <1>2 DEF TaskState, InQueue, OneHome

\* The moves, by what becomes of the sets.
LEMMA MoveIs ==
  ASSUME OneHome, OneHome', NEW t \in Tasks,
         \/ /\ t \in bound <=> t \in bound'
            /\ t \in busy <=> t \in busy'
            /\ InQueue(t)' => InQueue(t)
         \/ t \notin busy /\ t \in busy' /\ InQueue(t)'
         \/ InQueue(t) /\ t \in bound'
         \/ t \notin busy'
  PROVE  TaskMoves(t)
BY StateIs, StateNext DEF TaskMoves, Lifecycle!Moves

-----------------------------------------------------------------------------
(***************************************************************************)
(* The steps, by what they do to all tasks.                                *)
(***************************************************************************)
Shrunk(Q) == \A c \in Conns : Elems(queue'[c]) \subseteq Elems(Q[c]) \cup {Probe}

\* No task is registered or completed, and none is queued.
LEMMA ShrinkMoves ==
  ASSUME OneHome, OneHome', bound' = bound, busy' = busy, Shrunk(queue)
  PROVE  AllMove
<1> SUFFICES ASSUME NEW t \in Tasks PROVE TaskMoves(t)
  BY DEF AllMove
<1>1. t # Probe
  BY ConstantsAssumption
<1>2. InQueue(t)' => InQueue(t)
  BY <1>1 DEF InQueue, Queued, Shrunk, Elems
<1> QED BY <1>2, MoveIs

\* One task is completed.
LEMMA CompletionMoves ==
  ASSUME OneHome, OneHome', NEW t, bound' = bound \ {t}, busy' = busy \ {t}, Shrunk(queue)
  PROVE  AllMove
<1> SUFFICES ASSUME NEW u \in Tasks PROVE TaskMoves(u)
  BY DEF AllMove
<1>1. u # Probe
  BY ConstantsAssumption
<1>2. InQueue(u)' => InQueue(u)
  BY <1>1 DEF InQueue, Queued, Shrunk, Elems
<1> QED BY <1>2, MoveIs

\* A section tears down connections.
LEMMA TornMoves ==
  ASSUME OneHome, OneHome', NEW R \in SUBSET Conns, Torn(R, queue, bound)
  PROVE  AllMove
BY ShrinkMoves DEF Torn, PartOf, Shrunk

\* The teardown of a failed send or receive takes no task backwards.
LEMMA TimeoutMoves ==
  ASSUME IInv, OneHome', NEW c \in Conns, NEW A, ConnectionTimeout(c, queue, bound, A)
  PROVE  AllMove
<1>1. Housed(queue, bound) /\ queue \in [Conns -> Seq(Items)] /\ bound \in SUBSET Tasks
      /\ OneHome /\ TypeOK
  BY HousedNow DEF IInv, Safe, TypeOK
<1>2. PICK R \in SUBSET Conns : Torn(R, queue, bound)
  BY <1>1, ConnectionTimeoutTears
<1> QED BY <1>1, <1>2, TornMoves

\* Nor does any other.
LEMMA TeardownMoves ==
  ASSUME IInv, OneHome', NEW D \in SUBSET Conns, NEW R \in SUBSET Conns, NEW e \in BOOLEAN,
         Teardown(D, R, e, queue, bound, armed)
  PROVE  AllMove
<1>1. Housed(queue, bound) /\ queue \in [Conns -> Seq(Items)] /\ bound \in SUBSET Tasks
      /\ OneHome /\ TypeOK
  BY HousedNow DEF IInv, Safe, TypeOK
<1>2. Torn(R, queue, bound)
  BY <1>1, TeardownTears
<1> QED BY <1>1, <1>2, TornMoves

\* What a completion leaves in the queues.
LEMMA CompletionShrinks ==
  ASSUME NEW c \in Conns, NEW t, NEW Q \in [Conns -> Seq(Items)], CompleteParallelTask(c, t, Q)
  PROVE  bound' = bound \ {t} /\ busy' = busy \ {t} /\ Shrunk(Q)
<1>1. Elems(Append(Q[c], Probe)) = Elems(Q[c]) \cup {Probe}
  BY AppendSeq DEF Items
<1>2. ASSUME NEW d \in Conns PROVE Elems(queue'[d]) \subseteq Elems(Q[d]) \cup {Probe}
  <2>1. queue'[d] = Q[d] \/ (d = c /\ queue'[d] = Append(Q[c], Probe))
    BY DEF CompleteParallelTask
  <2> QED BY <1>1, <2>1
<1> QED BY <1>2 DEF CompleteParallelTask, Shrunk

\* The loop takes the head of a queue off and registers it.
LEMMA DispatchMoves ==
  ASSUME IInv, OneHome', Dispatch
  PROVE  AllMove
<1> DEFINE c == wl.conn
           item == Head(queue[c])
           Q == Dequeue(c)
           B == bound \cup ({item} \cap Tasks)
<1>1. /\ OneHome /\ TypeOK /\ Housed(queue, bound)
      /\ c \in Conns /\ queue[c] \in Seq(Items) /\ queue[c] # <<>>
      /\ queue \in [Conns -> Seq(Items)]
  BY HousedNow DEF IInv, Safe, TypeOK, Dispatch
<1>2. /\ item \in Elems(queue[c]) /\ Tail(queue[c]) \in Seq(Items)
      /\ PartOf(Tail(queue[c]), queue[c]) /\ item \notin Elems(Tail(queue[c]))
  BY <1>1, TailSeq DEF Housed
<1>3. Q \in [Conns -> Seq(Items)] /\ Q[c] = Tail(queue[c])
      /\ \A d \in Conns : d # c => Q[d] = queue[d]
  BY <1>1, <1>2 DEF Dequeue
<1>4. \A d \in Conns : Elems(Q[d]) \subseteq Elems(queue[d])
  BY <1>2, <1>3 DEF PartOf
<1>5. \A t \in {item} \cap Tasks : t \in busy /\ InQueue(t)
  BY <1>1, <1>2, ConstantsAssumption DEF Housed, InQueue, Queued
<1> HIDE DEF c, item, Q, B
<1>6. Housed(Q, B)
  <2>1. B \subseteq busy
    BY <1>1, <1>5 DEF Housed, B
  <2>2. ASSUME NEW d \in Conns
        PROVE  /\ Q[d] # <<>> => slot[d] # "empty"
               /\ Distinct(Q[d])
               /\ \A t \in Elems(Q[d]) \ {Probe} : t \in busy \ B /\ hbaData[t] = d
    <3>1. CASE d = c
      BY <1>1, <1>2, <1>3, <3>1 DEF Housed, PartOf, B
    <3>2. CASE d # c
      <4>1. \A t \in Elems(queue[d]) \ {Probe} : t # item \/ item = Probe
        BY <1>1, <1>2, <3>2 DEF Housed
      <4> QED BY <1>1, <1>3, <3>2, <4>1 DEF Housed, B
    <3> QED BY <3>1, <3>2
  <2> QED BY <2>1, <2>2 DEF Housed
<1>7. bound' = B /\ busy' = busy /\ \A d \in Conns : Elems(queue'[d]) \subseteq Elems(Q[d])
  <2>1. CASE queue' = Q /\ bound' = B /\ busy' = busy
    BY <2>1
  <2>2. CASE ConnectionTimeout(c, Q, B, SetTimeout(item))
    <3>1. B \in SUBSET Tasks
      BY <1>1 DEF TypeOK, B
    <3>2. PICK R \in SUBSET Conns : Torn(R, Q, B)
      BY <1>1, <1>3, <1>6, <2>2, <3>1, ConnectionTimeoutTears
    <3> QED BY <3>2 DEF Torn, PartOf
  <2> QED BY <2>1, <2>2 DEF Dispatch, c, item, Q, B
<1> SUFFICES ASSUME NEW t \in Tasks PROVE TaskMoves(t)
  BY DEF AllMove
<1>8. InQueue(t)' => InQueue(t)
  BY <1>4, <1>7 DEF InQueue, Queued, Elems
<1> QED BY <1>1, <1>5, <1>7, <1>8, MoveIs DEF B

\* The stack submits a task that it is not waiting for.
LEMMA SubmissionMoves ==
  ASSUME IInv, OneHome', NEW t \in Tasks, NEW c \in Conns, ProcessParallelTask(t, c)
  PROVE  AllMove
<1>1. /\ OneHome /\ queue \in [Conns -> Seq(Items)] /\ t \in Items
      /\ bound' = bound /\ busy' = busy \cup {t} /\ t \notin busy
      /\ queue' = [queue EXCEPT ![c] = Append(queue[c], t)]
  BY DEF IInv, Safe, TypeOK, ProcessParallelTask, RegisteredOnSubmit, Items
<1>2. Elems(Append(queue[c], t)) = Elems(queue[c]) \cup {t}
  BY <1>1, AppendSeq
<1>3. \A d \in Conns : Elems(queue'[d]) = Elems(queue[d]) \cup (IF d = c THEN {t} ELSE {})
  BY <1>1, <1>2
<1> SUFFICES ASSUME NEW u \in Tasks PROVE TaskMoves(u)
  BY DEF AllMove
<1>4. InQueue(u)' <=> InQueue(u) \/ u = t
  BY <1>3 DEF InQueue, Queued, Elems
<1> QED BY <1>1, <1>4, MoveIs

\* The timer of a task fires when the task may have been answered, or lost.
LEMMA HandleTimeoutMoves ==
  ASSUME IInv, OneHome', NEW t \in Tasks, HandleTimeout(t)
  PROVE  AllMove
<1> DEFINE c == hbaData[t]
<1>0. OneHome /\ c \in Conns /\ queue \in [Conns -> Seq(Items)]
  BY DEF IInv, Safe, TypeOK
<1>1. CASE UNCHANGED <<queue, bound, busy>>
  BY <1>0, <1>1, ShrinkMoves DEF Shrunk
<1>2. CASE ConnectionTimeout(c, queue, bound, armed)
  BY <1>0, <1>2, TimeoutMoves
<1>3. CASE CompleteParallelTask(c, t, [queue EXCEPT ![c] = RemoveTask(@, t)])
  <2> DEFINE Q == [queue EXCEPT ![c] = RemoveTask(@, t)]
  <2>1. RemoveTask(queue[c], t) \in Seq(Items) /\ PartOf(RemoveTask(queue[c], t), queue[c])
    BY <1>0, RemoveTaskSeq
  <2>2. Q \in [Conns -> Seq(Items)] /\ \A d \in Conns : Elems(Q[d]) \subseteq Elems(queue[d])
    BY <1>0, <2>1 DEF PartOf
  <2> HIDE DEF c, Q
  <2>3. bound' = bound \ {t} /\ busy' = busy \ {t} /\ Shrunk(Q)
    BY <1>0, <1>3, <2>2, CompletionShrinks DEF Q
  <2>4. Shrunk(queue)
    BY <2>2, <2>3 DEF Shrunk
  <2> QED BY <1>0, <2>3, <2>4, CompletionMoves
<1> QED BY <1>1, <1>2, <1>3 DEF HandleTimeout, Panic, connVars, taskVars

\* Every step moves every task along the life of a task.
LEMMA StepMoves ==
  ASSUME IInv, OneHome', [Next]_vars
  PROVE  AllMove
<1>0. /\ OneHome /\ queue \in [Conns -> Seq(Items)] /\ wl.conn \in Conns /\ 0 \in Conns
      /\ Active \in SUBSET Conns /\ NonEmpty \in SUBSET Conns
  BY ConnsFinite DEF IInv, Safe, TypeOK, Active, NonEmpty
<1>1. CASE UNCHANGED <<queue, bound, busy>>
  BY <1>0, <1>1, ShrinkMoves DEF Shrunk
<1>2. ASSUME NEW t \in Tasks, NEW c \in Conns, ProcessParallelTask(t, c) PROVE AllMove
  BY <1>2, SubmissionMoves
<1>3. ASSUME NEW t \in Tasks, HandleTimeout(t) PROVE AllMove
  BY <1>3, HandleTimeoutMoves
<1>4. CASE Dispatch
  BY <1>4, DispatchMoves
<1>5. CASE UnsolicitedDataFails \/ HandlerIOFails \/ TaskMgmtRequest
  BY <1>0, <1>1, <1>5, TimeoutMoves DEF UnsolicitedDataFails, HandlerIOFails, TaskMgmtRequest
<1>6. CASE ProcessSCSIResponse
  <2>1. CASE CompleteParallelTask(wl.conn, wl.pdu[1], queue)
    BY <1>0, <2>1, CompletionShrinks, CompletionMoves
  <2> QED BY <1>1, <1>6, <2>1 DEF ProcessSCSIResponse
<1>7. CASE CompleteCurrentTask \/ ProcessNOPIn
  <2>1. bound' = bound /\ busy' = busy /\ queue' = [queue EXCEPT ![wl.conn] = PopHead(queue[wl.conn])]
    BY <1>7 DEF CompleteCurrentTask, ProcessNOPIn, taskVars
  <2>2. Elems(PopHead(queue[wl.conn])) \subseteq Elems(queue[wl.conn])
    BY <1>0, PopHeadSeq DEF PartOf
  <2>3. Shrunk(queue)
    BY <1>0, <2>1, <2>2 DEF Shrunk
  <2> QED BY <1>0, <2>1, <2>3, ShrinkMoves
<1>8. ASSUME NEW e \in AsyncEvents, ProcessAsyncMsg(e) PROVE AllMove
  <2>1. PICK D \in SUBSET Conns, R \in SUBSET Conns, x \in BOOLEAN :
          Teardown(D, R, x, queue, bound, armed)
    BY <1>0, <1>8 DEF ProcessAsyncMsg
  <2> QED BY <2>1, TeardownMoves
<1>9. CASE ConnectDone
  <2>1. bound' = bound /\ busy' = busy
        /\ (queue' = queue \/ queue' = [queue EXCEPT ![uc.conn] = <<>>])
    BY <1>9 DEF ConnectDone, CallFrame, taskVars
  <2>2. Elems(<<>>) = {}
    BY EmptySeq DEF Elems
  <2>3. Shrunk(queue)
    BY <1>0, <2>1, <2>2 DEF Shrunk
  <2> QED BY <1>0, <2>1, <2>3, ShrinkMoves
<1>10. ASSUME NEW c \in Conns, DeactivateConnection(c) \/ ReleaseConnection(c) PROVE AllMove
  BY <1>0, <1>10, TeardownMoves DEF DeactivateConnection, ReleaseConnection
<1>11. CASE DeactivateAllConnections \/ ReleaseSession
  BY <1>0, <1>11, TeardownMoves DEF DeactivateAllConnections, ReleaseSession
<1> USE DEF connVars, taskVars, ctrlVars, CallFrame, Panic
<1>12. CASE \/ CheckForWorkRaw \/ DrainDone \/ UseAfterFree \/ DropPDU \/ ProcessTaskMgmtRsp
            \/ ProcessAsyncMsgRaw \/ PollAgain \/ TaskMgmtRequestRaw \/ CallUseAfterFree
  BY <1>1, <1>12 DEF CheckForWorkRaw, DrainDone, UseAfterFree, DropPDU, ProcessTaskMgmtRsp,
     ProcessAsyncMsgRaw, PollAgain, TaskMgmtRequestRaw, CallUseAfterFree
<1>13. CASE InitConnection \/ MountTarget \/ CountConnection \/ ClientClose \/ UNCHANGED vars
  BY <1>1, <1>13 DEF InitConnection, MountTarget, CountConnection, ClientClose, vars
<1>14. ASSUME NEW t \in Tasks, ProcessParallelTaskRaw(t) \/ TimerFires(t) PROVE AllMove
  BY <1>1, <1>14 DEF ProcessParallelTaskRaw, TimerFires
<1>15. ASSUME NEW c \in Conns, \/ CheckForWork(c) \/ CreateConnection(c) \/ ActivateConnection(c)
                               \/ PeerLost(c) \/ \E p \in Pdus : RecvPDUHeader(c, p)
       PROVE AllMove
  BY <1>1, <1>15 DEF CheckForWork, CreateConnection, ActivateConnection, PeerLost, RecvPDUHeader
<1> QED
  BY <1>2, <1>3, <1>4, <1>5, <1>6, <1>7, <1>8, <1>9, <1>10, <1>11, <1>12, <1>13, <1>14, <1>15
  DEF Next, StackNext, WorkloopNext, UserClientNext

\* ImplementsLifecycle: whatever connections do, each task is accepted, queued, sent
\* and completed in this order, and a task that leaves its queue in another way can
\* be completed by a timer alone.
THEOREM LifecycleImplemented == Spec => ImplementsLifecycle
<1>1. Init => Lifecycle!Init
  BY DEF Init, Lifecycle!Init, TaskState, Queued, Elems
<1>2. ASSUME IInv, OneHome', [Next]_vars PROVE Lifecycle!Next
  <2>1. AllMove
    BY <1>2, StepMoves
  <2>2. ASSUME NEW t \in Tasks PROVE TaskState(t)' \in Lifecycle!States
    BY <1>2, StateNext DEF Lifecycle!States
  <2> QED BY <2>1, <2>2 DEF Lifecycle!Next, AllMove, TaskMoves
<1>3. IInv => OneHome
  BY DEF IInv, Safe
<1> QED BY <1>1, <1>2, <1>3, InductiveInvariant, PTL DEF Spec, ImplementsLifecycle, Lifecycle!Spec
=============================================================================
