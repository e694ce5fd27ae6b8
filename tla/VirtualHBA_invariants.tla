------------------------ MODULE VirtualHBA_invariants ------------------------
(***************************************************************************)
(* The safety invariants of VirtualHBA that are about its tasks, proved    *)
(* together: none of them is inductive alone.  OneHome needs LiveSections  *)
(* (a queue is filled only on an initialised connection), PendingIsCurrent *)
(* needs OneHome and InHand, InHand needs PendingIsCurrent.  At the end,   *)
(* the number of active connections, whose invariant rests on LiveSections *)
(* only.                                                                   *)
(***************************************************************************)
EXTENDS VirtualHBA_proofs

\* The inductive invariant.
Safe == NoLostWakeup /\ OneHome /\ PendingIsCurrent /\ InHand /\ LiveSections
IInv == TypeOK /\ Safe

-----------------------------------------------------------------------------
(* What a teardown does to the tasks. *)

\* OneHome of the queues Q and the registered tasks B a section works with.
Housed(Q, B) ==
    /\ B \subseteq busy
    /\ \A c \in Conns :
        /\ Q[c] # <<>> => slot[c] # "empty"
        /\ Distinct(Q[c])
        /\ \A t \in Elems(Q[c]) \ {Probe} : t \in busy \ B /\ hbaData[t] = c

LEMMA HousedNow == OneHome <=> Housed(queue, bound)
BY DEF OneHome, Housed, Queued

LEMMA HousedNext ==
    OneHome' <=> /\ bound' \subseteq busy'
                 /\ \A c \in Conns :
                     /\ queue'[c] # <<>> => slot'[c] # "empty"
                     /\ Distinct(queue'[c])
                     /\ \A t \in Elems(queue'[c]) \ {Probe} :
                            t \in busy' \ bound' /\ hbaData'[t] = c
BY DEF OneHome, Queued, Elems, Distinct

\* The connections R are released: no task is completed, the queues lose entries.
Torn(R, Q, B) ==
    /\ bound' = B /\ busy' = busy
    /\ \A c \in Conns :
        /\ PartOf(queue'[c], Q[c])
        /\ c \in R => /\ queue'[c] = <<>> /\ slot'[c] = "empty"
                      /\ ~enabled'[c] /\ pending'[c] = {}
        /\ c \notin R => slot'[c] = slot[c] /\ newTask'[c] = newTask[c]
        /\ enabled'[c] => enabled[c]
        /\ pending'[c] \subseteq pending[c]
    /\ wlLive' = (wlLive /\ (wl.op = "free" \/ wl.conn \notin R))
    /\ ucLive' = (ucLive /\ (uc = NoCall \/ uc.conn \notin R))

LEMMA PartOfRefl == \A q : PartOf(q, q)
BY DEF PartOf

LEMMA PartOfEmpty == \A q : PartOf(<<>>, q)
<1> TAKE q
<1>1. Len(<<>>) = 0
  BY EmptySeq
<1>2. Elems(<<>>) = {} /\ Distinct(<<>>)
  BY <1>1 DEF Elems, Distinct
<1>3. QED BY <1>2 DEF PartOf

\* The drain of DeactivateConnectionGated finds nothing: the tasks it pops are
\* not registered, as a task is registered when it is dispatched.
LEMMA DrainFindsNothing ==
    ASSUME NEW D \in SUBSET Conns, NEW Q \in [Conns -> Seq(Items)],
           NEW B \in SUBSET Tasks, Housed(Q, B)
    PROVE  Found(D, Q, B) = {}
<1> SUFFICES ASSUME NEW t \in B, NEW c \in D, t \in Drained(Q[c]) PROVE FALSE
  BY DEF Found
<1>1. t \in Elems(Q[c])
  BY DEF Drained, DrainedPos, Elems
<1>2. t # Probe
  BY ConstantsAssumption
<1>3. QED BY <1>1, <1>2 DEF Housed

\* What the code every ending shares does, in the words of Torn.
LEMMA TeardownTears ==
    ASSUME TypeOK, NEW D \in SUBSET Conns, NEW R \in SUBSET Conns,
           NEW e \in BOOLEAN, NEW Q \in [Conns -> Seq(Items)],
           NEW B \in SUBSET Tasks, NEW A, Housed(Q, B),
           Teardown(D, R, e, Q, B, A)
    PROVE  Torn(R, Q, B)
<1>1. Found(D, Q, B) = {}
  BY DrainFindsNothing
<1>2. bound' = B /\ busy' = busy
  BY <1>1 DEF Teardown, TypeOK
<1>3. \A c \in Conns : PartOf(queue'[c], Q[c]) /\ (c \in R => queue'[c] = <<>>)
  <2>1. queue' = [c \in Conns |-> IF c \in R THEN <<>>
                                 ELSE IF c \in D THEN Undrained(Q[c]) ELSE Q[c]]
    BY DEF Teardown
  <2>2. \A c \in Conns : PartOf(Undrained(Q[c]), Q[c])
    BY UndrainedSeq
  <2>3. QED BY <2>1, <2>2, PartOfRefl, PartOfEmpty
<1>4. \A c \in Conns :
        /\ c \in R => slot'[c] = "empty" /\ ~enabled'[c] /\ pending'[c] = {}
        /\ c \notin R => slot'[c] = slot[c] /\ newTask'[c] = newTask[c]
        /\ enabled'[c] => enabled[c]
        /\ pending'[c] \subseteq pending[c]
  <2>1. /\ slot' = [c \in Conns |-> IF c \in R THEN "empty" ELSE slot[c]]
        /\ newTask' = [c \in Conns |-> newTask[c] /\ c \notin R]
        /\ enabled' = [c \in Conns |-> enabled[c] /\ c \notin D /\ c \notin R]
        /\ pending' = [c \in Conns |-> IF c \in R THEN {} ELSE pending[c]]
    BY DEF Teardown
  <2>2. QED BY <2>1 DEF TypeOK
<1>5. /\ wlLive' = (wlLive /\ (wl.op = "free" \/ wl.conn \notin R))
      /\ ucLive' = (ucLive /\ (uc = NoCall \/ uc.conn \notin R))
  BY DEF Teardown
<1>6. QED BY <1>2, <1>3, <1>4, <1>5 DEF Torn

\* So for the one that a failed send or receive runs.
LEMMA ConnectionTimeoutTears ==
    ASSUME TypeOK, NEW c \in Conns, NEW Q \in [Conns -> Seq(Items)],
           NEW B \in SUBSET Tasks, NEW A, Housed(Q, B),
           ConnectionTimeout(c, Q, B, A)
    PROVE  \E R \in SUBSET Conns : Torn(R, Q, B)
<1>1. {c} \in SUBSET Conns /\ {} \in SUBSET Conns /\ (NonEmpty = {c}) \in BOOLEAN
  OBVIOUS
<1>2. CASE client
  <2>1. Teardown({c}, {}, FALSE, Q, B, A)
    BY <1>2 DEF ConnectionTimeout
  <2>2. Torn({}, Q, B)
    BY <1>1, <2>1, TeardownTears
  <2>3. QED BY <2>2
<1>3. CASE ~client
  <2>1. Teardown({c}, {c}, NonEmpty = {c}, Q, B, A)
    BY <1>3 DEF ConnectionTimeout
  <2>2. Torn({c}, Q, B)
    BY <1>1, <2>1, TeardownTears
  <2>3. QED BY <1>1, <2>2
<1>4. QED BY <1>2, <1>3

\* The section that tears goes on as it was, or to a later step of its handler.
SectionGoesOn ==
    /\ wl'.conn = wl.conn
    /\ wl'.op = "free" <=> wl.op = "free"
    /\ wl.op = "drain" => wl'.op = "drain"
    /\ wl'.op \in {"recv", "handle"} => wl.op \in {"recv", "handle"} /\ wl'.pdu = wl.pdu

\* A teardown keeps the invariants.
LEMMA TornIsSafe ==
    ASSUME IInv, NEW R \in SUBSET Conns, NEW Q \in [Conns -> Seq(Items)],
           NEW B \in SUBSET Tasks, Torn(R, Q, B), Housed(Q, B),
           \A c \in Conns : Q[c] # <<>> => queue[c] # <<>>,
           bound \subseteq B, SectionGoesOn,
           UNCHANGED <<hbaData, serial, timedOut, uc>>
    PROVE  Safe'
<1>1. NoLostWakeup'
  <2> SUFFICES ASSUME NEW c \in Conns, queue'[c] # <<>>
               PROVE  newTask'[c] \/ (wl'.op = "drain" /\ wl'.conn = c /\ wlLive')
    BY DEF NoLostWakeup
  <2>1. c \notin R /\ Q[c] # <<>>
    BY DEF Torn, PartOf
  <2>2. newTask[c] \/ (wl.op = "drain" /\ wl.conn = c /\ wlLive)
    BY <2>1 DEF IInv, Safe, NoLostWakeup
  <2>3. QED BY <2>1, <2>2 DEF Torn, SectionGoesOn
<1>2. OneHome'
  <2>1. bound' \subseteq busy'
    BY DEF Torn, Housed
  <2>2. ASSUME NEW c \in Conns
        PROVE  /\ queue'[c] # <<>> => slot'[c] # "empty"
               /\ Distinct(queue'[c])
               /\ \A t \in Elems(queue'[c]) \ {Probe} :
                      t \in busy' \ bound' /\ hbaData'[t] = c
    <3>1. PartOf(queue'[c], Q[c]) /\ bound' = B /\ busy' = busy /\ hbaData' = hbaData
      BY DEF Torn
    <3>2. queue'[c] # <<>> => slot'[c] # "empty"
      BY <3>1 DEF Torn, PartOf, Housed
    <3>3. QED BY <3>1, <3>2 DEF PartOf, Housed
  <2>3. QED BY <2>1, <2>2, HousedNext
<1>3. PendingIsCurrent'
  BY DEF PendingIsCurrent, Torn, IInv, Safe
<1>4. InHand'
  BY DEF InHand, Torn, SectionGoesOn, IInv, Safe
<1>5. LiveSections'
  <2>1. LiveSections
    BY DEF IInv, Safe
  <2>2. wl.conn \in Conns /\ uc.conn \in Conns /\ (uc.op # "none" => uc # NoCall)
    BY DEF IInv, TypeOK, NoCall
  <2>3. wl'.op # "free" /\ wlLive' => slot'[wl'.conn] = "ready"
    BY <2>1, <2>2 DEF LiveSections, Torn, SectionGoesOn
  <2>4. \A c \in Conns : enabled'[c] => slot'[c] = "ready"
    BY <2>1 DEF LiveSections, Torn
  <2>5. uc'.op = "raw" /\ ucLive' => slot'[uc'.conn] = "raw"
    BY <2>1, <2>2 DEF LiveSections, Torn
  <2>6. uc'.op = "open" /\ ucLive' =>
            /\ ~enabled'[uc'.conn]
            /\ wl'.op # "free" /\ wlLive' => wl'.conn # uc'.conn
    BY <2>1, <2>2 DEF LiveSections, Torn, SectionGoesOn
  <2>7. QED BY <2>3, <2>4, <2>5, <2>6 DEF LiveSections
<1>6. QED BY <1>1, <1>2, <1>3, <1>4, <1>5 DEF Safe

-----------------------------------------------------------------------------
(* The completion of a task. *)

\* CompleteParallelTask for t on an initialised connection c, where t is in no
\* queue of Q, keeps the tasks in their places.
LEMMA CompletionHouses ==
    ASSUME TypeOK, NEW c \in Conns, NEW t \in Tasks,
           NEW Q \in [Conns -> Seq(Items)],
           slot[c] = "ready", Housed(Q, bound \ {t}), bound \subseteq busy,
           \A d \in Conns : t \notin Elems(Q[d]),
           CompleteParallelTask(c, t, Q), UNCHANGED <<slot, hbaData>>
    PROVE  OneHome'
<1>1. bound' = bound \ {t} /\ busy' = busy \ {t}
  BY DEF CompleteParallelTask
<1>2. bound' \subseteq busy'
  BY <1>1
<1>3. ASSUME NEW d \in Conns
      PROVE  /\ queue'[d] # <<>> => slot'[d] # "empty"
             /\ Distinct(queue'[d])
             /\ \A x \in Elems(queue'[d]) \ {Probe} :
                    x \in busy' \ bound' /\ hbaData'[x] = d
  <2>1. Probe \in Items
    BY DEF Items
  <2>2. \/ queue'[d] = Q[d]
        \/ d = c /\ Probe \notin Elems(Q[c]) /\ queue'[d] = Append(Q[c], Probe)
    BY DEF CompleteParallelTask
  <2>3. CASE queue'[d] = Q[d]
    BY <1>1, <2>3 DEF Housed
  <2>4. CASE d = c /\ Probe \notin Elems(Q[c]) /\ queue'[d] = Append(Q[c], Probe)
    <3>1. Elems(queue'[d]) = Elems(Q[d]) \cup {Probe} /\ Distinct(queue'[d])
      BY <2>1, <2>4, AppendSeq DEF Housed
    <3>2. slot'[d] # "empty"
      BY <2>4
    <3>3. QED BY <1>1, <3>1, <3>2 DEF Housed
  <2>5. QED BY <2>2, <2>3, <2>4
<1>4. QED BY <1>2, <1>3, HousedNext

\* It adds to a queue only with the flag of the queue.
LEMMA CompletionFlags ==
    ASSUME TypeOK, NEW c \in Conns, NEW t, NEW Q \in [Conns -> Seq(Items)],
           CompleteParallelTask(c, t, Q)
    PROVE  \A d \in Conns : newTask'[d] \/ (queue'[d] = Q[d] /\ newTask'[d] = newTask[d])
BY DEF CompleteParallelTask, TypeOK

-----------------------------------------------------------------------------
\* Nothing is queued, registered or owed at the start.
LEMMA SafeInit == Init => Safe
<1> SUFFICES ASSUME Init PROVE Safe
  OBVIOUS
<1>1. Elems(<<>>) = {} /\ Distinct(<<>>)
  BY EmptySeq DEF Elems, Distinct
<1>2. OneHome
  BY <1>1 DEF Init, OneHome, Queued
<1>3. NoLostWakeup /\ PendingIsCurrent
  BY DEF Init, NoLostWakeup, PendingIsCurrent
<1>4. InHand /\ LiveSections
  BY DEF Init, Free, NoCall, InHand, LiveSections
<1>5. QED BY <1>2, <1>3, <1>4 DEF Safe

\* A step that leaves the tasks and their queues alone.
LEMMA FrameOneHome ==
    ASSUME OneHome, UNCHANGED <<queue, bound, busy, hbaData>>,
           \A c \in Conns : slot[c] # "empty" => slot'[c] # "empty"
    PROVE  OneHome'
<1>1. Housed(queue, bound)
  BY HousedNow
<1>2. QED BY <1>1, HousedNext DEF Housed

\* A step that ends in a panic leaves all of it as it is.
LEMMA PanicIsSafe == IInv /\ Panic => Safe'
<1> SUFFICES ASSUME IInv, Panic PROVE Safe'
  OBVIOUS
<1> USE DEF Panic, connVars, taskVars, IInv, Safe
<1>1. OneHome'
  BY FrameOneHome
<1>2. NoLostWakeup'
  BY DEF NoLostWakeup
<1>3. PendingIsCurrent' /\ InHand'
  BY DEF PendingIsCurrent, InHand
<1>4. LiveSections'
  BY DEF LiveSections
<1>5. QED BY <1>1, <1>2, <1>3, <1>4

\* One step per action; the endings cite TornIsSafe, the completions CompletionHouses.
LEMMA SafeStep == IInv /\ [Next]_vars => Safe'
<1> SUFFICES ASSUME IInv, [Next]_vars PROVE Safe'
  OBVIOUS
<1> USE DEF connVars, taskVars, ctrlVars, TaskFrame, CallFrame, IInv, Safe
<1>1. ASSUME NEW t \in Tasks, NEW c \in Conns, ProcessParallelTask(t, c)
      PROVE  Safe'
  <2>1. NoLostWakeup'
    BY <1>1 DEF ProcessParallelTask, RegisteredOnSubmit, NoLostWakeup, TypeOK
  <2>2. OneHome'
    <3>1. Housed(queue, bound) /\ t \in Items /\ t \notin busy /\ slot[c] # "empty"
      BY <1>1, HousedNow DEF ProcessParallelTask, RegisteredOnSubmit, Items
    <3>2. /\ bound' = bound /\ busy' = busy \cup {t} /\ slot' = slot
          /\ hbaData' = [hbaData EXCEPT ![t] = c]
          /\ queue' = [queue EXCEPT ![c] = Append(queue[c], t)]
      BY <1>1 DEF ProcessParallelTask, RegisteredOnSubmit
    <3>3. t \notin Elems(queue[c])
      <4>1. t # Probe
        BY ConstantsAssumption
      <4>2. QED BY <3>1, <4>1 DEF Housed
    <3>4. queue[c] \in Seq(Items)
      BY DEF TypeOK
    <3>5. Elems(Append(queue[c], t)) = Elems(queue[c]) \cup {t} /\ Distinct(Append(queue[c], t))
      BY <3>1, <3>3, <3>4, AppendSeq DEF Housed
    <3>6. ASSUME NEW d \in Conns
          PROVE  /\ queue'[d] # <<>> => slot'[d] # "empty"
                 /\ Distinct(queue'[d])
                 /\ \A x \in Elems(queue'[d]) \ {Probe} :
                        x \in busy' \ bound' /\ hbaData'[x] = d
      <4>1. CASE d # c
        <5>1. queue'[d] = queue[d]
          BY <3>2, <4>1 DEF TypeOK
        <5>2. \A x \in Elems(queue[d]) \ {Probe} : x # t
          BY <3>1 DEF Housed
        <5>3. QED BY <3>1, <3>2, <5>1, <5>2 DEF Housed, TypeOK
      <4>2. CASE d = c
        <5>1. queue'[d] = Append(queue[c], t)
          BY <3>2, <4>2 DEF TypeOK
        <5>2. hbaData'[t] = d /\ t \notin bound
          BY <3>1, <3>2, <4>2 DEF TypeOK, Housed
        <5>3. \A x \in Elems(queue[c]) \ {Probe} : x # t
          BY <3>1 DEF Housed
        <5>4. QED BY <3>1, <3>2, <3>5, <4>2, <5>1, <5>2, <5>3 DEF Housed, TypeOK
      <4>3. QED BY <4>1, <4>2
    <3>7. bound' \subseteq busy'
      BY <3>1, <3>2 DEF Housed
    <3>8. QED BY <3>6, <3>7, HousedNext
  <2>3. PendingIsCurrent'
    <3>1. t \notin bound
      BY <1>1 DEF ProcessParallelTask, RegisteredOnSubmit, OneHome
    <3>2. QED BY <1>1, <3>1 DEF ProcessParallelTask, RegisteredOnSubmit, PendingIsCurrent, TypeOK
  <2>4. InHand'
    BY <1>1 DEF ProcessParallelTask, RegisteredOnSubmit, InHand, In, Gated
  <2>5. LiveSections'
    BY <1>1 DEF ProcessParallelTask, RegisteredOnSubmit, LiveSections, TypeOK
  <2>6. QED BY <2>1, <2>2, <2>3, <2>4, <2>5
<1>2. ASSUME NEW t \in Tasks, ProcessParallelTaskRaw(t) PROVE Safe'
  BY <1>2, PanicIsSafe DEF ProcessParallelTaskRaw
<1>3. ASSUME NEW t \in Tasks, TimerFires(t) PROVE Safe'
  <2>1. NoLostWakeup'
    BY <1>3 DEF TimerFires, NoLostWakeup, TypeOK
  <2>2. OneHome'
    BY <1>3, FrameOneHome DEF TimerFires
  <2>3. PendingIsCurrent'
    BY <1>3 DEF TimerFires, PendingIsCurrent, TypeOK
  <2>4. InHand'
    BY <1>3 DEF TimerFires, InHand, TypeOK
  <2>5. LiveSections'
    BY <1>3 DEF TimerFires, LiveSections, TypeOK
  <2>6. QED BY <2>1, <2>2, <2>3, <2>4, <2>5
<1>4. ASSUME NEW t \in Tasks, HandleTimeout(t) PROVE Safe'
  <2> DEFINE c == hbaData[t]
  <2>1. c \in Conns /\ wl.op = "free"
    BY <1>4 DEF TypeOK, HandleTimeout, Gated
  <2>2. CASE slot[c] = "empty"
    <3>1. UNCHANGED <<connVars, bound, busy, hbaData, serial, timedOut, ctrlVars>>
      BY <1>4, <2>2 DEF HandleTimeout
    <3>2. NoLostWakeup' /\ PendingIsCurrent' /\ InHand'
      BY <3>1 DEF NoLostWakeup, PendingIsCurrent, InHand
    <3>3. OneHome' /\ LiveSections'
      BY <3>1, FrameOneHome DEF LiveSections
    <3>4. QED BY <3>2, <3>3
  <2>3. CASE slot[c] = "raw"
    BY <1>4, <2>3, PanicIsSafe DEF HandleTimeout
  <2>4. CASE slot[c] = "ready" /\ Dead(c)
    <3>1. /\ ConnectionTimeout(c, queue, bound, armed)
          /\ UNCHANGED <<hbaData, serial, timedOut, wl, uc>>
      BY <1>4, <2>4 DEF HandleTimeout
    <3>2. Housed(queue, bound)
      BY HousedNow
    <3>3. queue \in [Conns -> Seq(Items)] /\ bound \in SUBSET Tasks
      BY DEF TypeOK
    <3>4. PICK R \in SUBSET Conns : Torn(R, queue, bound)
      BY <2>1, <3>1, <3>2, <3>3, ConnectionTimeoutTears
    <3>5. SectionGoesOn
      BY <3>1 DEF SectionGoesOn
    <3>6. QED BY <3>1, <3>2, <3>3, <3>4, <3>5, TornIsSafe
  <2>5. CASE slot[c] = "ready" /\ ~Dead(c)
    <3> DEFINE Q == [queue EXCEPT ![c] = RemoveTask(queue[c], t)]
    <3>1. /\ CompleteParallelTask(c, t, Q) /\ timedOut' = timedOut \cup {t}
          /\ UNCHANGED <<slot, enabled, pending, hbaData, serial, ctrlVars>>
      BY <1>4, <2>5 DEF HandleTimeout
    <3>2. Housed(queue, bound) /\ bound \subseteq busy
      BY HousedNow DEF OneHome
    <3>3. queue[c] \in Seq(Items) /\ queue \in [Conns -> Seq(Items)]
      BY <2>1 DEF TypeOK
    <3>4. /\ RemoveTask(queue[c], t) \in Seq(Items)
          /\ PartOf(RemoveTask(queue[c], t), queue[c])
          /\ t \notin Elems(RemoveTask(queue[c], t))
      BY <2>1, <3>2, <3>3, RemoveTaskSeq DEF Housed
    <3>5. Q \in [Conns -> Seq(Items)] /\ \A d \in Conns : PartOf(Q[d], queue[d])
      BY <3>3, <3>4, PartOfRefl
    <3>6. \A d \in Conns : t \notin Elems(Q[d])
      <4>1. t # Probe
        BY ConstantsAssumption
      <4>2. QED BY <2>1, <3>2, <3>3, <3>4, <4>1 DEF Housed
    <3> HIDE DEF c, Q
    <3>7. Housed(Q, bound \ {t})
      BY <3>2, <3>5 DEF Housed, PartOf
    <3>8. OneHome'
      BY <2>1, <2>5, <3>1, <3>2, <3>5, <3>6, <3>7, CompletionHouses
    <3>9. NoLostWakeup'
      <4>1. \A d \in Conns : newTask'[d] \/ (queue'[d] = Q[d] /\ newTask'[d] = newTask[d])
        BY <2>1, <3>1, <3>5, CompletionFlags
      <4>2. QED BY <2>1, <3>1, <3>5, <4>1 DEF NoLostWakeup, PartOf
    <3>10. PendingIsCurrent' /\ InHand'
      <4>1. bound' = bound \ {t}
        BY <3>1 DEF CompleteParallelTask
      <4>2. QED BY <3>1, <4>1 DEF PendingIsCurrent, InHand
    <3>11. LiveSections'
      BY <3>1 DEF LiveSections
    <3>12. QED BY <3>8, <3>9, <3>10, <3>11
  <2>6. QED BY <2>1, <2>2, <2>3, <2>4, <2>5 DEF TypeOK
<1>5. ASSUME TaskMgmtRequest PROVE Safe'
  <2>1. CASE ConnectionTimeout(0, queue, bound, armed)
    <3>1. UNCHANGED <<hbaData, serial, timedOut, wl, uc>>
      BY <1>5 DEF TaskMgmtRequest
    <3>2. Housed(queue, bound) /\ 0 \in Conns
      BY HousedNow, ConnsFinite
    <3>3. queue \in [Conns -> Seq(Items)] /\ bound \in SUBSET Tasks
      BY DEF TypeOK
    <3>4. PICK R \in SUBSET Conns : Torn(R, queue, bound)
      BY <2>1, <3>2, <3>3, ConnectionTimeoutTears
    <3>5. SectionGoesOn
      BY <3>1 DEF SectionGoesOn
    <3>6. QED BY <3>1, <3>2, <3>3, <3>4, <3>5, TornIsSafe
  <2>2. CASE /\ pending' = [pending EXCEPT ![0] = pending[0] \cup {<<Mgmt, 0>>}]
             /\ UNCHANGED <<session, slot, enabled, broken, queue, newTask,
                            numActive, mounted, drift, bound, busy, armed, wlLive, ucLive>>
    <3>1. UNCHANGED <<hbaData, serial, timedOut, wl, uc>>
      BY <1>5 DEF TaskMgmtRequest
    <3>2. \A d \in Conns : \A p \in pending'[d] : p \in pending[d] \/ p[1] = Mgmt
      BY <2>2 DEF TypeOK
    <3>3. PendingIsCurrent' /\ InHand'
      BY <2>2, <3>1, <3>2, ConstantsAssumption DEF PendingIsCurrent, InHand
    <3>4. OneHome'
      BY <2>2, <3>1, FrameOneHome
    <3>5. NoLostWakeup' /\ LiveSections'
      BY <2>2, <3>1 DEF NoLostWakeup, LiveSections
    <3>6. QED BY <3>3, <3>4, <3>5
  <2>3. QED BY <1>5, <2>1, <2>2 DEF TaskMgmtRequest
<1>6. ASSUME TaskMgmtRequestRaw PROVE Safe'
  BY <1>6, PanicIsSafe DEF TaskMgmtRequestRaw
<1>7. ASSUME CheckForWorkRaw PROVE Safe'
  BY <1>7, PanicIsSafe DEF CheckForWorkRaw
<1>8. ASSUME NEW c \in Conns, CheckForWork(c) PROVE Safe'
  <2>1. NoLostWakeup'
    BY <1>8 DEF CheckForWork, NoLostWakeup, Gated, TypeOK
  <2>2. OneHome'
    BY <1>8, FrameOneHome DEF CheckForWork
  <2>3. PendingIsCurrent'
    BY <1>8 DEF CheckForWork, PendingIsCurrent, Gated, TypeOK
  <2>4. InHand'
    BY <1>8 DEF CheckForWork, InHand, Gated, TypeOK
  <2>5. LiveSections'
    BY <1>8 DEF CheckForWork, LiveSections, Gated, TypeOK
  <2>6. QED BY <2>1, <2>2, <2>3, <2>4, <2>5
<1>9. ASSUME Dispatch PROVE Safe'
  <2> DEFINE c == wl.conn
             item == Head(queue[c])
             B == bound \cup ({item} \cap Tasks)
             pdu == IF item = Probe THEN <<Probe, 0>> ELSE <<item, serial[item]>>
  <2>1. /\ c \in Conns /\ queue[c] \in Seq(Items) /\ queue[c] # <<>>
        /\ queue \in [Conns -> Seq(Items)] /\ bound \in SUBSET Tasks
        /\ wl.op = "drain" /\ wlLive /\ slot[c] = "ready"
    BY <1>9 DEF Dispatch, In, TypeOK, LiveSections
  <2>2. Housed(queue, bound)
    BY HousedNow
  <2>3. /\ item \in Items /\ item \in Elems(queue[c])
        /\ Tail(queue[c]) \in Seq(Items) /\ PartOf(Tail(queue[c]), queue[c])
        /\ item \notin Elems(Tail(queue[c]))
    BY <2>1, <2>2, TailSeq DEF Housed
  <2>4. /\ Dequeue(c) \in [Conns -> Seq(Items)]
        /\ \A d \in Conns : PartOf(Dequeue(c)[d], queue[d])
        /\ Dequeue(c)[c] = Tail(queue[c])
    BY <2>1, <2>3, PartOfRefl DEF Dequeue
  <2>5. item # Probe => item \in busy \ bound /\ hbaData[item] = c
    BY <2>1, <2>2, <2>3 DEF Housed
  <2>6. Probe \notin Tasks /\ (item # Probe => item \in Tasks)
    BY <2>3, ConstantsAssumption DEF Items
  <2> HIDE DEF c, item
  <2>7. \A d \in Conns : item # Probe => item \notin Elems(Dequeue(c)[d])
    <3> SUFFICES ASSUME NEW d \in Conns, item # Probe, item \in Elems(Dequeue(c)[d]) PROVE FALSE
      OBVIOUS
    <3>1. d # c
      BY <2>3, <2>4
    <3>2. item \in Elems(queue[d])
      BY <2>4 DEF PartOf
    <3>3. hbaData[item] = d
      BY <2>2, <3>2 DEF Housed
    <3>4. QED BY <2>5, <3>1, <3>3
  <2>8. Housed(Dequeue(c), B) /\ B \in SUBSET Tasks /\ bound \subseteq B
    <3>1. B \subseteq busy
      BY <2>2, <2>5, <2>6 DEF Housed
    <3>2. \A d \in Conns : \A x \in Elems(Dequeue(c)[d]) \ {Probe} :
            x \in busy \ bound /\ hbaData[x] = d /\ x # item
      BY <2>2, <2>4, <2>7 DEF Housed, PartOf
    <3>3. \A d \in Conns : /\ Dequeue(c)[d] # <<>> => slot[d] # "empty"
                           /\ Distinct(Dequeue(c)[d])
      BY <2>2, <2>4 DEF Housed, PartOf
    <3>4. QED BY <2>1, <3>1, <3>2, <3>3 DEF Housed
  <2>9. /\ \/ /\ queue' = Dequeue(c) /\ bound' = B
              /\ pending' = [pending EXCEPT ![c] = pending[c] \cup {pdu}]
              /\ UNCHANGED <<slot, enabled, newTask, busy, wlLive, ucLive>>
           \/ ConnectionTimeout(c, Dequeue(c), B, SetTimeout(item))
        /\ \E p \in {NoPdu, pdu} : wl' = [wl EXCEPT !.pdu = p]
        /\ UNCHANGED <<hbaData, serial, timedOut, uc>>
    BY <1>9 DEF Dispatch, c, item
  <2> HIDE DEF B, pdu
  <2>10. wl'.op = "drain" /\ wl'.conn = c /\ wl.conn = c
    BY <2>1, <2>9 DEF TypeOK, c
  <2>11. CASE /\ queue' = Dequeue(c) /\ bound' = B
              /\ pending' = [pending EXCEPT ![c] = pending[c] \cup {pdu}]
              /\ UNCHANGED <<slot, enabled, newTask, busy, wlLive, ucLive>>
    <3>1. NoLostWakeup'
      BY <2>1, <2>4, <2>10, <2>11 DEF NoLostWakeup, PartOf
    <3>2. OneHome'
      BY <2>8, <2>9, <2>11, HousedNext DEF Housed
    <3>3. PendingIsCurrent'
      <4>1. \A d \in Conns : \A p \in pending'[d] :
              p \in pending[d] \/ (d = c /\ p = pdu)
        <5>1. pending \in [Conns -> SUBSET Pdus]
          BY DEF TypeOK
        <5>2. \A d \in Conns :
                pending'[d] = IF d = c THEN pending[c] \cup {pdu} ELSE pending[d]
          BY <2>11, <5>1
        <5>3. SUFFICES ASSUME NEW d \in Conns, NEW p \in pending'[d]
                       PROVE  p \in pending[d] \/ (d = c /\ p = pdu)
          OBVIOUS
        <5>4. CASE d = c
          <6>1. pending'[d] = pending[d] \cup {pdu}
            BY <5>2, <5>4
          <6>2. QED BY <5>3, <5>4, <6>1
        <5>5. CASE d # c
          BY <5>2, <5>3, <5>5
        <5>6. QED BY <5>4, <5>5
      <4>2. pdu[1] \in Tasks => /\ pdu[1] \in B /\ pdu[2] = serial[pdu[1]]
                                /\ hbaData[pdu[1]] = c
        BY <2>5, <2>6 DEF pdu, B
      <4>3. QED BY <2>8, <2>9, <2>11, <4>1, <4>2 DEF PendingIsCurrent
    <3>4. InHand'
      BY <2>10 DEF InHand
    <3>5. LiveSections'
      BY <2>1, <2>9, <2>10, <2>11 DEF LiveSections
    <3>6. QED BY <3>1, <3>2, <3>3, <3>4, <3>5
  <2>12. CASE ConnectionTimeout(c, Dequeue(c), B, SetTimeout(item))
    <3>1. PICK R \in SUBSET Conns : Torn(R, Dequeue(c), B)
      BY <2>1, <2>4, <2>8, <2>12, ConnectionTimeoutTears
    <3>2. SectionGoesOn
      BY <2>1, <2>10 DEF SectionGoesOn
    <3>3. \A d \in Conns : Dequeue(c)[d] # <<>> => queue[d] # <<>>
      BY <2>4 DEF PartOf
    <3>4. UNCHANGED <<hbaData, serial, timedOut, uc>>
      BY <2>9
    <3>5. QED BY <2>4, <2>8, <3>1, <3>2, <3>3, <3>4, TornIsSafe
  <2>13. QED BY <2>9, <2>11, <2>12
<1>10. ASSUME UnsolicitedDataFails PROVE Safe'
  <2>1. Housed(queue, bound) /\ wl.conn \in Conns
        /\ queue \in [Conns -> Seq(Items)] /\ bound \in SUBSET Tasks
    BY HousedNow DEF TypeOK
  <2>2. /\ ConnectionTimeout(wl.conn, queue, bound, armed)
        /\ UNCHANGED <<hbaData, serial, timedOut, uc>>
    BY <1>10 DEF UnsolicitedDataFails
  <2>3. PICK R \in SUBSET Conns : Torn(R, queue, bound)
    BY <2>1, <2>2, ConnectionTimeoutTears
  <2>4. SectionGoesOn
    BY <1>10 DEF UnsolicitedDataFails, In, SectionGoesOn, TypeOK
  <2>5. QED BY <2>1, <2>2, <2>3, <2>4, TornIsSafe
<1>11. ASSUME DrainDone PROVE Safe'
  <2>1. NoLostWakeup'
    BY <1>11 DEF DrainDone, NoLostWakeup, In, Free, TypeOK
  <2>2. OneHome'
    BY <1>11, FrameOneHome DEF DrainDone
  <2>3. PendingIsCurrent'
    BY <1>11 DEF DrainDone, PendingIsCurrent, In, Free, TypeOK
  <2>4. InHand'
    BY <1>11 DEF DrainDone, InHand, In, Free, TypeOK
  <2>5. LiveSections'
    BY <1>11 DEF DrainDone, LiveSections, In, Free, TypeOK
  <2>6. QED BY <2>1, <2>2, <2>3, <2>4, <2>5
<1>12. ASSUME UseAfterFree PROVE Safe'
  BY <1>12, PanicIsSafe DEF UseAfterFree
<1>13. ASSUME NEW c \in Conns, NEW p \in Pdus, RecvPDUHeader(c, p) PROVE Safe'
  <2>1. NoLostWakeup'
    BY <1>13 DEF RecvPDUHeader, NoLostWakeup, Gated, TypeOK
  <2>2. OneHome'
    BY <1>13, FrameOneHome DEF RecvPDUHeader
  <2>3. PendingIsCurrent'
    BY <1>13 DEF RecvPDUHeader, PendingIsCurrent, Gated, TypeOK
  <2>4. InHand'
    <3>1. /\ wl' = [op |-> "recv", conn |-> c, pdu |-> p]
          /\ pending' = [pending EXCEPT ![c] = pending[c] \ {p}]
          /\ p \in pending[c] \cup {NoPdu} /\ timedOut' = timedOut
      BY <1>13 DEF RecvPDUHeader
    <3>2. SUFFICES ASSUME p[1] \in Tasks \ timedOut, NEW d \in Conns,
                          NEW r \in pending'[d], r[1] = p[1]
                   PROVE  FALSE
      BY <3>1 DEF InHand
    <3>3. p \in pending[c] /\ r \in pending[d] /\ (d = c => r # p)
      BY <3>1, <3>2, ConstantsAssumption DEF NoPdu, TypeOK
    <3>4. hbaData[p[1]] = c /\ hbaData[r[1]] = d /\ p[2] = serial[p[1]] /\ r[2] = serial[r[1]]
      BY <3>2, <3>3 DEF PendingIsCurrent
    <3>5. p \in Pdus /\ r \in Pdus
      BY <3>3 DEF TypeOK
    <3>6. p = <<p[1], p[2]>> /\ r = <<r[1], r[2]>>
      BY <3>5 DEF Pdus
    <3>7. QED BY <3>2, <3>3, <3>4, <3>6
  <2>5. LiveSections'
    BY <1>13 DEF RecvPDUHeader, LiveSections, Gated, TypeOK
  <2>6. QED BY <2>1, <2>2, <2>3, <2>4, <2>5
<1>14. ASSUME HandlerIOFails PROVE Safe'
  <2>1. Housed(queue, bound) /\ wl.conn \in Conns
        /\ queue \in [Conns -> Seq(Items)] /\ bound \in SUBSET Tasks
    BY HousedNow DEF TypeOK
  <2>2. /\ ConnectionTimeout(wl.conn, queue, bound, armed)
        /\ UNCHANGED <<hbaData, serial, timedOut, uc>>
    BY <1>14 DEF HandlerIOFails
  <2>3. PICK R \in SUBSET Conns : Torn(R, queue, bound)
    BY <2>1, <2>2, ConnectionTimeoutTears
  <2>4. SectionGoesOn
    BY <1>14 DEF HandlerIOFails, In, SectionGoesOn, TypeOK
  <2>5. QED BY <2>1, <2>2, <2>3, <2>4, TornIsSafe
<1>15. ASSUME DropPDU PROVE Safe'
  <2>1. NoLostWakeup'
    BY <1>15 DEF DropPDU, NoLostWakeup, In, TypeOK
  <2>2. OneHome'
    BY <1>15, FrameOneHome DEF DropPDU
  <2>3. PendingIsCurrent'
    BY <1>15 DEF DropPDU, PendingIsCurrent, In, TypeOK
  <2>4. InHand'
    BY <1>15 DEF DropPDU, InHand, In, TypeOK
  <2>5. LiveSections'
    BY <1>15 DEF DropPDU, LiveSections, In, TypeOK
  <2>6. QED BY <2>1, <2>2, <2>3, <2>4, <2>5
<1>16. ASSUME ProcessSCSIResponse PROVE Safe'
  <2> DEFINE c == wl.conn
             t == wl.pdu[1]
  <2>1. /\ c \in Conns /\ t \in Tasks /\ slot[c] = "ready"
        /\ wl.op \in {"recv", "handle"} /\ queue \in [Conns -> Seq(Items)]
    BY <1>16 DEF ProcessSCSIResponse, In, TypeOK, LiveSections
  <2>2. /\ wl'.conn = c /\ wl'.op \in {"pop", "poll"}
        /\ UNCHANGED <<slot, enabled, pending, hbaData, serial, timedOut, wlLive, uc, ucLive>>
    BY <1>16 DEF ProcessSCSIResponse, TypeOK
  <2>3. \/ t \in bound /\ CompleteParallelTask(c, t, queue)
        \/ UNCHANGED <<queue, newTask, bound, busy>>
    BY <1>16 DEF ProcessSCSIResponse
  <2>4. Housed(queue, bound) /\ bound \subseteq busy
    BY HousedNow DEF OneHome
  <2> HIDE DEF c, t
  <2>5. OneHome'
    <3>1. CASE t \in bound /\ CompleteParallelTask(c, t, queue)
      <4>1. t # Probe
        BY <2>1, ConstantsAssumption
      <4>2. \A d \in Conns : t \notin Elems(queue[d])
        BY <2>4, <3>1, <4>1 DEF Housed
      <4>3. Housed(queue, bound \ {t})
        BY <2>4 DEF Housed
      <4>4. QED BY <2>1, <2>2, <2>4, <3>1, <4>2, <4>3, CompletionHouses
    <3>2. CASE UNCHANGED <<queue, newTask, bound, busy>>
      BY <2>2, <3>2, FrameOneHome
    <3>3. QED BY <2>3, <3>1, <3>2
  <2>6. NoLostWakeup'
    <3>1. \A d \in Conns : newTask'[d] \/ (queue'[d] = queue[d] /\ newTask'[d] = newTask[d])
      BY <2>1, <2>3, CompletionFlags
    <3>2. QED BY <2>1, <2>2, <3>1 DEF NoLostWakeup
  <2>7. PendingIsCurrent'
    <3>1. bound' = bound \/ bound' = bound \ {t}
      BY <2>3 DEF CompleteParallelTask
    <3>2. t \in Tasks \ timedOut => \A d \in Conns : \A p \in pending[d] : p[1] # t
      BY <2>1 DEF InHand, t
    <3>3. QED BY <2>2, <3>1, <3>2 DEF PendingIsCurrent
  <2>8. InHand' /\ LiveSections'
    BY <2>1, <2>2 DEF InHand, LiveSections, c
  <2>9. QED BY <2>5, <2>6, <2>7, <2>8
<1>17. ASSUME CompleteCurrentTask PROVE Safe'
  <2>1. /\ wl.conn \in Conns /\ queue \in [Conns -> Seq(Items)]
        /\ wl.op # "free" /\ wl.op # "drain" /\ wlLive
    BY <1>17 DEF CompleteCurrentTask, In, TypeOK
  <2>2. /\ queue' = [queue EXCEPT ![wl.conn] = PopHead(queue[wl.conn])]
        /\ wl' = [wl EXCEPT !.op = "poll"]
        /\ UNCHANGED <<slot, enabled, newTask, pending, bound, busy, hbaData,
                       serial, timedOut, wlLive, uc, ucLive>>
    BY <1>17 DEF CompleteCurrentTask
  <2>3. Housed(queue, bound)
    BY HousedNow
  <2>4. \A d \in Conns : PartOf(queue'[d], queue[d])
    BY <2>1, <2>2, PopHeadSeq, PartOfRefl
  <2>5. OneHome'
    BY <2>2, <2>3, <2>4, HousedNext DEF Housed, PartOf
  <2>6. NoLostWakeup'
    BY <2>1, <2>2, <2>4 DEF NoLostWakeup, PartOf
  <2>7. wl'.op = "poll" /\ wl'.conn = wl.conn
    BY <2>2 DEF TypeOK
  <2>8. PendingIsCurrent' /\ InHand'
    BY <2>2, <2>7 DEF PendingIsCurrent, InHand
  <2>9. LiveSections'
    BY <2>1, <2>2, <2>7 DEF LiveSections
  <2>10. QED BY <2>5, <2>6, <2>8, <2>9
<1>18. ASSUME ProcessNOPIn PROVE Safe'
  <2>1. /\ wl.conn \in Conns /\ queue \in [Conns -> Seq(Items)]
        /\ wl.op # "free" /\ wl.op # "drain" /\ wlLive
    BY <1>18 DEF ProcessNOPIn, In, TypeOK
  <2>2. /\ queue' = [queue EXCEPT ![wl.conn] = PopHead(queue[wl.conn])]
        /\ wl' = [wl EXCEPT !.op = "poll"]
        /\ UNCHANGED <<slot, enabled, newTask, pending, bound, busy, hbaData,
                       serial, timedOut, wlLive, uc, ucLive>>
    BY <1>18 DEF ProcessNOPIn
  <2>3. Housed(queue, bound)
    BY HousedNow
  <2>4. \A d \in Conns : PartOf(queue'[d], queue[d])
    BY <2>1, <2>2, PopHeadSeq, PartOfRefl
  <2>5. OneHome'
    BY <2>2, <2>3, <2>4, HousedNext DEF Housed, PartOf
  <2>6. NoLostWakeup'
    BY <2>1, <2>2, <2>4 DEF NoLostWakeup, PartOf
  <2>7. wl'.op = "poll" /\ wl'.conn = wl.conn
    BY <2>2 DEF TypeOK
  <2>8. PendingIsCurrent' /\ InHand'
    BY <2>2, <2>7 DEF PendingIsCurrent, InHand
  <2>9. LiveSections'
    BY <2>1, <2>2, <2>7 DEF LiveSections
  <2>10. QED BY <2>5, <2>6, <2>8, <2>9
<1>19. ASSUME ProcessTaskMgmtRsp PROVE Safe'
  <2>1. NoLostWakeup'
    BY <1>19 DEF ProcessTaskMgmtRsp, NoLostWakeup, In, TypeOK
  <2>2. OneHome'
    BY <1>19, FrameOneHome DEF ProcessTaskMgmtRsp
  <2>3. PendingIsCurrent'
    BY <1>19 DEF ProcessTaskMgmtRsp, PendingIsCurrent, In, TypeOK
  <2>4. InHand'
    BY <1>19 DEF ProcessTaskMgmtRsp, InHand, In, TypeOK
  <2>5. LiveSections'
    BY <1>19 DEF ProcessTaskMgmtRsp, LiveSections, In, TypeOK
  <2>6. QED BY <2>1, <2>2, <2>3, <2>4, <2>5
<1>20. ASSUME NEW e \in AsyncEvents, ProcessAsyncMsg(e) PROVE Safe'
  <2>1. /\ Housed(queue, bound) /\ queue \in [Conns -> Seq(Items)]
        /\ bound \in SUBSET Tasks
        /\ Active \in SUBSET Conns /\ NonEmpty \in SUBSET Conns
        /\ {wl.conn} \in SUBSET Conns /\ {wl.conn} \cap Active \in SUBSET Conns
        /\ {} \in SUBSET Conns /\ TRUE \in BOOLEAN /\ FALSE \in BOOLEAN
    BY HousedNow DEF TypeOK, Active, NonEmpty
  <2>2. \E R \in SUBSET Conns : Torn(R, queue, bound)
    <3>1. CASE Teardown(Active, NonEmpty, TRUE, queue, bound, armed)
      BY <2>1, <3>1, TeardownTears
    <3>2. CASE Teardown({wl.conn} \cap Active, {wl.conn}, FALSE, queue, bound, armed)
      BY <2>1, <3>2, TeardownTears
    <3>3. CASE Teardown({wl.conn}, {}, FALSE, queue, bound, armed)
      BY <2>1, <3>3, TeardownTears
    <3>4. QED BY <1>20, <3>1, <3>2, <3>3 DEF ProcessAsyncMsg
  <2>3. PICK R \in SUBSET Conns : Torn(R, queue, bound)
    BY <2>2
  <2>4. SectionGoesOn /\ UNCHANGED <<hbaData, serial, timedOut, uc>>
    BY <1>20 DEF ProcessAsyncMsg, In, SectionGoesOn, TypeOK
  <2>5. QED BY <2>1, <2>3, <2>4, TornIsSafe
<1>21. ASSUME ProcessAsyncMsgRaw PROVE Safe'
  BY <1>21, PanicIsSafe DEF ProcessAsyncMsgRaw
<1>22. ASSUME PollAgain PROVE Safe'
  <2>1. NoLostWakeup'
    BY <1>22 DEF PollAgain, NoLostWakeup, In, Free, TypeOK
  <2>2. OneHome'
    BY <1>22, FrameOneHome DEF PollAgain
  <2>3. PendingIsCurrent'
    BY <1>22 DEF PollAgain, PendingIsCurrent, In, Free, TypeOK
  <2>4. InHand'
    BY <1>22 DEF PollAgain, InHand, In, Free, TypeOK
  <2>5. LiveSections'
    BY <1>22 DEF PollAgain, LiveSections, In, Free, TypeOK
  <2>6. QED BY <2>1, <2>2, <2>3, <2>4, <2>5
<1>23. ASSUME NEW c \in Conns, CreateConnection(c) PROVE Safe'
  <2>1. NoLostWakeup'
    BY <1>23 DEF CreateConnection, NoLostWakeup, TypeOK
  <2>2. OneHome'
    BY <1>23, FrameOneHome DEF CreateConnection
  <2>3. PendingIsCurrent'
    BY <1>23 DEF CreateConnection, PendingIsCurrent, TypeOK
  <2>4. InHand'
    BY <1>23 DEF CreateConnection, InHand, TypeOK
  <2>5. LiveSections'
    BY <1>23 DEF CreateConnection, MayCall, LiveSections, TypeOK
  <2>6. QED BY <2>1, <2>2, <2>3, <2>4, <2>5
<1>24. ASSUME InitConnection PROVE Safe'
  <2>1. NoLostWakeup'
    BY <1>24 DEF InitConnection, NoLostWakeup, TypeOK
  <2>2. OneHome'
    BY <1>24, FrameOneHome DEF InitConnection
  <2>3. PendingIsCurrent'
    BY <1>24 DEF InitConnection, PendingIsCurrent, TypeOK
  <2>4. InHand'
    BY <1>24 DEF InitConnection, InHand, TypeOK
  <2>5. LiveSections'
    BY <1>24 DEF InitConnection, Calling, LiveSections, TypeOK
  <2>6. QED BY <2>1, <2>2, <2>3, <2>4, <2>5
<1>25. ASSUME ConnectDone PROVE Safe'
  <2> DEFINE c == uc.conn
  <2>1. /\ c \in Conns /\ ~enabled[c] /\ queue \in [Conns -> Seq(Items)]
        /\ wl.op # "free" /\ wlLive => wl.conn # c
        /\ uc' = NoCall
        /\ UNCHANGED <<enabled, bound, busy, hbaData, serial, timedOut, wl, wlLive>>
    BY <1>25 DEF ConnectDone, Calling, LiveSections, TypeOK
  <2>2. \/ UNCHANGED <<slot, pending, queue, newTask>>
        \/ /\ slot' = [slot EXCEPT ![c] = "empty"]
           /\ pending' = [pending EXCEPT ![c] = {}]
           /\ queue' = [queue EXCEPT ![c] = <<>>]
           /\ newTask' = [newTask EXCEPT ![c] = FALSE]
    BY <1>25 DEF ConnectDone
  <2>3. \A d \in Conns :
          \/ queue'[d] = <<>>
          \/ queue'[d] = queue[d] /\ newTask'[d] = newTask[d] /\ slot'[d] = slot[d]
    BY <2>1, <2>2 DEF TypeOK
  <2>4. \A d \in Conns : /\ pending'[d] \subseteq pending[d]
                         /\ slot'[d] = slot[d] \/ d = c
    BY <2>1, <2>2 DEF TypeOK
  <2>5. OneHome'
    <3>1. Housed(queue, bound)
      BY HousedNow
    <3>2. Elems(<<>>) = {} /\ Distinct(<<>>)
      BY EmptySeq DEF Elems, Distinct
    <3>3. QED BY <2>1, <2>3, <3>1, <3>2, HousedNext DEF Housed
  <2>6. NoLostWakeup'
    BY <2>1, <2>3 DEF NoLostWakeup
  <2>7. PendingIsCurrent' /\ InHand'
    BY <2>1, <2>4 DEF PendingIsCurrent, InHand
  <2>8. LiveSections'
    <3>1. uc'.op = "none" /\ wl.conn \in Conns
      BY <2>1 DEF NoCall, TypeOK
    <3>2. QED BY <2>1, <2>4, <3>1 DEF LiveSections
  <2>9. QED BY <2>5, <2>6, <2>7, <2>8
<1>26. ASSUME NEW c \in Conns, ActivateConnection(c) PROVE Safe'
  <2>1. NoLostWakeup'
    BY <1>26 DEF ActivateConnection, NoLostWakeup, TypeOK
  <2>2. OneHome'
    BY <1>26, FrameOneHome DEF ActivateConnection
  <2>3. PendingIsCurrent'
    BY <1>26 DEF ActivateConnection, PendingIsCurrent, TypeOK
  <2>4. InHand'
    BY <1>26 DEF ActivateConnection, InHand, TypeOK
  <2>5. LiveSections'
    BY <1>26 DEF ActivateConnection, MayCall, LiveSections, TypeOK
  <2>6. QED BY <2>1, <2>2, <2>3, <2>4, <2>5
<1>27. ASSUME MountTarget PROVE Safe'
  <2>1. NoLostWakeup'
    BY <1>27 DEF MountTarget, NoLostWakeup, TypeOK
  <2>2. OneHome'
    BY <1>27, FrameOneHome DEF MountTarget
  <2>3. PendingIsCurrent'
    BY <1>27 DEF MountTarget, PendingIsCurrent, TypeOK
  <2>4. InHand'
    BY <1>27 DEF MountTarget, InHand, TypeOK
  <2>5. LiveSections'
    <3>1. /\ uc' = [uc EXCEPT !.op = "count"] \/ uc' = NoCall
          /\ enabled' = enabled \/ enabled' = [enabled EXCEPT ![uc.conn] = FALSE]
          /\ UNCHANGED <<slot, wl, wlLive>>
      BY <1>27 DEF MountTarget
    <3>2. uc'.op \notin {"raw", "open"}
      <4>1. CASE uc' = NoCall
        BY <4>1 DEF NoCall
      <4>2. CASE uc' = [uc EXCEPT !.op = "count"]
        BY <4>2 DEF TypeOK
      <4>3. QED BY <3>1, <4>1, <4>2
    <3>3. \A d \in Conns : enabled'[d] => enabled[d]
      BY <3>1 DEF TypeOK
    <3>4. QED BY <3>1, <3>2, <3>3 DEF LiveSections
  <2>6. QED BY <2>1, <2>2, <2>3, <2>4, <2>5
<1>28. ASSUME CountConnection PROVE Safe'
  <2>1. NoLostWakeup'
    BY <1>28 DEF CountConnection, NoLostWakeup, NoCall, TypeOK
  <2>2. OneHome'
    BY <1>28, FrameOneHome DEF CountConnection
  <2>3. PendingIsCurrent'
    BY <1>28 DEF CountConnection, PendingIsCurrent, NoCall, TypeOK
  <2>4. InHand'
    BY <1>28 DEF CountConnection, InHand, NoCall, TypeOK
  <2>5. LiveSections'
    BY <1>28 DEF CountConnection, LiveSections, NoCall, TypeOK
  <2>6. QED BY <2>1, <2>2, <2>3, <2>4, <2>5
<1>29. ASSUME CallUseAfterFree PROVE Safe'
  BY <1>29, PanicIsSafe DEF CallUseAfterFree
<1>30. ASSUME NEW c \in Conns, DeactivateConnection(c) PROVE Safe'
  <2>1. /\ Housed(queue, bound) /\ queue \in [Conns -> Seq(Items)]
        /\ bound \in SUBSET Tasks
        /\ {c} \in SUBSET Conns /\ {} \in SUBSET Conns
    BY HousedNow DEF TypeOK, Active, NonEmpty
  <2>2. Torn({}, queue, bound)
    BY <1>30, <2>1, TeardownTears DEF DeactivateConnection
  <2>3. SectionGoesOn /\ UNCHANGED <<hbaData, serial, timedOut, uc>>
    BY <1>30 DEF DeactivateConnection, SectionGoesOn
  <2>4. QED BY <2>1, <2>2, <2>3, TornIsSafe
<1>31. ASSUME DeactivateAllConnections PROVE Safe'
  <2>1. /\ Housed(queue, bound) /\ queue \in [Conns -> Seq(Items)]
        /\ bound \in SUBSET Tasks
        /\ NonEmpty \in SUBSET Conns /\ {} \in SUBSET Conns
    BY HousedNow DEF TypeOK, Active, NonEmpty
  <2>2. Torn({}, queue, bound)
    BY <1>31, <2>1, TeardownTears DEF DeactivateAllConnections
  <2>3. SectionGoesOn /\ UNCHANGED <<hbaData, serial, timedOut, uc>>
    BY <1>31 DEF DeactivateAllConnections, SectionGoesOn
  <2>4. QED BY <2>1, <2>2, <2>3, TornIsSafe
<1>32. ASSUME NEW c \in Conns, ReleaseConnection(c) PROVE Safe'
  <2>1. /\ Housed(queue, bound) /\ queue \in [Conns -> Seq(Items)]
        /\ bound \in SUBSET Tasks
        /\ {c} \in SUBSET Conns /\ {c} \cap Active \in SUBSET Conns
    BY HousedNow DEF TypeOK, Active, NonEmpty
  <2>2. Torn({c}, queue, bound)
    BY <1>32, <2>1, TeardownTears DEF ReleaseConnection
  <2>3. SectionGoesOn /\ UNCHANGED <<hbaData, serial, timedOut, uc>>
    BY <1>32 DEF ReleaseConnection, SectionGoesOn
  <2>4. QED BY <2>1, <2>2, <2>3, TornIsSafe
<1>33. ASSUME ReleaseSession PROVE Safe'
  <2>1. /\ Housed(queue, bound) /\ queue \in [Conns -> Seq(Items)]
        /\ bound \in SUBSET Tasks
        /\ Active \in SUBSET Conns /\ NonEmpty \in SUBSET Conns
    BY HousedNow DEF TypeOK, Active, NonEmpty
  <2>2. Torn(NonEmpty, queue, bound)
    BY <1>33, <2>1, TeardownTears DEF ReleaseSession
  <2>3. SectionGoesOn /\ UNCHANGED <<hbaData, serial, timedOut, uc>>
    BY <1>33 DEF ReleaseSession, SectionGoesOn
  <2>4. QED BY <2>1, <2>2, <2>3, TornIsSafe
<1>34. ASSUME ClientClose PROVE Safe'
  <2>1. NoLostWakeup'
    BY <1>34 DEF ClientClose, NoLostWakeup, TypeOK
  <2>2. OneHome'
    BY <1>34, FrameOneHome DEF ClientClose
  <2>3. PendingIsCurrent'
    BY <1>34 DEF ClientClose, PendingIsCurrent, TypeOK
  <2>4. InHand'
    BY <1>34 DEF ClientClose, InHand, TypeOK
  <2>5. LiveSections'
    BY <1>34 DEF ClientClose, LiveSections, TypeOK
  <2>6. QED BY <2>1, <2>2, <2>3, <2>4, <2>5
<1>35. ASSUME NEW c \in Conns, PeerLost(c) PROVE Safe'
  <2>1. NoLostWakeup'
    BY <1>35 DEF PeerLost, NoLostWakeup, TypeOK
  <2>2. OneHome'
    BY <1>35, FrameOneHome DEF PeerLost
  <2>3. PendingIsCurrent'
    BY <1>35 DEF PeerLost, PendingIsCurrent, TypeOK
  <2>4. InHand'
    BY <1>35 DEF PeerLost, InHand, TypeOK
  <2>5. LiveSections'
    BY <1>35 DEF PeerLost, LiveSections, TypeOK
  <2>6. QED BY <2>1, <2>2, <2>3, <2>4, <2>5
<1>36. CASE UNCHANGED vars
  <2>1. OneHome'
    BY <1>36, FrameOneHome DEF vars
  <2>2. NoLostWakeup' /\ PendingIsCurrent' /\ InHand' /\ LiveSections'
    BY <1>36 DEF vars, NoLostWakeup, PendingIsCurrent, InHand, LiveSections
  <2>3. QED BY <2>1, <2>2
<1>37. QED
  BY <1>1, <1>2, <1>3, <1>4, <1>5, <1>6, <1>7, <1>8, <1>9, <1>10,
      <1>11, <1>12, <1>13, <1>14, <1>15, <1>16, <1>17, <1>18, <1>19,
      <1>20, <1>21, <1>22, <1>23, <1>24, <1>25, <1>26, <1>27, <1>28,
      <1>29, <1>30, <1>31, <1>32, <1>33, <1>34, <1>35, <1>36
  DEF Next, StackNext, WorkloopNext, UserClientNext

\* The invariant holds in every reachable state.
LEMMA InductiveInvariant == Spec => []IInv
<1>1. Init => IInv
  BY TypeInit, SafeInit DEF IInv
<1>2. IInv /\ [Next]_vars => IInv'
  <2>1. IInv => TypeOK
    BY DEF IInv
  <2>2. IInv' <=> TypeOK' /\ Safe'
    BY DEF IInv
  <2>3. QED BY <2>1, <2>2, TypeStep, SafeStep
<1>3. QED BY <1>1, <1>2, PTL DEF Spec

\* No queued entry is ever stranded, however connections come and go.
THEOREM NeverStranded == Spec => []NoLostWakeup
<1>1. IInv => NoLostWakeup
  BY DEF IInv, Safe
<1>2. QED BY <1>1, InductiveInvariant, PTL

\* A task is in one place: it is never in two queues, twice in one, or queued
\* and registered at once.
THEOREM TaskHasOneHome == Spec => []OneHome
<1>1. IInv => OneHome
  BY DEF IInv, Safe
<1>2. QED BY <1>1, InductiveInvariant, PTL

\* No answer is ever taken for one of another submission of its task, unless the
\* task was once abandoned by a timeout.
THEOREM AnswersAreCurrent == Spec => []PendingIsCurrent
<1>1. IInv => PendingIsCurrent
  BY DEF IInv, Safe
<1>2. QED BY <1>1, InductiveInvariant, PTL

\* An answer being handled is the last the target owes for its task.
THEOREM AnswerIsTheLast == Spec => []InHand
<1>1. IInv => InHand
  BY DEF IInv, Safe
<1>2. QED BY <1>1, InductiveInvariant, PTL

\* The workloop never runs on a connection that is being opened.
THEOREM SectionsAreLive == Spec => []LiveSections
<1>1. IInv => LiveSections
  BY DEF IInv, Safe
<1>2. QED BY <1>1, InductiveInvariant, PTL

-----------------------------------------------------------------------------
(* The number of active connections. *)

Uncounted == IF uc.op \in {"mount", "count"} THEN 1 ELSE 0
Balance == numActive + drift + Uncounted - Cardinality(Active)
Multiple(n) == \E k \in Int : n = k * CounterMod

\* ActiveCountAccounted, and what makes it inductive: it holds between sessions
\* as well, which begin and end with their connections, except for an activation
\* that has lost its connection with the session.
Accounted ==
    /\ session \/ uc.op \notin {"mount", "count"} => Multiple(Balance)
    /\ \A c \in Conns : slot[c] # "empty" => session
    /\ uc.op # "none" /\ ucLive => slot[uc.conn] # "empty"
    /\ uc.op \in {"raw", "open"} /\ ucLive /\ uc.fresh => NonEmpty \subseteq {uc.conn}

\* Quotient and remainder.
LEMMA DivisionIs ==
    ASSUME NEW M \in Nat \ {0}, NEW n \in Int
    PROVE  \E q \in Int, r \in 0..(M - 1) : n = q * M + r /\ n % M = r
BY Z3

\* A remainder of 0 is a multiple.
LEMMA MultipleIs == \A n \in Int : Multiple(n) <=> n % CounterMod = 0
<1> TAKE n \in Int
<1> DEFINE M == CounterMod
<1>0. M \in Nat \ {0}
  BY ConstantsAssumption
<1> HIDE DEF M
<1>1. PICK q \in Int, r \in 0..(M - 1) : n = q * M + r /\ n % M = r
  BY <1>0, DivisionIs
<1>2. n % M = 0 => \E k \in Int : n = k * M
  BY <1>0, <1>1
<1>3. ASSUME NEW k \in Int, n = k * M PROVE n % M = 0
  BY <1>0, <1>3
<1> QED BY <1>2, <1>3 DEF Multiple, M

\* What the wrap of the 32-bit counter takes off is a multiple.
LEMMA WrapIs == \A n \in Int : \E k \in Int : n % CounterMod = n + k * CounterMod
<1> TAKE n \in Int
<1> DEFINE M == CounterMod
<1>0. M \in Nat \ {0}
  BY ConstantsAssumption
<1> HIDE DEF M
<1>1. PICK q \in Int, r \in 0..(M - 1) : n = q * M + r /\ n % M = r
  BY <1>0, DivisionIs
<1>2. -q \in Int /\ n % M = n + (-q) * M
  BY <1>0, <1>1
<1> QED BY <1>2 DEF M

\* A multiple stays one when a multiple is added.
LEMMA MultipleMoves ==
    ASSUME NEW m \in Int, NEW k \in Int, Multiple(m)
    PROVE  Multiple(m + k * CounterMod)
<1>0. CounterMod \in Int
  BY ConstantsAssumption
<1>1. PICK j \in Int : m = j * CounterMod
  BY DEF Multiple
<1>2. m + k * CounterMod = (j + k) * CounterMod
  BY <1>0, <1>1
<1> QED BY <1>2 DEF Multiple

\* The balance is an integer, as finitely many connections are active.
LEMMA BalanceType ==
    ASSUME TypeOK
    PROVE  /\ Balance \in Int /\ Cardinality(Active) \in Nat
           /\ IsFiniteSet(Active) /\ Active \subseteq Conns
<1>1. Active \subseteq Conns /\ IsFiniteSet(Active)
  BY ConnsFinite, FS_Subset DEF Active
<1>2. Cardinality(Active) \in Nat
  BY <1>1, FS_CardinalityType
<1> QED BY <1>1, <1>2 DEF Balance, Uncounted, TypeOK

\* Most steps touch none of it.
LEMMA AccountedFrame ==
    ASSUME Accounted,
           UNCHANGED <<session, slot, enabled, numActive, drift, uc, ucLive>>
    PROVE  Accounted'
BY DEF Accounted, Balance, Uncounted, Active, NonEmpty

\* A teardown takes as many off the counter as connections it deactivates; those
\* that were not active are what drift remembers.
LEMMA TeardownBalances ==
    ASSUME TypeOK, TypeOK', NEW D \in SUBSET Conns, NEW R \in SUBSET Conns,
           NEW Q, NEW B, NEW A, Teardown(D, R, FALSE, Q, B, A),
           R \cap Active \subseteq D, UNCHANGED uc, Multiple(Balance)
    PROVE  Multiple(Balance)'
<1> DEFINE n == Cardinality(D)
           off == Cardinality(D \cap Active)
<1>1. /\ n \in Int /\ off \in Nat /\ numActive \in Int /\ drift \in Int
      /\ Uncounted \in Int
  BY ConnsFinite DEF TypeOK, Uncounted
<1>2. Active' = Active \ (D \cap Active)
  BY DEF Teardown, Active
<1>3. Cardinality(Active \ (D \cap Active)) = Cardinality(Active) - off
  <2>1. Cardinality(Active \ D) = Cardinality(Active) - Cardinality(Active \cap D)
    BY BalanceType, FS_Difference
  <2>2. Active \ D = Active \ (D \cap Active) /\ Active \cap D = D \cap Active
    OBVIOUS
  <2> QED BY <2>1, <2>2
<1>4. PICK k \in Int : Decremented(n) = (numActive - n) + k * CounterMod
  BY <1>1, WrapIs DEF Decremented
<1>5. numActive' = (numActive - n) + k * CounterMod /\ drift' = drift + n - off
  BY <1>4 DEF Teardown
<1>6. Cardinality(Active)' = Cardinality(Active) - off
  BY <1>2, <1>3
<1>7. Uncounted' = Uncounted
  BY DEF Uncounted
<1>8. k * CounterMod \in Int /\ Cardinality(Active) \in Nat
  BY ConstantsAssumption, BalanceType
<1> HIDE DEF n, off
<1>9. Balance' = Balance + k * CounterMod
  BY <1>1, <1>5, <1>6, <1>7, <1>8 DEF Balance
<1>10. Multiple(Balance + k * CounterMod)
  BY BalanceType, MultipleMoves
<1> QED BY <1>9, <1>10 DEF Multiple

\* What a section that ends the session leaves: nothing is counted.
LEMMA LastTeardownBalances ==
    ASSUME TypeOK, LiveSections, Accounted, NEW D \in SUBSET Conns,
           NEW Q, NEW B, NEW A, Teardown(D, NonEmpty, TRUE, Q, B, A),
           UNCHANGED uc
    PROVE  Accounted'
<1>1. \A c \in Conns : ~enabled'[c] /\ slot'[c] = "empty"
  BY DEF Teardown, LiveSections, NonEmpty
<1>2. Cardinality(Active)' = 0
  <2>1. Active' = {}
    BY <1>1 DEF Active
  <2> QED BY <2>1, FS_EmptySet
<1>3. session' = FALSE /\ numActive' = 0 /\ drift' = 0
  BY DEF Teardown
<1>4. uc'.op \notin {"mount", "count"} => Multiple(Balance)'
  <2>1. uc'.op \notin {"mount", "count"} => Balance' = 0
    BY <1>2, <1>3 DEF Balance, Uncounted
  <2>2. 0 = 0 * CounterMod
    BY ConstantsAssumption
  <2> QED BY <2>1, <2>2 DEF Multiple
<1>5. uc'.op # "none" => ~ucLive' \/ slot[uc.conn] = "empty"
  <2>1. uc.conn \in Conns
    BY DEF TypeOK
  <2>2. uc'.op # "none" /\ ucLive' => uc.conn \notin NonEmpty
    <3>1. ucLive' <=> ucLive /\ (uc = NoCall \/ uc.conn \notin NonEmpty)
      BY Zenon DEF Teardown
    <3>2. NoCall.op = "none"
      BY DEF NoCall
    <3> QED BY <3>1, <3>2
  <2> QED BY <2>1, <2>2 DEF NonEmpty
<1>6. ~(uc'.op # "none" /\ ucLive')
  BY <1>5 DEF Accounted, Teardown
<1> QED BY <1>1, <1>3, <1>4, <1>6 DEF Accounted, NonEmpty

\* A teardown that keeps the session, and releases only what it deactivates.
LEMMA TeardownAccounted ==
    ASSUME TypeOK, TypeOK', Accounted, NEW D \in SUBSET Conns, NEW R \in SUBSET Conns,
           NEW Q, NEW B, NEW A, Teardown(D, R, FALSE, Q, B, A),
           R \cap Active \subseteq D, UNCHANGED uc
    PROVE  Accounted'
<1>1. /\ session' = session
      /\ \A c \in Conns : slot'[c] # "empty" => slot[c] # "empty" /\ c \notin R
      /\ \A c \in Conns : slot[c] # "empty" /\ c \notin R => slot'[c] # "empty"
      /\ ucLive' => ucLive /\ (uc = NoCall \/ uc.conn \notin R)
  BY DEF Teardown, TypeOK
<1>2. session' \/ uc'.op \notin {"mount", "count"} => Multiple(Balance)'
  BY <1>1, TeardownBalances DEF Accounted
<1>3. uc'.op # "none" /\ ucLive' => slot'[uc'.conn] # "empty"
  BY <1>1 DEF Accounted, NoCall, TypeOK
<1>4. uc'.op \in {"raw", "open"} /\ ucLive' /\ uc'.fresh => NonEmpty' \subseteq {uc'.conn}
  BY <1>1 DEF Accounted, NonEmpty
<1> QED BY <1>1, <1>2, <1>3, <1>4 DEF Accounted

\* So does the teardown of a failed send or receive.
LEMMA TimeoutAccounted ==
    ASSUME TypeOK, TypeOK', LiveSections, Accounted, NEW c \in Conns,
           NEW Q, NEW B, NEW A, ConnectionTimeout(c, Q, B, A), UNCHANGED uc
    PROVE  Accounted'
<1>1. CASE client
  <2>1. Teardown({c}, {}, FALSE, Q, B, A)
    BY <1>1 DEF ConnectionTimeout
  <2>2. {c} \in SUBSET Conns /\ {} \in SUBSET Conns /\ {} \cap Active \subseteq {c}
    OBVIOUS
  <2> QED BY <2>1, <2>2, TeardownAccounted
<1>2. CASE ~client /\ NonEmpty # {c}
  <2>1. Teardown({c}, {c}, FALSE, Q, B, A)
    BY <1>2 DEF ConnectionTimeout
  <2> QED BY <2>1, TeardownAccounted
<1>3. CASE ~client /\ NonEmpty = {c}
  <2>1. Teardown({c}, NonEmpty, TRUE, Q, B, A)
    BY <1>3 DEF ConnectionTimeout
  <2> QED BY <2>1, LastTeardownBalances
<1> QED BY <1>1, <1>2, <1>3

\* Nothing is counted at the start.
LEMMA AccountedInit == Init => Accounted
<1> SUFFICES ASSUME Init PROVE Accounted
  OBVIOUS
<1>1. Active = {} /\ NonEmpty = {}
  BY DEF Init, Active, NonEmpty
<1>2. Balance = 0
  BY <1>1, FS_EmptySet DEF Init, Balance, Uncounted, NoCall
<1>3. Multiple(Balance)
  <2>1. 0 = 0 * CounterMod
    BY ConstantsAssumption
  <2> QED BY <1>2, <2>1 DEF Multiple
<1> QED BY <1>1, <1>3 DEF Init, Accounted, NoCall, NonEmpty

\* The steps of a call: they open a connection, enable it and count it.
LEMMA CallAccounted ==
    ASSUME TypeOK, TypeOK', LiveSections, Accounted,
           \/ \E c \in Conns : CreateConnection(c) \/ ActivateConnection(c)
           \/ InitConnection \/ ConnectDone \/ MountTarget \/ CountConnection
    PROVE  Accounted'
<1>0. Balance \in Int /\ Cardinality(Active) \in Nat /\ IsFiniteSet(Active)
  BY BalanceType
<1>1. ASSUME NEW c \in Conns, CreateConnection(c) PROVE Accounted'
  <2>1. /\ uc.op = "none" /\ session' = TRUE /\ slot' = [slot EXCEPT ![c] = "raw"]
        /\ uc' = [op |-> "raw", conn |-> c, fresh |-> ~session]
        /\ enabled' = enabled
        /\ IF session THEN UNCHANGED <<numActive, drift>> ELSE numActive' = 0 /\ drift' = 0
    BY <1>1 DEF CreateConnection, MayCall
  <2>2. Multiple(Balance)'
    <3>1. CASE session
      BY <2>1, <3>1 DEF Accounted, Balance, Uncounted, Active
    <3>2. CASE ~session
      <4>1. Active' = {}
        BY <2>1, <3>2 DEF Active, Accounted, LiveSections
      <4>2. Cardinality(Active)' = 0
        BY <4>1, FS_EmptySet
      <4>3. Balance' = 0
        BY <2>1, <3>2, <4>2 DEF Balance, Uncounted
      <4>4. CounterMod \in Int /\ 0 = 0 * CounterMod
        BY ConstantsAssumption
      <4> QED BY <4>3, <4>4 DEF Multiple
    <3> QED BY <3>1, <3>2
  <2>3. ~session => NonEmpty' \subseteq {c}
    BY <2>1 DEF Accounted, NonEmpty, TypeOK
  <2> QED BY <2>1, <2>2, <2>3 DEF Accounted, NonEmpty, TypeOK
<1>2. ASSUME NEW c \in Conns, ActivateConnection(c) PROVE Accounted'
  <2>1. /\ uc.op = "none" /\ slot[c] = "ready" /\ ~enabled[c]
        /\ enabled' = [enabled EXCEPT ![c] = TRUE]
        /\ uc' = [op |-> "mount", conn |-> c, fresh |-> FALSE]
        /\ UNCHANGED <<session, slot, numActive, drift>>
    BY <1>2 DEF ActivateConnection, MayCall
  <2>2. Active' = Active \cup {c} /\ c \notin Active
    BY <2>1 DEF Active, TypeOK
  <2>3. Cardinality(Active)' = Cardinality(Active) + 1
    BY <1>0, <2>2, FS_AddElement
  <2>4. Balance' = Balance
    BY <1>0, <2>1, <2>3 DEF Balance, Uncounted, TypeOK
  <2>5. Multiple(Balance)'
    BY <2>1, <2>4 DEF Accounted, Multiple
  <2> QED BY <2>1, <2>5 DEF Accounted, NonEmpty
<1>3. CASE InitConnection
  <2>1. /\ uc.op = "raw" /\ ucLive /\ ucLive'
        /\ slot' = [slot EXCEPT ![uc.conn] = "ready"]
        /\ uc' = [uc EXCEPT !.op = "open"]
        /\ UNCHANGED <<session, enabled, numActive, drift>>
    BY <1>3 DEF InitConnection, Calling
  <2>2. slot[uc.conn] # "empty" /\ NonEmpty' = NonEmpty
    BY <2>1 DEF Accounted, NonEmpty, TypeOK
  <2>3. /\ uc'.op = "open" /\ uc'.conn = uc.conn /\ uc'.fresh = uc.fresh
        /\ uc.conn \in Conns
    BY <2>1 DEF TypeOK
  <2>4. Multiple(Balance)'
    BY <2>1, <2>3 DEF Accounted, Balance, Uncounted, Active
  <2> QED BY <2>1, <2>2, <2>3, <2>4 DEF Accounted, NonEmpty, TypeOK
<1>4. CASE ConnectDone
  <2>1. /\ uc.op = "open" /\ ucLive /\ uc' = NoCall
        /\ UNCHANGED <<enabled, numActive, drift>>
        /\ \/ UNCHANGED <<session, slot>>
           \/ /\ slot' = [slot EXCEPT ![uc.conn] = "empty"]
              /\ session' = (session /\ ~uc.fresh)
    BY <1>4 DEF ConnectDone, Calling
  <2>2. uc'.op = "none"
    BY <2>1 DEF NoCall
  <2>3. Multiple(Balance)'
    BY <2>1, <2>2 DEF Accounted, Balance, Uncounted, Active
  <2>4. ASSUME NEW c \in Conns, slot'[c] # "empty" PROVE session'
    <3>1. CASE UNCHANGED <<session, slot>>
      BY <2>4, <3>1 DEF Accounted
    <3>2. CASE /\ slot' = [slot EXCEPT ![uc.conn] = "empty"]
               /\ session' = (session /\ ~uc.fresh)
      <4>1. slot[c] # "empty" /\ c # uc.conn
        BY <2>4, <3>2 DEF TypeOK
      <4>2. session /\ ~uc.fresh
        BY <2>1, <4>1 DEF Accounted, NonEmpty
      <4> QED BY <3>2, <4>2
    <3> QED BY <2>1, <3>1, <3>2
  <2> QED BY <2>2, <2>3, <2>4 DEF Accounted
<1>5. CASE MountTarget
  <2>1. /\ uc.op = "mount" /\ ucLive /\ uc.conn \in Conns
        /\ UNCHANGED <<session, slot, numActive, ucLive>>
    BY <1>5 DEF MountTarget, Calling, TypeOK
  <2>2. Multiple(Balance)
    BY <2>1 DEF Accounted
  <2>3. CASE uc' = [uc EXCEPT !.op = "count"] /\ UNCHANGED <<enabled, drift>>
    <3>1. uc'.op = "count" /\ uc'.conn = uc.conn
      BY <2>3 DEF TypeOK
    <3>2. Balance' = Balance
      BY <2>1, <2>3, <3>1 DEF Balance, Uncounted, Active
    <3>3. Multiple(Balance)'
      BY <2>2, <3>2 DEF Multiple
    <3> QED BY <2>1, <3>1, <3>3 DEF Accounted
  <2>4. CASE /\ uc' = NoCall /\ enabled' = [enabled EXCEPT ![uc.conn] = FALSE]
             /\ drift' = drift + (IF enabled[uc.conn] THEN 0 ELSE 1)
    <3>1. uc'.op = "none"
      BY <2>4 DEF NoCall
    <3>2. Active' = Active \ {uc.conn} /\ (enabled[uc.conn] <=> uc.conn \in Active)
      BY <2>1, <2>4 DEF Active, TypeOK
    <3>3. Cardinality(Active)' = IF enabled[uc.conn] THEN Cardinality(Active) - 1
                                 ELSE Cardinality(Active)
      BY <1>0, <3>2, FS_RemoveElement
    <3>4. Balance' = Balance
      BY <1>0, <2>1, <2>4, <3>1, <3>3, SMTT(30) DEF Balance, Uncounted, TypeOK
    <3>5. Multiple(Balance)'
      BY <2>2, <3>4 DEF Multiple
    <3> QED BY <2>1, <3>1, <3>5 DEF Accounted
  <2> QED BY <1>5, <2>3, <2>4 DEF MountTarget
<1>6. CASE CountConnection
  <2>1. /\ uc.op = "count" /\ ucLive /\ uc' = NoCall
        /\ numActive' = (numActive + 1) % CounterMod
        /\ UNCHANGED <<session, slot, enabled, drift>>
    BY <1>6 DEF CountConnection, Calling
  <2>2. uc'.op = "none" /\ uc.conn \in Conns
    BY <2>1 DEF NoCall, TypeOK
  <2>3. Multiple(Balance)
    BY <2>1, <2>2 DEF Accounted
  <2>4. numActive \in Int /\ drift \in Int
    BY DEF TypeOK
  <2>5. PICK k \in Int : numActive' = numActive + 1 + k * CounterMod
    BY <2>1, <2>4, WrapIs
  <2>6. Cardinality(Active)' = Cardinality(Active) /\ k * CounterMod \in Int
    BY <2>1, ConstantsAssumption DEF Active
  <2>7. Balance' = Balance + k * CounterMod
    BY <1>0, <2>1, <2>2, <2>4, <2>5, <2>6 DEF Balance, Uncounted
  <2>8. Multiple(Balance)'
    BY <1>0, <2>3, <2>7, MultipleMoves DEF Multiple
  <2> QED BY <2>1, <2>2, <2>8 DEF Accounted
<1> QED BY <1>1, <1>2, <1>3, <1>4, <1>5, <1>6

\* Every step that tears connections down keeps the account.
LEMMA TeardownStepAccounted ==
    ASSUME TypeOK, TypeOK', LiveSections, Accounted,
           \/ \E t \in Tasks : HandleTimeout(t)
           \/ Dispatch \/ UnsolicitedDataFails \/ HandlerIOFails \/ TaskMgmtRequest
           \/ \E e \in AsyncEvents : ProcessAsyncMsg(e)
           \/ \E c \in Conns : DeactivateConnection(c) \/ ReleaseConnection(c)
           \/ DeactivateAllConnections \/ ReleaseSession
    PROVE  Accounted'
<1> USE DEF connVars, taskVars, ctrlVars, TaskFrame
<1> DEFINE Frame == UNCHANGED <<session, slot, enabled, numActive, drift, uc, ucLive>>
           TimesOut == \E c \in Conns : \E Q, B, A :
                           ConnectionTimeout(c, Q, B, A) /\ UNCHANGED uc
           Ends == \E D \in SUBSET Conns : \E Q, B, A :
                       Teardown(D, NonEmpty, TRUE, Q, B, A) /\ UNCHANGED uc
           Tears == \E D, R \in SUBSET Conns : \E Q, B, A :
                        /\ Teardown(D, R, FALSE, Q, B, A) /\ UNCHANGED uc
                        /\ R \cap Active \subseteq D
<1>0. wl.conn \in Conns /\ 0 \in Conns /\ {} \in SUBSET Conns
      /\ Active \in SUBSET Conns /\ NonEmpty \in SUBSET Conns
  BY ConnsFinite DEF TypeOK, Active, NonEmpty
<1>1. ASSUME NEW t \in Tasks, HandleTimeout(t) PROVE Frame \/ TimesOut
  <2>1. hbaData[t] \in Conns
    BY DEF TypeOK
  <2>2. QED BY <1>1, <2>1 DEF HandleTimeout, Panic
<1>2. ASSUME Dispatch PROVE Frame \/ TimesOut
  BY <1>0, <1>2 DEF Dispatch
<1>3. ASSUME UnsolicitedDataFails \/ HandlerIOFails PROVE TimesOut
  BY <1>0, <1>3 DEF UnsolicitedDataFails, HandlerIOFails
<1>4. ASSUME TaskMgmtRequest PROVE Frame \/ TimesOut
  BY <1>0, <1>4 DEF TaskMgmtRequest
<1>5. ASSUME NEW e \in AsyncEvents, ProcessAsyncMsg(e) PROVE Ends \/ Tears
  BY <1>0, <1>5 DEF ProcessAsyncMsg
<1>6. ASSUME NEW c \in Conns, DeactivateConnection(c) PROVE Tears
  BY <1>0, <1>6 DEF DeactivateConnection
<1>7. ASSUME DeactivateAllConnections PROVE Tears
  BY <1>0, <1>7 DEF DeactivateAllConnections
<1>8. ASSUME NEW c \in Conns, ReleaseConnection(c) PROVE Ends \/ Tears
  <2>1. CASE NonEmpty = {c}
    BY <1>0, <1>8, <2>1 DEF ReleaseConnection
  <2>2. CASE NonEmpty # {c}
    BY <1>0, <1>8, <2>2 DEF ReleaseConnection
  <2> QED BY <2>1, <2>2
<1>9. ASSUME ReleaseSession PROVE Ends
  BY <1>0, <1>9 DEF ReleaseSession
<1>10. Frame \/ TimesOut \/ Ends \/ Tears
  BY <1>1, <1>2, <1>3, <1>4, <1>5, <1>6, <1>7, <1>8, <1>9
<1>11. CASE Frame
  BY <1>11, AccountedFrame
<1>12. CASE TimesOut
  BY <1>12, TimeoutAccounted
<1>13. CASE Ends
  BY <1>13, LastTeardownBalances
<1>14. CASE Tears
  BY <1>14, TeardownAccounted
<1> QED BY <1>10, <1>11, <1>12, <1>13, <1>14

\* Every step keeps the account: one case for each kind of step.
LEMMA AccountedStep ==
    ASSUME IInv, IInv', Accounted, [Next]_vars
    PROVE  Accounted'
<1> USE DEF connVars, taskVars, ctrlVars, TaskFrame, CallFrame
<1>0. TypeOK /\ TypeOK' /\ LiveSections
  BY DEF IInv, Safe
<1> DEFINE Frame == UNCHANGED <<session, slot, enabled, numActive, drift, uc, ucLive>>
           Tearing == \/ \E t \in Tasks : HandleTimeout(t)
                      \/ Dispatch \/ UnsolicitedDataFails \/ HandlerIOFails
                      \/ TaskMgmtRequest
                      \/ \E e \in AsyncEvents : ProcessAsyncMsg(e)
                      \/ \E c \in Conns : DeactivateConnection(c) \/ ReleaseConnection(c)
                      \/ DeactivateAllConnections \/ ReleaseSession
           Counting == \/ \E c \in Conns : CreateConnection(c) \/ ActivateConnection(c)
                       \/ InitConnection \/ ConnectDone \/ MountTarget \/ CountConnection
<1>1. CASE Tearing
  BY <1>0, <1>1, TeardownStepAccounted
<1>2. CASE Counting
  BY <1>0, <1>2, CallAccounted
<1>3. CASE StackNext
  <2>1. Tearing \/ Frame
    BY <1>3 DEF StackNext, ProcessParallelTask, ProcessParallelTaskRaw, TimerFires,
                TaskMgmtRequestRaw, Panic
  <2> QED BY <1>1, <2>1, AccountedFrame
<1>4. CASE WorkloopNext
  <2>1. Tearing \/ Frame
    BY <1>4 DEF WorkloopNext, CheckForWorkRaw, CheckForWork, DrainDone, UseAfterFree,
                RecvPDUHeader, DropPDU, ProcessSCSIResponse, CompleteCurrentTask,
                ProcessNOPIn, ProcessTaskMgmtRsp, ProcessAsyncMsgRaw, PollAgain, Panic
  <2> QED BY <1>1, <2>1, AccountedFrame
<1>5. CASE UserClientNext
  <2>1. Tearing \/ Counting \/ Frame
    BY <1>5 DEF UserClientNext, CallUseAfterFree, ClientClose, Panic
  <2> QED BY <1>1, <1>2, <2>1, AccountedFrame
<1>6. CASE \E c \in Conns : PeerLost(c)
  BY <1>6, AccountedFrame DEF PeerLost
<1>7. CASE UNCHANGED vars
  BY <1>7, AccountedFrame DEF vars
<1> QED BY <1>3, <1>4, <1>5, <1>6, <1>7 DEF Next

\* The count of active connections is exact modulo 2^32, but for the decrements
\* that match no active connection, for any number of connections, calls and
\* faults and wherever a session ends.
THEOREM ActiveCountIsExact == Spec => []ActiveCountAccounted
<1>1. Spec => []Accounted
  <2>1. Accounted /\ IInv /\ IInv' /\ [Next]_vars => Accounted'
    BY AccountedStep
  <2> QED BY AccountedInit, InductiveInvariant, <2>1, PTL DEF Spec
<1>2. Accounted /\ IInv => ActiveCountAccounted
  <2> SUFFICES ASSUME Accounted, TypeOK, session
               PROVE  Balance % CounterMod = 0
    BY DEF IInv, ActiveCountAccounted, Balance, Uncounted
  <2>1. Multiple(Balance) /\ Balance \in Int
    BY BalanceType DEF Accounted
  <2> QED BY <2>1, MultipleIs
<1> QED BY <1>1, <1>2, InductiveInvariant, PTL
=============================================================================
