-------------------------- MODULE VirtualHBA_proofs --------------------------
(***************************************************************************)
(* Theorems about VirtualHBA, for every number of tasks and connections    *)
(* and whatever the bounds on submissions, faults and calls.               *)
(***************************************************************************)
EXTENDS VirtualHBA, FiniteSetTheorems, SequenceTheorems, TLAPS

-----------------------------------------------------------------------------
(* What the helpers on queues return. *)

\* r has no entries but those of q, and no entry twice unless q has one twice.
PartOf(r, q) ==
    /\ r # <<>> => q # <<>>
    /\ Elems(r) \subseteq Elems(q)
    /\ Distinct(q) => Distinct(r)

\* Conns is finite and holds connection 0.
LEMMA ConnsFinite == /\ IsFiniteSet(Conns)
                     /\ 0 \in Conns
                     /\ \A D \in SUBSET Conns : Cardinality(D) \in Nat
<1>1. IsFiniteSet(Conns)
  BY FS_Interval, ConstantsAssumption DEF Conns
<1>2. 0 \in Conns
  BY ConstantsAssumption DEF Conns
<1>3. \A D \in SUBSET Conns : Cardinality(D) \in Nat
  BY <1>1, FS_Subset, FS_CardinalityType
<1>4. QED BY <1>1, <1>2, <1>3

\* The drain of DeactivateConnectionGated removes a part of the queue.
LEMMA DrainedCount ==
    ASSUME NEW q \in Seq(Items)
    PROVE  Cardinality(DrainedPos(q)) \in Nat
<1>1. Len(q) \in Nat
  BY LenProperties
<1>2. IsFiniteSet(1..Len(q))
  BY <1>1, FS_Interval
<1>3. DrainedPos(q) \subseteq 1..Len(q)
  BY DEF DrainedPos
<1>4. QED BY <1>2, <1>3, FS_Subset, FS_CardinalityType

\* A queue that takes its entries from increasing positions of another.
LEMMA PartOfByPositions ==
    ASSUME NEW q \in Seq(Items), NEW r \in Seq(Items), NEW at,
           \A i \in 1..Len(r) : at[i] \in 1..Len(q) /\ r[i] = q[at[i]],
           \A i, j \in 1..Len(r) : at[i] = at[j] => i = j
    PROVE  PartOf(r, q)
<1>1. Elems(r) \subseteq Elems(q)
  BY DEF Elems
<1>2. r # <<>> => q # <<>>
  <2> SUFFICES ASSUME r # <<>> PROVE q # <<>>
    OBVIOUS
  <2>1. 1 \in 1..Len(r)
    BY EmptySeq, LenProperties
  <2>2. 1..Len(q) # {}
    BY <2>1
  <2>3. QED BY <2>2, EmptySeq
<1>3. Distinct(q) => Distinct(r)
  BY SMTT(30) DEF Distinct
<1>4. QED BY <1>1, <1>2, <1>3 DEF PartOf

\* What the drain leaves of a queue is a part of it.
LEMMA UndrainedSeq ==
    ASSUME NEW q \in Seq(Items)
    PROVE  Undrained(q) \in Seq(Items) /\ PartOf(Undrained(q), q)
<1> DEFINE n == Cardinality(DrainedPos(q))
           u == SubSeq(q, n + 1, Len(q))
           at == [i \in 1..Len(u) |-> i + n]
<1>1. n \in Nat /\ Len(q) \in Nat
  BY DrainedCount, LenProperties
<1>2. \A i \in (n + 1)..Len(q) : q[i] \in Items
  <2>1. (n + 1)..Len(q) \subseteq 1..Len(q)
    BY <1>1
  <2>2. QED BY <2>1, ElementOfSeq
<1>3. u \in Seq(Items) /\ Len(u) = IF n + 1 <= Len(q) THEN Len(q) - (n + 1) + 1 ELSE 0
  <2>1. n + 1 \in Int /\ Len(q) \in Int
    BY <1>1
  <2> HIDE DEF n
  <2>2. QED BY <1>2, <2>1, SubSeqProperties
<1>4. \A i \in 1..Len(u) : at[i] \in 1..Len(q) /\ u[i] = q[at[i]]
  <2> SUFFICES ASSUME NEW i \in 1..Len(u) PROVE at[i] \in 1..Len(q) /\ u[i] = q[at[i]]
    OBVIOUS
  <2>1. n + 1 <= Len(q) /\ i \in 1..(Len(q) - n)
    BY <1>1, <1>3
  <2> HIDE DEF n
  <2>2. u[i] = q[i + n]
    BY <1>1, <2>1
  <2>3. QED BY <1>1, <2>1, <2>2
<1>5. \A i, j \in 1..Len(u) : at[i] = at[j] => i = j
  BY <1>1, <1>3
<1>6. PartOf(u, q)
  <2>1. u \in Seq(Items)
    BY <1>3
  <2> HIDE DEF n, u, at
  <2>2. QED BY <2>1, <1>4, <1>5, PartOfByPositions
<1>7. QED BY <1>3, <1>6 DEF Undrained

\* The tail of a queue, and what completeCurrentTask leaves of it.
LEMMA TailSeq ==
    ASSUME NEW q \in Seq(Items), q # <<>>
    PROVE  /\ Head(q) \in Items /\ Head(q) \in Elems(q)
           /\ Tail(q) \in Seq(Items) /\ PartOf(Tail(q), q)
           /\ Distinct(q) => Head(q) \notin Elems(Tail(q))
<1> DEFINE u == Tail(q)
           at == [i \in 1..Len(u) |-> i + 1]
<1>1. Head(q) \in Items /\ u \in Seq(Items)
  BY HeadTailProperties
<1>2. Len(q) \in Nat \ {0} /\ Len(u) = Len(q) - 1
  BY EmptySeq
<1>3. \A i \in 1..Len(u) : at[i] \in 1..Len(q) /\ u[i] = q[at[i]]
  BY <1>2
<1>4. \A i, j \in 1..Len(u) : at[i] = at[j] => i = j
  BY <1>2
<1>5. PartOf(u, q)
  <2> HIDE DEF u, at
  <2>1. QED BY <1>1, <1>3, <1>4, PartOfByPositions, SMTT(30)
<1>6. Head(q) = q[1] /\ 1 \in 1..Len(q)
  BY <1>2
<1>7. Distinct(q) => Head(q) \notin Elems(u)
  <2> SUFFICES ASSUME Distinct(q), NEW i \in 1..Len(u), u[i] = Head(q) PROVE FALSE
    BY DEF Elems
  <2>1. at[i] \in 1..Len(q) /\ q[at[i]] = q[1]
    BY <1>3, <1>6
  <2>2. at[i] = 1
    BY <1>6, <2>1 DEF Distinct
  <2>3. QED BY <1>2, <2>2
<1>8. QED BY <1>1, <1>5, <1>6, <1>7 DEF Elems

LEMMA PopHeadSeq ==
    ASSUME NEW q \in Seq(Items)
    PROVE  PopHead(q) \in Seq(Items) /\ PartOf(PopHead(q), q)
BY TailSeq DEF PopHead, PartOf

\* queueTask adds an entry that is not there yet.
LEMMA AppendSeq ==
    ASSUME NEW q \in Seq(Items), NEW x \in Items
    PROVE  /\ Append(q, x) \in Seq(Items)
           /\ Elems(Append(q, x)) = Elems(q) \cup {x}
           /\ Distinct(q) /\ x \notin Elems(q) => Distinct(Append(q, x))
<1> DEFINE u == Append(q, x)
<1>1. u \in Seq(Items) /\ Len(u) = Len(q) + 1 /\ Len(q) \in Nat
  BY AppendProperties, LenProperties
<1>2. (\A i \in 1..Len(q) : u[i] = q[i]) /\ u[Len(q) + 1] = x
  BY AppendProperties, LenProperties
<1> HIDE DEF u
<1>3. 1..Len(u) = 1..Len(q) \cup {Len(q) + 1}
  BY <1>1
<1>4. Elems(u) = Elems(q) \cup {x}
  BY <1>2, <1>3 DEF Elems
<1>5. Distinct(q) /\ x \notin Elems(q) => Distinct(u)
  BY <1>2, <1>3 DEF Distinct, Elems
<1>6. QED BY <1>1, <1>4, <1>5 DEF u

\* removeTask leaves a part of the queue, without the task if it was there once.
LEMMA RemoveTaskSeq ==
    ASSUME NEW q \in Seq(Items), NEW t
    PROVE  /\ RemoveTask(q, t) \in Seq(Items) /\ PartOf(RemoveTask(q, t), q)
           /\ Distinct(q) => t \notin Elems(RemoveTask(q, t))
<1> DEFINE First(i) == q[i] = t /\ \A j \in 1..(i - 1) : q[j] # t
<1>0. Len(q) \in Nat
  BY LenProperties
<1>1. CASE ~\E i \in 1..Len(q) : First(i)
  <2>1. RemoveTask(q, t) = q
    BY <1>1 DEF RemoveTask
  <2>2. Distinct(q) => t \notin Elems(q)
    <3> SUFFICES ASSUME Distinct(q), NEW i \in 1..Len(q), q[i] = t PROVE FALSE
      BY DEF Elems
    <3>1. \A j \in 1..(i - 1) : q[j] # t
      BY <1>0 DEF Distinct
    <3>2. QED BY <1>1, <3>1
  <2>3. QED BY <2>1, <2>2 DEF PartOf
<1>2. CASE \E i \in 1..Len(q) : First(i)
  <2> DEFINE k == CHOOSE i \in 1..Len(q) : First(i)
             r == [i \in 1..(Len(q) - 1) |-> IF i < k THEN q[i] ELSE q[i + 1]]
             at == [i \in 1..(Len(q) - 1) |-> IF i < k THEN i ELSE i + 1]
  <2>1. k \in 1..Len(q) /\ First(k)
    BY <1>2
  <2>2. RemoveTask(q, t) = r
    BY <1>2 DEF RemoveTask
  <2> HIDE DEF k
  <2>3. \A i \in 1..(Len(q) - 1) : at[i] \in 1..Len(q) /\ at[i] # k /\ r[i] = q[at[i]]
    BY <1>0, <2>1
  <2>4. r \in Seq(Items) /\ Len(r) = Len(q) - 1
    <3>1. Len(q) - 1 \in Nat
      BY <1>0, <2>1
    <3>2. \A i \in 1..(Len(q) - 1) : r[i] \in Items
      BY <2>3, ElementOfSeq
    <3>3. r \in [1..(Len(q) - 1) -> Items]
      BY <3>2
    <3>4. QED BY <3>1, <3>3
  <2>5. \A i, j \in 1..Len(r) : at[i] = at[j] => i = j
    BY <1>0, <2>1, <2>4
  <2>6. \A i \in 1..Len(r) : at[i] \in 1..Len(q) /\ at[i] # k /\ r[i] = q[at[i]]
    BY <2>3, <2>4
  <2>7. PartOf(r, q)
    <3>1. r \in Seq(Items)
      BY <2>4
    <3>2. \A i \in 1..Len(r) : at[i] \in 1..Len(q) /\ r[i] = q[at[i]]
      BY <2>6
    <3> HIDE DEF r, at
    <3>3. QED BY <2>5, <3>1, <3>2, PartOfByPositions
  <2> HIDE DEF r, at
  <2>8. Distinct(q) => t \notin Elems(r)
    <3> SUFFICES ASSUME Distinct(q), NEW i \in 1..Len(r), r[i] = t PROVE FALSE
      BY DEF Elems
    <3>1. q[at[i]] = q[k]
      BY <2>1, <2>6
    <3>2. QED BY <2>1, <2>6, <3>1 DEF Distinct
  <2>9. QED BY <2>2, <2>4, <2>7, <2>8
<1>3. QED BY <1>1, <1>2

-----------------------------------------------------------------------------
(* Type correctness. *)

\* What the teardown of connections assigns has its type.
TeardownTypes ==
    /\ session \in BOOLEAN /\ mounted \in BOOLEAN
    /\ slot \in [Conns -> {"empty", "raw", "ready"}]
    /\ enabled \in [Conns -> BOOLEAN] /\ broken \in [Conns -> BOOLEAN]
    /\ queue \in [Conns -> Seq(Items)] /\ newTask \in [Conns -> BOOLEAN]
    /\ pending \in [Conns -> SUBSET Pdus]
    /\ numActive \in 0..(CounterMod - 1) /\ drift \in Int
    /\ armed \in SUBSET Tasks /\ bound \in SUBSET Tasks /\ busy \in SUBSET Tasks
    /\ wlLive \in BOOLEAN /\ ucLive \in BOOLEAN

LEMMA ModType == \A n \in Int : n % CounterMod \in 0..(CounterMod - 1)
BY ConstantsAssumption

\* The code every ending shares keeps the types.
LEMMA TeardownType ==
    ASSUME TypeOK, NEW D \in SUBSET Conns, NEW R \in SUBSET Conns,
           NEW e \in BOOLEAN, NEW Q \in [Conns -> Seq(Items)],
           NEW B \in SUBSET Tasks, NEW A \in SUBSET Tasks,
           Teardown(D, R, e, Q, B, A)
    PROVE  TeardownTypes'
<1>1. Cardinality(D) \in Nat /\ Cardinality(D \cap Active) \in Nat
  BY ConnsFinite
<1>2. /\ enabled' \in [Conns -> BOOLEAN] /\ broken' \in [Conns -> BOOLEAN]
      /\ newTask' \in [Conns -> BOOLEAN] /\ session' \in BOOLEAN
      /\ mounted' \in BOOLEAN /\ wlLive' \in BOOLEAN /\ ucLive' \in BOOLEAN
  BY DEF Teardown
<1>3. queue' \in [Conns -> Seq(Items)]
  <2>1. \A c \in Conns : Undrained(Q[c]) \in Seq(Items) /\ Q[c] \in Seq(Items)
    BY UndrainedSeq
  <2>2. <<>> \in Seq(Items)
    BY EmptySeq
  <2>3. QED BY <2>1, <2>2 DEF Teardown
<1>4. slot' \in [Conns -> {"empty", "raw", "ready"}]
  BY DEF Teardown, TypeOK
<1>5. pending' \in [Conns -> SUBSET Pdus]
  BY DEF Teardown, TypeOK
<1>6. /\ armed' \in SUBSET Tasks /\ bound' \in SUBSET Tasks
      /\ busy' \in SUBSET Tasks
  BY DEF Teardown, TypeOK
<1>7. numActive' \in 0..(CounterMod - 1)
  <2>1. numActive \in Int
    BY DEF TypeOK
  <2>2. numActive - Cardinality(D) \in Int
    BY <1>1, <2>1
  <2>3. Decremented(Cardinality(D)) \in 0..(CounterMod - 1)
    BY <2>2, ModType DEF Decremented
  <2>4. 0 \in 0..(CounterMod - 1)
    BY ConstantsAssumption
  <2>5. QED BY <2>3, <2>4 DEF Teardown
<1>8. drift' \in Int
  BY <1>1 DEF Teardown, TypeOK
<1>9. QED BY <1>2, <1>3, <1>4, <1>5, <1>6, <1>7, <1>8 DEF TeardownTypes

LEMMA ConnectionTimeoutType ==
    ASSUME TypeOK, NEW c \in Conns, NEW Q \in [Conns -> Seq(Items)],
           NEW B \in SUBSET Tasks, NEW A \in SUBSET Tasks,
           ConnectionTimeout(c, Q, B, A)
    PROVE  TeardownTypes'
<1>1. {c} \in SUBSET Conns /\ {} \in SUBSET Conns
  OBVIOUS
<1>2. CASE client
  <2>1. Teardown({c}, {}, FALSE, Q, B, A)
    BY <1>2 DEF ConnectionTimeout
  <2>2. QED BY <1>1, <2>1, TeardownType
<1>3. CASE ~client
  <2>1. Teardown({c}, {c}, NonEmpty = {c}, Q, B, A)
    BY <1>3 DEF ConnectionTimeout
  <2>2. (NonEmpty = {c}) \in BOOLEAN
    OBVIOUS
  <2>3. QED BY <1>1, <2>1, <2>2, TeardownType
<1>4. QED BY <1>2, <1>3

\* Completing a task adds at most the probe to a queue.
LEMMA CompletionType ==
    ASSUME TypeOK, NEW c \in Conns, NEW t, NEW Q \in [Conns -> Seq(Items)],
           CompleteParallelTask(c, t, Q)
    PROVE  /\ queue' \in [Conns -> Seq(Items)]
           /\ newTask' \in [Conns -> BOOLEAN]
           /\ armed' \in SUBSET Tasks /\ bound' \in SUBSET Tasks
           /\ busy' \in SUBSET Tasks
<1>1. Append(Q[c], Probe) \in Seq(Items)
  BY AppendProperties DEF Items
<1>2. queue' \in [Conns -> Seq(Items)]
  BY <1>1 DEF CompleteParallelTask
<1>3. newTask' \in [Conns -> BOOLEAN]
  BY DEF CompleteParallelTask, TypeOK
<1>4. armed' \in SUBSET Tasks /\ bound' \in SUBSET Tasks /\ busy' \in SUBSET Tasks
  <2>1. /\ armed' = armed \ {t} /\ bound' = bound \ {t} /\ busy' = busy \ {t}
    BY DEF CompleteParallelTask
  <2>2. QED BY <2>1 DEF TypeOK
<1>5. QED BY <1>2, <1>3, <1>4

\* The types no teardown touches.
OtherTypes ==
    /\ expired \in SUBSET Tasks /\ timedOut \in SUBSET Tasks
    /\ hbaData \in [Tasks -> Conns] /\ serial \in [Tasks -> 0..MaxSubmits]
    /\ client \in BOOLEAN /\ panic \in BOOLEAN
    /\ wl \in [op : Steps, conn : Conns, pdu : Pdus]
    /\ uc \in [op : Calls, conn : Conns, fresh : BOOLEAN]
    /\ faults \in Nat /\ calls \in Nat

LEMMA TypeParts == TypeOK <=> TeardownTypes /\ OtherTypes
BY DEF TypeOK, TeardownTypes, OtherTypes

LEMMA TypePrime == TypeOK' <=> TeardownTypes' /\ OtherTypes'
BY DEF TypeOK, TeardownTypes, OtherTypes

LEMMA PanicType == TypeOK /\ Panic => TypeOK'
BY DEF TypeOK, Panic, connVars, taskVars

LEMMA FailType ==
    ASSUME TypeOK, NEW c \in Conns, IOFails(c)
    PROVE  faults' \in Nat
BY DEF TypeOK, IOFails

LEMMA NoPduType == NoPdu \in Pdus
<1>1. 0 \in 0..MaxSubmits
  BY ConstantsAssumption
<1>2. QED BY <1>1 DEF NoPdu, Pdus

\* The first state is of the types.
LEMMA TypeInit == Init => TypeOK
<1> SUFFICES ASSUME Init PROVE TypeOK
  OBVIOUS
<1>1. <<>> \in Seq(Items)
  BY EmptySeq
<1>2. 0 \in Conns
  BY ConnsFinite
<1>3. 0 \in 0..(CounterMod - 1) /\ 0 \in 0..MaxSubmits
  BY ConstantsAssumption
<1>4. wl \in [op : Steps, conn : Conns, pdu : Pdus]
  BY <1>2, NoPduType DEF Init, Free, Steps
<1>5. uc \in [op : Calls, conn : Conns, fresh : BOOLEAN]
  BY <1>2 DEF Init, NoCall, Calls
<1>6. QED BY <1>1, <1>2, <1>3, <1>4, <1>5 DEF Init, TypeOK

\* So is what a step leads to.
LEMMA TypeStep == TypeOK /\ [Next]_vars => TypeOK'
<1> SUFFICES ASSUME TypeOK, [Next]_vars PROVE TypeOK'
  OBVIOUS
<1> USE DEF connVars, taskVars, ctrlVars, TaskFrame, CallFrame
<1>1. ASSUME NEW t \in Tasks, NEW c \in Conns, ProcessParallelTask(t, c) PROVE TypeOK'
  <2>1. Append(queue[c], t) \in Seq(Items)
    BY AppendProperties DEF TypeOK, Items
  <2>2. queue' \in [Conns -> Seq(Items)]
    BY <1>1, <2>1 DEF ProcessParallelTask, RegisteredOnSubmit, TypeOK
  <2>3. serial' \in [Tasks -> 0..MaxSubmits]
    BY <1>1, ConstantsAssumption DEF ProcessParallelTask, RegisteredOnSubmit, TypeOK
  <2>4. QED BY <1>1, <2>2, <2>3 DEF ProcessParallelTask, RegisteredOnSubmit, TypeOK
<1>2. ASSUME NEW t \in Tasks, ProcessParallelTaskRaw(t) PROVE TypeOK'
  BY <1>2, PanicType DEF ProcessParallelTaskRaw
<1>3. ASSUME NEW t \in Tasks, TimerFires(t) PROVE TypeOK'
  BY <1>3 DEF TimerFires, TypeOK
<1>4. ASSUME NEW t \in Tasks, HandleTimeout(t) PROVE TypeOK'
  <2> DEFINE c == hbaData[t]
  <2>1. c \in Conns
    BY DEF TypeOK
  <2>2. CASE slot[c] = "empty"
    BY <1>4, <2>2 DEF HandleTimeout, TypeOK
  <2>3. CASE slot[c] = "raw"
    BY <1>4, <2>3, PanicType DEF HandleTimeout
  <2>4. CASE slot[c] = "ready" /\ Dead(c)
    <3>1. ConnectionTimeout(c, queue, bound, armed)
      BY <1>4, <2>4 DEF HandleTimeout
    <3>2. TeardownTypes'
      BY <2>1, <3>1, ConnectionTimeoutType DEF TypeOK
    <3>3. OtherTypes'
      BY <1>4, <2>4 DEF HandleTimeout, TypeOK, OtherTypes
    <3>4. QED BY <3>2, <3>3, TypePrime
  <2>5. CASE slot[c] = "ready" /\ ~Dead(c)
    <3> DEFINE Q == [queue EXCEPT ![c] = RemoveTask(@, t)]
    <3>1. Q \in [Conns -> Seq(Items)]
      BY <2>1, RemoveTaskSeq DEF TypeOK
    <3>2. CompleteParallelTask(c, t, Q)
      BY <1>4, <2>5 DEF HandleTimeout
    <3> HIDE DEF Q, c
    <3>3. /\ queue' \in [Conns -> Seq(Items)] /\ newTask' \in [Conns -> BOOLEAN]
          /\ armed' \in SUBSET Tasks /\ bound' \in SUBSET Tasks
          /\ busy' \in SUBSET Tasks
      BY <2>1, <3>1, <3>2, CompletionType
    <3>4. QED BY <1>4, <2>5, <3>3 DEF HandleTimeout, TypeOK, c
  <2>6. QED BY <2>1, <2>2, <2>3, <2>4, <2>5 DEF TypeOK
<1>5. ASSUME CheckForWorkRaw PROVE TypeOK'
  BY <1>5, PanicType DEF CheckForWorkRaw
<1>6. ASSUME NEW c \in Conns, CheckForWork(c) PROVE TypeOK'
  <2>1. wl' \in [op : Steps, conn : Conns, pdu : Pdus]
    BY <1>6, NoPduType DEF CheckForWork, Steps
  <2>2. QED BY <1>6, <2>1 DEF CheckForWork, TypeOK
<1>7. ASSUME Dispatch PROVE TypeOK'
  <2> DEFINE c == wl.conn
             item == Head(queue[c])
             B == bound \cup ({item} \cap Tasks)
             pdu == IF item = Probe THEN <<Probe, 0>> ELSE <<item, serial[item]>>
  <2>1. c \in Conns /\ queue[c] \in Seq(Items) /\ queue[c] # <<>>
    BY <1>7 DEF Dispatch, TypeOK
  <2>2. item \in Items /\ Tail(queue[c]) \in Seq(Items)
    BY <2>1, HeadTailProperties
  <2>3. Dequeue(c) \in [Conns -> Seq(Items)]
    BY <2>1, <2>2 DEF Dequeue, TypeOK
  <2>4. B \in SUBSET Tasks /\ SetTimeout(item) \in SUBSET Tasks
    BY DEF TypeOK, SetTimeout
  <2>5. pdu \in Pdus
    <3>1. 0 \in 0..MaxSubmits
      BY ConstantsAssumption
    <3>2. QED BY <2>2, <3>1 DEF Items, Pdus, TypeOK
  <2>6. wl' \in [op : Steps, conn : Conns, pdu : Pdus]
    BY <1>7, <2>5, NoPduType DEF Dispatch, TypeOK
  <2>7. TeardownTypes' /\ faults' \in Nat
    <3>1. CASE /\ queue' = Dequeue(c) /\ bound' = B /\ armed' = SetTimeout(item)
               /\ pending' = [pending EXCEPT ![c] = @ \cup {pdu}]
               /\ UNCHANGED <<session, slot, enabled, broken, newTask, numActive,
                              mounted, drift, busy, wlLive, ucLive, faults>>
      <4>1. pending' \in [Conns -> SUBSET Pdus]
        BY <2>1, <2>5, <3>1 DEF TypeOK
      <4> HIDE DEF B, item, pdu, c
      <4>2. QED BY <2>3, <2>4, <3>1, <4>1 DEF TypeOK, TeardownTypes
    <3>2. CASE /\ IOFails(c)
               /\ ConnectionTimeout(c, Dequeue(c), B, SetTimeout(item))
      <4> HIDE DEF B, item, pdu, c
      <4>1. QED BY <2>1, <2>3, <2>4, <3>2, ConnectionTimeoutType, FailType
    <3>3. QED BY <1>7, <3>1, <3>2 DEF Dispatch
  <2>8. OtherTypes'
    BY <1>7, <2>6, <2>7 DEF Dispatch, TypeOK, OtherTypes
  <2>9. QED BY <2>7, <2>8, TypePrime
<1>8. ASSUME UnsolicitedDataFails PROVE TypeOK'
  <2>1. wl.conn \in Conns /\ bound \in SUBSET Tasks /\ armed \in SUBSET Tasks
        /\ queue \in [Conns -> Seq(Items)]
    BY DEF TypeOK
  <2>2. TeardownTypes' /\ faults' \in Nat
    BY <1>8, <2>1, ConnectionTimeoutType, FailType DEF UnsolicitedDataFails
  <2>3. wl' \in [op : Steps, conn : Conns, pdu : Pdus]
    BY <1>8, NoPduType DEF UnsolicitedDataFails, TypeOK
  <2>4. OtherTypes'
    BY <1>8, <2>2, <2>3 DEF UnsolicitedDataFails, TypeOK, OtherTypes
  <2>5. QED BY <2>2, <2>4, TypePrime
<1>9. ASSUME DrainDone PROVE TypeOK'
  <2>1. wl' \in [op : Steps, conn : Conns, pdu : Pdus]
    BY <1>9, NoPduType, ConnsFinite DEF DrainDone, Free, Steps
  <2>2. QED BY <1>9, <2>1 DEF DrainDone, TypeOK
<1>10. ASSUME UseAfterFree PROVE TypeOK'
  BY <1>10, PanicType DEF UseAfterFree
<1>11. ASSUME NEW c \in Conns, NEW p \in Pdus, RecvPDUHeader(c, p) PROVE TypeOK'
  <2>1. wl' \in [op : Steps, conn : Conns, pdu : Pdus]
    BY <1>11 DEF RecvPDUHeader, Steps
  <2>2. pending' \in [Conns -> SUBSET Pdus]
    BY <1>11 DEF RecvPDUHeader, TypeOK
  <2>3. QED BY <1>11, <2>1, <2>2 DEF RecvPDUHeader, TypeOK
<1>12. ASSUME HandlerIOFails PROVE TypeOK'
  <2>1. wl.conn \in Conns /\ bound \in SUBSET Tasks /\ armed \in SUBSET Tasks
        /\ queue \in [Conns -> Seq(Items)]
    BY DEF TypeOK
  <2>2. TeardownTypes' /\ faults' \in Nat
    BY <1>12, <2>1, ConnectionTimeoutType, FailType DEF HandlerIOFails
  <2>3. wl' \in [op : Steps, conn : Conns, pdu : Pdus]
    BY <1>12 DEF HandlerIOFails, TypeOK, Steps
  <2>4. OtherTypes'
    BY <1>12, <2>2, <2>3 DEF HandlerIOFails, TypeOK, OtherTypes
  <2>5. QED BY <2>2, <2>4, TypePrime
<1>13. ASSUME DropPDU PROVE TypeOK'
  <2>1. wl' \in [op : Steps, conn : Conns, pdu : Pdus]
    BY <1>13 DEF DropPDU, Steps, TypeOK
  <2>2. QED BY <1>13, <2>1 DEF DropPDU, TypeOK
<1>14. ASSUME ProcessSCSIResponse PROVE TypeOK'
  <2>1. wl' \in [op : Steps, conn : Conns, pdu : Pdus]
    BY <1>14 DEF ProcessSCSIResponse, Steps, TypeOK
  <2>2. wl.conn \in Conns /\ queue \in [Conns -> Seq(Items)]
    BY DEF TypeOK
  <2>3. /\ queue' \in [Conns -> Seq(Items)] /\ newTask' \in [Conns -> BOOLEAN]
        /\ armed' \in SUBSET Tasks /\ bound' \in SUBSET Tasks /\ busy' \in SUBSET Tasks
    <3>1. CASE CompleteParallelTask(wl.conn, wl.pdu[1], queue)
      BY <2>2, <3>1, CompletionType
    <3>2. CASE UNCHANGED <<queue, newTask, bound, busy, armed>>
      BY <3>2 DEF TypeOK
    <3>3. QED BY <1>14, <3>1, <3>2 DEF ProcessSCSIResponse
  <2>4. QED BY <1>14, <2>1, <2>3 DEF ProcessSCSIResponse, TypeOK
<1>15. ASSUME CompleteCurrentTask PROVE TypeOK'
  <2>1. wl' \in [op : Steps, conn : Conns, pdu : Pdus]
    BY <1>15 DEF CompleteCurrentTask, Steps, TypeOK
  <2>2. queue' \in [Conns -> Seq(Items)]
    <3>1. wl.conn \in Conns /\ queue[wl.conn] \in Seq(Items)
      BY DEF TypeOK
    <3>2. PopHead(queue[wl.conn]) \in Seq(Items)
      BY <3>1, HeadTailProperties DEF PopHead
    <3>3. QED BY <1>15, <3>1, <3>2 DEF CompleteCurrentTask, TypeOK
  <2>3. QED BY <1>15, <2>1, <2>2 DEF CompleteCurrentTask, TypeOK
<1>16. ASSUME ProcessNOPIn PROVE TypeOK'
  <2>1. wl' \in [op : Steps, conn : Conns, pdu : Pdus]
    BY <1>16 DEF ProcessNOPIn, Steps, TypeOK
  <2>2. queue' \in [Conns -> Seq(Items)]
    <3>1. wl.conn \in Conns /\ queue[wl.conn] \in Seq(Items)
      BY DEF TypeOK
    <3>2. PopHead(queue[wl.conn]) \in Seq(Items)
      BY <3>1, HeadTailProperties DEF PopHead
    <3>3. QED BY <1>16, <3>1, <3>2 DEF ProcessNOPIn, TypeOK
  <2>3. QED BY <1>16, <2>1, <2>2 DEF ProcessNOPIn, TypeOK
<1>17. ASSUME ProcessTaskMgmtRsp PROVE TypeOK'
  <2>1. wl' \in [op : Steps, conn : Conns, pdu : Pdus]
    BY <1>17 DEF ProcessTaskMgmtRsp, Steps, TypeOK
  <2>2. QED BY <1>17, <2>1 DEF ProcessTaskMgmtRsp, TypeOK
<1>18. ASSUME NEW e \in AsyncEvents, ProcessAsyncMsg(e) PROVE TypeOK'
  <2>1. /\ wl.conn \in Conns /\ bound \in SUBSET Tasks /\ armed \in SUBSET Tasks
        /\ queue \in [Conns -> Seq(Items)]
        /\ Active \in SUBSET Conns /\ NonEmpty \in SUBSET Conns
        /\ {wl.conn} \in SUBSET Conns /\ {wl.conn} \cap Active \in SUBSET Conns
        /\ {} \in SUBSET Conns /\ TRUE \in BOOLEAN /\ FALSE \in BOOLEAN
    BY DEF TypeOK, Active, NonEmpty
  <2>2. TeardownTypes'
    <3>1. CASE Teardown(Active, NonEmpty, TRUE, queue, bound, armed)
      BY <2>1, <3>1, TeardownType
    <3>2. CASE Teardown({wl.conn} \cap Active, {wl.conn}, FALSE, queue, bound, armed)
      BY <2>1, <3>2, TeardownType
    <3>3. CASE Teardown({wl.conn}, {}, FALSE, queue, bound, armed)
      BY <2>1, <3>3, TeardownType
    <3>4. QED BY <1>18, <3>1, <3>2, <3>3 DEF ProcessAsyncMsg
  <2>3. wl' \in [op : Steps, conn : Conns, pdu : Pdus]
    BY <1>18 DEF ProcessAsyncMsg, TypeOK, Steps
  <2>4. OtherTypes'
    BY <1>18, <2>3 DEF ProcessAsyncMsg, TypeOK, OtherTypes
  <2>5. QED BY <2>2, <2>4, TypePrime
<1>19. ASSUME ProcessAsyncMsgRaw PROVE TypeOK'
  BY <1>19, PanicType DEF ProcessAsyncMsgRaw
<1>20. ASSUME PollAgain PROVE TypeOK'
  <2>1. wl' \in [op : Steps, conn : Conns, pdu : Pdus]
    BY <1>20, NoPduType, ConnsFinite DEF PollAgain, Free, Steps
  <2>2. QED BY <1>20, <2>1 DEF PollAgain, TypeOK
<1>21. ASSUME NEW c \in Conns, PeerLost(c) PROVE TypeOK'
  <2>1. pending' \in [Conns -> SUBSET Pdus]
    BY <1>21 DEF PeerLost, TypeOK
  <2>2. QED BY <1>21, <2>1 DEF PeerLost, TypeOK
<1>22. ASSUME TaskMgmtRequest PROVE TypeOK'
  <2>1. /\ 0 \in Conns /\ bound \in SUBSET Tasks /\ armed \in SUBSET Tasks
        /\ queue \in [Conns -> Seq(Items)]
    BY ConnsFinite DEF TypeOK
  <2>2. CASE ConnectionTimeout(0, queue, bound, armed)
    <3>1. TeardownTypes'
      BY <2>1, <2>2, ConnectionTimeoutType
    <3>2. OtherTypes'
      BY <1>22 DEF TaskMgmtRequest, TypeOK, OtherTypes
    <3>3. QED BY <3>1, <3>2, TypePrime
  <2>3. CASE /\ pending' = [pending EXCEPT ![0] = @ \cup {<<Mgmt, 0>>}]
             /\ UNCHANGED <<session, slot, enabled, broken, queue, newTask,
                            numActive, mounted, drift, bound, busy, armed, wlLive, ucLive>>
    <3>1. <<Mgmt, 0>> \in Pdus
      BY ConstantsAssumption DEF Pdus
    <3>2. pending' \in [Conns -> SUBSET Pdus]
      BY <2>1, <2>3, <3>1 DEF TypeOK
    <3>3. QED BY <1>22, <2>3, <3>2 DEF TaskMgmtRequest, TypeOK
  <2>4. QED BY <1>22, <2>2, <2>3 DEF TaskMgmtRequest
<1>23. ASSUME TaskMgmtRequestRaw PROVE TypeOK'
  BY <1>23, PanicType DEF TaskMgmtRequestRaw
<1>24. ASSUME NEW c \in Conns, CreateConnection(c) PROVE TypeOK'
  <2>1. uc' \in [op : Calls, conn : Conns, fresh : BOOLEAN]
    BY <1>24 DEF CreateConnection, Calls, TypeOK
  <2>2. numActive' \in 0 .. (CounterMod - 1) /\ drift' \in Int
    BY <1>24, ConstantsAssumption DEF CreateConnection, TypeOK
  <2>3. slot' \in [Conns -> {"empty", "raw", "ready"}] /\ session' \in BOOLEAN
        /\ calls' \in Nat /\ ucLive' \in BOOLEAN
    BY <1>24, ConstantsAssumption DEF CreateConnection, MayCall, TypeOK
  <2>4. UNCHANGED <<enabled, broken, queue, newTask, pending, mounted, CallFrame>>
    BY <1>24 DEF CreateConnection
  <2>5. QED BY <2>1, <2>2, <2>3, <2>4 DEF TypeOK
<1>25. ASSUME InitConnection PROVE TypeOK'
  <2>1. uc' \in [op : Calls, conn : Conns, fresh : BOOLEAN]
    BY <1>25 DEF InitConnection, Calls, TypeOK
  <2>2. QED BY <1>25, <2>1 DEF InitConnection, TypeOK
<1>26. ASSUME ConnectDone PROVE TypeOK'
  <2>1. uc' \in [op : Calls, conn : Conns, fresh : BOOLEAN]
    BY <1>26, ConnsFinite DEF ConnectDone, NoCall, Calls
  <2>2. <<>> \in Seq(Items)
    BY EmptySeq
  <2>3. /\ slot' \in [Conns -> {"empty", "raw", "ready"}]
        /\ newTask' \in [Conns -> BOOLEAN] /\ session' \in BOOLEAN
    BY <1>26 DEF ConnectDone, TypeOK
  <2>4. pending' \in [Conns -> SUBSET Pdus]
    BY <1>26 DEF ConnectDone, TypeOK
  <2>5. queue' \in [Conns -> Seq(Items)]
    <3>1. queue' = queue \/ queue' = [queue EXCEPT ![uc.conn] = <<>>]
      BY <1>26 DEF ConnectDone
    <3>2. \A q \in Seq(Items) : [queue EXCEPT ![uc.conn] = q] \in [Conns -> Seq(Items)]
      BY DEF TypeOK
    <3>3. QED BY <2>2, <3>1, <3>2 DEF TypeOK
  <2>6. UNCHANGED <<enabled, broken, numActive, mounted, drift, ucLive, calls, CallFrame>>
    BY <1>26 DEF ConnectDone
  <2>7. QED BY <2>1, <2>3, <2>4, <2>5, <2>6 DEF TypeOK
<1>27. ASSUME NEW c \in Conns, ActivateConnection(c) PROVE TypeOK'
  <2>1. uc' \in [op : Calls, conn : Conns, fresh : BOOLEAN]
    BY <1>27 DEF ActivateConnection, Calls, TypeOK
  <2>2. QED BY <1>27, <2>1 DEF ActivateConnection, MayCall, TypeOK
<1>28. ASSUME MountTarget PROVE TypeOK'
  <2>1. uc' \in [op : Calls, conn : Conns, fresh : BOOLEAN]
    <3>1. uc' = [uc EXCEPT !.op = "count"] \/ uc' = NoCall
      BY <1>28 DEF MountTarget
    <3>2. CASE uc' = [uc EXCEPT !.op = "count"]
      BY <3>2 DEF Calls, TypeOK
    <3>3. CASE uc' = NoCall
      BY <3>3, ConnsFinite DEF NoCall, Calls
    <3>4. QED BY <3>1, <3>2, <3>3
  <2>2. enabled' \in [Conns -> BOOLEAN] /\ mounted' \in BOOLEAN /\ drift' \in Int
    <3>1. /\ mounted' = mounted \/ mounted' = TRUE
          /\ enabled' = enabled \/ enabled' = [enabled EXCEPT ![uc.conn] = FALSE]
          /\ \/ drift' = drift
             \/ drift' = drift + (IF enabled[uc.conn] THEN 0 ELSE 1)
      BY <1>28 DEF MountTarget
    <3>2. drift' \in Int
      BY <3>1 DEF TypeOK
    <3>3. enabled' \in [Conns -> BOOLEAN]
      BY <3>1 DEF TypeOK
    <3>4. mounted' \in BOOLEAN
      BY <3>1 DEF TypeOK
    <3>5. QED BY <3>2, <3>3, <3>4
  <2>3. UNCHANGED <<session, slot, broken, queue, newTask, pending, numActive,
                    ucLive, calls, CallFrame>>
    BY <1>28 DEF MountTarget
  <2>4. QED BY <2>1, <2>2, <2>3 DEF TypeOK
<1>29. ASSUME CountConnection PROVE TypeOK'
  <2>1. uc' \in [op : Calls, conn : Conns, fresh : BOOLEAN]
    BY <1>29, ConnsFinite DEF CountConnection, NoCall, Calls
  <2>2. numActive' \in 0..(CounterMod - 1)
    BY <1>29, ModType DEF CountConnection, TypeOK
  <2>3. QED BY <1>29, <2>1, <2>2 DEF CountConnection, TypeOK
<1>30. ASSUME CallUseAfterFree PROVE TypeOK'
  BY <1>30, PanicType DEF CallUseAfterFree
<1>31. ASSUME NEW c \in Conns, DeactivateConnection(c) PROVE TypeOK'
  <2>1. /\ bound \in SUBSET Tasks /\ armed \in SUBSET Tasks
        /\ queue \in [Conns -> Seq(Items)]
        /\ {c} \in SUBSET Conns /\ {} \in SUBSET Conns
    BY DEF TypeOK, Active, NonEmpty
  <2>2. TeardownTypes'
    BY <1>31, <2>1, TeardownType DEF DeactivateConnection
  <2>3. OtherTypes'
    BY <1>31 DEF DeactivateConnection, GatedCall, MayCall, TypeOK, OtherTypes
  <2>4. QED BY <2>2, <2>3, TypePrime
<1>32. ASSUME DeactivateAllConnections PROVE TypeOK'
  <2>1. /\ bound \in SUBSET Tasks /\ armed \in SUBSET Tasks
        /\ queue \in [Conns -> Seq(Items)]
        /\ NonEmpty \in SUBSET Conns /\ {} \in SUBSET Conns
    BY DEF TypeOK, Active, NonEmpty
  <2>2. TeardownTypes'
    BY <1>32, <2>1, TeardownType DEF DeactivateAllConnections
  <2>3. OtherTypes'
    BY <1>32 DEF DeactivateAllConnections, GatedCall, MayCall, TypeOK, OtherTypes
  <2>4. QED BY <2>2, <2>3, TypePrime
<1>33. ASSUME NEW c \in Conns, ReleaseConnection(c) PROVE TypeOK'
  <2>1. /\ bound \in SUBSET Tasks /\ armed \in SUBSET Tasks
        /\ queue \in [Conns -> Seq(Items)]
        /\ {c} \in SUBSET Conns /\ {c} \cap Active \in SUBSET Conns
    BY DEF TypeOK, Active, NonEmpty
  <2>2. TeardownTypes'
    BY <1>33, <2>1, TeardownType DEF ReleaseConnection
  <2>3. OtherTypes'
    BY <1>33 DEF ReleaseConnection, GatedCall, MayCall, TypeOK, OtherTypes
  <2>4. QED BY <2>2, <2>3, TypePrime
<1>34. ASSUME ReleaseSession PROVE TypeOK'
  <2>1. /\ bound \in SUBSET Tasks /\ armed \in SUBSET Tasks
        /\ queue \in [Conns -> Seq(Items)]
        /\ Active \in SUBSET Conns /\ NonEmpty \in SUBSET Conns
    BY DEF TypeOK, Active, NonEmpty
  <2>2. TeardownTypes'
    BY <1>34, <2>1, TeardownType DEF ReleaseSession
  <2>3. OtherTypes'
    BY <1>34 DEF ReleaseSession, GatedCall, MayCall, TypeOK, OtherTypes
  <2>4. QED BY <2>2, <2>3, TypePrime
<1>35. ASSUME ClientClose PROVE TypeOK'
  BY <1>35 DEF ClientClose, TypeOK
<1>36. CASE UNCHANGED vars
  BY <1>36 DEF vars, TypeOK
<1>37. QED
  BY <1>1, <1>2, <1>3, <1>4, <1>5, <1>6, <1>7, <1>8, <1>9, <1>10,
      <1>11, <1>12, <1>13, <1>14, <1>15, <1>16, <1>17, <1>18, <1>19,
      <1>20, <1>21, <1>22, <1>23, <1>24, <1>25, <1>26, <1>27, <1>28,
      <1>29, <1>30, <1>31, <1>32, <1>33, <1>34, <1>35, <1>36
  DEF Next, StackNext, WorkloopNext, UserClientNext

\* Every variable keeps its type, in every behaviour and whatever the bounds.
THEOREM TypeCorrect == Spec => []TypeOK
<1>1. QED BY TypeInit, TypeStep, PTL DEF Spec
=============================================================================
