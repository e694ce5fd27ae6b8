---------------------------- MODULE Transfer_proofs ----------------------------
(***************************************************************************)
(* The theorems of Transfer: the invariant of the login, which the steps   *)
(* of a session in use leave alone, and what it gives the data of a task.  *)
(***************************************************************************)
EXTENDS Transfer, Login_invariants

(***************************************************************************)
(* A session in use changes nothing of its login but the counters of       *)
(* answers, which only an asynchronous message, or an answer that is       *)
(* skipped, moves apart.                                                   *)
(***************************************************************************)
Talks ==
    /\ step = "full"
    /\ UNCHANGED <<cfg, step, query, status, rsp, recs, name, out, in>>
    /\ DOMAIN kern' = DOMAIN kern /\ kern'.tsih = kern.tsih /\ kern'.par = kern.par
    /\ DOMAIN tgt' = DOMAIN tgt /\ \A f \in DOMAIN tgt \ {"sn"} : tgt'[f] = tgt[f]
    /\ \/ /\ kern'.ack = kern.ack /\ kern'.skipped = kern.skipped
          /\ tgt'.sn = tgt.sn /\ asyncs' = asyncs
       \/ /\ kern'.ack = kern.ack + 1 /\ kern'.skipped = kern.skipped
          /\ tgt'.sn = tgt.sn + 1 /\ asyncs' = asyncs
       \/ /\ kern'.ack = kern.ack /\ kern'.skipped = kern.skipped + 1
          /\ tgt'.sn = tgt.sn + 1 /\ asyncs' = asyncs
       \/ /\ kern'.ack = kern.ack /\ kern'.skipped = kern.skipped
          /\ tgt'.sn = tgt.sn + 1 /\ asyncs' = asyncs + 1

\* Every step of Transfer's own is one of a session in use.
LEMMA Talking ==
  ASSUME Shapes, TransferNext
  PROVE  Talks
<1> USE DEF Shapes, InitiatorOK, TargetOK, Talks
<1>1. ASSUME Ready, UNCHANGED <<loginVars, asyncs>> PROVE Talks
  BY <1>1 DEF Ready, loginVars
<1>2. CASE BeginWrite \/ BeginRead \/ DataOut \/ ConnectionLost
  BY <1>1, <1>2 DEF BeginWrite, BeginRead, DataOut, ConnectionLost
<1>3. ASSUME Ready, NEW op, NEW advances \in BOOLEAN, Hears(op, advances),
             \/ ~ HasStatus(op) /\ ~ advances /\ asyncs' = asyncs
             \/ HasStatus(op) /\ advances /\ asyncs' = asyncs
             \/ ~ HasStatus(op) /\ advances /\ asyncs' = asyncs + 1
      PROVE  Talks
  <2>1. CASE HasStatus(op)
    <3>1. kern' = Advanced(kern, tgt.sn) /\ tgt' = [tgt EXCEPT !.sn = @ + 1]
          /\ asyncs' = asyncs
      BY <1>3, <2>1 DEF Hears
    <3> QED BY <1>3, <3>1, AdvancedIs DEF Ready, Hears
  <2>2. CASE ~ HasStatus(op)
    BY <1>3, <2>2 DEF Ready, Hears
  <2> QED BY <2>1, <2>2
<1>4. CASE R2T
  BY <1>3, <1>4 DEF R2T, HasStatus
<1>5. CASE SCSIResponse
  BY <1>3, <1>5 DEF SCSIResponse, HasStatus
<1>6. CASE DataIn
  BY <1>3, <1>6 DEF DataIn, HasStatus
<1>7. CASE AsyncMessage
  BY <1>3, <1>7 DEF AsyncMessage, HasStatus
<1> QED BY <1>2, <1>4, <1>5, <1>6, <1>7 DEF TransferNext

-----------------------------------------------------------------------------
(***************************************************************************)
(* The part of the invariant that is about the login.  Whoever waits for   *)
(* the acknowledgement of asynchronous messages, or of an answer numbered  *)
(* 0xffffffff, waits for ever: what the kernel acknowledges lags by them,  *)
(* and by nothing else.                                                    *)
(***************************************************************************)
Acknowledged ==
    /\ asyncs \in Nat
    /\ step # "full" => asyncs = 0
    /\ step = "full" => Lag = asyncs

LoginPart ==
    /\ Shapes /\ AskedOnce /\ Numbered /\ Bounded /\ Staged /\ Verified /\ Heard /\ Governed
    /\ ListingRead /\ Acknowledged

\* The login at the start.
LEMMA LoginPartInit == Init => LoginPart
BY ShapesInit, AskedOnceInit, NumberedInit, BoundedInit, StagedInit, VerifiedInit, HeardInit,
   ListingInit
   DEF Init, LoginPart, LoginInit, TransferInit, Governed, Acknowledged

\* The steps of the login keep it.
LEMMA LoginPartLogin ==
  ASSUME LoginPart, LoginNext, UNCHANGED taskVars
  PROVE  LoginPart'
<1> USE DEF LoginPart
<1>0. asyncs' = asyncs /\ Lag \in Int
  BY LenIs DEF taskVars, Shapes, InitiatorOK, LinesOK, TargetOK, Lag
<1>1. CASE Target
  <2>1. step' = step
    BY <1>1, TargetSteps DEF Refuses, Serves, Meets, Replied, Continued, Leave, initiator
  <2>2. Shapes' /\ AskedOnce' /\ Numbered' /\ Lag' = Lag
    BY <1>1, ShapesTarget, OnceTarget, NumberedTarget
  <2>3. Staged' /\ Verified'
    BY <1>1, StagedTarget, VerifiedTarget
  <2>4. Heard' /\ Governed'
    BY <1>1, HeardTarget, GovernedTarget
  <2>5. Acknowledged'
    BY <1>0, <2>1, <2>2 DEF Acknowledged
  <2>6. Bounded'
    BY <1>1, BoundedTarget
  <2>7. ListingRead'
    BY <1>1, ListingTarget
  <2> QED BY <2>2, <2>3, <2>4, <2>5, <2>6, <2>7
<1>2. CASE Initiator
  <2>1. Shapes' /\ AskedOnce'
    BY <1>2, ShapesInitiator, OnceInitiator
  <2>2. Numbered' /\ (step' = "full" => Lag' = 0) /\ step # "full"
    BY <1>2, NumberedInitiator, InitiatorAtWork
  <2>3. Staged' /\ Verified'
    BY <1>2, StagedInitiator, VerifiedInitiator
  <2>4. Heard' /\ Governed'
    BY <1>2, <2>1, HeardInitiator, GovernedInitiator
  <2>5. Acknowledged'
    BY <1>0, <2>2 DEF Acknowledged
  <2>6. Bounded'
    BY <1>2, BoundedInitiator
  <2>7. ListingRead'
    BY <1>2, ListingInitiator
  <2> QED BY <2>1, <2>2, <2>3, <2>4, <2>5, <2>6, <2>7
<1> QED BY <1>1, <1>2 DEF LoginNext

\* So do those of a session in use.
LEMMA LoginPartTalks ==
  ASSUME LoginPart, Talks
  PROVE  LoginPart'
<1> USE DEF LoginPart, Talks
<1>0. /\ kern.ack \in Nat /\ kern.skipped \in Nat
      /\ tgt.sn \in Nat /\ Len(in) \in Nat /\ Len(in') = Len(in)
      /\ {"stage", "tsih", "open", "proved", "heard", "late", "list"} \subseteq DOMAIN tgt \ {"sn"}
  BY LenIs DEF Shapes, InitiatorOK, LinesOK, TargetOK
<1>1. /\ tgt'.stage = tgt.stage /\ tgt'.tsih = tgt.tsih /\ tgt'.open = tgt.open
      /\ tgt'.proved = tgt.proved /\ tgt'.heard = tgt.heard /\ tgt'.late = tgt.late
  BY <1>0
<1>2. Shapes'
  BY <1>0, <1>1 DEF Shapes, InitiatorOK, LinesOK, TargetOK
<1>3. AskedOnce'
  BY <1>1 DEF AskedOnce, Once, OnItsWay, BeforeRespond, BeforeAgree, PastResponse, PastParameters
<1>4. Acknowledged' /\ Lag' >= 0
  <2>0. step' = "full" /\ Lag = asyncs /\ asyncs \in Nat
    BY DEF Acknowledged
  <2>1. PICK s \in Nat, l \in Nat, a \in Nat, k \in Nat :
          tgt.sn = s /\ Len(in) = l /\ kern.ack = a /\ kern.skipped = k
    BY <1>0
  <2>2. Lag = (s - l) - a - k
    BY <2>1 DEF Lag
  <2>3. \/ Lag' = (s - l) - a - k /\ asyncs' = asyncs
        \/ Lag' = ((s + 1) - l) - (a + 1) - k /\ asyncs' = asyncs
        \/ Lag' = ((s + 1) - l) - a - (k + 1) /\ asyncs' = asyncs
        \/ Lag' = ((s + 1) - l) - a - k /\ asyncs' = asyncs + 1
    BY <1>0, <2>1 DEF Lag
  <2>4. Lag' = asyncs' /\ asyncs' \in Nat
    BY <2>0, <2>2, <2>3
  <2> QED BY <2>0, <2>4 DEF Acknowledged
<1>5. Numbered'
  BY <1>4 DEF Numbered, LoggingIn
<1>6. Staged' /\ Verified'
  BY <1>1 DEF Staged, Verified, Mutual, OnItsWay
<1>7. Heard'
  <2>1. TargetHeard'
    BY <1>1 DEF Heard, TargetHeard
  <2>2. ~ Parsing' /\ ~ Partial'
    BY DEF Parsing, Partial
  <2>3. LinesHeard'
    BY <1>1, <2>2 DEF Heard, LinesHeard, AnswerHeard, Within, Covers
  <2>4. ReadHeard'
    BY <1>1, <2>2 DEF Heard, ReadHeard, Within
  <2>5. KernelHeard'
    BY DEF Heard, KernelHeard, Parameters
  <2> QED BY <2>1, <2>3, <2>4, <2>5 DEF Heard
<1>8. Governed'
  BY <1>1 DEF Governed, Governs, FirstBurstAgreed
<1>9. Bounded'
  BY <1>1, BoundedKept
<1>10. ListingRead'
  <2>1. tgt'.list = tgt.list
    BY <1>0
  <2> QED BY <2>1, ListingKept
<1> QED BY <1>2, <1>3, <1>4, <1>5, <1>6, <1>7, <1>8, <1>9, <1>10

\* A step that changes nothing keeps it.
LEMMA LoginPartStutters ==
  ASSUME LoginPart, UNCHANGED vars
  PROVE  LoginPart'
<1> USE DEF LoginPart
<1>0. /\ UNCHANGED <<cfg, step, query, status, rsp, kern, recs, name, out, in, tgt>>
      /\ asyncs' = asyncs
  BY DEF vars, loginVars, taskVars
<1>1. Shapes'
  BY <1>0 DEF Shapes, InitiatorOK, LinesOK, TargetOK
<1>2. AskedOnce'
  BY <1>0 DEF AskedOnce, Once, OnItsWay, BeforeRespond, BeforeAgree, PastResponse, PastParameters
<1>3. Numbered' /\ Acknowledged'
  BY <1>0 DEF Numbered, Success, Acknowledged, Lag
<1>4. Staged' /\ Verified'
  BY <1>0 DEF Staged, Verified, Mutual, OnItsWay
<1>5. TargetHeard' /\ LinesHeard'
  BY <1>0 DEF Heard, TargetHeard, LinesHeard, AnswerHeard, Within, Covers, Rest, Parsing
<1>6. ReadHeard' /\ KernelHeard'
  BY <1>0 DEF Heard, ReadHeard, KernelHeard, Within, Covers, Rest, Partial, Success, Parameters
<1>7. Governed'
  BY <1>0 DEF Governed, Governs, FirstBurstAgreed
<1>8. Bounded' /\ ListingRead'
  BY <1>0, BoundedKept, ListingKept
<1> QED BY <1>1, <1>2, <1>3, <1>4, <1>5, <1>6, <1>7, <1>8 DEF Heard

\* In every reachable state the login is as its lemmas say.
LEMMA LoginInvariant == Spec => []LoginPart
<1>1. LoginPart /\ [Next]_vars => LoginPart'
  BY LoginPartLogin, LoginPartTalks, LoginPartStutters, Talking DEF Next, LoginPart
<1> QED BY LoginPartInit, <1>1, PTL DEF Spec

\* StagesAgree: both sides are in full feature phase together, under one identifier.
THEOREM PhasesAgree == Spec => []StagesAgree
<1>1. LoginPart => StagesAgree
  BY DEF LoginPart, Staged, StagesAgree
<1> QED BY <1>1, LoginInvariant, PTL

\* TargetProved: no session is used with a target that did not prove itself.
THEOREM MutualAuthentication == Spec => []TargetProved
<1>1. LoginPart => TargetProved
  BY DEF LoginPart, Verified, Mutual, TargetProved
<1> QED BY <1>1, LoginInvariant, PTL

\* AcknowledgesReceived: the kernel acknowledges what it received and nothing more,
\* and of a session in use all but the asynchronous messages and the answers that
\* are numbered 0xffffffff, for every number the target may start with.
THEOREM AnswersAcknowledged == Spec => []AcknowledgesReceived
<1>1. LoginPart => AcknowledgesReceived
  BY LenIs DEF LoginPart, Shapes, InitiatorOK, LinesOK, TargetOK, Numbered, Acknowledged, Lag,
     AcknowledgesReceived
<1> QED BY <1>1, LoginInvariant, PTL

\* An address the parser recorded for a target is listed for it.
LEMMA AddressFollows ==
  ASSUME ListingRead, NEW n \in 0 .. Len(tgt.list), NEW r \in RecordsOf(tgt.list, n),
         r[2] # Nobody
  PROVE  r[2] \in FollowedBy(r[1])
<1> DEFINE l == tgt.list
<1>1. PICK i \in 2 .. n : Names(l, i - 1) /\ ~ Names(l, i) /\ r = <<l[i - 1].val, l[i].val>>
  <2>1. CASE r \in {<<l[i].val, Nobody>> : i \in {j \in 1 .. n : Names(l, j)}}
    <3>1. PICK i \in {j \in 1 .. n : Names(l, j)} : r = <<l[i].val, Nobody>>
      BY <2>1
    <3> QED BY <3>1
  <2>2. CASE r \in {<<l[i - 1].val, l[i].val>> :
                        i \in {j \in 2 .. n : Names(l, j - 1) /\ ~ Names(l, j)}}
    BY <2>2, Zenon
  <2> QED BY <2>1, <2>2, Zenon DEF RecordsOf
<1>2. l \in Listings /\ i \in 1 .. Len(l) /\ i - 1 \in 1 .. Len(l) /\ i \in DOMAIN l
  BY <1>1, ListedIs DEF ListingRead, IsSeq
<1>3. l[i].key = "TargetAddress" /\ l[i - 1] = [key |-> "TargetName", val |-> r[1]]
  BY <1>1, <1>2, ListingIs
<1>4. /\ i - 1 \in 1 .. i - 1
      /\ \A m \in (i - 1) + 1 .. i : l[m].key = "TargetAddress"
  BY <1>2, <1>3
<1> QED BY <1>1, <1>2, <1>3, <1>4 DEF FollowedBy

\* Of the addresses listed for a target, the first is recorded.
LEMMA FirstRecorded ==
  ASSUME ListingRead, NEW t, FollowedBy(t) # {}
  PROVE  \E p \in FollowedBy(t) : p # Nobody /\ <<t, p>> \in AllOf(tgt.list)
<1> DEFINE l == tgt.list
<1>0. PICK j \in DOMAIN l : \E k \in 1 .. j - 1 :
        /\ l[k] = [key |-> "TargetName", val |-> t]
        /\ \A m \in k + 1 .. j : l[m].key = "TargetAddress"
  BY DEF FollowedBy
<1>1. PICK k \in 1 .. j - 1 :
        /\ l[k] = [key |-> "TargetName", val |-> t]
        /\ \A m \in k + 1 .. j : l[m].key = "TargetAddress"
  BY <1>0
<1>2. l \in Listings /\ j \in 1 .. Len(l) /\ Len(l) \in Nat
  BY ListedIs DEF ListingRead, IsSeq
<1>3. k + 1 \in 2 .. Len(l) /\ k + 1 \in 1 .. Len(l) /\ k + 1 \in k + 1 .. j /\ (k + 1) - 1 = k
  BY <1>1, <1>2
<1>4. Names(l, k) /\ ~ Names(l, k + 1) /\ l[k].val = t
  BY <1>1, <1>3 DEF Names
<1>5. <<t, l[k + 1].val>> \in AllOf(l) /\ l[k + 1].val # Nobody
  BY <1>2, <1>3, <1>4, ListingIs DEF AllOf, RecordsOf
<1>6. l[k + 1].val \in FollowedBy(t)
  <2>1. k \in 1 .. (k + 1) - 1 /\ \A m \in k + 1 .. k + 1 : l[m].key = "TargetAddress"
    BY <1>1, <1>3
  <2>2. k + 1 \in DOMAIN l /\ l[k + 1].key = "TargetAddress"
    BY <1>1, <1>2, <1>3, ListingIs DEF IsSeq
  <2> QED BY <1>1, <2>1, <2>2 DEF FollowedBy
<1> QED BY <1>5, <1>6

\* RecordsAttributed: no target is recorded with the address of another, whatever
\* is listed, in one answer or two, and none is left without an address.
THEOREM ListingsRecorded == Spec => []RecordsAttributed
<1>1. ASSUME ListingRead PROVE RecordsAttributed
  <2> DEFINE l == tgt.list
             A == AllOf(l)
  <2>1. A = RecordsOf(l, Len(l)) /\ Len(l) \in 0 .. Len(l)
    BY <1>1, ListedIs DEF ListingRead, AllOf
  <2>2. \A r \in A : r[2] # Nobody => r[2] \in FollowedBy(r[1])
    BY <1>1, <2>1, AddressFollows
  <2>3. ASSUME step # "listed", NEW r \in recs, r[2] \notin {Nobody, Here}
        PROVE  r[2] \in FollowedBy(r[1])
    BY <1>1, <2>3, AddressFollows DEF ListingRead, ReadTo, IsRead
  <2>4. step = "listed" => recs = A \cup {<<t, Here>> : t \in Missed(A)}
    BY <1>1 DEF ListingRead
  <2>5. ASSUME step = "listed", NEW r \in recs, r[2] \notin {Nobody, Here}
        PROVE  r[2] \in FollowedBy(r[1])
    <3>1. r \in A
      BY <2>4, <2>5
    <3> QED BY <2>2, <2>5, <3>1
  <2>6. ASSUME step = "listed", NEW t \in Recorded
        PROVE  IF FollowedBy(t) = {} THEN <<t, Here>> \in recs
               ELSE /\ <<t, Here>> \in recs => Here \in FollowedBy(t)
                    /\ \E p \in FollowedBy(t) : <<t, p>> \in recs
    <3>1. t \in {r[1] : r \in A}
      BY <2>4, <2>6 DEF Recorded, Missed
    <3>2. CASE FollowedBy(t) = {}
      <4>1. t \in Missed(A)
        BY <2>2, <3>1, <3>2 DEF Missed
      <4> QED BY <2>4, <2>6, <3>2, <4>1
    <3>3. CASE FollowedBy(t) # {}
      <4>1. PICK p \in FollowedBy(t) : p # Nobody /\ <<t, p>> \in A
        BY <1>1, <3>3, FirstRecorded
      <4>2. t \notin Missed(A)
        BY <4>1 DEF Missed
      <4>3. <<t, Here>> \in recs => <<t, Here>> \in A
        BY <2>4, <2>6, <4>2
      <4>4. Here # Nobody
        BY DEF Here, Nobody
      <4> QED BY <2>2, <2>4, <2>6, <3>3, <4>1, <4>3, <4>4
    <3> QED BY <3>2, <3>3
  <2> HIDE DEF l
  <2> QED BY <2>3, <2>5, <2>6 DEF RecordsAttributed
<1> QED BY <1>1, LoginInvariant, PTL DEF LoginPart

-----------------------------------------------------------------------------
(***************************************************************************)
(* The part that is about data: how far the loop over a burst has come,    *)
(* against what the target has, asked for and agreed to.                   *)
(***************************************************************************)
TaskOK ==
    /\ task \in [op : {"none", "read", "write"}, size : Sizes \cup {0}, realized : Nat]
    /\ burst \in [off : Nat, left : Nat, sn : Nat, tag : {"none", "unsolicited", "solicited"}]
    /\ pdu \in [kind : {"none", "command", "unsolicited", "solicited"},
                off : Nat, len : Nat, sn : Nat, final : BOOLEAN]
    /\ ask \in [off : Nat, len : Nat]
    /\ lost \in BOOLEAN /\ got \in Nat

\* Nothing is sent before the login ends.
Unused == step # "full" => task = NoTask /\ burst = NoBurst /\ pdu = NoPDU

FirstBurstLength == kern.par["FirstBurstLength"]

\* What was sent last is within the parameters.
Sent ==
    /\ pdu.kind # "none" => pdu.len <= kern.par[MaxSegment]
    /\ pdu.kind = "command" =>
        /\ pdu.off = 0
        /\ pdu.len = 0 \/ (kern.par["ImmediateData"] /\ pdu.len <= FirstBurstLength)
    /\ pdu.kind = "unsolicited" =>
        ~ kern.par["InitialR2T"] /\ pdu.off + pdu.len <= FirstBurstLength

\* What is still to be sent goes on where the target is, and ends where it expects.
Sending ==
    /\ ~ Idle => task.op = "write" /\ burst.tag # "none" /\ burst.off = got
    /\ task.op = "read" => burst.tag = "none"
    /\ burst.tag = "unsolicited" =>
        ~ kern.par["InitialR2T"] /\ burst.off + burst.left <= FirstBurstLength
    /\ InFlight /\ burst.tag = "solicited" =>
        burst.off = got /\ burst.off + burst.left = ask.off + ask.len
    /\ task.op = "write" /\ ~ Idle => ~ pdu.final \/ burst.sn = 0
    /\ task.op = "write" /\ Idle /\ ~ pdu.final =>
        pdu.kind = "command" /\ got = FirstBurstLength

DataPart == TaskOK /\ Unused /\ Sent /\ Sending

\* Nothing is in flight at the start.
LEMMA DataPartInit == Init => DataPart
<1> SUFFICES ASSUME Init PROVE DataPart
  OBVIOUS
<1>1. task = NoTask /\ burst = NoBurst /\ pdu = NoPDU /\ lost = FALSE /\ got = 0 /\ ask = NoAsk
  BY DEF Init, TransferInit
<1>2. TaskOK
  BY <1>1 DEF TaskOK, NoTask, NoBurst, NoPDU, NoAsk
<1>3. Sent /\ Sending
  BY <1>1 DEF Sent, Sending, NoTask, NoBurst, NoPDU, Idle, InFlight
<1> QED BY <1>1, <1>2, <1>3 DEF DataPart, Unused

\* The login keeps it: the parameters change no more once there is data.
LEMMA DataPartKept ==
  ASSUME LoginPart, DataPart, UNCHANGED taskVars, step = "full" => step' = "full" /\ kern' = kern
  PROVE  DataPart'
<1>0. UNCHANGED <<task, burst, pdu, lost, got, ask>>
  BY DEF taskVars
<1>1. TaskOK'
  BY <1>0 DEF DataPart, TaskOK
<1>2. Unused'
  BY <1>0 DEF DataPart, Unused
<1>3. CASE step = "full"
  BY <1>0, <1>1, <1>2, <1>3 DEF DataPart, Sent, Sending, Idle, InFlight, FirstBurstLength
<1>4. CASE step # "full"
  BY <1>0, <1>1, <1>2, <1>4 DEF DataPart, Unused, Sent, Sending, Idle, InFlight, NoTask, NoBurst, NoPDU
<1> QED BY <1>3, <1>4

\* The lengths in the parameters are numbers.
LEMMA Lengthy ==
  ASSUME LoginPart
  PROVE  /\ kern.par[MaxSegment] \in Nat /\ FirstBurstLength \in Nat
         /\ kern.par["ImmediateData"] \in BOOLEAN /\ kern.par["InitialR2T"] \in BOOLEAN
BY DEF LoginPart, Heard, KernelHeard, Parameters, FirstBurstLength, Numeric, Lengths, Flags

\* The smaller of two numbers is one of them, and no more than either.
LEMMA SmallerIs ==
  ASSUME NEW a \in Nat, NEW b \in Nat
  PROVE  /\ Smaller(a, b) \in Nat /\ Smaller(a, b) <= a /\ Smaller(a, b) <= b
         /\ Smaller(a, b) = a \/ Smaller(a, b) = b
BY DEF Smaller

\* The command of a write, with its immediate data, and the first burst after it.
LEMMA DataPartBeginWrite ==
  ASSUME LoginPart, DataPart, BeginWrite
  PROVE  DataPart'
<1>0. step = "full" /\ step' = step /\ kern' = kern /\ lost' = lost
  BY DEF BeginWrite, Ready, loginVars
<1>1. PICK size \in Sizes :
        /\ task' = [op |-> "write", size |-> size, realized |-> Immediate(size)]
        /\ burst' = FirstBurst(size, Immediate(size))
        /\ pdu' = [kind |-> "command", off |-> 0, len |-> Immediate(size), sn |-> 0,
                   final |-> kern.par["InitialR2T"] \/ Immediate(size) = size]
        /\ got' = Immediate(size)
  BY DEF BeginWrite
<1>2. size \in Nat
  BY TransferAssumption
<1> DEFINE off == Immediate(size)
           fb == FirstBurstLength
           par == kern.par
<1>3. /\ par[MaxSegment] \in Nat /\ fb \in Nat /\ fb = par["FirstBurstLength"]
      /\ par["ImmediateData"] \in BOOLEAN /\ par["InitialR2T"] \in BOOLEAN
  BY Lengthy DEF FirstBurstLength
<1>4. /\ off \in Nat /\ off <= size /\ off <= fb /\ off <= par[MaxSegment]
      /\ off = 0 \/ par["ImmediateData"]
  <2>1. immediateDataLength \in Nat /\ immediateDataLength <= fb /\ immediateDataLength <= par[MaxSegment]
    BY <1>3, SmallerIs DEF immediateDataLength
  <2>2. CASE par["ImmediateData"]
    <3>1. off = Smaller(immediateDataLength, size)
      BY <2>2 DEF Immediate
    <3> HIDE DEF off, fb, par
    <3>2. /\ off \in Nat /\ off <= immediateDataLength /\ off <= size
      BY <1>2, <2>1, <3>1, SmallerIs
    <3> QED BY <1>2, <1>3, <2>1, <2>2, <3>2
  <2>3. CASE ~ par["ImmediateData"]
    <3>1. off = 0
      BY <2>3 DEF Immediate
    <3> HIDE DEF off
    <3> QED BY <1>2, <1>3, <3>1
  <2> QED BY <2>2, <2>3
<1> HIDE DEF off, fb, par
<1>5. \/ burst' = NoBurst /\ (par["InitialR2T"] \/ off = fb \/ off = size)
      \/ /\ burst'.off = off /\ burst'.sn = 0 /\ burst'.tag = "unsolicited" /\ burst'.left \in Nat \ {0}
         /\ burst' = [off |-> off, left |-> burst'.left, sn |-> 0, tag |-> "unsolicited"]
         /\ off + burst'.left <= fb /\ ~ par["InitialR2T"]
  <2>1. CASE ~ par["InitialR2T"] /\ off < fb /\ off < size
    <3>1. burst' = [off |-> off, sn |-> 0, tag |-> "unsolicited",
                    left |-> Smaller(fb - off, size - off)]
      BY <1>1, <1>3, <2>1 DEF FirstBurst, off, par
    <3>2. Smaller(fb - off, size - off) \in Nat \ {0} /\ off + Smaller(fb - off, size - off) <= fb
      BY <1>2, <1>3, <1>4, <2>1 DEF Smaller
    <3> QED BY <2>1, <3>1, <3>2
  <2>2. CASE ~ (~ par["InitialR2T"] /\ off < fb /\ off < size)
    BY <1>1, <1>2, <1>3, <1>4, <2>2 DEF FirstBurst, off, par
  <2> QED BY <2>1, <2>2
<1>6. TaskOK'
  <2>1. burst' \in [off : Nat, left : Nat, sn : Nat, tag : {"none", "unsolicited", "solicited"}]
    BY <1>4, <1>5 DEF NoBurst
  <2>2. pdu' \in [kind : {"none", "command", "unsolicited", "solicited"},
                  off : Nat, len : Nat, sn : Nat, final : BOOLEAN]
    BY <1>1, <1>2, <1>3, <1>4 DEF off, par
  <2>3. ask' \in [off : Nat, len : Nat]
    BY DEF BeginWrite, NoAsk
  <2> QED BY <1>0, <1>1, <1>4, <2>1, <2>2, <2>3 DEF DataPart, TaskOK, off
<1>7. Sent'
  BY <1>0, <1>1, <1>3, <1>4 DEF Sent, FirstBurstLength, off, fb, par
<1>8. Sending'
  <2>1. InFlight' /\ task'.op = "write" /\ got' = off /\ FirstBurstLength' = fb
        /\ kern'.par = par /\ pdu'.kind = "command"
        /\ (pdu'.final <=> par["InitialR2T"] \/ off = size)
    BY <1>0, <1>1 DEF InFlight, off, fb, par, FirstBurstLength
  <2>2. burst'.sn = 0 /\ burst'.tag # "solicited" /\ (burst'.left = 0 <=> burst' = NoBurst)
    BY <1>5 DEF NoBurst
  <2>3. CASE burst' = NoBurst
    <3>1. burst'.left = 0 /\ burst'.tag = "none"
      BY <2>3 DEF NoBurst
    <3>2. ~ pdu'.final => off = fb
      BY <1>2, <1>3, <1>4, <1>5, <2>1, <2>2, <2>3
    <3> QED BY <2>1, <2>2, <3>1, <3>2 DEF Sending, Idle
  <2>4. CASE burst' # NoBurst
    BY <1>5, <2>1, <2>2, <2>4 DEF Sending, Idle
  <2> QED BY <2>3, <2>4
<1> QED BY <1>0, <1>6, <1>7, <1>8 DEF DataPart, Unused

\* One turn of the loop over a burst.
LEMMA DataPartDataOut ==
  ASSUME LoginPart, DataPart, DataOut
  PROVE  DataPart'
<1> DEFINE seg == kern.par[MaxSegment]
           len == Smaller(burst.left, seg)
<1>0. step = "full" /\ step' = step /\ kern' = kern /\ lost' = lost /\ ask' = ask
      /\ ~ Idle /\ InFlight
  BY DEF DataOut, Ready, loginVars
<1>1. TaskOK /\ seg \in Nat /\ FirstBurstLength \in Nat
      /\ burst.left \in Nat \ {0} /\ burst.off \in Nat /\ burst.sn \in Nat /\ task.realized \in Nat
      /\ got = burst.off /\ task.op = "write" /\ burst.tag \in {"unsolicited", "solicited"}
  BY <1>0, Lengthy DEF DataPart, TaskOK, Sending, Idle
<1>2. len \in Nat /\ len <= burst.left /\ len <= seg /\ (burst.left > seg => len = seg)
      /\ (burst.left <= seg => len = burst.left)
  BY <1>1 DEF Smaller
<1>3. /\ pdu' = [kind |-> burst.tag, off |-> burst.off, len |-> len,
                 sn |-> burst.sn, final |-> burst.left <= seg]
      /\ burst' = [burst EXCEPT !.off = @ + len, !.left = @ - len, !.sn = @ + 1]
      /\ task' = [task EXCEPT !.realized = @ + len]
      /\ got' = burst.off + len
  BY <1>1 DEF DataOut, IsLast, Received
<1> HIDE DEF seg, len
<1>4. /\ burst'.off = burst.off + len /\ burst'.left = burst.left - len
      /\ burst'.tag = burst.tag /\ task'.op = "write"
      /\ task' \in [op : {"none", "read", "write"}, size : Sizes \cup {0}, realized : Nat]
      /\ burst' \in [off : Nat, left : Nat, sn : Nat, tag : {"none", "unsolicited", "solicited"}]
  <2>1. burst.off + len \in Nat /\ burst.left - len \in Nat /\ burst.sn + 1 \in Nat
        /\ task.realized + len \in Nat
    BY <1>1, <1>2
  <2>2. task' \in [op : {"none", "read", "write"}, size : Sizes \cup {0}, realized : Nat]
        /\ task'.op = task.op
    BY <1>1, <1>3, <2>1 DEF TaskOK
  <2> QED BY <1>1, <1>3, <2>1, <2>2 DEF TaskOK
<1>5. TaskOK'
  BY <1>0, <1>1, <1>2, <1>3, <1>4 DEF TaskOK
<1>6. Sent'
  BY <1>0, <1>1, <1>2, <1>3 DEF DataPart, Sending, Sent, FirstBurstLength, seg
<1>7. Sending'
  <2>1. (pdu'.final <=> burst.left <= seg) /\ (Idle' <=> burst.left - len = 0)
    BY <1>3, <1>4 DEF Idle
  <2>2. Idle' <=> pdu'.final
    BY <1>1, <1>2, <2>1
  <2>3. burst'.off + burst'.left = burst.off + burst.left
    BY <1>1, <1>2, <1>4
  <2> QED BY <1>0, <1>1, <1>3, <1>4, <2>2, <2>3 DEF DataPart, Sending, FirstBurstLength, InFlight
<1> QED BY <1>0, <1>5, <1>6, <1>7 DEF DataPart, Unused

\* The steps that send nothing.
LEMMA DataPartTalks ==
  ASSUME LoginPart, DataPart, TransferNext, ~ BeginWrite, ~ DataOut
  PROVE  DataPart'
<1>0. step = "full" /\ step' = step /\ kern'.par = kern.par
  BY Talking DEF LoginPart, Talks
<1>1. FirstBurstLength' = FirstBurstLength /\ FirstBurstLength \in Nat /\ kern.par[MaxSegment] \in Nat
  BY <1>0, Lengthy DEF FirstBurstLength
<1>2. CASE BeginRead
  <2>1. PICK size \in Sizes :
          /\ task' = [op |-> "read", size |-> size, realized |-> 0]
          /\ pdu' = [kind |-> "command", off |-> 0, len |-> 0, sn |-> 0, final |-> TRUE]
    BY <1>2 DEF BeginRead, NoPDU
  <2>2. burst' = NoBurst /\ got' = 0 /\ ask' = NoAsk /\ lost' = lost
    BY <1>2 DEF BeginRead
  <2>3. TaskOK'
    BY <2>1, <2>2 DEF DataPart, TaskOK, NoBurst, NoAsk
  <2>4. Sent' /\ Sending'
    BY <1>0, <1>1, <2>1, <2>2 DEF Sent, Sending, Idle, InFlight, NoBurst
  <2> QED BY <1>0, <2>3, <2>4 DEF DataPart, Unused
<1>3. CASE ConnectionLost
  BY <1>0, <1>1, <1>3 DEF ConnectionLost, DataPart, TaskOK, Unused, Sent, Sending, Idle, InFlight,
     NoTask, NoBurst
<1>4. CASE R2T
  <2>1. PICK len \in 1 .. Smaller(Theirs("MaxBurstLength"), task.size - got) :
          /\ ask' = [off |-> got, len |-> len]
          /\ burst' = [off |-> got, left |-> len, sn |-> 0, tag |-> "solicited"]
    BY <1>4 DEF R2T
  <2>2. UNCHANGED <<task, pdu, lost, got>> /\ task.op = "write" /\ len \in Nat \ {0}
    BY <1>4 DEF R2T
  <2>3. TaskOK'
    BY <2>1, <2>2 DEF DataPart, TaskOK
  <2>4. Sent' /\ Sending'
    BY <1>0, <1>1, <2>1, <2>2 DEF DataPart, TaskOK, Sent, Sending, Idle, InFlight
  <2> QED BY <1>0, <2>3, <2>4 DEF DataPart, Unused
<1>5. CASE SCSIResponse
  <2>1. task' = NoTask /\ Idle /\ UNCHANGED <<burst, pdu, lost, got, ask>>
    BY <1>5 DEF SCSIResponse
  <2>2. TaskOK'
    BY <2>1 DEF DataPart, TaskOK, NoTask
  <2>3. Sent' /\ Sending'
    BY <1>0, <1>1, <2>1 DEF DataPart, Sent, Sending, Idle, InFlight, NoTask
  <2> QED BY <1>0, <2>2, <2>3 DEF DataPart, Unused
<1>6. CASE DataIn
  <2>1. PICK len \in 1 .. task.size - got, final \in BOOLEAN :
          /\ task' = IF final THEN NoTask ELSE [task EXCEPT !.realized = got + len]
          /\ got' = got + len
    BY <1>6 DEF DataIn
  <2>2. task.op = "read" /\ UNCHANGED <<burst, pdu, lost, ask>> /\ got + len \in Nat
    BY <1>6, <2>1 DEF DataIn, DataPart, TaskOK
  <2>3. TaskOK' /\ task'.op \in {"none", "read"}
    BY <2>1, <2>2 DEF DataPart, TaskOK, NoTask
  <2>4. Idle /\ burst.tag = "none"
    BY <2>2 DEF DataPart, Sending
  <2>5. Sent' /\ Sending'
    BY <1>0, <1>1, <2>2, <2>3, <2>4 DEF DataPart, Sent, Sending, Idle, InFlight
  <2> QED BY <1>0, <2>3, <2>5 DEF DataPart, Unused
<1>7. CASE AsyncMessage
  <2>1. UNCHANGED <<task, burst, pdu, lost, got, ask>>
    BY <1>7 DEF AsyncMessage
  <2> QED BY <1>0, <1>1, <2>1 DEF DataPart, TaskOK, Unused, Sent, Sending, Idle, InFlight
<1> QED BY <1>2, <1>3, <1>4, <1>5, <1>6, <1>7 DEF TransferNext

-----------------------------------------------------------------------------
\* The invariant of Transfer.
LEMMA TransferInvariant == Spec => [](LoginPart /\ DataPart)
<1>1. Init => LoginPart /\ DataPart
  BY LoginPartInit, DataPartInit
<1>2. ASSUME LoginPart, DataPart, LoginNext, UNCHANGED taskVars PROVE DataPart'
  <2>1. step = "full" => step' = "full" /\ kern' = kern
    <3>1. CASE Target
      BY <1>2, <3>1, TargetSteps
         DEF LoginPart, Refuses, Serves, Meets, Replied, Continued, Leave, initiator
    <3>2. CASE Initiator
      BY <3>2, InitiatorAtWork
    <3> QED BY <1>2, <3>1, <3>2 DEF LoginNext
  <2> QED BY <1>2, <2>1, DataPartKept
<1>3. LoginPart /\ DataPart /\ [Next]_vars => DataPart'
  <2>1. ASSUME LoginPart, DataPart, UNCHANGED vars PROVE DataPart'
    BY <2>1, DataPartKept DEF vars, loginVars
  <2> QED BY <1>2, <2>1, DataPartBeginWrite, DataPartDataOut, DataPartTalks DEF Next
<1>4. LoginPart /\ [Next]_vars => LoginPart'
  BY LoginPartLogin, LoginPartTalks, LoginPartStutters, Talking DEF Next, LoginPart
<1> QED BY <1>1, <1>3, <1>4, PTL DEF Spec

\* TypeOK: the types of Transfer, and that no more requests and answers are on their
\* way than the tries of a query.
THEOREM TypeCorrect == Spec => []TypeOK
<1>1. LoginPart /\ DataPart => TypeOK
  <2> SUFFICES ASSUME LoginPart, DataPart PROVE TypeOK
    OBVIOUS
  <2>1. /\ cfg \in Configs /\ step \in Steps /\ query \in QueryTypes
        /\ status \in {"success", "failure", "refused"}
        /\ kern.tsih \in {0, 1} /\ kern.ack \in Nat /\ kern.skipped \in Nat
        /\ tgt.stage \in Stages /\ tgt.sn \in Nat /\ tgt.open \in BOOLEAN
    BY DEF LoginPart, Shapes, InitiatorOK, TargetOK
  <2>2. Parameters(kern.par)
    BY DEF LoginPart, Heard, KernelHeard
  <2>3. Len(out) <= 1 + MaxRetries /\ Len(in) <= 1 + MaxRetries
    <3>1. Len(out) \in Nat /\ Len(in) \in Nat /\ MaxRetries \in Nat
      BY LenIs, LoginAssumption DEF LoginPart, Shapes, LinesOK
    <3>2. Len(out) + Len(in) <= 1 + MaxRetries
      BY DEF LoginPart, Bounded, Few, Pending
    <3> QED BY <3>1, <3>2
  <2> QED BY <2>1, <2>2, <2>3 DEF TypeOK, Parameters, DataPart, TaskOK
<1> QED BY <1>1, TransferInvariant, PTL

\* SegmentsFit: no data segment is longer than the target declared in time.
THEOREM SegmentsWithinDeclared == Spec => []SegmentsFit
<1>1. LoginPart /\ DataPart => SegmentsFit
  <2> SUFFICES ASSUME LoginPart, DataPart, pdu.kind # "none", MaxSegment \in DOMAIN tgt.heard, ~ tgt.late
               PROVE  pdu.len <= tgt.heard[MaxSegment]
    BY DEF SegmentsFit
  <2>1. step = "full"
    BY DEF DataPart, Unused, NoPDU
  <2> QED BY <2>1 DEF LoginPart, Governed, Governs, DataPart, Sent
<1> QED BY <1>1, TransferInvariant, PTL

\* UnsolicitedAllowed: data the target did not ask for is what it agreed to, and
\* no more than that.
THEOREM UnsolicitedWithinAgreed == Spec => []UnsolicitedAllowed
<1>1. LoginPart /\ DataPart => UnsolicitedAllowed
  <2> SUFFICES ASSUME LoginPart, DataPart, pdu.kind \in {"command", "unsolicited"}
               PROVE  /\ pdu.off + pdu.len <= FirstBurstAgreed \/ pdu.len = 0
                      /\ pdu.kind = "command" /\ ~ Says(tgt.heard, "ImmediateData") => pdu.len = 0
                      /\ pdu.kind = "unsolicited" => ~ Says(tgt.heard, "InitialR2T")
    BY DEF UnsolicitedAllowed, Theirs, FirstBurstAgreed
  <2>1. step = "full"
    BY DEF DataPart, Unused, NoPDU
  <2>2. Governs(kern.par) /\ TargetHeard
    BY <2>1 DEF LoginPart, Governed, Heard
  <2>3. FirstBurstLength \in Nat /\ pdu.off \in Nat /\ pdu.len \in Nat /\ FirstBurstAgreed \in Nat
    <3>1. "FirstBurstLength" \in Numeric
      BY DEF Numeric, Lengths
    <3>2. Offered["FirstBurstLength"] \in Nat
      BY <3>1, NegotiationAssumption
    <3>3. "FirstBurstLength" \in DOMAIN tgt.heard => tgt.heard["FirstBurstLength"] \in Nat
      BY <2>2, <3>1 DEF TargetHeard, IsDictionary
    <3> QED BY <3>2, <3>3, Lengthy, SmallerIs DEF FirstBurstAgreed, DataPart, TaskOK
  <2>4. CASE pdu.kind = "command"
    BY <2>2, <2>3, <2>4 DEF DataPart, Sent, Governs, FirstBurstLength
  <2>5. CASE pdu.kind = "unsolicited"
    BY <2>2, <2>3, <2>5 DEF DataPart, Sent, Governs, FirstBurstLength
  <2> QED BY <2>4, <2>5
<1> QED BY <1>1, TransferInvariant, PTL

\* BurstsAssembled: what the target receives has no gap and is what it asked for,
\* and nothing of a burst follows the PDU that ends it.
THEOREM BurstsWithoutGap == Spec => []BurstsAssembled
<1>1. LoginPart /\ DataPart => BurstsAssembled
  BY DEF DataPart, TaskOK, Sending, BurstsAssembled, Gap, FirstBurstLength
<1> QED BY <1>1, TransferInvariant, PTL
=============================================================================
