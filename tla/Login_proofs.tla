----------------------------- MODULE Login_proofs -----------------------------
(***************************************************************************)
(* What holds of a login whatever the target answers and when: the part of *)
(* the invariant of Transfer that the steps of Login keep.                 *)
(***************************************************************************)
EXTENDS Login, SequenceTheorems, TLAPS

(***************************************************************************)
(* Queues, by their elements.                                              *)
(***************************************************************************)
IsSeq(s) == s \in Seq({s[i] : i \in 1 .. Len(s)})

Appended(s, t, x) ==
    /\ IsSeq(t) /\ Len(s) \in Nat /\ Len(t) = Len(s) + 1
    /\ t[Len(t)] = x
    /\ \A i \in 1 .. Len(s) : t[i] = s[i]

Popped(s, t) ==
    /\ IsSeq(t) /\ Len(s) \in Nat /\ Len(t) \in Nat /\ Len(s) = Len(t) + 1
    /\ Head(s) = s[1]
    /\ \A i \in 1 .. Len(t) : t[i] = s[i + 1]

\* The empty queue is one.
LEMMA EmptyIs == IsSeq(<<>>) /\ Len(<<>>) = 0
BY EmptySeq DEF IsSeq

\* A queue has a length, and none if it is empty.
LEMMA LenIs ==
  ASSUME NEW s, IsSeq(s)
  PROVE  Len(s) \in Nat /\ (s # <<>> <=> Len(s) > 0)
BY LenProperties, EmptySeq DEF IsSeq

\* Append adds one element at the end.
LEMMA AppendIs ==
  ASSUME NEW s, IsSeq(s), NEW x
  PROVE  Appended(s, Append(s, x), x)
<1> DEFINE S == {s[i] : i \in 1 .. Len(s)} \cup {x}
           t == Append(s, x)
<1>1. s \in Seq(S) /\ Len(s) \in Nat
  BY SeqMonotonic, LenIs DEF IsSeq
<1>2. /\ t \in Seq(S) /\ Len(t) = Len(s) + 1 /\ t[Len(s) + 1] = x
      /\ \A i \in 1 .. Len(s) : t[i] = s[i]
  BY <1>1, AppendProperties
<1>3. \A e \in S : e \in {t[i] : i \in 1 .. Len(t)}
  BY <1>1, <1>2
<1>4. t \in Seq({t[i] : i \in 1 .. Len(t)})
  BY <1>2, <1>3, SeqMonotonic
<1> QED BY <1>1, <1>2, <1>4 DEF Appended, IsSeq

\* Each element of the longer queue is the new one or an old one.
LEMMA AppendedAt ==
  ASSUME NEW s, NEW t, NEW x, Appended(s, t, x)
  PROVE  \A i \in 1 .. Len(t) : \/ i = Len(t) /\ t[i] = x
                                \/ i \in 1 .. Len(s) /\ t[i] = s[i]
BY DEF Appended

\* Tail takes the first element.
LEMMA TailIs ==
  ASSUME NEW s, IsSeq(s), s # <<>>
  PROVE  Popped(s, Tail(s))
<1> DEFINE S == {s[i] : i \in 1 .. Len(s)}
           t == Tail(s)
<1>1. s \in Seq(S) /\ Len(s) \in Nat \ {0}
  BY LenIs DEF IsSeq
<1>2. /\ t \in Seq(S) /\ Len(t) = Len(s) - 1 /\ Head(s) = s[1]
      /\ \A i \in 1 .. Len(t) : t[i] = s[i + 1]
  BY <1>1
<1>3. t \in [1 .. Len(t) -> S]
  BY <1>2, LenProperties
<1>4. t \in Seq({t[i] : i \in 1 .. Len(t)})
  <2>1. Len(t) \in Nat
    BY <1>1, <1>2
  <2>2. t \in [1 .. Len(t) -> {t[i] : i \in 1 .. Len(t)}]
    BY <1>3
  <2> QED BY <2>1, <2>2, SeqDef, Zenon
<1> QED BY <1>1, <1>2, <1>4 DEF Popped, IsSeq

-----------------------------------------------------------------------------
(***************************************************************************)
(* What each variable can hold.                                            *)
(***************************************************************************)
Requests ==
    [ask : {"methods", "digest", "response", "blank", "parameters", "targets"},
     cur : Stages, next : Stages]

\* A request names the stage it belongs to, and asks for the next one.
Proper(r) ==
    /\ r.ask \in {"methods", "digest", "response"} => r.cur = "security"
    /\ r.ask = "parameters" => r.cur = "operational"
    /\ r.ask = "targets" => r.cur = "full"
    /\ r.cur = "security" => r.next # "full"
    /\ r.cur # "security" => r.next = "full"

\* The query each part of the procedure is in.
Fits(s, q) ==
    /\ s = "auth" => q.ask = "methods"
    /\ s = "chap" => q.ask = "digest" /\ q.next = "security"
    /\ s = "response" => q.ask = "response" /\ q.next = "operational"
    /\ s = "none" => q.ask = "blank" /\ q.cur = "security" /\ q.next = "operational"
    /\ s = "negotiate" => q.ask = "parameters"
    /\ s = "text" => q.ask = "targets"

\* A query that ended well was moved to the stage it asked for, if it is
\* another one; one that was not moved, and left no refusal, ended at once.
Told(s, q, st) ==
    /\ q.at = "receive" => ~ q.error
    /\ q.transit => q.at = "done" /\ ~ q.error
    /\ q.cur = q.next => q.tries = 0
    /\ s \in LoggingIn /\ q.at = "done" /\ ~ q.transit /\ st = "success" =>
           q.tries = 0 /\ (q.error \/ q.cur = q.next)

InitiatorOK ==
    /\ cfg \in Configs /\ step \in Steps /\ query \in QueryTypes
    /\ Proper(query) /\ Fits(step, query) /\ Told(step, query, status)
    /\ status \in {"success", "failure", "refused"}
    /\ DOMAIN kern = {"tsih", "ack", "skipped", "par"}
    /\ kern.tsih \in {0, 1} /\ kern.ack \in Nat /\ kern.skipped \in Nat

AnswerOK(r) ==
    /\ DOMAIN r = {"op", "ok", "transit", "cont", "keys", "sn", "list", "tsih"}
    /\ r.op \in {"login", "reject", "text"} /\ r.ok \in BOOLEAN
    /\ r.transit \in BOOLEAN /\ r.cont \in BOOLEAN
    /\ r.sn \in Nat /\ r.tsih \in {0, 1}
    /\ r.transit => r.ok /\ ~ r.cont
    /\ r.tsih = 1 => r.transit
    /\ r.cont => r.ok
    /\ r.op = "reject" => ~ r.ok

LinesOK ==
    /\ IsSeq(out) /\ \A i \in 1 .. Len(out) : out[i] \in Requests /\ Proper(out[i])
    /\ IsSeq(in) /\ \A i \in 1 .. Len(in) : AnswerOK(in[i])

\* A target that refuses a request closes the connection.
TargetOK ==
    /\ DOMAIN tgt = {"stage", "sn", "tsih", "open", "proved", "heard", "late", "list"}
    /\ tgt.stage \in Stages /\ tgt.sn \in Nat /\ tgt.tsih \in {0, 1}
    /\ tgt.open \in BOOLEAN /\ tgt.proved \in BOOLEAN /\ tgt.late \in BOOLEAN
    /\ \A i \in 1 .. Len(in) : ~ in[i].ok => ~ tgt.open

Shapes == InitiatorOK /\ LinesOK /\ TargetOK

-----------------------------------------------------------------------------
(***************************************************************************)
(* The steps, by what they do to the queues and to the query.              *)
(***************************************************************************)
Read(r) ==
    /\ Querying /\ query.at = "receive" /\ Len(in) > 0 /\ r = in[1]
    /\ Popped(in, in') /\ kern' = Counted(kern, r)

Replied(r) ==
    /\ Len(out) > 0 /\ Head(out) = out[1] /\ Popped(out, out')
    /\ Appended(in, in', r)
    /\ tgt.open /\ AnswerOK(r) /\ r.sn = tgt.sn
    /\ DOMAIN tgt' = DOMAIN tgt /\ tgt'.sn = tgt.sn + 1
    /\ UNCHANGED initiator

\* The target refuses.
Refuses(r) ==
    /\ Replied(r)
    /\ ~ r.ok /\ r.op # "text" /\ r.tsih = 0 /\ DOMAIN r.keys = {}
    /\ tgt'.open = FALSE
    /\ \A f \in DOMAIN tgt \ {"sn", "open"} : tgt'[f] = tgt[f]

\* The target agrees to parameters, and may send the length of a segment apart.
Agrees(r) ==
    \E a \in Answers, when \in {"now", "rest", "late"} :
        LET keys == IF cfg.kind = "login" THEN DOMAIN a
                    ELSE DOMAIN a \cap DiscoveryKeys
        IN  /\ tgt'.heard = [k \in keys |-> a[k]]
            /\ tgt'.late = (when = "late")
            /\ r.cont = (when = "rest")
            /\ when # "now" => MaxSegment \in keys /\ ~ r.transit
            /\ r.keys = IF when = "now" THEN [k \in keys |-> a[k]]
                        ELSE Without([k \in keys |-> a[k]], MaxSegment)

\* The target answers a request of its stage, and may move to the next one.
Meets(r) ==
    /\ Replied(r)
    /\ out[1].cur = tgt.stage /\ r.ok /\ tgt'.open
    /\ r.transit => out[1].cur # out[1].next
    /\ tgt'.stage = IF r.transit THEN out[1].next ELSE tgt.stage
    /\ r.tsih = IF r.transit /\ out[1].next = "full" THEN 1 ELSE 0
    /\ tgt'.tsih = IF r.transit /\ out[1].next = "full" THEN 1 ELSE tgt.tsih

\* What it answers depends on the request.
Serves(r) ==
    /\ Meets(r)
    /\ r.op = IF out[1].ask = "targets" THEN "text" ELSE "login"
    /\ IF out[1].ask = "response"
       THEN /\ DOMAIN r.keys \subseteq {"Response"} /\ tgt'.proved \in BOOLEAN
            /\ "Response" \in DOMAIN r.keys =>
                   tgt'.proved = (r.keys["Response"] = "right")
       ELSE tgt'.proved = tgt.proved /\ "Response" \notin DOMAIN r.keys
    /\ IF out[1].ask = "parameters" THEN Agrees(r)
       ELSE /\ tgt'.heard = tgt.heard /\ tgt'.late = tgt.late
            /\ out[1].ask # "targets" => ~ r.cont
            /\ IF out[1].ask = "blank" /\ tgt.late
               THEN /\ DOMAIN r.keys = {MaxSegment}
                    /\ r.keys[MaxSegment] = tgt.heard[MaxSegment]
               ELSE DOMAIN r.keys \cap Keys = {}
    /\ IF out[1].ask = "targets"
       THEN /\ tgt'.list \in Listings
            /\ r.list = IF r.cont THEN <<Head(tgt'.list)>> ELSE tgt'.list
            /\ r.cont => Len(tgt'.list) > 1
       ELSE tgt'.list = tgt.list /\ r.list = <<>>

\* The rest of an answer that continues.
Continued(r) ==
    /\ tgt.open /\ Len(in) = 1 /\ in[1].cont /\ Appended(in, in', r)
    /\ AnswerOK(r) /\ r.ok /\ ~ r.transit /\ ~ r.cont /\ r.tsih = 0
    /\ r.op = in[1].op /\ r.sn = tgt.sn
    /\ IF r.op = "text" THEN r.keys = Empty /\ r.list = Tail(tgt.list)
       ELSE /\ DOMAIN r.keys = {MaxSegment} /\ r.list = <<>>
            /\ r.keys[MaxSegment] = tgt.heard[MaxSegment]
    /\ DOMAIN tgt' = DOMAIN tgt /\ tgt'.sn = tgt.sn + 1
    /\ \A f \in DOMAIN tgt \ {"sn"} : tgt'[f] = tgt[f]
    /\ UNCHANGED <<initiator, out>>

\* How a query ends, or goes on with an empty request.
Ended(q, st) ==
    \/ /\ query' = Done(q)
       /\ step # "text" =>
            \/ q.tries = 0 /\ (q.error \/ st # "success" \/ q.cur = q.next \/ q.transit)
            \/ q.tries > 0 /\ (q.transit \/ status' = "refused")
       /\ status' = st \/ (status' = "refused" /\ step # "text")
    \/ /\ query' = AskAgain(q) /\ status' = st
       /\ step # "text" /\ q.tries < MaxRetries /\ ~ q.transit
       /\ q.tries = 0 => ~ q.error /\ st = "success" /\ q.cur # q.next

\* Receiving takes the first answer off its line.
LEMMA Reading ==
  ASSUME LinesOK, NEW r, Receive(r)
  PROVE  Read(r)
BY TailIs, LenIs DEF Receive, LinesOK, Read, Popped

\* What an answer of the target changes: the two lines and its own state.
LEMMA Replying ==
  ASSUME LinesOK, TargetOK, out # <<>>, tgt.open, NEW r, AnswerOK(r), r.sn = tgt.sn,
         NEW t, DOMAIN t = DOMAIN tgt, t.sn = tgt.sn, Reply(r, t)
  PROVE  Replied(r) /\ \A f \in DOMAIN tgt \ {"sn"} : tgt'[f] = t[f]
<1>1. Popped(out, out') /\ Appended(in, in', r) /\ Len(out) > 0
  BY TailIs, LenIs, AppendIs DEF Reply, LinesOK
<1> QED BY <1>1 DEF Reply, Replied, Popped, TargetOK

\* A query that ends is done, or asks again if it may.
LEMMA Ending ==
  ASSUME NEW q, q.tries \in 0 .. MaxRetries, NEW st, EndQuery(q, st)
  PROVE  Ended(q, st)
BY LoginAssumption DEF EndQuery, Ended, Again, Verdict, Done, AskAgain

\* The keys of the security stage are none of those that are negotiated.
LEMMA KeysApart ==
  /\ {"AuthMethod", "TargetPortalGroupTag", "Response"} \cap Keys = {}
  /\ MaxSegment \in Keys /\ MaxSegment # "ErrorRecoveryLevel"
  /\ "ErrorRecoveryLevel" \in Keys
BY DEF Keys, Numeric, Common, Counts, Lengths, Flags, Digests, MaxSegment

\* What the answers to a request of the target's stage have in common.
LEMMA Serving ==
  ASSUME Shapes, tgt.open, out # <<>>, Head(out).cur = tgt.stage,
         NEW r, AnswerOK(r), r.ok, r.sn = tgt.sn,
         r.transit => out[1].cur # out[1].next,
         r.tsih = IF r.transit /\ Head(out).next = "full" THEN 1 ELSE 0,
         NEW t, DOMAIN t = DOMAIN tgt, t.sn = tgt.sn, t.open = tgt.open,
         t.stage = Moved(tgt, r.transit).stage, t.tsih = Moved(tgt, r.transit).tsih,
         Reply(r, t)
  PROVE  Meets(r) /\ \A f \in DOMAIN tgt \ {"sn"} : tgt'[f] = t[f]
<1>1. Head(out) = out[1]
  BY TailIs DEF Shapes, LinesOK, Popped
<1>2. /\ t.stage = (IF r.transit THEN out[1].next ELSE tgt.stage)
      /\ t.tsih = (IF r.transit /\ out[1].next = "full" THEN 1 ELSE tgt.tsih)
  BY <1>1 DEF Moved, Shapes, TargetOK
<1>3. LinesOK /\ TargetOK
  BY DEF Shapes
<1>4. Replied(r) /\ \A f \in DOMAIN tgt \ {"sn"} : tgt'[f] = t[f]
  BY <1>3, Replying
<1> QED BY <1>1, <1>2, <1>4 DEF Meets, Shapes, TargetOK

\* What the target does, in these terms.
LEMMA TargetSteps ==
  ASSUME Shapes, Target
  PROVE  \/ \E r : Refuses(r) \/ Serves(r) \/ Continued(r)
         \/ Leave
<1> USE DEF Shapes
<1>0. out # <<>> => Head(out) = out[1] /\ out[1] \in Requests /\ Proper(out[1]) /\ Len(out) > 0
  BY LenIs, TailIs DEF LinesOK, Popped
<1>1. ASSUME Refuse PROVE \E r : Refuses(r)
  <2>1. PICK op \in {"login", "reject"} :
          Reply(Answer(op, FALSE, FALSE, FALSE, Empty, <<>>), [tgt EXCEPT !.open = FALSE])
    BY <1>1 DEF Refuse
  <2> DEFINE r == Answer(op, FALSE, FALSE, FALSE, Empty, <<>>)
             t == [tgt EXCEPT !.open = FALSE]
  <2>2. /\ AnswerOK(r) /\ r.sn = tgt.sn /\ ~ r.ok /\ r.op # "text" /\ r.tsih = 0
        /\ DOMAIN r.keys = {}
    BY DEF AnswerOK, Answer, TargetOK, Empty
  <2>3. DOMAIN t = DOMAIN tgt /\ t.sn = tgt.sn /\ ~ t.open
          /\ \A f \in DOMAIN tgt \ {"open"} : t[f] = tgt[f]
    BY DEF TargetOK
  <2>4. Replied(r) /\ \A f \in DOMAIN tgt \ {"sn"} : tgt'[f] = t[f]
    <3>1. Reply(r, t) /\ tgt.open /\ out # <<>>
      BY <1>1, <2>1 DEF Refuse
    <3> HIDE DEF r, t
    <3> QED BY <2>2, <2>3, <3>1, Replying
  <2>5. Refuses(r)
    BY <2>2, <2>3, <2>4 DEF Refuses, TargetOK
  <2> QED BY <2>5
<1>2. ASSUME ChooseMethod PROVE \E r : Serves(r)
  <2>1. PICK m \in BuildDict, group \in BOOLEAN, transit \in MayMove :
          Reply(Answer("login", TRUE, transit, FALSE,
                       IF group THEN [AuthMethod |-> m, TargetPortalGroupTag |-> 1]
                       ELSE [AuthMethod |-> m], <<>>), Moved(tgt, transit))
    BY <1>2 DEF ChooseMethod
  <2> DEFINE keys == IF group THEN [AuthMethod |-> m, TargetPortalGroupTag |-> 1]
                     ELSE [AuthMethod |-> m]
             r == Answer("login", TRUE, transit, FALSE, keys, <<>>)
             t == Moved(tgt, transit)
  <2>2. DOMAIN keys \subseteq {"AuthMethod", "TargetPortalGroupTag"}
    OBVIOUS
  <2>3. Reply(r, t)
    BY <2>1
  <2> HIDE DEF keys
  <2>4. tgt.open /\ out # <<>> /\ out[1].cur = tgt.stage /\ out[1].ask = "methods"
    BY <1>0, <1>2 DEF ChooseMethod, Asked
  <2>5. /\ AnswerOK(r) /\ r.ok /\ r.sn = tgt.sn /\ r.transit = transit
        /\ r.tsih = (IF r.transit /\ Head(out).next = "full" THEN 1 ELSE 0)
        /\ r.op = "login" /\ ~ r.cont /\ r.keys = keys /\ r.list = <<>>
        /\ r.transit => out[1].cur # out[1].next
    <3>1. transit \in BOOLEAN /\ (transit => out[1].cur # out[1].next)
      BY <1>0, <2>4 DEF MayMove
    <3> QED BY <1>0, <2>4, <3>1 DEF AnswerOK, Answer, TargetOK
  <2>6. /\ DOMAIN t = DOMAIN tgt
        /\ \A f \in DOMAIN tgt \ {"stage", "tsih"} : t[f] = tgt[f]
    BY DEF Moved, TargetOK
  <2> HIDE DEF r
  <2>7. Meets(r) /\ \A f \in DOMAIN tgt \ {"sn"} : tgt'[f] = t[f]
    <3>1. DOMAIN t = DOMAIN tgt /\ t.sn = tgt.sn /\ t.open = tgt.open
      BY <2>6 DEF TargetOK
    <3>2. t.stage = Moved(tgt, r.transit).stage /\ t.tsih = Moved(tgt, r.transit).tsih
      BY <2>5
    <3> HIDE DEF t, Shapes
    <3> QED BY <1>0, <2>3, <2>4, <2>5, <3>1, <3>2, Serving
  <2> HIDE DEF t
  <2>8. Serves(r)
    BY <2>2, <2>4, <2>5, <2>6, <2>7, KeysApart DEF Serves, TargetOK
  <2> QED BY <2>8
<1>3. ASSUME Challenge PROVE \E r : Serves(r)
  <2>1. Reply(Answer("login", TRUE, FALSE, FALSE, Empty, <<>>), tgt)
    BY <1>3 DEF Challenge
  <2> DEFINE keys == Empty
             r == Answer("login", TRUE, FALSE, FALSE, keys, <<>>)
             t == tgt
  <2>2. DOMAIN keys = {}
    BY DEF Empty
  <2>3. Reply(r, t)
    BY <2>1 
  <2> HIDE DEF keys
  <2>4. tgt.open /\ out # <<>> /\ out[1].cur = tgt.stage /\ out[1].ask = "digest"
    BY <1>0, <1>3 DEF Challenge, Asked
  <2>5. /\ AnswerOK(r) /\ r.ok /\ r.sn = tgt.sn /\ r.transit = FALSE
        /\ r.tsih = (IF r.transit /\ Head(out).next = "full" THEN 1 ELSE 0)
        /\ r.op = "login" /\ ~ r.cont /\ r.keys = keys /\ r.list = <<>>
        /\ r.transit => out[1].cur # out[1].next
    BY <1>0, <2>1, <2>4 DEF AnswerOK, Answer, TargetOK
  <2>6. /\ DOMAIN t = DOMAIN tgt
        /\ \A f \in DOMAIN tgt : t[f] = tgt[f]
    BY DEF Moved, TargetOK
  <2> HIDE DEF r
  <2>7. Meets(r) /\ \A f \in DOMAIN tgt \ {"sn"} : tgt'[f] = t[f]
    <3>1. DOMAIN t = DOMAIN tgt /\ t.sn = tgt.sn /\ t.open = tgt.open
      BY <2>6 DEF TargetOK
    <3>2. t.stage = Moved(tgt, r.transit).stage /\ t.tsih = Moved(tgt, r.transit).tsih
      BY <2>5 DEF Moved, TargetOK
    <3> HIDE DEF t, Shapes
    <3> QED BY <1>0, <2>3, <2>4, <2>5, <3>1, <3>2, Serving
  <2> HIDE DEF t
  <2>8. Serves(r)
    BY <2>2, <2>4, <2>5, <2>6, <2>7, KeysApart DEF Serves, TargetOK
  <2> QED BY <2>8
<1>4. ASSUME Respond PROVE \E r : Serves(r)
  <2>1. PICK transit \in MayMove, response \in {"right", "wrong", Nobody} :
          /\ response # Nobody => cfg.target = "CHAP"
          /\ Reply(Answer("login", TRUE, transit, FALSE,
                         IF response = Nobody THEN Empty
                         ELSE [Response |-> response], <<>>),
                  [Moved(tgt, transit) EXCEPT !.proved = response = "right"])
    BY <1>4 DEF Respond
  <2> DEFINE keys == IF response = Nobody THEN Empty ELSE [Response |-> response]
             r == Answer("login", TRUE, transit, FALSE, keys, <<>>)
             t == [Moved(tgt, transit) EXCEPT !.proved = response = "right"]
  <2>2. /\ DOMAIN keys \subseteq {"Response"}
        /\ "Response" \in DOMAIN keys => keys["Response"] = response
    BY DEF Empty
  <2>3. Reply(r, t)
    BY <2>1 
  <2> HIDE DEF keys
  <2>4. tgt.open /\ out # <<>> /\ out[1].cur = tgt.stage /\ out[1].ask = "response"
    BY <1>0, <1>4 DEF Respond, Asked
  <2>5. /\ AnswerOK(r) /\ r.ok /\ r.sn = tgt.sn /\ r.transit = transit
        /\ r.tsih = (IF r.transit /\ Head(out).next = "full" THEN 1 ELSE 0)
        /\ r.op = "login" /\ ~ r.cont /\ r.keys = keys /\ r.list = <<>>
        /\ r.transit => out[1].cur # out[1].next
    <3>1. transit \in BOOLEAN /\ (transit => out[1].cur # out[1].next)
      BY <1>0, <2>4 DEF MayMove
    <3> QED BY <1>0, <2>1, <2>4, <3>1 DEF AnswerOK, Answer, TargetOK
  <2>6. /\ DOMAIN t = DOMAIN tgt
        /\ \A f \in DOMAIN tgt \ {"stage", "tsih", "proved"} : t[f] = tgt[f]
        /\ t.proved = (response = "right")
    BY DEF Moved, TargetOK
  <2> HIDE DEF r
  <2>7. Meets(r) /\ \A f \in DOMAIN tgt \ {"sn"} : tgt'[f] = t[f]
    <3>1. DOMAIN t = DOMAIN tgt /\ t.sn = tgt.sn /\ t.open = tgt.open
      BY <2>6 DEF TargetOK
    <3>2. t.stage = Moved(tgt, r.transit).stage /\ t.tsih = Moved(tgt, r.transit).tsih
      BY <2>5 DEF Moved, TargetOK
    <3> HIDE DEF t, Shapes
    <3> QED BY <1>0, <2>3, <2>4, <2>5, <3>1, <3>2, Serving
  <2> HIDE DEF t
  <2>8. Serves(r)
    <3>1. tgt'.proved = (response = "right") /\ tgt'.proved \in BOOLEAN
      BY <2>6, <2>7 DEF TargetOK
    <3> QED BY <2>2, <2>4, <2>5, <2>6, <2>7, <3>1, KeysApart DEF Serves, TargetOK
  <2> QED BY <2>8
<1>5. ASSUME GoOn PROVE \E r : Serves(r)
  <2>1. PICK transit \in MayMove :
          Reply(Answer("login", TRUE, transit, FALSE,
                       IF tgt.late THEN Only(tgt.heard, MaxSegment) ELSE Empty, <<>>),
                Moved(tgt, transit))
    BY <1>5 DEF GoOn
  <2> DEFINE keys == IF tgt.late THEN Only(tgt.heard, MaxSegment) ELSE Empty
             r == Answer("login", TRUE, transit, FALSE, keys, <<>>)
             t == Moved(tgt, transit)
  <2>2. IF tgt.late THEN /\ DOMAIN keys = {MaxSegment}
                         /\ keys[MaxSegment] = tgt.heard[MaxSegment]
        ELSE DOMAIN keys = {}
    BY DEF Empty, Only
  <2>3. Reply(r, t)
    BY <2>1 
  <2> HIDE DEF keys
  <2>4. tgt.open /\ out # <<>> /\ out[1].cur = tgt.stage /\ out[1].ask = "blank"
    BY <1>0, <1>5 DEF GoOn, Asked
  <2>5. /\ AnswerOK(r) /\ r.ok /\ r.sn = tgt.sn /\ r.transit = transit
        /\ r.tsih = (IF r.transit /\ Head(out).next = "full" THEN 1 ELSE 0)
        /\ r.op = "login" /\ ~ r.cont /\ r.keys = keys /\ r.list = <<>>
        /\ r.transit => out[1].cur # out[1].next
    <3>1. transit \in BOOLEAN /\ (transit => out[1].cur # out[1].next)
      BY <1>0, <2>4 DEF MayMove
    <3> QED BY <1>0, <2>1, <2>4, <3>1 DEF AnswerOK, Answer, TargetOK
  <2>6. /\ DOMAIN t = DOMAIN tgt
        /\ \A f \in DOMAIN tgt \ {"stage", "tsih"} : t[f] = tgt[f]
    BY DEF Moved, TargetOK
  <2> HIDE DEF r
  <2>7. Meets(r) /\ \A f \in DOMAIN tgt \ {"sn"} : tgt'[f] = t[f]
    <3>1. DOMAIN t = DOMAIN tgt /\ t.sn = tgt.sn /\ t.open = tgt.open
      BY <2>6 DEF TargetOK
    <3>2. t.stage = Moved(tgt, r.transit).stage /\ t.tsih = Moved(tgt, r.transit).tsih
      BY <2>5 DEF Moved, TargetOK
    <3> HIDE DEF t, Shapes
    <3> QED BY <1>0, <2>3, <2>4, <2>5, <3>1, <3>2, Serving
  <2> HIDE DEF t
  <2>8. Serves(r)
    BY <2>2, <2>4, <2>5, <2>6, <2>7, KeysApart DEF Serves, TargetOK
  <2> QED BY <2>8
<1>6. ASSUME Agree PROVE \E r : Serves(r)
  <2>1. PICK a \in Answers, transit \in MayMove, when \in {"now", "rest", "late"} :
          LET keys == IF cfg.kind = "login" THEN DOMAIN a
                      ELSE DOMAIN a \cap DiscoveryKeys
              heard == [k \in keys |-> a[k]]
          IN  /\ when # "now" => MaxSegment \in keys /\ ~ transit
              /\ Reply(Answer("login", TRUE, transit, when = "rest",
                              IF when = "now" THEN heard ELSE Without(heard, MaxSegment),
                              <<>>),
                       [Moved(tgt, transit) EXCEPT !.heard = heard,
                                                   !.late = when = "late"])
    BY <1>6 DEF Agree
  <2> DEFINE known == IF cfg.kind = "login" THEN DOMAIN a
                      ELSE DOMAIN a \cap DiscoveryKeys
             heard == [k \in known |-> a[k]]
  <2> DEFINE keys == IF when = "now" THEN heard ELSE Without(heard, MaxSegment)
             r == Answer("login", TRUE, transit, when = "rest", keys, <<>>)
             t == [Moved(tgt, transit) EXCEPT !.heard = heard, !.late = when = "late"]
  <2>2. /\ when # "now" => MaxSegment \in known /\ ~ transit
        /\ DOMAIN keys \subseteq Keys
    BY <2>1, LoginAssumption DEF Without, IsDictionary
  <2>3. Reply(r, t)
    BY <2>1 
  <2> HIDE DEF keys
  <2>4. tgt.open /\ out # <<>> /\ out[1].cur = tgt.stage /\ out[1].ask = "parameters"
    BY <1>0, <1>6 DEF Agree, Asked
  <2>5. /\ AnswerOK(r) /\ r.ok /\ r.sn = tgt.sn /\ r.transit = transit
        /\ r.tsih = (IF r.transit /\ Head(out).next = "full" THEN 1 ELSE 0)
        /\ r.op = "login" /\ r.cont = (when = "rest") /\ r.keys = keys /\ r.list = <<>>
        /\ r.transit => out[1].cur # out[1].next
    <3>1. transit \in BOOLEAN /\ (transit => out[1].cur # out[1].next)
      BY <1>0, <2>4 DEF MayMove
    <3>2. transit => when # "rest"
      BY <2>2
    <3>3. /\ r.ok /\ r.sn = tgt.sn /\ r.transit = transit /\ r.cont = (when = "rest")
          /\ r.op = "login" /\ r.keys = keys /\ r.list = <<>>
          /\ r.tsih = (IF transit /\ Head(out).next = "full" THEN 1 ELSE 0)
      BY <3>1 DEF Answer
    <3>4. DOMAIN r = {"op", "ok", "transit", "cont", "keys", "sn", "list", "tsih"}
      BY DEF Answer
    <3> HIDE DEF r
    <3>5. AnswerOK(r)
      <4>1. r.cont \in BOOLEAN /\ (r.cont => ~ r.transit)
        BY <3>2, <3>3
      <4>2. r.tsih \in {0, 1} /\ (r.tsih = 1 => r.transit) /\ r.sn \in Nat
        BY <3>3 DEF TargetOK
      <4>3. r.transit \in BOOLEAN
        BY <3>1, <3>3
      <4> QED BY <3>3, <3>4, <4>1, <4>2, <4>3 DEF AnswerOK
    <3> QED BY <3>1, <3>3, <3>5
  <2>6. /\ DOMAIN t = DOMAIN tgt
        /\ \A f \in DOMAIN tgt \ {"stage", "tsih", "heard", "late"} : t[f] = tgt[f]
        /\ t.heard = heard /\ t.late = (when = "late")
    BY DEF Moved, TargetOK
  <2> HIDE DEF r
  <2>7. Meets(r) /\ \A f \in DOMAIN tgt \ {"sn"} : tgt'[f] = t[f]
    <3>1. DOMAIN t = DOMAIN tgt /\ t.sn = tgt.sn /\ t.open = tgt.open
      BY <2>6 DEF TargetOK
    <3>2. t.stage = Moved(tgt, r.transit).stage /\ t.tsih = Moved(tgt, r.transit).tsih
      BY <2>5 DEF Moved, TargetOK
    <3> HIDE DEF t, Shapes
    <3> QED BY <1>0, <2>3, <2>4, <2>5, <3>1, <3>2, Serving, ZenonT(30)
  <2> HIDE DEF t
  <2>8. Agrees(r)
    <3>1. tgt'.heard = heard /\ tgt'.late = (when = "late")
      BY <2>6, <2>7 DEF TargetOK
    <3> QED BY <2>2, <2>5, <3>1 DEF Agrees, keys
  <2>9. Serves(r)
    BY <2>2, <2>4, <2>5, <2>6, <2>7, <2>8, KeysApart DEF Serves, TargetOK
  <2> QED BY <2>9
<1>7. ASSUME List PROVE \E r : Serves(r)
  <2>1. PICK l \in Listings, cont \in BOOLEAN :
          /\ cont => Len(l) > 1
          /\ Reply(Answer("text", TRUE, FALSE, cont, Empty,
                          IF cont THEN <<Head(l)>> ELSE l),
                   [tgt EXCEPT !.list = l])
    BY <1>7 DEF List
  <2> DEFINE keys == Empty
             r == Answer("text", TRUE, FALSE, cont, keys, IF cont THEN <<Head(l)>> ELSE l)
             t == [tgt EXCEPT !.list = l]
  <2>2. DOMAIN keys = {}
    BY DEF Empty
  <2>3. Reply(r, t)
    BY <2>1 
  <2> HIDE DEF keys
  <2>4. tgt.open /\ out # <<>> /\ out[1].cur = tgt.stage /\ out[1].ask = "targets"
    BY <1>0, <1>7 DEF List, Asked
  <2>5. /\ AnswerOK(r) /\ r.ok /\ r.sn = tgt.sn /\ r.transit = FALSE
        /\ r.tsih = (IF r.transit /\ Head(out).next = "full" THEN 1 ELSE 0)
        /\ r.op = "text" /\ r.cont = cont /\ r.keys = keys /\ r.list = (IF cont THEN <<Head(l)>> ELSE l)
        /\ r.transit => out[1].cur # out[1].next
    BY <1>0, <2>1, <2>4 DEF AnswerOK, Answer, TargetOK
  <2>6. /\ DOMAIN t = DOMAIN tgt
        /\ \A f \in DOMAIN tgt \ {"list"} : t[f] = tgt[f]
        /\ t.list = l
    BY DEF Moved, TargetOK
  <2> HIDE DEF r
  <2>7. Meets(r) /\ \A f \in DOMAIN tgt \ {"sn"} : tgt'[f] = t[f]
    <3>1. DOMAIN t = DOMAIN tgt /\ t.sn = tgt.sn /\ t.open = tgt.open
      BY <2>6 DEF TargetOK
    <3>2. t.stage = Moved(tgt, r.transit).stage /\ t.tsih = Moved(tgt, r.transit).tsih
      BY <2>5 DEF Moved, TargetOK
    <3> HIDE DEF t, Shapes
    <3> QED BY <1>0, <2>3, <2>4, <2>5, <3>1, <3>2, Serving
  <2> HIDE DEF t
  <2>8. Serves(r)
    <3>1. tgt'.list = l
      BY <2>6, <2>7 DEF TargetOK
    <3> QED BY <2>1, <2>2, <2>4, <2>5, <2>6, <2>7, <3>1, KeysApart DEF Serves, TargetOK
  <2> QED BY <2>8
<1>8. ASSUME Continue PROVE \E r : Continued(r)
  <2> DEFINE r == [Head(in) EXCEPT !.cont = FALSE, !.sn = tgt.sn,
                          !.keys = IF Head(in).op = "text" THEN Empty
                                   ELSE Only(tgt.heard, MaxSegment),
                          !.list = IF Head(in).op = "text" THEN Tail(tgt.list)
                                   ELSE <<>>]
  <2>1. /\ tgt.open /\ Len(in) = 1 /\ Head(in).cont /\ in' = Append(in, r)
        /\ tgt' = [tgt EXCEPT !.sn = @ + 1] /\ UNCHANGED <<initiator, out>>
    BY <1>8 DEF Continue
  <2>2. Head(in) = in[1] /\ AnswerOK(in[1]) /\ Appended(in, in', r)
    BY <2>1, AppendIs, TailIs, LenIs DEF LinesOK, Popped
  <2>3. /\ AnswerOK(r) /\ r.ok /\ ~ r.transit /\ ~ r.cont /\ r.tsih = 0
        /\ r.op = in[1].op /\ r.sn = tgt.sn
        /\ IF r.op = "text" THEN r.keys = Empty /\ r.list = Tail(tgt.list)
           ELSE /\ r.keys = Only(tgt.heard, MaxSegment) /\ r.list = <<>>
    BY <2>1, <2>2 DEF AnswerOK, TargetOK
  <2> HIDE DEF r
  <2>4. Continued(r)
    BY <2>1, <2>2, <2>3 DEF Continued, Only, TargetOK
  <2> QED BY <2>4
<1> QED BY <1>1, <1>2, <1>3, <1>4, <1>5, <1>6, <1>7, <1>8 DEF Target

-----------------------------------------------------------------------------
(* The shapes are kept. *)

\* The shapes at the start.
LEMMA ShapesInit == LoginInit => Shapes
<1> SUFFICES ASSUME LoginInit PROVE Shapes
  OBVIOUS
<1>1. InitiatorOK
  BY LoginAssumption DEF LoginInit, InitiatorOK, Steps, LoggingIn, Configs, Query,
     Login, QueryTypes, Proper, Fits, Told, Stages
<1>2. LinesOK
  BY EmptyIs DEF LoginInit, LinesOK
<1>3. TargetOK
  BY EmptyIs, LoginAssumption DEF LoginInit, TargetOK, Stages
<1> QED BY <1>1, <1>2, <1>3 DEF Shapes

\* What is put on a line is of its shape.
LEMMA LinesAppended ==
  ASSUME LinesOK, TargetOK, NEW r, Appended(in, in', r), AnswerOK(r)
  PROVE  IsSeq(in') /\ \A i \in 1 .. Len(in') : AnswerOK(in'[i])
BY DEF Appended, LinesOK

\* What is taken from a line leaves its shape.
LEMMA LinesPopped ==
  ASSUME LinesOK, Popped(in, in')
  PROVE  /\ IsSeq(in') /\ \A i \in 1 .. Len(in') : AnswerOK(in'[i])
         /\ \A i \in 1 .. Len(in') : \E j \in 1 .. Len(in) : in'[i] = in[j]
BY DEF Popped, LinesOK

\* So for the line of requests.
LEMMA RequestsPopped ==
  ASSUME LinesOK, Popped(out, out')
  PROVE  IsSeq(out') /\ \A i \in 1 .. Len(out') : out'[i] \in Requests /\ Proper(out'[i])
BY DEF Popped, LinesOK

\* The target keeps the shapes.
LEMMA ShapesTarget ==
  ASSUME Shapes, Target
  PROVE  Shapes'
<1> USE DEF Shapes
<1>1. InitiatorOK'
  <2>1. UNCHANGED initiator
    BY TargetSteps DEF Refuses, Serves, Meets, Replied, Continued, Leave
  <2> QED BY <2>1 DEF InitiatorOK, initiator
<1>2. ASSUME NEW r, Refuses(r) PROVE LinesOK' /\ TargetOK'
  <2>1. Appended(in, in', r) /\ Popped(out, out') /\ AnswerOK(r) /\ ~ tgt'.open
    BY <1>2 DEF Refuses, Replied
  <2>2. LinesOK'
    BY <2>1, LinesAppended, RequestsPopped DEF LinesOK
  <2>3. TargetOK'
    <3>1. /\ tgt'.stage = tgt.stage /\ tgt'.tsih = tgt.tsih /\ tgt'.proved = tgt.proved
          /\ tgt'.late = tgt.late /\ DOMAIN tgt' = DOMAIN tgt /\ tgt'.sn = tgt.sn + 1
          /\ tgt'.open = FALSE
      BY <1>2 DEF Refuses, Replied, TargetOK
    <3>2. tgt'.open \in BOOLEAN /\ ~ tgt'.open
      BY <3>1
    <3>3. tgt'.sn \in Nat
      BY <3>1 DEF TargetOK
    <3> QED BY <3>1, <3>2, <3>3 DEF TargetOK
  <2> QED BY <2>2, <2>3
<1>3. ASSUME NEW r, Serves(r) PROVE LinesOK' /\ TargetOK'
  <2>1. Appended(in, in', r) /\ Popped(out, out') /\ AnswerOK(r) /\ Meets(r)
    BY <1>3 DEF Serves, Meets, Replied
  <2>2. LinesOK'
    BY <2>1, LinesAppended, RequestsPopped DEF LinesOK
  <2>3. \A i \in 1 .. Len(in') : in'[i].ok
    BY <2>1 DEF Meets, Replied, Appended, TargetOK, LinesOK, AnswerOK
  <2>4. tgt'.proved \in BOOLEAN /\ tgt'.late \in BOOLEAN
    BY <1>3 DEF Serves, Agrees, TargetOK
  <2>5. tgt'.stage \in Stages
    BY <2>1 DEF Meets, Replied, TargetOK, LinesOK, Requests
  <2>6. TargetOK'
    BY <2>1, <2>3, <2>4, <2>5 DEF Meets, Replied, TargetOK
  <2> QED BY <2>2, <2>6
<1>4. ASSUME NEW r, Continued(r) PROVE LinesOK' /\ TargetOK'
  <2>1. LinesOK'
    BY <1>4, LinesAppended DEF Continued, LinesOK
  <2>2. TargetOK'
    <3>1. /\ tgt'.stage = tgt.stage /\ tgt'.tsih = tgt.tsih /\ tgt'.proved = tgt.proved
          /\ tgt'.late = tgt.late /\ DOMAIN tgt' = DOMAIN tgt /\ tgt'.sn = tgt.sn + 1
          /\ tgt'.open = tgt.open /\ tgt.open
      BY <1>4 DEF Continued, TargetOK
    <3>2. \A i \in 1 .. Len(in') : in'[i].ok
      BY <1>4 DEF Continued, Appended, TargetOK, LinesOK, AnswerOK
    <3> QED BY <3>1, <3>2 DEF TargetOK
  <2> QED BY <2>1, <2>2
<1>5. ASSUME Leave PROVE LinesOK' /\ TargetOK'
  BY <1>5, EmptyIs DEF Leave, LinesOK, TargetOK
<1> QED BY <1>1, <1>2, <1>3, <1>4, <1>5, TargetSteps

\* A query that ends leaves the initiator in order.
LEMMA EndedOK ==
  ASSUME InitiatorOK, Querying, NEW q \in QueryTypes,
         q.ask = query.ask, q.cur = query.cur, q.next = query.next,
         q.tries = query.tries, q.transit => ~ q.error,
         NEW st \in {"success", "failure", "refused"}, EndQuery(q, st),
         step' = step
  PROVE  /\ query' \in QueryTypes /\ Proper(query') /\ Fits(step', query')
         /\ Told(step', query', status')
         /\ status' \in {"success", "failure", "refused"}
<1>1. Ended(q, st)
  BY Ending DEF QueryTypes
<1>2. q.tries \in 0 .. MaxRetries
  BY DEF QueryTypes
<1>3. CASE query' = Done(q)
  <2>1. query' \in QueryTypes
    BY <1>3 DEF Done, QueryTypes
  <2>2. status' = st \/ status' = "refused"
    BY <1>1 DEF Ended
  <2>3. Told(step', query', status')
    BY <1>1, <1>2, <1>3, ZenonT(30) DEF Ended, Done, AskAgain, Told, InitiatorOK, QueryTypes, Steps,
       LoggingIn
  <2> QED BY <1>3, <2>1, <2>2, <2>3 DEF Done, Proper, Fits, InitiatorOK, QueryTypes
<1>4. CASE query' = AskAgain(q) /\ status' = st /\ q.tries < MaxRetries /\ ~ q.transit
           /\ (q.tries = 0 => q.cur # q.next)
  <2>1. query' \in QueryTypes
    <3>1. q.tries + 1 \in 0 .. MaxRetries
      BY <1>2, <1>4, LoginAssumption
    <3> QED BY <1>4, <3>1 DEF AskAgain, QueryTypes
  <2>2. Told(step', query', status')
    BY <1>2, <1>4 DEF AskAgain, Told, InitiatorOK, QueryTypes
  <2> QED BY <1>4, <2>1, <2>2 DEF AskAgain, Proper, Fits, InitiatorOK, QueryTypes
<1> QED BY <1>1, <1>3, <1>4 DEF Ended

\* The queries of a login, each in its part of the procedure.
Fresh(s, q) ==
    /\ s \in Steps /\ q \in QueryTypes /\ Proper(q) /\ Fits(s, q)
    /\ q.at = "send" /\ q.tries = 0 /\ ~ q.error /\ ~ q.transit

\* A new query is of its shape.
LEMMA QueriesFresh ==
  /\ Fresh("chap", Query("digest", "security", "security", 0))
  /\ Fresh("response", Query("response", "security", "operational", 0))
  /\ Fresh("none", Query("blank", "security", "operational", 0))
  /\ Fresh("negotiate", Query("parameters", "operational", "full", 0))
  /\ \A s \in {"text", "full"}, tsih \in {0, 1} :
        Fresh(s, Query("targets", "full", "full", tsih))
BY LoginAssumption DEF Fresh, Query, QueryTypes, Proper, Fits, Steps, LoggingIn, Stages

\* What follows a query keeps the lines.
LEMMA TurnOK ==
  ASSUME Shapes, UNCHANGED <<cfg, status, out, in, tgt>>,
         \/ Fresh(step', query')
         \/ query' = query /\ step' \in {"released", "probed", "listed"},
         DOMAIN kern' = DOMAIN kern, kern'.tsih \in {0, 1},
         kern'.ack \in Nat, kern'.skipped \in Nat
  PROVE  Shapes'
<1>1. LinesOK' /\ TargetOK'
  BY DEF Shapes, LinesOK, TargetOK
<1>2. query' \in QueryTypes /\ Proper(query') /\ Fits(step', query') /\ step' \in Steps
  BY DEF Fresh, Shapes, InitiatorOK, Fits, Steps, LoggingIn
<1>3. Told(step', query', status')
  BY DEF Fresh, Shapes, InitiatorOK, Told, LoggingIn
<1>4. InitiatorOK'
  BY <1>2, <1>3 DEF Shapes, InitiatorOK
<1> QED BY <1>1, <1>4 DEF Shapes

\* An answer moves one of the two counters.
LEMMA AdvancedIs ==
  ASSUME InitiatorOK, NEW sn
  PROVE  LET k == Advanced(kern, sn)
         IN  /\ DOMAIN k = DOMAIN kern /\ k.tsih = kern.tsih /\ k.par = kern.par
             /\ \/ k.ack = kern.ack + 1 /\ k.skipped = kern.skipped
                \/ k.ack = kern.ack /\ k.skipped = kern.skipped + 1
<1> DEFINE k == Advanced(kern, sn)
<1>1. CASE AllOnes(sn)
  <2>1. k = [kern EXCEPT !.skipped = @ + 1]
    BY <1>1 DEF Advanced
  <2> QED BY <2>1 DEF InitiatorOK
<1>2. CASE ~ AllOnes(sn)
  <2>1. k = [kern EXCEPT !.ack = @ + 1]
    BY <1>2 DEF Advanced
  <2> QED BY <2>1 DEF InitiatorOK
<1> QED BY <1>1, <1>2

\* The initiator keeps the shapes.
LEMMA ShapesInitiator ==
  ASSUME Shapes, Initiator
  PROVE  Shapes'
<1> USE DEF Shapes
<1>1. CASE Send
  <2>1. LinesOK'
    <3>1. CASE out' = Append(out, Request)
      <4>1. Appended(out, out', Request)
        BY <3>1, AppendIs DEF LinesOK
      <4>2. Request \in Requests /\ Proper(Request)
        BY DEF Request, InitiatorOK, QueryTypes, Requests, Proper
      <4> QED BY <1>1, <4>1, <4>2 DEF Send, Appended, LinesOK
    <3>2. CASE out' = out
      BY <1>1, <3>2 DEF Send, LinesOK
    <3> QED BY <1>1, <3>1, <3>2 DEF Send
  <2>2. TargetOK'
    BY <1>1 DEF Send, TargetOK
  <2>3. CASE query' = [query EXCEPT !.at = "receive", !.error = FALSE] /\ UNCHANGED status
    <3>1. query' \in QueryTypes /\ Proper(query') /\ Fits(step, query')
      BY <2>3 DEF InitiatorOK, QueryTypes, Proper, Fits
    <3>2. Told(step, query', status')
      BY <1>1, <2>3 DEF Send, InitiatorOK, QueryTypes, Told
    <3> QED BY <1>1, <2>1, <2>2, <2>3, <3>1, <3>2 DEF Send, InitiatorOK
  <2>4. CASE EndQuery([query EXCEPT !.error = TRUE], status)
    <3>1. /\ query' \in QueryTypes /\ Proper(query') /\ Fits(step', query')
          /\ Told(step', query', status')
          /\ status' \in {"success", "failure", "refused"}
      BY <1>1, <2>4, EndedOK, ZenonT(30) DEF Send, InitiatorOK, QueryTypes, Told
    <3> QED BY <1>1, <2>1, <2>2, <3>1 DEF Send, InitiatorOK
  <2> QED BY <1>1, <2>3, <2>4 DEF Send
<1>2. CASE RecvFails
  <2>1. LinesOK' /\ TargetOK'
    BY <1>2 DEF RecvFails, LinesOK, TargetOK
  <2>2. /\ query' \in QueryTypes /\ Proper(query') /\ Fits(step', query')
        /\ Told(step', query', status')
        /\ status' \in {"success", "failure", "refused"}
    BY <1>2, EndedOK, ZenonT(30) DEF RecvFails, InitiatorOK, QueryTypes, Told
  <2> QED BY <1>2, <2>1, <2>2 DEF RecvFails, InitiatorOK
<1>3. ASSUME NEW r, Read(r), UNCHANGED <<cfg, step, out, tgt>>,
             NEW q \in QueryTypes, q.ask = query.ask, q.cur = query.cur,
             q.next = query.next, q.tries = query.tries, q.transit => ~ q.error,
             NEW st \in {"success", "failure", "refused"},
             \/ EndQuery(q, st)
             \/ query' = q /\ status' = st /\ ~ q.transit /\ ~ q.error /\ q.at # "done"
      PROVE  Shapes'
  <2>1. LinesOK' /\ TargetOK'
    BY <1>3, LinesPopped DEF Read, LinesOK, TargetOK
  <2>2. /\ kern'.tsih \in {0, 1} /\ kern'.ack \in Nat /\ kern'.skipped \in Nat
        /\ DOMAIN kern' = DOMAIN kern
    BY <1>3, AdvancedIs DEF Read, Counted, InitiatorOK
  <2>3. /\ query' \in QueryTypes /\ Proper(query') /\ Fits(step', query')
        /\ Told(step', query', status')
        /\ status' \in {"success", "failure", "refused"}
    <3>1. CASE EndQuery(q, st)
      BY <1>3, <3>1, EndedOK DEF Read
    <3>2. CASE query' = q /\ status' = st /\ ~ q.transit /\ ~ q.error /\ q.at # "done"
      BY <1>3, <3>2 DEF InitiatorOK, Proper, Fits, Told
    <3> QED BY <1>3, <3>1, <3>2
  <2> QED BY <1>3, <2>1, <2>2, <2>3 DEF InitiatorOK
<1>4. CASE Rejected
  <2>1. PICK r : Receive(r)
    BY <1>4 DEF Rejected
  <2> DEFINE q == [query EXCEPT !.error = TRUE]
  <2>2. /\ q \in QueryTypes /\ q.ask = query.ask /\ q.cur = query.cur /\ q.next = query.next
        /\ q.tries = query.tries /\ (q.transit => ~ q.error)
    BY <2>1 DEF Receive, InitiatorOK, QueryTypes, Told
  <2>3. Read(r) /\ UNCHANGED <<cfg, step, out, tgt>> /\ EndQuery(q, status)
    BY <1>4, <2>1, Reading DEF Rejected
  <2> HIDE DEF q
  <2> QED BY <1>3, <2>2, <2>3 DEF InitiatorOK
<1>5. CASE Failed
  <2>1. PICK r : Receive(r)
    BY <1>5 DEF Failed
  <2>2. query.transit => ~ query.error
    BY DEF InitiatorOK, Told
  <2>3. Read(r) /\ UNCHANGED <<cfg, step, out, tgt>> /\ EndQuery(query, "failure")
    BY <1>5, <2>1, Reading DEF Failed
  <2> QED BY <1>3, <2>2, <2>3 DEF InitiatorOK
<1>6. CASE Answered
  <2> DEFINE r == Head(in)
             q == [query EXCEPT !.transit = r.transit, !.sn = r.sn,
                              !.tsih = IF @ = 0 /\ query.next = "full" THEN r.tsih
                                       ELSE @]
  <2>1. Read(r) /\ UNCHANGED <<cfg, step, out, tgt>>
    BY <1>6, Reading DEF Answered
  <2>2. AnswerOK(r)
    BY <2>1 DEF Read, LinesOK
  <2>3. query \in QueryTypes /\ query.at = "receive" /\ ~ query.error
    BY <2>1 DEF Read, InitiatorOK, Told
  <2>4. /\ IF r.cont THEN query' = q /\ status' = "success" ELSE EndQuery(q, "success")
    BY <1>6 DEF Answered
  <2> HIDE DEF r
  <2>5. /\ q \in QueryTypes /\ q.ask = query.ask /\ q.cur = query.cur /\ q.next = query.next
        /\ q.tries = query.tries /\ ~ q.error /\ q.transit = r.transit /\ q.at # "done"
    BY <2>2, <2>3 DEF QueryTypes, AnswerOK
  <2> HIDE DEF q
  <2>6. r.cont => ~ r.transit
    BY <2>2 DEF AnswerOK
  <2> QED BY <1>3, <2>1, <2>4, <2>5, <2>6
<1>7. CASE ListingAnswered
  <2> DEFINE r == Head(in)
  <2>1. Read(r) /\ UNCHANGED <<cfg, step, out, tgt>>
    BY <1>7, Reading DEF ListingAnswered
  <2>2. query \in QueryTypes /\ query.at = "receive" /\ ~ query.error /\ ~ query.transit
    BY <2>1 DEF Read, InitiatorOK, Told
  <2>3. IF r.cont THEN UNCHANGED <<query, status>> ELSE EndQuery(query, status)
    BY <1>7 DEF ListingAnswered
  <2> HIDE DEF r
  <2> QED BY <1>3, <2>1, <2>2, <2>3 DEF InitiatorOK
<1>8. CASE AuthNegotiate
  <2>1. query.sn + 1 \in Nat
    BY DEF InitiatorOK, QueryTypes
  <2>2. /\ DOMAIN kern' = DOMAIN kern /\ kern'.tsih \in {0, 1}
        /\ kern'.ack \in Nat /\ kern'.skipped \in Nat
    <3>1. \/ kern' = [kern EXCEPT !.ack = query.sn + 1, !.skipped = 0]
          \/ kern' = kern
      BY <1>8, Zenon DEF AuthNegotiate, InitialExpStatSN
    <3>2. ASSUME NEW sn \in Nat, kern' = [kern EXCEPT !.ack = sn, !.skipped = 0]
          PROVE  /\ DOMAIN kern' = DOMAIN kern /\ kern'.tsih = kern.tsih
                 /\ kern'.ack = sn /\ kern'.skipped = 0
      BY <3>2 DEF InitiatorOK
    <3>3. CASE kern' = [kern EXCEPT !.ack = query.sn + 1, !.skipped = 0]
      BY <2>1, <3>2, <3>3 DEF InitiatorOK
    <3>4. CASE kern' = kern
      BY <3>4 DEF InitiatorOK
    <3> QED BY <3>1, <3>3, <3>4
  <2>3. Fresh(step', query') \/ (query' = query /\ step' \in {"released", "probed", "listed"})
    BY <1>8, QueriesFresh DEF AuthNegotiate, Next_, Release
  <2> QED BY <1>8, <2>2, <2>3, TurnOK DEF AuthNegotiate
<1>9. CASE AuthInterrogate
  BY <1>9, TurnOK DEF AuthInterrogate, Release, InitiatorOK
<1>10. CASE ChapChallenged
  BY <1>10, TurnOK, QueriesFresh DEF ChapChallenged, Next_, Release, InitiatorOK
<1>11. CASE AuthNegotiateCHAP
  BY <1>11, TurnOK, QueriesFresh DEF AuthNegotiateCHAP, Negotiate, Next_, Release, InitiatorOK
<1>12. CASE WithoutAuthentication
  BY <1>12, TurnOK, QueriesFresh DEF WithoutAuthentication, Negotiate, Next_, Release,
     InitiatorOK
<1>13. CASE NegotiateSession
  <2>1. query.tsih \in {0, 1}
    BY DEF InitiatorOK, QueryTypes
  <2>2. /\ DOMAIN kern' = DOMAIN kern /\ kern'.tsih \in {0, 1}
        /\ kern'.ack \in Nat /\ kern'.skipped \in Nat
    BY <1>13, <2>1 DEF NegotiateSession, InitiatorOK
  <2>3. Fresh(step', query') \/ (query' = query /\ step' \in {"released", "probed", "listed"})
    BY <1>13, <2>1, QueriesFresh DEF NegotiateSession, Next_, Release
  <2> QED BY <1>13, <2>2, <2>3, TurnOK DEF NegotiateSession
<1>14. CASE QueryPortalForTargets
  BY <1>14, TurnOK DEF QueryPortalForTargets, InitiatorOK
<1> QED BY <1>1, <1>2, <1>4, <1>5, <1>6, <1>7, <1>8, <1>9, <1>10, <1>11, <1>12, <1>13,
           <1>14 DEF Initiator

-----------------------------------------------------------------------------
(***************************************************************************)
(* The answer to our challenge, and the parameters, are asked for once: as *)
(* long as such a request is on its way, or has not been sent, nothing     *)
(* that its answer brings is anywhere.                                     *)
(***************************************************************************)
PastResponse ==
    \/ step \in {"negotiate", "text", "full", "listed", "released"}
    \/ step = "response" /\ (query.tries > 0 \/ query.at # "send")
PastParameters ==
    \/ step \in {"text", "full", "listed", "released"}
    \/ step = "negotiate" /\ (query.tries > 0 \/ query.at # "send")

NoResponse(d) == "Response" \notin DOMAIN d
NoParameters(d) == DOMAIN d \cap Keys = {}

BeforeRespond ==
    NoResponse(rsp) /\ \A i \in 1 .. Len(in) : NoResponse(in[i].keys)
BeforeAgree ==
    /\ NoParameters(tgt.heard) /\ ~ tgt.late /\ NoParameters(rsp)
    /\ \A i \in 1 .. Len(in) :
        NoParameters(in[i].keys) /\ ~ (in[i].op = "login" /\ in[i].cont)

OnItsWay(a) == \E i \in 1 .. Len(out) : out[i].ask = a
Once(a) == \A i, j \in 1 .. Len(out) : out[i].ask = a /\ out[j].ask = a => i = j

AskedOnce ==
    /\ Once("response") /\ Once("parameters")
    /\ OnItsWay("response") => PastResponse /\ BeforeRespond
    /\ OnItsWay("parameters") => PastParameters /\ BeforeAgree
    /\ ~ PastResponse => BeforeRespond
    /\ ~ PastParameters => BeforeAgree

\* Nothing was asked at the start.
LEMMA AskedOnceInit == LoginInit => AskedOnce
BY EmptyIs DEF LoginInit, AskedOnce, Once, OnItsWay, BeforeRespond, BeforeAgree,
   NoResponse, NoParameters, Empty

\* A step that sends nothing new and brings nothing new.
LEMMA OnceKept ==
  ASSUME AskedOnce, UNCHANGED out,
         PastResponse => PastResponse', PastParameters => PastParameters',
         BeforeRespond => BeforeRespond', BeforeAgree => BeforeAgree'
  PROVE  AskedOnce'
BY DEF AskedOnce, OnItsWay, Once

\* A query whose request was answered or failed has been sent.
LEMMA EndedPast ==
  ASSUME InitiatorOK, step' = step, NEW q \in QueryTypes, q.tries = query.tries, NEW st,
         EndQuery(q, st)
  PROVE  query'.at = "done" \/ query'.tries > 0
<1>1. Ended(q, st) /\ q.tries \in Nat
  BY Ending, LoginAssumption DEF QueryTypes
<1>2. query' = Done(q) => query'.at = "done"
  BY DEF QueryTypes, Done
<1>3. query' = AskAgain(q) => query'.tries = q.tries + 1
  BY DEF QueryTypes, AskAgain
<1>4. query' = Done(q) \/ query' = AskAgain(q)
  BY <1>1 DEF Ended
<1> QED BY <1>1, <1>2, <1>3, <1>4

\* What the initiator reads was in the queue.
LEMMA ReadBefore ==
  ASSUME LinesOK, NEW r, Read(r), UNCHANGED tgt,
         rsp' = rsp \/ rsp' = AddValues(rsp, r.keys) \/ rsp' = Empty
  PROVE  (BeforeRespond => BeforeRespond') /\ (BeforeAgree => BeforeAgree')
<1>1. \A i \in 1 .. Len(in') : \E j \in 1 .. Len(in) : in'[i] = in[j]
  BY DEF Read, Popped
<1>2. 1 \in 1 .. Len(in) /\ r = in[1]
  BY LenIs DEF Read, LinesOK
<1>3. DOMAIN rsp' \subseteq DOMAIN rsp \cup DOMAIN r.keys
  BY DEF AddValues, Empty
<1> QED BY <1>1, <1>2, <1>3 DEF BeforeRespond, BeforeAgree, NoResponse, NoParameters

\* The initiator asks once: an answer or an error ends what would ask again.
LEMMA OnceInitiator ==
  ASSUME Shapes, AskedOnce, Initiator
  PROVE  AskedOnce'
<1> USE DEF Shapes
<1>0. query \in QueryTypes /\ query.tries \in 0 .. MaxRetries
  BY DEF InitiatorOK, QueryTypes
<1>1. CASE Send
  <2>1. ASSUME UNCHANGED out PROVE AskedOnce'
    <3>1. EndQuery([query EXCEPT !.error = TRUE], status)
      BY <1>1, <2>1, AppendIs DEF Send, Appended, LinesOK
    <3>2. query'.at = "done" \/ query'.tries > 0
      BY <1>1, <1>0, <3>1, EndedPast DEF Send, QueryTypes
    <3>3. UNCHANGED <<step, rsp, in, tgt>>
      BY <1>1 DEF Send
    <3> QED BY <2>1, <3>2, <3>3, OnceKept DEF PastResponse, PastParameters, BeforeRespond,
               BeforeAgree
  <2>2. ASSUME out' = Append(out, Request),
               query' = [query EXCEPT !.at = "receive", !.error = FALSE]
        PROVE  AskedOnce'
    <3>1. Appended(out, out', Request)
      BY <2>2, AppendIs DEF LinesOK
    <3>2. UNCHANGED <<step, rsp, in, tgt>> /\ query.at = "send" /\ Querying
      BY <1>1 DEF Send
    <3>3. query'.at = "receive" /\ query'.tries = query.tries
      BY <1>0, <2>2 DEF QueryTypes
    <3>4. /\ Request.ask = "response" => ~ PastResponse
          /\ Request.ask = "parameters" => ~ PastParameters
      BY <1>0, <3>2 DEF Request, PastResponse, PastParameters, InitiatorOK, Fits, Querying,
         LoggingIn
    <3>5. /\ PastResponse => PastResponse'
          /\ PastParameters => PastParameters'
          /\ Request.ask = "response" => PastResponse'
          /\ Request.ask = "parameters" => PastParameters'
      BY <1>0, <3>2, <3>3 DEF Request, PastResponse, PastParameters, InitiatorOK, Fits,
         Querying, LoggingIn
    <3>6. BeforeRespond' = BeforeRespond /\ BeforeAgree' = BeforeAgree
      BY <3>2 DEF BeforeRespond, BeforeAgree
    <3>7. \A i \in 1 .. Len(out') : \/ i = Len(out') /\ out'[i] = Request
                                    \/ i \in 1 .. Len(out) /\ out'[i] = out[i]
      BY <3>1, AppendedAt
    <3> HIDE DEF Request
    <3>8. (Once("response") /\ Once("parameters"))'
      BY <3>4, <3>7 DEF AskedOnce, Once, OnItsWay
    <3>9. /\ OnItsWay("response")' => PastResponse' /\ BeforeRespond
          /\ OnItsWay("parameters")' => PastParameters' /\ BeforeAgree
      BY <3>4, <3>5, <3>7 DEF AskedOnce, OnItsWay
    <3> QED BY <3>5, <3>6, <3>8, <3>9 DEF AskedOnce
  <2> QED BY <1>1, <2>1, <2>2 DEF Send
<1>2. CASE RecvFails
  <2>1. query'.at = "done" \/ query'.tries > 0
    BY <1>2, <1>0, EndedPast DEF RecvFails, QueryTypes
  <2>2. UNCHANGED <<step, rsp, in, out, tgt>>
    BY <1>2 DEF RecvFails
  <2> QED BY <2>1, <2>2, OnceKept DEF PastResponse, PastParameters, BeforeRespond,
             BeforeAgree
<1>3. ASSUME NEW r, Read(r), UNCHANGED <<step, out, tgt>>,
             rsp' = rsp \/ rsp' = AddValues(rsp, r.keys),
             NEW q \in QueryTypes, q.tries = query.tries, q.at # "send", NEW st,
             EndQuery(q, st) \/ query' = q
      PROVE  AskedOnce'
  <2>1. (PastResponse => PastResponse') /\ (PastParameters => PastParameters')
    <3>1. CASE EndQuery(q, st)
      BY <1>3, <3>1, EndedPast DEF PastResponse, PastParameters
    <3>2. CASE query' = q
      BY <1>3, <3>2 DEF PastResponse, PastParameters
    <3> QED BY <1>3, <3>1, <3>2
  <2>2. (BeforeRespond => BeforeRespond') /\ (BeforeAgree => BeforeAgree')
    BY <1>3, ReadBefore
  <2> QED BY <1>3, <2>1, <2>2, OnceKept
<1>4. CASE Rejected
  <2>1. PICK r : Read(r)
    BY <1>4, Reading DEF Rejected
  <2> DEFINE q == [query EXCEPT !.error = TRUE]
  <2>2. q \in QueryTypes /\ q.tries = query.tries /\ q.at # "send"
    BY <2>1, <1>0 DEF Read, QueryTypes
  <2>3. EndQuery(q, status) /\ UNCHANGED <<step, rsp, out, tgt>>
    BY <1>4 DEF Rejected
  <2> HIDE DEF q
  <2> QED BY <1>3, <2>1, <2>2, <2>3
<1>5. CASE Failed
  <2>1. PICK r : Read(r)
    BY <1>5, Reading DEF Failed
  <2>2. query.at # "send"
    BY <2>1 DEF Read
  <2>3. EndQuery(query, "failure") /\ UNCHANGED <<step, rsp, out, tgt>>
    BY <1>5 DEF Failed
  <2> QED BY <1>0, <1>3, <2>1, <2>2, <2>3
<1>6. CASE Answered
  <2> DEFINE r == Head(in)
             q == [query EXCEPT !.transit = r.transit, !.sn = r.sn,
                              !.tsih = IF @ = 0 /\ query.next = "full" THEN r.tsih
                                       ELSE @]
  <2>1. Read(r) /\ UNCHANGED <<step, out, tgt>>
    BY <1>6, Reading DEF Answered
  <2>2. AnswerOK(r)
    BY <2>1 DEF Read, LinesOK
  <2>3. EndQuery(q, "success") \/ query' = q
    BY <1>6 DEF Answered
  <2>4. rsp' = rsp \/ rsp' = AddValues(rsp, r.keys)
    BY <1>6 DEF Answered
  <2>5. query.at = "receive"
    BY <2>1 DEF Read
  <2> HIDE DEF r
  <2>6. q \in QueryTypes /\ q.tries = query.tries /\ q.at # "send"
    BY <1>0, <2>2, <2>5 DEF QueryTypes, AnswerOK
  <2> HIDE DEF q
  <2> QED BY <1>3, <2>1, <2>3, <2>4, <2>6
<1>7. CASE ListingAnswered
  <2>1. PICK r : Read(r)
    BY <1>7, Reading DEF ListingAnswered
  <2>2. query.at # "send"
    BY <2>1 DEF Read
  <2>3. (EndQuery(query, status) \/ query' = query) /\ UNCHANGED <<step, rsp, out, tgt>>
    BY <1>7 DEF ListingAnswered
  <2> QED BY <1>0, <1>3, <2>1, <2>2, <2>3
<1>8. ASSUME UNCHANGED <<out, in, tgt>>, rsp' = rsp \/ rsp' = Empty,
             step \in Steps \ {"text", "full", "listed", "released"} => step' # step,
             step = "response" => PastResponse',
             step \in {"negotiate", "text"} => step' \in {"text", "full", "listed", "released"},
             step \notin {"full", "listed", "released"}
      PROVE  AskedOnce'
  <2>1. (PastResponse => PastResponse') /\ (PastParameters => PastParameters')
    BY <1>8 DEF PastResponse, PastParameters
  <2>2. (BeforeRespond => BeforeRespond') /\ (BeforeAgree => BeforeAgree')
    BY <1>8 DEF BeforeRespond, BeforeAgree, NoResponse, NoParameters, Empty
  <2> QED BY <1>8, <2>1, <2>2, OnceKept
<1>9. CASE AuthNegotiate
  BY <1>9, <1>8 DEF AuthNegotiate, QueryEnded, Next_, Release
<1>10. CASE AuthInterrogate
  BY <1>10, <1>8 DEF AuthInterrogate, QueryEnded, Release
<1>11. CASE ChapChallenged
  BY <1>11, <1>8 DEF ChapChallenged, QueryEnded, Next_, Release
<1>12. CASE AuthNegotiateCHAP
  BY <1>12, <1>8 DEF AuthNegotiateCHAP, QueryEnded, Negotiate, Next_, Release, PastResponse
<1>13. CASE WithoutAuthentication
  BY <1>13, <1>8 DEF WithoutAuthentication, QueryEnded, Negotiate, Next_, Release
<1>14. CASE NegotiateSession
  BY <1>14, <1>8 DEF NegotiateSession, QueryEnded, Next_, Release
<1>15. CASE QueryPortalForTargets
  BY <1>15, <1>8 DEF QueryPortalForTargets, QueryEnded
<1> QED BY <1>1, <1>2, <1>4, <1>5, <1>6, <1>7, <1>9, <1>10, <1>11, <1>12, <1>13, <1>14,
           <1>15 DEF Initiator

\* An answer takes its request off the line.
LEMMA OnceTarget ==
  ASSUME Shapes, AskedOnce, Target
  PROVE  AskedOnce'
<1> USE DEF Shapes
<1>0. UNCHANGED initiator
  BY TargetSteps DEF Refuses, Serves, Meets, Replied, Continued, Leave
<1>1. PastResponse' = PastResponse /\ PastParameters' = PastParameters /\ rsp' = rsp
  BY <1>0 DEF initiator, PastResponse, PastParameters
<1>2. ASSUME NEW r, Replied(r),
             out[1].ask # "response" /\ BeforeRespond => BeforeRespond',
             out[1].ask # "parameters" /\ BeforeAgree => BeforeAgree'
      PROVE  AskedOnce'
  <2>1. /\ \A i \in 1 .. Len(out') : i + 1 \in 1 .. Len(out) /\ out'[i] = out[i + 1]
        /\ 1 \in 1 .. Len(out)
    BY <1>2 DEF Replied, Popped
  <2>2. \A a \in {"response", "parameters"} :
            /\ Once(a)'
            /\ OnItsWay(a)' => OnItsWay(a) /\ out[1].ask # a
    <3> SUFFICES ASSUME NEW a \in {"response", "parameters"}
                 PROVE  Once(a)' /\ (OnItsWay(a)' => OnItsWay(a) /\ out[1].ask # a)
      OBVIOUS
    <3>1. \A i, j \in 1 .. Len(out) : out[i].ask = a /\ out[j].ask = a => i = j
      BY DEF AskedOnce, Once
    <3>2. \A i \in 1 .. Len(out') : i \in Nat /\ i + 1 # 1
      OBVIOUS
    <3>3. Once(a)'
      BY <2>1, <3>1 DEF Once
    <3> QED BY <2>1, <3>1, <3>2, <3>3 DEF OnItsWay
  <2>3. \A a \in {"response", "parameters"} : out[1].ask = a => OnItsWay(a)
    BY <2>1 DEF OnItsWay
  <2> QED BY <1>1, <1>2, <2>2, <2>3 DEF AskedOnce
<1>3. ASSUME NEW r, Replied(r) PROVE \A i \in 1 .. Len(in') : in'[i] = r \/ \E j \in 1 .. Len(in) : in'[i] = in[j]
  BY <1>3 DEF Replied, Appended
<1>4. ASSUME NEW r, Refuses(r) PROVE AskedOnce'
  <2>1. Replied(r) /\ DOMAIN r.keys = {} /\ ~ r.cont
    BY <1>4 DEF Refuses, Replied, AnswerOK
  <2>2. tgt'.heard = tgt.heard /\ tgt'.late = tgt.late
    BY <1>4 DEF Refuses, TargetOK
  <2> QED BY <1>1, <1>2, <1>3, <2>1, <2>2 DEF BeforeRespond, BeforeAgree, NoResponse,
             NoParameters
<1>5. ASSUME NEW r, Serves(r) PROVE AskedOnce'
  <2>1. Replied(r)
    BY <1>5 DEF Serves, Meets
  <2>2. ASSUME out[1].ask # "response", BeforeRespond PROVE BeforeRespond'
    BY <1>1, <1>3, <1>5, <2>1, <2>2 DEF Serves, BeforeRespond, NoResponse
  <2>3. ASSUME out[1].ask # "parameters", BeforeAgree PROVE BeforeAgree'
    <3>1. /\ tgt'.heard = tgt.heard /\ tgt'.late = tgt.late /\ NoParameters(r.keys)
          /\ r.op = "login" => ~ r.cont
      BY <1>5, <2>3 DEF Serves, BeforeAgree, NoParameters
    <3> QED BY <1>1, <1>3, <2>1, <2>3, <3>1 DEF BeforeAgree
  <2> QED BY <1>2, <2>1, <2>2, <2>3
<1>6. ASSUME NEW r, Continued(r) PROVE AskedOnce'
  <2>1. Appended(in, in', r) /\ in[1].cont /\ AnswerOK(in[1]) /\ r.op = in[1].op /\ UNCHANGED out
    BY <1>6 DEF Continued, LinesOK
  <2>2. \A i \in 1 .. Len(in') : in'[i] = r \/ \E j \in 1 .. Len(in) : in'[i] = in[j]
    BY <2>1 DEF Appended
  <2>3. BeforeRespond => BeforeRespond'
    <3>1. NoResponse(r.keys)
      BY <1>6, KeysApart DEF Continued, NoResponse, Empty
    <3> QED BY <1>1, <2>2, <3>1 DEF BeforeRespond
  <2>4. ASSUME BeforeAgree PROVE BeforeAgree'
    <3>1. r.op = "text"
      BY <1>6, <2>1, <2>4 DEF Continued, BeforeAgree, AnswerOK
    <3>2. NoParameters(r.keys) /\ ~ r.cont
      BY <1>6, <3>1 DEF Continued, NoParameters, Empty
    <3>3. tgt'.heard = tgt.heard /\ tgt'.late = tgt.late
      BY <1>6 DEF Continued, TargetOK
    <3> QED BY <1>1, <2>2, <2>4, <3>2, <3>3 DEF BeforeAgree
  <2> QED BY <1>1, <2>1, <2>3, <2>4, OnceKept
<1>7. ASSUME Leave PROVE AskedOnce'
  <2>1. Len(out') = 0 /\ UNCHANGED in /\ tgt'.heard = tgt.heard /\ tgt'.late = tgt.late
    BY <1>7, EmptyIs DEF Leave, TargetOK
  <2> QED BY <1>1, <2>1 DEF AskedOnce, Once, OnItsWay, BeforeRespond, BeforeAgree
<1> QED BY <1>4, <1>5, <1>6, <1>7, TargetSteps

-----------------------------------------------------------------------------
(***************************************************************************)
(* What the initiator does, in the same terms: it sends, misses an answer, *)
(* reads one, or goes on with the login.                                   *)
(***************************************************************************)
Sends ==
    /\ Querying /\ query.at = "send" /\ Appended(out, out', Request)
    /\ query' = [query EXCEPT !.at = "receive", !.error = FALSE]
    /\ UNCHANGED <<cfg, step, status, rsp, kern, recs, name, in, tgt>>

Misses ==
    /\ Querying /\ Ended([query EXCEPT !.error = TRUE], status)
    /\ \/ query.at = "send" /\ ~ tgt.open
       \/ query.at = "receive" /\ Len(in) = 0
    /\ UNCHANGED <<cfg, step, rsp, kern, recs, name, out, in, tgt>>

Unserved(r) ==
    /\ Read(r) /\ ~ r.ok
    /\ \/ r.op = "reject" /\ Ended([query EXCEPT !.error = TRUE], status)
       \/ r.op = "login" /\ step # "text" /\ Ended(query, "failure")
    /\ UNCHANGED <<cfg, step, rsp, recs, name, out, tgt>>

Noted(r) ==
    [query EXCEPT !.transit = r.transit, !.sn = r.sn,
                  !.tsih = IF @ = 0 /\ query.next = "full" THEN r.tsih ELSE @]

Takes(r) ==
    /\ Read(r) /\ r.ok /\ r.op = "login" /\ step \in LoggingIn
    /\ rsp' = IF query.tries = 0 /\ query.ask # "blank" THEN AddValues(rsp, r.keys)
              ELSE rsp
    /\ IF r.cont THEN query' = Noted(r) /\ status' = "success"
       ELSE Ended(Noted(r), "success")
    /\ UNCHANGED <<cfg, step, recs, name, out, tgt>>

Lists(r) ==
    /\ Read(r) /\ r.op = "text" /\ step = "text"
    /\ LET p == Parsed([recs |-> recs, name |-> name], r.list)
       IN  recs' = p.recs /\ name' = p.name
    /\ IF r.cont THEN UNCHANGED <<query, status>> ELSE Ended(query, status)
    /\ UNCHANGED <<cfg, step, rsp, out, tgt>>

Turns ==
    \/ AuthNegotiate \/ AuthInterrogate \/ ChapChallenged \/ AuthNegotiateCHAP
    \/ WithoutAuthentication \/ NegotiateSession \/ QueryPortalForTargets

\* A step of the initiator sends, misses an answer, turns to a query or reads.
LEMMA InitiatorSteps ==
  ASSUME Shapes, Initiator
  PROVE  \/ Sends \/ Misses \/ Turns
         \/ \E r : Unserved(r) \/ Takes(r) \/ Lists(r)
<1>0. LinesOK /\ query \in QueryTypes /\ query.tries \in 0 .. MaxRetries
  BY DEF Shapes, InitiatorOK, QueryTypes
<1> DEFINE wrong == [query EXCEPT !.error = TRUE]
<1>1. wrong.tries \in 0 .. MaxRetries
  BY <1>0 DEF QueryTypes
<1>2. CASE Send
  <2>1. EndQuery(wrong, status) => Ended(wrong, status)
    BY <1>1, Ending
  <2>2. out' = Append(out, Request) => Appended(out, out', Request)
    BY <1>0, AppendIs DEF LinesOK
  <2> QED BY <1>2, <2>1, <2>2 DEF Send, Sends, Misses
<1>3. CASE RecvFails
  BY <1>0, <1>1, <1>3, Ending, LenIs DEF RecvFails, Misses, LinesOK
<1>4. CASE Rejected
  <2>1. PICK r : Receive(r) /\ r.op = "reject"
    BY <1>4 DEF Rejected
  <2>2. Read(r) /\ AnswerOK(r)
    BY <1>0, <2>1, Reading DEF Read, LinesOK
  <2>3. Ended(wrong, status) /\ UNCHANGED <<cfg, step, rsp, recs, name, out, tgt>>
    BY <1>1, <1>4, Ending DEF Rejected
  <2> QED BY <2>1, <2>2, <2>3 DEF Unserved, AnswerOK
<1>5. CASE Failed
  <2>1. PICK r : Receive(r) /\ r.op = "login" /\ ~ r.ok
    BY <1>5 DEF Failed
  <2>2. Read(r)
    BY <1>0, <2>1, Reading
  <2>3. Ended(query, "failure") /\ UNCHANGED <<cfg, step, rsp, recs, name, out, tgt>>
        /\ step # "text"
    BY <1>0, <1>5, Ending DEF Failed
  <2> QED BY <2>1, <2>2, <2>3 DEF Unserved
<1>6. CASE Answered
  <2> DEFINE r == Head(in)
  <2>1. Read(r) /\ AnswerOK(r)
    <3>1. Read(r)
      BY <1>0, <1>6, Reading DEF Answered
    <3> QED BY <1>0, <3>1 DEF Read, LinesOK
  <2>2. Noted(r).tries \in 0 .. MaxRetries
    BY <1>0 DEF Noted, QueryTypes
  <2>3. /\ r.ok /\ r.op = "login" /\ step \in LoggingIn
        /\ rsp' = (IF query.tries = 0 /\ query.ask # "blank" THEN AddValues(rsp, r.keys)
                   ELSE rsp)
        /\ IF r.cont THEN query' = Noted(r) /\ status' = "success"
           ELSE EndQuery(Noted(r), "success")
        /\ UNCHANGED <<cfg, step, recs, name, out, tgt>>
    BY <1>6, <2>1 DEF Answered, Noted, Read, Querying
  <2> HIDE DEF r
  <2>4. ~ r.cont => Ended(Noted(r), "success")
    BY <2>2, <2>3, Ending
  <2>5. Takes(r)
    BY <2>1, <2>3, <2>4 DEF Takes
  <2> QED BY <2>5
<1>7. CASE ListingAnswered
  <2> DEFINE r == Head(in)
  <2>1. Read(r)
    BY <1>0, <1>7, Reading DEF ListingAnswered
  <2>2. /\ r.op = "text" /\ step = "text"
        /\ LET p == Parsed([recs |-> recs, name |-> name], r.list)
           IN  recs' = p.recs /\ name' = p.name
        /\ IF r.cont THEN UNCHANGED <<query, status>> ELSE EndQuery(query, status)
        /\ UNCHANGED <<cfg, step, rsp, out, tgt>>
    BY <1>7 DEF ListingAnswered
  <2> HIDE DEF r
  <2>3. ~ r.cont => Ended(query, status)
    BY <1>0, <2>2, Ending
  <2>4. Lists(r)
    BY <2>1, <2>2, <2>3 DEF Lists
  <2> QED BY <2>4
<1> QED BY <1>2, <1>3, <1>4, <1>5, <1>6, <1>7 DEF Initiator, Turns

\* A query that ends changes only where it is, and how often it was tried.
LEMMA EndedIs ==
  ASSUME NEW q \in QueryTypes, NEW st, Ended(q, st)
  PROVE  /\ query'.ask = q.ask /\ query'.cur = q.cur /\ query'.next = q.next
         /\ query'.tsih = q.tsih /\ query'.sn = q.sn /\ query'.transit = q.transit
         /\ query'.error = q.error
         /\ \/ query'.at = "done" /\ query'.tries = q.tries
            \/ /\ query'.at = "send" /\ query'.tries = q.tries + 1 /\ status' = st
               /\ ~ q.transit /\ step # "text" /\ q.tries < MaxRetries
               /\ q.tries = 0 => ~ q.error /\ st = "success" /\ q.cur # q.next
<1>1. ASSUME query' = Done(q)
      PROVE  /\ query'.ask = q.ask /\ query'.cur = q.cur /\ query'.next = q.next
             /\ query'.tsih = q.tsih /\ query'.sn = q.sn /\ query'.transit = q.transit
             /\ query'.error = q.error /\ query'.at = "done" /\ query'.tries = q.tries
  BY <1>1 DEF Done, QueryTypes
<1>2. ASSUME query' = AskAgain(q)
      PROVE  /\ query'.ask = q.ask /\ query'.cur = q.cur /\ query'.next = q.next
             /\ query'.tsih = q.tsih /\ query'.sn = q.sn /\ query'.transit = q.transit
             /\ query'.error = q.error /\ query'.at = "send" /\ query'.tries = q.tries + 1
  BY <1>2 DEF AskAgain, QueryTypes
<1> QED BY <1>1, <1>2 DEF Ended

-----------------------------------------------------------------------------
(***************************************************************************)
(* Answers are numbered in the order they come, and the kernel counts      *)
(* those that were read.  A refusal is the last answer; one that names no  *)
(* task is not counted, but nothing follows it.                            *)
(***************************************************************************)
\* What the target has sent, and the initiator read, beyond what is acknowledged,
\* and is not left out for its number.
Lag == tgt.sn - Len(in) - kern.ack - kern.skipped

Numbered ==
    /\ step # "full" => \A i \in 1 .. Len(in) : in[i].sn = tgt.sn - Len(in) + i - 1
    /\ \A i \in 1 .. Len(in) : ~ in[i].ok => i = Len(in)
    /\ Lag >= 0
    /\ step = "auth" /\ query.at = "done" /\ Success => query.sn + 1 = tgt.sn - Len(in)
    /\ step \in LoggingIn \ {"auth"} =>
        Lag = 0 \/ (~ tgt.open /\ Len(in) = 0 /\ ~ query.transit)

\* The numbers at the start.
LEMMA NumberedInit == LoginInit => Numbered
BY EmptyIs, LoginAssumption DEF LoginInit, Numbered, Lag, Login, Query

\* The target numbers its answers in order.
LEMMA NumberedTarget ==
  ASSUME Shapes, Numbered, Target
  PROVE  Numbered' /\ Lag' = Lag
<1> USE DEF Shapes
<1>0. UNCHANGED initiator /\ tgt.sn \in Nat /\ kern.ack \in Nat /\ kern.skipped \in Nat
  BY TargetSteps DEF Refuses, Serves, Meets, Replied, Continued, Leave, TargetOK, InitiatorOK
<1>1. ASSUME NEW r, Appended(in, in', r), r.sn = tgt.sn, tgt'.sn = tgt.sn + 1, tgt.open,
             Numbered
      PROVE  Numbered' /\ Lag' = Lag
  <2>1. Len(in) \in Nat /\ Len(in') = Len(in) + 1
    BY <1>1 DEF Appended
  <2>2. tgt'.sn - Len(in') = tgt.sn - Len(in)
    BY <1>0, <1>1, <2>1
  <2>3. \A i \in 1 .. Len(in) : in[i].ok
    BY <1>1 DEF TargetOK, LinesOK, AnswerOK
  <2>4. \A i \in 1 .. Len(in') :
            /\ step # "full" => in'[i].sn = tgt'.sn - Len(in') + i - 1
            /\ ~ in'[i].ok => i = Len(in')
    <3> SUFFICES ASSUME NEW i \in 1 .. Len(in')
                 PROVE  /\ step # "full" => in'[i].sn = tgt'.sn - Len(in') + i - 1
                        /\ ~ in'[i].ok => i = Len(in')
      OBVIOUS
    <3>1. CASE i = Len(in')
      <4>1. in'[i] = r
        BY <1>1, <3>1 DEF Appended
      <4>2. r.sn = tgt'.sn - Len(in') + i - 1
        BY <1>0, <1>1, <2>1, <3>1
      <4> QED BY <3>1, <4>1, <4>2
    <3>2. CASE i \in 1 .. Len(in)
      BY <1>0, <1>1, <2>1, <2>2, <2>3, <3>2 DEF Appended, Numbered
    <3> QED BY <2>1, <3>1, <3>2
  <2>5. Lag' = Lag
    BY <1>0, <2>2 DEF Lag, initiator
  <2>6. step \in LoggingIn \ {"auth"} => Lag = 0
    BY <1>1 DEF Numbered
  <2>7. UNCHANGED <<step, query, status>> /\ Success' = Success
    BY <1>0 DEF initiator, Success
  <2> QED BY <2>2, <2>4, <2>5, <2>6, <2>7 DEF Numbered
<1>2. ASSUME NEW r, Replied(r) PROVE Numbered' /\ Lag' = Lag
  BY <1>1, <1>2 DEF Replied
<1>3. ASSUME NEW r, Continued(r) PROVE Numbered' /\ Lag' = Lag
  BY <1>1, <1>3 DEF Continued
<1>4. ASSUME Leave PROVE Numbered' /\ Lag' = Lag
  <2>1. tgt'.sn = tgt.sn /\ ~ tgt'.open /\ UNCHANGED <<in, step, query, status, kern>>
    BY <1>4 DEF Leave, TargetOK, initiator
  <2>2. Success' = Success
    BY <2>1 DEF Success
  <2> QED BY <2>1, <2>2 DEF Numbered, Lag
<1> QED BY <1>2, <1>3, <1>4, TargetSteps DEF Refuses, Serves, Meets

\* In full feature phase the initiator's thread has nothing more to do.
LEMMA InitiatorAtWork == Initiator => step # "full"
BY DEF Initiator, Send, RecvFails, Rejected, Failed, Answered, AuthNegotiate, AuthInterrogate,
   ChapChallenged, AuthNegotiateCHAP, WithoutAuthentication, NegotiateSession,
   ListingAnswered, QueryPortalForTargets, Receive, QueryEnded, Querying, LoggingIn

\* The initiator takes the numbers of the answers in order.
LEMMA NumberedInitiator ==
  ASSUME Shapes, Numbered, Initiator
  PROVE  Numbered' /\ (step' = "full" => Lag' = 0)
<1> USE DEF Shapes
<1>0. /\ query \in QueryTypes /\ tgt.sn \in Nat /\ Len(in) \in Nat
      /\ kern.ack \in Nat /\ kern.skipped \in Nat /\ step # "full"
  BY LenIs, InitiatorAtWork DEF InitiatorOK, TargetOK, LinesOK
<1> DEFINE wrong == [query EXCEPT !.error = TRUE]
<1>1. wrong \in QueryTypes /\ wrong.error /\ wrong.transit = query.transit
  BY <1>0 DEF QueryTypes
<1>2. ASSUME Sends PROVE Numbered' /\ step' # "full"
  <2>1. UNCHANGED <<in, tgt, kern, step>> /\ query'.at = "receive" /\ query'.transit = query.transit
        /\ Querying
    BY <1>0, <1>2 DEF Sends, QueryTypes
  <2> QED BY <1>0, <2>1 DEF Numbered, Lag
<1>3. ASSUME Misses PROVE Numbered' /\ step' # "full"
  <2>1. UNCHANGED <<in, tgt, kern, step>> /\ Querying /\ Ended(wrong, status)
    BY <1>3 DEF Misses
  <2>2. query'.error /\ query'.transit = query.transit
    BY <1>1, <2>1, EndedIs
  <2> QED BY <1>0, <2>1, <2>2 DEF Numbered, Lag, Success
<1>4. ASSUME NEW r, Read(r), UNCHANGED <<step, tgt>>, ~ r.ok \/ r.op # "reject",
             r.op = "reject" => ~ query'.transit,
             step = "auth" /\ query'.at = "done" /\ Success' => query'.sn = r.sn
      PROVE  Numbered' /\ step' # "full"
  <2>1. Len(in') \in Nat /\ Len(in) = Len(in') + 1 /\ r = in[1] /\ Querying
        /\ \A i \in 1 .. Len(in') : in'[i] = in[i + 1] /\ i + 1 \in 1 .. Len(in)
    BY <1>4 DEF Read, Popped
  <2>2. /\ r.sn = tgt.sn - Len(in)
        /\ \A i \in 1 .. Len(in') : in[i + 1].sn = tgt.sn - Len(in) + (i + 1) - 1
        /\ \A i \in 1 .. Len(in') : ~ in[i + 1].ok => i = Len(in')
        /\ ~ r.ok => Len(in') = 0
    <3>1. 1 \in 1 .. Len(in)
      BY <2>1
    <3>2. r.sn = tgt.sn - Len(in) + 1 - 1 /\ (~ r.ok => 1 = Len(in))
      BY <1>0, <2>1, <3>1 DEF Numbered
    <3>3. \A i \in 1 .. Len(in') :
            in[i + 1].sn = tgt.sn - Len(in) + (i + 1) - 1 /\ (~ in[i + 1].ok => i + 1 = Len(in))
      BY <1>0, <2>1 DEF Numbered
    <3> QED BY <1>0, <2>1, <3>2, <3>3
  <2>0. /\ tgt'.sn = tgt.sn /\ Lag' = tgt.sn - Len(in') - kern'.ack - kern'.skipped
        /\ Lag = tgt.sn - Len(in) - kern.ack - kern.skipped
    BY <1>4 DEF Lag
  <2>00. r.sn + 1 = tgt'.sn - Len(in')
    <3>1. tgt.sn \in Int /\ Len(in') \in Int /\ r.sn = tgt.sn - (Len(in') + 1)
      BY <1>0, <2>1, <2>2
    <3> QED BY <2>0, <3>1
  <2>3. \A i \in 1 .. Len(in') :
            in'[i].sn = tgt'.sn - Len(in') + i - 1 /\ (~ in'[i].ok => i = Len(in'))
    BY <1>0, <1>4, <2>1, <2>2, SMTT(30)
  <2>6. PICK s \in Nat, l \in Nat, a \in Nat, k \in Nat :
          tgt.sn = s /\ Len(in') = l /\ kern.ack = a /\ kern.skipped = k
    BY <1>0, <2>1
  <2>4. CASE r.op = "reject"
    <3>1. kern' = kern /\ ~ tgt'.open /\ Len(in') = 0
      BY <1>4, <2>1, <2>2, <2>4 DEF Read, Counted, TargetOK
    <3>2. Lag' = (s - l) - a - k /\ Lag = (s - (l + 1)) - a - k
      BY <2>0, <2>1, <2>6, <3>1
    <3>20. Lag' = Lag + 1 /\ Lag \in Int
      BY <3>2
    <3>3. Lag' >= 0
      BY <3>20 DEF Numbered
    <3>4. step' = "auth" /\ query'.at = "done" /\ Success' => query'.sn + 1 = tgt'.sn - Len(in')
      BY <1>4, <2>00
    <3>5. step' # "full"
      BY <1>0, <1>4, <2>1
    <3> QED BY <1>4, <2>3, <2>4, <3>1, <3>3, <3>4, <3>5 DEF Numbered
  <2>5. CASE r.op # "reject"
    <3>1. \/ kern'.ack = kern.ack + 1 /\ kern'.skipped = kern.skipped
          \/ kern'.ack = kern.ack /\ kern'.skipped = kern.skipped + 1
      BY <1>4, <2>5, AdvancedIs DEF Read, Counted
    <3>2. Lag' = Lag /\ Lag \in Int
      <4>1. Lag = (s - (l + 1)) - a - k
        BY <2>0, <2>1, <2>6
      <4>2. Lag' = (s - l) - (a + 1) - k \/ Lag' = (s - l) - a - (k + 1)
        BY <2>0, <2>6, <3>1
      <4> QED BY <4>1, <4>2
    <3>3. step \in LoggingIn \ {"auth"} => Lag = 0
      BY <2>1 DEF Numbered
    <3>4. step' = "auth" /\ query'.at = "done" /\ Success' => query'.sn + 1 = tgt'.sn - Len(in')
      BY <1>4, <2>00
    <3>5. step' # "full"
      BY <1>0, <1>4, <2>1
    <3> QED BY <1>4, <2>3, <3>2, <3>3, <3>4, <3>5 DEF Numbered
  <2> QED BY <2>4, <2>5
<1>5. ASSUME NEW r, Unserved(r) PROVE Numbered' /\ step' # "full"
  <2>1. Read(r) /\ UNCHANGED <<step, tgt>> /\ ~ r.ok
    BY <1>5 DEF Unserved
  <2>2. query.at = "receive" /\ ~ query.transit
    BY <2>1 DEF Read, InitiatorOK, Told
  <2>3. CASE r.op = "reject" /\ Ended(wrong, status)
    <3>1. query'.error /\ ~ query'.transit
      BY <1>1, <2>2, <2>3, EndedIs
    <3> QED BY <1>4, <2>1, <3>1 DEF Success
  <2>4. CASE r.op = "login" /\ Ended(query, "failure")
    <3>1. status' # "success"
      BY <2>4 DEF Ended
    <3> QED BY <1>4, <2>1, <2>4, <3>1 DEF Success
  <2> QED BY <1>5, <2>3, <2>4 DEF Unserved
<1>6. ASSUME NEW r, Takes(r) PROVE Numbered' /\ step' # "full"
  <2>1. Read(r) /\ UNCHANGED <<step, tgt>> /\ r.op = "login" /\ AnswerOK(r)
    BY <1>6 DEF Takes, Read, LinesOK
  <2>2. Noted(r) \in QueryTypes /\ Noted(r).sn = r.sn
    BY <1>0, <2>1 DEF Noted, QueryTypes, AnswerOK
  <2>3. query'.sn = r.sn
    BY <1>6, <2>2, EndedIs DEF Takes
  <2> QED BY <1>4, <2>1, <2>3
<1>7. ASSUME NEW r, Lists(r) PROVE Numbered' /\ step' # "full"
  BY <1>4, <1>7 DEF Lists
<1>8. CASE AuthNegotiate
  <2>1. UNCHANGED <<in, tgt>>
    BY <1>8 DEF AuthNegotiate
  <2>2. CASE Success
    <3>1. kern'.ack = query.sn + 1 /\ kern'.skipped = 0 /\ query.sn \in Nat
      BY <1>0, <1>8, <2>2 DEF AuthNegotiate, InitialExpStatSN, InitiatorOK, QueryTypes
    <3>2. query.sn + 1 = tgt.sn - Len(in)
      BY <1>8, <2>2 DEF AuthNegotiate, QueryEnded, Numbered
    <3>3. Lag' = 0
      BY <1>0, <2>1, <3>1, <3>2 DEF Lag
    <3>4. step' # "auth" /\ step' # "full"
      BY <1>8, <2>2 DEF AuthNegotiate, Next_, Release
    <3> QED BY <1>0, <2>1, <3>3, <3>4 DEF Numbered
  <2>3. CASE ~ Success
    <3>1. step' = "released" /\ kern' = kern
      BY <1>8, <2>3 DEF AuthNegotiate, Release
    <3> QED BY <1>0, <2>1, <3>1 DEF Numbered, Lag, LoggingIn
  <2> QED BY <2>2, <2>3
<1>9. ASSUME UNCHANGED <<in, tgt>>, kern'.ack = kern.ack, kern'.skipped = kern.skipped,
             \/ step \in LoggingIn \ {"auth"} /\ step' \in LoggingIn \ {"auth"} /\ ~ query'.transit
             \/ step' \in {"text", "listed", "probed", "released"}
      PROVE  Numbered' /\ step' # "full"
  BY <1>0, <1>9 DEF Numbered, Lag, LoggingIn
<1>10. CASE AuthInterrogate
  BY <1>9, <1>10 DEF AuthInterrogate, Release
<1>11. CASE ChapChallenged
  BY <1>9, <1>11, QueriesFresh DEF ChapChallenged, QueryEnded, Next_, Release, LoggingIn, Fresh
<1>12. CASE AuthNegotiateCHAP
  BY <1>9, <1>12, QueriesFresh DEF AuthNegotiateCHAP, QueryEnded, Negotiate, Next_, Release, LoggingIn, Fresh
<1>13. CASE WithoutAuthentication
  BY <1>9, <1>13, QueriesFresh DEF WithoutAuthentication, QueryEnded, Negotiate, Next_, Release, LoggingIn, Fresh
<1>14. CASE NegotiateSession
  <2>1. /\ UNCHANGED <<in, tgt>> /\ kern'.ack = kern.ack /\ kern'.skipped = kern.skipped
        /\ step = "negotiate" /\ query.at = "done"
    BY <1>14 DEF NegotiateSession, InitiatorOK, QueryEnded
  <2>2. CASE step' = "full"
    <3>1. Success
      BY <1>14, <2>2 DEF NegotiateSession, Release
    <3>2. query.transit
      BY <2>1, <3>1 DEF Success, InitiatorOK, Told, Fits, Proper, LoggingIn
    <3>3. Lag = 0
      BY <2>1, <3>2 DEF Numbered, LoggingIn
    <3> QED BY <1>0, <2>1, <2>2, <3>3 DEF Numbered, Lag, LoggingIn
  <2>3. CASE step' # "full"
    BY <1>9, <1>14, <2>1, <2>3 DEF NegotiateSession, Next_, Release
  <2> QED BY <2>2, <2>3
<1>15. CASE QueryPortalForTargets
  BY <1>9, <1>15 DEF QueryPortalForTargets
<1> QED BY <1>2, <1>3, <1>5, <1>6, <1>7, <1>8, <1>10, <1>11, <1>12, <1>13, <1>14, <1>15,
           InitiatorSteps DEF Turns

-----------------------------------------------------------------------------
(***************************************************************************)
(* The target is in full feature phase once the initiator has read that it *)
(* moved there.  ErrorRecoveryLevel, without which no parameters are       *)
(* accepted, tells an answer to the parameters from those of the stage     *)
(* before: from there on the only stage to move to is the last one.        *)
(***************************************************************************)
Carries(d) == "ErrorRecoveryLevel" \in DOMAIN d

Staged ==
    /\ tgt.tsih = IF tgt.stage = "full" THEN 1 ELSE 0
    /\ query.tsih = 1 => tgt.stage = "full"
    /\ \A i \in 1 .. Len(in) :
        /\ in[i].tsih = 1 => tgt.stage = "full"
        /\ Carries(in[i].keys) =>
            /\ tgt.stage # "security"
            /\ \A j \in i .. Len(in) : in[j].transit => in[j].tsih = 1
    /\ step = "negotiate" /\ Carries(rsp) =>
        /\ tgt.stage # "security"
        /\ \A i \in 1 .. Len(in) : in[i].transit => in[i].tsih = 1
        /\ query.transit => query.tsih = 1
    /\ step \in {"text", "full", "listed"} => kern.tsih = 1 /\ tgt.stage = "full"

\* The stages at the start.
LEMMA StagedInit == LoginInit => Staged
BY EmptyIs DEF LoginInit, Staged, Login, Query, Carries, Empty

\* The target tells no more of its stage than is true.
LEMMA StagedTarget ==
  ASSUME Shapes, Staged, Target
  PROVE  Staged'
<1> USE DEF Shapes
<1>0. UNCHANGED initiator
  BY TargetSteps DEF Refuses, Serves, Meets, Replied, Continued, Leave
<1>1. ASSUME tgt.stage = "full" => tgt'.stage = "full",
             tgt.stage # "security" => tgt'.stage # "security",
             tgt'.tsih = IF tgt'.stage = "full" THEN 1 ELSE 0,
             NEW r, Appended(in, in', r),
             r.tsih = 1 => tgt'.stage = "full",
             Carries(r.keys) => tgt'.stage # "security",
             tgt'.stage # "security" =>
                ((tgt.stage # "security" \/ Carries(r.keys)) /\ r.transit => r.tsih = 1)
      PROVE  Staged'
  <2>1. \A i \in 1 .. Len(in') : \/ i = Len(in') /\ in'[i] = r
                                 \/ i \in 1 .. Len(in) /\ in'[i] = in[i]
    BY <1>1, AppendedAt
  <2>2. Len(in) \in Nat /\ Len(in') = Len(in) + 1
    BY <1>1 DEF Appended
  <2>3. ASSUME NEW i \in 1 .. Len(in')
        PROVE  /\ in'[i].tsih = 1 => tgt'.stage = "full"
               /\ Carries(in'[i].keys) =>
                   /\ tgt'.stage # "security"
                   /\ \A j \in i .. Len(in') : in'[j].transit => in'[j].tsih = 1
    <3>1. in'[i].tsih = 1 => tgt'.stage = "full"
      BY <1>1, <2>1, <2>3 DEF Staged
    <3>2. ASSUME Carries(in'[i].keys), i = Len(in')
          PROVE  /\ tgt'.stage # "security"
                 /\ \A j \in i .. Len(in') : in'[j].transit => in'[j].tsih = 1
      <4>1. in'[i] = r /\ \A j \in i .. Len(in') : j = i
        BY <2>1, <2>2, <3>2
      <4> QED BY <1>1, <3>2, <4>1
    <3>3. ASSUME Carries(in'[i].keys), i \in 1 .. Len(in)
          PROVE  /\ tgt'.stage # "security"
                 /\ \A j \in i .. Len(in') : in'[j].transit => in'[j].tsih = 1
      <4>1. Carries(in[i].keys)
        BY <2>1, <2>2, <3>3
      <4>2. tgt.stage # "security" /\ \A j \in i .. Len(in) : in[j].transit => in[j].tsih = 1
        BY <3>3, <4>1 DEF Staged
      <4>3. \A j \in i .. Len(in') : j \in 1 .. Len(in') /\ (j \in 1 .. Len(in) => j \in i .. Len(in))
        BY <2>2, <3>3
      <4> QED BY <1>1, <2>1, <4>2, <4>3
    <3> QED BY <2>1, <3>1, <3>2, <3>3
  <2>4. ASSUME step = "negotiate", Carries(rsp)
        PROVE  \A i \in 1 .. Len(in') : in'[i].transit => in'[i].tsih = 1
    BY <1>1, <2>1, <2>4 DEF Staged
  <2>5. UNCHANGED <<step, rsp, query, kern>>
    BY <1>0 DEF initiator
  <2> QED BY <1>1, <2>3, <2>4, <2>5 DEF Staged
<1>2. ASSUME NEW r, Refuses(r) PROVE Staged'
  <2>1. Appended(in, in', r) /\ AnswerOK(r) /\ ~ r.ok /\ r.tsih = 0 /\ ~ Carries(r.keys)
        /\ tgt'.stage = tgt.stage /\ tgt'.tsih = tgt.tsih
    BY <1>2 DEF Refuses, Replied, TargetOK, Carries
  <2> QED BY <1>1, <2>1 DEF AnswerOK, Staged
<1>3. ASSUME NEW r, Continued(r) PROVE Staged'
  <2>1. Appended(in, in', r) /\ ~ r.transit /\ r.tsih = 0 /\ ~ Carries(r.keys)
        /\ tgt'.stage = tgt.stage /\ tgt'.tsih = tgt.tsih
    BY <1>3, KeysApart DEF Continued, TargetOK, Carries, Empty
  <2> QED BY <1>1, <2>1 DEF AnswerOK, Staged
<1>4. ASSUME NEW r, Serves(r) PROVE Staged'
  <2>1. Appended(in, in', r) /\ Meets(r) /\ out[1] \in Requests /\ Proper(out[1])
        /\ tgt.stage = out[1].cur
    BY <1>4 DEF Serves, Meets, Replied, LinesOK
  <2>2. ASSUME Carries(r.keys) PROVE out[1].ask = "parameters"
    BY <1>4, <2>2, KeysApart DEF Serves, Carries
  <2>3. /\ tgt'.stage = IF r.transit THEN out[1].next ELSE tgt.stage
        /\ r.tsih = IF r.transit /\ out[1].next = "full" THEN 1 ELSE 0
        /\ tgt'.tsih = IF r.transit /\ out[1].next = "full" THEN 1 ELSE tgt.tsih
        /\ r.transit => out[1].cur # out[1].next
    BY <2>1 DEF Meets
  <2>4. tgt.stage = "security" => out[1].next # "full"
    BY <2>1 DEF Proper
  <2>5. tgt.stage # "security" => out[1].next = "full"
    BY <2>1 DEF Proper
  <2>6. Carries(r.keys) => tgt.stage # "security"
    BY <2>1, <2>2 DEF Proper
  <2>7. tgt.tsih = IF tgt.stage = "full" THEN 1 ELSE 0
    BY DEF Staged
  <2> QED BY <1>1, <2>1, <2>3, <2>4, <2>5, <2>6, <2>7
<1>5. ASSUME Leave PROVE Staged'
  <2>1. tgt'.stage = tgt.stage /\ tgt'.tsih = tgt.tsih /\ UNCHANGED <<in, step, rsp, query, kern>>
    BY <1>5 DEF Leave, TargetOK, initiator
  <2> QED BY <2>1 DEF Staged
<1> QED BY <1>2, <1>3, <1>4, <1>5, TargetSteps

\* The initiator believes no more of it than it was told.
LEMMA StagedInitiator ==
  ASSUME Shapes, Staged, Initiator
  PROVE  Staged'
<1> USE DEF Shapes
<1>0. query \in QueryTypes /\ kern.tsih \in {0, 1} /\ DOMAIN kern = {"tsih", "ack", "skipped", "par"}
  BY DEF InitiatorOK
<1> DEFINE wrong == [query EXCEPT !.error = TRUE]
<1>1. wrong \in QueryTypes /\ wrong.tsih = query.tsih /\ wrong.transit = query.transit
  BY <1>0 DEF QueryTypes
<1>2. CASE Sends
  <2>1. UNCHANGED <<in, tgt, kern, step, rsp>>
        /\ query'.tsih = query.tsih /\ query'.transit = query.transit
    BY <1>0, <1>2 DEF Sends, QueryTypes
  <2> QED BY <2>1 DEF Staged
<1>3. CASE Misses
  <2>1. UNCHANGED <<in, tgt, kern, step, rsp>> /\ Ended(wrong, status)
    BY <1>3 DEF Misses
  <2>2. query'.tsih = query.tsih /\ query'.transit = query.transit
    BY <1>1, <2>1, EndedIs
  <2> QED BY <2>1, <2>2 DEF Staged
<1>4. ASSUME NEW r, Read(r), UNCHANGED <<step, tgt>>,
             query'.tsih \in {query.tsih, r.tsih},
             step = "negotiate" /\ Carries(rsp') =>
                /\ Carries(rsp) \/ Carries(r.keys)
                /\ query'.transit => r.transit /\ (query'.tsih = 1 \/ r.tsih # 1)
      PROVE  Staged'
  <2>1. Len(in') \in Nat /\ Len(in) = Len(in') + 1 /\ r = in[1] /\ Querying
        /\ \A i \in 1 .. Len(in') : in'[i] = in[i + 1]
    BY <1>4 DEF Read, Popped
  <2>2. 1 \in 1 .. Len(in) /\ \A i \in 1 .. Len(in') : i + 1 \in 1 .. Len(in)
    BY <2>1
  <2>3. \A i \in 1 .. Len(in') :
        /\ in'[i].tsih = 1 => tgt.stage = "full"
        /\ Carries(in'[i].keys) => tgt.stage # "security"
    BY <2>1, <2>2 DEF Staged
  <2>4. ASSUME NEW i \in 1 .. Len(in'), Carries(in'[i].keys), NEW j \in i .. Len(in'), in'[j].transit
        PROVE  in'[j].tsih = 1
    <3>1. j \in 1 .. Len(in') /\ j + 1 \in i + 1 .. Len(in)
      BY <2>1
    <3> QED BY <2>1, <2>2, <2>4, <3>1 DEF Staged
  <2>5. r.tsih = 1 => tgt.stage = "full"
    BY <2>1, <2>2 DEF Staged
  <2>6. ASSUME step = "negotiate", Carries(rsp')
        PROVE  /\ tgt.stage # "security"
               /\ \A i \in 1 .. Len(in) : in[i].transit => in[i].tsih = 1
    <3>1. Carries(rsp) \/ Carries(r.keys)
      BY <1>4, <2>6
    <3>2. \A j \in 1 .. Len(in) : j \in 1 .. Len(in)
      OBVIOUS
    <3> QED BY <2>1, <2>2, <2>6, <3>1 DEF Staged
  <2>7. step = "negotiate" /\ Carries(rsp') =>
        /\ tgt.stage # "security"
        /\ \A i \in 1 .. Len(in') : in'[i].transit => in'[i].tsih = 1
        /\ query'.transit => query'.tsih = 1
    BY <1>4, <2>1, <2>2, <2>6
  <2>8. kern'.tsih = kern.tsih
    BY <1>0, <1>4, AdvancedIs DEF Read, Counted
  <2>9. query'.tsih = 1 => tgt.stage = "full"
    BY <1>4, <2>5 DEF Staged
  <2>10. step' = step /\ tgt' = tgt /\ tgt'.tsih = (IF tgt'.stage = "full" THEN 1 ELSE 0)
         /\ (step \in {"text", "full", "listed"} => kern.tsih = 1 /\ tgt.stage = "full")
    BY <1>4 DEF Staged
  <2> QED BY <2>3, <2>4, <2>7, <2>8, <2>9, <2>10 DEF Staged
<1>5. ASSUME NEW r, Unserved(r) PROVE Staged'
  <2>1. Read(r) /\ UNCHANGED <<step, tgt, rsp>>
    BY <1>5 DEF Unserved
  <2>2. ~ query.transit
    BY <2>1 DEF Read, InitiatorOK, Told
  <2>3. query'.tsih = query.tsih /\ ~ query'.transit
    BY <1>0, <1>1, <1>5, <2>2, EndedIs DEF Unserved
  <2> QED BY <1>4, <2>1, <2>3
<1>6. ASSUME NEW r, Takes(r) PROVE Staged'
  <2>1. Read(r) /\ UNCHANGED <<step, tgt>> /\ AnswerOK(r)
    BY <1>6 DEF Takes, Read, LinesOK
  <2>2. /\ Noted(r) \in QueryTypes /\ Noted(r).transit = r.transit
        /\ Noted(r).tsih = IF query.tsih = 0 /\ query.next = "full" THEN r.tsih ELSE query.tsih
    BY <1>0, <2>1 DEF Noted, QueryTypes, AnswerOK
  <2>3. query'.tsih = Noted(r).tsih /\ query'.transit = Noted(r).transit
    BY <1>6, <2>2, EndedIs DEF Takes
  <2>4. step = "negotiate" => query.next = "full"
    BY DEF InitiatorOK, Fits, Proper
  <2>5. query.tsih \in {0, 1} /\ r.tsih \in {0, 1}
    BY <1>0, <2>1 DEF QueryTypes, AnswerOK
  <2>6. Carries(rsp') => Carries(rsp) \/ Carries(r.keys)
    BY <1>6 DEF Takes, AddValues, Carries
  <2> QED BY <1>4, <2>1, <2>2, <2>3, <2>4, <2>5, <2>6
<1>7. ASSUME NEW r, Lists(r) PROVE Staged'
  <2>1. Read(r) /\ UNCHANGED <<step, tgt, rsp>> /\ step = "text"
    BY <1>7 DEF Lists
  <2>2. query'.tsih = query.tsih
    BY <1>0, <1>7, EndedIs DEF Lists
  <2> QED BY <1>4, <2>1, <2>2
<1>8. ASSUME UNCHANGED <<in, tgt>>, query'.tsih \in {query.tsih, 0},
             step' = "negotiate" => rsp' = Empty,
             step' \in {"text", "full", "listed"} => kern'.tsih = 1 /\ tgt.stage = "full"
      PROVE  Staged'
  <2>1. ~ Carries(Empty)
    BY DEF Carries, Empty
  <2> QED BY <1>8, <2>1 DEF Staged
<1>9. CASE AuthNegotiate
  <2>1. query'.tsih \in {query.tsih, 0}
    BY <1>9 DEF AuthNegotiate, Next_, Release, Query
  <2> QED BY <1>8, <1>9, <2>1 DEF AuthNegotiate, QueryEnded, Next_, Release
<1>10. CASE AuthInterrogate
  BY <1>8, <1>10 DEF AuthInterrogate, Release
<1>11. CASE ChapChallenged
  BY <1>8, <1>11 DEF ChapChallenged, Next_, Release, Query
<1>12. CASE AuthNegotiateCHAP
  BY <1>8, <1>12 DEF AuthNegotiateCHAP, Negotiate, Next_, Release, Query
<1>13. CASE WithoutAuthentication
  BY <1>8, <1>13 DEF WithoutAuthentication, Negotiate, Next_, Release, Query
<1>14. CASE NegotiateSession
  <2>1. CASE Success /\ ~ ParseFails(rsp)
    <3>1. Carries(rsp)
      BY <2>1 DEF ParseFails, ParseSWDictCommonFails, Common, Carries
    <3>2. query.transit /\ step = "negotiate"
      BY <1>14, <2>1 DEF NegotiateSession, QueryEnded, Success, InitiatorOK, Told, Fits, Proper, LoggingIn
    <3>3. query.tsih = 1 /\ tgt.stage = "full"
      BY <3>1, <3>2 DEF Staged
    <3>4. kern'.tsih = query.tsih /\ query'.tsih = query.tsih /\ UNCHANGED <<in, tgt>>
          /\ step' # "negotiate"
      <4>1. kern' = [kern EXCEPT !.tsih = query.tsih, !.par = Parse(@, rsp)]
        BY <1>14, <2>1 DEF NegotiateSession
      <4>2. query' = Query("targets", "full", "full", query.tsih)
            /\ UNCHANGED <<in, tgt>> /\ step' \in {"text", "full"}
        BY <1>14, <2>1 DEF NegotiateSession, Next_
      <4>3. query'.tsih = query.tsih
        BY <4>2 DEF Query
      <4>4. kern'.tsih = query.tsih
        BY <1>0, <4>1
      <4> QED BY <4>2, <4>3, <4>4
    <3> QED BY <1>8, <3>3, <3>4
  <2>2. CASE ~ (Success /\ ~ ParseFails(rsp))
    BY <1>8, <1>14, <2>2 DEF NegotiateSession, Release
  <2> QED BY <2>1, <2>2
<1>15. CASE QueryPortalForTargets
  <2>1. step = "text" /\ UNCHANGED <<in, tgt, query, kern>> /\ step' # "negotiate"
    BY <1>15 DEF QueryPortalForTargets, QueryEnded
  <2> QED BY <1>8, <2>1 DEF Staged
<1> QED BY <1>2, <1>3, <1>5, <1>6, <1>7, <1>9, <1>10, <1>11, <1>12, <1>13, <1>14, <1>15,
           InitiatorSteps DEF Turns

-----------------------------------------------------------------------------
(***************************************************************************)
(* A right answer to our challenge comes from a target that has proved     *)
(* itself, and where it must, the login goes on only after such an answer. *)
(***************************************************************************)
Mutual == cfg.initiator = "CHAP" /\ cfg.target = "CHAP"
Right(d) == "Response" \in DOMAIN d /\ d["Response"] = "right"

Verified ==
    /\ Right(rsp) => tgt.proved
    /\ \A i \in 1 .. Len(in) : Right(in[i].keys) => tgt.proved
    /\ step = "none" => ~ Mutual
    /\ step \in {"negotiate", "text", "full", "listed"} /\ Mutual =>
        tgt.proved /\ ~ OnItsWay("response")

\* Nothing is proved at the start.
LEMMA VerifiedInit == LoginInit => Verified
BY EmptyIs DEF LoginInit, Verified, Right, Empty

\* A response that is right was given by a target that knows the secret.
LEMMA VerifiedTarget ==
  ASSUME Shapes, AskedOnce, Verified, Target
  PROVE  Verified'
<1> USE DEF Shapes
<1>0. UNCHANGED initiator
  BY TargetSteps DEF Refuses, Serves, Meets, Replied, Continued, Leave
<1>1. UNCHANGED <<step, cfg, rsp>> /\ Mutual' = Mutual
  BY <1>0 DEF initiator, Mutual
<1>2. ASSUME NEW r, Appended(in, in', r), OnItsWay("response")' => OnItsWay("response"),
             tgt'.proved = tgt.proved, ~ Right(r.keys)
      PROVE  Verified'
  <2>1. \A i \in 1 .. Len(in') : in'[i] = r \/ \E j \in 1 .. Len(in) : in'[i] = in[j]
    BY <1>2 DEF Appended
  <2> QED BY <1>1, <1>2, <2>1 DEF Verified
<1>3. ASSUME Popped(out, out') PROVE OnItsWay("response")' => OnItsWay("response")
  <2>1. \A i \in 1 .. Len(out') : i + 1 \in 1 .. Len(out) /\ out'[i] = out[i + 1]
    BY <1>3 DEF Popped
  <2> QED BY <2>1 DEF OnItsWay
<1>4. ASSUME NEW r, Refuses(r) PROVE Verified'
  <2>1. Appended(in, in', r) /\ Popped(out, out') /\ ~ Right(r.keys) /\ tgt'.proved = tgt.proved
    BY <1>4 DEF Refuses, Replied, TargetOK, Right
  <2> QED BY <1>2, <1>3, <2>1
<1>5. ASSUME NEW r, Continued(r) PROVE Verified'
  <2>1. Appended(in, in', r) /\ UNCHANGED out /\ ~ Right(r.keys) /\ tgt'.proved = tgt.proved
    BY <1>5, KeysApart DEF Continued, TargetOK, Right, Empty
  <2> QED BY <1>2, <2>1 DEF OnItsWay
<1>6. ASSUME NEW r, Serves(r) PROVE Verified'
  <2>1. Appended(in, in', r) /\ Popped(out, out') /\ 1 \in 1 .. Len(out)
    BY <1>6 DEF Serves, Meets, Replied, Popped
  <2>2. CASE out[1].ask = "response"
    <3>1. OnItsWay("response")
      BY <2>1, <2>2 DEF OnItsWay
    <3>2. BeforeRespond
      BY <3>1 DEF AskedOnce
    <3>3. \A i \in 1 .. Len(in') : in'[i] = r \/ \E j \in 1 .. Len(in) : in'[i] = in[j]
      BY <2>1 DEF Appended
    <3>4. Right(r.keys) => tgt'.proved
      BY <1>6, <2>2 DEF Serves, Right
    <3>5. ~ Right(rsp') /\ \A i \in 1 .. Len(in') : Right(in'[i].keys) => tgt'.proved
      BY <1>1, <3>2, <3>3, <3>4 DEF BeforeRespond, NoResponse, Right
    <3>6. ~ (step \in {"negotiate", "text", "full", "listed"} /\ Mutual)
      BY <3>1 DEF Verified
    <3> QED BY <1>1, <3>5, <3>6 DEF Verified
  <2>3. CASE out[1].ask # "response"
    <3>1. tgt'.proved = tgt.proved /\ ~ Right(r.keys)
      BY <1>6, <2>3 DEF Serves, Right
    <3> QED BY <1>2, <1>3, <2>1, <3>1
  <2> QED BY <2>2, <2>3
<1>7. ASSUME Leave PROVE Verified'
  <2>1. Len(out') = 0 /\ UNCHANGED in /\ tgt'.proved = tgt.proved
    BY <1>7, EmptyIs DEF Leave, TargetOK
  <2> QED BY <1>1, <2>1 DEF Verified, OnItsWay
<1> QED BY <1>4, <1>5, <1>6, <1>7, TargetSteps

\* The initiator goes on only with the right response.
LEMMA VerifiedInitiator ==
  ASSUME Shapes, AskedOnce, Verified, Initiator
  PROVE  Verified'
<1> USE DEF Shapes
<1>1. ASSUME UNCHANGED <<cfg, step, rsp, out, in, tgt>> PROVE Verified'
  BY <1>1 DEF Verified, Mutual, OnItsWay
<1>2. CASE Sends
  <2>1. UNCHANGED <<cfg, step, rsp, in, tgt>> /\ Appended(out, out', Request)
    BY <1>2 DEF Sends
  <2>2. step \in {"negotiate", "text", "full", "listed"} => Request.ask # "response"
    BY <1>2 DEF Sends, Querying, LoggingIn, Request, InitiatorOK, Fits
  <2>3. \A i \in 1 .. Len(out') : out'[i] = Request \/ \E j \in 1 .. Len(out) : out'[i] = out[j]
    BY <2>1 DEF Appended
  <2>4. step \in {"negotiate", "text", "full", "listed"} /\ ~ OnItsWay("response") =>
            ~ OnItsWay("response")'
    BY <2>2, <2>3 DEF OnItsWay
  <2> QED BY <2>1, <2>4 DEF Verified, Mutual
<1>3. CASE Misses
  BY <1>1, <1>3 DEF Misses
<1>4. ASSUME NEW r, Read(r), UNCHANGED <<cfg, step, out, tgt>>,
             rsp' = rsp \/ rsp' = AddValues(rsp, r.keys)
      PROVE  Verified'
  <2>1. \A i \in 1 .. Len(in') : \E j \in 1 .. Len(in) : in'[i] = in[j]
    BY <1>4 DEF Read, Popped
  <2>2. 1 \in 1 .. Len(in) /\ r = in[1]
    BY <1>4, LenIs DEF Read, LinesOK
  <2>3. Right(rsp') => Right(rsp) \/ Right(r.keys)
    BY <1>4 DEF AddValues, Right
  <2> QED BY <1>4, <2>1, <2>2, <2>3 DEF Verified, Mutual, OnItsWay
<1>5. ASSUME NEW r, Unserved(r) \/ Takes(r) \/ Lists(r) PROVE Verified'
  BY <1>4, <1>5 DEF Unserved, Takes, Lists
<1>6. ASSUME UNCHANGED <<cfg, out, in, tgt>>, rsp' = rsp \/ rsp' = Empty,
             step' = "none" => ~ Mutual,
             step' \in {"negotiate", "text", "full", "listed"} /\ Mutual =>
                tgt.proved /\ ~ OnItsWay("response")
      PROVE  Verified'
  <2>1. ~ Right(Empty)
    BY DEF Right, Empty
  <2> QED BY <1>6, <2>1 DEF Verified, Mutual, OnItsWay
<1>7. CASE AuthNegotiate
  <2>1. step' = "none" => ~ Mutual
    BY <1>7 DEF AuthNegotiate, Next_, Release, MethodAgreed, BuildDict, Mutual
  <2>2. step' = "negotiate" => ~ Mutual
    BY <1>7 DEF AuthNegotiate, Next_, Release, Mutual
  <2>3. step' \notin {"text", "full", "listed"} /\ UNCHANGED <<cfg, out, in, tgt>>
        /\ (rsp' = rsp \/ rsp' = Empty)
    BY <1>7 DEF AuthNegotiate, Next_, Release
  <2> QED BY <1>6, <2>1, <2>2, <2>3
<1>8. CASE AuthInterrogate
  BY <1>6, <1>8 DEF AuthInterrogate, Release
<1>9. CASE ChapChallenged
  BY <1>6, <1>9 DEF ChapChallenged, Next_, Release
<1>10. CASE AuthNegotiateCHAP
  <2>1. ASSUME step' = "negotiate", Mutual PROVE tgt.proved /\ ~ OnItsWay("response")
    <3>1. Right(rsp)
      BY <1>10, <2>1 DEF AuthNegotiateCHAP, Release, TargetVerified, Mutual, Right
    <3>2. ~ BeforeRespond
      BY <3>1 DEF BeforeRespond, NoResponse, Right
    <3> QED BY <3>1, <3>2 DEF Verified, AskedOnce
  <2> QED BY <1>6, <1>10, <2>1 DEF AuthNegotiateCHAP, Negotiate, Next_, Release
<1>11. CASE WithoutAuthentication
  <2>1. ~ Mutual
    BY <1>11 DEF WithoutAuthentication, QueryEnded, Verified
  <2> QED BY <1>6, <1>11, <2>1 DEF WithoutAuthentication, Negotiate, Next_, Release
<1>12. CASE NegotiateSession
  BY <1>6, <1>12 DEF NegotiateSession, QueryEnded, Verified, Next_, Release
<1>13. CASE QueryPortalForTargets
  BY <1>6, <1>13 DEF QueryPortalForTargets, QueryEnded, Verified
<1> QED BY <1>2, <1>3, <1>5, <1>7, <1>8, <1>9, <1>10, <1>11, <1>12, <1>13,
           InitiatorSteps DEF Turns
=============================================================================
