--------------------------- MODULE Login_invariants ---------------------------
(***************************************************************************)
(* What the two sides of a login know of each other's parameters, how many *)
(* requests and answers can be on their way, and what the initiator has    *)
(* read of a listing.                                                      *)
(***************************************************************************)
EXTENDS Login_proofs, WellFoundedInduction

(***************************************************************************)
(* The parameters the target declared reach the dictionary the kernel's    *)
(* are computed from, all of them or none that matter.                     *)
(***************************************************************************)
\* A dictionary that says nothing the target t did not.
Within(t, d) ==
    \A k \in DOMAIN d \cap Keys : k \in DOMAIN t.heard /\ d[k] = t.heard[k]

\* Keys among which is all the target t declared before its empty answers.
Covers(t, keys) ==
    \A k \in DOMAIN t.heard : k \in keys \/ (t.late /\ k = MaxSegment)

Continues(r) == r.op = "login" /\ r.cont

AnswerHeard(t, r) ==
    /\ Within(t, r.keys)
    /\ Continues(r) => MaxSegment \in DOMAIN t.heard
    /\ Carries(r.keys) =>
        Covers(t, DOMAIN r.keys \cup (IF r.cont THEN {MaxSegment} ELSE {}))

\* The answers from the n-th on bring the length of a segment.
Rest(n) ==
    \A j \in n .. Len(in) : in[j].op = "login" /\ in[j].ok => MaxSegment \in DOMAIN in[j].keys

\* The answers to the parameters are being read into the dictionary.
Parsing == step = "negotiate" /\ query.tries = 0

\* The dictionary has a part of what the target declared, and the rest is missing.
Partial == step = "negotiate" /\ Carries(rsp) /\ ~ Covers(tgt, DOMAIN rsp)

TargetHeard ==
    /\ IsDictionary(tgt.heard)
    /\ tgt.late => MaxSegment \in DOMAIN tgt.heard
    /\ cfg.kind = "login" /\ Offered["ImmediateData"] /\ DOMAIN tgt.heard # {} =>
        "ImmediateData" \in DOMAIN tgt.heard

LinesHeard ==
    /\ \A i \in 1 .. Len(in) : AnswerHeard(tgt, in[i])
    /\ Parsing /\ query.at # "send" /\ tgt.open /\ Len(out) > 0 =>
        out[Len(out)].ask = "parameters"
    /\ Parsing => \A i \in 1 .. Len(in) : Continues(in[i]) => Rest(i + 1)

ReadHeard ==
    /\ Within(tgt, rsp)
    /\ Partial => /\ query.tries = 0 /\ query.at # "send"
                  /\ Covers(tgt, DOMAIN rsp \cup {MaxSegment})
                  /\ ~ (query.at = "done" /\ Success)
                  /\ Rest(1)

Parameters(par) ==
    /\ DOMAIN par = Keys
    /\ \A k \in Numeric : par[k] \in Nat
    /\ \A k \in Flags \cup Digests : par[k] \in BOOLEAN

KernelHeard ==
    /\ step \notin {"text", "full", "listed", "released"} => kern.par = Offered
    /\ Parameters(kern.par)
    /\ step \notin {"auth", "probed", "released"} => cfg.kind # "probe"
    /\ step = "full" => cfg.kind = "login"

Heard == TargetHeard /\ LinesHeard /\ ReadHeard /\ KernelHeard

\* Nothing was declared at the start.
LEMMA HeardInit == LoginInit => Heard
<1> SUFFICES ASSUME LoginInit PROVE Heard
  OBVIOUS
<1>1. TargetHeard /\ LinesHeard /\ ReadHeard
  BY EmptyIs DEF LoginInit, TargetHeard, LinesHeard, ReadHeard, IsDictionary, Empty, Within,
     Partial, Carries, Parsing
<1>2. KernelHeard
  BY NegotiationAssumption DEF LoginInit, KernelHeard, Parameters
<1> QED BY <1>1, <1>2 DEF Heard

\* As long as the parameters are to be asked for, nothing has been said of them.
LEMMA NothingSaid ==
  ASSUME AskedOnce, LinesHeard, Parsing, query.at = "send" \/ (tgt.open /\ Len(out) > 0),
         Len(out) \in Nat
  PROVE  BeforeAgree
<1>1. CASE query.at = "send"
  BY <1>1 DEF AskedOnce, PastParameters, Parsing
<1>2. CASE query.at # "send"
  <2>1. out[Len(out)].ask = "parameters" /\ Len(out) \in 1 .. Len(out)
    BY <1>2 DEF LinesHeard
  <2> QED BY <2>1 DEF AskedOnce, OnItsWay
<1> QED BY <1>1, <1>2

\* What the target declares is on its way, but for its answers to empty requests.
LEMMA HeardTarget ==
  ASSUME Shapes, AskedOnce, Heard, Target
  PROVE  Heard'
<1>0. UNCHANGED initiator
  BY TargetSteps DEF Refuses, Serves, Meets, Replied, Continued, Leave
<1>1. UNCHANGED <<cfg, step, query, rsp, kern, status>>
  BY <1>0 DEF initiator
<1>2. KernelHeard' /\ Parsing' = Parsing /\ Success' = Success
  BY <1>1 DEF Heard, KernelHeard, Parsing, Success
<1>3. LinesOK /\ TargetOK /\ TargetHeard /\ LinesHeard /\ ReadHeard /\ KernelHeard
      /\ Len(out) \in Nat /\ Len(in) \in Nat
  BY LenIs DEF Heard, Shapes, LinesOK
<1>4. ASSUME Popped(out, out'), tgt'.open => tgt.open
      PROVE  Parsing' /\ query'.at # "send" /\ tgt'.open /\ Len(out') > 0 =>
                out'[Len(out')].ask = "parameters"
  <2>1. Len(out') \in Nat /\ Len(out) = Len(out') + 1
        /\ (Len(out') > 0 => out'[Len(out')] = out[Len(out)])
    BY <1>4 DEF Popped
  <2> QED BY <1>1, <1>2, <1>3, <1>4, <2>1 DEF LinesHeard
<1>5. ASSUME tgt'.heard = tgt.heard, tgt'.late = tgt.late,
             NEW r, Appended(in, in', r), AnswerHeard(tgt, r),
             Parsing' /\ query'.at # "send" /\ tgt'.open /\ Len(out') > 0 =>
                out'[Len(out')].ask = "parameters",
             r.op = "login" /\ r.ok /\ MaxSegment \notin DOMAIN r.keys /\ Parsing =>
                BeforeAgree
      PROVE  Heard'
  <2>1. \A i \in 1 .. Len(in') : \/ i = Len(in') /\ in'[i] = r
                                 \/ i \in 1 .. Len(in) /\ in'[i] = in[i]
    BY <1>5, AppendedAt
  <2>2. Len(in') = Len(in) + 1
    BY <1>5 DEF Appended
  <2>3. TargetHeard'
    BY <1>1, <1>3, <1>5 DEF TargetHeard
  <2>4. /\ \A d : Within(tgt', d) <=> Within(tgt, d)
        /\ \A keys : Covers(tgt', keys) <=> Covers(tgt, keys)
    BY <1>5 DEF Within, Covers
  <2>5. \A s : AnswerHeard(tgt, s) => AnswerHeard(tgt', s)
    BY <1>5, <2>4 DEF AnswerHeard
  <2>6. \A i \in 1 .. Len(in') : AnswerHeard(tgt', in'[i])
    BY <1>3, <1>5, <2>1, <2>5 DEF LinesHeard
  <2>7. ASSUME NEW n \in Nat \ {0}, Rest(n), Parsing, n > Len(in) + 1 \/ ~ BeforeAgree
        PROVE  Rest(n)'
    BY <1>5, <2>1, <2>2, <2>7 DEF Rest
  <2>8. ASSUME Parsing, NEW i \in 1 .. Len(in'), Continues(in'[i]) PROVE Rest(i + 1)'
    <3>1. CASE i = Len(in')
      BY <1>3, <2>2, <3>1 DEF Rest
    <3>2. CASE i \in 1 .. Len(in)
      <4>1. Continues(in[i]) /\ Rest(i + 1)
        BY <1>3, <1>5, <2>1, <2>2, <2>8, <3>2 DEF LinesHeard
      <4>2. ~ BeforeAgree
        BY <3>2, <4>1 DEF BeforeAgree, Continues
      <4> QED BY <1>3, <2>7, <2>8, <3>2, <4>1, <4>2
    <3> QED BY <2>1, <3>1, <3>2
  <2>9. LinesHeard'
    BY <1>2, <1>5, <2>6, <2>8 DEF LinesHeard
  <2>10. ASSUME Partial' PROVE Rest(1)'
    <3>1. Partial
      BY <1>1, <2>4, <2>10 DEF Partial
    <3>2. Rest(1) /\ Parsing
      BY <1>3, <3>1 DEF ReadHeard, Partial, Parsing
    <3>3. ~ BeforeAgree
      BY <3>1, KeysApart DEF Partial, Carries, BeforeAgree, NoParameters
    <3> QED BY <2>7, <3>2, <3>3
  <2>11. ReadHeard'
    <3>1. Partial' => Partial
      BY <1>1, <2>4 DEF Partial
    <3>2. Within(tgt', rsp') /\ (Covers(tgt, DOMAIN rsp \cup {MaxSegment}) =>
            Covers(tgt', DOMAIN rsp' \cup {MaxSegment}))
      BY <1>1, <1>3, <2>4 DEF ReadHeard
    <3>3. query' = query /\ Success' = Success
      BY <1>1, <1>2
    <3> QED BY <1>3, <2>10, <3>1, <3>2, <3>3 DEF ReadHeard
  <2> QED BY <1>2, <2>3, <2>9, <2>11 DEF Heard
<1>6. ASSUME NEW r, Refuses(r) PROVE Heard'
  <2>1. /\ Appended(in, in', r) /\ Popped(out, out') /\ tgt'.open = FALSE /\ ~ r.ok
        /\ tgt'.heard = tgt.heard /\ tgt'.late = tgt.late /\ DOMAIN r.keys = {} /\ ~ r.cont
    BY <1>6 DEF Refuses, Replied, AnswerOK, TargetOK, Shapes
  <2>2. AnswerHeard(tgt, r)
    BY <2>1 DEF AnswerHeard, Within, Continues, Carries
  <2> QED BY <1>5, <2>1, <2>2
<1>7. ASSUME NEW r, Serves(r), out[1].ask # "parameters" PROVE Heard'
  <2>1. /\ Appended(in, in', r) /\ Popped(out, out') /\ tgt.open /\ Len(out) > 0
    BY <1>7 DEF Serves, Meets, Replied
  <2>2. tgt'.heard = tgt.heard /\ tgt'.late = tgt.late
    BY <1>7 DEF Serves
  <2>3. ~ Continues(r) /\ ~ Carries(r.keys)
    BY <1>7, KeysApart DEF Serves, Continues, Carries
  <2>4. Within(tgt, r.keys)
    BY <1>3, <1>7 DEF Serves, Within, TargetHeard
  <2>5. AnswerHeard(tgt, r)
    BY <2>3, <2>4 DEF AnswerHeard
  <2>6. Parsing => BeforeAgree
    BY <1>3, <2>1, NothingSaid
  <2> QED BY <1>4, <1>5, <2>1, <2>2, <2>5, <2>6
<1>8. ASSUME NEW r, Serves(r), out[1].ask = "parameters" PROVE Heard'
  <2>1. /\ Appended(in, in', r) /\ Popped(out, out') /\ tgt.open /\ Len(out) > 0 /\ Agrees(r)
        /\ r.op = "login"
    BY <1>8 DEF Serves, Meets, Replied
  <2>2. BeforeAgree
    <3>1. 1 \in 1 .. Len(out)
      BY <1>3, <2>1
    <3> QED BY <1>8, <3>1 DEF AskedOnce, OnItsWay
  <2>3. PICK a \in Answers, when \in {"now", "rest", "late"} :
          LET keys == IF cfg.kind = "login" THEN DOMAIN a ELSE DOMAIN a \cap DiscoveryKeys
          IN  /\ tgt'.heard = [k \in keys |-> a[k]]
              /\ tgt'.late = (when = "late")
              /\ r.cont = (when = "rest")
              /\ when # "now" => MaxSegment \in keys /\ ~ r.transit
              /\ r.keys = IF when = "now" THEN [k \in keys |-> a[k]]
                          ELSE Without([k \in keys |-> a[k]], MaxSegment)
    BY <2>1 DEF Agrees
  <2> DEFINE keys == IF cfg.kind = "login" THEN DOMAIN a ELSE DOMAIN a \cap DiscoveryKeys
  <2>4. IsDictionary(a) /\ keys \subseteq DOMAIN a /\ (cfg.kind = "login" => keys = DOMAIN a)
    BY LoginAssumption
  <2>5. /\ DOMAIN tgt'.heard = keys /\ \A k \in keys : tgt'.heard[k] = a[k]
        /\ tgt'.late => MaxSegment \in keys
        /\ r.cont => MaxSegment \in keys
    BY <2>3
  <2>6. /\ \A k \in DOMAIN r.keys : k \in keys /\ r.keys[k] = tgt'.heard[k]
        /\ \A k \in keys : k \in DOMAIN r.keys \/ (when # "now" /\ k = MaxSegment)
    <3>1. CASE when = "now"
      BY <2>3, <2>5, <3>1
    <3>2. CASE when # "now"
      BY <2>3, <2>5, <3>2 DEF Without
    <3> QED BY <3>1, <3>2
  <2>7. when # "now" => tgt'.late \/ r.cont
    BY <2>3
  <2> HIDE DEF keys
  <2>8. TargetHeard'
    <3>1. IsDictionary(tgt'.heard)
      BY <2>4, <2>5 DEF IsDictionary
    <3>2. cfg.kind = "login" /\ Offered["ImmediateData"] => "ImmediateData" \in keys
      BY <2>4, AnswersAssumption
    <3> QED BY <1>1, <2>5, <3>1, <3>2 DEF TargetHeard
  <2>9. AnswerHeard(tgt', r)
    <3>1. Within(tgt', r.keys)
      BY <2>5, <2>6 DEF Within
    <3>2. Covers(tgt', DOMAIN r.keys \cup (IF r.cont THEN {MaxSegment} ELSE {}))
      BY <2>5, <2>6, <2>7 DEF Covers
    <3> QED BY <2>5, <3>1, <3>2 DEF AnswerHeard, Continues
  <2>10. \A i \in 1 .. Len(in') : \/ i = Len(in') /\ in'[i] = r
                                  \/ i \in 1 .. Len(in) /\ in'[i] = in[i]
    BY <2>1, AppendedAt
  <2>11. \A i \in 1 .. Len(in) : NoParameters(in[i].keys) /\ ~ Continues(in[i])
    BY <2>2 DEF BeforeAgree, Continues
  <2>12. \A i \in 1 .. Len(in') : AnswerHeard(tgt', in'[i])
    <3>1. \A i \in 1 .. Len(in) : AnswerHeard(tgt', in[i])
      BY <2>11, KeysApart DEF NoParameters, AnswerHeard, Within, Carries
    <3> QED BY <2>9, <2>10, <3>1
  <2>13. LinesHeard'
    <3>1. ASSUME NEW i \in 1 .. Len(in'), Continues(in'[i]) PROVE Rest(i + 1)'
      <4>1. i = Len(in')
        BY <2>10, <2>11, <3>1
      <4> QED BY <1>3, <2>1, <4>1 DEF Rest, Appended
    <3> QED BY <1>4, <2>1, <2>12, <3>1 DEF LinesHeard
  <2>14. ReadHeard'
    <3>1. NoParameters(rsp')
      BY <1>1, <2>2 DEF BeforeAgree
    <3>2. ~ Partial'
      BY <3>1, KeysApart DEF NoParameters, Partial, Carries
    <3> QED BY <3>1, <3>2 DEF ReadHeard, Within, NoParameters
  <2> QED BY <1>2, <2>8, <2>13, <2>14 DEF Heard
<1>9. ASSUME NEW r, Continued(r) PROVE Heard'
  <2>1. /\ Appended(in, in', r) /\ UNCHANGED out /\ tgt'.open = tgt.open
        /\ tgt'.heard = tgt.heard /\ tgt'.late = tgt.late /\ ~ r.cont
    BY <1>9 DEF Continued, TargetOK, Shapes
  <2>2. in[1].cont /\ r.op = in[1].op /\ 1 \in 1 .. Len(in) /\ AnswerOK(in[1])
    BY <1>3, <1>9 DEF Continued, LinesOK
  <2>3. CASE r.op = "text"
    <3>1. DOMAIN r.keys = {}
      BY <1>9, <2>3 DEF Continued, Empty
    <3> QED BY <1>2, <1>3, <1>5, <2>1, <2>3, <3>1, <1>1 DEF AnswerHeard, Within, Continues, Carries, LinesHeard
  <2>4. CASE r.op = "login"
    <3>1. Continues(in[1]) /\ MaxSegment \in DOMAIN tgt.heard
      BY <1>3, <2>2, <2>4 DEF LinesHeard, AnswerHeard, Continues
    <3>2. DOMAIN r.keys = {MaxSegment} /\ r.keys[MaxSegment] = tgt.heard[MaxSegment]
      BY <1>9, <2>4 DEF Continued
    <3>3. AnswerHeard(tgt, r)
      BY <2>1, <3>1, <3>2, KeysApart DEF AnswerHeard, Within, Continues, Carries
    <3> QED BY <1>1, <1>2, <1>3, <1>5, <2>1, <3>2, <3>3 DEF LinesHeard
  <2> QED BY <2>2, <2>3, <2>4 DEF AnswerOK
<1>10. ASSUME Leave PROVE Heard'
  <2>1. /\ UNCHANGED in /\ Len(out') = 0 /\ tgt'.heard = tgt.heard /\ tgt'.late = tgt.late
    BY <1>10, EmptyIs DEF Leave, TargetOK, Shapes
  <2>2. /\ \A d : Within(tgt', d) <=> Within(tgt, d)
        /\ \A keys : Covers(tgt', keys) <=> Covers(tgt, keys)
    BY <2>1 DEF Within, Covers
  <2>3. \A n : Rest(n)' <=> Rest(n)
    BY <2>1 DEF Rest
  <2>4. LinesHeard'
    BY <1>2, <1>3, <2>1, <2>2, <2>3 DEF LinesHeard, AnswerHeard
  <2>5. TargetHeard'
    BY <1>1, <1>3, <2>1 DEF TargetHeard
  <2>6. ReadHeard'
    BY <1>1, <1>2, <1>3, <2>2, <2>3 DEF ReadHeard, Partial
  <2> QED BY <1>2, <2>4, <2>5, <2>6 DEF Heard
<1> QED BY <1>6, <1>7, <1>8, <1>9, <1>10, TargetSteps

\* The parameters the kernel is left with have their types.
LEMMA ParseTyped ==
  ASSUME TargetHeard, Within(tgt, rsp)
  PROVE  Parameters(Parse(Offered, rsp))
<1> DEFINE par == ParseSWDict(Offered, rsp)
<1>1. /\ \A k \in Numeric : Offered[k] \in Nat
      /\ \A k \in Flags \cup Digests : Offered[k] \in BOOLEAN
      /\ Keys = Numeric \cup Flags \cup Digests /\ DOMAIN Offered = Keys
  BY NegotiationAssumption DEF Keys
<1>2. Numeric \cap (Flags \cup Digests) = {} /\ Flags \cap Digests = {}
      /\ "InitialR2T" \in Flags /\ {"DataDigest", "HeaderDigest"} = Digests
      /\ MaxSegment \in Numeric /\ "FirstBurstLength" \in Numeric
  BY DEF Numeric, Common, Counts, Lengths, Flags, Digests, MaxSegment
<1>3. /\ \A k \in DOMAIN rsp \cap Numeric : rsp[k] \in Nat
      /\ \A k \in DOMAIN rsp \cap (Flags \cup Digests) : rsp[k] \in BOOLEAN
  BY <1>1, <1>2 DEF TargetHeard, IsDictionary, Within
<1>4. DOMAIN par = Keys
  BY DEF ParseSWDict
<1>5. ASSUME NEW k \in Numeric PROVE par[k] \in Nat
  <2>1. par[k] \in {Offered[k], Smaller(Offered[k], rsp[k])}
        /\ (k \notin DOMAIN rsp => par[k] = Offered[k])
    BY <1>1, <1>2, <1>5 DEF ParseSWDict
  <2> QED BY <1>1, <1>3, <1>5, <2>1 DEF Smaller
<1>6. ASSUME NEW k \in Flags \cup Digests PROVE par[k] \in BOOLEAN
  <2>1. CASE k \notin DOMAIN rsp \/ k \in Digests
    <3>1. par[k] = Offered[k]
      BY <1>1, <1>2, <2>1 DEF ParseSWDict
    <3> QED BY <1>1, <3>1
  <2>2. CASE k \in DOMAIN rsp /\ k \in Flags /\ k = "InitialR2T"
    <3>1. par[k] = (Offered[k] \/ rsp[k])
      BY <1>1, <1>2, <2>2 DEF ParseSWDict
    <3> QED BY <3>1
  <2>3. CASE k \in DOMAIN rsp /\ k \in Flags /\ k # "InitialR2T"
    <3>1. par[k] = (Offered[k] /\ rsp[k])
      BY <1>1, <1>2, <2>3 DEF ParseSWDict
    <3> QED BY <3>1
  <2> QED BY <2>1, <2>2, <2>3
<1> HIDE DEF par
<1> DEFINE both == ParseCWDict(par, rsp)
<1>7. DOMAIN both = Keys
  BY <1>4 DEF ParseCWDict
<1>8. ASSUME NEW k \in Numeric PROVE both[k] \in Nat
  <2>1. CASE k = MaxSegment
    <3>1. both[k] = IF MaxSegment \in DOMAIN rsp THEN rsp[MaxSegment] ELSE Offered[MaxSegment]
      BY <1>1, <1>2, <1>4, <2>1 DEF ParseCWDict
    <3> QED BY <1>1, <1>2, <1>3, <3>1
  <2>2. CASE k # MaxSegment
    <3>1. both[k] = par[k]
      BY <1>1, <1>2, <1>4, <2>2 DEF ParseCWDict
    <3> QED BY <1>5, <3>1
  <2> QED BY <2>1, <2>2
<1>9. ASSUME NEW k \in Flags \cup Digests PROVE both[k] \in BOOLEAN
  <2>1. CASE k \in Digests
    <3>1. both[k] = (Offered[k] /\ Says(rsp, k))
      BY <1>1, <1>2, <1>4, <2>1 DEF ParseCWDict
    <3> QED BY <3>1
  <2>2. CASE k \in Flags
    <3>1. both[k] = par[k]
      BY <1>1, <1>2, <1>4, <2>2 DEF ParseCWDict
    <3> QED BY <1>6, <3>1
  <2> QED BY <2>1, <2>2
<1>10. both = Parse(Offered, rsp)
  BY DEF Parse, par
<1> QED BY <1>7, <1>8, <1>9, <1>10 DEF Parameters

\* A login that is carried out has read all that the target declared.
LEMMA AllHeard ==
  ASSUME ReadHeard, QueryEnded("negotiate"), Success, ~ ParseFails(rsp)
  PROVE  Carries(rsp) /\ Covers(tgt, DOMAIN rsp)
<1>1. Carries(rsp)
  BY DEF ParseFails, ParseSWDictCommonFails, Common, Carries
<1> QED BY <1>1 DEF ReadHeard, Partial, QueryEnded

\* The initiator reads it, and parses all of it before a session is used.
LEMMA HeardInitiator ==
  ASSUME Shapes, AskedOnce, AskedOnce', Heard, Initiator
  PROVE  Heard'
<1>0. /\ query \in QueryTypes /\ query.tries \in Nat /\ Len(in) \in Nat /\ Len(out) \in Nat
      /\ TargetHeard /\ LinesHeard /\ ReadHeard /\ KernelHeard /\ InitiatorOK /\ LinesOK
  BY LenIs, LoginAssumption DEF Heard, Shapes, InitiatorOK, QueryTypes, LinesOK
<1> DEFINE wrong == [query EXCEPT !.error = TRUE]
<1>1. wrong \in QueryTypes /\ wrong.error /\ wrong.tries = query.tries /\ wrong.at = query.at
  BY <1>0 DEF QueryTypes
<1>2. CASE Sends
  <2>1. /\ UNCHANGED <<cfg, step, status, rsp, kern, in, tgt>> /\ Appended(out, out', Request)
        /\ query.at = "send" /\ query'.tries = query.tries /\ query'.at = "receive" /\ Querying
    BY <1>0, <1>2 DEF Sends, QueryTypes
  <2>2. Parsing => Request.ask = "parameters"
    BY <1>0 DEF Parsing, Request, InitiatorOK, Fits
  <2>3. out'[Len(out')] = Request
    BY <2>1 DEF Appended
  <2>4. ~ Partial
    BY <1>0, <2>1 DEF ReadHeard
  <2>5. LinesHeard'
    BY <1>0, <2>1, <2>2, <2>3 DEF LinesHeard, Parsing, Rest
  <2> QED BY <1>0, <2>1, <2>4, <2>5 DEF Heard, TargetHeard, ReadHeard, KernelHeard, Partial
<1>3. CASE Misses
  <2>1. /\ UNCHANGED <<cfg, step, rsp, kern, in, out, tgt>> /\ Ended(wrong, status)
        /\ query.at = "send" => ~ tgt.open
    BY <1>3 DEF Misses
  <2>2. /\ query'.error
        /\ \/ query'.at = "done" /\ query'.tries = query.tries
           \/ query'.tries = query.tries + 1
        /\ query'.tries = 0 => query'.at = "done" /\ query.tries = 0
    <3> HIDE DEF wrong
    <3>1. query'.error
      BY <1>1, <2>1, EndedIs
    <3>2. \/ query'.at = "done" /\ query'.tries = query.tries
          \/ query'.at = "send" /\ query'.tries = query.tries + 1
      BY <1>1, <2>1, EndedIs
    <3> QED BY <1>0, <3>1, <3>2
  <2>3. LinesHeard'
    BY <1>0, <2>1, <2>2 DEF LinesHeard, Parsing, Rest
  <2>4. Partial => query.tries = 0 /\ query'.at = "done" /\ query'.tries = 0
    BY <1>0, <1>1, <2>1, EndedIs DEF ReadHeard
  <2>5. ReadHeard'
    BY <1>0, <2>1, <2>2, <2>4 DEF ReadHeard, Partial, Success, Rest
  <2> QED BY <1>0, <2>1, <2>3, <2>5 DEF Heard, TargetHeard, KernelHeard
<1>4. ASSUME NEW r, Read(r), UNCHANGED <<cfg, step, out, tgt>>, 
             query'.tries = 0 => query.tries = 0,
             rsp' = rsp \/ rsp' = AddValues(rsp, r.keys),
             Partial' => /\ query'.tries = 0 /\ query'.at # "send"
                         /\ Covers(tgt, DOMAIN rsp' \cup {MaxSegment})
                         /\ ~ (query'.at = "done" /\ Success')
                         /\ Rest(2)
      PROVE  Heard'
  <2>1. Len(in') \in Nat /\ Len(in) = Len(in') + 1 /\ r = in[1] /\ query.at = "receive"
        /\ \A i \in 1 .. Len(in') : in'[i] = in[i + 1]
    BY <1>4 DEF Read, Popped
  <2>2. 1 \in 1 .. Len(in) /\ \A i \in 1 .. Len(in') : i + 1 \in 1 .. Len(in)
    BY <2>1
  <2>3. ASSUME NEW n \in Nat \ {0}, Rest(n + 1) PROVE Rest(n)'
    <3>1. \A j \in n .. Len(in') : j \in 1 .. Len(in') /\ j + 1 \in n + 1 .. Len(in)
      BY <2>1
    <3> QED BY <2>1, <2>3, <3>1 DEF Rest
  <2>4. LinesHeard'
    <3>1. \A i \in 1 .. Len(in') : AnswerHeard(tgt', in'[i])
      BY <1>0, <1>4, <2>1, <2>2 DEF LinesHeard
    <3>2. Parsing' => Parsing
      BY <1>4 DEF Parsing
    <3>3. ASSUME Parsing', NEW i \in 1 .. Len(in'), Continues(in'[i]) PROVE Rest(i + 1)'
      <4>1. Rest(i + 1 + 1)
        BY <1>0, <2>1, <2>2, <3>2, <3>3 DEF LinesHeard
      <4> QED BY <2>3, <4>1
    <3>4. out' = out /\ tgt' = tgt
      BY <1>4
    <3> QED BY <1>0, <2>1, <3>1, <3>2, <3>3, <3>4 DEF LinesHeard
  <2>5. Within(tgt', rsp')
    <3>1. Within(tgt, rsp) /\ Within(tgt, r.keys)
      BY <1>0, <2>1, <2>2 DEF LinesHeard, ReadHeard, AnswerHeard
    <3> QED BY <1>4, <3>1 DEF Within, AddValues
  <2>6. ReadHeard'
    <3>1. Rest(2) => Rest(1)'
      BY <2>3
    <3> QED BY <1>4, <2>5, <3>1 DEF ReadHeard
  <2>7. kern'.par = kern.par
    BY <1>0, <1>4, AdvancedIs DEF Read, Counted
  <2> QED BY <1>0, <1>4, <2>4, <2>6, <2>7 DEF Heard, TargetHeard, KernelHeard
<1>5. Rest(1) => Rest(2)
  BY <1>0 DEF Rest
<1>6. ASSUME NEW r, Unserved(r) PROVE Heard'
  <2>1. Read(r) /\ UNCHANGED <<cfg, step, out, tgt, rsp>> /\ query.at = "receive"
    BY <1>6 DEF Unserved, Read
  <2>2. /\ query'.tries = 0 => query.tries = 0
        /\ query.tries = 0 => query'.tries = 0 /\ query'.at = "done" /\ ~ Success'
    <3>1. CASE Ended(wrong, status)
      <4> HIDE DEF wrong
      <4>1. /\ query'.error
            /\ \/ query'.at = "done" /\ query'.tries = query.tries
               \/ /\ query'.tries = query.tries + 1
                  /\ query.tries = 0 => ~ wrong.error
        BY <1>1, <3>1, EndedIs
      <4> QED BY <1>0, <1>1, <4>1 DEF Success
    <3>2. CASE Ended(query, "failure")
      <4>1. status' # "success"
        BY <3>2 DEF Ended
      <4> QED BY <1>0, <3>2, <4>1, EndedIs DEF Success
    <3> QED BY <1>6, <3>1, <3>2 DEF Unserved
  <2>3. Partial' => Partial
    BY <2>1 DEF Partial
  <2> QED BY <1>0, <1>4, <1>5, <2>1, <2>2, <2>3 DEF ReadHeard
<1>7. ASSUME NEW r, Takes(r) PROVE Heard'
  <2>1. Read(r) /\ UNCHANGED <<cfg, step, out, tgt>> /\ AnswerOK(r) /\ r.ok /\ r.op = "login"
        /\ query.at = "receive" /\ 1 \in 1 .. Len(in) /\ r = in[1]
    BY <1>7, <1>0 DEF Takes, Read, LinesOK
  <2>2. Noted(r) \in QueryTypes /\ Noted(r).tries = query.tries /\ Noted(r).at = query.at
    BY <1>0, <2>1 DEF Noted, QueryTypes, AnswerOK
  <2>3. query'.tries = 0 => query.tries = 0
    BY <1>0, <1>7, <2>2, EndedIs DEF Takes
  <2>4. rsp' = rsp \/ rsp' = AddValues(rsp, r.keys)
    BY <1>7 DEF Takes
  <2>5. ASSUME Partial'
        PROVE  /\ query'.tries = 0 /\ query'.at # "send"
               /\ Covers(tgt, DOMAIN rsp' \cup {MaxSegment})
               /\ ~ (query'.at = "done" /\ Success')
               /\ Rest(2)
    <3>1. step = "negotiate" /\ Carries(rsp') /\ ~ Covers(tgt, DOMAIN rsp')
      BY <2>1, <2>5 DEF Partial
    <3>2. DOMAIN rsp \subseteq DOMAIN rsp'
      BY <2>4 DEF AddValues
    <3>3. ~ Covers(tgt, DOMAIN rsp)
      BY <3>1, <3>2 DEF Covers
    <3>4. query.tries = 0
      <4>1. CASE query.tries # 0
        BY <1>0, <1>7, <3>1, <4>1 DEF Takes, ReadHeard, Partial
      <4> QED BY <4>1
    <3>5. query.ask = "parameters"
      BY <1>0, <3>1 DEF InitiatorOK, Fits
    <3>6. rsp' = AddValues(rsp, r.keys)
      BY <1>7, <3>4, <3>5 DEF Takes
    <3>7. DOMAIN rsp' = DOMAIN rsp \cup DOMAIN r.keys
      BY <3>6 DEF AddValues
    <3>8. ~ Carries(rsp)
      <4>1. ASSUME Carries(rsp) PROVE FALSE
        <5>1. Rest(1) /\ Covers(tgt, DOMAIN rsp \cup {MaxSegment})
          BY <1>0, <3>1, <3>3, <4>1 DEF ReadHeard, Partial
        <5>2. MaxSegment \in DOMAIN r.keys
          BY <2>1, <5>1 DEF Rest
        <5> QED BY <3>1, <3>7, <5>1, <5>2 DEF Covers
      <4> QED BY <4>1
    <3>9. Carries(r.keys)
      BY <3>1, <3>7, <3>8 DEF Carries
    <3>10. Covers(tgt, DOMAIN r.keys \cup (IF r.cont THEN {MaxSegment} ELSE {}))
      BY <1>0, <2>1, <3>9 DEF LinesHeard, AnswerHeard
    <3>11. r.cont
      BY <3>1, <3>7, <3>10 DEF Covers
    <3>12. Covers(tgt, DOMAIN rsp' \cup {MaxSegment})
      BY <3>7, <3>10, <3>11 DEF Covers
    <3>13. query'.tries = 0 /\ query'.at = "receive"
      BY <1>7, <2>1, <2>2, <3>4, <3>11 DEF Takes
    <3>14. Rest(2)
      BY <1>0, <2>1, <3>1, <3>4, <3>11 DEF LinesHeard, Parsing, Continues
    <3> QED BY <3>12, <3>13, <3>14
  <2> QED BY <1>4, <2>1, <2>3, <2>4, <2>5
<1>8. ASSUME NEW r, Lists(r) PROVE Heard'
  <2>1. Read(r) /\ UNCHANGED <<cfg, step, out, tgt, rsp>> /\ step = "text"
    BY <1>8 DEF Lists
  <2>2. query'.tries = 0 => query.tries = 0
    BY <1>0, <1>8, EndedIs DEF Lists
  <2>3. ~ Partial'
    BY <2>1 DEF Partial
  <2> QED BY <1>4, <2>1, <2>2, <2>3
<1>9. ASSUME UNCHANGED <<cfg, out, in, tgt>>, rsp' = rsp \/ rsp' = Empty, step # "negotiate",
             step' = "negotiate" => rsp' = Empty /\ query'.at = "send",
             KernelHeard'
      PROVE  Heard'
  <2>1. NoParameters(Empty) /\ ~ Carries(Empty) /\ Within(tgt, Empty)
    BY DEF NoParameters, Carries, Empty, Within
  <2>2. Within(tgt', rsp')
    BY <1>0, <1>9, <2>1 DEF ReadHeard
  <2>3. ~ Partial'
    BY <1>9, <2>1 DEF Partial
  <2>4. Parsing' => BeforeAgree'
    BY <1>9 DEF Parsing, AskedOnce, PastParameters
  <2>5. Parsing' => \A i \in 1 .. Len(in) : ~ Continues(in[i])
    BY <1>9, <2>4 DEF BeforeAgree, Continues
  <2>6. LinesHeard'
    BY <1>0, <1>9, <2>5 DEF LinesHeard, Parsing
  <2> QED BY <1>0, <1>9, <2>2, <2>3, <2>6 DEF Heard, TargetHeard, ReadHeard
<1>10. CASE AuthNegotiate
  <2>1. UNCHANGED <<cfg, out, in, tgt>> /\ kern'.par = kern.par /\ step = "auth"
    BY <1>0, <1>10 DEF AuthNegotiate, InitiatorOK, QueryEnded
  <2>2. step' \in {"chap", "none", "negotiate", "released"} /\ cfg.kind # "probe"
        /\ (rsp' = rsp \/ rsp' = Empty)
        /\ (step' = "negotiate" => rsp' = Empty /\ query'.at = "send")
    BY <1>10 DEF AuthNegotiate, Next_, Release, Query
  <2>3. KernelHeard'
    BY <1>0, <2>1, <2>2 DEF KernelHeard
  <2> QED BY <1>9, <2>1, <2>2, <2>3
<1>11. ASSUME UNCHANGED <<cfg, kern, out, in, tgt>>, rsp' = rsp \/ rsp' = Empty,
              \/ step = "auth" /\ step' \in {"probed", "released"}
              \/ step \in {"chap", "response", "none"}
                 /\ step' \in {"response", "negotiate", "released"}
              \/ step = "text" /\ step' \in {"listed", "released"},
              step' = "negotiate" => rsp' = Empty /\ query'.at = "send"
       PROVE  Heard'
  <2>1. KernelHeard'
    BY <1>0, <1>11 DEF KernelHeard
  <2> QED BY <1>9, <1>11, <2>1
<1>12. CASE AuthInterrogate
  BY <1>11, <1>12 DEF AuthInterrogate, QueryEnded, Release
<1>13. CASE ChapChallenged
  BY <1>11, <1>13 DEF ChapChallenged, QueryEnded, Next_, Release
<1>14. CASE AuthNegotiateCHAP
  BY <1>11, <1>14 DEF AuthNegotiateCHAP, QueryEnded, Negotiate, Next_, Release, Query
<1>15. CASE WithoutAuthentication
  BY <1>11, <1>15 DEF WithoutAuthentication, QueryEnded, Negotiate, Next_, Release, Query
<1>16. CASE QueryPortalForTargets
  BY <1>11, <1>16 DEF QueryPortalForTargets, QueryEnded
<1>17. CASE NegotiateSession
  <2>1. UNCHANGED <<cfg, out, in, tgt>> /\ step = "negotiate" /\ (rsp' = rsp \/ rsp' = Empty)
        /\ step' \in {"text", "full", "released"} /\ (step' = "full" => cfg.kind # "discovery")
    BY <1>17 DEF NegotiateSession, QueryEnded, Next_, Release
  <2>2. Within(tgt', rsp') /\ ~ Partial' /\ ~ Parsing'
    BY <1>0, <2>1 DEF ReadHeard, Within, Empty, Partial, Parsing
  <2>3. LinesHeard'
    BY <1>0, <2>1, <2>2 DEF LinesHeard
  <2>4. kern'.par \in {kern.par, Parse(kern.par, rsp)}
    BY <1>0, <1>17 DEF NegotiateSession, InitiatorOK
  <2>5. kern.par = Offered /\ cfg.kind # "probe"
    BY <1>0, <2>1 DEF KernelHeard
  <2>6. Parameters(Parse(Offered, rsp)) /\ Parameters(kern.par)
    BY <1>0, ParseTyped DEF ReadHeard, KernelHeard
  <2>7. Parameters(kern'.par)
    BY <2>4, <2>5, <2>6
  <2>8. cfg.kind \in {"login", "discovery", "probe"}
    BY <1>0 DEF InitiatorOK, Configs
  <2>9. KernelHeard'
    BY <2>1, <2>5, <2>7, <2>8 DEF KernelHeard
  <2> QED BY <1>0, <2>1, <2>2, <2>3, <2>9 DEF Heard, TargetHeard, ReadHeard
<1> QED BY <1>2, <1>3, <1>6, <1>7, <1>8, <1>10, <1>12, <1>13, <1>14, <1>15, <1>16, <1>17,
           InitiatorSteps DEF Turns

-----------------------------------------------------------------------------
(***************************************************************************)
(* In full feature phase the parameters of the kernel are no more than     *)
(* what the target agreed to.                                              *)
(***************************************************************************)
FirstBurstAgreed ==
    IF "FirstBurstLength" \in DOMAIN tgt.heard
    THEN Smaller(Offered["FirstBurstLength"], tgt.heard["FirstBurstLength"])
    ELSE Offered["FirstBurstLength"]

Governs(par) ==
    /\ MaxSegment \in DOMAIN tgt.heard /\ ~ tgt.late =>
        par[MaxSegment] = tgt.heard[MaxSegment]
    /\ \/ par["FirstBurstLength"] <= FirstBurstAgreed
       \/ par["InitialR2T"] /\ ~ par["ImmediateData"]
    /\ par["ImmediateData"] => Says(tgt.heard, "ImmediateData")
    /\ Says(tgt.heard, "InitialR2T") => par["InitialR2T"]

Governed == step = "full" => Governs(kern.par)

\* What the kernel is left with is within what the target declared.
LEMMA ParseGoverns ==
  ASSUME TargetHeard, Within(tgt, rsp), Covers(tgt, DOMAIN rsp), Carries(rsp),
         cfg.kind = "login"
  PROVE  Governs(Parse(Offered, rsp))
<1> DEFINE par == ParseSWDict(Offered, rsp)
           both == Parse(Offered, rsp)
<1>1. /\ {"FirstBurstLength", "InitialR2T", "ImmediateData", MaxSegment} \subseteq Keys
      /\ "FirstBurstLength" \notin Digests \cup Flags \cup {MaxSegment}
      /\ {"InitialR2T", "ImmediateData"} \subseteq Flags /\ Flags \cap (Digests \cup {MaxSegment}) = {}
      /\ MaxSegment \notin Digests
      /\ "ErrorRecoveryLevel" \in Keys /\ "FirstBurstLength" \in Numeric
      /\ Flags \cap Numeric = {}
  BY DEF Keys, Numeric, Common, Counts, Lengths, Flags, Digests, MaxSegment
<1>2. DOMAIN par = Keys /\ DOMAIN both = Keys
  BY DEF ParseSWDict, Parse, ParseCWDict
<1>3. /\ both["FirstBurstLength"] = par["FirstBurstLength"]
      /\ both["InitialR2T"] = par["InitialR2T"]
      /\ both["ImmediateData"] = par["ImmediateData"]
      /\ MaxSegment \in DOMAIN rsp => both[MaxSegment] = rsp[MaxSegment]
  <2>1. both = ParseCWDict(par, rsp)
    BY DEF Parse
  <2> HIDE DEF par, both
  <2> QED BY <1>1, <1>2, <2>1 DEF ParseCWDict, MaxSegment
<1>4. \A k \in DOMAIN rsp \cap Keys : k \in DOMAIN tgt.heard /\ rsp[k] = tgt.heard[k]
  BY DEF Within
<1>5. \A k \in DOMAIN tgt.heard : k \in DOMAIN rsp \/ (tgt.late /\ k = MaxSegment)
  BY DEF Covers
<1>6. MaxSegment \in DOMAIN tgt.heard /\ ~ tgt.late => both[MaxSegment] = tgt.heard[MaxSegment]
  BY <1>1, <1>3, <1>4, <1>5
<1>7. \A k \in {"FirstBurstLength", "InitialR2T", "ImmediateData"} :
        /\ Offered[k] \in IF k = "FirstBurstLength" THEN Nat ELSE BOOLEAN
        /\ k \in DOMAIN rsp <=> k \in DOMAIN tgt.heard
        /\ k \in DOMAIN rsp => /\ rsp[k] = tgt.heard[k]
                               /\ rsp[k] \in IF k = "FirstBurstLength" THEN Nat ELSE BOOLEAN
  <2>1. \A k \in {"FirstBurstLength", "InitialR2T", "ImmediateData"} : k # MaxSegment
    BY DEF MaxSegment
  <2> QED BY <1>1, <1>4, <1>5, <2>1, NegotiationAssumption DEF TargetHeard, IsDictionary
<1>8. "ImmediateData" \notin DOMAIN rsp => ~ Offered["ImmediateData"]
  <2>1. DOMAIN tgt.heard # {}
    BY <1>1, <1>4 DEF Carries
  <2> QED BY <1>7, <2>1 DEF TargetHeard
<1>9. /\ par["InitialR2T"] = IF "InitialR2T" \in DOMAIN rsp
                             THEN Offered["InitialR2T"] \/ rsp["InitialR2T"]
                             ELSE Offered["InitialR2T"]
      /\ par["ImmediateData"] = IF "ImmediateData" \in DOMAIN rsp
                                THEN Offered["ImmediateData"] /\ rsp["ImmediateData"]
                                ELSE Offered["ImmediateData"]
      /\ par["FirstBurstLength"] =
            IF "FirstBurstLength" \in DOMAIN rsp /\ FirstBurstMatters(rsp)
            THEN Smaller(Offered["FirstBurstLength"], rsp["FirstBurstLength"])
            ELSE Offered["FirstBurstLength"]
  <2>1. "InitialR2T" # "ImmediateData" /\ "FirstBurstLength" # "InitialR2T"
    OBVIOUS
  <2> QED BY <1>1, <2>1 DEF ParseSWDict
<1> HIDE DEF par, both
<1>10. both["ImmediateData"] => Says(tgt.heard, "ImmediateData")
  BY <1>3, <1>7, <1>8, <1>9 DEF Says
<1>11. Says(tgt.heard, "InitialR2T") => both["InitialR2T"]
  BY <1>3, <1>7, <1>9 DEF Says
<1>12. \/ both["FirstBurstLength"] <= FirstBurstAgreed
       \/ both["InitialR2T"] /\ ~ both["ImmediateData"]
  <2>1. CASE "FirstBurstLength" \notin DOMAIN rsp
    BY <1>3, <1>7, <1>9, <2>1 DEF FirstBurstAgreed
  <2>2. CASE "FirstBurstLength" \in DOMAIN rsp /\ FirstBurstMatters(rsp)
    BY <1>3, <1>7, <1>9, <2>2 DEF FirstBurstAgreed, Smaller
  <2>3. CASE ~ FirstBurstMatters(rsp)
    <3>1. both["InitialR2T"]
      BY <1>3, <1>7, <1>9, <2>3 DEF FirstBurstMatters
    <3>2. ~ both["ImmediateData"]
      BY <1>3, <1>7, <1>8, <1>9, <2>3 DEF FirstBurstMatters, Says
    <3> QED BY <3>1, <3>2
  <2> QED BY <2>1, <2>2, <2>3
<1> QED BY <1>6, <1>10, <1>11, <1>12 DEF Governs, both

\* A target whose session is in use declares nothing more.
LEMMA GovernedTarget ==
  ASSUME Shapes, Staged, Governed, Target
  PROVE  Governed' /\ (step = "full" => tgt'.heard = tgt.heard /\ tgt'.late = tgt.late)
<1>0. UNCHANGED <<step, kern>>
  BY TargetSteps DEF Refuses, Serves, Meets, Replied, Continued, Leave, initiator
<1>1. ASSUME step = "full" PROVE tgt'.heard = tgt.heard /\ tgt'.late = tgt.late
  <2>1. ASSUME NEW r, Serves(r) PROVE tgt'.heard = tgt.heard /\ tgt'.late = tgt.late
    <3>1. out[1].cur = tgt.stage /\ Proper(out[1])
      BY <2>1 DEF Serves, Meets, Replied, Popped, Shapes, LinesOK
    <3>2. out[1].ask # "parameters"
      BY <1>1, <3>1 DEF Staged, Proper
    <3> QED BY <2>1, <3>2 DEF Serves
  <2>2. ASSUME NEW r, Refuses(r) \/ Continued(r) PROVE tgt'.heard = tgt.heard /\ tgt'.late = tgt.late
    BY <2>2 DEF Refuses, Continued, Shapes, TargetOK
  <2>3. ASSUME Leave PROVE tgt'.heard = tgt.heard /\ tgt'.late = tgt.late
    BY <2>3 DEF Leave, Shapes, TargetOK
  <2> QED BY <2>1, <2>2, <2>3, TargetSteps
<1> QED BY <1>0, <1>1 DEF Governed, Governs, FirstBurstAgreed, Says

\* The initiator hands over a session after it parsed the parameters.
LEMMA GovernedInitiator ==
  ASSUME Shapes, Heard, Governed, Initiator
  PROVE  Governed' /\ step # "full"
<1>1. step # "full"
  BY InitiatorAtWork
<1>2. ASSUME step' = "full" PROVE Governs(kern.par)'
  <2>1. NegotiateSession
    BY <1>1, <1>2 DEF Initiator, Send, RecvFails, Rejected, Failed, Answered, AuthNegotiate,
       AuthInterrogate, ChapChallenged, AuthNegotiateCHAP, WithoutAuthentication, Next_, Release,
       Negotiate, ListingAnswered, QueryPortalForTargets
  <2>2. Success /\ ~ ParseFails(rsp) /\ cfg.kind # "discovery" /\ UNCHANGED tgt
        /\ QueryEnded("negotiate") /\ kern' = [kern EXCEPT !.tsih = query.tsih, !.par = Parse(@, rsp)]
    BY <1>2, <2>1 DEF NegotiateSession, Next_, Release
  <2>3. kern.par = Offered /\ cfg.kind = "login"
    BY <2>2 DEF Heard, KernelHeard, QueryEnded, Shapes, InitiatorOK, Configs
  <2>4. kern'.par = Parse(Offered, rsp)
    BY <2>2, <2>3 DEF Shapes, InitiatorOK
  <2>5. Carries(rsp) /\ Covers(tgt, DOMAIN rsp)
    BY <2>2, AllHeard DEF Heard
  <2>6. Governs(Parse(Offered, rsp))
    BY <2>3, <2>5, ParseGoverns DEF Heard, ReadHeard
  <2> QED BY <2>2, <2>4, <2>6 DEF Governs, FirstBurstAgreed
<1> QED BY <1>1, <1>2 DEF Governed

-----------------------------------------------------------------------------
(***************************************************************************)
(* How many requests and answers are on their way.  A query sends a        *)
(* request per try and reads an answer before it tries again, so that what *)
(* is on its way grows only with tries that time out; what it leaves to    *)
(* the next query is not answered if the target has moved on.              *)
(***************************************************************************)
Pending == Len(out) + Len(in)

Securing == step \in {"auth", "chap", "response", "none"}
Succeeded == query.at = "done" /\ Success

\* No query is about to send, or to send again.
Waits == Querying => query.at # "send" /\ query.tries = 0

\* Requests of another stage are refused.
OutOfStep ==
    /\ \A i \in 1 .. Len(in) : ~ in[i].ok
    /\ ~ tgt.open \/ (Len(out) > 0 /\ out[1].cur # tgt.stage)

\* The target will come to the parameters it was asked for.
WillAgree ==
    tgt.open /\ Len(out) > 0 /\ out[1].cur = tgt.stage /\ OnItsWay("parameters")

\* A listing is asked for last of all, and so are the parameters if they are agreed.
LastAsked ==
    /\ \A i \in 1 .. Len(out) : out[i].ask = "targets" =>
        i = Len(out) /\ step \notin LoggingIn /\ Waits
    /\ \A i \in 1 .. Len(in) : in[i].ok /\ in[i].op = "text" =>
        step \notin LoggingIn /\ Waits
    /\ WillAgree => out[Len(out)].ask = "parameters" /\ Waits

\* An answer that continues is the last one, and nothing of it has been read.
LastAnswered ==
    \A i \in 1 .. Len(in) : in[i].cont =>
        /\ Len(out) = 0 /\ ~ Securing /\ Waits
        /\ in[i].op = "login" =>
            NoParameters(rsp) /\ \A j \in 1 .. i - 1 : NoParameters(in[j].keys)

\* Authentication: a target that moved on refuses what is still on its way.
Secured ==
    /\ step = "auth" /\ cfg.initiator = "CHAP" => query.next = "security"
    /\ Securing =>
        /\ \A i \in 1 .. Len(out) : out[i].cur = "security"
        /\ query.tries = 0 => Pending <= IF query.at = "send" \/ Succeeded THEN 0 ELSE 1
        /\ \A i \in 1 .. Len(in) : in[i].transit =>
            tgt.stage # "security" /\ \A j \in i + 1 .. Len(in) : ~ in[j].ok
        /\ query.transit =>
            tgt.stage # "security" /\ \A j \in 1 .. Len(in) : ~ in[j].ok
        /\ query.tries = 0 => \A i \in 1 .. Len(in) :
            in[i].ok /\ ~ in[i].transit => tgt.stage = "security"

\* The parameters: what authentication left is refused, or is one request.
Opening ==
    Parsing =>
        /\ \A i \in 1 .. Len(out) : out[i].ask = "parameters" \/ out[i].cur = "security"
        /\ OutOfStep \/ Pending <= IF query.at = "send" THEN 1 ELSE 2
        /\ Len(in) > 0 /\ in[1].ok /\ ~ in[1].transit =>
            /\ query.at = "send" => tgt.stage = "security" /\ Len(out) = 0
            /\ query.at = "receive" =>
                ~ WillAgree /\ \A i \in 2 .. Len(in) : ~ in[i].cont

\* Each try after the first adds one at most.
Few ==
    /\ Pending <= 1 + MaxRetries
    /\ Querying /\ query.at = "send" => Pending <= MaxRetries
    /\ Querying /\ query.tries > 0 =>
        Pending <= IF query.at = "send" \/ Succeeded THEN query.tries ELSE query.tries + 1
    /\ step = "negotiate" /\ Succeeded /\ Carries(rsp) => Pending <= MaxRetries

Bounded == LastAsked /\ LastAnswered /\ Secured /\ Opening /\ Few

\* Nothing is on its way at the start.
LEMMA BoundedInit == LoginInit => Bounded
<1> SUFFICES ASSUME LoginInit PROVE Bounded
  OBVIOUS
<1>1. /\ Len(out) = 0 /\ Len(in) = 0 /\ step = "auth" /\ query = Login(cfg)
      /\ MaxRetries \in Nat /\ cfg \in Configs
  BY EmptyIs, LoginAssumption DEF LoginInit
<1>2. /\ query.at = "send" /\ query.tries = 0 /\ query.transit = FALSE
      /\ cfg.initiator = "CHAP" => query.next = "security"
  BY <1>1 DEF Login, Query
<1> QED BY <1>1, <1>2 DEF Bounded, LastAsked, LastAnswered, Secured, Opening, Few, Pending,
   Parsing, WillAgree, Succeeded, Securing

\* A request that is answered leaves its line and its answer enters the other.
LEMMA RepliedCounts ==
  ASSUME Shapes, NEW r, Replied(r)
  PROVE  /\ Len(out) \in Nat /\ Len(in) \in Nat /\ Len(out) > 0
         /\ Len(out') \in Nat /\ Len(in') \in Nat
         /\ Len(out') = Len(out) - 1 /\ Len(in') = Len(in) + 1 /\ Pending' = Pending
         /\ \A i \in 1 .. Len(out') : i + 1 \in 1 .. Len(out) /\ out'[i] = out[i + 1]
         /\ in'[Len(in')] = r /\ \A i \in 1 .. Len(in) : in'[i] = in[i]
         /\ \A i \in 1 .. Len(in') : i = Len(in') \/ i \in 1 .. Len(in)
BY LenIs DEF Shapes, LinesOK, Replied, Popped, Appended, Pending

\* The target's refusal closes the connection.
LEMMA BoundedRefused ==
  ASSUME Shapes, Bounded, NEW r, Refuses(r)
  PROVE  Bounded'
<1>0. /\ UNCHANGED <<cfg, step, query, status, rsp>> /\ Replied(r) /\ ~ r.ok /\ ~ r.cont
      /\ ~ r.transit /\ ~ tgt'.open /\ tgt'.stage = tgt.stage
  BY DEF Refuses, Replied, initiator, AnswerOK, Shapes, TargetOK
<1>1. /\ Len(out) \in Nat /\ Len(in) \in Nat /\ Len(out) > 0
      /\ Len(out') \in Nat /\ Len(in') \in Nat
      /\ Len(out') = Len(out) - 1 /\ Len(in') = Len(in) + 1 /\ Pending' = Pending
      /\ \A i \in 1 .. Len(out') : i + 1 \in 1 .. Len(out) /\ out'[i] = out[i + 1]
      /\ in'[Len(in')] = r /\ \A i \in 1 .. Len(in) : in'[i] = in[i]
      /\ \A i \in 1 .. Len(in') : i = Len(in') \/ i \in 1 .. Len(in)
  BY <1>0, RepliedCounts
<1>2. \A i \in 1 .. Len(in') : ~ in'[i].cont
  BY <1>0, <1>1 DEF Bounded, LastAnswered
<1>3. Waits' = Waits /\ Securing' = Securing /\ Succeeded' = Succeeded /\ Parsing' = Parsing
  BY <1>0 DEF Waits, Querying, Securing, Succeeded, Success, Parsing
<1>4. LastAsked'
  <2>1. ~ WillAgree'
    BY <1>0 DEF WillAgree
  <2>2. ASSUME NEW i \in 1 .. Len(out'), out'[i].ask = "targets"
        PROVE  i = Len(out') /\ step \notin LoggingIn /\ Waits
    <3>1. i + 1 \in 1 .. Len(out) /\ out[i + 1].ask = "targets"
      BY <1>1, <2>2
    <3> QED BY <1>1, <3>1 DEF Bounded, LastAsked
  <2>3. ASSUME NEW i \in 1 .. Len(in'), in'[i].ok, in'[i].op = "text"
        PROVE  step \notin LoggingIn /\ Waits
    BY <1>0, <1>1, <2>3 DEF Bounded, LastAsked
  <2> QED BY <1>0, <1>3, <2>1, <2>2, <2>3 DEF LastAsked
<1>5. LastAnswered'
  BY <1>2 DEF LastAnswered
<1>6. Secured'
  <2>1. \A i \in 1 .. Len(in') : in'[i].ok \/ in'[i].transit => i \in 1 .. Len(in)
    BY <1>0, <1>1
  <2>2. \A i \in 1 .. Len(in) : \A j \in i + 1 .. Len(in') :
            ~ in'[j].ok \/ (j \in i + 1 .. Len(in) /\ in'[j] = in[j])
    BY <1>0, <1>1
  <2>3. step = "auth" /\ cfg.initiator = "CHAP" => query.next = "security"
    BY DEF Bounded, Secured
  <2>4. ASSUME Securing
        PROVE  /\ \A i \in 1 .. Len(out') : out'[i].cur = "security"
               /\ query.tries = 0 => Pending <= IF query.at = "send" \/ Succeeded THEN 0 ELSE 1
    BY <1>1, <2>4 DEF Bounded, Secured
  <2>5. ASSUME Securing, NEW i \in 1 .. Len(in'), in'[i].transit
        PROVE  tgt.stage # "security" /\ \A j \in i + 1 .. Len(in') : ~ in'[j].ok
    <3>1. i \in 1 .. Len(in) /\ in[i].transit
      BY <1>1, <2>1, <2>5
    <3>2. tgt.stage # "security" /\ \A j \in i + 1 .. Len(in) : ~ in[j].ok
      BY <2>5, <3>1 DEF Bounded, Secured
    <3> QED BY <2>2, <3>1, <3>2
  <2>6. ASSUME Securing, query.transit
        PROVE  tgt.stage # "security" /\ \A j \in 1 .. Len(in') : ~ in'[j].ok
    BY <1>1, <2>1, <2>6 DEF Bounded, Secured
  <2>7. ASSUME Securing, query.tries = 0, NEW i \in 1 .. Len(in'), in'[i].ok, ~ in'[i].transit
        PROVE  tgt.stage = "security"
    BY <1>1, <2>1, <2>7 DEF Bounded, Secured
  <2> QED BY <1>0, <1>1, <1>3, <2>3, <2>4, <2>5, <2>6, <2>7 DEF Secured
<1>7. Opening'
  <2>1. OutOfStep => OutOfStep'
    BY <1>0, <1>1 DEF OutOfStep
  <2>2. 1 \in 1 .. Len(in') /\ (in'[1].ok => Len(in) > 0 /\ in'[1] = in[1])
    BY <1>0, <1>1
  <2>3. ~ WillAgree'
    BY <1>0 DEF WillAgree
  <2>4. ASSUME Parsing
        PROVE  /\ \A i \in 1 .. Len(out') : out'[i].ask = "parameters" \/ out'[i].cur = "security"
               /\ OutOfStep' \/ Pending <= IF query.at = "send" THEN 1 ELSE 2
    BY <1>1, <2>1, <2>4 DEF Bounded, Opening
  <2>5. ASSUME Parsing, in'[1].ok, ~ in'[1].transit, query.at = "send"
        PROVE  tgt.stage = "security" /\ Len(out') = 0
    BY <1>1, <2>2, <2>5 DEF Bounded, Opening
  <2>6. \A i \in 2 .. Len(in') : ~ in'[i].cont
    BY <1>1, <1>2
  <2> HIDE DEF OutOfStep
  <2> QED BY <1>0, <1>1, <1>3, <2>3, <2>4, <2>5, <2>6 DEF Opening
<1>8. Few'
  BY <1>0, <1>1, <1>3 DEF Bounded, Few, Querying
<1> QED BY <1>4, <1>5, <1>6, <1>7, <1>8 DEF Bounded

\* A target that leaves takes the requests with it.
LEMMA BoundedLeft ==
  ASSUME Shapes, Bounded, Leave
  PROVE  Bounded'
<1>0. /\ UNCHANGED <<cfg, step, query, status, rsp, in>> /\ Len(out') = 0
      /\ ~ tgt'.open /\ tgt'.stage = tgt.stage
      /\ Len(in) \in Nat /\ Len(out) \in Nat /\ Pending' <= Pending /\ Pending' \in Nat
      /\ Pending \in Nat /\ MaxRetries \in Nat
      /\ query.tries \in Nat
  BY EmptyIs, LenIs, LoginAssumption
     DEF Leave, initiator, Shapes, LinesOK, TargetOK, InitiatorOK, QueryTypes, Pending
<1>1. Waits' = Waits /\ Securing' = Securing /\ Succeeded' = Succeeded /\ Parsing' = Parsing
  BY <1>0 DEF Waits, Querying, Securing, Succeeded, Success, Parsing
<1>2. LastAsked' /\ LastAnswered' /\ ~ WillAgree'
  BY <1>0, <1>1 DEF Bounded, LastAsked, LastAnswered, WillAgree
<1>3. Secured'
  BY <1>0, <1>1 DEF Bounded, Secured
<1>4. Opening'
  <2>1. OutOfStep => OutOfStep'
    BY <1>0 DEF OutOfStep
  <2> QED BY <1>0, <1>1, <1>2, <2>1 DEF Bounded, Opening
<1>5. Few'
  BY <1>0, <1>1 DEF Bounded, Few, Querying
<1> QED BY <1>2, <1>3, <1>4, <1>5 DEF Bounded

\* An answer is to a request of the target's stage, and one that continues to the
\* last request of all.
LEMMA BoundedServed ==
  ASSUME Shapes, AskedOnce, Bounded, NEW r, Serves(r)
  PROVE  Bounded'
<1>0. /\ UNCHANGED <<cfg, step, query, status, rsp>> /\ Replied(r) /\ r.ok /\ tgt.open
      /\ out[1].cur = tgt.stage /\ (r.transit => out[1].cur # out[1].next)
      /\ tgt'.stage = IF r.transit THEN out[1].next ELSE tgt.stage
      /\ r.op = IF out[1].ask = "targets" THEN "text" ELSE "login"
      /\ r.cont => out[1].ask \in {"targets", "parameters"}
  BY DEF Serves, Meets, Replied, initiator
<1>1. /\ Len(out) \in Nat /\ Len(in) \in Nat /\ Len(out) > 0
      /\ Len(out') \in Nat /\ Len(in') \in Nat
      /\ Len(out') = Len(out) - 1 /\ Len(in') = Len(in) + 1 /\ Pending' = Pending
      /\ \A i \in 1 .. Len(out') : i + 1 \in 1 .. Len(out) /\ out'[i] = out[i + 1]
      /\ in'[Len(in')] = r /\ \A i \in 1 .. Len(in) : in'[i] = in[i]
      /\ \A i \in 1 .. Len(in') : i = Len(in') \/ i \in 1 .. Len(in)
  BY <1>0, RepliedCounts
<1>2. Waits' = Waits /\ Securing' = Securing /\ Succeeded' = Succeeded /\ Parsing' = Parsing
  BY <1>0 DEF Waits, Querying, Securing, Succeeded, Success, Parsing
<1>3. \A i \in 1 .. Len(in) : ~ in[i].cont
  BY <1>1 DEF Bounded, LastAnswered
<1>4. 1 \in 1 .. Len(out) /\ out[1] \in Requests /\ Proper(out[1])
  BY <1>1 DEF Shapes, LinesOK
<1>5. OnItsWay("parameters") => WillAgree
  BY <1>0, <1>1 DEF WillAgree
<1>6. OnItsWay("parameters")' => OnItsWay("parameters") /\ out[1].ask # "parameters"
  <2>1. \A i \in 1 .. Len(out') : i + 1 # 1
    BY <1>1
  <2> QED BY <1>1, <1>4, <2>1 DEF OnItsWay, AskedOnce, Once
<1>7. ~ OutOfStep
  BY <1>0 DEF OutOfStep, Shapes, TargetOK
<1>8. LastAsked'
  <2>1. \A i \in 1 .. Len(out') : out'[i].ask = "targets" =>
          i = Len(out') /\ step \notin LoggingIn /\ Waits
    BY <1>1 DEF Bounded, LastAsked
  <2>2. \A i \in 1 .. Len(in') : in'[i].ok /\ in'[i].op = "text" => step \notin LoggingIn /\ Waits
    BY <1>0, <1>1, <1>4 DEF Bounded, LastAsked
  <2>3. OnItsWay("parameters")' => out'[Len(out')].ask = "parameters" /\ Waits
    <3>1. OnItsWay("parameters")' => Len(out') > 0
      BY <1>1 DEF OnItsWay
    <3> QED BY <1>1, <1>5, <1>6, <3>1 DEF Bounded, LastAsked
  <2> QED BY <1>0, <1>2, <2>1, <2>2, <2>3 DEF LastAsked, WillAgree
<1>9. ASSUME r.cont
      PROVE  /\ Len(out') = 0 /\ ~ Securing /\ Waits
             /\ r.op = "login" => NoParameters(rsp) /\ \A j \in 1 .. Len(in) : NoParameters(in[j].keys)
  <2>1. CASE out[1].ask = "targets"
    BY <1>0, <1>1, <1>4, <2>1 DEF Bounded, LastAsked, Securing, LoggingIn
  <2>2. CASE out[1].ask = "parameters"
    <3>1. OnItsWay("parameters")
      BY <1>4, <2>2 DEF OnItsWay
    <3>2. Len(out) = 1
      BY <1>1, <1>4, <1>5, <2>2, <3>1 DEF Bounded, LastAsked, AskedOnce, Once
    <3>3. PastParameters /\ BeforeAgree
      BY <3>1 DEF AskedOnce
    <3> QED BY <1>1, <1>5, <3>1, <3>2, <3>3
            DEF Bounded, LastAsked, PastParameters, BeforeAgree, Securing
  <2> QED BY <1>0, <1>9, <2>1, <2>2
<1>10. LastAnswered'
  <2>1. \A i \in 1 .. Len(in') : in'[i].cont => i = Len(in') /\ r.cont
    BY <1>1, <1>3
  <2>2. \A j \in 1 .. Len(in') - 1 : j \in 1 .. Len(in) /\ in'[j] = in[j]
    BY <1>1
  <2> QED BY <1>0, <1>1, <1>2, <1>9, <2>1, <2>2 DEF LastAnswered
<1>11. Secured'
  <2> SUFFICES ASSUME Securing
               PROVE  /\ \A i \in 1 .. Len(out') : out'[i].cur = "security"
                      /\ query.tries = 0 =>
                            Pending <= IF query.at = "send" \/ Succeeded THEN 0 ELSE 1
                      /\ \A i \in 1 .. Len(in') : in'[i].transit =>
                          tgt'.stage # "security" /\ \A j \in i + 1 .. Len(in') : ~ in'[j].ok
                      /\ ~ query.transit
                      /\ query.tries = 0 => \A i \in 1 .. Len(in') :
                          in'[i].ok /\ ~ in'[i].transit => tgt'.stage = "security"
    BY <1>0, <1>1, <1>2 DEF Bounded, Secured
  <2>1. out[1].cur = "security" /\ tgt.stage = "security"
    BY <1>0, <1>4 DEF Bounded, Secured
  <2>2. (\A i \in 1 .. Len(in) : ~ in[i].transit) /\ ~ query.transit
    BY <2>1 DEF Bounded, Secured
  <2>3. ASSUME NEW i \in 1 .. Len(in'), in'[i].transit
        PROVE  tgt'.stage # "security" /\ \A j \in i + 1 .. Len(in') : ~ in'[j].ok
    <3>1. i = Len(in') /\ r.transit
      BY <1>1, <2>2, <2>3
    <3>2. tgt'.stage # "security"
      BY <1>0, <2>1, <3>1
    <3>3. \A j \in i + 1 .. Len(in') : FALSE
      BY <1>1, <3>1
    <3> QED BY <3>2, <3>3
  <2>4. ASSUME query.tries = 0, NEW i \in 1 .. Len(in'), ~ in'[i].transit
        PROVE  tgt'.stage = "security"
    <3>1. Pending <= 1
      <4>1. Pending <= IF query.at = "send" \/ Succeeded THEN 0 ELSE 1
        BY <2>4 DEF Bounded, Secured
      <4> QED BY <1>1, <4>1 DEF Pending
    <3>2. Len(in) = 0
      BY <1>1, <3>1 DEF Pending
    <3>3. in'[i] = r
      BY <1>1, <3>2
    <3> QED BY <1>0, <2>1, <2>4, <3>3
  <2> QED BY <1>1, <2>2, <2>3, <2>4 DEF Bounded, Secured
<1>12. Opening'
  <2> SUFFICES ASSUME Parsing
               PROVE  /\ \A i \in 1 .. Len(out') : out'[i].ask = "parameters" \/ out'[i].cur = "security"
                      /\ Pending <= IF query.at = "send" THEN 1 ELSE 2
                      /\ in'[1].ok /\ ~ in'[1].transit =>
                          /\ query.at = "send" => tgt'.stage = "security" /\ Len(out') = 0
                          /\ query.at = "receive" =>
                              ~ WillAgree' /\ \A i \in 2 .. Len(in') : ~ in'[i].cont
    BY <1>0, <1>1, <1>2 DEF Opening
  <2>1. /\ \A i \in 1 .. Len(out) : out[i].ask = "parameters" \/ out[i].cur = "security"
        /\ Pending <= IF query.at = "send" THEN 1 ELSE 2
    BY <1>7 DEF Bounded, Opening
  <2>2. query.at = "send" => ~ OnItsWay("parameters")
    BY DEF AskedOnce, PastParameters, Parsing
  <2>3. CASE Len(in) = 0 /\ in'[1].ok /\ ~ in'[1].transit
    <3>1. in'[1] = r /\ tgt'.stage = tgt.stage /\ Len(in') = 1
      BY <1>0, <1>1, <2>3
    <3>2. ASSUME query.at = "send" PROVE tgt'.stage = "security" /\ Len(out') = 0
      <4>1. Len(out') = 0
        BY <1>1, <2>1, <3>2 DEF Pending
      <4>2. out[1].cur = "security"
        BY <1>4, <2>1, <2>2, <3>2 DEF OnItsWay
      <4> QED BY <1>0, <3>1, <4>1, <4>2
    <3>3. ASSUME query.at = "receive", WillAgree' PROVE FALSE
      <4>1. out[1].ask # "parameters"
        BY <1>6, <3>3 DEF WillAgree
      <4>2. tgt'.stage = "security"
        BY <1>0, <1>4, <2>1, <3>1, <4>1
      <4>3. Pending <= 2
        BY <2>1, <3>3
      <4>4. Len(out') = 1
        BY <1>1, <3>3, <4>3 DEF Pending, WillAgree
      <4>5. out'[1].ask = "parameters"
        <5>1. PICK i \in 1 .. Len(out') : out'[i].ask = "parameters"
          BY <3>3 DEF WillAgree, OnItsWay
        <5>2. i = 1
          BY <4>4
        <5> QED BY <5>1, <5>2
      <4>6. out'[1] = out[2] /\ Proper(out[2])
        <5>1. 1 \in 1 .. Len(out') /\ 1 + 1 = 2
          BY <4>4
        <5>2. 2 \in 1 .. Len(out) /\ out'[1] = out[2]
          BY <1>1, <5>1
        <5> QED BY <5>2 DEF Shapes, LinesOK
      <4> QED BY <3>3, <4>2, <4>5, <4>6 DEF Proper, WillAgree
    <3>4. \A i \in 2 .. Len(in') : FALSE
      BY <3>1
    <3> QED BY <1>1, <2>1, <3>2, <3>3, <3>4
  <2>4. CASE Len(in) > 0 /\ in'[1].ok /\ ~ in'[1].transit
    <3>1. in'[1] = in[1]
      BY <1>1, <2>4
    <3>2. query.at # "send"
      BY <1>1, <2>4, <3>1 DEF Bounded, Opening
    <3>3. query.at = "receive" => ~ OnItsWay("parameters")
      BY <1>5, <2>4, <3>1 DEF Bounded, Opening
    <3>4. query.at = "receive" => ~ WillAgree' /\ out[1].ask # "parameters"
      BY <1>4, <1>6, <3>3 DEF WillAgree, OnItsWay
    <3>5. out[1].ask # "targets"
      BY <1>4 DEF Bounded, LastAsked, Parsing, LoggingIn
    <3>6. query.at = "receive" => ~ r.cont
      BY <1>0, <3>4, <3>5
    <3>7. query.at = "receive" => \A i \in 2 .. Len(in') : ~ in'[i].cont
      BY <1>1, <1>3, <3>6
    <3> QED BY <1>1, <2>1, <3>2, <3>4, <3>7
  <2> QED BY <1>1, <2>1, <2>3, <2>4
<1>13. Few'
  BY <1>0, <1>1, <1>2 DEF Bounded, Few, Querying
<1> QED BY <1>8, <1>10, <1>11, <1>12, <1>13 DEF Bounded

\* The rest of an answer finds the line of requests empty.
LEMMA BoundedContinued ==
  ASSUME Shapes, Bounded, NEW r, Continued(r)
  PROVE  Bounded'
<1>0. /\ UNCHANGED <<cfg, step, query, status, rsp, out>> /\ Appended(in, in', r) /\ tgt.open
      /\ Len(in) = 1 /\ in[1].cont /\ r.ok /\ ~ r.transit /\ ~ r.cont /\ r.op = in[1].op
      /\ tgt'.stage = tgt.stage /\ tgt'.open
  BY DEF Continued, initiator, Shapes, TargetOK
<1>1. /\ Len(in') = 2 /\ in'[1] = in[1] /\ in'[2] = r
      /\ \A i \in 1 .. Len(in') : i = 1 \/ i = 2
  BY <1>0 DEF Appended
<1>2. 1 \in 1 .. Len(in) /\ AnswerOK(in[1])
  BY <1>0 DEF Shapes, LinesOK
<1>3. Len(out) = 0 /\ ~ Securing /\ Waits
      /\ (in[1].op = "login" => NoParameters(rsp))
  BY <1>0, <1>2 DEF Bounded, LastAnswered
<1>4. Waits' = Waits /\ Securing' = Securing /\ Succeeded' = Succeeded /\ Parsing' = Parsing
  BY <1>0 DEF Waits, Querying, Securing, Succeeded, Success, Parsing
<1>5. ~ WillAgree'
  BY <1>0, <1>3 DEF WillAgree
<1>6. in[1].ok /\ ~ in[1].transit
  BY <1>0, <1>2 DEF AnswerOK
<1>7. LastAsked'
  <2>1. r.op = "text" => step \notin LoggingIn
    BY <1>0, <1>2, <1>6 DEF Bounded, LastAsked
  <2>2. \A i \in 1 .. Len(in') : in'[i].op = "text" => step \notin LoggingIn
    BY <1>0, <1>1, <2>1
  <2> QED BY <1>0, <1>3, <1>4, <1>5, <2>2 DEF LastAsked
<1>8. LastAnswered'
  <2>1. \A i \in 1 .. Len(in') : in'[i].cont => i = 1
    BY <1>0, <1>1
  <2> QED BY <1>0, <1>1, <1>3, <1>4, <2>1 DEF LastAnswered
<1>9. Secured'
  BY <1>0, <1>3, <1>4 DEF Bounded, Secured
<1>10. Pending' = 2 /\ Pending = 1
  BY <1>0, <1>1, <1>3 DEF Pending
<1>11. Opening'
  <2> SUFFICES ASSUME Parsing PROVE Opening'
    BY <1>4 DEF Opening
  <2>1. query.at # "send"
    BY <1>3 DEF Waits, Parsing, Querying, LoggingIn
  <2>2. \A i \in 2 .. Len(in') : ~ in'[i].cont
    BY <1>0, <1>1
  <2> QED BY <1>0, <1>3, <1>5, <1>10, <2>1, <2>2 DEF Opening
<1>12. Few'
  <2>1. Pending' <= 1 + MaxRetries
    BY <1>10, LoginAssumption
  <2>2. Querying => query.at # "send" /\ query.tries = 0
    BY <1>3 DEF Waits
  <2>3. step = "negotiate" => ~ Carries(rsp)
    <3>1. step = "negotiate" => in[1].op = "login"
      BY <1>2, <1>6 DEF AnswerOK, Bounded, LastAsked, LoggingIn
    <3> QED BY <1>3, <3>1, KeysApart DEF NoParameters, Carries
  <2> QED BY <1>0, <1>4, <2>1, <2>2, <2>3 DEF Few, Querying
<1> QED BY <1>7, <1>8, <1>9, <1>11, <1>12 DEF Bounded

\* The target keeps it.
LEMMA BoundedTarget ==
  ASSUME Shapes, AskedOnce, Bounded, Target
  PROVE  Bounded'
BY TargetSteps, BoundedRefused, BoundedServed, BoundedContinued, BoundedLeft

\* A request that is sent enters its line.
LEMMA BoundedSends ==
  ASSUME Shapes, Bounded, Sends
  PROVE  Bounded'
<1>0. /\ UNCHANGED <<cfg, step, status, rsp, in, tgt>> /\ Appended(out, out', Request)
      /\ Querying /\ query.at = "send"
      /\ query' = [query EXCEPT !.at = "receive", !.error = FALSE]
      /\ query \in QueryTypes /\ Proper(query) /\ Fits(step, query)
      /\ MaxRetries \in Nat \ {0} /\ query.tries \in Nat
  BY LoginAssumption DEF Sends, Shapes, InitiatorOK, QueryTypes
<1>1. /\ query'.at = "receive" /\ query'.tries = query.tries /\ query'.transit = query.transit
      /\ query'.next = query.next
  BY <1>0 DEF QueryTypes
<1>2. /\ Len(out) \in Nat /\ Len(in) \in Nat /\ Len(out') = Len(out) + 1
      /\ Pending' = Pending + 1 /\ Pending \in Nat
      /\ out'[Len(out')] = Request /\ \A i \in 1 .. Len(out) : out'[i] = out[i]
      /\ \A i \in 1 .. Len(out') : i = Len(out') \/ i \in 1 .. Len(out)
  BY <1>0, LenIs DEF Appended, Shapes, LinesOK, Pending
<1>3. ~ Waits
  BY <1>0 DEF Waits
<1>4. /\ \A i \in 1 .. Len(out) : out[i].ask # "targets"
      /\ \A i \in 1 .. Len(in) : ~ (in[i].ok /\ in[i].op = "text") /\ ~ in[i].cont
      /\ ~ WillAgree
  BY <1>3 DEF Bounded, LastAsked, LastAnswered
<1>5. Request.ask # "blank" => query.tries = 0 /\ Request.ask = query.ask
  BY DEF Request
<1>6. Request.cur = query.cur
  BY DEF Request
<1>7. query.tries = 0 => Waits'
  BY <1>1 DEF Waits
<1>8. LastAsked'
  <2>1. \A i \in 1 .. Len(out') : out'[i].ask = "targets" =>
            i = Len(out') /\ step \notin LoggingIn /\ Waits'
    <3>1. query.ask = "targets" => step \notin LoggingIn
      BY <1>0 DEF Fits, LoggingIn
    <3> QED BY <1>2, <1>4, <1>5, <1>7, <3>1
  <2>2. ASSUME WillAgree' PROVE out'[Len(out')].ask = "parameters" /\ Waits'
    <3>1. PICK i \in 1 .. Len(out') : out'[i].ask = "parameters"
      BY <2>2 DEF WillAgree, OnItsWay
    <3>2. i \notin 1 .. Len(out)
      <4>1. ASSUME i \in 1 .. Len(out) PROVE FALSE
        <5>1. 1 \in 1 .. Len(out) /\ Len(out) > 0
          BY <1>2, <4>1
        <5>2. out'[1] = out[1] /\ OnItsWay("parameters")
          BY <1>2, <3>1, <4>1, <5>1 DEF OnItsWay
        <5> QED BY <1>0, <1>4, <2>2, <5>1, <5>2 DEF WillAgree
      <4> QED BY <4>1
    <3> QED BY <1>2, <1>5, <1>7, <3>1, <3>2
  <2> QED BY <1>0, <1>4, <2>1, <2>2 DEF LastAsked
<1>9. LastAnswered'
  BY <1>0, <1>4 DEF LastAnswered
<1>10. Secured'
  <2>1. Securing => query.cur = "security"
    BY <1>0 DEF Securing, Fits, Proper
  <2>2. Securing' = Securing /\ ~ Succeeded'
    BY <1>0, <1>1 DEF Securing, Succeeded
  <2>3. Securing => \A i \in 1 .. Len(out') : out'[i].cur = "security"
    BY <1>2, <1>6, <2>1 DEF Bounded, Secured
  <2>4. Securing /\ query.tries = 0 => Pending' <= 1
    BY <1>0, <1>2 DEF Bounded, Secured
  <2> QED BY <1>0, <1>1, <2>2, <2>3, <2>4 DEF Bounded, Secured
<1>11. Opening'
  <2> SUFFICES ASSUME Parsing'
               PROVE  /\ \A i \in 1 .. Len(out') : out'[i].ask = "parameters" \/ out'[i].cur = "security"
                      /\ OutOfStep' \/ Pending' <= 2
                      /\ Len(in) > 0 /\ in[1].ok /\ ~ in[1].transit => ~ WillAgree'
    BY <1>0, <1>1, <1>4 DEF Opening
  <2>0. Parsing /\ query.ask = "parameters"
    BY <1>0, <1>1 DEF Parsing, Fits
  <2>1. Request.ask = "parameters" /\ query.cur = "operational"
    BY <1>0, <2>0 DEF Request, Parsing, Proper
  <2>2. \A i \in 1 .. Len(out') : out'[i].ask = "parameters" \/ out'[i].cur = "security"
    BY <1>2, <2>0, <2>1 DEF Bounded, Opening
  <2>3. OutOfStep => OutOfStep'
    BY <1>0, <1>2 DEF OutOfStep
  <2>4. Pending <= 1 => Pending' <= 2
    BY <1>2
  <2>5. ASSUME Len(in) > 0, in[1].ok, ~ in[1].transit PROVE ~ WillAgree'
    <3>1. tgt.stage = "security" /\ Len(out) = 0
      BY <1>0, <2>0, <2>5 DEF Bounded, Opening
    <3>2. out'[1] = Request
      BY <1>2, <3>1
    <3> QED BY <1>0, <1>6, <2>1, <3>1, <3>2 DEF WillAgree
  <2> QED BY <1>0, <2>0, <2>2, <2>3, <2>4, <2>5 DEF Bounded, Opening
<1>12. Few'
  <2>1. Pending <= MaxRetries
    BY <1>0 DEF Bounded, Few
  <2>2. query.tries > 0 => Pending <= query.tries
    BY <1>0 DEF Bounded, Few
  <2>3. ~ Succeeded'
    BY <1>1 DEF Succeeded
  <2> QED BY <1>0, <1>1, <1>2, <2>1, <2>2, <2>3 DEF Few
<1> QED BY <1>8, <1>9, <1>10, <1>11, <1>12 DEF Bounded

\* A query that misses its answer, or finds the target gone, is one with an error.
LEMMA BoundedMisses ==
  ASSUME Shapes, Bounded, Misses
  PROVE  Bounded'
<1> DEFINE wrong == [query EXCEPT !.error = TRUE]
<1>0. /\ UNCHANGED <<cfg, step, rsp, out, in, tgt>> /\ Querying /\ Ended(wrong, status)
      /\ wrong \in QueryTypes /\ wrong.error /\ wrong.transit = query.transit
      /\ wrong.tries = query.tries /\ wrong.next = query.next
      /\ query.tries \in Nat /\ MaxRetries \in Nat \ {0} /\ query.tries <= MaxRetries
      /\ Pending \in Nat /\ Pending' = Pending
  <2>1. /\ UNCHANGED <<cfg, step, rsp, out, in, tgt>> /\ Querying /\ Ended(wrong, status)
    BY DEF Misses
  <2>2. query \in QueryTypes /\ IsSeq(out) /\ IsSeq(in) /\ MaxRetries \in Nat \ {0}
    BY LoginAssumption DEF Shapes, InitiatorOK, LinesOK
  <2>3. Len(out) \in Nat /\ Len(in) \in Nat
    BY <2>2, LenIs
  <2>4. /\ wrong \in QueryTypes /\ wrong.error /\ wrong.transit = query.transit
        /\ wrong.tries = query.tries /\ wrong.next = query.next
    BY <2>2 DEF QueryTypes
  <2>5. query.tries \in Nat /\ query.tries <= MaxRetries
    <3>1. query.tries \in 0 .. MaxRetries
      BY <2>2 DEF QueryTypes
    <3> QED BY <2>2, <3>1
  <2> QED BY <2>1, <2>2, <2>3, <2>4, <2>5 DEF Pending
<1> HIDE DEF wrong
<1>1. /\ query'.error /\ query'.transit = query.transit /\ query'.next = query.next
      /\ \/ query'.at = "done" /\ query'.tries = query.tries
         \/ /\ query'.at = "send" /\ query'.tries = query.tries + 1
            /\ query.tries < MaxRetries /\ query.tries # 0
  BY <1>0, EndedIs
<1>2. ~ Succeeded' /\ query.at \in {"send", "receive"} /\ ~ Succeeded
  BY <1>1 DEF Succeeded, Success, Misses
<1>3. Waits => Waits'
  BY <1>0, <1>1 DEF Waits, Querying
<1>4. LastAsked' /\ LastAnswered'
  BY <1>0, <1>3 DEF Bounded, LastAsked, LastAnswered, WillAgree, OnItsWay, Securing
<1>5. Secured'
  <2>1. Securing /\ query'.tries = 0 => Pending <= 1
    BY <1>0, <1>1, <1>2 DEF Bounded, Secured
  <2> QED BY <1>0, <1>1, <1>2, <2>1 DEF Bounded, Secured, Securing
<1>6. Opening'
  <2>1. Parsing' => Parsing /\ query'.at = "done"
    BY <1>0, <1>1 DEF Parsing
  <2> QED BY <1>0, <1>2, <2>1 DEF Bounded, Opening, OutOfStep
<1>7. Few'
  <2>1. query.tries > 0 => Pending <= IF query.at = "send" THEN query.tries ELSE query.tries + 1
    BY <1>0, <1>2 DEF Bounded, Few
  <2> QED BY <1>0, <1>1, <1>2, <2>1 DEF Bounded, Few
<1> QED BY <1>4, <1>5, <1>6, <1>7 DEF Bounded

\* An answer that is read leaves its line.
LEMMA ReadCounts ==
  ASSUME Shapes, NEW r, Read(r), UNCHANGED out
  PROVE  /\ Len(out) \in Nat /\ Len(in) \in Nat /\ Len(in) > 0 /\ Len(in') \in Nat
         /\ Len(in') = Len(in) - 1 /\ Pending' = Pending - 1 /\ Pending \in Nat
         /\ r = in[1] /\ 1 \in 1 .. Len(in) /\ AnswerOK(r)
         /\ \A i \in 1 .. Len(in') : i + 1 \in 1 .. Len(in) /\ in'[i] = in[i + 1]
<1>1. /\ Len(out) \in Nat /\ Len(in) \in Nat /\ Len(in) > 0 /\ Len(in') \in Nat
      /\ Len(in') = Len(in) - 1 /\ r = in[1] /\ 1 \in 1 .. Len(in)
      /\ \A i \in 1 .. Len(in') : i + 1 \in 1 .. Len(in) /\ in'[i] = in[i + 1]
  BY LenIs DEF Shapes, LinesOK, Read, Popped
<1> QED BY <1>1 DEF Pending, Shapes, LinesOK

\* A refusal is the last answer, and leaves a query that failed.
LEMMA BoundedUnserved ==
  ASSUME Shapes, Numbered, Bounded, NEW r, Unserved(r)
  PROVE  Bounded'
<1> DEFINE wrong == [query EXCEPT !.error = TRUE]
<1>0. /\ UNCHANGED <<cfg, step, rsp, out, tgt>> /\ Read(r) /\ ~ r.ok
      /\ Querying /\ query.at = "receive"
      /\ query \in QueryTypes /\ wrong \in QueryTypes /\ wrong.error
      /\ wrong.transit = query.transit
      /\ wrong.tries = query.tries /\ wrong.next = query.next
      /\ query.tries \in Nat /\ MaxRetries \in Nat \ {0} /\ query.tries <= MaxRetries
      /\ Ended(wrong, status) \/ Ended(query, "failure")
  <2>1. /\ UNCHANGED <<cfg, step, rsp, out, tgt>> /\ Read(r) /\ ~ r.ok
        /\ Querying /\ query.at = "receive"
        /\ Ended(wrong, status) \/ Ended(query, "failure")
    BY DEF Unserved, Read
  <2>2. query \in QueryTypes /\ MaxRetries \in Nat \ {0}
    BY LoginAssumption DEF Shapes, InitiatorOK
  <2>3. /\ wrong \in QueryTypes /\ wrong.error /\ wrong.transit = query.transit
        /\ wrong.tries = query.tries /\ wrong.next = query.next
    BY <2>2 DEF QueryTypes
  <2>4. query.tries \in Nat /\ query.tries <= MaxRetries
    <3>1. query.tries \in 0 .. MaxRetries
      BY <2>2 DEF QueryTypes
    <3> QED BY <2>2, <3>1
  <2> QED BY <2>1, <2>2, <2>3, <2>4
<1> HIDE DEF wrong
<1>1. /\ Len(out) \in Nat /\ Len(in) \in Nat /\ Len(in) > 0 /\ Len(in') \in Nat
      /\ Len(in') = Len(in) - 1 /\ Pending' = Pending - 1 /\ Pending \in Nat
      /\ r = in[1] /\ 1 \in 1 .. Len(in)
  BY <1>0, ReadCounts
<1>2. Len(in') = 0 /\ ~ tgt.open
  BY <1>0, <1>1 DEF Numbered, Shapes, TargetOK
<1>3. /\ query'.transit = query.transit /\ query'.next = query.next
      /\ \/ query'.at = "done" /\ query'.tries = query.tries
         \/ /\ query'.at = "send" /\ query'.tries = query.tries + 1
            /\ query.tries < MaxRetries /\ query.tries # 0
      /\ query'.error \/ status' # "success"
  <2>1. CASE Ended(wrong, status)
    BY <1>0, <2>1, EndedIs
  <2>2. CASE Ended(query, "failure")
    <3>1. status' # "success"
      BY <2>2 DEF Ended
    <3> QED BY <1>0, <2>2, <3>1, EndedIs
  <2> QED BY <1>0, <2>1, <2>2
<1>4. ~ Succeeded' /\ ~ Succeeded /\ (Waits => Waits')
  BY <1>0, <1>3 DEF Succeeded, Success, Waits, Querying
<1>5. LastAsked'
  BY <1>0, <1>2, <1>4 DEF Bounded, LastAsked, WillAgree
<1>6. LastAnswered'
  BY <1>2 DEF LastAnswered
<1>7. Secured'
  <2>1. Securing /\ query'.tries = 0 => Pending <= 1
    BY <1>0, <1>3, <1>4 DEF Bounded, Secured
  <2>2. \A i \in 1 .. Len(in') : FALSE
    BY <1>2
  <2> QED BY <1>0, <1>1, <1>2, <1>3, <1>4, <2>1, <2>2 DEF Bounded, Secured, Securing
<1>8. Opening'
  <2>1. OutOfStep'
    BY <1>0, <1>2 DEF OutOfStep
  <2>2. Parsing' => Parsing
    BY <1>0, <1>3 DEF Parsing
  <2> QED BY <1>0, <1>2, <2>1, <2>2 DEF Bounded, Opening
<1>9. Few'
  <2>1. query.tries > 0 => Pending <= query.tries + 1
    BY <1>0, <1>4 DEF Bounded, Few
  <2> QED BY <1>0, <1>1, <1>3, <1>4, <2>1 DEF Bounded, Few
<1> QED BY <1>5, <1>6, <1>7, <1>8, <1>9 DEF Bounded

\* An answer that is taken ends the query, or the query asks again after it.
LEMMA BoundedTakes ==
  ASSUME Shapes, AskedOnce, Bounded, NEW r, Takes(r)
  PROVE  Bounded'
<1>0. /\ UNCHANGED <<cfg, step, out, tgt>> /\ Read(r) /\ r.ok /\ r.op = "login"
      /\ step \in LoggingIn /\ Querying /\ query.at = "receive" /\ ~ query.error
      /\ query \in QueryTypes /\ MaxRetries \in Nat \ {0} /\ query.tries \in 0 .. MaxRetries
      /\ rsp' = rsp \/ rsp' = AddValues(rsp, r.keys)
  BY LoginAssumption DEF Takes, Read, Shapes, InitiatorOK, QueryTypes, Told
<1>1. /\ Len(out) \in Nat /\ Len(in) \in Nat /\ Len(in) > 0 /\ Len(in') \in Nat
      /\ Len(in') = Len(in) - 1 /\ Pending' = Pending - 1 /\ Pending \in Nat
      /\ r = in[1] /\ 1 \in 1 .. Len(in) /\ AnswerOK(r)
      /\ \A i \in 1 .. Len(in') : i + 1 \in 1 .. Len(in) /\ in'[i] = in[i + 1]
  BY <1>0, ReadCounts
<1>2. /\ Noted(r) \in QueryTypes /\ Noted(r).transit = r.transit /\ Noted(r).tries = query.tries
      /\ Noted(r).at = "receive" /\ Noted(r).next = query.next
  BY <1>0, <1>1 DEF Noted, QueryTypes, AnswerOK
<1>3. /\ query'.transit = r.transit /\ query'.next = query.next
      /\ \/ query'.at = "receive" /\ query'.tries = query.tries /\ r.cont
         \/ query'.at = "done" /\ query'.tries = query.tries /\ ~ r.cont
         \/ /\ query'.at = "send" /\ query'.tries = query.tries + 1 /\ ~ r.cont
            /\ ~ r.transit /\ query.tries < MaxRetries
  BY <1>2, EndedIs DEF Takes
<1>4. r.cont => Len(out) = 0 /\ ~ Securing /\ query.tries = 0 /\ ~ r.transit
  BY <1>0, <1>1 DEF Bounded, LastAnswered, Waits, AnswerOK
<1>5. ~ OutOfStep
  BY <1>0, <1>1 DEF OutOfStep
<1>6. Securing \/ step = "negotiate"
  BY <1>0 DEF Securing, LoggingIn
  \* What a query that asks again has left.
<1>7. ASSUME query.tries = 0, ~ r.transit, step = "negotiate"
      PROVE  ~ WillAgree /\ \A i \in 2 .. Len(in) : ~ in[i].cont
  BY <1>0, <1>1, <1>7 DEF Bounded, Opening, Parsing
<1>8. Waits /\ WillAgree => Waits'
  <2>1. ASSUME Waits, WillAgree PROVE query'.at # "send" /\ query'.tries = 0
    <3>1. query.tries = 0
      BY <1>0, <2>1 DEF Waits
    <3>2. step = "negotiate"
      BY <1>0, <2>1 DEF WillAgree, AskedOnce, PastParameters, LoggingIn
    <3> QED BY <1>3, <1>7, <2>1, <3>1, <3>2
  <2> QED BY <2>1 DEF Waits
<1>9. LastAsked'
  <2>1. \A i \in 1 .. Len(out) : out[i].ask # "targets"
    BY <1>0 DEF Bounded, LastAsked
  <2>2. \A i \in 1 .. Len(in') : ~ (in'[i].ok /\ in'[i].op = "text")
    BY <1>0, <1>1 DEF Bounded, LastAsked
  <2>3. WillAgree' => WillAgree
    BY <1>0 DEF WillAgree, OnItsWay
  <2>4. WillAgree => out[Len(out)].ask = "parameters" /\ Waits
    BY DEF Bounded, LastAsked
  <2> QED BY <1>0, <1>8, <2>1, <2>2, <2>3, <2>4 DEF LastAsked
<1>10. LastAnswered'
  <2> SUFFICES ASSUME NEW i \in 1 .. Len(in'), in'[i].cont
               PROVE  /\ Len(out) = 0 /\ ~ Securing /\ Waits'
                      /\ in'[i].op = "login" => NoParameters(rsp') /\
                           \A j \in 1 .. i - 1 : NoParameters(in'[j].keys)
    BY <1>0 DEF LastAnswered, Securing
  <2>1. i + 1 \in 1 .. Len(in) /\ i + 1 \in 2 .. Len(in) /\ in[i + 1].cont /\ in'[i] = in[i + 1]
    BY <1>1
  <2>2. /\ Len(out) = 0 /\ ~ Securing /\ query.tries = 0
        /\ in'[i].op = "login" => NoParameters(rsp) /\
              \A j \in 1 .. (i + 1) - 1 : NoParameters(in[j].keys)
    BY <1>0, <2>1 DEF Bounded, LastAnswered, Waits
  <2>3. query'.at # "send" /\ query'.tries = 0
    BY <1>3, <1>6, <1>7, <2>1, <2>2
  <2>4. in'[i].op = "login" => NoParameters(rsp')
    <3>1. in'[i].op = "login" => NoParameters(rsp) /\ NoParameters(r.keys)
      BY <1>1, <2>2
    <3> QED BY <1>0, <3>1 DEF NoParameters, AddValues
  <2>5. in'[i].op = "login" => \A j \in 1 .. i - 1 : NoParameters(in'[j].keys)
    <3>1. \A j \in 1 .. i - 1 : j \in 1 .. Len(in') /\ j + 1 \in 1 .. (i + 1) - 1
      BY <1>1
    <3> QED BY <1>1, <2>2, <3>1
  <2> QED BY <2>2, <2>3, <2>4, <2>5 DEF Waits
<1>11. Secured'
  <2>1. step = "auth" /\ cfg.initiator = "CHAP" => query'.next = "security"
    BY <1>3 DEF Bounded, Secured
  <2> SUFFICES ASSUME Securing
               PROVE  /\ \A i \in 1 .. Len(out) : out[i].cur = "security"
                      /\ query'.tries = 0 => Pending' <= 0
                      /\ \A i \in 1 .. Len(in') : in'[i].transit =>
                          tgt.stage # "security" /\ \A j \in i + 1 .. Len(in') : ~ in'[j].ok
                      /\ query'.transit =>
                          tgt.stage # "security" /\ \A j \in 1 .. Len(in') : ~ in'[j].ok
                      /\ query'.tries = 0 => \A i \in 1 .. Len(in') :
                          in'[i].ok /\ ~ in'[i].transit => tgt.stage = "security"
    <3>1. Pending' \in Int
      BY <1>1
    <3> QED BY <1>0, <2>1, <3>1 DEF Secured, Securing
  <2>2. query'.tries = 0 => Pending' <= 0
    <3>1. query'.tries = 0 => query.tries = 0
      BY <1>0, <1>3
    <3>2. query.tries = 0 => Pending <= 1
      BY <1>0, <1>1 DEF Bounded, Secured
    <3> QED BY <1>1, <3>1, <3>2
  <2>3. ASSUME NEW i \in 1 .. Len(in'), in'[i].transit
        PROVE  tgt.stage # "security" /\ \A j \in i + 1 .. Len(in') : ~ in'[j].ok
    <3>1. i + 1 \in 1 .. Len(in) /\ in[i + 1].transit
      BY <1>1, <2>3
    <3>2. tgt.stage # "security" /\ \A j \in (i + 1) + 1 .. Len(in) : ~ in[j].ok
      BY <3>1 DEF Bounded, Secured
    <3>3. \A j \in i + 1 .. Len(in') : j \in 1 .. Len(in') /\ j + 1 \in (i + 1) + 1 .. Len(in)
      BY <1>1
    <3> QED BY <1>1, <3>2, <3>3
  <2>4. ASSUME query'.transit
        PROVE  tgt.stage # "security" /\ \A j \in 1 .. Len(in') : ~ in'[j].ok
    <3>1. tgt.stage # "security" /\ \A j \in 1 + 1 .. Len(in) : ~ in[j].ok
      BY <1>1, <1>3, <2>4 DEF Bounded, Secured
    <3>2. \A j \in 1 .. Len(in') : j + 1 \in 1 + 1 .. Len(in)
      BY <1>1
    <3> QED BY <1>1, <3>1, <3>2
  <2>5. query'.tries = 0 => \A i \in 1 .. Len(in') : FALSE
    BY <1>1, <2>2 DEF Pending
  <2> QED BY <2>2, <2>3, <2>4, <2>5 DEF Bounded, Secured
<1>12. step = "negotiate" /\ query.tries = 0 => Pending <= 2
  BY <1>0, <1>5 DEF Bounded, Opening, Parsing
<1>13. Opening'
  <2> SUFFICES ASSUME Parsing' PROVE Opening'
    BY DEF Opening
  <2>1. step = "negotiate" /\ query.tries = 0 /\ query'.at # "send"
    BY <1>0, <1>3 DEF Parsing
  <2>2. \A i \in 1 .. Len(out) : out[i].ask = "parameters" \/ out[i].cur = "security"
    BY <2>1 DEF Bounded, Opening, Parsing
  <2>3. query'.at = "receive" => ~ WillAgree'
    BY <1>0, <1>3, <1>4 DEF WillAgree
  <2>4. \A i \in 2 .. Len(in') : FALSE
    BY <1>1, <1>12, <2>1 DEF Pending
  <2> QED BY <1>0, <1>1, <1>12, <2>1, <2>2, <2>3, <2>4 DEF Opening
<1>14. Few'
  <2>1. query.tries = 0 => Pending' <= 1
    <3>1. Securing /\ query.tries = 0 => Pending <= 1
      BY <1>0, <1>1 DEF Bounded, Secured
    <3> QED BY <1>1, <1>6, <1>12, <3>1
  <2>2. query.tries > 0 => Pending' <= query.tries
    <3>1. query.tries > 0 => Pending <= query.tries + 1
      BY <1>0, <1>1 DEF Bounded, Few, Succeeded
    <3> QED BY <1>0, <1>1, <3>1
  <2>3. Pending' \in Int /\ Pending' <= MaxRetries
    BY <1>0, <1>1, <2>1, <2>2
  <2> QED BY <1>0, <1>1, <1>3, <2>1, <2>2, <2>3 DEF Few
<1> QED BY <1>9, <1>10, <1>11, <1>13, <1>14 DEF Bounded

\* A listing is asked for once.
LEMMA BoundedLists ==
  ASSUME Shapes, Bounded, NEW r, Lists(r)
  PROVE  Bounded'
<1>0. /\ UNCHANGED <<cfg, step, rsp, out, tgt>> /\ Read(r) /\ step = "text"
      /\ query.at = "receive" /\ query \in QueryTypes /\ MaxRetries \in Nat \ {0}
      /\ Proper(query) /\ Fits(step, query) /\ Told(step, query, status)
  BY LoginAssumption DEF Lists, Read, Shapes, InitiatorOK
<1>1. /\ Len(out) \in Nat /\ Len(in) \in Nat /\ Len(in) > 0 /\ Len(in') \in Nat
      /\ Len(in') = Len(in) - 1 /\ Pending' = Pending - 1 /\ Pending \in Nat
      /\ \A i \in 1 .. Len(in') : i + 1 \in 1 .. Len(in) /\ in'[i] = in[i + 1]
  BY <1>0, ReadCounts
<1>2. query.tries = 0
  BY <1>0 DEF Proper, Fits, Told
<1>3. query'.at # "send" /\ query'.tries = 0
  BY <1>0, <1>2, EndedIs DEF Lists
<1>4. Waits' /\ ~ Securing' /\ ~ Securing /\ ~ Parsing'
  BY <1>0, <1>3 DEF Waits, Securing, Parsing
<1>5. LastAsked'
  <2>1. \A i \in 1 .. Len(out) : out[i].ask = "targets" => i = Len(out)
    BY DEF Bounded, LastAsked
  <2>2. WillAgree' => out[Len(out)].ask = "parameters"
    BY <1>0 DEF Bounded, LastAsked, WillAgree, OnItsWay
  <2> QED BY <1>0, <1>4, <2>1, <2>2 DEF LastAsked, LoggingIn
<1>6. LastAnswered'
  <2> SUFFICES ASSUME NEW i \in 1 .. Len(in'), in'[i].cont
               PROVE  /\ Len(out) = 0
                      /\ in'[i].op = "login" => NoParameters(rsp) /\
                           \A j \in 1 .. i - 1 : NoParameters(in'[j].keys)
    BY <1>0, <1>4 DEF LastAnswered
  <2>1. i + 1 \in 1 .. Len(in) /\ in[i + 1].cont /\ in'[i] = in[i + 1]
    BY <1>1
  <2>2. /\ Len(out) = 0
        /\ in'[i].op = "login" => NoParameters(rsp) /\
              \A j \in 1 .. (i + 1) - 1 : NoParameters(in[j].keys)
    BY <2>1 DEF Bounded, LastAnswered
  <2>3. \A j \in 1 .. i - 1 : j \in 1 .. Len(in') /\ j + 1 \in 1 .. (i + 1) - 1
    BY <1>1
  <2> QED BY <1>1, <2>2, <2>3
<1>7. Few'
  BY <1>0, <1>1, <1>3 DEF Bounded, Few
<1> QED BY <1>0, <1>4, <1>5, <1>6, <1>7 DEF Bounded, Secured, Opening

\* A login that is over.
LEMMA BoundedOver ==
  ASSUME Shapes, Bounded, UNCHANGED <<out, in, tgt>>, rsp' = rsp \/ rsp' = Empty,
         step' \notin LoggingIn \cup {"text"}
  PROVE  Bounded'
<1>1. ~ Querying' /\ ~ Securing' /\ ~ Parsing' /\ step' # "auth" /\ step' # "negotiate"
  BY DEF Querying, Securing, Parsing, LoggingIn
<1>2. Waits'
  BY <1>1 DEF Waits
<1>3. NoParameters(rsp) => NoParameters(rsp')
  BY DEF NoParameters, Empty
<1>4. LastAsked'
  BY <1>2 DEF Bounded, LastAsked, WillAgree, OnItsWay
<1>5. LastAnswered'
  BY <1>1, <1>2, <1>3 DEF Bounded, LastAnswered
<1>6. Few'
  BY <1>1 DEF Bounded, Few, Pending
<1> QED BY <1>1, <1>4, <1>5, <1>6 DEF Bounded, Secured, Opening

\* What authentication asks next.
Turned ==
    /\ UNCHANGED <<cfg, status, out, in, tgt>> /\ Securing /\ query.at = "done"
    /\ query'.at = "send" /\ query'.tries = 0 /\ query'.transit = FALSE

\* The lines when authentication turns to the next query.
LEMMA TurnedLines ==
  ASSUME Shapes, AskedOnce, Bounded, Turned
  PROVE  /\ ~ WillAgree' /\ LastAsked' /\ LastAnswered'
         /\ \A i \in 1 .. Len(in) : ~ in[i].cont
         /\ \A i \in 1 .. Len(out) : out[i].cur = "security"
         /\ Pending \in Nat /\ Pending' = Pending /\ MaxRetries \in Nat \ {0}
         /\ query.tries \in 0 .. MaxRetries
<1>1. ~ PastParameters /\ step \in LoggingIn
  BY DEF Turned, Securing, PastParameters, LoggingIn
<1>2. ~ OnItsWay("parameters")
  BY <1>1 DEF AskedOnce
<1>3. ~ WillAgree'
  BY <1>2 DEF WillAgree, Turned, OnItsWay
<1>4. /\ \A i \in 1 .. Len(out) : out[i].ask # "targets" /\ out[i].cur = "security"
      /\ \A i \in 1 .. Len(in) : ~ (in[i].ok /\ in[i].op = "text") /\ ~ in[i].cont
  BY <1>1 DEF Bounded, LastAsked, LastAnswered, Secured, Turned
<1>5. Pending \in Nat /\ Pending' = Pending
  BY LenIs DEF Shapes, LinesOK, Pending, Turned
<1>6. MaxRetries \in Nat \ {0} /\ query.tries \in 0 .. MaxRetries
  BY LoginAssumption DEF Shapes, InitiatorOK, QueryTypes
<1>7. LastAsked' /\ LastAnswered'
  BY <1>3, <1>4 DEF LastAsked, LastAnswered, Turned
<1> QED BY <1>3, <1>4, <1>5, <1>6, <1>7

\* A query that asked for no other stage leaves nothing to the next one.
LEMMA BoundedSecured ==
  ASSUME Shapes, AskedOnce, Bounded, Turned, Success, query.cur = query.next,
         step' \in {"chap", "response", "none"}
  PROVE  Bounded'
<1>0. /\ ~ WillAgree' /\ LastAsked' /\ LastAnswered'
      /\ \A i \in 1 .. Len(out) : out[i].cur = "security"
      /\ Pending \in Nat /\ Pending' = Pending /\ MaxRetries \in Nat \ {0}
  BY TurnedLines
<1>1. query.tries = 0
  BY DEF Shapes, InitiatorOK, Told
<1>2. Pending = 0
  BY <1>0, <1>1 DEF Bounded, Secured, Turned, Succeeded
<1>3. Len(in) = 0
  BY <1>2, LenIs DEF Pending, Shapes, LinesOK
<1>4. \A i \in 1 .. Len(in') : FALSE
  BY <1>3 DEF Turned
<1>5. Secured'
  BY <1>0, <1>2, <1>4 DEF Secured, Turned
<1>6. ~ Parsing' /\ ~ Succeeded'
  BY DEF Parsing, Turned, Succeeded
<1>7. Few'
  BY <1>0, <1>2, <1>6 DEF Few, Turned
<1> QED BY <1>0, <1>5, <1>6, <1>7 DEF Bounded, Opening

\* What is on its way when authentication is over is one request or its answer, or
\* will be refused.
LEMMA BoundedNegotiate ==
  ASSUME Shapes, AskedOnce, Bounded, Turned, status = "success", step' = "negotiate"
  PROVE  Bounded'
<1>0. /\ ~ WillAgree' /\ LastAsked' /\ LastAnswered'
      /\ \A i \in 1 .. Len(in) : ~ in[i].cont
      /\ \A i \in 1 .. Len(out) : out[i].cur = "security"
      /\ Pending \in Nat /\ Pending' = Pending /\ MaxRetries \in Nat \ {0}
      /\ query.tries \in 0 .. MaxRetries
  BY TurnedLines
<1>1. Len(in) \in Nat /\ Len(out) \in Nat
  BY LenIs DEF Shapes, LinesOK
<1>2. ~ Securing' /\ step' # "auth" /\ ~ Succeeded' /\ query'.at = "send" /\ query'.tries = 0
  BY DEF Securing, Turned, Succeeded
<1>3. CASE query.tries = 0
  <2>1. Pending <= 1
    <3>1. Pending <= IF query.at = "send" \/ Succeeded THEN 0 ELSE 1
      BY <1>3 DEF Bounded, Secured, Turned
    <3> QED BY <1>0, <3>1
  <2>2. Len(in) > 0 => Len(out) = 0 /\ 1 \in 1 .. Len(in)
    BY <1>1, <2>1 DEF Pending
  <2>3. Len(in) > 0 /\ in[1].ok /\ ~ in[1].transit => tgt.stage = "security"
    BY <1>3, <2>2 DEF Bounded, Secured, Turned
  <2>4. Opening'
    BY <1>0, <1>2, <2>1, <2>2, <2>3 DEF Opening, Turned
  <2>5. Few'
    BY <1>0, <1>2, <2>1 DEF Few
  <2> QED BY <1>0, <1>2, <2>4, <2>5 DEF Bounded, Secured
<1>4. CASE query.tries # 0
  <2>1. query.transit /\ ~ query.error
    BY <1>4 DEF Shapes, InitiatorOK, Told, Turned, Securing, LoggingIn
  <2>2. tgt.stage # "security" /\ \A i \in 1 .. Len(in) : ~ in[i].ok
    BY <2>1 DEF Bounded, Secured, Turned
  <2>3. Pending <= query.tries
    BY <1>0, <1>4, <2>1
       DEF Bounded, Few, Turned, Securing, Querying, LoggingIn, Succeeded, Success
  <2>4. OutOfStep \/ Pending = 0
    <3>1. Len(in) > 0 => ~ tgt.open
      <4>1. Len(in) > 0 => 1 \in 1 .. Len(in)
        BY <1>1
      <4> QED BY <2>2, <4>1 DEF Shapes, TargetOK
    <3>2. Len(out) > 0 => out[1].cur # tgt.stage
      <4>1. Len(out) > 0 => 1 \in 1 .. Len(out)
        BY <1>1
      <4> QED BY <1>0, <2>2, <4>1
    <3>3. CASE tgt.open /\ Len(out) = 0
      BY <1>1, <3>1, <3>3 DEF Pending
    <3>4. CASE ~ tgt.open
      BY <2>2, <3>4 DEF OutOfStep
    <3>5. CASE Len(out) > 0
      BY <2>2, <3>2, <3>5 DEF OutOfStep
    <3> QED BY <1>1, <3>3, <3>4, <3>5 DEF Shapes, TargetOK
  <2>5. Opening'
    <3>1. OutOfStep' \/ Pending' <= 1
      BY <1>0, <2>4 DEF OutOfStep, Turned
    <3>2. ~ (Len(in) > 0 /\ in[1].ok /\ ~ in[1].transit)
      <4>1. Len(in) > 0 => 1 \in 1 .. Len(in)
        BY <1>1
      <4> QED BY <2>2, <4>1
    <3> QED BY <1>0, <1>2, <3>1, <3>2 DEF Opening, Turned
  <2>6. Few'
    <3>1. Pending <= MaxRetries
      BY <1>0, <2>3
    <3> QED BY <1>0, <1>2, <3>1 DEF Few
  <2> QED BY <1>0, <1>2, <2>5, <2>6 DEF Bounded, Secured
<1> QED BY <1>3, <1>4

\* The procedure keeps it as it goes from one query to the next.
LEMMA BoundedTurns ==
  ASSUME Shapes, AskedOnce, Bounded, Turns
  PROVE  Bounded'
<1>0. /\ Proper(query) /\ Fits(step, query) /\ cfg \in Configs /\ query \in QueryTypes
      /\ Told(step, query, status)
  BY DEF Shapes, InitiatorOK
<1>1. \A a, c, n, t : /\ Query(a, c, n, t).at = "send" /\ Query(a, c, n, t).tries = 0
                      /\ Query(a, c, n, t).transit = FALSE
  BY DEF Query
<1>2. CASE AuthNegotiate
  <2>0. /\ UNCHANGED <<cfg, status, out, in, tgt>> /\ step = "auth" /\ query.at = "done"
        /\ cfg.kind # "probe" /\ (rsp' = rsp \/ rsp' = Empty)
    BY <1>2 DEF AuthNegotiate, QueryEnded
  <2>1. \/ step' = "released"
        \/ /\ Success /\ query'.at = "send" /\ query'.tries = 0 /\ query'.transit = FALSE
           /\ step' \in {"chap", "none", "negotiate"}
           /\ step' \in {"chap", "none"} => cfg.initiator = "CHAP"
    <3>1. MethodAgreed /\ rsp["AuthMethod"] = "CHAP" => cfg.initiator = "CHAP"
      BY <1>0, <2>0 DEF MethodAgreed, BuildDict, Configs, Methods
    <3> QED BY <1>1, <1>2, <3>1 DEF AuthNegotiate, Next_, Release
  <2>2. CASE step' = "released"
    BY <2>0, <2>2, BoundedOver DEF LoggingIn
  <2>3. CASE step' # "released"
    <3>1. Turned
      BY <2>0, <2>1, <2>3 DEF Turned, Securing
    <3>2. CASE step' = "negotiate"
      BY <2>1, <2>3, <3>1, <3>2, BoundedNegotiate DEF Success
    <3>3. CASE step' # "negotiate"
      <4>1. query.cur = "security" /\ query.next = "security"
        BY <1>0, <2>0, <2>1, <2>3, <3>3 DEF Bounded, Secured, Proper, Fits
      <4> QED BY <2>1, <2>3, <3>1, <3>3, <4>1, BoundedSecured
    <3> QED BY <3>2, <3>3
  <2> QED BY <2>2, <2>3
<1>3. CASE AuthInterrogate
  BY <1>3, BoundedOver DEF AuthInterrogate, Release, LoggingIn
<1>4. CASE ChapChallenged
  <2>1. CASE Success
    <3>1. Turned /\ step' = "response" /\ step = "chap"
      BY <1>1, <1>4, <2>1 DEF ChapChallenged, QueryEnded, Next_, Turned, Securing
    <3>2. query.cur = query.next
      BY <1>0, <3>1 DEF Proper, Fits
    <3> QED BY <2>1, <3>1, <3>2, BoundedSecured
  <2>2. CASE ~ Success
    BY <1>4, <2>2, BoundedOver DEF ChapChallenged, Release, LoggingIn
  <2> QED BY <2>1, <2>2
<1>5. ASSUME UNCHANGED <<cfg, status, out, in, tgt>>, query.at = "done",
             step \in {"response", "none"}, status = "success", Negotiate
      PROVE  Bounded'
  <2>1. Turned /\ step' = "negotiate"
    BY <1>1, <1>5 DEF Negotiate, Next_, Turned, Securing
  <2> QED BY <1>5, <2>1, BoundedNegotiate
<1>6. CASE AuthNegotiateCHAP
  <2>1. CASE Success /\ TargetVerified
    BY <1>5, <1>6, <2>1 DEF AuthNegotiateCHAP, QueryEnded, Success
  <2>2. CASE ~ (Success /\ TargetVerified)
    BY <1>6, <2>2, BoundedOver DEF AuthNegotiateCHAP, Release, LoggingIn
  <2> QED BY <2>1, <2>2
<1>7. CASE WithoutAuthentication
  <2>1. CASE status = "success"
    BY <1>5, <1>7, <2>1 DEF WithoutAuthentication, QueryEnded
  <2>2. CASE status # "success"
    BY <1>7, <2>2, BoundedOver DEF WithoutAuthentication, Release, LoggingIn
  <2> QED BY <2>1, <2>2
<1>8. CASE QueryPortalForTargets
  BY <1>8, BoundedOver DEF QueryPortalForTargets, LoggingIn
<1>9. CASE NegotiateSession
  <2>0. /\ UNCHANGED <<cfg, status, out, in, tgt>> /\ step = "negotiate" /\ query.at = "done"
        /\ (rsp' = rsp \/ rsp' = Empty)
        /\ step' \in {"released", "full", "text"}
    BY <1>9 DEF NegotiateSession, QueryEnded, Next_, Release
  <2>1. CASE step' # "text"
    BY <2>0, <2>1, BoundedOver DEF LoggingIn
  <2>2. CASE step' = "text"
    <3>1. Success /\ ~ ParseFails(rsp) /\ query'.at = "send" /\ query'.tries = 0
      BY <1>1, <1>9, <2>2 DEF NegotiateSession, Next_, Release
    <3>2. Carries(rsp) /\ ~ NoParameters(rsp)
      BY <3>1, KeysApart DEF ParseFails, ParseSWDictCommonFails, Common, Carries, NoParameters
    <3>3. ~ OnItsWay("parameters")
      BY <3>2 DEF AskedOnce, BeforeAgree
    <3>4. ~ WillAgree'
      BY <2>0, <3>3 DEF WillAgree, OnItsWay
    <3>5. /\ \A i \in 1 .. Len(out) : out[i].ask # "targets"
          /\ \A i \in 1 .. Len(in) : ~ (in[i].ok /\ in[i].op = "text")
      BY <2>0 DEF Bounded, LastAsked, LoggingIn
    <3>6. \A i \in 1 .. Len(in) : ~ in[i].cont
      <4>1. \A i \in 1 .. Len(in) : in[i].cont => in[i].op = "login"
        BY <3>5 DEF Shapes, LinesOK, AnswerOK
      <4> QED BY <3>2, <4>1 DEF Bounded, LastAnswered
    <3>7. Pending <= MaxRetries /\ Pending' = Pending /\ Pending \in Nat /\ MaxRetries \in Nat
      <4>1. Pending \in Nat /\ Pending' = Pending
        BY <2>0, LenIs DEF Pending, Shapes, LinesOK
      <4>2. Pending <= MaxRetries
        BY <2>0, <3>1, <3>2 DEF Bounded, Few, Succeeded
      <4> QED BY <4>1, <4>2, LoginAssumption
    <3>8. LastAsked' /\ LastAnswered'
      BY <2>0, <3>4, <3>5, <3>6 DEF LastAsked, LastAnswered
    <3>9. Few'
      BY <2>2, <3>1, <3>7 DEF Few
    <3> QED BY <2>2, <3>8, <3>9 DEF Bounded, Secured, Opening, Securing, Parsing
  <2> QED BY <2>1, <2>2
<1> QED BY <1>2, <1>3, <1>4, <1>6, <1>7, <1>8, <1>9 DEF Turns

\* The initiator keeps it.
LEMMA BoundedInitiator ==
  ASSUME Shapes, AskedOnce, Numbered, Bounded, Initiator
  PROVE  Bounded'
BY InitiatorSteps, BoundedSends, BoundedMisses, BoundedUnserved, BoundedTakes, BoundedLists,
   BoundedTurns

\* Nothing else matters to it.
LEMMA BoundedKept ==
  ASSUME Bounded, UNCHANGED <<cfg, step, query, status, rsp, out, in>>,
         tgt'.stage = tgt.stage, tgt'.open = tgt.open
  PROVE  Bounded'
<1>1. Waits' = Waits /\ Securing' = Securing /\ Succeeded' = Succeeded /\ Parsing' = Parsing
      /\ WillAgree' = WillAgree /\ OutOfStep' = OutOfStep /\ Pending' = Pending
  BY DEF Waits, Querying, Securing, Succeeded, Success, Parsing, WillAgree, OnItsWay,
     OutOfStep, Pending
<1>2. LastAsked' /\ LastAnswered'
  BY <1>1 DEF Bounded, LastAsked, LastAnswered
<1>3. Secured' /\ Opening' /\ Few'
  BY <1>1 DEF Bounded, Secured, Opening, Few, Querying
<1> QED BY <1>2, <1>3 DEF Bounded

-----------------------------------------------------------------------------
(***************************************************************************)
(* Induction up to a number, by the least number that is not in the set:   *)
(* numbers are well founded.  The parser of a listing is a recursive       *)
(* function, and it is on the length of the listing that it is reasoned    *)
(* about.                                                                  *)
(***************************************************************************)
LEMMA SetInduction ==
  ASSUME NEW m \in Nat, NEW S, 0 \in S, \A k \in 0 .. m - 1 : k \in S => k + 1 \in S
  PROVE  0 .. m \subseteq S
<1> DEFINE T == {k \in 0 .. m : k \notin S}
           R == {e \in Nat \X Nat : e[1] < e[2]}
<1>1. IsWellFoundedOn(R, Nat)
  BY NatLessThanWellFounded DEF OpToRel
<1>2. SUFFICES ASSUME T # {} PROVE FALSE
  OBVIOUS
<1>3. PICK x \in T : \A y \in T : ~ (<<y, x>> \in R)
  <2> HIDE DEF R
  <2>1. T \subseteq Nat
    OBVIOUS
  <2> HIDE DEF T
  <2> QED BY <1>1, <1>2, <2>1, WFMin
<1>4. x \in 0 .. m /\ x \notin S
  OBVIOUS
<1>5. x - 1 \in 0 .. m - 1
  <2>1. x # 0
    BY <1>4
  <2> QED BY <1>4, <2>1
<1>6. x - 1 \in S
  <2>1. ~ (<<x - 1, x>> \in R) => x - 1 \notin 0 .. m
    BY <1>4
  <2> QED BY <1>3, <1>5, <2>1
<1>7. (x - 1) + 1 = x
  BY <1>4
<1> QED BY <1>4, <1>5, <1>6, <1>7

\* The parser is its recursive function.
LEMMA ParserIs ==
  ASSUME NEW p, NEW l, Len(l) \in Nat
  PROVE  \E f : /\ f = [i \in 0 .. Len(l) |->
                          IF i = 0 THEN p ELSE ParsedPair(f[i - 1], l[i])]
               /\ Parsed(p, l) = f[Len(l)]
<1> DEFINE Parses(g, k) ==
             g = [i \in 0 .. k |-> IF i = 0 THEN p ELSE ParsedPair(g[i - 1], l[i])]
           S == {k \in 0 .. Len(l) : \E g : Parses(g, k)}
<1>1. 0 \in S
  <2>1. Parses([i \in 0 .. 0 |-> p], 0)
    OBVIOUS
  <2> HIDE DEF Parses
  <2> QED BY <2>1
<1>2. ASSUME NEW k \in 0 .. Len(l) - 1, k \in S PROVE k + 1 \in S
  <2>1. PICK g : Parses(g, k)
    BY <1>2
  <2> DEFINE h == [i \in 0 .. k + 1 |-> IF i = 0 THEN p ELSE ParsedPair(g[i - 1], l[i])]
  <2>2. \A i \in 0 .. k : h[i] = g[i]
    BY <2>1
  <2>3. Parses(h, k + 1)
    <3>1. ASSUME NEW i \in 0 .. k + 1, i # 0 PROVE h[i - 1] = g[i - 1]
      <4>1. i - 1 \in 0 .. k
        BY <3>1, <1>2
      <4> HIDE DEF h
      <4> QED BY <2>2, <4>1
    <3> QED BY <3>1
  <2> HIDE DEF Parses
  <2> QED BY <2>3
<1>3. \E g : Parses(g, Len(l))
  <2>1. Len(l) \in S
    <3> HIDE DEF S
    <3>1. 0 .. Len(l) \subseteq S
      BY <1>1, <1>2, SetInduction
    <3> QED BY <3>1
  <2> QED BY <2>1
<1>4. Parses(CHOOSE f : Parses(f, Len(l)), Len(l))
  <2> HIDE DEF Parses
  <2> QED BY <1>3
<1>5. Parsed(p, l) = (CHOOSE f : Parses(f, Len(l)))[Len(l)]
  BY DEF Parsed
<1> QED BY <1>4, <1>5

-----------------------------------------------------------------------------
(***************************************************************************)
(* What the parser leaves of a listing, whatever its length: each target   *)
(* that is named, and the address that follows its name, if one does.  It  *)
(* is the recursive definition of the parser that is hard to reason about; *)
(* this is what it computes.                                               *)
(***************************************************************************)
Names(l, i) == l[i].key = "TargetName"

RecordsOf(l, n) ==
    {<<l[i].val, Nobody>> : i \in {j \in 1 .. n : Names(l, j)}}
    \cup {<<l[i - 1].val, l[i].val>> :
            i \in {j \in 2 .. n : Names(l, j - 1) /\ ~ Names(l, j)}}
NameOf(l, n) == IF Names(l, n) THEN l[n].val ELSE Nobody

\* The parser, when it has read n pairs of a listing.
IsRead(p, l, n) ==
    /\ p.recs = RecordsOf(l, n)
    /\ n > 0 => p.name = NameOf(l, n)

\* What a listing holds.
LEMMA ListingIs ==
  ASSUME NEW l \in Listings
  PROVE  /\ IsSeq(l) /\ Len(l) \in Nat
         /\ Len(l) > 0 => Names(l, 1)
         /\ \A i \in 1 .. Len(l) :
                /\ l[i].val # Nobody
                /\ Names(l, i) => l[i] = [key |-> "TargetName", val |-> l[i].val]
                /\ ~ Names(l, i) => l[i].key = "TargetAddress"
<1> DEFINE V == {l[i].val : i \in DOMAIN l} \ {Nobody}
           P == [key : {"TargetName", "TargetAddress"}, val : V]
<1>1. l \in Seq(P) /\ (l # <<>> => l[1].key = "TargetName")
  BY ListingsAssumption
<1>2. Len(l) \in Nat /\ DOMAIN l = 1 .. Len(l) /\ (Len(l) > 0 => l # <<>>)
  <2> HIDE DEF P
  <2> QED BY <1>1, EmptySeq, LenProperties
<1>3. \A i \in 1 .. Len(l) : l[i] \in P
  <2> HIDE DEF P
  <2> QED BY <1>1, <1>2, ElementOfSeq
<1>4. IsSeq(l)
  <2> HIDE DEF P
  <2>1. l \in [1 .. Len(l) -> {l[i] : i \in 1 .. Len(l)}]
    BY <1>1, <1>2, LenProperties
  <2> QED BY <1>2, <2>1, SeqDef, Zenon DEF IsSeq
<1>5. \A i \in 1 .. Len(l) : l[i].val # Nobody /\ l[i].key \in {"TargetName", "TargetAddress"}
        /\ l[i] = [key |-> l[i].key, val |-> l[i].val]
  <2> HIDE DEF V
  <2> SUFFICES ASSUME NEW i \in 1 .. Len(l) PROVE l[i].val \in V /\ l[i].key \in {"TargetName", "TargetAddress"}
        /\ l[i] = [key |-> l[i].key, val |-> l[i].val]
    BY DEF V
  <2> QED BY <1>3
<1> QED BY <1>1, <1>2, <1>4, <1>5 DEF Names

\* One pair more.
LEMMA PairRead ==
  ASSUME NEW l \in Listings, NEW n \in 0 .. Len(l) - 1, NEW p, IsRead(p, l, n)
  PROVE  IsRead(ParsedPair(p, l[n + 1]), l, n + 1)
<1> DEFINE q == ParsedPair(p, l[n + 1])
<1>0. Len(l) \in Nat /\ n \in Nat /\ n + 1 \in 1 .. Len(l)
  BY ListingIs
<1>1. CASE Names(l, n + 1)
  <2>1. q.recs = p.recs \cup {<<l[n + 1].val, Nobody>>} /\ q.name = l[n + 1].val
    BY <1>1 DEF ParsedPair, Names
  <2>2. {j \in 1 .. n + 1 : Names(l, j)} = {j \in 1 .. n : Names(l, j)} \cup {n + 1}
    BY <1>0, <1>1
  <2>3. {j \in 2 .. n + 1 : Names(l, j - 1) /\ ~ Names(l, j)}
          = {j \in 2 .. n : Names(l, j - 1) /\ ~ Names(l, j)}
    BY <1>0, <1>1
  <2>4. RecordsOf(l, n + 1) = RecordsOf(l, n) \cup {<<l[n + 1].val, Nobody>>}
    BY <2>2, <2>3 DEF RecordsOf
  <2> QED BY <1>0, <1>1, <2>1, <2>4 DEF IsRead, NameOf
<1>2. CASE ~ Names(l, n + 1)
  <2>0. n \in 1 .. Len(l) /\ n > 0
    BY <1>0, <1>2, ListingIs
  <2>1. /\ q.recs = (IF p.name = Nobody THEN p.recs
                     ELSE p.recs \cup {<<p.name, l[n + 1].val>>})
        /\ q.name = Nobody
    BY <1>2 DEF ParsedPair, Names
  <2>2. {j \in 1 .. n + 1 : Names(l, j)} = {j \in 1 .. n : Names(l, j)}
    BY <1>0, <1>2
  <2>3. p.name = NameOf(l, n)
    BY <2>0 DEF IsRead
  <2>4. CASE Names(l, n)
    <3>1. {j \in 2 .. n + 1 : Names(l, j - 1) /\ ~ Names(l, j)}
            = {j \in 2 .. n : Names(l, j - 1) /\ ~ Names(l, j)} \cup {n + 1}
      BY <1>0, <1>2, <2>0, <2>4
    <3>2. RecordsOf(l, n + 1) = RecordsOf(l, n) \cup {<<l[(n + 1) - 1].val, l[n + 1].val>>}
      BY <2>2, <3>1 DEF RecordsOf
    <3>3. (n + 1) - 1 = n
      BY <1>0
    <3>4. p.name = l[n].val /\ p.name # Nobody
      <4>1. l[n].val # Nobody
        BY <2>0, ListingIs
      <4> QED BY <2>3, <2>4, <4>1 DEF NameOf
    <3> QED BY <1>2, <2>1, <3>2, <3>3, <3>4 DEF IsRead, NameOf
  <2>5. CASE ~ Names(l, n)
    <3>1. {j \in 2 .. n + 1 : Names(l, j - 1) /\ ~ Names(l, j)}
            = {j \in 2 .. n : Names(l, j - 1) /\ ~ Names(l, j)}
      BY <1>0, <2>5
    <3>2. RecordsOf(l, n + 1) = RecordsOf(l, n)
      BY <2>2, <3>1 DEF RecordsOf
    <3> QED BY <1>2, <2>1, <2>3, <2>5, <3>2 DEF IsRead, NameOf
  <2> QED BY <2>4, <2>5
<1> QED BY <1>1, <1>2

\* ListingParsed: an answer that goes on where the parser is leaves it where the
\* answer ends, whatever the length of either.
THEOREM ListingParsed ==
  ASSUME NEW l \in Listings, NEW n \in 0 .. Len(l), NEW p, IsRead(p, l, n),
         NEW s, Len(s) \in Nat, n + Len(s) <= Len(l),
         \A i \in 1 .. Len(s) : s[i] = l[n + i]
  PROVE  IsRead(Parsed(p, s), l, n + Len(s))
<1>1. PICK f : /\ f = [i \in 0 .. Len(s) |->
                        IF i = 0 THEN p ELSE ParsedPair(f[i - 1], s[i])]
               /\ Parsed(p, s) = f[Len(s)]
  BY ParserIs
<1> DEFINE S == {k \in 0 .. Len(s) : IsRead(f[k], l, n + k)}
<1>2. 0 \in S
  BY <1>1
<1>3. ASSUME NEW k \in 0 .. Len(s) - 1, k \in S PROVE k + 1 \in S
  <2>1. n + k \in 0 .. Len(l) - 1 /\ k + 1 \in 1 .. Len(s) /\ (n + k) + 1 = n + (k + 1)
    BY ListingIs
  <2>2. f[k + 1] = ParsedPair(f[k], l[(n + k) + 1])
    <3>1. f[k + 1] = ParsedPair(f[(k + 1) - 1], s[k + 1])
      <4>1. k + 1 \in 0 .. Len(s) /\ k + 1 # 0
        BY <2>1
      <4> QED BY <1>1, <4>1, Zenon
    <3>2. (k + 1) - 1 = k /\ s[k + 1] = l[n + (k + 1)]
      BY <2>1
    <3> QED BY <2>1, <3>1, <3>2
  <2>3. IsRead(f[k], l, n + k)
    BY <1>3
  <2>4. IsRead(f[k + 1], l, (n + k) + 1)
    BY <2>1, <2>2, <2>3, PairRead
  <2> QED BY <2>1, <2>4
<1>4. Len(s) \in S
  <2> HIDE DEF S
  <2>1. 0 .. Len(s) \subseteq S
    BY <1>2, <1>3, SetInduction
  <2> QED BY <2>1
<1> QED BY <1>1, <1>4

-----------------------------------------------------------------------------
(***************************************************************************)
(* A listing is asked for once, and read in the order it was sent: of what *)
(* was sent in two answers, the second is read after the first, and a      *)
(* query that ended well has read it all.                                  *)
(***************************************************************************)
Unread == recs = {}
ReadTo(n) == IsRead([recs |-> recs, name |-> name], tgt.list, n)

\* The request for the listing has not been sent.
Unasked ==
    \/ step \in LoggingIn \cup {"full", "probed"}
    \/ step = "text" /\ query.at = "send"

Tells(i) == in[i].op = "text"

\* The first of two answers, the second of them, or the only one.
FirstOf(i) ==
    /\ in[i].cont /\ Unread /\ Len(tgt.list) > 1
    /\ in[i].list = <<Head(tgt.list)>>
    /\ i < Len(in) => i = 1 /\ Len(in) = 2
    /\ \A j \in 1 .. i - 1 : ~ Tells(j)
RestOf(i) ==
    /\ ~ in[i].cont /\ Len(tgt.list) > 1 /\ i = Len(in)
    /\ in[i].list = Tail(tgt.list)
    /\ IF i = 1 THEN ReadTo(1) ELSE i = 2 /\ Tells(1)
WholeOf(i) ==
    /\ ~ in[i].cont /\ Unread /\ i = Len(in)
    /\ in[i].list = tgt.list
    /\ \A j \in 1 .. i - 1 : ~ Tells(j)

\* What iSCSIQueryPortalForTargets adds when it is done.
Missed(R) == {t \in {r[1] : r \in R} : \A r \in R : r[1] = t => r[2] = Nobody}
AllOf(l) == RecordsOf(l, Len(l))

ListingRead ==
    /\ tgt.list \in Listings \cup {<<>>}
    /\ Unasked => ~ OnItsWay("targets")
    /\ Unasked \/ OnItsWay("targets") => Unread /\ \A i \in 1 .. Len(in) : ~ Tells(i)
    /\ \A i \in 1 .. Len(in) : Tells(i) =>
        in[i].ok /\ Len(out) = 0 /\ (FirstOf(i) \/ RestOf(i) \/ WholeOf(i))
    /\ step # "listed" => \E n \in 0 .. Len(tgt.list) : ReadTo(n)
    /\ step = "text" /\ query.at = "done" /\ ~ query.error =>
        /\ ~ OnItsWay("targets") /\ \A i \in 1 .. Len(in) : ~ Tells(i)
        /\ ReadTo(Len(tgt.list))
    /\ step = "listed" =>
        /\ ~ OnItsWay("targets")
        /\ recs = AllOf(tgt.list) \cup {<<t, Here>> : t \in Missed(AllOf(tgt.list))}

\* Nothing is listed at the start.
LEMMA ListingInit == LoginInit => ListingRead
<1> SUFFICES ASSUME LoginInit PROVE ListingRead
  OBVIOUS
<1>1. /\ tgt.list = <<>> /\ recs = {} /\ step = "auth" /\ Len(in) = 0 /\ Len(out) = 0
      /\ Len(tgt.list) = 0
  BY EmptyIs DEF LoginInit
<1>2. ReadTo(0)
  BY <1>1 DEF ReadTo, IsRead, RecordsOf
<1> QED BY <1>1, <1>2 DEF ListingRead, Unread, OnItsWay

\* A parser that has read nothing.
LEMMA NothingRead == Unread <=> ReadTo(0)
BY DEF Unread, ReadTo, IsRead, RecordsOf

\* What a listing can be is one, or none yet.
LEMMA ListedIs ==
  ASSUME NEW l \in Listings \cup {<<>>}
  PROVE  IsSeq(l) /\ Len(l) \in Nat /\ (Len(l) > 0 => l \in Listings)
BY ListingIs, EmptyIs

\* A step of the target that tells nothing of a listing.
LEMMA ListingUntold ==
  ASSUME Shapes, ListingRead, UNCHANGED initiator, tgt'.list = tgt.list,
         \/ in' = in /\ Len(out') = 0
         \/ /\ \A i \in 1 .. Len(in) : ~ Tells(i)
            /\ \A i \in 1 .. Len(in') : ~ Tells(i)'
            /\ OnItsWay("targets")' => OnItsWay("targets")
  PROVE  ListingRead'
<1>0. UNCHANGED <<recs, name, step, query>>
  BY DEF initiator
<1>1. OnItsWay("targets")' => OnItsWay("targets")
  BY DEF OnItsWay
<1>2. /\ Unread' = Unread /\ Unasked' = Unasked /\ \A n : ReadTo(n)' = ReadTo(n)
  BY <1>0 DEF Unread, Unasked, ReadTo
<1>3. ASSUME NEW i \in 1 .. Len(in'), Tells(i)'
      PROVE  (in[i].ok /\ Len(out) = 0 /\ (FirstOf(i) \/ RestOf(i) \/ WholeOf(i)))'
  <2>1. in' = in /\ Len(out') = 0
    BY <1>3
  <2>2. i \in 1 .. Len(in) /\ Tells(i)
    BY <1>3, <2>1 DEF Tells
  <2>3. in[i].ok /\ (FirstOf(i) \/ RestOf(i) \/ WholeOf(i))
    BY <2>2 DEF ListingRead
  <2>4. /\ FirstOf(i)' = FirstOf(i) /\ RestOf(i)' = RestOf(i) /\ WholeOf(i)' = WholeOf(i)
    BY <1>2, <2>1 DEF FirstOf, RestOf, WholeOf, Tells
  <2> QED BY <2>1, <2>3, <2>4
<1>4. \A i \in 1 .. Len(in') : Tells(i)' => \E j \in 1 .. Len(in) : Tells(j)
  BY DEF Tells
<1>5. (step # "listed" => \E n \in 0 .. Len(tgt.list) : ReadTo(n))'
  BY <1>0, <1>2 DEF ListingRead
<1>6. (Unasked \/ OnItsWay("targets")
        => Unread /\ \A i \in 1 .. Len(in) : ~ Tells(i))'
  BY <1>1, <1>2, <1>4 DEF ListingRead
<1>7. ~ OnItsWay("targets") /\ (\A i \in 1 .. Len(in) : ~ Tells(i))
        => ~ OnItsWay("targets")' /\ \A i \in 1 .. Len(in') : ~ Tells(i)'
  BY <1>1, <1>4
<1>8. (step = "text" /\ query.at = "done" /\ ~ query.error =>
        /\ ~ OnItsWay("targets") /\ \A i \in 1 .. Len(in) : ~ Tells(i)
        /\ ReadTo(Len(tgt.list)))'
  <2>1. ReadTo(Len(tgt.list))' = ReadTo(Len(tgt.list))
    BY <1>2
  <2> QED BY <1>0, <1>7, <2>1 DEF ListingRead
<1>9. (step = "listed" =>
        /\ ~ OnItsWay("targets")
        /\ recs = AllOf(tgt.list) \cup {<<t, Here>> : t \in Missed(AllOf(tgt.list))})'
  BY <1>0, <1>1 DEF ListingRead
<1>10. (tgt.list \in Listings \cup {<<>>} /\ (Unasked => ~ OnItsWay("targets")))'
  BY <1>1, <1>2 DEF ListingRead
<1> QED BY <1>3, <1>5, <1>6, <1>8, <1>9, <1>10 DEF ListingRead

\* The target asked for a listing sends it, or a part of it.
LEMMA ListingServed ==
  ASSUME Shapes, Bounded, ListingRead, NEW r, Serves(r), out[1].ask = "targets"
  PROVE  ListingRead'
<1>1. /\ Len(out) > 0 /\ Popped(out, out') /\ Appended(in, in', r) /\ UNCHANGED initiator
      /\ r.ok /\ r.op = "text" /\ tgt'.list \in Listings /\ AnswerOK(r)
      /\ r.list = (IF r.cont THEN <<Head(tgt'.list)>> ELSE tgt'.list)
      /\ r.cont => Len(tgt'.list) > 1
  BY DEF Serves, Meets, Replied
<1>2. Len(out) = 1 /\ OnItsWay("targets")
  <2>1. Len(out) \in Nat /\ 1 \in 1 .. Len(out)
    BY <1>1, LenIs DEF Shapes, LinesOK
  <2> QED BY <2>1 DEF Bounded, LastAsked, OnItsWay
<1>3. Len(out') = 0 /\ ~ OnItsWay("targets")'
  <2>0. Len(out) = Len(out') + 1 /\ Len(out') \in Nat
    BY <1>1 DEF Popped
  <2>1. \A m, n \in Nat : m = n + 1 /\ m = 1 => n = 0
    OBVIOUS
  <2>2. Len(out') = 0
    BY <1>2, <2>0, <2>1
  <2> QED BY <2>2 DEF OnItsWay
<1>4. Unread /\ ~ Unasked /\ \A i \in 1 .. Len(in) : ~ Tells(i)
  BY <1>2 DEF ListingRead
<1>5. UNCHANGED <<recs, name, step, query>> /\ Unread' /\ ~ Unasked'
  BY <1>1, <1>4 DEF initiator, Unread, Unasked
<1>6. Len(tgt'.list) \in Nat /\ ReadTo(0)'
  BY <1>1, <1>5, ListingIs DEF Unread, ReadTo, IsRead, RecordsOf
<1>7. ASSUME NEW i \in 1 .. Len(in'), Tells(i)'
      PROVE  in'[i].ok /\ (FirstOf(i) \/ WholeOf(i))'
  <2>1. i = Len(in') /\ in'[i] = r /\ Len(in) \in Nat
    BY <1>1, <1>4, <1>7, AppendedAt DEF Tells, Appended
  <2>2. \A j \in 1 .. i - 1 : ~ Tells(j)'
    BY <1>1, <1>4, <2>1 DEF Tells, Appended
  <2>3. r.cont \in BOOLEAN
    BY <1>1 DEF AnswerOK
  <2> QED BY <1>1, <1>5, <2>1, <2>2, <2>3 DEF FirstOf, WholeOf
<1>8. step # "listed" /\ ~ (step = "text" /\ query.at = "done" /\ ~ query.error)
  BY <1>2, <1>4 DEF ListingRead
<1> QED BY <1>1, <1>3, <1>5, <1>6, <1>7, <1>8 DEF ListingRead

\* The rest of an answer follows it.
LEMMA ListingContinued ==
  ASSUME Shapes, Bounded, ListingRead, NEW r, Continued(r)
  PROVE  ListingRead'
<1>1. /\ Len(in) = 1 /\ in[1].cont /\ Appended(in, in', r) /\ UNCHANGED <<initiator, out>>
      /\ r.op = in[1].op /\ r.ok /\ ~ r.cont
      /\ r.op = "text" => r.list = Tail(tgt.list)
      /\ tgt'.list = tgt.list
  BY DEF Continued, Shapes, TargetOK
<1>2. /\ Len(in') = 2 /\ in'[1] = in[1] /\ in'[2] = r
  BY <1>1 DEF Appended
<1>3. CASE in[1].op # "text"
  <2>1. \A i \in 1 .. Len(in) : ~ Tells(i)
    BY <1>1, <1>3 DEF Tells
  <2>2. \A i \in 1 .. Len(in') : ~ Tells(i)'
    BY <1>1, <1>2, <1>3 DEF Tells
  <2>3. OnItsWay("targets")' => OnItsWay("targets")
    BY <1>1 DEF OnItsWay
  <2> QED BY <1>1, <2>1, <2>2, <2>3, ListingUntold
<1>4. CASE in[1].op = "text"
  <2>1. Tells(1) /\ 1 \in 1 .. Len(in)
    BY <1>1, <1>4 DEF Tells
  <2>2. in[1].ok /\ Len(out) = 0 /\ FirstOf(1)
    BY <1>1, <2>1 DEF ListingRead, RestOf, WholeOf
  <2>3. UNCHANGED <<recs, name, step, query, out>>
    BY <1>1 DEF initiator
  <2>4. /\ Unread' = Unread /\ Unasked' = Unasked /\ \A n : ReadTo(n)' = ReadTo(n)
        /\ OnItsWay("targets")' = OnItsWay("targets")
    BY <1>1, <2>3 DEF Unread, Unasked, ReadTo, OnItsWay
  <2>5. FirstOf(1)' /\ RestOf(2)'
    BY <1>1, <1>2, <1>4, <2>2, <2>4 DEF FirstOf, RestOf, Tells
  <2>6. ~ Unasked /\ ~ OnItsWay("targets")
    BY <2>1 DEF ListingRead
  <2>7. \A i \in 1 .. Len(in') : ((i = 1 /\ FirstOf(i)') \/ (i = 2 /\ RestOf(i)')) /\ in'[i].ok
    BY <1>1, <1>2, <2>2, <2>5
  <2>8. ~ (step = "text" /\ query.at = "done" /\ ~ query.error)
    BY <2>1 DEF ListingRead
  <2> HIDE DEF FirstOf, RestOf
  <2> QED BY <1>1, <2>2, <2>3, <2>4, <2>6, <2>7, <2>8 DEF ListingRead
<1> QED BY <1>3, <1>4

\* The target keeps the order of a listing.
LEMMA ListingTarget ==
  ASSUME Shapes, Bounded, ListingRead, Target
  PROVE  ListingRead'
<1>1. ASSUME NEW r, Replied(r), r.op # "text", tgt'.list = tgt.list PROVE ListingRead'
  <2>1. Len(out) > 0 /\ Popped(out, out') /\ Appended(in, in', r) /\ UNCHANGED initiator
    BY <1>1 DEF Replied
  <2>2. \A i \in 1 .. Len(in) : ~ Tells(i)
    BY <2>1 DEF ListingRead
  <2>3. \A i \in 1 .. Len(in') : ~ Tells(i)'
    BY <1>1, <2>1, <2>2, AppendedAt DEF Tells
  <2>4. OnItsWay("targets")' => OnItsWay("targets")
    BY <2>1 DEF OnItsWay, Popped
  <2> QED BY <1>1, <2>1, <2>2, <2>3, <2>4, ListingUntold
<1>2. ASSUME NEW r, Refuses(r) PROVE ListingRead'
  BY <1>1, <1>2 DEF Refuses, Shapes, TargetOK
<1>3. ASSUME NEW r, Serves(r) PROVE ListingRead'
  BY <1>1, <1>3, ListingServed DEF Serves, Meets
<1>4. CASE Leave
  BY <1>4, ListingUntold, EmptyIs DEF Leave, Shapes, TargetOK
<1> QED BY <1>2, <1>3, <1>4, ListingContinued, TargetSteps

\* The initiator asks, or hears nothing.
LEMMA ListingAsked ==
  ASSUME Shapes, ListingRead, Sends \/ Misses
  PROVE  ListingRead'
<1>0. /\ UNCHANGED <<recs, name, step, in, tgt>> /\ Querying
      /\ query \in QueryTypes /\ Fits(step, query)
  BY DEF Sends, Misses, Shapes, InitiatorOK
<1>1. /\ Unread' = Unread /\ \A n : ReadTo(n)' = ReadTo(n)
      /\ \A i : Tells(i)' = Tells(i)
  BY <1>0 DEF Unread, ReadTo, Tells
<1>2. \A i : FirstOf(i)' = FirstOf(i) /\ RestOf(i)' = RestOf(i) /\ WholeOf(i)' = WholeOf(i)
  BY <1>0, <1>1 DEF FirstOf, RestOf, WholeOf
<1>3. step # "listed"
  BY <1>0 DEF Querying, LoggingIn
<1>4. CASE Sends
  <2>1. Unasked /\ query'.at = "receive" /\ Appended(out, out', Request)
    BY <1>0, <1>4 DEF Sends, Unasked, Querying, QueryTypes
  <2>2. Unread /\ ~ OnItsWay("targets") /\ \A i \in 1 .. Len(in) : ~ Tells(i)
    BY <2>1 DEF ListingRead
  <2>3. step \in LoggingIn => Request.ask # "targets"
    BY <1>0 DEF Request, Fits, LoggingIn
  <2>4. OnItsWay("targets")' => Request.ask = "targets"
    <3> HIDE DEF Request
    <3> QED BY <2>1, <2>2, AppendedAt DEF OnItsWay
  <2>5. Unasked' => step \in LoggingIn
    BY <1>0, <2>1 DEF Unasked, Querying, LoggingIn
  <2> HIDE DEF Request, Fits
  <2> QED BY <1>0, <1>1, <1>3, <2>1, <2>2, <2>3, <2>4, <2>5 DEF ListingRead
<1>5. CASE Misses
  <2> DEFINE q == [query EXCEPT !.error = TRUE]
  <2>1. q \in QueryTypes /\ q.error
    BY <1>0 DEF QueryTypes
  <2>2. out' = out /\ Ended(q, status)
    BY <1>5 DEF Misses
  <2> HIDE DEF q
  <2>3. query'.error /\ (step = "text" => query'.at = "done")
    BY <2>1, <2>2, EndedIs
  <2>4. Unasked' => Unasked
    BY <1>0, <2>3 DEF Unasked
  <2>5. OnItsWay("targets")' = OnItsWay("targets")
    BY <2>2 DEF OnItsWay
  <2> QED BY <1>0, <1>1, <1>2, <1>3, <2>2, <2>3, <2>4, <2>5 DEF ListingRead
<1> QED BY <1>4, <1>5

\* Another answer than a listing is read.
LEMMA ListingPassed ==
  ASSUME Shapes, ListingRead, NEW r, Unserved(r) \/ Takes(r)
  PROVE  ListingRead'
<1>0. /\ UNCHANGED <<recs, name, step, out, tgt>> /\ Read(r) /\ r.op # "text"
      /\ query \in QueryTypes
  BY DEF Unserved, Takes, Shapes, InitiatorOK
<1>1. /\ Len(in) \in Nat /\ Len(in') \in Nat /\ Len(in) = Len(in') + 1 /\ r = in[1]
      /\ \A i \in 1 .. Len(in') : in'[i] = in[i + 1]
  BY <1>0 DEF Read, Popped
<1>2. /\ Unread' = Unread /\ \A n : ReadTo(n)' = ReadTo(n)
      /\ ~ Tells(1)
      /\ OnItsWay("targets")' = OnItsWay("targets")
  BY <1>0, <1>1 DEF Unread, ReadTo, Tells, OnItsWay
<1>3. ASSUME NEW i \in 1 .. Len(in'), Tells(i)'
      PROVE  (in[i].ok /\ Len(out) = 0 /\ (FirstOf(i) \/ RestOf(i) \/ WholeOf(i)))'
  <2>1. i + 1 \in 1 .. Len(in) /\ i + 1 # 1 /\ in'[i] = in[i + 1] /\ Tells(i + 1)
    BY <1>1, <1>3 DEF Tells
  <2>2. /\ in[i + 1].ok /\ Len(out) = 0
        /\ FirstOf(i + 1) \/ RestOf(i + 1) \/ WholeOf(i + 1)
    BY <2>1 DEF ListingRead
  <2>6. (\A j \in 1 .. (i + 1) - 1 : ~ Tells(j)) => \A j \in 1 .. i - 1 : ~ Tells(j)'
    <3>1. \A j \in 1 .. i - 1 : j + 1 \in 1 .. (i + 1) - 1 /\ in'[j] = in[j + 1]
      BY <1>1
    <3> QED BY <3>1 DEF Tells
  <2>3. CASE FirstOf(i + 1)
    <3>1. i + 1 = Len(in)
      BY <1>1, <2>1, <2>3 DEF FirstOf
    <3>2. ~ (i < Len(in'))
      BY <1>1, <3>1
    <3>3. \A j \in 1 .. i - 1 : ~ Tells(j)'
      BY <2>3, <2>6 DEF FirstOf
    <3>4. FirstOf(i)'
      BY <1>0, <1>2, <2>1, <2>3, <3>2, <3>3 DEF FirstOf
    <3> QED BY <1>0, <2>1, <2>2, <3>4
  <2>4. CASE RestOf(i + 1)
    BY <1>2, <2>1, <2>4 DEF RestOf
  <2>5. CASE WholeOf(i + 1)
    <3>1. i = Len(in')
      BY <1>1, <2>5 DEF WholeOf
    <3>2. \A j \in 1 .. i - 1 : ~ Tells(j)'
      BY <2>5, <2>6 DEF WholeOf
    <3>3. WholeOf(i)'
      BY <1>0, <1>2, <2>1, <2>5, <3>1, <3>2 DEF WholeOf
    <3> QED BY <1>0, <2>1, <2>2, <3>3
  <2> QED BY <2>2, <2>3, <2>4, <2>5
<1>4. \A i \in 1 .. Len(in') : Tells(i)' => \E j \in 1 .. Len(in) : Tells(j)
  <2> SUFFICES ASSUME NEW i \in 1 .. Len(in'), Tells(i)' PROVE Tells(i + 1) /\ i + 1 \in 1 .. Len(in)
    BY <1>1
  <2> QED BY <1>1 DEF Tells
<1>5. /\ step \notin {"listed", "full", "probed"} /\ query.at = "receive"
      /\ step = "text" => query'.at = "done" /\ query'.error
  <2>1. step \in LoggingIn \cup {"text"} /\ query.at = "receive"
    BY <1>0 DEF Read, Querying
  <2> DEFINE q == [query EXCEPT !.error = TRUE]
  <2>2. q \in QueryTypes /\ q.error
    BY <1>0 DEF QueryTypes
  <2>3. step = "text" => Ended(q, status)
    BY DEF Unserved, Takes, LoggingIn
  <2> HIDE DEF q
  <2>4. step = "text" => query'.at = "done" /\ query'.error
    BY <2>2, <2>3, EndedIs
  <2> QED BY <2>1, <2>4 DEF LoggingIn
<1>6. Unasked' => Unasked
  BY <1>0, <1>5 DEF Unasked
<1> QED BY <1>0, <1>2, <1>3, <1>4, <1>5, <1>6 DEF ListingRead

\* The parser reads the next answer of a listing.
LEMMA ListingTaken ==
  ASSUME Shapes, Bounded, ListingRead, NEW r, Lists(r)
  PROVE  ListingRead'
<1>0. /\ UNCHANGED <<step, out, tgt>> /\ Read(r) /\ r.op = "text" /\ step = "text"
      /\ query \in QueryTypes
      /\ recs' = Parsed([recs |-> recs, name |-> name], r.list).recs
      /\ name' = Parsed([recs |-> recs, name |-> name], r.list).name
      /\ IF r.cont THEN UNCHANGED <<query, status>> ELSE Ended(query, status)
  BY DEF Lists, Shapes, InitiatorOK
<1>1. /\ Len(in) \in Nat /\ Len(in') \in Nat /\ Len(in) = Len(in') + 1 /\ r = in[1]
      /\ \A i \in 1 .. Len(in') : in'[i] = in[i + 1]
      /\ query.at = "receive" /\ 1 \in 1 .. Len(in)
  BY <1>0 DEF Read, Popped
<1>2. /\ Tells(1) /\ Len(out) = 0
      /\ FirstOf(1) \/ RestOf(1) \/ WholeOf(1)
  BY <1>0, <1>1 DEF ListingRead, Tells
<1>3. ~ OnItsWay("targets") /\ ~ OnItsWay("targets")' /\ ~ Unasked
  BY <1>0, <1>1, <1>2 DEF ListingRead, OnItsWay
<1>4. query'.at \in {"receive", "done"} /\ (query'.at = "done" => ~ r.cont)
  BY <1>0, <1>1, EndedIs
<1>5. ~ Unasked'
  BY <1>0, <1>4 DEF Unasked, LoggingIn
<1> DEFINE l == tgt.list
           p == [recs |-> recs, name |-> name]
<1>6. IsSeq(l) /\ Len(l) \in Nat /\ (Len(l) > 0 => l \in Listings)
  BY ListedIs DEF ListingRead
<1>7. ASSUME NEW n \in 0 .. Len(l), ReadTo(n), Len(l) > 0, Len(r.list) \in Nat,
             n + Len(r.list) <= Len(l), \A i \in 1 .. Len(r.list) : r.list[i] = l[n + i]
      PROVE  ReadTo(n + Len(r.list))'
  <2>1. IsRead(p, l, n)
    BY <1>7 DEF ReadTo
  <2>2. IsRead(Parsed(p, r.list), l, n + Len(r.list))
    BY <1>6, <1>7, <2>1, ListingParsed
  <2> QED BY <1>0, <2>2 DEF ReadTo, IsRead
<1>8. CASE FirstOf(1)
  <2>1. /\ r.cont /\ Unread /\ Len(l) > 1 /\ r.list = <<Head(l)>>
        /\ Len(in) > 1 => Len(in) = 2
    BY <1>1, <1>8 DEF FirstOf
  <2>2. Len(r.list) = 1 /\ r.list[1] = Head(l) /\ Head(l) = l[1]
    BY <1>6, <2>1, TailIs, LenIs DEF Popped
  <2>3. ReadTo(0) /\ 0 \in 0 .. Len(l)
    BY <1>6, <2>1, NothingRead
  <2>4. ReadTo(0 + Len(r.list))'
    <3>1. \A i \in 1 .. Len(r.list) : r.list[i] = l[0 + i]
      BY <2>2
    <3>2. Len(r.list) \in Nat /\ 0 + Len(r.list) <= Len(l) /\ Len(l) > 0
      BY <1>6, <2>1, <2>2
    <3> HIDE DEF l
    <3> QED BY <1>7, <2>3, <3>1, <3>2
  <2>5. ReadTo(1)' /\ 1 \in 0 .. Len(tgt'.list)
    BY <1>0, <1>6, <2>1, <2>2, <2>4
  <2>8. Len(in') \in Nat /\ (Len(in') > 0 => Len(in') = 1)
    <3>1. Len(in') > 0 => Len(in) > 1
      BY <1>1
    <3>2. Len(in') > 0 => Len(in) = 2
      BY <2>1, <3>1
    <3>3. \A m, n \in Nat : m = n + 1 /\ (n > 0 => m = 2) => (n > 0 => n = 1)
      OBVIOUS
    <3>4. Len(in) \in Nat /\ Len(in') \in Nat /\ Len(in) = Len(in') + 1
      BY <1>1
    <3> QED BY <3>2, <3>3, <3>4
  <2>6. ASSUME NEW i \in 1 .. Len(in'), Tells(i)'
        PROVE  (in[i].ok /\ Len(out) = 0 /\ (FirstOf(i) \/ RestOf(i) \/ WholeOf(i)))'
    <3>0. Len(in') > 0
      BY <1>1, <2>6
    <3>1. Len(in) = 2 /\ Len(in') = 1 /\ i = 1 /\ in'[1] = in[2] /\ 2 \in 1 .. Len(in)
      <4>1. Len(in') = 1
        BY <2>8, <3>0
      <4>2. Len(in) = 2 /\ i = 1
        BY <1>1, <2>6, <4>1
      <4> QED BY <1>1, <4>1, <4>2
    <3>2. Tells(2) /\ in[2].ok /\ (FirstOf(2) \/ RestOf(2) \/ WholeOf(2))
      BY <2>6, <3>1 DEF Tells, ListingRead
    <3>3. ~ FirstOf(2)
      BY <1>2, <3>1 DEF FirstOf
    <3>4. ~ WholeOf(2)
      BY <1>2, <3>1 DEF WholeOf
    <3>5. RestOf(1)'
      BY <1>0, <2>5, <3>1, <3>2, <3>3, <3>4 DEF RestOf
    <3> QED BY <1>0, <1>2, <3>1, <3>2, <3>5
  <2>7. query'.at # "done" /\ tgt' = tgt /\ step' = "text"
    BY <1>0, <1>4, <2>1
  <2> QED BY <1>3, <1>5, <2>5, <2>6, <2>7 DEF ListingRead
<1>9. CASE RestOf(1) \/ WholeOf(1)
  <2>1. Len(in') = 0
    BY <1>1, <1>9 DEF RestOf, WholeOf
  <2>2. PICK n : n = Len(l)
    OBVIOUS
  <2>3. ReadTo(n)'
    <3>1. CASE RestOf(1)
      <4>1. n > 1 /\ r.list = Tail(l) /\ ReadTo(1)
        BY <1>1, <2>2, <3>1 DEF RestOf
      <4>2. /\ Len(r.list) \in Nat /\ n = 1 + Len(r.list)
            /\ \A i \in 1 .. Len(r.list) : r.list[i] = l[1 + i]
        BY <1>6, <2>2, <4>1, TailIs, LenIs DEF Popped
      <4>3. 1 \in 0 .. Len(l) /\ 1 + Len(r.list) <= Len(l) /\ Len(l) > 0
        BY <1>6, <2>2, <4>1, <4>2
      <4>4. ReadTo(1 + Len(r.list))'
        BY <1>7, <4>1, <4>2, <4>3
      <4> QED BY <4>2, <4>4
    <3>2. CASE WholeOf(1)
      <4>1. r.list = l /\ ReadTo(0)
        BY <1>1, <3>2, NothingRead DEF WholeOf
      <4>2. CASE n > 0
        <5>1. /\ 0 \in 0 .. Len(l) /\ Len(r.list) \in Nat /\ 0 + Len(r.list) <= Len(l)
              /\ Len(l) > 0 /\ n = 0 + Len(r.list)
              /\ \A i \in 1 .. Len(r.list) : r.list[i] = l[0 + i]
          BY <1>6, <2>2, <4>1, <4>2
        <5>2. ReadTo(0 + Len(r.list))'
          BY <1>7, <4>1, <5>1
        <5> QED BY <5>1, <5>2
      <4>3. CASE n = 0
        <5>1. PICK f : /\ f = [i \in 0 .. Len(l) |->
                                IF i = 0 THEN p ELSE ParsedPair(f[i - 1], l[i])]
                       /\ Parsed(p, l) = f[Len(l)]
          BY <1>6, ParserIs
        <5>2. Parsed(p, l) = p
          BY <2>2, <4>3, <5>1
        <5> QED BY <1>0, <4>1, <4>3, <5>2 DEF ReadTo, IsRead
      <4> QED BY <1>6, <2>2, <4>2, <4>3
    <3> QED BY <1>9, <3>1, <3>2
  <2>4. n \in 0 .. Len(tgt'.list) /\ n = Len(tgt'.list) /\ step' = "text"
    BY <1>0, <1>6, <2>2
  <2>5. ReadTo(Len(tgt.list))'
    BY <2>3, <2>4
  <2> QED BY <1>0, <1>3, <1>5, <2>1, <2>3, <2>4, <2>5 DEF ListingRead
<1> QED BY <1>2, <1>8, <1>9

\* After the query the records are completed; the other turns leave them alone.
LEMMA ListingTurns ==
  ASSUME Shapes, ListingRead, Turns
  PROVE  ListingRead'
<1>0. UNCHANGED <<name, out, in, tgt>> /\ query.at = "done"
  BY DEF Turns, AuthNegotiate, AuthInterrogate, ChapChallenged, AuthNegotiateCHAP,
     WithoutAuthentication, NegotiateSession, QueryPortalForTargets, QueryEnded
<1>1. /\ OnItsWay("targets")' = OnItsWay("targets") /\ \A i : Tells(i)' = Tells(i)
  BY <1>0 DEF OnItsWay, Tells
<1>2. CASE QueryPortalForTargets
  <2>1. step = "text"
    BY <1>2 DEF QueryPortalForTargets, QueryEnded
  <2>2. CASE query.error
    <3>1. step' = "released" /\ UNCHANGED recs /\ UNCHANGED query
      BY <1>2, <2>2 DEF QueryPortalForTargets
    <3>2. /\ Unread' = Unread /\ \A n : ReadTo(n)' = ReadTo(n)
      BY <1>0, <3>1 DEF Unread, ReadTo
    <3>3. \A i : FirstOf(i)' = FirstOf(i) /\ RestOf(i)' = RestOf(i) /\ WholeOf(i)' = WholeOf(i)
      BY <1>0, <1>1, <3>2 DEF FirstOf, RestOf, WholeOf
    <3>4. ~ Unasked'
      BY <3>1 DEF Unasked, LoggingIn
    <3> QED BY <1>0, <1>1, <2>1, <3>1, <3>2, <3>3, <3>4 DEF ListingRead
  <2>3. CASE ~ query.error
    <3>1. step' = "listed" /\ recs' = recs \cup {<<t, Here>> : t \in Unreached}
      BY <1>2, <2>3 DEF QueryPortalForTargets
    <3>2. ~ OnItsWay("targets") /\ recs = AllOf(tgt.list)
      BY <1>0, <2>1, <2>3 DEF ListingRead, ReadTo, IsRead, AllOf
    <3>3. Unreached = Missed(AllOf(tgt.list))
      BY <3>2 DEF Unreached, Recorded, Missed
    <3>4. recs' = AllOf(tgt'.list) \cup {<<t, Here>> : t \in Missed(AllOf(tgt'.list))}
      BY <1>0, <3>1, <3>2, <3>3
    <3>5. ~ Unasked' /\ \A i \in 1 .. Len(in) : ~ Tells(i)
      BY <1>0, <2>1, <2>3, <3>1 DEF ListingRead, Unasked, LoggingIn
    <3> QED BY <1>0, <1>1, <3>1, <3>2, <3>4, <3>5 DEF ListingRead
  <2> QED BY <2>2, <2>3
<1>3. CASE ~ QueryPortalForTargets
  <2>1. /\ step \in LoggingIn /\ UNCHANGED recs
        /\ \/ step' \in LoggingIn \cup {"probed", "full", "released"}
           \/ step' = "text" /\ query'.at = "send"
    BY <1>3 DEF Turns, AuthNegotiate, AuthInterrogate, ChapChallenged, AuthNegotiateCHAP,
       WithoutAuthentication, NegotiateSession, QueryEnded, Next_, Release, Negotiate,
       LoggingIn, Query
  <2>2. Unasked /\ ~ OnItsWay("targets") /\ Unread /\ \A i \in 1 .. Len(in) : ~ Tells(i)
    BY <2>1 DEF ListingRead, Unasked
  <2>3. /\ Unread' = Unread /\ \A n : ReadTo(n)' = ReadTo(n)
    BY <1>0, <2>1 DEF Unread, ReadTo
  <2>4. step \notin {"listed", "text"}
    BY <2>1 DEF LoggingIn
  <2>5. step' # "listed" /\ ~ (step' = "text" /\ query'.at = "done")
    BY <2>1 DEF LoggingIn
  <2> QED BY <1>0, <1>1, <2>2, <2>3, <2>4, <2>5 DEF ListingRead
<1> QED BY <1>2, <1>3

\* The initiator keeps the order of a listing.
LEMMA ListingInitiator ==
  ASSUME Shapes, Bounded, ListingRead, Initiator
  PROVE  ListingRead'
BY InitiatorSteps, ListingAsked, ListingPassed, ListingTaken, ListingTurns

\* So does a step that changes neither the lines nor the records.
LEMMA ListingKept ==
  ASSUME ListingRead, UNCHANGED <<step, query, recs, name, out, in>>, tgt'.list = tgt.list
  PROVE  ListingRead'
<1>1. /\ Unread' = Unread /\ Unasked' = Unasked /\ \A n : ReadTo(n)' = ReadTo(n)
      /\ OnItsWay("targets")' = OnItsWay("targets") /\ \A i : Tells(i)' = Tells(i)
  BY DEF Unread, Unasked, ReadTo, OnItsWay, Tells
<1>2. \A i : FirstOf(i)' = FirstOf(i) /\ RestOf(i)' = RestOf(i) /\ WholeOf(i)' = WholeOf(i)
  BY <1>1 DEF FirstOf, RestOf, WholeOf
<1> QED BY <1>1, <1>2 DEF ListingRead
=============================================================================
