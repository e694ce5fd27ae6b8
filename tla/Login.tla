-------------------------------- MODULE Login --------------------------------
(***************************************************************************)
(* A login, from the first request to full feature phase.  The initiator's *)
(* thread runs one query after another: it sends a request, receives its   *)
(* answer, and sends empty requests while the target does not move to the  *)
(* stage asked for.  The target answers, refuses or leaves; an answer may  *)
(* come after the initiator has stopped waiting for it, and is then taken  *)
(* for the answer to the next request.                                     *)
(*                                                                         *)
(* The session the login belongs to is in Sessions; here its slot is       *)
(* "released" when the login gives it back.                                *)
(***************************************************************************)
EXTENDS Negotiation, Sequences

CONSTANTS
    Answers,        \* the operational parameters a target may answer with
    Listings,       \* what a target may list: sequences of [key, val]
    MaxRetries,     \* maxRetryCount
    FirstSN,        \* the status number a target starts with
    Wrap            \* how many status numbers there are: 2^32

ASSUME LoginAssumption ==
    /\ \A a \in Answers : IsDictionary(a)
    /\ MaxRetries \in Nat \ {0}
    /\ FirstSN \in Nat
    /\ Wrap \in Nat \ {0}

\* A target answers what it is offered (RFC 3720, 5.2).  The code relies on it for
\* ImmediateData alone: without an answer the kernel keeps the value offered.
ASSUME AnswersAssumption ==
    \A a \in Answers : Offered["ImmediateData"] => "ImmediateData" \in DOMAIN a

VARIABLES
    cfg,        \* what is asked of the login
    step,       \* where the procedure is
    query,      \* the query it is in
    status,     \* *statusCode
    rsp,        \* the dictionary of the answers read
    kern,       \* the kernel's session and connection
    recs,       \* the discovery record: pairs <<target, portal>>
    name,       \* targetIQN of the parser of discovery data
    out, in,    \* requests and answers on their way
    tgt         \* the target

loginVars == <<cfg, step, query, status, rsp, kern, recs, name, out, in, tgt>>
initiator == <<cfg, step, query, status, rsp, kern, recs, name>>

Nobody == "nobody"

\* The parser of discovery data keeps its name in a static variable, which the
\* discovery before this one may have left.
LastListed == "listed before"

\* A listing names a target and then its addresses, target by target (RFC 3720,
\* appendix D).  The parser does not depend on it, its results do.
ASSUME ListingsAssumption ==
    \A l \in Listings :
        /\ l \in Seq([key : {"TargetName", "TargetAddress"},
                     val : {l[i].val : i \in DOMAIN l} \ {Nobody}])
        /\ l # <<>> => l[1].key = "TargetName"

Stages == {"security", "operational", "full"}
Methods == {"None", "CHAP"}

Configs == [kind : {"login", "discovery", "probe"}, initiator : Methods,
            target : Methods]

LoggingIn == {"auth", "chap", "response", "none", "negotiate"}
Steps == LoggingIn \cup {"text", "full", "listed", "probed", "released"}

(***************************************************************************)
(* context of a query and what its loops keep: the request, the number of  *)
(* requests sent, whether an answer is awaited, and the outcome.           *)
(***************************************************************************)
Query(ask, cur, next, tsih) ==
    [ask |-> ask, cur |-> cur, next |-> next, tsih |-> tsih, sn |-> 0,
     transit |-> FALSE, tries |-> 0, at |-> "send", error |-> FALSE]

QueryTypes == [ask : {"methods", "digest", "response", "blank", "parameters",
                      "targets"},
               cur : Stages, next : Stages, tsih : {0, 1}, sn : Nat,
               transit : BOOLEAN, tries : 0 .. MaxRetries,
               at : {"send", "receive", "done"}, error : BOOLEAN]

\* The methods BuildDict offers for a login, and all of them for a probe.
\* Slip: no authentication stays an option.
BuildDictLenient ==
    IF cfg.kind = "probe" \/ cfg.initiator = "CHAP" THEN Methods ELSE {"None"}
BuildDict ==
    IF cfg.kind = "probe" THEN Methods
    ELSE IF cfg.initiator = "None" THEN {"None"}
    ELSE IF cfg.target = "None" THEN Methods ELSE {"CHAP"}

Login(c) ==
    Query("methods", "security",
          IF c.initiator = "None" /\ c.kind # "probe" THEN "operational"
          ELSE "security", 0)

LoginInit ==
    /\ cfg \in Configs
    /\ step = "auth"
    /\ query = Login(cfg)
    /\ status = "success"
    /\ rsp = Empty
    /\ kern = [tsih |-> 0, ack |-> 0, skipped |-> 0, par |-> Offered]
    /\ recs = {}
    /\ name \in IF cfg.kind = "discovery" THEN {Nobody, LastListed} ELSE {Nobody}
    /\ out = <<>> /\ in = <<>>
    /\ tgt = [stage |-> "security", sn |-> FirstSN, tsih |-> 0, open |-> TRUE,
              proved |-> FALSE, heard |-> Empty, late |-> FALSE,
              list |-> <<>>]

(***************************************************************************)
(* iSCSISessionLoginSingleQuery and iSCSISessionLoginQuery.                *)
(***************************************************************************)
Querying == step \in LoggingIn \cup {"text"}

\* A request is empty once the first one has been answered.
Request ==
    [ask |-> IF query.tries = 0 THEN query.ask ELSE "blank",
     cur |-> query.cur, next |-> query.next]

\* What the loop of LoginQuery does with a query that has ended: done, or one
\* more empty request.  Slips: one request too many, or none whatever the answer.
AskAgain(q) == [q EXCEPT !.at = "send", !.tries = @ + 1]
Done(q) == [q EXCEPT !.at = "done"]

AgainOnceMore(q, st) ==
    IF IF q.tries = 0 THEN q.error \/ st # "success" \/ q.cur = q.next \/ q.transit
       ELSE q.transit \/ q.tries > MaxRetries
    THEN Done(q) ELSE AskAgain(q)
AgainNever(q, st) == Done(q)
Again(q, st) ==
    IF IF q.tries = 0 THEN q.error \/ st # "success" \/ q.cur = q.next \/ q.transit
       ELSE q.transit \/ q.tries = MaxRetries
    THEN Done(q) ELSE AskAgain(q)

\* The status it leaves.
Verdict(q, st) ==
    IF q.tries = MaxRetries /\ ~ q.transit THEN "refused" ELSE st

EndQuery(q, st) ==
    /\ query' = IF step = "text" THEN [q EXCEPT !.at = "done"] ELSE Again(q, st)
    /\ status' = IF step = "text" THEN st ELSE Verdict(q, st)

\* Once the target has closed the connection a send fails.
Send ==
    /\ Querying /\ query.at = "send"
    /\ \/ /\ query' = [query EXCEPT !.at = "receive", !.error = FALSE]
          /\ out' = Append(out, Request)
          /\ UNCHANGED status
       \/ /\ ~ tgt.open
          /\ EndQuery([query EXCEPT !.error = TRUE], status)
          /\ UNCHANGED out
    /\ UNCHANGED <<cfg, step, rsp, kern, recs, name, in, tgt>>

\* No answer within the socket's time-out, or a closed connection.
\* Slip: the socket has no time-out.
RecvFailsClosed ==
    /\ Querying /\ query.at = "receive" /\ in = <<>> /\ ~ tgt.open
    /\ EndQuery([query EXCEPT !.error = TRUE], status)
    /\ UNCHANGED <<cfg, step, rsp, kern, recs, name, out, in, tgt>>
RecvFails ==
    /\ Querying /\ query.at = "receive" /\ in = <<>>
    /\ EndQuery([query EXCEPT !.error = TRUE], status)
    /\ UNCHANGED <<cfg, step, rsp, kern, recs, name, out, in, tgt>>

(***************************************************************************)
(* RecvPDUHeader counts an answer, but not one without an initiator task   *)
(* tag, nor one whose own number is 0xffffffff.  Numbers are only copied   *)
(* and incremented, so they are kept as they would be without wrapping     *)
(* around; the one on the wire is sn % Wrap.  skipped is a history of the  *)
(* answers left out since expStatSN was last set.                          *)
(***************************************************************************)
AllOnes(sn) == sn % Wrap = Wrap - 1
Advanced(k, sn) ==
    IF AllOnes(sn) THEN [k EXCEPT !.skipped = @ + 1] ELSE [k EXCEPT !.ack = @ + 1]
Counted(k, r) == IF r.op = "reject" THEN k ELSE Advanced(k, r.sn)

Receive(r) ==
    /\ Querying /\ query.at = "receive" /\ in # <<>> /\ r = Head(in)
    /\ in' = Tail(in)
    /\ kern' = Counted(kern, r)

Rejected ==
    /\ in # <<>> /\ Head(in).op = "reject"
    /\ Receive(Head(in))
    /\ EndQuery([query EXCEPT !.error = TRUE], status)
    /\ UNCHANGED <<cfg, step, rsp, recs, name, out, tgt>>

Failed ==
    /\ in # <<>> /\ Head(in).op = "login" /\ ~ Head(in).ok
    /\ step # "text"
    /\ Receive(Head(in))
    /\ EndQuery(query, "failure")
    /\ UNCHANGED <<cfg, step, rsp, recs, name, out, tgt>>

\* An answer that says it continues is followed by the next one; the answers
\* to empty requests are not parsed.
Answered ==
    /\ in # <<>> /\ Head(in).op = "login" /\ Head(in).ok
    /\ step # "text"
    /\ LET r == Head(in)
           q == [query EXCEPT !.transit = r.transit, !.sn = r.sn,
                              !.tsih = IF @ = 0 /\ query.next = "full" THEN r.tsih
                                       ELSE @]
       IN  /\ Receive(r)
           /\ rsp' = IF query.tries = 0 /\ query.ask # "blank"
                     THEN AddValues(rsp, r.keys) ELSE rsp
           /\ IF r.cont THEN query' = q /\ status' = "success"
              ELSE EndQuery(q, "success")
    /\ UNCHANGED <<cfg, step, recs, name, out, tgt>>

(***************************************************************************)
(* iSCSIAuthNegotiate, iSCSIAuthInterrogate, iSCSINegotiateSession and the *)
(* login around them: what follows a query.  A login that fails releases   *)
(* the session; what it stored in it is gone.                              *)
(***************************************************************************)
QueryEnded(s) == step = s /\ query.at = "done"
Success == ~ query.error /\ status = "success"

Next_(s, q) == step' = s /\ query' = q
Release == step' = "released" /\ UNCHANGED query

\* The first answer gives the status number the kernel counts from.
InitialExpStatSN(q) == q.sn + 1

\* A list of methods holds the one the target chose.
MethodAgreed ==
    "AuthMethod" \in DOMAIN rsp /\ rsp["AuthMethod"] \in BuildDict
GroupMissing == cfg.kind = "login" /\ "TargetPortalGroupTag" \notin DOMAIN rsp

\* The target that did not want the method offered is asked to go on.
AuthNegotiate ==
    /\ QueryEnded("auth") /\ cfg.kind # "probe"
    /\ IF Success
       THEN /\ kern' = [kern EXCEPT !.ack = InitialExpStatSN(query),
                                    !.skipped = 0]
            /\ IF GroupMissing \/ ~ MethodAgreed THEN Release /\ UNCHANGED rsp
               ELSE IF rsp["AuthMethod"] = "CHAP"
               THEN /\ Next_("chap", Query("digest", "security", "security", 0))
                    /\ rsp' = Empty
               ELSE IF cfg.initiator = "CHAP"
               THEN /\ Next_("none", Query("blank", "security", "operational", 0))
                    /\ UNCHANGED rsp
               ELSE /\ Next_("negotiate",
                             Query("parameters", "operational", "full", 0))
                    /\ rsp' = Empty
       ELSE Release /\ UNCHANGED <<kern, rsp>>
    /\ UNCHANGED <<cfg, status, recs, name, out, in, tgt>>

AuthInterrogate ==
    /\ QueryEnded("auth") /\ cfg.kind = "probe"
    /\ IF Success THEN step' = "probed" /\ UNCHANGED query ELSE Release
    /\ UNCHANGED <<cfg, status, rsp, kern, recs, name, out, in, tgt>>

\* The dictionary of the first answer is used again for the second.
ChapChallenged ==
    /\ QueryEnded("chap")
    /\ IF Success
       THEN Next_("response", Query("response", "security", "operational", 0))
       ELSE Release
    /\ UNCHANGED <<cfg, status, rsp, kern, recs, name, out, in, tgt>>

\* We authenticate the target when it has a name and a secret.
\* Slip: an answer that is missing is as good as a right one.
TargetVerifiedIfAnswered ==
    cfg.target = "CHAP" /\ "Response" \in DOMAIN rsp => rsp["Response"] = "right"
TargetVerified ==
    cfg.target = "CHAP" =>
        "Response" \in DOMAIN rsp /\ rsp["Response"] = "right"

Negotiate == Next_("negotiate", Query("parameters", "operational", "full", 0))

AuthNegotiateCHAP ==
    /\ QueryEnded("response")
    /\ IF Success /\ TargetVerified
       THEN Negotiate /\ rsp' = Empty
       ELSE Release /\ UNCHANGED rsp
    /\ UNCHANGED <<cfg, status, kern, recs, name, out, in, tgt>>

\* The result of the extra query is not looked at, its status is.
WithoutAuthentication ==
    /\ QueryEnded("none")
    /\ IF status = "success"
       THEN Negotiate /\ rsp' = Empty
       ELSE Release /\ UNCHANGED rsp
    /\ UNCHANGED <<cfg, status, kern, recs, name, out, in, tgt>>

NegotiateSession ==
    /\ QueryEnded("negotiate")
    /\ IF Success /\ ~ ParseFails(rsp)
       THEN /\ kern' = [kern EXCEPT !.tsih = query.tsih,
                                    !.par = Parse(@, rsp)]
            /\ Next_(IF cfg.kind = "discovery" THEN "text" ELSE "full",
                     Query("targets", "full", "full", query.tsih))
            /\ rsp' = Empty
       ELSE Release /\ UNCHANGED <<kern, rsp>>
    /\ UNCHANGED <<cfg, status, recs, name, out, in, tgt>>

(***************************************************************************)
(* iSCSIQueryPortalForTargets.  The answer is a sequence of names, each    *)
(* followed by the addresses of that target; the parser keeps the name it  *)
(* saw until the first address after it.                                   *)
(***************************************************************************)
\* The parser after one pair.  Slip: a name does not replace the one before it,
\* which had no address.
ParsedPairKept(p, pair) ==
    IF pair.key = "TargetName"
    THEN [recs |-> p.recs \cup {<<pair.val, Nobody>>},
          name |-> IF p.name = Nobody THEN pair.val ELSE p.name]
    ELSE [recs |-> IF p.name = Nobody THEN p.recs
                   ELSE p.recs \cup {<<p.name, pair.val>>},
          name |-> Nobody]
ParsedPair(p, pair) ==
    IF pair.key = "TargetName"
    THEN [recs |-> p.recs \cup {<<pair.val, Nobody>>}, name |-> pair.val]
    ELSE [recs |-> IF p.name = Nobody THEN p.recs
                   ELSE p.recs \cup {<<p.name, pair.val>>},
          name |-> Nobody]

Parsed(p, list) ==
    LET f[i \in 0 .. Len(list)] ==
            IF i = 0 THEN p ELSE ParsedPair(f[i - 1], list[i])
    IN  f[Len(list)]

ListingAnswered ==
    /\ step = "text" /\ in # <<>> /\ Head(in).op = "text"
    /\ LET r == Head(in)
           p == Parsed([recs |-> recs, name |-> name], r.list)
       IN  /\ Receive(r)
           /\ recs' = p.recs /\ name' = p.name
           /\ IF r.cont THEN UNCHANGED <<query, status>>
              ELSE EndQuery(query, status)
    /\ UNCHANGED <<cfg, step, rsp, out, tgt>>

\* A target without an address is reached where it was discovered.
Here == "here"
Recorded == {r[1] : r \in recs}
Unreached == {t \in Recorded : \A r \in recs : r[1] = t => r[2] = Nobody}

QueryPortalForTargets ==
    /\ QueryEnded("text")
    /\ IF query.error THEN step' = "released" /\ UNCHANGED recs
       ELSE step' = "listed" /\ recs' = recs \cup {<<t, Here>> : t \in Unreached}
    /\ UNCHANGED <<cfg, query, status, rsp, kern, name, out, in, tgt>>

Initiator ==
    \/ Send \/ RecvFails \/ Rejected \/ Failed \/ Answered
    \/ AuthNegotiate \/ AuthInterrogate \/ ChapChallenged \/ AuthNegotiateCHAP
    \/ WithoutAuthentication \/ NegotiateSession
    \/ ListingAnswered \/ QueryPortalForTargets

(***************************************************************************)
(* The target, modelled from what the code expects of RFC 3720.  It        *)
(* numbers its answers, and refuses a request of another stage or leaves.  *)
(***************************************************************************)
Answer(op, ok, transit, cont, keys, list) ==
    [op |-> op, ok |-> ok, transit |-> transit, cont |-> cont, keys |-> keys,
     sn |-> tgt.sn, list |-> list,
     tsih |-> IF transit /\ Head(out).next = "full" THEN 1 ELSE 0]

\* It answers the request, and may have changed meanwhile to t.
Reply(r, t) ==
    /\ in' = Append(in, r)
    /\ out' = Tail(out)
    /\ tgt' = [t EXCEPT !.sn = @ + 1]
    /\ UNCHANGED initiator

Asked(ask) ==
    tgt.open /\ out # <<>> /\ Head(out).cur = tgt.stage /\ Head(out).ask = ask

Moved(t, transit) ==
    IF ~ transit THEN t
    ELSE [t EXCEPT !.stage = Head(out).next,
                   !.tsih = IF Head(out).next = "full" THEN 1 ELSE @]

MayMove == {FALSE, Head(out).cur # Head(out).next}

Refuse ==
    /\ tgt.open /\ out # <<>> /\ tgt.stage # "full"
    /\ \E op \in {"login", "reject"} :
           Reply(Answer(op, FALSE, FALSE, FALSE, Empty, <<>>),
                 [tgt EXCEPT !.open = FALSE])

Leave ==
    /\ tgt.open /\ (Querying \/ out # <<>>)
    /\ tgt' = [tgt EXCEPT !.open = FALSE]
    /\ out' = <<>>
    /\ UNCHANGED <<initiator, in>>

\* It chooses one of the methods offered; with none, it may move on at once.
ChooseMethod ==
    /\ Asked("methods")
    /\ \E m \in BuildDict, group \in BOOLEAN, transit \in MayMove :
        /\ transit => m = "None"
        /\ Reply(Answer("login", TRUE, transit, FALSE,
                        IF group THEN [AuthMethod |-> m, TargetPortalGroupTag |-> 1]
                        ELSE [AuthMethod |-> m], <<>>),
                 Moved(tgt, transit))

Challenge ==
    /\ Asked("digest")
    /\ Reply(Answer("login", TRUE, FALSE, FALSE, Empty, <<>>), tgt)

\* It accepts our answer, and answers our challenge rightly or wrongly.
Respond ==
    /\ Asked("response")
    /\ \E transit \in MayMove, response \in {"right", "wrong", Nobody} :
        /\ response # Nobody => cfg.target = "CHAP"
        /\ Reply(Answer("login", TRUE, transit, FALSE,
                        IF response = Nobody THEN Empty
                        ELSE [Response |-> response], <<>>),
                 [Moved(tgt, transit) EXCEPT !.proved = response = "right"])

GoOn ==
    /\ Asked("blank")
    /\ \E transit \in MayMove :
        Reply(Answer("login", TRUE, transit, FALSE,
                     IF tgt.late THEN Only(tgt.heard, MaxSegment) ELSE Empty, <<>>),
              Moved(tgt, transit))

\* It answers what it was offered.  The length of its segments, which it
\* declares, may come in the rest of an answer that continues, or late, in the
\* answer to an empty request.
Agree ==
    /\ Asked("parameters")
    /\ \E a \in Answers, transit \in MayMove, when \in {"now", "rest", "late"} :
        LET keys == IF cfg.kind = "login" THEN DOMAIN a
                    ELSE DOMAIN a \cap DiscoveryKeys
            heard == [k \in keys |-> a[k]]
        IN  /\ when # "now" => MaxSegment \in keys /\ ~ transit
            /\ Reply(Answer("login", TRUE, transit, when = "rest",
                            IF when = "now" THEN heard ELSE Without(heard, MaxSegment),
                            <<>>),
                     [Moved(tgt, transit) EXCEPT !.heard = heard,
                                                 !.late = when = "late"])

\* A listing may take two answers.
List ==
    /\ Asked("targets")
    /\ \E l \in Listings, cont \in BOOLEAN :
        /\ cont => Len(l) > 1
        /\ Reply(Answer("text", TRUE, FALSE, cont, Empty,
                        IF cont THEN <<Head(l)>> ELSE l),
                 [tgt EXCEPT !.list = l])

\* What follows an answer that continues, sent of the target's own accord.
Continue ==
    /\ tgt.open /\ Len(in) = 1 /\ Head(in).cont
    /\ in' = Append(in, [Head(in) EXCEPT !.cont = FALSE, !.sn = tgt.sn,
                          !.keys = IF Head(in).op = "text" THEN Empty
                                   ELSE Only(tgt.heard, MaxSegment),
                          !.list = IF Head(in).op = "text" THEN Tail(tgt.list)
                                   ELSE <<>>])
    /\ tgt' = [tgt EXCEPT !.sn = @ + 1]
    /\ UNCHANGED <<initiator, out>>

Target ==
    \/ Refuse \/ Leave \/ ChooseMethod \/ Challenge \/ Respond \/ GoOn
    \/ Agree \/ List \/ Continue

LoginNext == Initiator \/ Target

=============================================================================
