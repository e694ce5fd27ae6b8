----------------------------- MODULE Negotiation -----------------------------
(***************************************************************************)
(* What a login negotiates.  A dictionary of key-value pairs is a function *)
(* whose domain is the keys that are present; a length or a count is a     *)
(* number, "Yes" and the digest "CRC32C" are TRUE, "No" and "None" FALSE.  *)
(* The parameters of the session and of the connection are one function    *)
(* from the keys to the values the kernel holds; a key that is not read    *)
(* again only decides whether the login succeeds.                          *)
(***************************************************************************)
EXTENDS Integers

CONSTANTS
    Offered,    \* what the initiator sends, which is also the kernel's default
    Valid       \* the range RFC 3720 gives each numeric key

Common == {"DefaultTime2Retain", "DefaultTime2Wait", "ErrorRecoveryLevel"}
Counts == {"MaxConnections", "MaxOutstandingR2T"}
Lengths == {"MaxBurstLength", "FirstBurstLength"}
Flags == {"InitialR2T", "ImmediateData", "DataPDUInOrder",
          "DataSequenceInOrder"}
Digests == {"DataDigest", "HeaderDigest"}
MaxSegment == "MaxRecvDataSegmentLength"

Numeric == Common \cup Counts \cup Lengths \cup {MaxSegment}
Keys == Numeric \cup Flags \cup Digests

\* A discovery session is offered the common and the connection's keys.
DiscoveryKeys == Common \cup Digests \cup {MaxSegment}

ASSUME NegotiationAssumption ==
    /\ Valid \in [Numeric -> SUBSET Nat]
    /\ DOMAIN Offered = Keys
    /\ \A k \in Numeric : Offered[k] \in Valid[k]
    /\ \A k \in Flags \cup Digests : Offered[k] \in BOOLEAN
    /\ 0 \notin Valid[MaxSegment]

IsDictionary(d) ==
    /\ DOMAIN d \subseteq Keys
    /\ \A k \in DOMAIN d : IF k \in Numeric THEN d[k] \in Nat ELSE d[k] \in BOOLEAN
Empty == [k \in {} |-> 0]

Smaller(a, b) == IF a < b THEN a ELSE b

\* A key that is already there keeps its value.
AddValues(d, new) ==
    [k \in DOMAIN d \cup DOMAIN new |-> IF k \in DOMAIN d THEN d[k] ELSE new[k]]

Without(d, key) == [k \in DOMAIN d \ {key} |-> d[k]]
Only(d, key) == [k \in {key} |-> d[key]]

OutOfRange(rsp, key) == key \in DOMAIN rsp /\ rsp[key] \notin Valid[key]

Says(rsp, key) == key \in DOMAIN rsp /\ rsp[key]

\* The keys of every session must be there and in range.
ParseSWDictCommonFails(rsp) ==
    \E k \in Common : k \notin DOMAIN rsp \/ OutOfRange(rsp, k)

\* The first burst is looked at only when unsolicited data is allowed; the
\* largest burst is not checked at all.
FirstBurstMatters(rsp) ==
    \/ ~ ("InitialR2T" \in DOMAIN rsp /\ (Offered["InitialR2T"] \/ rsp["InitialR2T"]))
    \/ Says(rsp, "ImmediateData") /\ Offered["ImmediateData"]

ParseSWDictNormalFails(rsp) ==
    \/ \E k \in Counts : OutOfRange(rsp, k)
    \/ FirstBurstMatters(rsp) /\ OutOfRange(rsp, "FirstBurstLength")

ParseCWDictFails(rsp) == OutOfRange(rsp, MaxSegment)

ParseFails(rsp) ==
    \/ ParseSWDictCommonFails(rsp)
    \/ ParseSWDictNormalFails(rsp)
    \/ ParseCWDictFails(rsp)

(***************************************************************************)
(* The parameters the kernel is left with.  A key the target did not       *)
(* answer keeps the kernel's value, except the digests and the length of a *)
(* segment, which are set either way.                                      *)
(***************************************************************************)
ParseSWDict(par, rsp) ==
    [k \in Keys |->
        IF k \notin DOMAIN rsp \/ k \in Digests \cup {MaxSegment} THEN par[k]
        ELSE IF k = "InitialR2T" THEN Offered[k] \/ rsp[k]
        ELSE IF k \in Flags THEN Offered[k] /\ rsp[k]
        ELSE IF k = "FirstBurstLength" /\ ~ FirstBurstMatters(rsp) THEN par[k]
        ELSE Smaller(Offered[k], rsp[k])]

ParseCWDict(par, rsp) ==
    [par EXCEPT !["DataDigest"] = Offered["DataDigest"] /\ Says(rsp, "DataDigest"),
                !["HeaderDigest"] =
                    Offered["HeaderDigest"] /\ Says(rsp, "HeaderDigest"),
                ![MaxSegment] = IF MaxSegment \in DOMAIN rsp THEN rsp[MaxSegment]
                                ELSE Offered[MaxSegment]]

Parse(par, rsp) == ParseCWDict(ParseSWDict(par, rsp), rsp)
=============================================================================
