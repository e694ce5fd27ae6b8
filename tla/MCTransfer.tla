----------------------------- MODULE MCTransfer -----------------------------
(***************************************************************************)
(* Transfer for TLC.  Lengths are a few units, in the order of the RFC's   *)
(* defaults: a segment is shorter than the first burst, that than a burst. *)
(***************************************************************************)
EXTENDS Transfer

MCOffered ==
    [k \in Keys |->
        CASE k = "FirstBurstLength" -> 3
          [] k = "MaxBurstLength" -> 4
          [] k = MaxSegment -> 2
          [] k \in {"InitialR2T", "HeaderDigest"} -> FALSE
          [] k \in Flags \cup Digests -> TRUE
          [] OTHER -> 1]

MCValid ==
    [k \in Numeric |-> IF k \in Common THEN 0 .. 2
                       ELSE IF k \in Lengths THEN 1 .. 8 ELSE 1 .. 3]

Agreeable == [k \in Keys |-> IF k \in Flags \cup Digests THEN TRUE ELSE 1]

\* The keys that govern the data, in every combination; then each of the others
\* missing or out of range.
MCAnswers ==
    {[Agreeable EXCEPT !["InitialR2T"] = r, !["ImmediateData"] = i,
                       !["FirstBurstLength"] = f, ![MaxSegment] = s,
                       !["MaxBurstLength"] = 2] :
        r \in BOOLEAN, i \in BOOLEAN, f \in {2, 3, 5}, s \in {1, 3}}
    \cup {Without(Agreeable, k) : k \in Numeric \cup Digests}
    \cup {[Agreeable EXCEPT ![k] = 9] : k \in Numeric}

MCListings == {
    <<[key |-> "TargetName", val |-> "t0"], [key |-> "TargetAddress", val |-> "p0"],
      [key |-> "TargetAddress", val |-> "p1"], [key |-> "TargetName", val |-> "t1"]>>,
    <<[key |-> "TargetName", val |-> "t0"], [key |-> "TargetName", val |-> "t1"],
      [key |-> "TargetAddress", val |-> "p1"]>>,
    <<[key |-> "TargetName", val |-> "t0"], [key |-> "TargetAddress", val |-> Here]>>,
    <<>>}
=============================================================================
