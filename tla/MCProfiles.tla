----------------------------- MODULE MCProfiles -----------------------------
(* Three scan points at unequal distances, of which one is not among the   *)
(* places of the coarse scan; toys below, at and above the data; scans of  *)
(* one and two variables; results that are bad, lack the scan variable or  *)
(* lie at the same place.                                                  *)
EXTENDS Profiles

MCDeltas == {-1, 1, 2}

MCLevels == <<[num |-> 1, den |-> 3], [num |-> 2, den |-> 3]>>

MCReadable ==
  [place: {-12, -4, 12}, fixed: {TRUE}, okay: {TRUE}, nll: {-1, 0, 1, 2}]
  \cup [place: {0}, fixed: BOOLEAN, okay: {FALSE}, nll: {0}]
  \cup [place: {0}, fixed: {FALSE}, okay: {TRUE}, nll: {0}]

MCFits == {[okay |-> TRUE, nll |-> 2]}

MCLevel == [num |-> 1, den |-> 2]
=============================================================================
