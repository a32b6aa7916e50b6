------------------------- MODULE MCTrackerProvision -------------------------
(* Instances of TrackerProvision for TLC. *)
EXTENDS TrackerProvision, TLC

CONSTANTS i1, i2, i3, dstengle, acme

IssueSymmetry == Permutations(Issue)
=============================================================================
