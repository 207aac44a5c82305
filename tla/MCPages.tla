------------------------------ MODULE MCPages ------------------------------
(***************************************************************************)
(* Pages, for TLC: jobs that are alike and of one run, windows of one and  *)
(* two buckets, and two sets of which one's label is the other's name.     *)
(***************************************************************************)
EXTENDS Pages, TLC

Alike == Permutations(Jobs)

OneRun == [j \in Jobs |-> "run"]

Windows == {[back |-> 1, points |-> 1], [back |-> 3, points |-> 2]}

CutShort == [n \in Names |-> "a"]
=============================================================================
