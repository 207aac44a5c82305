--------------------------- MODULE MCCompaction ---------------------------
(***************************************************************************)
(* Compaction, and the charts drawn of it, for TLC: raw rows, buckets of   *)
(* two and buckets of four instants.  A retention of a tier is never       *)
(* shorter than that of a finer one in Ordered, as in the program's        *)
(* defaults.  The charts have buckets of one, two, three and four.         *)
(***************************************************************************)
EXTENDS Query, TLC

Chain == [t \in 0 .. 2 |-> 2 ^ t]

\* The raw tier's, the next one's and the coarsest one's.
Windows(raw, mid, coarse) == (0 :> raw) @@ (1 :> mid) @@ (2 :> coarse)

Ordered == {Windows(3, 4, 8), Windows(5, 5, 5), Windows(3, 0, 0)}

\* What the theorems ask of a configuration.
ASSUME OrderedAssumption == WellConfigured

Pages == {[back |-> 3, points |-> 3], [back |-> 4, points |-> 2],
          [back |-> 6, points |-> 4], [back |-> 6, points |-> 2], [back |-> 8, points |-> 2]}
===========================================================================
