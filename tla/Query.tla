------------------------------- MODULE Query -------------------------------
(***************************************************************************)
(* internal/store/query.go, the gauges: a chart's window, the tier it is   *)
(* answered from, and the points it is made of, over the tiers that        *)
(* Compaction keeps.                                                       *)
(*                                                                         *)
(* A window ends at the present.  The value of a point is the set of the   *)
(* readings it averages.                                                   *)
(***************************************************************************)
EXTENDS Compaction, FiniteSetsExt

CONSTANT Asked  \* windows that are asked for: how far back, and how many points

ASSUME AskedAssumption == Asked \subseteq [back : Nat \ {0}, points : Nat \ {0}]

From(w) == Before(clock, w.back)

\* The width of a window's buckets: enough points or fewer, of a second or more.
Resolution(w) == Max({1, (clock - From(w) + w.points - 1) \div w.points})

\* Bug: the next coarser tier.
TierForCoarse(width) == Max({t \in Tiers : t = 0 \/ Width[t] <= 2 * width})

\* The coarsest tier whose buckets fit into the chart's.
TierFor(width) == Max({t \in Tiers : t = 0 \/ Width[t] <= width})

\* Bug: the row that begins with the window is left out.
InWindowAfter(w, s) == From(w) < s /\ s < clock

InWindow(w, s) == From(w) <= s /\ s < clock

\* The rows of that tier that begin in the window, by the bucket they begin in.
\* A bucket without rows has no point.
Series(w) ==
  LET width  == Resolution(w)
      t      == TierFor(width)
      within == {s \in Instants : rows[t][s] # {} /\ InWindow(w, s)}
  IN  [b \in {FloorTo(s, width) : s \in within} |->
         UNION {rows[t][s] : s \in {r \in within : FloorTo(r, width) = b}}]

---------------------------------------------------------------------------
(* Properties *)

\* A chart has the resolution that was asked for, but for one more point when
\* its buckets do not begin where the window does.  Its points are made of
\* readings of their own buckets, and of those in rows that reach over the end
\* of a bucket that is no multiple of the tier's (query.go:54-60).
PointsAreInPlace(w) ==
  LET width == Resolution(w)
      tier  == Width[TierFor(width)]
      over  == IF tier < width /\ width % tier # 0 THEN tier - 1 ELSE 0
      chart == Series(w)
  IN  /\ Cardinality(DOMAIN chart) <= w.points + 1
      /\ \A b \in DOMAIN chart : chart[b] \subseteq b .. b + width - 1 + over

\* The tier a chart is answered from holds the window: each reading whose row
\* begins in it, was rolled up in time and is too young for every retention the
\* tier ever had is in the chart, once (query.go:57-60, compact.go:19-22).
NothingKeptIsMissing(w) ==
  LET width == Resolution(w)
      t     == TierFor(width)
      chart == Series(w)
      Kept(row) ==
        /\ From(w) <= row /\ row < clock
        /\ t = 0 \/ row + Width[t] + MaxLag <= rolled
        /\ \A k \in Retentions : k[t] = 0 \/ Before(clock, k[t]) <= row
  IN  \A at \in recorded :
        Kept(FloorTo(at, Width[t])) =>
          {b \in DOMAIN chart : at \in chart[b]} = {FloorTo(FloorTo(at, Width[t]), width)}

\* A chart of any resolution has what is kept of its window, each reading at its
\* place, whichever tier it is drawn from.
ChartsShowWhatIsKept ==
  \A w \in Asked : PointsAreInPlace(w) /\ NothingKeptIsMissing(w)
=============================================================================
