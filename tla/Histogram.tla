------------------------------- MODULE Histogram -------------------------------
(***************************************************************************)
(* Histogram (apps/core/src/metrics/histogram.ts): a cell per label set    *)
(* with a count per bucket bound, and the buckets that it hands out.       *)
(***************************************************************************)
EXTENDS Integers, Sequences, FiniteSets, FiniteSetsExt

CONSTANTS LabelSets,     \* label sets, as serializeLabels tells them apart
          Bounds,        \* the bucket bounds, in the array in rising order
          Values,        \* values that are observed
          MaxObserved    \* bound: observations of a label set

VARIABLES cells,     \* label set -> its cell; no entry before the first observation
          observed   \* history: label set -> the values observed since the last reset

histogramVars == <<cells, observed>>

HistogramInit == /\ cells = <<>>
                 /\ observed = [l \in LabelSets |-> <<>>]

\* createCell
NewCell == [counts |-> [b \in Bounds |-> 0], sum |-> 0, count |-> 0]

CellOf(l) == IF l \in DOMAIN cells THEN cells[l] ELSE NewCell

\* recordObservation: every bound that the value does not exceed counts it.
Recorded(cell, v) == [counts |-> [b \in Bounds |-> cell.counts[b] + (IF v <= b THEN 1 ELSE 0)],
                      sum |-> cell.sum + v,
                      count |-> cell.count + 1]

\* observeWithLabels
Observe(l, v) ==
    /\ Len(observed[l]) < MaxObserved
    /\ cells' = [m \in DOMAIN cells \cup {l} |-> IF m = l THEN Recorded(CellOf(l), v) ELSE cells[m]]
    /\ observed' = [observed EXCEPT ![l] = Append(@, v)]

\* reset of one label set, and reset or clear of them all.
ResetCells(ls) == /\ cells' = [l \in DOMAIN cells \ ls |-> cells[l]]
                  /\ observed' = [l \in LabelSets |-> IF l \in ls THEN <<>> ELSE observed[l]]

HistogramNext == \/ \E l \in LabelSets, v \in Values : Observe(l, v)
                 \/ \E l \in LabelSets : ResetCells({l})
                 \/ ResetCells(LabelSets)

HistogramSpec == HistogramInit /\ [][HistogramNext]_histogramVars

\* toBucketArray: the count of a bucket is added up from those of the bounds so
\* far.  The bucket "+Inf" after them has the count of the cell.
BucketCount(l, b) == MapThenSumSet(LAMBDA c : CellOf(l).counts[c], {c \in Bounds : c <= b})

\* histogram.ts:119: "Returns cumulative bucket counts for a series."  A
\* cumulative bucket counts the observations that do not exceed its bound.
BucketsCumulative ==
    \A l \in LabelSets, b \in Bounds :
        BucketCount(l, b) = Cardinality({i \in DOMAIN observed[l] : observed[l][i] <= b})
=============================================================================
