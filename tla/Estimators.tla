------------------------------ MODULE Estimators ------------------------------
(***************************************************************************)
(* The figures of telemetry (apps/core/src/telemetry): jitter percentiles, *)
(* loss windows and trends from a list of samples, the quality score of a  *)
(* peer from its figures, and the scores of a room from its peers'.        *)
(*                                                                         *)
(* They are pure functions: the list that samples are appended to and the  *)
(* figures of the members are this module's state so that a step can be    *)
(* compared with the one before.  Rates are kept as quotients of integers; *)
(* the rounding of Math.round is that of the exact value.                  *)
(***************************************************************************)
EXTENDS Integers, Sequences, FiniteSets, Functions

CONSTANTS Members,       \* the peers of the room whose scores are combined
          Figures,       \* figures a peer may have
          Figured,       \* the instant that figures are computed at
          WindowMs,      \* rollingWindow.windowMs
          BucketCount,   \* bucketCount of computeWindows
          SampleTimes,   \* timestamps that samples may have
          SampleValues,  \* their round trips, and the packets lost of Sent
          Sent,          \* packetsSent of every sample
          MaxList        \* bound: samples in the list

ASSUME EstimatorAssumption ==
    /\ IsFiniteSet(Members)
    /\ Figured \in Int
    /\ SampleTimes \subseteq Int
    /\ WindowMs \in Nat \ {0}
    /\ BucketCount \in Nat \ {0}
    /\ SampleValues \subseteq Nat
    /\ Sent \in Nat \ {0}
    /\ Figures \subseteq [latency : Nat \cup {-1}, jitter : Nat, lost : Nat,
                         sent : Nat \cup {-1}, up : Nat \cup {-1}, down : Nat \cup {-1}]

VARIABLES list,      \* samples in the order of their arrival
          figures    \* member -> its figures, or NoFigures before it is measured

estimatorVars == <<list, figures>>

NoSample == -1
NoFigures == [latency |-> NoSample, jitter |-> 0, lost |-> 0, sent |-> NoSample,
              up |-> NoSample, down |-> NoSample]

EstimatorInit == list = <<>> /\ figures = [m \in Members |-> NoFigures]

-----------------------------------------------------------------------------
(* Lists.  The elements that filter keeps are the set of their positions. *)

\* reduce: the sum of the values at the positions P.
SumOf(values, P) ==
    LET sum[i \in 0 .. Len(values)] ==
            IF i = 0 THEN 0 ELSE sum[i - 1] + (IF i \in P THEN values[i] ELSE 0)
    IN sum[Len(values)]

\* sort((a, b) => a - b): the values in an order p of their positions in which
\* none is followed by a smaller one.
Ascending(values) ==
    LET n == Cardinality(DOMAIN values)
        p == CHOOSE q \in Bijection(1 .. n, DOMAIN values) :
                 \A i, j \in 1 .. n : i < j => values[q[i]] <= values[q[j]]
    IN [k \in 1 .. n |-> values[p[k]]]

-----------------------------------------------------------------------------
(* JitterCalculator and PacketLossTracker *)

\* filterSamples
InWindow(samples) == {i \in DOMAIN samples : samples[i].at >= Figured - WindowMs}

\* percentile: the index Math.ceil(p / 100 * length) - 1, kept in the array.
Percentile(sorted, p) ==
    LET rank == (p * Len(sorted) + 99) \div 100
    IN sorted[IF rank < 1 THEN 1 ELSE IF rank > Len(sorted) THEN Len(sorted) ELSE rank]

\* Mutant: the end of a bucket belongs to it.
InBucketClosed(s, b) ==
    LET place == (s.at - (Figured - WindowMs)) * BucketCount
    IN b * WindowMs <= place /\ place <= (b + 1) * WindowMs

\* The filter of computeWindows: does s fall in bucket b, from 0.
InBucket(s, b) ==
    LET place == (s.at - (Figured - WindowMs)) * BucketCount
    IN b * WindowMs <= place /\ place < (b + 1) * WindowMs

\* packetsLost of the samples at P, as compute, computeWindows and computeTrend add it.
LostIn(samples, P) == SumOf([i \in DOMAIN samples |-> samples[i].value], P)

\* computeWindows: packetsLost of every bucket.
Windows(samples) == [b \in 0 .. BucketCount - 1 |->
                        LostIn(samples, {i \in InWindow(samples) : InBucket(samples[i], b)})]

\* computeTrend of PacketLossTracker: the rates of the two halves of the
\* window, lost / sent, 0 for no samples, compared with a margin of 0.01.
LossTrend(samples) ==
    LET recent == {i \in InWindow(samples) : 2 * samples[i].at >= 2 * Figured - WindowMs}
        older == {i \in InWindow(samples) : 2 * samples[i].at < 2 * Figured - WindowMs}
        sent(half) == IF half = {} THEN 1 ELSE Sent * Cardinality(half)
        delta == 100 * (LostIn(samples, recent) * sent(older) - LostIn(samples, older) * sent(recent))
        margin == sent(older) * sent(recent)
    IN IF delta < -margin THEN "improving" ELSE IF delta > margin THEN "degrading" ELSE "stable"

-----------------------------------------------------------------------------
(* BandwidthEstimator: computeTrend over the rates in order of arrival. *)

\* rising when the average of the second half is more than 0.15 of the first's
\* (at least 1) above it, falling when it is as much below.  The middle one of
\* an odd number is in the second half.
RateTrend(rates) ==
    LET first == 1 .. Len(rates) \div 2
        second == 1 + Len(rates) \div 2 .. Len(rates)
        total == SumOf(rates, first)
        base == IF total > Cardinality(first) THEN total ELSE Cardinality(first)
        delta == 100 * (SumOf(rates, second) * Cardinality(first) - total * Cardinality(second))
        margin == 15 * base * Cardinality(second)
    IN IF Len(rates) < 3 THEN "stable"
       ELSE IF delta > margin THEN "rising" ELSE IF delta < -margin THEN "falling" ELSE "stable"

-----------------------------------------------------------------------------
(* ConnectionQualityScorer *)

\* Math.round(a / b) for a >= 0
RoundDiv(a, b) == (2 * a + b) \div (2 * b)

\* scoreFromThresholds; unit * value is compared with the thresholds times parts.
ScoreFromThresholds(value, parts, thresholds, scores) ==
    scores[1 + Cardinality({i \in DOMAIN thresholds : value > thresholds[i] * parts})]

LatencyScore(f) == IF f.latency = NoSample THEN 0
                   ELSE ScoreFromThresholds(f.latency, 1, <<50, 100, 200, 400>>, <<100, 85, 65, 40, 15>>)
JitterScore(f) == IF f.latency = NoSample THEN 0
                  ELSE ScoreFromThresholds(f.jitter, 1, <<10, 30, 60, 120>>, <<100, 80, 60, 35, 10>>)
PacketLossScore(f) == IF f.sent = NoSample THEN 50
                      ELSE ScoreFromThresholds(IF f.sent = 0 THEN 0 ELSE 1000 * f.lost, f.sent,
                                               <<5, 20, 50, 100>>, <<100, 85, 60, 30, 5>>)

\* interpolateScore between two bounds
Interpolate(value, low, high, lowScore, highScore) ==
    RoundDiv((value - low) * (highScore - lowScore) + lowScore * (high - low), high - low)

\* Mutant: above the minimum the score starts again from 0.
DirectionFromZero(bps, minimum, target) ==
    IF bps >= target THEN 100
    ELSE IF bps <= minimum THEN Interpolate(bps, 0, minimum, 0, 30)
    ELSE Interpolate(bps, minimum, target, 0, 100)

\* scoreDirectionBandwidth; rates are in kbit/s.
DirectionScore(bps, minimum, target) ==
    IF bps >= target THEN 100
    ELSE IF bps <= minimum THEN Interpolate(bps, 0, minimum, 0, 30)
    ELSE Interpolate(bps, minimum, target, 30, 100)

\* scoreBandwidth: the direction that has samples, or 0.4 and 0.6 of both.
BandwidthScore(f) ==
    LET up == DirectionScore(f.up, 64, 512)
        down == DirectionScore(f.down, 128, 1024)
    IN CASE f.up = NoSample /\ f.down = NoSample -> 0
         [] f.up = NoSample /\ f.down # NoSample -> down
         [] f.up # NoSample /\ f.down = NoSample -> up
         [] OTHER -> RoundDiv(4 * up + 6 * down, 10)

\* score, with the default weights 0.3, 0.25, 0.3 and 0.15.
Score(f) == RoundDiv(30 * LatencyScore(f) + 25 * JitterScore(f)
                       + 30 * PacketLossScore(f) + 15 * BandwidthScore(f), 100)

\* gradeFromScore, from "critical", 0, to "excellent", 4.
Grade(score) == Cardinality({g \in {30, 55, 75, 90} : score >= g})

-----------------------------------------------------------------------------
(* Scores of a room, from the scores of its peers in order. *)

\* averageScore
AverageScore(scores) ==
    IF scores = <<>> THEN 0 ELSE RoundDiv(SumOf(scores, DOMAIN scores), Len(scores))

\* medianScore
MedianScore(scores) ==
    LET sorted == Ascending(scores)
        mid == Len(scores) \div 2
    IN IF scores = <<>> THEN 0
       ELSE IF Len(scores) % 2 = 0 THEN RoundDiv(sorted[mid] + sorted[mid + 1], 2) ELSE sorted[mid + 1]

\* worstQualityScore of computeRoomMetrics
WorstScore(scores) ==
    IF scores = <<>> THEN 0 ELSE CHOOSE s \in Range(scores) : \A i \in DOMAIN scores : s <= scores[i]

-----------------------------------------------------------------------------
AddSample(s) == /\ Len(list) < MaxList
                /\ list' = Append(list, s)
                /\ UNCHANGED figures

Measure(m, f) == /\ figures' = [figures EXCEPT ![m] = f]
                 /\ UNCHANGED list

EstimatorNext ==
    \/ \E at \in SampleTimes, value \in SampleValues : AddSample([at |-> at, value |-> value])
    \/ \E m \in Members, f \in Figures : Measure(m, f)

EstimatorSpec == EstimatorInit /\ [][EstimatorNext]_estimatorVars

-----------------------------------------------------------------------------
\* Figures g are at least as good as f, in every one of them.
AtLeastAsGood(g, f) ==
    /\ f.latency # NoSample /\ g.latency # NoSample /\ g.latency <= f.latency /\ g.jitter <= f.jitter
    /\ f.sent > 0 /\ g.sent > 0 /\ g.lost * f.sent <= f.lost * g.sent
    /\ f.up # NoSample /\ g.up >= f.up
    /\ f.down # NoSample /\ g.down >= f.down

\* A connection whose figures all improve, or stay, does not lose points, nor
\* fall to a lower grade: the pieces of every scale meet without a step down.
BetterNeverScoresLess ==
    [][\A m \in Members : AtLeastAsGood(figures'[m], figures[m]) =>
          /\ Score(figures'[m]) >= Score(figures[m])
          /\ Grade(Score(figures'[m])) >= Grade(Score(figures[m]))]_estimatorVars

\* Scores are percentages, and a room's scores lie where their names say, in
\* whatever order its peers are listed: the median has half of the peers on
\* either side, the average is between the worst and the best.
RoomScoresExact ==
    \A values \in {[i \in 1 .. Cardinality(Members) |-> Score(figures[order[i]])] :
                       order \in Bijection(1 .. Cardinality(Members), Members)} :
        LET median == MedianScore(values)
            half(P) == 2 * Cardinality(P) >= Cardinality(Members)
        IN /\ \A i \in DOMAIN values : values[i] \in 0 .. 100
           /\ half({i \in DOMAIN values : values[i] <= median})
           /\ half({i \in DOMAIN values : values[i] >= median})
           /\ WorstScore(values) <= AverageScore(values)
           /\ values # <<>> => \E i \in DOMAIN values : AverageScore(values) <= values[i]

\* A percentile is the smallest value that so many of the samples do not exceed.
PercentilesExact ==
    LET values == [i \in InWindow(list) |-> list[i].value]
        atMost(v) == Cardinality({i \in InWindow(list) : values[i] <= v})
    IN InWindow(list) # {} =>
           \A p \in {50, 90, 95, 99} :
               LET v == Percentile(Ascending(values), p)
               IN /\ 100 * atMost(v) >= p * Cardinality(InWindow(list))
                  /\ \A i \in InWindow(list) :
                         values[i] < v => 100 * atMost(values[i]) < p * Cardinality(InWindow(list))

\* computeWindows counts every packet of the window once, except those of a
\* sample taken at the very instant or later, which no bucket counts.
WindowsExact ==
    SumOf([b \in 1 .. BucketCount |-> Windows(list)[b - 1]], 1 .. BucketCount)
        = LostIn(list, {i \in InWindow(list) : list[i].at < Figured})

\* Rates that only go up are never called falling, nor the reverse, and an even
\* loss in both halves is stable.
TrendsExact ==
    LET all == [i \in DOMAIN list |-> list[i].value]
        older(i) == 2 * list[i].at < 2 * Figured - WindowMs
    IN /\ (\A i, j \in DOMAIN all : i <= j => all[i] <= all[j]) => RateTrend(all) # "falling"
       /\ (\A i, j \in DOMAIN all : i <= j => all[i] >= all[j]) => RateTrend(all) # "rising"
       /\ (/\ \A i, j \in InWindow(list) : list[i].value = list[j].value
           /\ \E i, j \in InWindow(list) : older(i) /\ ~older(j)) => LossTrend(list) = "stable"

\* What telemetry reports of a list of samples and of a room is what the names
\* of its figures say, for every list and every mix of peers.
FiguresExact == PercentilesExact /\ WindowsExact /\ TrendsExact /\ RoomScoresExact
=============================================================================
