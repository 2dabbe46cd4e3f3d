---------------------------- MODULE MCRttStats ----------------------------
(***************************************************************************)
(* The RttStats operators checked against their definitions by rank over  *)
(* bounded samples.  The sample grows one RTT at a time, as all_rtts does  *)
(* over the pings of a file.  Samples go up to MaxSamples values, past 20  *)
(* where int(n * 0.95) first stops being the last index; to keep the      *)
(* number of samples small they are restricted to lists with at most       *)
(* MaxDescents places where a value is followed by a smaller one, which   *)
(* still includes unsorted lists.                                          *)
(***************************************************************************)
EXTENDS RttStats

CONSTANTS RttValues, MaxSamples, MaxDescents

VARIABLE xs   \* the RTT sample

Descents(s) == Len(SelectSeq([i \in 1..Len(s) - 1 |-> s[i] > s[i + 1]], LAMBDA b : b))

Init == xs = <<>>

\* all_rtts = [p["rtt_ms"] for p in pings]: one more ping's RTT.
AddSample ==
    /\ Len(xs) < MaxSamples
    /\ \E v \in RttValues :
         /\ Descents(Append(xs, v)) <= MaxDescents
         /\ xs' = Append(xs, v)

Spec == Init /\ [][AddSample]_xs

(***************************************************************************)
(* For every non-empty sample: sorted() gives the rank order, min and max  *)
(* are ranks 0 and n-1, the doubled median is the sum of ranks (n-1) div 2 *)
(* and n div 2, p95 is rank floor(0.95 n), the mean lies in [min, max],    *)
(* min <= median <= p95 <= max (spec 8), and for n > 1 the squared stdev  *)
(* is the pairwise sample variance.  About the                            *)
(* sorted(rtts)[int(len(rtts) * 0.95)] expression, statistics.median and  *)
(* statistics.stdev's n - 1 denominator.                                   *)
(***************************************************************************)
StatsMatchRanks ==
    LET n == Len(xs) IN
    n > 0 =>
        /\ \A k \in 0..n - 1 : Sorted(xs)[k + 1] = RankValue(xs, k)
        /\ MinRtt(xs) = RankValue(xs, 0)
        /\ MaxRtt(xs) = RankValue(xs, n - 1)
        /\ Median2(xs) = RankValue(xs, (n - 1) \div 2) + RankValue(xs, n \div 2)
        /\ P95(xs) = RankValue(xs, (95 * n) \div 100)
        /\ FracWithin(Mean(xs), MinRtt(xs), MaxRtt(xs))
        /\ 2 * MinRtt(xs) <= Median2(xs)
        /\ Median2(xs) <= 2 * P95(xs)
        /\ P95(xs) <= MaxRtt(xs)
        /\ n > 1 => SameFrac(StdevSq(xs), PairVariance(xs))
=============================================================================
