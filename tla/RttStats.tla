------------------------------ MODULE RttStats ------------------------------
(***************************************************************************)
(* The sample statistics both analysis scripts compute over a list of RTT  *)
(* values: Python's sorted/min/max, statistics.mean, statistics.median and *)
(* the nearest-rank p95 expression sorted(xs)[int(len(xs) * 0.95)]; and   *)
(* analyze-stress's statistics.stdev, as its exact square.                 *)
(*                                                                         *)
(* RTTs are abstracted to small naturals.  A mean is kept exact as a pair  *)
(* <<sum, count>> and a median as twice its value, so that no rounding is  *)
(* introduced by the model.  int(n * 0.95) is computed in binary floating  *)
(* point by the code; for every n the float product 0.95 * n rounds to the *)
(* same integer part as the exact (95 * n) \div 100 (the error of 0.95 as  *)
(* a double is below half an ulp of the product), so the index is modelled *)
(* with integer division.                                                  *)
(***************************************************************************)
EXTENDS Integers, Sequences, SequencesExt

\* Python sorted() of a list of numbers: insertion of each element into the
\* sorted rest.  On numbers the result is the unique ascending permutation.
RECURSIVE InsertSorted(_, _)
InsertSorted(x, t) ==
    IF t = <<>> \/ x <= Head(t) THEN <<x>> \o t
    ELSE <<Head(t)>> \o InsertSorted(x, Tail(t))

RECURSIVE Sorted(_)
Sorted(xs) == IF xs = <<>> THEN <<>> ELSE InsertSorted(Head(xs), Sorted(Tail(xs)))

SumOf(xs) == FoldLeft(+, 0, xs)

\* statistics.mean(xs), exact, as the fraction <<sum, count>>.
Mean(xs) == <<SumOf(xs), Len(xs)>>

\* statistics.median(xs), doubled: the middle element for odd n, the sum of
\* the two middle elements for even n.
Median2(xs) ==
    LET t == Sorted(xs)
        n == Len(xs)
    IN  IF n % 2 = 1 THEN 2 * t[n \div 2 + 1]
                     ELSE t[n \div 2] + t[n \div 2 + 1]

\* The 0-based index int(len(xs) * 0.95) of the p95 element.
P95Index(n) == (n * 95) \div 100

\* Mutant: the p95 element taken from the unsorted list.
P95NoSort(xs) == xs[P95Index(Len(xs)) + 1]

\* sorted(xs)[int(len(xs) * 0.95)]
P95(xs) == Sorted(xs)[P95Index(Len(xs)) + 1]

\* statistics.stdev(xs) squared, exact, for n > 1: the sum of squared
\* deviations from the exact mean over n - 1, as the fraction
\* <<n * sum(x^2) - sum(x)^2, n * (n - 1)>>.  The square root is left out.
StdevSq(xs) ==
    LET n == Len(xs)
    IN  <<n * SumOf([i \in 1..n |-> xs[i] * xs[i]]) - SumOf(xs) * SumOf(xs), n * (n - 1)>>

MinRtt(xs) == Min(ToSet(xs))
MaxRtt(xs) == Max(ToSet(xs))

(***************************************************************************)
(* Reference definitions, independent of the sort: the element of rank k   *)
(* (0-based) of a sample is the value v with fewer than k+1 elements below *)
(* it and at least k+1 elements at or below it.                            *)
(***************************************************************************)
CountBelow(xs, v) == Len(SelectSeq(xs, LAMBDA x : x < v))
CountAtMost(xs, v) == Len(SelectSeq(xs, LAMBDA x : x <= v))

RankValue(xs, k) ==
    CHOOSE v \in ToSet(xs) : CountBelow(xs, v) <= k /\ k < CountAtMost(xs, v)

\* The sample variance by pairs: the mean of (x_i - x_j)^2 / 2 over the
\* ordered pairs i # j, as a fraction.
PairVariance(xs) ==
    LET n      == Len(xs)
        sq(d)  == d * d
        row(i) == SumOf([j \in 1..n |-> sq(xs[i] - xs[j])])
    IN  <<SumOf([i \in 1..n |-> row(i)]), 2 * n * (n - 1)>>

SameFrac(f, g) == f[1] * g[2] = g[1] * f[2]

\* A fraction <<a, b>> (b > 0) lies between lo and hi.
FracWithin(f, lo, hi) == lo * f[2] <= f[1] /\ f[1] <= hi * f[2]
=============================================================================
