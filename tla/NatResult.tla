----------------------------- MODULE NatResult -----------------------------
(***************************************************************************)
(* The metric aggregation of experiments/iroh-poc/scripts/analyze-results.py *)
(* as pure operators: the classification of decoded events by their        *)
(* "event" field, the exceptions analyze_file raises on malformed records, *)
(* the result dict it builds and the values print_comparison tabulates.    *)
(***************************************************************************)
EXTENDS Integers, Sequences, SequencesExt, TLC, RttStats, JsonEvents

\* Mutant: the via filter dropped, every ping counted as DIRECT.
ViaIgnored(ps, v) == ps

Via(ps, v) == SelectSeq(ps, LAMBDA p : Get(p, "via", None) = v)

RttsOf(ps) == [i \in 1..Len(ps) |-> ps[i]["rtt_ms"]]

\* e.get on a decoded value that is not a dict raises AttributeError.
NonObjectRaises(evs) == \E i \in 1..Len(evs) : evs[i] = Scalar

\* p[f] on a record of kind k without f raises KeyError; a null f reaches
\* statistics.mean (or max), which raises TypeError.
FieldRaises(evs, k, f) ==
    \E e \in ToSet(OfKind(evs, k)) : f \notin DOMAIN e \/ e[f] = None

\* all_rtts = [p["rtt_ms"] for p in pings], then statistics.mean(all_rtts).
RttRaises(evs) == FieldRaises(evs, "ping", "rtt_ms")

\* recon_times = [r["reconnect_time_ms"] ...], then statistics.mean.
ReconnectTimeRaises(evs) == FieldRaises(evs, "reconnected", "reconnect_time_ms")

\* analyze_file raises, and main() prints [ERROR].
Raises(evs) ==
    NonObjectRaises(evs) \/ RttRaises(evs) \/ ReconnectTimeRaises(evs)

\* direct_pct, exact: len(direct) / len(pings) * 100, or 0 without pings.
DirectPct(nd, n) == IF n > 0 THEN <<100 * nd, n>> ELSE <<0, 1>>

\* The result dict analyze_file returns for file f with decoded events evs.
AnalyzeFile(f, evs) ==
    LET pings   == OfKind(evs, "ping")
        direct  == Via(pings, "DIRECT")
        relay   == Via(pings, "RELAY")
        holes   == OfKind(evs, "hole_punch")
        recons  == OfKind(evs, "reconnected")
        sums    == OfKind(evs, "summary")
        allR    == RttsOf(pings)
        dirR    == RttsOf(direct)
        relR    == RttsOf(relay)
        reconT  == [i \in 1..Len(recons) |-> recons[i]["reconnect_time_ms"]]
    IN  [file |-> f, total_pings |-> Len(pings), direct_pings |-> Len(direct),
         relay_pings |-> Len(relay),
         direct_pct |-> DirectPct(Len(direct), Len(pings)),
         path_changes |-> Len(OfKind(evs, "path_change")),
         hole_punches |-> Len(holes),
         disconnections |-> Len(OfKind(evs, "disconnected")),
         reconnections |-> Len(recons)]
        @@ Opt(allR # <<>>, [rtt_mean |-> Mean(allR), rtt_median2 |-> Median2(allR),
                             rtt_p95 |-> P95(allR), rtt_min |-> MinRtt(allR),
                             rtt_max |-> MaxRtt(allR)])
        @@ Opt(dirR # <<>>, [direct_rtt_mean |-> Mean(dirR), direct_rtt_p95 |-> P95(dirR)])
        @@ Opt(relR # <<>>, [relay_rtt_mean |-> Mean(relR)])
        @@ Opt(holes # <<>>, [hole_punch_time_s |-> Get(holes[1], "time_to_direct_s", 0)])
        @@ Opt(recons # <<>>, [reconnect_mean_ms |-> Mean(reconT),
                               reconnect_max_ms |-> MaxRtt(reconT)])
        @@ Opt(pings # <<>>, [duration_s |-> Get(Last(pings), "elapsed_s", 0)])
        @@ Opt(sums # <<>>, [total_disconnected_s |-> Get(Last(sums), "total_disconnected_s", 0)])

\* What main() makes of one path: [SKIP], [ERROR], or a result dict.
Skip == [tag |-> "skip"]
Error == [tag |-> "error"]
Result(r) == [tag |-> "result", result |-> r]

(***************************************************************************)
(* print_single(r): the lines of one file's section, each as its label    *)
(* and the values of r it formats.  r[k] for a key r lacks raises          *)
(* KeyError, and a format spec ({:.1f}) applied to None raises TypeError,  *)
(* both outside main()'s try: such keys are the line's `raising`.  Every   *)
(* key that can hold None (a .get of a null field) is formatted with a     *)
(* spec.  Number formatting and layout are left out.                       *)
(***************************************************************************)
Show(r, label, keys) ==
    [line |-> label, vals |-> [k \in keys \cap DOMAIN r |-> r[k]],
     raising |-> {k \in keys : k \notin DOMAIN r \/ r[k] = None}]

\* A line print_single prints only when its `if "key" in r:` holds.
ShowIf(r, guard, label, keys) ==
    IF guard \in DOMAIN r THEN <<Show(r, label, keys)>> ELSE <<>>

\* The lines print_single prints whatever r holds; the duration is read
\* with r.get("duration_s", 0).
PrintHead(r) ==
    << Show(r, "file", {"file"}),
       [line |-> "duration", vals |-> [duration_s |-> Get(r, "duration_s", 0)],
        raising |-> IF Get(r, "duration_s", 0) = None THEN {"duration_s"} ELSE {}],
       Show(r, "pings", {"total_pings"}),
       Show(r, "direct", {"direct_pings", "direct_pct"}),
       Show(r, "relay", {"relay_pings"}) >>

PrintCounts(r) ==
    << Show(r, "path_changes", {"path_changes"}),
       Show(r, "disconnections", {"disconnections"}),
       Show(r, "reconnections", {"reconnections"}) >>

\* Mutant: the direct RTT line guarded by the all-pings key.
PrintSingleWrongGuard(r) ==
    PrintHead(r)
    \o ShowIf(r, "rtt_mean", "rtt_all", {"rtt_mean", "rtt_median2", "rtt_p95", "rtt_min", "rtt_max"})
    \o ShowIf(r, "rtt_mean", "rtt_direct", {"direct_rtt_mean", "direct_rtt_p95"})
    \o ShowIf(r, "relay_rtt_mean", "rtt_relay", {"relay_rtt_mean"})
    \o ShowIf(r, "hole_punch_time_s", "hole_punch", {"hole_punch_time_s"})
    \o PrintCounts(r)
    \o ShowIf(r, "reconnect_mean_ms", "reconnect", {"reconnect_mean_ms", "reconnect_max_ms"})
    \o ShowIf(r, "total_disconnected_s", "downtime", {"total_disconnected_s"})

PrintSingle(r) ==
    PrintHead(r)
    \o ShowIf(r, "rtt_mean", "rtt_all", {"rtt_mean", "rtt_median2", "rtt_p95", "rtt_min", "rtt_max"})
    \o ShowIf(r, "direct_rtt_mean", "rtt_direct", {"direct_rtt_mean", "direct_rtt_p95"})
    \o ShowIf(r, "relay_rtt_mean", "rtt_relay", {"relay_rtt_mean"})
    \o ShowIf(r, "hole_punch_time_s", "hole_punch", {"hole_punch_time_s"})
    \o PrintCounts(r)
    \o ShowIf(r, "reconnect_mean_ms", "reconnect", {"reconnect_mean_ms", "reconnect_max_ms"})
    \o ShowIf(r, "total_disconnected_s", "downtime", {"total_disconnected_s"})

\* Sum and order of exact fractions <<num, den>>, den > 0.
FracAdd(x, y) == <<x[1] * y[2] + y[1] * x[2], x[2] * y[2]>>

FracLess(x, y) == x[1] * y[2] < y[1] * x[2]

\* statistics.mean(all_direct).
FracMean(xs) ==
    LET s == FoldLeft(LAMBDA acc, x : FracAdd(acc, x), <<0, 1>>, xs)
    IN  <<s[1], s[2] * Len(xs)>>

\* Mutant: the running minimum starts at 0 instead of the first element.
FracMinFromZero(xs) == FoldLeft(LAMBDA acc, x : IF FracLess(x, acc) THEN x ELSE acc, <<0, 1>>, xs)

\* min(all_direct), max(all_direct): the first extreme element.
FracMin(xs) == FoldLeft(LAMBDA acc, x : IF FracLess(x, acc) THEN x ELSE acc, Head(xs), Tail(xs))

FracMax(xs) == FoldLeft(LAMBDA acc, x : IF FracLess(acc, x) THEN x ELSE acc, Head(xs), Tail(xs))

\* The values print_comparison tabulates: one row per result, the list of
\* direct percentages, the aggregate line's mean, min and max of them, and
\* the two totals.
\* A cell the code prints as "-" is None.
Comparison(rs) ==
    [rows |-> [i \in 1..Len(rs) |->
                 [file |-> rs[i].file,
                  rtt |-> Get(rs[i], "direct_rtt_mean", Get(rs[i], "rtt_mean", <<0, 1>>)),
                  punch |-> Get(rs[i], "hole_punch_time_s", None),
                  down |-> Get(rs[i], "total_disconnected_s", None)]],
     direct |-> [i \in 1..Len(rs) |-> rs[i].direct_pct],
     direct_agg |-> LET all == [i \in 1..Len(rs) |-> rs[i].direct_pct]
                    IN  [avg |-> FracMean(all), min |-> FracMin(all), max |-> FracMax(all)],
     total_discon |-> FoldLeft(LAMBDA a, r : a + r.disconnections, 0, rs),
     total_recon |-> FoldLeft(LAMBDA a, r : a + r.reconnections, 0, rs)]

=============================================================================
