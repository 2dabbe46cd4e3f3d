--------------------------- MODULE StressSections ---------------------------
(***************************************************************************)
(* The four section printers of crates/tom-stress/scripts/analyze-stress.py *)
(* as pure operators: what each one shows for the events of a file, and    *)
(* whether it raises before it is done.  A section is the data its lines   *)
(* show; number formatting is left out, but a value that the code prints  *)
(* as 0 for a missing field is 0 in the section.                          *)
(*                                                                         *)
(* A field present with the JSON value null is None.  An f-string with a  *)
(* format spec ({x:.1f}, {x:>4}) and arithmetic or comparison on None     *)
(* raise TypeError; a plain {x} prints "None".                             *)
(***************************************************************************)
EXTENDS Integers, Sequences, SequencesExt, FiniteSets, RttStats, JsonEvents

\* Evaluating e.get(...) over all events raises AttributeError on a
\* non-object line.
HasScalar(evs) == \E i \in 1..Len(evs) : evs[i] = Scalar

\* The ladder's size column: f"{size // 1024}KB" from 1024 up, else f"{size}B".
SizeLabel(size) == IF size >= 1024 THEN <<size \div 1024, "KB">> ELSE <<size, "B">>

\* r.get(k) or 0: a missing field, None or 0 all print as 0.
GetOrZero(r, k) == IF k \in DOMAIN r /\ r[k] # None THEN r[k] ELSE 0

\* s = summaries[-1]
LastSummary(sums) == Last(sums)

\* Some record of rs has one of the fields as None: r.get(f, 0) is None.
FormatsNone(rs, fields) == \E i \in 1..Len(rs), f \in fields : Get(rs[i], f, 0) = None

\* analyze_pings raises: e.get on a non-object event, p["rtt_ms"] missing,
\* min() or {:.1f} on a None RTT, or 100*ok/total with ok None.
PingsRaise(evs) ==
    LET pings == OfKind(evs, "ping")
        sums  == OfKind(evs, "summary")
    IN  \/ HasScalar(evs)
        \/ \E i \in 1..Len(pings) : "rtt_ms" \notin DOMAIN pings[i] \/ pings[i]["rtt_ms"] = None
        \/ /\ pings # <<>> /\ sums # <<>>
           /\ Get(LastSummary(sums), "total_pings", 0) \notin {0, None}
           /\ Get(LastSummary(sums), "successful", 0) = None

\* The data of analyze_pings' section for the events of path n.
PingSection(n, evs) ==
    LET pings == OfKind(evs, "ping")
        rtts  == [i \in 1..Len(pings) |-> pings[i]["rtt_ms"]]
        sums  == OfKind(evs, "summary")
        pcs   == OfKind(evs, "path_change")
        kindCount(k) == Len(SelectSeq(pcs, LAMBDA p : Get(p, "kind", None) = k))
    IN  [kind |-> "pings", path |-> n, total |-> Len(pings),
         min |-> MinRtt(rtts), max |-> MaxRtt(rtts), mean |-> Mean(rtts)]
        @@ Opt(Len(rtts) > 1, [median2 |-> Median2(rtts), stdev2 |-> StdevSq(rtts),
                               p95 |-> P95(rtts)])
        @@ Opt(sums # <<>>, [success |-> <<Get(LastSummary(sums), "successful", 0),
                                           Get(LastSummary(sums), "total_pings", 0)>>,
                             reconnections |-> Get(LastSummary(sums), "reconnections", 0)])
        @@ Opt(pcs # <<>>, [path_changes |-> <<Len(pcs), kindCount("direct"),
                                                kindCount("relay")>>])

\* One line group per burst_result: sent/acked/lost and min/avg/max RTT,
\* each r.get(k, 0).
BurstSection(n, rs) ==
    [kind |-> "burst", path |-> n,
     rows |-> [i \in 1..Len(rs) |->
                 [f \in {"messages_sent", "messages_acked", "lost", "rtt_min_ms",
                         "rtt_avg_ms", "rtt_max_ms"} |-> Get(rs[i], f, 0)]]]

\* One table row per ladder_result: size label, ok, fail, min/avg/max RTT.
LadderSection(n, rs) ==
    [kind |-> "ladder", path |-> n,
     rows |-> [i \in 1..Len(rs) |->
                 [size |-> SizeLabel(Get(rs[i], "size", 0)),
                  ok |-> Get(rs[i], "successful", 0), fail |-> Get(rs[i], "failed", 0),
                  rtt |-> <<GetOrZero(rs[i], "rtt_min_ms"), GetOrZero(rs[i], "rtt_avg_ms"),
                            GetOrZero(rs[i], "rtt_max_ms")>>]]]

\* One line group per fanout_result.
FanoutSection(n, rs) ==
    [kind |-> "fanout", path |-> n,
     rows |-> [i \in 1..Len(rs) |->
                 [f \in {"total_sent", "total_delivered", "total_failed"} |-> Get(rs[i], f, 0)]]]

\* main()'s calls, in order, and the record kind each printer selects.
Printers == <<"pings", "burst", "ladder", "fanout">>

RecordKind == [pings |-> "ping", burst |-> "burst_result",
               ladder |-> "ladder_result", fanout |-> "fanout_result"]

\* `if not results: return`: the printer shows a section.
Shows(k, evs) == OfKind(evs, RecordKind[k]) # <<>>

\* The fields each printer formats with a spec or uses in arithmetic.
Formatted ==
    [burst  |-> {"messages_per_sec", "bytes_per_sec", "elapsed_ms",
                 "rtt_min_ms", "rtt_avg_ms", "rtt_max_ms"},
     ladder |-> {"size", "successful", "failed"},
     fanout |-> {"avg_rtt_ms", "max_rtt_ms"}]

Raises(k, evs) ==
    IF k = "pings" THEN PingsRaise(evs)
    ELSE FormatsNone(OfKind(evs, RecordKind[k]), Formatted[k])

Section(k, n, evs) ==
    LET rs == OfKind(evs, RecordKind[k])
    IN  CASE k = "pings"  -> PingSection(n, evs)
          [] k = "burst"  -> BurstSection(n, rs)
          [] k = "ladder" -> LadderSection(n, rs)
          [] k = "fanout" -> FanoutSection(n, rs)

=============================================================================
