-------------------------- MODULE MCStressAnalysis --------------------------
(***************************************************************************)
(* Line alphabets for checking StressAnalysis with TLC.                    *)
(***************************************************************************)
EXTENDS StressAnalysis

Ladder(size) == [event |-> "ladder_result", size |-> size, successful |-> 1, failed |-> 0,
                 rtt_min_ms |-> 1, rtt_avg_ms |-> 1, rtt_max_ms |-> 1]

\* Every section kind, two distinct summaries, ladder sizes on both sides of
\* and at the 1024 boundary, a corrupt line and a
\* non-object line.
StressLines ==
    { Garbage, Scalar,
      [event |-> "ping", rtt_ms |-> 1],
      [event |-> "ping", rtt_ms |-> 2],
      [event |-> "summary", total_pings |-> 2, successful |-> 1, reconnections |-> 0],
      [event |-> "summary", total_pings |-> 2, successful |-> 2, reconnections |-> 1],
      [event |-> "path_change", kind |-> "direct"],
      Ladder(512), Ladder(1024), Ladder(2048),
      [event |-> "burst_result", messages_sent |-> 2, messages_acked |-> 2],
      [event |-> "fanout_result", total_sent |-> 2, total_delivered |-> 1] }

\* Records with a null field that an f-string formats: analyze_pings and
\* analyze_burst raise TypeError on them.
NullLines == { [event |-> "ping", rtt_ms |-> None],
               [event |-> "burst_result", messages_sent |-> 2, rtt_avg_ms |-> None] }

SectionLines == StressLines \cup NullLines

\* Files that load but hold no records.
EmptyLines == { Blank, Garbage }

\* Ladder trials that did not report RTTs.
NoRttLines == { [event |-> "ladder_result", size |-> 512, successful |-> 0, failed |-> 1],
                Ladder(512) }
=============================================================================
