--------------------------- MODULE MCNatAnalysis ---------------------------
(***************************************************************************)
(* Model values and line alphabets for checking NatAnalysis with TLC.  A   *)
(* line is one of the decoded JSON objects below, or Blank, Garbage or     *)
(* Scalar; each cfg picks the alphabet its question needs.                 *)
(***************************************************************************)
EXTENDS NatAnalysis

Rtts == 0..2

Ping(v, rtt) == [event |-> "ping", via |-> v, rtt_ms |-> rtt]
PingNoVia(rtt) == [event |-> "ping", rtt_ms |-> rtt]

\* One record of every kind analyze_file and print_single treat
\* differently: pings over DIRECT, RELAY and no path with different RTTs,
\* a ping whose rtt_ms is null (analyze_file raises on it: [ERROR]), each
\* measurement event with its field, a hole punch and a summary whose
\* measurement is null (analyze_file accepts them, print_single raises on
\* them), a corrupt line and a line that decodes to a non-object.
BatchLines ==
    { Garbage, Scalar,
      Ping("DIRECT", 1), Ping("DIRECT", 2), Ping("RELAY", 0), PingNoVia(2), Ping("DIRECT", None),
      [event |-> "disconnected"],
      [event |-> "reconnected", reconnect_time_ms |-> 2],
      [event |-> "summary", total_disconnected_s |-> 1],
      [event |-> "summary", total_disconnected_s |-> None],
      [event |-> "hole_punch", time_to_direct_s |-> 1],
      [event |-> "hole_punch", time_to_direct_s |-> None] }

\* Records with a required or a measured field missing or null, next to
\* complete ones, and a line that is valid JSON but not an object.
GapLines ==
    { Ping("DIRECT", 1), [event |-> "ping", via |-> "RELAY"], Ping("RELAY", None),
      [event |-> "hole_punch", time_to_direct_s |-> None],
      [event |-> "reconnected"], Scalar,
      [event |-> "hole_punch"], [event |-> "hole_punch", time_to_direct_s |-> 1],
      [event |-> "summary"], [event |-> "summary", total_disconnected_s |-> 1] }
=============================================================================
