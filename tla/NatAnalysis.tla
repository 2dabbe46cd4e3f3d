---------------------------- MODULE NatAnalysis ----------------------------
(***************************************************************************)
(* experiments/iroh-poc/scripts/analyze-results.py: the batch analysis of  *)
(* nat-test JSONL files.  main() runs analyze_file on every path given on  *)
(* the command line, in argument order; analyze_file reads the file line   *)
(* by line, keeps every line json.loads accepts, classifies the records by *)
(* their "event" field and builds one result dict per file.  A missing     *)
(* file is reported as [SKIP], any other exception as [ERROR]; then every  *)
(* result is printed and, for more than one result, a comparison table.   *)
(* The result dict and the exceptions are the operators of NatResult.     *)
(***************************************************************************)
EXTENDS Integers, Sequences, SequencesExt, TLC, NatResult

CONSTANTS
    NumFiles,     \* bound on the number of paths on the command line
    MaxLines,     \* bound on the number of lines of one file
    LineChoices,  \* the lines a file may contain (decoded objects, Blank, ...)
    Missing       \* content of a path that does not exist

VARIABLES
    content,   \* the paths of sys.argv[1:], in order: content[f] is Missing
               \* or the file's sequence of lines
    pc,        \* "start" | "open" | "load" | "done"
    cur,       \* index of the file main() is at
    pos,       \* next line of the current file
    events,    \* analyze_file's events list for the current file
    results,   \* main()'s results list
    out,       \* what is printed, as a sequence of report items
    exitCode   \* the process exit status, None while running

vars == <<content, pc, cur, pos, events, results, out, exitCode>>

Files == DOMAIN content

-----------------------------------------------------------------------------

Init ==
    /\ \E n \in 0..NumFiles :
           content \in [1..n -> {Missing} \cup BoundedSeq(LineChoices, MaxLines)]
    /\ pc = "start"
    /\ cur = 1
    /\ pos = 1
    /\ events = <<>>
    /\ results = <<>>
    /\ out = <<>>
    /\ exitCode = None

\* if len(sys.argv) < 2: print the usage line and sys.exit(1).
Usage ==
    /\ pc = "start"
    /\ Len(content) = 0
    /\ out' = <<<<"usage">>>>
    /\ exitCode' = 1
    /\ pc' = "done"
    /\ UNCHANGED <<content, cur, pos, events, results>>

\* files = sys.argv[1:]; results = []
Begin ==
    /\ pc = "start"
    /\ Len(content) > 0
    /\ pc' = "open"
    /\ UNCHANGED <<content, cur, pos, events, results, out, exitCode>>

\* Mutant: events not reset when the next file is opened.
OpenFileNoReset ==
    /\ pc = "open"
    /\ cur <= Len(content)
    /\ IF content[cur] = Missing
         THEN /\ out' = Append(out, <<"skip", cur>>)
              /\ cur' = cur + 1
              /\ UNCHANGED <<pc, pos>>
         ELSE /\ pc' = "load"
              /\ pos' = 1
              /\ UNCHANGED <<out, cur>>
    /\ UNCHANGED <<content, events, results, exitCode>>

\* analyze_file entry: events = [] and open(filepath).  A missing path
\* raises FileNotFoundError, which main() reports as [SKIP].
OpenFile ==
    /\ pc = "open"
    /\ cur <= Len(content)
    /\ events' = <<>>
    /\ IF content[cur] = Missing
         THEN /\ out' = Append(out, <<"skip", cur>>)
              /\ cur' = cur + 1
              /\ UNCHANGED <<pc, pos>>
         ELSE /\ pc' = "load"
              /\ pos' = 1
              /\ UNCHANGED <<out, cur>>
    /\ UNCHANGED <<content, results, exitCode>>

\* Mutant: a rejected line appended instead of dropped.
ReadLineNoSkip ==
    /\ pc = "load"
    /\ pos <= Len(content[cur])
    /\ events' = IF content[cur][pos] = Blank THEN events ELSE Append(events, content[cur][pos])
    /\ pos' = pos + 1
    /\ UNCHANGED <<content, pc, cur, results, out, exitCode>>

\* One iteration of the read loop: a blank line is skipped, a line that
\* json.loads rejects is dropped, anything else is appended.
ReadLine ==
    /\ pc = "load"
    /\ pos <= Len(content[cur])
    /\ LET line == content[cur][pos]
       IN  events' = IF line \in {Blank, Garbage} THEN events ELSE Append(events, line)
    /\ pos' = pos + 1
    /\ UNCHANGED <<content, pc, cur, results, out, exitCode>>

\* End of file: the rest of analyze_file, and main()'s append or [ERROR].
EndOfFile ==
    /\ pc = "load"
    /\ pos > Len(content[cur])
    /\ IF Raises(events)
         THEN /\ out' = Append(out, <<"error", cur>>)
              /\ UNCHANGED results
         ELSE /\ results' = Append(results, AnalyzeFile(cur, events))
              /\ UNCHANGED out
    /\ pc' = "open"
    /\ cur' = cur + 1
    /\ UNCHANGED <<content, pos, events, exitCode>>

\* No result at all: "No valid results to analyze." and exit status 1.
NoResults ==
    /\ pc = "open"
    /\ cur > Len(content)
    /\ results = <<>>
    /\ out' = Append(out, <<"novalid">>)
    /\ exitCode' = 1
    /\ pc' = "done"
    /\ UNCHANGED <<content, cur, pos, events, results>>

(***************************************************************************)
(* for r in results: print_single(r); then print_comparison(results) when *)
(* cmp holds.  Every printed line is an output item tagged with its        *)
(* result's file.  A KeyError or TypeError in print_single escapes       *)
(* main(): the lines before it stay printed, a traceback follows, and the *)
(* exit status is 1; otherwise main() returns normally, exit status 0.    *)
(***************************************************************************)
Rendered(rs) ==
    FoldLeft(LAMBDA acc, r :
                 LET ls == PrintSingle(r)
                 IN  acc \o [j \in DOMAIN ls |-> <<"line", r.file, ls[j]>>],
             <<>>, rs)

PrintAll(cmp) ==
    LET ls  == Rendered(results)
        bad == {i \in DOMAIN ls : ls[i][3].raising # {}}
    IN  IF bad = {}
          THEN /\ out' = out \o ls \o (IF cmp THEN <<<<"comparison", Comparison(results)>>>> ELSE <<>>)
               /\ exitCode' = 0
          ELSE /\ out' = out \o SubSeq(ls, 1, Min(bad) - 1) \o <<<<"traceback">>>>
               /\ exitCode' = 1

Report ==
    /\ pc = "open"
    /\ cur > Len(content)
    /\ results # <<>>
    /\ PrintAll(Len(results) > 1)
    /\ pc' = "done"
    /\ UNCHANGED <<content, cur, pos, events, results>>

Next == Usage \/ Begin \/ OpenFile \/ ReadLine \/ EndOfFile \/ NoResults \/ Report

Spec == Init /\ [][Next]_vars /\ WF_vars(Next)

-----------------------------------------------------------------------------

TypeOK ==
    /\ pc \in {"start", "open", "load", "done"}
    /\ cur \in 1..NumFiles + 1
    /\ pos \in 1..MaxLines + 1
    /\ events \in Seq(LineChoices \ {Blank, Garbage})
    /\ \A i \in 1..Len(results) : results[i].file \in Files
    /\ exitCode \in {None, 0, 1}

\* The outcome main() has recorded for file f: [SKIP], [ERROR] or its result.
ShownOutcome(f) ==
    IF <<"skip", f>> \in ToSet(out) THEN Skip
    ELSE IF <<"error", f>> \in ToSet(out) THEN Error
    ELSE Result(CHOOSE r \in ToSet(results) : r.file = f)

Batch == INSTANCE AnalysisBatch
            WITH outcomes <- [f \in 1..cur - 1 |-> ShownOutcome(f)]

(***************************************************************************)
(* Refinement: reading the files line by line, resetting events for every  *)
(* file and catching each file's exceptions in main() implements the batch *)
(* in which every file's outcome is the analysis of exactly its decodable  *)
(* lines, taken in argument order, and the exit status is 0 exactly when   *)
(* some file gave a result and print_single raised on none of them.       *)
(* (Checked as safety: the steps of NatAnalysis are the abstract steps or *)
(* stutter.)                                                               *)
(***************************************************************************)
RefinesBatch == Batch!SafetySpec

RttStatsMatchRanks ==
    \A i \in 1..Len(results) :
        LET r    == results[i]
            evs  == Decoded(content[r.file])
            all  == RttsOf(OfKind(evs, "ping"))
            dir  == RttsOf(SelectSeq(OfKind(evs, "ping"),
                                     LAMBDA e : "via" \in DOMAIN e /\ e.via = "DIRECT"))
            n    == Len(all)
            m    == Len(dir)
        IN  /\ n > 0 =>
                 /\ r.rtt_min = RankValue(all, 0)
                 /\ r.rtt_max = RankValue(all, n - 1)
                 /\ r.rtt_median2 = RankValue(all, (n - 1) \div 2) + RankValue(all, n \div 2)
                 /\ r.rtt_p95 = RankValue(all, (95 * n) \div 100)
                 /\ FracWithin(r.rtt_mean, r.rtt_min, r.rtt_max)
            /\ m > 0 =>
                 /\ r.direct_rtt_p95 = RankValue(dir, (95 * m) \div 100)
                 /\ FracWithin(r.direct_rtt_mean, RankValue(dir, 0), RankValue(dir, m - 1))

\* The labels of the lines printed in file f's section.
ShownLines(f) == {o[3].line : o \in {o \in ToSet(out) : o[1] = "line" /\ o[2] = f}}

(***************************************************************************)
(* After main() has finished, each result's section shows only optional   *)
(* metric lines whose records the file has, and a section print_single    *)
(* completed (every one on exit 0, those before the raising one after a   *)
(* traceback) shows each optional line exactly when the file has the      *)
(* records behind it: all-ping RTTs for pings, direct and relay RTTs for  *)
(* DIRECT and RELAY pings, hole punch time for hole_punch records,        *)
(* reconnect time for reconnected records and downtime for a summary.     *)
(* A section is cut short only by a null measurement, never by a KeyError *)
(* on a key its guard let through.                                         *)
(* About the agreement between analyze_file's optional keys and           *)
(* print_single's `if "key" in r` guards and the keys each guarded line   *)
(* reads.                                                                  *)
(***************************************************************************)
SectionShowsMeasuredMetrics ==
    pc = "done" =>
        \A i \in 1..Len(results) :
             LET f        == results[i].file
                 evs      == Decoded(content[f])
                 has(k)   == OfKind(evs, k) # <<>>
                 via(v)   == \E e \in ToSet(OfKind(evs, "ping")) :
                                 "via" \in DOMAIN e /\ e.via = v
                 optional == {"rtt_all", "rtt_direct", "rtt_relay", "hole_punch",
                              "reconnect", "downtime"}
                 expected == {l \in optional :
                                 \/ l = "rtt_all" /\ has("ping")
                                 \/ l = "rtt_direct" /\ via("DIRECT")
                                 \/ l = "rtt_relay" /\ via("RELAY")
                                 \/ l = "hole_punch" /\ has("hole_punch")
                                 \/ l = "reconnect" /\ has("reconnected")
                                 \/ l = "downtime" /\ has("summary")}
                 complete == \/ exitCode = 0
                             \/ i < Len(results) /\ ShownLines(results[i + 1].file) # {}
             IN  /\ ShownLines(f) \cap optional \subseteq expected
                 /\ complete => ShownLines(f) \cap optional = expected
                 /\ ShownLines(f) # {} /\ ~complete =>
                        \E k \in DOMAIN results[i] : results[i][k] = None

(***************************************************************************)
(* Spec 6 and 7: file-level failures are reported per file and never      *)
(* raise past the per-file boundary, and the exit status is 0 if at least *)
(* one file yielded results.  So once main() has finished with a result,  *)
(* every result's section has been printed and the status is 0.  About    *)
(* print_single formatting values read with .get, null ones included,     *)
(* outside main()'s try.                                                   *)
(***************************************************************************)
ResultsReported ==
    pc = "done" /\ results # <<>> =>
        /\ exitCode = 0
        /\ \A i \in 1..Len(results) : ShownLines(results[i].file) # {}
=============================================================================
