--------------------------- MODULE StressAnalysis ---------------------------
(***************************************************************************)
(* crates/tom-stress/scripts/analyze-stress.py: main() prints a banner,    *)
(* then for every path in sorted order loads its events (load_events) and  *)
(* prints "(empty)" for a file without events, otherwise runs the four     *)
(* section printers analyze_pings, analyze_burst, analyze_ladder and       *)
(* analyze_fanout, each of which prints nothing when its event kind is     *)
(* absent.  There is no try/except: any exception (a missing path, a       *)
(* non-object line, a ping without rtt_ms) ends the whole run with a      *)
(* traceback and status 1.  A normal run ends with "Done." and status 0.  *)
(*                                                                         *)
(* Paths are small naturals ordered like the path strings.  A section is   *)
(* the data its lines show; number formatting is left out, but a value    *)
(* that the code prints as 0 for a missing field is 0 in the section.     *)
(***************************************************************************)
EXTENDS Integers, Sequences, SequencesExt, TLC, StressSections

CONSTANTS
    Names,        \* the paths that may be given, as naturals
    MaxArgs,      \* bound on the number of command-line paths
    MaxLines,     \* bound on the number of lines of one file
    LineChoices,  \* the lines a file may contain
    Missing       \* content of a path that does not exist

VARIABLES
    content,   \* content[n]: Missing or the lines of path n
    argv,      \* sys.argv[1:]
    cur,       \* index into sorted(files)
    stage,     \* "load", "pings", "burst", "ladder" or "fanout"
    events,    \* the events of the current file
    out,       \* what is printed, as a sequence of report items
    pc,        \* "run", "exit" (usage or "Done.") or "crashed" (traceback)
    exitCode   \* None while running

vars == <<content, argv, cur, stage, events, out, pc, exitCode>>

\* for path in sorted(files)
Order == Sorted(argv)

Path == Order[cur]

\* An uncaught exception: traceback, status 1, the remaining files unread.
Crash ==
    /\ pc' = "crashed"
    /\ exitCode' = 1
    /\ UNCHANGED <<cur, stage, events, out>>

NextStage(s) == stage' = s /\ UNCHANGED <<cur, events, pc, exitCode>>

\* Mutant: the stage not reset for the next path.
NextFileKeepStage == cur' = cur + 1 /\ UNCHANGED <<stage, events, pc, exitCode>>

NextFile == cur' = cur + 1 /\ stage' = "load" /\ UNCHANGED <<events, pc, exitCode>>

\* Appends a section when the printer has records to show.
Emit(sec, show) == out' = IF show THEN Append(out, sec) ELSE out

-----------------------------------------------------------------------------

Init ==
    /\ content \in [Names -> {Missing} \cup BoundedSeq(LineChoices, MaxLines)]
    /\ argv \in BoundedSeq(Names, MaxArgs)
    /\ cur = 1
    /\ stage = "load"
    /\ events = <<>>
    /\ out = <<>>
    /\ pc = "run"
    /\ exitCode = None

\* if len(sys.argv) < 2: usage and sys.exit(1)
Usage ==
    /\ pc = "run"
    /\ argv = <<>>
    /\ out' = <<[kind |-> "usage"]>>
    /\ pc' = "exit"
    /\ exitCode' = 1
    /\ UNCHANGED <<content, argv, cur, stage, events>>

\* Mutant: undecodable lines kept as events.
LoadEventsRaw ==
    /\ pc = "run"
    /\ argv # <<>>
    /\ stage = "load"
    /\ cur <= Len(argv)
    /\ IF content[Path] = Missing
         THEN Crash
         ELSE IF content[Path] = <<>>
                THEN /\ out' = Append(out, [kind |-> "empty", path |-> Path])
                     /\ NextFile
                ELSE /\ events' = content[Path]
                     /\ stage' = "pings"
                     /\ UNCHANGED <<cur, out, pc, exitCode>>
    /\ UNCHANGED <<content, argv>>

\* events = load_events(path); if not events: print "(empty: ...)" and
\* continue.  open() of a missing path raises FileNotFoundError.
LoadEvents ==
    /\ pc = "run"
    /\ argv # <<>>
    /\ stage = "load"
    /\ cur <= Len(argv)
    /\ IF content[Path] = Missing
         THEN Crash
         ELSE LET evs == Decoded(content[Path])
              IN  IF evs = <<>>
                    THEN /\ out' = Append(out, [kind |-> "empty", path |-> Path])
                         /\ NextFile
                    ELSE /\ events' = evs
                         /\ stage' = "pings"
                         /\ UNCHANGED <<cur, out, pc, exitCode>>
    /\ UNCHANGED <<content, argv>>

\* One printer call of main(): it raises (traceback, the run ends), or
\* prints its section when it has records and returns.  analyze_pings'
\* first comprehension calls e.get on every event, so a non-object line
\* raises there, before any later printer can run.
RunPrinter(k, after) ==
    /\ pc = "run"
    /\ stage = k
    /\ IF Raises(k, events)
         THEN Crash
         ELSE /\ Emit(Section(k, Path, events), Shows(k, events))
              /\ IF after = "load" THEN NextFile ELSE NextStage(after)
    /\ UNCHANGED <<content, argv>>

AnalyzePings == RunPrinter("pings", "burst")

AnalyzeBurst == RunPrinter("burst", "ladder")

\* Mutant: main() never calls analyze_fanout.
AnalyzeLadderLast == RunPrinter("ladder", "load")

AnalyzeLadder == RunPrinter("ladder", "fanout")

\* The last printer; `for path in sorted(files)` moves to the next path.
AnalyzeFanout == RunPrinter("fanout", "load")

\* After the loop: "Done."; main() returns, status 0.
Finish ==
    /\ pc = "run"
    /\ argv # <<>>
    /\ stage = "load"
    /\ cur > Len(argv)
    /\ out' = Append(out, [kind |-> "done"])
    /\ pc' = "exit"
    /\ exitCode' = 0
    /\ UNCHANGED <<content, argv, cur, stage, events>>

Next ==
    \/ Usage \/ LoadEvents \/ AnalyzePings \/ AnalyzeBurst \/ AnalyzeLadder
    \/ AnalyzeFanout \/ Finish

Spec == Init /\ [][Next]_vars /\ WF_vars(Next)

-----------------------------------------------------------------------------

TypeOK ==
    /\ argv \in Seq(Names)
    /\ cur \in 1..Len(argv) + 1
    /\ stage \in {"load", "pings", "burst", "ladder", "fanout"}
    /\ events \in Seq(LineChoices \ {Blank, Garbage})
    /\ pc \in {"run", "exit", "crashed"}
    /\ exitCode \in {None, 0, 1}

SectionsOf(k) == {o \in ToSet(out) : "path" \in DOMAIN o /\ o.kind = k}

\* The records of kind k of path n, selected straight from its lines.
RecordsOf(n, k) ==
    SelectSeq(content[n], LAMBDA l : l \notin {Blank, Garbage, Scalar}
                                    /\ "event" \in DOMAIN l /\ l.event = k)

(***************************************************************************)
(* Spec 6, command surface: "per-file failures (not found, decode error)  *)
(* are reported per file and do not abort processing of remaining files;  *)
(* overall exit code reflects whether any valid results were produced".  *)
(* So the run never ends before every path on the command line has been  *)
(* handled, and it exits 0 only if some file produced a section other     *)
(* than "(empty)".  About main() calling load_events and the analyze_*    *)
(* printers without try/except, and returning normally after "Done.".    *)
(***************************************************************************)
BatchContract ==
    /\ pc # "run" => pc = "exit" /\ cur > Len(argv)
    /\ pc = "exit" /\ exitCode = 0 =>
           \E o \in ToSet(out) : "path" \in DOMAIN o /\ o.kind # "empty"

(***************************************************************************)
(* Spec 7 (MetricUnavailable): a missing optional RTT field is omitted,   *)
(* never rendered as zero.  So a ladder row shows an RTT of 0 only when    *)
(* the record carries that RTT as 0.  About `r.get("rtt_min_ms") or 0`.   *)
(***************************************************************************)
NoZeroForMissingRtt ==
    \A sec \in SectionsOf("ladder") :
        LET rs == RecordsOf(sec.path, "ladder_result")
        IN  \A i \in 1..Len(rs) :
              \A j \in 1..3 :
                LET f == <<"rtt_min_ms", "rtt_avg_ms", "rtt_max_ms">>[j]
                IN  sec.rows[i].rtt[j] = 0 => f \in DOMAIN rs[i] /\ rs[i][f] = 0

-----------------------------------------------------------------------------

\* The sections already printed for the path in progress.
Emitted ==
    LET before == SubSeq(Printers, 1, SelectInSeq(Printers, LAMBDA k : k = stage) - 1)
    IN  Len(SelectSeq(before, LAMBDA k : Shows(k, events)))

\* The output of the files handled so far: while a file is in progress,
\* its sections are not yet part of the abstract output.
Committed ==
    IF pc = "run" /\ stage # "load" THEN SubSeq(out, 1, Len(out) - Emitted) ELSE out

Batch == INSTANCE StressBatch WITH done <- cur - 1, out <- Committed

(***************************************************************************)
(* Refinement: calling the four printers one after the other, each         *)
(* returning early or raising, with `events` loaded once per path,        *)
(* implements the batch in which every path of sorted(files) gives, in     *)
(* one step, exactly the sections of its printers up to the first one     *)
(* that raises.  (Checked as safety: every step of StressAnalysis is a     *)
(* step of the batch or stutters.)  About main()'s loop body and the      *)
(* order of its four printer calls.                                        *)
(***************************************************************************)
RefinesStressBatch == Batch!SafetySpec
=============================================================================
