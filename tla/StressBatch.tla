---------------------------- MODULE StressBatch ----------------------------
(***************************************************************************)
(* What the batch driver of analyze-stress.py does, seen one file at a     *)
(* time: the paths are taken in sorted order, and each file is handled in  *)
(* one step whose output depends on that file alone -- "(empty)" when no   *)
(* line decodes, otherwise the sections of its printers, in call order,   *)
(* up to the first printer that raises.  A missing path or a raising      *)
(* printer ends the whole run with status 1; otherwise the run ends with  *)
(* "Done." and status 0.  StressAnalysis, which takes one step per        *)
(* printer, implements this specification.                                *)
(***************************************************************************)
EXTENDS Integers, Sequences, SequencesExt, StressSections

CONSTANTS Names, MaxArgs, MaxLines, LineChoices, Missing

VARIABLES
    content,   \* as in StressAnalysis
    argv,      \* sys.argv[1:]
    done,      \* the number of paths of sorted(files) already handled
    out,       \* the report items printed
    pc,        \* "run", "exit" or "crashed"
    exitCode   \* None while running

batchVars == <<content, argv, done, out, pc, exitCode>>

\* The index of the first printer from the i-th on that raises on evs, or
\* 0; a printer is only asked once the earlier ones have returned.
RECURSIVE RaiseFrom(_, _)
RaiseFrom(i, evs) ==
    IF i > Len(Printers) THEN 0
    ELSE IF Raises(Printers[i], evs) THEN i ELSE RaiseFrom(i + 1, evs)

FirstRaise(evs) == RaiseFrom(1, evs)

\* The printers main() calls before an exception stops it.
Reached(evs) ==
    IF FirstRaise(evs) = 0 THEN Printers ELSE SubSeq(Printers, 1, FirstRaise(evs) - 1)

\* The sections printed for path n: one per reached printer with records.
Report(n, evs) ==
    LET shown == SelectSeq(Reached(evs), LAMBDA k : Shows(k, evs))
    IN  [i \in 1..Len(shown) |-> Section(shown[i], n, evs)]

Init ==
    /\ content \in [Names -> {Missing} \cup Seq(LineChoices)]
    /\ \A n \in Names : content[n] # Missing => Len(content[n]) <= MaxLines
    /\ argv \in Seq(Names) /\ Len(argv) <= MaxArgs
    /\ done = 0
    /\ out = <<>>
    /\ pc = "run"
    /\ exitCode = None

Usage ==
    /\ pc = "run"
    /\ argv = <<>>
    /\ out' = <<[kind |-> "usage"]>>
    /\ pc' = "exit"
    /\ exitCode' = 1
    /\ UNCHANGED <<content, argv, done>>

\* One iteration of `for path in sorted(files)`, whole.
HandleFile ==
    /\ pc = "run"
    /\ argv # <<>>
    /\ done < Len(argv)
    /\ LET n   == Sorted(argv)[done + 1]
           evs == Decoded(content[n])
       IN  IF content[n] = Missing
             THEN /\ pc' = "crashed" /\ exitCode' = 1
                  /\ UNCHANGED <<done, out>>
           ELSE IF evs = <<>>
             THEN /\ out' = Append(out, [kind |-> "empty", path |-> n])
                  /\ done' = done + 1
                  /\ UNCHANGED <<pc, exitCode>>
           ELSE /\ out' = out \o Report(n, evs)
                /\ IF FirstRaise(evs) = 0
                     THEN done' = done + 1 /\ UNCHANGED <<pc, exitCode>>
                     ELSE pc' = "crashed" /\ exitCode' = 1 /\ UNCHANGED done
    /\ UNCHANGED <<content, argv>>

Finish ==
    /\ pc = "run"
    /\ argv # <<>>
    /\ done = Len(argv)
    /\ out' = Append(out, [kind |-> "done"])
    /\ pc' = "exit"
    /\ exitCode' = 0
    /\ UNCHANGED <<content, argv, done>>

Next == Usage \/ HandleFile \/ Finish

SafetySpec == Init /\ [][Next]_batchVars

Spec == SafetySpec /\ WF_batchVars(Next)

=============================================================================
