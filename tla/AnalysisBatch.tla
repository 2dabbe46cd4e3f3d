--------------------------- MODULE AnalysisBatch ---------------------------
(***************************************************************************)
(* What the batch driver of analyze-results.py promises, with the file     *)
(* reading abstracted away: the files are taken in argument order, one at  *)
(* a time, and each one's outcome depends on that file alone -- [SKIP]     *)
(* when it does not exist, [ERROR] when analysis raises, otherwise the     *)
(* result of analysing exactly the lines that decode.  The run ends with   *)
(* status 1 when no file gave a result.  Otherwise the results are        *)
(* printed outside main()'s try: status 1 (a traceback) when print_single *)
(* raises on one of them, 0 when none does.                                *)
(***************************************************************************)
EXTENDS Integers, Sequences, SequencesExt, NatResult

CONSTANTS NumFiles, MaxLines, LineChoices, Missing

VARIABLES
    content,   \* the files, as in NatAnalysis
    outcomes,  \* outcomes[f]: [tag |-> "skip"], [tag |-> "error"] or the result
    exitCode   \* None while running, then 0 or 1

Files == DOMAIN content

Outcome(f) ==
    IF content[f] = Missing THEN Skip
    ELSE IF Raises(Decoded(content[f])) THEN Error
    ELSE Result(AnalyzeFile(f, Decoded(content[f])))

IsResult(o) == o.tag = "result"

Init ==
    /\ \E n \in 0..NumFiles :
           content \in [1..n -> {Missing} \cup BoundedSeq(LineChoices, MaxLines)]
    /\ outcomes = <<>>
    /\ exitCode = None

AnalyzeNext ==
    /\ Len(outcomes) < Len(content)
    /\ outcomes' = Append(outcomes, Outcome(Len(outcomes) + 1))
    /\ UNCHANGED <<content, exitCode>>

\* print_single(r) reaches a key r lacks or a None under a format spec.
PrintRaises(r) == \E j \in DOMAIN PrintSingle(r) : PrintSingle(r)[j].raising # {}

Finish ==
    /\ Len(outcomes) = Len(content)
    /\ exitCode = None
    /\ LET rs == {outcomes[f].result : f \in {f \in Files : IsResult(outcomes[f])}}
       IN  exitCode' = IF rs # {} /\ \A r \in rs : ~PrintRaises(r) THEN 0 ELSE 1
    /\ UNCHANGED <<content, outcomes>>

Next == AnalyzeNext \/ Finish

batchVars == <<content, outcomes, exitCode>>

SafetySpec == Init /\ [][Next]_batchVars

Spec == SafetySpec /\ WF_batchVars(Next)
=============================================================================
