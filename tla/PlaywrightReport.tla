-------------------------- MODULE PlaywrightReport --------------------------
(***************************************************************************)
(* scripts/e2e/launcher.py, generate_report(): reads the Playwright JSON   *)
(* report reports/results.json and walks its tree of suites with the       *)
(* nested function count_specs, which adds every test of every spec of a   *)
(* suite to four nonlocal counters and recurses into the child suites.     *)
(* The summary is those four counters, plus the HTML report hint when     *)
(* failed > 0.  The JSON tree uses the JsonEvents encoding: an object is a *)
(* function from the keys present to their values, a list a sequence.     *)
(***************************************************************************)
EXTENDS Integers, Sequences, SequencesExt, JsonEvents

\* The nonlocal counters total_tests, passed, failed, skipped.
Zero == [total |-> 0, passed |-> 0, failed |-> 0, skipped |-> 0]

Plus(a, b) == [c \in DOMAIN Zero |-> a[c] + b[c]]

\* One iteration of the inner loop: total_tests += 1, then the
\* if/elif chain on test.get("status").  Any other status counts only in
\* the total.
CountTest(test) ==
    LET status == Get(test, "status", None)
    IN  [total   |-> 1,
         passed  |-> IF status = "passed" THEN 1 ELSE 0,
         failed  |-> IF status = "failed" THEN 1 ELSE 0,
         skipped |-> IF status = "skipped" THEN 1 ELSE 0]

\* for spec in suite.get("specs", []): for test in spec.get("tests", []):
SpecsTally(suite) ==
    FoldLeft(LAMBDA acc, spec :
                 FoldLeft(LAMBDA a, test : Plus(a, CountTest(test)),
                          acc, Get(spec, "tests", <<>>)),
             Zero, Get(suite, "specs", <<>>))

\* Mutant: count_specs does not recurse into child suites.
CountSpecsNoChildren(suite) == SpecsTally(suite)

RECURSIVE CountSpecs(_), CountSuites(_)

\* count_specs(suite): its own specs' tests, then every child suite.
CountSpecs(suite) == Plus(SpecsTally(suite), CountSuites(Get(suite, "suites", <<>>)))

\* for child in suites: count_specs(child), as a recursion over the list.
CountSuites(ss) ==
    IF ss = <<>> THEN Zero ELSE Plus(CountSpecs(Head(ss)), CountSuites(Tail(ss)))

(***************************************************************************)
(* generate_report() once results.json has been loaded (json.load raising *)
(* on a malformed file is a step of the Launcher module): without the file *)
(* it only warns; otherwise it counts the top-level suites and prints the *)
(* summary, with the HTML report hint when some test failed.              *)
(***************************************************************************)
GenerateReport(exists, results) ==
    IF ~exists
      THEN [kind |-> "no_results"]
      ELSE LET t == CountSuites(Get(results, "suites", <<>>))
           IN  [kind |-> "summary", counts |-> t, html_hint |-> t.failed > 0]

=============================================================================
