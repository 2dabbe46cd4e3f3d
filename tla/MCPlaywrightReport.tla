------------------------- MODULE MCPlaywrightReport -------------------------
(***************************************************************************)
(* Checks generate_report's count over every results.json tree of at most *)
(* MaxNodes suites, specs and tests.  The tree is grown one node at a time *)
(* in a flat form (each node names its parent, 0 being the report's root), *)
(* converted to the nested JSON the launcher reads, and the summary is     *)
(* compared with a count over the flat nodes, which needs no recursion.   *)
(***************************************************************************)
EXTENDS Integers, Sequences, SequencesExt, FiniteSets, PlaywrightReport

CONSTANTS
    Statuses,   \* values of a test's "status" field
    NoStatus,   \* a test object without a "status" key
    MaxNodes    \* bound on the number of suites, specs and tests

VARIABLES
    exists,     \* results.json is present
    nodes       \* the tree: <<[kind, parent, status]>>, parents before children

vars == <<exists, nodes>>

Kinds == {"suite", "spec", "test"}

\* Allowed parent kind for each node kind: suites nest, specs sit in suites,
\* tests in specs.
ParentKind == [suite |-> "suite", spec |-> "suite", test |-> "spec"]

ParentOk(k, p) ==
    IF p = 0 THEN k = "suite" ELSE nodes[p].kind = ParentKind[k]

ChildIdx(n, k) ==
    SelectSeq([i \in 1..Len(nodes) |-> i],
              LAMBDA i : nodes[i].parent = n /\ nodes[i].kind = k)

\* The nested JSON; a key is left out when its list would be empty, so the
\* .get defaults are exercised.
JsonTest(i) ==
    IF nodes[i].status = NoStatus THEN [k \in {} |-> None]
                                  ELSE [status |-> nodes[i].status]

JsonSpec(i) ==
    LET ts == ChildIdx(i, "test")
    IN  Opt(ts # <<>>, [tests |-> [j \in DOMAIN ts |-> JsonTest(ts[j])]])

RECURSIVE JsonSuite(_)
JsonSuite(i) ==
    LET sp == ChildIdx(i, "spec")
        su == ChildIdx(i, "suite")
    IN  Opt(sp # <<>>, [specs |-> [j \in DOMAIN sp |-> JsonSpec(sp[j])]])
          @@ Opt(su # <<>>, [suites |-> [j \in DOMAIN su |-> JsonSuite(su[j])]])

Results ==
    LET su == ChildIdx(0, "suite")
    IN  Opt(su # <<>>, [suites |-> [j \in DOMAIN su |-> JsonSuite(su[j])]])

Init ==
    /\ exists \in BOOLEAN
    /\ nodes = <<>>

AddNode ==
    /\ exists
    /\ Len(nodes) < MaxNodes
    /\ \E k \in Kinds, p \in 0..Len(nodes), s \in Statuses \cup {NoStatus} :
         /\ ParentOk(k, p)
         /\ k # "test" => s = NoStatus
         /\ nodes' = Append(nodes, [kind |-> k, parent |-> p, status |-> s])
    /\ UNCHANGED exists

Spec == Init /\ [][AddNode]_vars

-----------------------------------------------------------------------------

TestsWith(S) == {i \in 1..Len(nodes) : nodes[i].kind = "test" /\ nodes[i].status \in S}

AllTests == TestsWith(Statuses \cup {NoStatus})

(***************************************************************************)
(* The summary counts every test of the report exactly once, however deep *)
(* its suite is nested and whichever keys are missing, classifies it by   *)
(* its status, and shows the HTML report hint exactly when a test failed; *)
(* without results.json nothing is counted.  About count_specs' loops and *)
(* its recursion into child suites.                                        *)
(***************************************************************************)
SummaryCountsEveryTest ==
    LET r == GenerateReport(exists, Results)
    IN  IF ~exists THEN r.kind = "no_results"
        ELSE /\ r.counts = [total   |-> Cardinality(AllTests),
                            passed  |-> Cardinality(TestsWith({"passed"})),
                            failed  |-> Cardinality(TestsWith({"failed"})),
                            skipped |-> Cardinality(TestsWith({"skipped"}))]
             /\ r.html_hint = (TestsWith({"failed"}) # {})

(***************************************************************************)
(* The summary flags a failing run: the HTML report hint appears whenever *)
(* a test of the report did not pass and was not skipped.  Playwright      *)
(* records failures as "failed", "timedOut" or "interrupted" (and, in the *)
(* per-test field of its JSON reporter, "unexpected"); count_specs counts *)
(* only "failed".                                                          *)
(***************************************************************************)
FailuresFlagged ==
    LET r == GenerateReport(exists, Results)
    IN  exists => (r.html_hint = (TestsWith(Statuses \ {"passed", "skipped"}) # {}))

=============================================================================
