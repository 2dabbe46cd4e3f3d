\* Every results.json tree of up to six suites, specs and tests, tests with
\* each status count_specs tests for, another one and none.
CONSTANTS
    Statuses = {"passed", "failed", "skipped", "timedOut"}
    NoStatus = NoStatus
    MaxNodes = 6
    None = None
    Blank = Blank
    Garbage = Garbage
    Scalar = Scalar
SPECIFICATION Spec
INVARIANT SummaryCountsEveryTest
\* The tree stops growing at MaxNodes: a bound of the check, not a state of
\* the program.
CHECK_DEADLOCK FALSE
