\* One spec with a test of each status.
CONSTANTS
    Statuses = {"passed", "failed", "skipped", "timedOut"}
    NoStatus = NoStatus
    MaxNodes = 3
    None = None
    Blank = Blank
    Garbage = Garbage
    Scalar = Scalar
SPECIFICATION Spec
INVARIANT FailuresFlagged
\* The tree stops growing at MaxNodes: a bound of the check, not a state of
\* the program.
CHECK_DEADLOCK FALSE
