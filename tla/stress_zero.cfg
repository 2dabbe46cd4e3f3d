\* One ladder trial with or without RTT fields.
CONSTANTS
    Names = {1}
    MaxArgs = 1
    MaxLines = 1
    LineChoices <- NoRttLines
    Missing = Missing
    Blank = Blank
    Garbage = Garbage
    Scalar = Scalar
    None = None
SPECIFICATION Spec
INVARIANT NoZeroForMissingRtt
\* The program exits, normally or with a traceback.
CHECK_DEADLOCK FALSE
