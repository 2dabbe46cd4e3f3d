\* Two paths, some missing, empty or with a bad line.
CONSTANTS
    Names = {1, 2}
    MaxArgs = 2
    MaxLines = 1
    LineChoices <- StressLines
    Missing = Missing
    Blank = Blank
    Garbage = Garbage
    Scalar = Scalar
    None = None
SPECIFICATION Spec
INVARIANT BatchContract
\* The program exits, normally or with a traceback.
CHECK_DEADLOCK FALSE
