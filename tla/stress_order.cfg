\* Up to two paths (repeats allowed) of two files of up to two lines each.
CONSTANTS
    Names = {1, 2}
    MaxArgs = 2
    MaxLines = 2
    LineChoices <- StressLines
    Missing = Missing
    Blank = Blank
    Garbage = Garbage
    Scalar = Scalar
    None = None
SPECIFICATION Spec
INVARIANT TypeOK
PROPERTY RefinesStressBatch
\* The program exits, normally or with a traceback.
CHECK_DEADLOCK FALSE
