\* One file of up to two records, some missing a required or a measured
\* field.
CONSTANTS
    NumFiles = 1
    MaxLines = 2
    LineChoices <- GapLines
    Missing = Missing
    Blank = Blank
    Garbage = Garbage
    Scalar = Scalar
    None = None
SPECIFICATION Spec
INVARIANT ResultsReported
\* The program exits after the last file.
CHECK_DEADLOCK FALSE
