\* One file of up to four lines of every kind, null fields included.
CONSTANTS
    Names = {1}
    MaxArgs = 1
    MaxLines = 4
    LineChoices <- SectionLines
    Missing = Missing
    Blank = Blank
    Garbage = Garbage
    Scalar = Scalar
    None = None
SPECIFICATION Spec
PROPERTY RefinesStressBatch
\* The program exits, normally or with a traceback.
CHECK_DEADLOCK FALSE
