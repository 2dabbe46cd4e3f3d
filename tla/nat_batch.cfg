\* Up to two files of up to two lines of every shape, or missing, or no
\* path at all.
CONSTANTS
    NumFiles = 2
    MaxLines = 2
    LineChoices <- BatchLines
    Missing = Missing
    Blank = Blank
    Garbage = Garbage
    Scalar = Scalar
    None = None
SPECIFICATION Spec
INVARIANT TypeOK
INVARIANT RttStatsMatchRanks
INVARIANT SectionShowsMeasuredMetrics
 
PROPERTY RefinesBatch
\* The program exits after the last file.
CHECK_DEADLOCK FALSE
