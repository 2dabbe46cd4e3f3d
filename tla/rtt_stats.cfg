\* Samples of up to 21 RTTs over two values, with at most one descent.
CONSTANTS
    RttValues = {0, 1}
    MaxSamples = 21
    MaxDescents = 1
SPECIFICATION Spec
INVARIANT StatsMatchRanks
\* The sample stops growing at MaxSamples.
CHECK_DEADLOCK FALSE
