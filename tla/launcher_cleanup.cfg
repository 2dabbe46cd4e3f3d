\* Every command line, every failure of a step, and up to three signals.
CONSTANTS
    MaxSignals = 3
    None = None
SPECIFICATION Spec
INVARIANT TypeOK
INVARIANT RegisteredStopped
INVARIANT ExitZeroOnlyIfTestsPassed
\* The launcher process exits.
CHECK_DEADLOCK FALSE
