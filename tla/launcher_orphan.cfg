\* One signal at any point of any run.
CONSTANTS
    MaxSignals = 1
    None = None
SPECIFICATION Spec
INVARIANT NoOrphan
\* The launcher process exits.
CHECK_DEADLOCK FALSE
