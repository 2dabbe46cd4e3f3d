\* Any order of the server's boot and the launcher's steps, no signals.
CONSTANTS
    MaxSignals = 0
    None = None
SPECIFICATION Spec
PROPERTY TestsStartWithServerReady
\* The launcher process exits.
CHECK_DEADLOCK FALSE
