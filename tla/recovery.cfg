SPECIFICATION Spec
CONSTANTS
    Files = {f1, f2}
    Readers = {r1}
    Admins = {a1}
    Setups <- ShadowOnly
    CrashPoints <- Recoverable
    Failures = {}
    MaxCalls <- CallsRecovery
SYMMETRY Symmetry
INVARIANT LiveConsistent
INVARIANT FinishedUpdatesKept
PROPERTY UpdatesAreSafe
CHECK_DEADLOCK FALSE
