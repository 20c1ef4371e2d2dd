SPECIFICATION Spec
CONSTANTS
    Files = {f1, f2}
    Readers = {}
    Admins = {a1, a2}
    Setups <- ShadowOnly
    CrashPoints = {}
    Failures = {}
    MaxCalls <- CallsLost
INVARIANT FinishedUpdatesKept
CHECK_DEADLOCK FALSE
