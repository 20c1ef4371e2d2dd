SPECIFICATION Spec
CONSTANTS
    Files = {f1, f2}
    Readers = {r1}
    Admins = {a1, a2}
    Setups <- ShadowOrDirect
    CrashPoints = {}
    Failures = {}
    MaxCalls <- CallsSnapshot
SYMMETRY Symmetry
INVARIANT SnapshotRead
INVARIANT FreshRead
CHECK_DEADLOCK FALSE
