SPECIFICATION Spec
CONSTANTS
    Files = {f1, f2}
    Readers = {r1}
    Admins = {a1}
    Setups <- ShadowOnly
    CrashPoints <- Recoverable
    Failures = {}
    MaxCalls <- CallsSeqno
INVARIANT FreshRead
CHECK_DEADLOCK FALSE
