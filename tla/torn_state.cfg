SPECIFICATION Spec
CONSTANTS
    Files = {f1}
    Readers = {r1}
    Admins = {a1}
    Setups <- ShadowOnly
    CrashPoints = {}
    Failures = {}
    MaxCalls <- CallsTorn
INVARIANT SwitchedToNew
CHECK_DEADLOCK FALSE
