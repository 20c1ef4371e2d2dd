SPECIFICATION FairSpec
CONSTANTS
    Files = {f1}
    Readers = {a1}
    Admins = {a1, a2}
    Setups <- ShadowAndDirect
    CrashPoints <- Anywhere
    Failures = {"open", "commit"}
    MaxCalls <- CallsOwners
INVARIANT TypeOK
INVARIANT OneOwner
INVARIANT DirtyWhileUpdating
INVARIANT LocksReleased
PROPERTY CallsReturn
CHECK_DEADLOCK FALSE
