CONSTANTS
    MaxHead = 3
    FollowDistance = 2
    U64Mod = 8
SPECIFICATION Spec
INVARIANT
    EnqueuedAtMostOnce
CHECK_DEADLOCK FALSE
