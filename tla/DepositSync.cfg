CONSTANTS
    MaxHead = 3
    FollowDistance = 2
    U64Mod = 8
SPECIFICATION Spec
INVARIANT
    TypeOK
PROPERTIES
    EveryExistingBlockStored
CHECK_DEADLOCK FALSE
