\* A read completes just before the session is destroyed.
SPECIFICATION Spec
CONSTANTS
    MaxWrites = 0
    MayMissCancel = {}
PROPERTY NoReadAfterDestruction
CHECK_DEADLOCK FALSE
