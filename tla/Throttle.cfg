CONSTANTS
    Enabled = TRUE
    DEFAULT_BACKOFF = 2
    BLOCKED_BACKOFF = 4
    Offset = 1
    LimitStatuses <- Statuses
    ResetTimestamps <- Timestamps
    MaxTime = 8
SPECIFICATION Spec
CHECK_DEADLOCK FALSE
INVARIANTS
    TypeOK
    ExhaustedSuspends
    ForbiddenBlocks
