\* Five changes, a queue of two events, one waiting hint, three failures anywhere.  A
\* balance that is up to date waits for a change that the bound does not allow.
SPECIFICATION FairSpec
CONSTANTS
    QueueSize = 2
    HintSize = 1
    MaxChanges = 5
    MaxFailures = 3
CHECK_DEADLOCK FALSE
INVARIANTS
    NoWakeupIsLost
PROPERTIES
    EveryChangeIsNoticed
