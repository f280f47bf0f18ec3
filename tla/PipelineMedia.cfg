\* A media event, debounced; ages, retention and failing database calls, and a
\* queue that never overflows.
SPECIFICATION FairSpec
CONSTANTS
    c1 = c1  c2 = c2
    e1 = e1  e2 = e2  e3 = e3
    s1 = s1  s2 = s2
    NoEvent = NoEvent
    Chats = {c1}
    Events = {e1}
    EventChat <- ChatOfAll
    MediaEvents = {e1}
    Outcomes <- AllOutcomes
    Shards = {s1}
    ShardOf <- ShardOfOne
    QueueMax = 4
    MaxAttempts = 1
    MaxIntake = 1
    MaxRows = 1
    MaxAge = 2
    MaxRestarts = 1
    DbFaults = TRUE
INVARIANTS
    AttemptsBounded
    ExitedShardIsEmpty
PROPERTIES
    EventuallyFlushed
\* An idle server with nothing left to deliver may stop.
CHECK_DEADLOCK FALSE
