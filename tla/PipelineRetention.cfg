\* One event, redelivered after retention has deleted its row; one restart,
\* failing database calls, a queue of one.
SPECIFICATION Spec
CONSTANTS
    c1 = c1  c2 = c2
    e1 = e1  e2 = e2  e3 = e3
    s1 = s1  s2 = s2
    NoEvent = NoEvent
    Chats = {c1}
    Events = {e1}
    EventChat <- ChatOfAll
    MediaEvents = {}
    Outcomes <- AllOutcomes
    Shards = {s1}
    ShardOf <- ShardOfOne
    QueueMax = 1
    MaxAttempts = 2
    MaxIntake = 2
    MaxRows = 2
    MaxAge = 2
    MaxRestarts = 1
    DbFaults = TRUE
INVARIANTS
    AnsweredOnce
\* An idle server with nothing left to deliver may stop.
CHECK_DEADLOCK FALSE
