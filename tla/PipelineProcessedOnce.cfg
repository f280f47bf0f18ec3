\* One event, no crash: the sweep race.
SPECIFICATION Spec
CONSTANTS
    c1 = c1  c2 = c2
    e1 = e1  e2 = e2  e3 = e3
    s1 = s1  s2 = s2
    NoEvent = NoEvent
    Chats = {c1}
    Events = {e1}
    EventChat <- ChatOfAll
    MediaEvents = {}
    Outcomes = {"answers"}
    Shards = {s1}
    ShardOf <- ShardOfOne
    QueueMax = 2
    MaxAttempts = 2
    MaxIntake = 1
    MaxRows = 1
    MaxAge = 0
    MaxRestarts = 0
    DbFaults = FALSE
INVARIANTS
    ProcessedOnce
\* An idle server with nothing left to deliver may stop.
CHECK_DEADLOCK FALSE
