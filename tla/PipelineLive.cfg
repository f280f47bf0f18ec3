\* Two events of one chat, a queue of one, one restart, under fairness.
SPECIFICATION FairSpec
CONSTANTS
    c1 = c1  c2 = c2
    e1 = e1  e2 = e2  e3 = e3
    s1 = s1  s2 = s2
    NoEvent = NoEvent
    Chats = {c1}
    Events = {e1, e2}
    EventChat <- ChatOfAll
    MediaEvents = {}
    Outcomes = {"silent", "fails"}
    Shards = {s1}
    ShardOf <- ShardOfOne
    QueueMax = 1
    MaxAttempts = 2
    MaxIntake = 2
    MaxRows = 2
    MaxAge = 0
    MaxRestarts = 1
    DbFaults = TRUE
PROPERTIES
    EventuallyStarted
    EventuallyFinished
\* An idle server with nothing left to deliver may stop.
CHECK_DEADLOCK FALSE
