\* Two chats on two shards, three events, queues that overflow.
SPECIFICATION Spec
CONSTANTS
    c1 = c1  c2 = c2
    e1 = e1  e2 = e2  e3 = e3
    s1 = s1  s2 = s2
    NoEvent = NoEvent
    Chats = {c1, c2}
    Events = {e1, e2, e3}
    EventChat <- ChatOfThree
    MediaEvents = {}
    Outcomes = {"answers"}
    Shards = {s1, s2}
    ShardOf <- ShardOfTwo
    QueueMax = 1
    MaxAttempts = 2
    MaxIntake = 2
    MaxRows = 3
    MaxAge = 0
    MaxRestarts = 0
    DbFaults = FALSE
INVARIANTS
    TypeOK
    OneWorkerPerChat
    FifoUnlessExcused
\* An idle server with nothing left to deliver may stop.
CHECK_DEADLOCK FALSE
