\* A text and a media event of one chat, every handler outcome, a queue that
\* overflows, one crash, drain or failed drain.
SPECIFICATION Spec
CONSTANTS
    c1 = c1  c2 = c2
    e1 = e1  e2 = e2  e3 = e3
    s1 = s1  s2 = s2
    NoEvent = NoEvent
    Chats = {c1}
    Events = {e1, e2}
    EventChat <- ChatOfAll
    MediaEvents = {e2}
    Outcomes <- AllOutcomes
    Shards = {s1}
    ShardOf <- ShardOfOne
    QueueMax = 1
    MaxAttempts = 2
    MaxIntake = 1
    MaxRows = 2
    MaxAge = 0
    MaxRestarts = 1
    DbFaults = FALSE
INVARIANTS
    OneCopyUnlessRaced
    NeverStranded
    AnsweredOnce
PROPERTIES
    ImplementsJobQueue
\* An idle server with nothing left to deliver may stop.
CHECK_DEADLOCK FALSE
