\* Two workers, three jobs, a quota of one push, one restart.
SPECIFICATION Spec
CONSTANTS
    c1 = c1  c2 = c2
    j1 = j1  j2 = j2  j3 = j3
    w1 = w1  w2 = w2
    NoJob = NoJob
    Workers = {w1, w2}
    Chats = {c1, c2}
    Jobs = {j1, j2, j3}
    JobChat <- ChatOfThree
    TokenJobs = {j1, j3}
    Batches = {"mixed"}
    Ttl = 1
    EventMaxAge = 1
    ConsumedMax = 1
    Cooldown = 1
    NotifyWindow = 1
    NotifiedMax = 1
    MaxAttempts = 2
    Quota = 1
    Timeouts = TRUE
    MaxStarts = 3
    MaxTime = 1
    MaxRestarts = 1
SYMMETRY Symmetry
INVARIANTS
    TypeOK
    TokenReusedOnlyAfterCap
    RecordMatchesUser
    ShownTwiceOnlyIfUnheard
    RefusalsBounded
    OneApologyPerWindow
CHECK_DEADLOCK FALSE
