\* Two threads, three files of 4 bytes in all against caps of 2 files and 2 bytes.
SPECIFICATION FairSpec
CONSTANTS
    c1 = c1  c2 = c2
    m1 = m1  m2 = m2  m3 = m3
    t1 = t1  t2 = t2
    NoThread = NoThread
    NoMessage = NoMessage
    Threads = {t1, t2}
    Chats = {c1, c2}
    Messages = {m1, m2, m3}
    ChatOf <- ChatOfThree
    Size <- SizeOfThree
    MaxCount = 2
    MaxBytes = 2
    MaxSaves = 3
    MaxClears = 1
    MaxErrors = 1
    MaxRestarts = 1
INVARIANTS
    TypeOK
    CapsHold
    DoomsOnlyOverflow
    OrphansExplained
    MissingOnlyIfResaved
PROPERTIES
    EventuallyUnlinked
CHECK_DEADLOCK FALSE
