\* Two chats, three rows, days of two hours, one cut call or crash.
SPECIFICATION Spec
CONSTANTS
    c1 = c1  c2 = c2
    Chats = {c1, c2}
    HoursPerDay = 2
    Latencies = {999, 10000}
    Windows = {1, 2}
    Retention = 1
    MaxRows = 3
    MaxTime = 3
    MaxFailures = 1
SYMMETRY Symmetry
INVARIANTS
    TypeOK
    PreviewMatchesLog
    CountsEveryRow
    PanelsAgree
CHECK_DEADLOCK FALSE
