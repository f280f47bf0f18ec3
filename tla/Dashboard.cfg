\* Two operators behind one address, one session kept, one chat, two names, two
\* requests that write.
SPECIFICATION Spec
CONSTANTS
    ip = ip  o1 = o1  o2 = o2  c1 = c1  a = a  quoted = quoted
    Ips = {ip}
    MaxAttempts = 2
    Lockout = 1
    EntryTtl = 1
    TokenTtl = 1
    Keep = 1
    MaxTime = 2
    MaxLogins = 2
    MaxErrors = 1
    Operators = {o1, o2}
    Address <- OneAddress
    Chats = {c1}
    Names = {a, quoted}
    Escaped = {quoted}
    MaxRequests = 2
SYMMETRY Symmetry
INVARIANTS
    TypeOK
    FailuresBounded
    SessionsHold
    TagsAreListed
CHECK_DEADLOCK FALSE
