\* Two workers, four conversations, no stray 404.
SPECIFICATION Spec
CONSTANTS
    w1 = w1  w2 = w2
    Workers = {w1, w2}
    MaxConvs = 4
    StrayNotFound = FALSE
INVARIANTS
    SeenIsStored
PROPERTIES
    ForkOnlyOnRetry
    ExistingIsKept
