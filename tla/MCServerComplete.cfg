CONSTANTS
    l1 = l1
    c1 = c1
    c2 = c2
    Listeners = {l1}
    Conns = {c1}
    MaxReplies <- MCMaxReplies
SPECIFICATION Spec
CHECK_DEADLOCK FALSE
INVARIANTS
    ShutdownCompleteClosesAll
