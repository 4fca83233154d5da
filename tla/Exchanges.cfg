SPECIFICATION Spec
CONSTANTS
    t1 = t1
    t2 = t2
    k1 = k1
    k2 = k2
    p1 = p1
    p2 = p2
    i1 = i1
    i2 = i2
    q1 = q1
    o1 = o1
    o2 = o2
    w1 = w1
    w2 = w2
    l1 = l1
    None = None
INVARIANTS
    TypeOK
    OnceAndInOrder
    OutcomeIsTrue
    RecordsAgree
PROPERTIES
    NothingIsReopened
CHECK_DEADLOCK FALSE
