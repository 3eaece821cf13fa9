SPECIFICATION Spec
CONSTANTS
    a1 = a1
    a2 = a2
    n1 = n1
    n2 = n2
    b1 = b1
    b2 = b2
    h1 = h1
    h2 = h2
    t1 = t1
    None = None
    Operator = operator
    Agent = {a1, a2}
    Name = {n1, n2}
    Boot = {b1}
    SingleUse = {b1}
    Handler = {h1, h2}
    Tool = {}
    AgentExpiry = {None}
    BootExpiry = {0}
    MaxSecret = 2
    MaxTime = 1
    MaxFault = 1
SYMMETRY Symmetry
INVARIANTS SingleUseEnrolsOnce EnrolmentIsWhole EnrolledInGoodFaith ReuseIsReported
