SPECIFICATION Spec
CONSTANTS
    a1 = a1
    a2 = a2
    n1 = n1
    n2 = n2
    b1 = b1
    b2 = b2
    h1 = h1
    h2 = h2
    t1 = t1
    None = None
    Operator = operator
    Agent = {a1}
    Name = {n1}
    Boot = {}
    SingleUse = {}
    Handler = {h1, h2}
    Tool = {t1}
    AgentExpiry = {None, 0}
    BootExpiry = {None}
    MaxSecret = 3
    MaxTime = 1
    MaxFault = 1
SYMMETRY Symmetry
INVARIANTS AgentInv NobodyLockedOut AdmittedWasEntitled
PROPERTIES ImplementsEnrolment
