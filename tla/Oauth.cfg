SPECIFICATION LiveSpec
CONSTANTS
    codex = codex
    default = default
    p1 = p1
    o1 = o1
    None = None
    Name = {codex}
    Label = {default}
    Proxy = {p1}
    Operator = {o1}
    Refresher = refresher
    Shape = {"oauth", "disabled"}
    Lifetime = {0, 2}
    BgMargin = 1
    ProxyMargin = 0
    MaxTime = 1
    MaxToken = 2
    MaxFault = 1
INVARIANTS SafetyInv NoSpentTokenReplay OneExchangePerSession WritesOwnIncarnation
PROPERTIES RevokedIsNotServed ResolveReturns DueIsAttended ImplementsLifecycle
