SPECIFICATION Spec
CONSTANTS
    tavily = tavily
    v1 = v1
    v2 = v2
    h1 = h1
    h2 = h2
    None = None
    Authless = authless
    Name = {tavily}
    Var = {v1, v2}
    SetVar = {v1}
    Sealed = {}
    Handler = {h1, h2}
    Kind = {"tool", "model"}
    MaxVersion = 3
    Seed <- MCSeed
    ConfigTools <- MCConfigTools
    MaxFault = 0

INVARIANTS WritesAreVisible
