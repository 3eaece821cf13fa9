SPECIFICATION Spec
CONSTANTS
    None = None
    Entry <- MCEntry
    Override <- MCOverride
    Config <- MCConfig
    Body <- MCBody
    BodyLimit = 2
    CodexLimit = 1
    Response <- MCResponse
    MaxChunk = 2
    Refresher = {r1, r2}
    MaxFault = 1
INVARIANTS ProxyInv ForceReplaceIsHonoured CredentialIsAttributed OneOutcome CapIsExact
PROPERTY RequestReturns
CONSTRAINT Settled
