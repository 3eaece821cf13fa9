SPECIFICATION Spec
CONSTANTS
    None = None
    Req = {r1, r2}
    Ext = {e1, e2}
    Conc = 1
    TTL = 1
    MaxTime = 1
    MaxFault = 1
INVARIANTS DiscoveryInv
PROPERTIES CatalogIsSound EveryoneIsAnswered SessionsAreClosed
