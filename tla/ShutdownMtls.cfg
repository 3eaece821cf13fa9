SPECIFICATION Spec
CONSTANTS
    agent = agent
    uds = uds
    https = https
    r1 = r1
    r2 = r2
    None = None
    Main = main
    Sweeper = sweeper
    Listener = {agent}
    MayFail = {}
    Request = {r1}
    Style <- MtlsStyle
    DrainWindow = 2
    HttpsDrain = 1
INVARIANTS EarlyExitIsClean
