SPECIFICATION LiveSpec
CONSTANTS
    agent = agent
    uds = uds
    https = https
    r1 = r1
    r2 = r2
    None = None
    Main = main
    Sweeper = sweeper
    Listener = {uds, https}
    MayFail = {https}
    Request = {r1}
    Style <- BearerStyle
    DrainWindow = 2
    HttpsDrain = 1
INVARIANTS ExitInv EarlyExitIsClean
PROPERTIES ShutdownCompletes
