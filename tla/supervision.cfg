SPECIFICATION FairSSpec
CONSTANTS
    m1 = m1  m2 = m2
    Incoming <- MCIncoming
    Attempts <- MCAttempts
    Unparsable = {m2}
    NoMessage = NoMessage
    Faults = {"handler", "connection", "publish", "crash", "signal"}
    MaxMishaps = 1
    MaxFailures = 1
    RESTART_MAX_NUM = 2
    SupervisorFaults = {"parent", "group"}
INVARIANTS STypeOK RestartsHaveCauses NothingLeftBehind
PROPERTIES ShutdownEnds EveryMessageIsSettled StopsWhenTold
