SPECIFICATION Spec
CONSTANTS
    m1 = m1  m2 = m2  m3 = m3
    Incoming <- MCIncoming
    Attempts <- MCAttempts
    Unparsable = {m3}
    NoMessage = NoMessage
    Faults = {"handler", "connection", "publish", "crash", "signal"}
    MaxMishaps = 2
    MaxFailures = 1
INVARIANTS TypeOK NoMessageIsLost RepetitionsAreBounded AttemptsAreBounded GivenUpAfterAllAttempts
PROPERTIES DeliversAtLeastOnce
