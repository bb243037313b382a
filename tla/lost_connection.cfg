SPECIFICATION Spec
CONSTANTS
    m1 = m1  m2 = m2  m3 = m3
    Incoming <- TwoIncoming
    Attempts <- WithUnlimited
    Unparsable = {}
    NoMessage = NoMessage
    Faults = {"connection"}
    MaxMishaps = 1
    MaxFailures = 2
PROPERTIES RecoversFromConnectionErrors
