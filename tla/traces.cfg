SPECIFICATION Spec
CONSTANTS
    Requests = {r1, r2, r3}
    Bodies <- MCBodies
    NoTrace = NoTrace
SYMMETRY RequestSymmetry
CONSTRAINT OneLong
INVARIANTS TypeOK TracesAreTakenOnce TracesComeFromOverlappingCalls UndisturbedCallsAreTraced
