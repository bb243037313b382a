SPECIFICATION FairSpec
CONSTANTS
    p1 = p1  p2 = p2  p3 = p3
    Processes <- MCProcesses
    HeadRevision = 3
    DataRevisions <- MCDataRevisions
    Nobody = Nobody
    Faults = {"statement", "crash"}
    MaxMishaps = 2
INVARIANTS TypeOK RevisionsAreAppliedOnce NobodyConflicts LockedReadsAreCurrent LockEndsWithItsProcess
PROPERTIES EveryProcessIsDone
