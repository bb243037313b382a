SPECIFICATION Spec
CONSTANTS
    r1 = r1  r2 = r2  r3 = r3
    i1 = i1  i2 = i2  i3 = i3  i4 = i4
    Requests = {r1, r2, r3}
    Ids = {i1, i2}
    None = None
    Values <- MCValues
    WithSuffix <- MCWithSuffix
    Bodies <- BatchBodies
    Seeds <- TwoSeeds
    Faults = {"statement", "commit"}
SYMMETRY RequestSymmetry
INVARIANTS CallsAreAtomic
