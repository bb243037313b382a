SPECIFICATION Spec
CONSTANTS
    i1 = i1  i2 = i2  i3 = i3
    Ids = {i1, i2, i3}
    Rows <- MCRows
    Tables <- MCTables
    Searches <- TwoKeys
    MaxWrites = 0
    None = None
INVARIANTS SearchKeysMatch
