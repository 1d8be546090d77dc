\* One table with a key and one more column; the process dies at any step of a
\* save, between the two renames too.
SPECIFICATION Spec
CONSTANTS
    Names = {n1, n2}
    ColNames = {c1, c2}
    Requests = {t1}
    Values = {v1}
    Null = null
    NullText = nulltext
    EmptyText = emptytext
    None = none
    Torn = torn
    MaxTables = 1
    MaxCols = 2
    MaxRows = 2
    MaxId = 2
    UniqueCols = {2}
    Faults = {"move", "publish"}
    MaxFailures = 1
INVARIANTS
    Consistent
    
PROPERTIES
    ImplementsStore
    UniqueKept
    ReadByKey
CONSTRAINT Explored
SYMMETRY DataSymmetry
VIEW StateView
