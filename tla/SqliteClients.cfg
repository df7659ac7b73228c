SPECIFICATION Spec
CONSTANTS
    Clients = {c1, c2}
    Names = {user_name, mumu}
    ColumnName = user_name
    Null = Null
    MaxKey = 2
    MaxInt = 1
    MaxCalls = 5
SYMMETRY Symmetry
INVARIANT LockedOnlyInUse
PROPERTY ChangesAsTold
PROPERTY QueryExact
PROPERTY ConnectedAsTold
CHECK_DEADLOCK FALSE
