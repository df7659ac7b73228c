SPECIFICATION Spec
CONSTANTS
    Objects = {o1, o2}
    user_phone = user_phone
    user_name = user_name
    FieldDefine <- PhoneAndName
    NotNull = {user_name}
    Values = {empty, mumu}
    Empty = empty
    Null = Null
    MaxRows = 2
    MaxCalls = 4
SYMMETRY Symmetry
INVARIANT NoForeignValue
PROPERTY ModifiesOnlyFlagged
CHECK_DEADLOCK FALSE
