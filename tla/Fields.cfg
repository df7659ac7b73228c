\* Three objects, and one address more.
CONSTANTS
    FieldObjects = {o1, o2, o3}
    Addresses = {a1, a2, a3, a4}
    Texts <- SmallTexts
    NoNumber = NoNumber
    NoField = NoField
    MaxInt = 2
    MaxLong = 4
    MaxDouble = 800
    MinDouble = 2
SYMMETRY Symmetry
SPECIFICATION FieldSpec
INVARIANT OwnString
INVARIANT NoneLost
INVARIANT WrittenAsLoaded
CHECK_DEADLOCK FALSE
