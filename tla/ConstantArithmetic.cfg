SPECIFICATION Spec
CONSTANTS
    Width = 4
    Sizes = {2, 4}
    AddressSize = 2
    DefaultSize = 2
    Literals <- MCLiterals
    EnumTypes <- MCEnumTypes
    PointerTypes <- MCPointerTypes
INVARIANTS
    TypeOK
    FoldingAgrees
    TrapsAgree
    CoercionKeepsValue
    AcceptanceAgrees
PROPERTIES
    VariantsCount
    LoopsAdvance
CHECK_DEADLOCK FALSE
