CONSTANTS
    L2API = L2API
    Tropic01Model = Tropic01Model
    Root = Root
    Default = Default
    Classes <- MCClasses
    Parent <- MCParent
    Types <- L2Kinds
    Names <- MCNames
    NameTypes <- MCNameTypes
    Defines <- MCDefines
    OwnBase = {}
    StubClasses = {L2API}

SPECIFICATION DSpec

INVARIANT
    NoErrorEscapes

CHECK_DEADLOCK FALSE
