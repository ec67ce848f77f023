CONSTANTS
    L2API = L2API
    Tropic01Model = Tropic01Model
    DebugModel = DebugModel
    GET_INFO = GET_INFO
    HANDSHAKE = HANDSHAKE
    ts_l2_get_info = ts_l2_get_info
    ts_l2_handshake = ts_l2_handshake
    handler = handler
    Root = Root
    Default = Default
    Classes <- MCClasses
    Parent <- MCParent
    Types <- MCTypes
    Names <- MCNames
    NameTypes <- MCNameTypes
    Defines <- MCDefines
    OwnBase = {}

SPECIFICATION Spec

INVARIANT
    DispatchFollowsMro
CHECK_DEADLOCK FALSE
