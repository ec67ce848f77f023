CONSTANTS
    L2API = L2API
    Tropic01Model = Tropic01Model
    DebugModel = DebugModel
    GET_INFO = GET_INFO
    HANDSHAKE = HANDSHAKE
    ts_l2_get_info = ts_l2_get_info
    ts_l2_handshake = ts_l2_handshake
    handler = handler
    Root = Root
    Default = Default
    Classes <- MCClasses2
    Parent <- MCParent2
    Types <- MCTypes
    Names <- MCNames2
    NameTypes <- MCNameTypes2
    Defines <- MCDefines2
    OwnBase <- MCOwnBase2

SPECIFICATION Spec

INVARIANT
    DispatchFollowsMro
CHECK_DEADLOCK FALSE
