---------------------------- MODULE MCMetaModel ----------------------------
(* The generated L2API with its handler stubs, a chip model deriving from *)
(* it that implements them under the same names, and a model deriving     *)
(* from that one that overrides ts_l2_handshake.                          *)
EXTENDS MetaModel

CONSTANTS L2API, Tropic01Model, DebugModel, GET_INFO, HANDSHAKE,
          ts_l2_get_info, ts_l2_handshake, handler

MCClasses == {L2API, Tropic01Model, DebugModel}
MCParent == [c \in MCClasses |-> IF c = L2API THEN Root
                                 ELSE IF c = Tropic01Model THEN L2API
                                 ELSE Tropic01Model]
MCTypes == {GET_INFO, HANDSHAKE}
MCNames == {ts_l2_get_info, ts_l2_handshake}
MCNameTypes == [n \in MCNames |-> IF n = ts_l2_get_info THEN {GET_INFO} ELSE {HANDSHAKE}]
MCDefines == [c \in MCClasses \cup {Root} |->
                IF c = Root THEN {}
                ELSE IF c = DebugModel THEN {ts_l2_handshake}
                ELSE {ts_l2_get_info, ts_l2_handshake}]

(* L2API with its stub ts_l2_handshake, and one chip model that adds the   *)
(* Handshake handler under a name of its own, as the L2API docstring's     *)
(* "def handler(self, request: <in type>)" shows.  The chip model declares *)
(* its own @base("l2_api"), so it does not share L2API's dispatcher.       *)
MCClasses2 == {L2API, Tropic01Model}
MCParent2 == [c \in MCClasses2 |-> IF c = L2API THEN Root ELSE L2API]
MCNames2 == {ts_l2_handshake, handler}
MCNameTypes2 == [n \in MCNames2 |-> {HANDSHAKE}]
MCDefines2 == [c \in MCClasses2 \cup {Root} |->
                 IF c = Root THEN {}
                 ELSE IF c = L2API THEN {ts_l2_handshake}
                 ELSE {handler}]MCOwnBase2 == {Tropic01Model}
=============================================================================
