---------------------------- MODULE MCL2Dispatch ----------------------------
(* The generated L2API and a chip model deriving from it that implements  *)
(* the five requests TropicModel models, under the stubs' names.  The     *)
(* other five requests of the table keep L2API's stub.                    *)
EXTENDS L2Dispatch

CONSTANTS L2API, Tropic01Model

MCClasses == {L2API, Tropic01Model}
MCParent == [c \in MCClasses |-> IF c = L2API THEN Root ELSE L2API]
\* One @api method per request, named after it (ts_l2_get_info, ...).
MCNames == L2Kinds
MCNameTypes == [n \in MCNames |-> {n}]
MCImplemented == {"GET_INFO", "HANDSHAKE", "ENCRYPTED_CMD",
                  "ENCRYPTED_SESSION_ABT", "RESEND"}
MCDefines == [c \in MCClasses \cup {Root} |->
                IF c = Root THEN {}
                ELSE IF c = L2API THEN L2Kinds
                ELSE MCImplemented]
=============================================================================
