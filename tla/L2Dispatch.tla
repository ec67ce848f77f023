----------------------------- MODULE L2Dispatch -----------------------------
(***************************************************************************)
(* BaseModel._process_input (src/tvl/targets/model/base_model.py) on the  *)
(* handler registry MetaModel builds.  A frame is checked for its CRC,    *)
(* its identifier is looked up in the L2 request table of the generated   *)
(* L2API (src/tvl/api/l2_api.py), the request is parsed, and               *)
(* process_l2_request runs the function the dispatcher holds for its type. *)
(* Only L2ProcessingError is turned into a status; any other exception     *)
(* leaves process_input and reaches the SPI transport.                     *)
(*                                                                         *)
(* A handler is abstracted to what it ends with: a response, an            *)
(* L2ProcessingError, or, for the base method and the generated stubs,     *)
(* NotImplementedError.                                                    *)
(***************************************************************************)
EXTENDS MetaModel

CONSTANTS
    StubClasses   \* the classes whose @api bodies are the generated stubs

VARIABLE outcome  \* what the last process_input returned or raised

dvars == <<vars, outcome>>

\* L2Enum: the identifier byte of each L2 request.
L2Enum == [GET_INFO |-> 1, HANDSHAKE |-> 2, ENCRYPTED_CMD |-> 4,
           ENCRYPTED_SESSION_ABT |-> 8, RESEND |-> 16, SLEEP |-> 32,
           STARTUP |-> 179, MUTABLE_FW_UPDATE |-> 176,
           MUTABLE_FW_UPDATE_DATA |-> 177, GET_LOG |-> 162]

L2Kinds == DOMAIN L2Enum

\* The request class L2Request.instantiate_subclass finds for an identifier.
KindOf(id) == CHOOSE k \in L2Kinds : L2Enum[k] = id

Response(status) == [kind |-> "response", status |-> status]
Raised(exc) == [kind |-> "raise", status |-> exc]

\* What the handler the dispatcher of an instance of c holds for kind k ends
\* with, when it is a chip model's own handler: `ok` or an L2ProcessingError.
HandlerOutcomes == {"REQ_OK", "L2ProcessingError"}

\* self.process_l2_request(request) on an instance of c: the base method
\* raises "not supported", a generated stub raises "TODO".
ProcessL2Request(c, k, h) ==
    LET f == DispatchL2(c, k) IN
    IF f = Default \/ f \in StubClasses THEN Raised("NotImplementedError")
    ELSE IF h = "L2ProcessingError" THEN Response("GEN_ERR")
    ELSE Response("REQ_OK")

\* _process_input(data) for a frame with a valid CRC or not, an identifier
\* byte, and a payload that parses as its request class or not.
ProcessInputResult(c, crcOk, id, parses, h) ==
    IF ~crcOk THEN Response("CRC_ERR")
    ELSE IF id \notin {L2Enum[k] : k \in L2Kinds} THEN Response("UNKNOWN_REQ")
    ELSE IF ~parses THEN Response("CRC_ERR")
    ELSE ProcessL2Request(c, KindOf(id), h)

DInit == Init /\ outcome = Response("NONE")

\* A step of MetaModel.__new__ creating a class.
DCreateClass == Next /\ UNCHANGED outcome

\* process_input(data) on an instance of a created chip model: BaseModel and
\* the generated L2API are only the bases a model class derives from.
ProcessInput ==
    \E c \in created \ ({Root} \cup StubClasses), crcOk \in BOOLEAN, id \in 0 .. 255, parses \in BOOLEAN,
       h \in HandlerOutcomes :
        /\ building = {}
        /\ outcome' = ProcessInputResult(c, crcOk, id, parses, h)
        /\ UNCHANGED vars

DNext == DCreateClass \/ ProcessInput

DSpec == DInit /\ [][DNext]_dvars

-----------------------------------------------------------------------------

\* The dispatcher boundary of process_input (spec, error taxonomy): every
\* handler-local error is caught and turned into a response, none reaches
\* the transport.
NoErrorEscapes == outcome.kind = "response"

=============================================================================
