---------------------------- MODULE HostExchange ----------------------------
(***************************************************************************)
(* What the chip promises a host that talks to it one request at a time,  *)
(* whatever the transport in between does: the chip processes each       *)
(* logical request once, as one process_input step of TropicModel; a      *)
(* retransmission is a Resend that returns the stored result and changes  *)
(* nothing else; the host receives that result; a power-off drops the     *)
(* exchange.  SpiTropic implements this specification.                    *)
(***************************************************************************)
EXTENDS L2Requests

VARIABLES
    pending,    \* the host's logical request, or None
    result,     \* the response the chip produced for it, or None
    delivered   \* the response the host received, or None

hvars == <<vars, pending, result, delivered>>

HInit ==
    /\ Init
    /\ pending = None
    /\ result = None
    /\ delivered = None

\* The host starts a request; nothing has been produced for it yet.
Request(r) ==
    /\ pending = None
    /\ InBounds(r)
    /\ pending' = r
    /\ result' = None
    /\ UNCHANGED <<vars, delivered>>

\* The chip processes the request: one process_input of its frame.
Process ==
    /\ pending # None
    /\ result = None
    /\ Dispatch(pending)
    /\ result' = lastResp'
    /\ UNCHANGED <<pending, delivered>>

\* The host asks again for a response it lost: a Resend that returns the
\* result already produced, and executes nothing again.
Retransmit ==
    /\ result # None
    /\ delivered = None
    /\ Resend
    /\ lastResp' = result
    /\ UNCHANGED <<pending, result, delivered>>

\* The host receives the result.
Deliver ==
    /\ result # None
    /\ delivered = None
    /\ delivered' = result
    /\ UNCHANGED <<vars, pending, result>>

\* The host is done with the request.
Done ==
    /\ delivered # None
    /\ pending' = None
    /\ result' = None
    /\ delivered' = None
    /\ UNCHANGED vars

\* A power-off in the middle of an exchange.
Crash ==
    /\ PowerOff
    /\ pending' = None
    /\ result' = None
    /\ delivered' = None

HNext ==
    \/ \E r \in Requests : Request(r)
    \/ Process
    \/ Retransmit
    \/ Deliver
    \/ Done
    \/ Crash

HSpec == HInit /\ [][HNext]_hvars

=============================================================================
