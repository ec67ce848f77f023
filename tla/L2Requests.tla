----------------------------- MODULE L2Requests -----------------------------
(***************************************************************************)
(* The L2 requests a host can frame for the chip, and what process_input  *)
(* does with a complete frame of each: the handler TropicModel models for *)
(* it.  Shared by the SPI transport (SpiTropic) and the abstract exchange *)
(* it implements (HostExchange).                                           *)
(***************************************************************************)
EXTENDS TropicModel

CONSTANT HostCiphertexts \* the encrypted commands the host may send

ASSUME HostCiphertextsAssumption == HostCiphertexts \subseteq Ciphertexts

(* The requests a host can frame: one per TropicModel handler, a Resend,   *)
(* and a frame process_input rejects before any handler runs.              *)

Requests ==
    {[kind |-> "GET_INFO"], [kind |-> "ENCRYPTED_SESSION_ABT"],
     [kind |-> "RESEND"]}
    \cup [kind : {"HANDSHAKE"}, slot : 0 .. NbSlots]
    \cup [kind : {"ENCRYPTED_CMD"}, ct : HostCiphertexts]
    \cup [kind : {"BAD_FRAME"}, fault : Faults]

ResendReq == [kind |-> "RESEND"]

ASSUME RequestsAssumption == None \notin Requests

\* process_input on a complete frame: the handler the frame selects.
Dispatch(r) ==
    CASE r.kind = "GET_INFO"              -> GetInfo
      [] r.kind = "HANDSHAKE"             -> Handshake(r.slot)
      [] r.kind = "ENCRYPTED_CMD"         -> EncryptedCmd(r.ct)
      [] r.kind = "ENCRYPTED_SESSION_ABT" -> EncryptedSessionAbt
      [] r.kind = "RESEND"                -> Resend
      [] r.kind = "BAD_FRAME"             -> RejectFrame(r.fault)

\* The model's own bounds on sessions and commands (MaxEpoch, MaxNonce):
\* the host only starts a request the bounded core can still serve.
InBounds(r) ==
    /\ r.kind = "HANDSHAKE" =>
           ~(r.slot \in Slots /\ pkeys[r.slot] = "SET") \/ epoch < MaxEpoch
    /\ r.kind = "ENCRYPTED_CMD" => ~DecryptCommand(r.ct) \/ nonce < MaxNonce

=============================================================================
