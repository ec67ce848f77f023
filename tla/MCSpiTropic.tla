---------------------------- MODULE MCSpiTropic ----------------------------
(* SpiTropic on a one-slot chip with one-bit UAP fields, one handshake and *)
(* one command per session, two-byte frames streamed in two chunks, a     *)
(* schedule that answers busy once in two cycles, and two host faults.    *)
(* The host sends a pairing key write and an I_Config_Write of the first  *)
(* session, and a replay of a command the session has not reached.        *)
EXTENDS SpiTropic

MCSchedule == <<TRUE, FALSE>>

MCHostCiphertexts ==
    {[epoch |-> 1, nonce |-> 0,
      cmd |-> [kind |-> "PAIRING_KEY_WRITE", slot |-> 0]],
     [epoch |-> 1, nonce |-> 0,
      cmd |-> [kind |-> "I_CONFIG_WRITE", reg |-> "CFG_UAP_PAIRING_KEY_WRITE",
               bit |-> 0]],
     [epoch |-> 1, nonce |-> 1,
      cmd |-> [kind |-> "PAIRING_KEY_WRITE", slot |-> 0]]}
=============================================================================
