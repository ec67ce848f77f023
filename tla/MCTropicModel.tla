--------------------------- MODULE MCTropicModel ---------------------------
(* TropicModel on a small chip: two pairing key slots, two-bit UAP fields, *)
(* two handshakes and two commands per session.                            *)
EXTENDS TropicModel

MCNbSlots == 2
MCBitWidth == 2
MCMaxEpoch == 2
MCMaxNonce == 2
=============================================================================
