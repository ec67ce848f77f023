---------------------------- MODULE TropicModel ----------------------------
(***************************************************************************)
(* The TROPIC01 functional model (class BaseModel of                        *)
(* src/tvl/targets/model/base_model.py) seen one L2 request at a time.      *)
(*                                                                          *)
(* The chip keeps                                                           *)
(*   - the secure channel session (TropicEncryptedSession) and the pairing  *)
(*     key slot it was opened with (BaseModel.pairing_key_slot, -1 if none);*)
(*   - the pairing key slots (I-memory, PairingKeys);                       *)
(*   - the irreversible and reversible configuration objects and the        *)
(*     effective configuration cached by the property BaseModel.config;     *)
(*   - the buffer holding the last response, replayed by a Resend request.  *)
(*                                                                          *)
(* Each action is one call of BaseModel.process_input (one L2 request       *)
(* processed to its response) or a power-off.  The L1 SPI exchange that     *)
(* delivers the request is modelled in its own module.  Register values    *)
(* are the sets of their bits that are 1, so that i_config & r_config is   *)
(* an intersection and clearing bit b is removing b.  Key material is      *)
(* abstracted to the number of the handshake that produced it (epoch).     *)
(***************************************************************************)
EXTENDS Integers, FiniteSets

CONSTANTS
    NbSlots,            \* S_HI_PUB_NB_SLOTS, the number of pairing key slots
    BitWidth,           \* the number of bits of a modelled UAP register field
    MaxEpoch,           \* bound on the number of successful handshakes
    MaxNonce,           \* bound on the commands processed in one session
    ActivateEncryption, \* BaseModel.activate_encryption
    None                \* Python's None (no cached configuration, no response)

ASSUME NbSlotsAssumption == NbSlots \in Nat \ {0}
ASSUME BitWidthAssumption == BitWidth \in Nat /\ NbSlots <= BitWidth
ASSUME BoundsAssumption == MaxEpoch \in Nat /\ MaxNonce \in Nat
ASSUME EncryptionAssumption == ActivateEncryption \in BOOLEAN

VARIABLES
    sessionEst,      \* the session is established (keys derived)
    epoch,           \* identity of the current key material (handshake count)
    nonce,           \* the session's command/result sequence number
    pairingKeySlot,  \* BaseModel.pairing_key_slot
    pkeys,           \* the state of each pairing key slot
    iConfig,         \* BaseModel.i_config, the UAP registers
    rConfig,         \* BaseModel.r_config, the UAP registers
    cfgCache,        \* BaseModel._config
    cmdBuf,          \* the last response, replayed by Resend
    lastResp,        \* what the last call of process_input returned
    accepted,        \* ghost: the (epoch, nonce) of each opened ciphertext
    powerOnEff       \* ghost: i_config & r_config as they were at power-on

vars == <<sessionEst, epoch, nonce, pairingKeySlot, pkeys, iConfig, rConfig,
          cfgCache, cmdBuf, lastResp, accepted, powerOnEff>>

-----------------------------------------------------------------------------
(* Data *)

Slots == 0 .. NbSlots - 1
NoSlot == -1
Bits == 0 .. BitWidth - 1

\* The configuration registers that guard the modelled L3 commands.
UapRegs == {"CFG_UAP_PAIRING_KEY_WRITE", "CFG_UAP_I_CONFIG_WRITE"}
ConfigValue == [UapRegs -> SUBSET Bits]

PairingKeyStates == {"BLANK", "SET", "INVALID"}

L2Statuses == {"REQ_OK", "GEN_ERR", "CRC_ERR", "UNKNOWN_REQ"}
L3Results == {"OK", "FAIL", "UNAUTHORIZED", "NONE"}
\* An exception other than L2ProcessingError escaped process_input.
Uncaught == [status |-> "EXCEPTION", result |-> "NONE"]
Responses == [status : L2Statuses, result : L3Results]

\* None is no configuration value and no response.
ASSUME NoneAssumption == None \notin ConfigValue \cup Responses \cup {Uncaught}

\* An address outside the register enumeration.
BadAddress == "INVALID_ADDRESS"

\* The L3 commands: Pairing_Key_Write(slot) and I_Config_Write(address, bit),
\* each with one argument value past the valid ones.
L3Commands ==
    [kind : {"PAIRING_KEY_WRITE"}, slot : 0 .. NbSlots]
      \cup [kind : {"I_CONFIG_WRITE"}, reg : UapRegs \cup {BadAddress},
             bit : 0 .. BitWidth]

\* An encrypted L3 command, abstracted to the session and the sequence
\* number it was sealed with.
Ciphertexts == [epoch : 1 .. MaxEpoch, nonce : 0 .. MaxNonce, cmd : L3Commands]

\* The UAP register that guards an L3 command.
GuardOf(cmd) ==
    IF cmd.kind = "PAIRING_KEY_WRITE" THEN "CFG_UAP_PAIRING_KEY_WRITE"
                                      ELSE "CFG_UAP_I_CONFIG_WRITE"

Resp(status, result) == [status |-> status, result |-> result]

-----------------------------------------------------------------------------
(* Helpers of BaseModel *)

\* i_config & r_config
Effective(i, r) == [x \in UapRegs |-> i[x] \cap r[x]]

\* The property BaseModel.config: computed on the first read after power-on.
Config == IF cfgCache = None THEN Effective(iConfig, rConfig) ELSE cfgCache

\* A slip in check_access_privileges: `value & pairing_key_slot` instead of
\* `value & 2**pairing_key_slot`, testing the bits of the slot number.
CheckAccessPrivilegesSlotAsMask(value) ==
    IF ~ActivateEncryption THEN "ok"
    ELSE IF pairingKeySlot \notin Slots THEN "not_paired"
    ELSE IF \A b \in value : (pairingKeySlot \div (2 ^ b)) % 2 = 0
         THEN "unauthorized"
    ELSE "ok"

\* BaseModel.check_access_privileges on the field value `value`.
CheckAccessPrivileges(value) ==
    IF ~ActivateEncryption THEN "ok"
    ELSE IF pairingKeySlot \notin Slots THEN "not_paired"   \* RuntimeError
    ELSE IF pairingKeySlot \notin value THEN "unauthorized"
    ELSE "ok"

\* A session that opens ciphertexts of its key material after a reset.
DecryptCommandIgnoringReset(ct) ==
    \/ ~ActivateEncryption
    \/ ct.epoch = epoch /\ ct.nonce = nonce

\* BaseModel.decrypt_command: with encryption the session opens the
\* ciphertext only under its current keys and sequence number.
DecryptCommand(ct) ==
    \/ ~ActivateEncryption
    \/ sessionEst /\ ct.epoch = epoch /\ ct.nonce = nonce

\* A session that does not advance its sequence number.
EncryptResultNonceStuck == nonce

\* BaseModel.encrypt_result: sealing a result advances the sequence number.
EncryptResultNonce == IF ActivateEncryption THEN nonce + 1 ELSE nonce

\* The response a call returned; every response other than to Resend is
\* kept for a later Resend.
Reply(r) == lastResp' = r /\ cmdBuf' = r

-----------------------------------------------------------------------------
(* Initial state *)

Init ==
    /\ sessionEst = FALSE
    /\ epoch = 0
    /\ nonce = 0
    /\ pairingKeySlot = NoSlot
    /\ pkeys \in [Slots -> PairingKeyStates]
    /\ iConfig \in ConfigValue
    /\ rConfig \in ConfigValue
    /\ cfgCache = None
    /\ cmdBuf = None
    /\ lastResp = None
    /\ accepted = {}
    /\ powerOnEff = Effective(iConfig, rConfig)

-----------------------------------------------------------------------------
(* Requests rejected by BaseModel._process_input before any handler runs:  *)
(* a wrong checksum, an identifier with no request class, and a frame no   *)
(* request class of that identifier parses.                                *)

Faults == {"crc", "unknown_id", "malformed"}

RejectFrame(fault) ==
    /\ Reply(Resp(IF fault = "unknown_id" THEN "UNKNOWN_REQ" ELSE "CRC_ERR",
                  "NONE"))
    /\ UNCHANGED <<sessionEst, epoch, nonce, pairingKeySlot, pkeys,
                   iConfig, rConfig, cfgCache, accepted, powerOnEff>>

\* Get_Info: reads chip data and changes no state.
GetInfo ==
    /\ Reply(Resp("REQ_OK", "NONE"))
    /\ UNCHANGED <<sessionEst, epoch, nonce, pairingKeySlot, pkeys,
                   iConfig, rConfig, cfgCache, accepted, powerOnEff>>

\* invalidate_session marking the absence of a slot with None, not -1.
InvalidateSessionSlotNone ==
    /\ sessionEst' = FALSE
    /\ nonce' = 0
    /\ pairingKeySlot' = None

\* invalidate_session without `self.pairing_key_slot = -1`.
InvalidateSessionKeepSlot ==
    /\ sessionEst' = FALSE
    /\ nonce' = 0
    /\ UNCHANGED pairingKeySlot

\* BaseModel.invalidate_session, as a relation on the session variables.
InvalidateSession ==
    /\ sessionEst' = FALSE
    /\ nonce' = 0
    /\ pairingKeySlot' = NoSlot

\* Handshake: the running session is dropped; a new one is opened on a slot
\* holding a key, with fresh key material.
\* The slot argument ranges over 0 .. NbSlots, one past the last slot.
Handshake(slot) ==
    IF slot \in Slots /\ pkeys[slot] = "SET"
    THEN /\ epoch < MaxEpoch
         /\ sessionEst' = TRUE
         /\ epoch' = epoch + 1
         /\ nonce' = 0
         /\ pairingKeySlot' = slot
         /\ Reply(Resp("REQ_OK", "NONE"))
         /\ UNCHANGED <<pkeys, iConfig, rConfig, cfgCache, accepted, powerOnEff>>
    ELSE /\ InvalidateSession
         /\ Reply(Resp("GEN_ERR", "NONE"))
         /\ UNCHANGED <<epoch, pkeys, iConfig, rConfig, cfgCache, accepted, powerOnEff>>

\* Encrypted_Session_Abt
EncryptedSessionAbt ==
    /\ InvalidateSession
    /\ Reply(Resp("REQ_OK", "NONE"))
    /\ UNCHANGED <<epoch, pkeys, iConfig, rConfig, cfgCache, accepted, powerOnEff>>

\* Resend: the buffered response, or a generic error when there is none.
Resend ==
    /\ lastResp' = IF cmdBuf = None THEN Resp("GEN_ERR", "NONE") ELSE cmdBuf
    /\ UNCHANGED <<sessionEst, epoch, nonce, pairingKeySlot, pkeys, iConfig,
                   rConfig, cfgCache, cmdBuf, accepted, powerOnEff>>

\* Pairing_Key_Write: a slot outside the enumeration is refused, an erased
\* slot cannot be written, and a blank or set slot holds a key afterwards.
PairingKeyWrite(slot) ==
    CASE slot \notin Slots -> <<pkeys, iConfig, "UNAUTHORIZED">>
      [] slot \in Slots /\ pkeys[slot] = "INVALID" -> <<pkeys, iConfig, "FAIL">>
      [] slot \in Slots /\ pkeys[slot] # "INVALID" ->
           <<[pkeys EXCEPT ![slot] = "SET"], iConfig, "OK">>

\* I_Config_Write: clears one bit of an irreversible register; an unknown
\* address or a bit index past the register fails with no effect.
IConfigWrite(reg, bit) ==
    IF reg \in UapRegs /\ bit \in Bits
    THEN <<pkeys, [iConfig EXCEPT ![reg] = @ \ {bit}], "OK">>
    ELSE <<pkeys, iConfig, "FAIL">>

\* process_l3_command: the L3 handler of the command's type, giving the
\* pairing keys and irreversible configuration after it, and its result.
ExecuteL3(cmd) ==
    IF cmd.kind = "PAIRING_KEY_WRITE" THEN PairingKeyWrite(cmd.slot)
                                      ELSE IConfigWrite(cmd.reg, cmd.bit)

\* Encrypted_Cmd: decrypt, read the configuration, check the access
\* privileges of the session's pairing key, execute, encrypt the result.
EncryptedCmd(ct) ==
    IF ~DecryptCommand(ct)
    THEN /\ Reply(Resp("GEN_ERR", "NONE"))
         /\ UNCHANGED <<sessionEst, epoch, nonce, pairingKeySlot, pkeys,
                        iConfig, rConfig, cfgCache, accepted, powerOnEff>>
    ELSE LET check == CheckAccessPrivileges(Config[GuardOf(ct.cmd)])
             out   == IF check = "ok" THEN ExecuteL3(ct.cmd)
                      ELSE <<pkeys, iConfig, "UNAUTHORIZED">>
         IN  /\ nonce < MaxNonce
             /\ cfgCache' = Config
             /\ accepted' = IF ActivateEncryption
                            THEN accepted \cup {<<ct.epoch, ct.nonce>>}
                            ELSE accepted
             /\ IF check = "not_paired"
                THEN /\ lastResp' = Uncaught
                     /\ UNCHANGED <<nonce, pkeys, iConfig, cmdBuf>>
                ELSE /\ pkeys' = out[1]
                     /\ iConfig' = out[2]
                     /\ nonce' = EncryptResultNonce
                     /\ Reply(Resp("REQ_OK", out[3]))
             /\ UNCHANGED <<sessionEst, epoch, pairingKeySlot, rConfig, powerOnEff>>

\* _process_power_off without `self._config = None`.
PowerOffKeepConfig ==
    /\ InvalidateSession
    /\ cmdBuf' = None
    /\ powerOnEff' = Effective(iConfig, rConfig)
    /\ UNCHANGED <<epoch, pkeys, iConfig, rConfig, cfgCache, lastResp, accepted>>

\* BaseModel.power_off
PowerOff ==
    /\ InvalidateSession
    /\ cmdBuf' = None
    /\ cfgCache' = None
    /\ powerOnEff' = Effective(iConfig, rConfig)
    /\ UNCHANGED <<epoch, pkeys, iConfig, rConfig, lastResp, accepted>>

Next ==
    \/ \E fault \in Faults : RejectFrame(fault)
    \/ GetInfo
    \/ \E slot \in 0 .. NbSlots : Handshake(slot)
    \/ EncryptedSessionAbt
    \/ Resend
    \/ \E ct \in Ciphertexts : EncryptedCmd(ct)
    \/ PowerOff

Spec == Init /\ [][Next]_vars

-----------------------------------------------------------------------------
(* Properties *)

TypeOK ==
    /\ sessionEst \in BOOLEAN
    /\ epoch \in 0 .. MaxEpoch
    /\ nonce \in 0 .. MaxNonce
    /\ pairingKeySlot \in Slots \cup {NoSlot}
    /\ pkeys \in [Slots -> PairingKeyStates]
    /\ iConfig \in ConfigValue
    /\ rConfig \in ConfigValue
    /\ cfgCache \in ConfigValue \cup {None}
    /\ cmdBuf \in Responses \cup {None}
    /\ lastResp \in Responses \cup {Uncaught, None}
    /\ accepted \subseteq (1 .. MaxEpoch) \X (0 .. MaxNonce)
    /\ powerOnEff \in ConfigValue

\* The pairing key slot BaseModel records is set exactly while a session is
\* established: a handshake sets both, invalidate_session (abort, a new
\* handshake, power-off) clears both.
SessionSlotConsistent == sessionEst <=> pairingKeySlot \in Slots

\* No request makes process_input raise past the dispatcher: in particular
\* check_access_privileges never finds the chip unpaired (its RuntimeError)
\* while it processes a decrypted L3 command.
NoUncaughtException == lastResp # Uncaught

\* Every ciphertext the session has opened is spent: it belongs to an older
\* session, or to the current one with an older sequence number, or the
\* session is closed.  So no L3 command is ever executed twice from one
\* ciphertext, across aborts, re-handshakes and power-offs.
AcceptedAreSpent ==
    \A a \in accepted :
        \/ a[1] < epoch
        \/ a[1] = epoch /\ (a[2] < nonce \/ ~sessionEst)

\* The configuration BaseModel caches is the effective configuration as it
\* was stored at the last power-on, although L3 commands clear bits of the
\* irreversible copy meanwhile.
ConfigCacheIsPowerOnConfig == cfgCache \in {None, powerOnEff}

\* With encryption active, a pairing key or the irreversible configuration
\* changes only on a command of a session whose pairing key slot has its
\* bit set, in the register guarding that command, in the configuration
\* stored at the last power-on.
UapEnforced ==
    [][ActivateEncryption =>
         /\ pkeys' # pkeys =>
              pairingKeySlot \in powerOnEff["CFG_UAP_PAIRING_KEY_WRITE"]
         /\ iConfig' # iConfig =>
              pairingKeySlot \in powerOnEff["CFG_UAP_I_CONFIG_WRITE"]]_vars


\* With encryption active, a step that changes a pairing key or the
\* irreversible configuration opens a ciphertext no earlier step opened:
\* decrypt_command accepts only the session's current sequence number and
\* encrypt_result advances it, so a replayed or re-sequenced L3 command
\* never takes effect, across aborts, handshakes and power-offs.
WriteNeedsFreshCiphertext ==
    [][ActivateEncryption /\ <<pkeys, iConfig>>' # <<pkeys, iConfig>>
         => accepted' \ accepted # {}]_vars

=============================================================================
