------------------------- MODULE TropicModelProofs -------------------------
(***************************************************************************)
(* Proofs about TropicModel for every number of pairing key slots, every   *)
(* register width and every bound.                                         *)
(***************************************************************************)
EXTENDS TropicModel, TLAPS

USE NbSlotsAssumption, BitWidthAssumption, BoundsAssumption,
    EncryptionAssumption, NoneAssumption

-----------------------------------------------------------------------------
(* Type correctness *)

LEMMA InitTypeOK == Init => TypeOK
<1>. SUFFICES ASSUME Init PROVE TypeOK
  OBVIOUS
<1>1. powerOnEff \in ConfigValue
  BY DEF Init, Effective, ConfigValue
<1>2. pairingKeySlot \in Slots \cup {NoSlot}
  BY DEF Init
<1>3. epoch \in 0 .. MaxEpoch /\ nonce \in 0 .. MaxNonce
  BY DEF Init
<1>. QED
  BY <1>1, <1>2, <1>3 DEF Init, TypeOK

\* The three results of an L3 command, for every command.
LEMMA ExecuteL3Type ==
    ASSUME TypeOK, NEW cmd \in L3Commands
    PROVE  /\ ExecuteL3(cmd)[1] \in [Slots -> PairingKeyStates]
           /\ ExecuteL3(cmd)[2] \in ConfigValue
           /\ ExecuteL3(cmd)[3] \in L3Results
<1>1. CASE cmd.kind = "PAIRING_KEY_WRITE"
  <2>1. cmd.slot \in 0 .. NbSlots
    BY <1>1 DEF L3Commands
  <2>2. CASE cmd.slot \notin Slots
    BY <1>1, <2>2 DEF ExecuteL3, PairingKeyWrite, TypeOK, L3Results
  <2>3. CASE cmd.slot \in Slots
    BY <1>1, <2>3 DEF ExecuteL3, PairingKeyWrite, TypeOK, L3Results,
                      PairingKeyStates
  <2>. QED
    BY <2>2, <2>3
<1>2. CASE cmd.kind = "I_CONFIG_WRITE"
  <2>1. cmd.bit \in 0 .. BitWidth
    BY <1>2 DEF L3Commands
  <2>2. CASE cmd.reg \in UapRegs /\ cmd.bit \in Bits
    BY <1>2, <2>2 DEF ExecuteL3, IConfigWrite, TypeOK, ConfigValue, L3Results
  <2>3. CASE ~(cmd.reg \in UapRegs /\ cmd.bit \in Bits)
    BY <1>2, <2>3 DEF ExecuteL3, IConfigWrite, TypeOK, L3Results
  <2>. QED
    BY <2>2, <2>3
<1>. QED
  BY <1>1, <1>2 DEF L3Commands

\* A reply of a status and a result fills both response variables.
LEMMA ReplyType ==
    ASSUME NEW st \in L2Statuses, NEW res \in L3Results, Reply(Resp(st, res))
    PROVE  /\ lastResp' \in Responses \cup {Uncaught, None}
           /\ cmdBuf' \in Responses \cup {None}
BY DEF Reply, Resp, Responses

\* invalidate_session leaves the session variables in their types.
LEMMA InvalidateSessionType ==
    ASSUME InvalidateSession
    PROVE  /\ sessionEst' \in BOOLEAN
           /\ nonce' \in 0 .. MaxNonce
           /\ pairingKeySlot' \in Slots \cup {NoSlot}
<1>1. sessionEst' \in BOOLEAN
  BY DEF InvalidateSession
<1>2. nonce' \in 0 .. MaxNonce
  BY DEF InvalidateSession
<1>3. pairingKeySlot' \in Slots \cup {NoSlot}
  BY DEF InvalidateSession
<1>. QED
  BY <1>1, <1>2, <1>3

LEMMA ConfigType == TypeOK => Config \in ConfigValue
BY DEF Config, TypeOK, Effective, ConfigValue

\* The first part of Encrypted_Cmd's effect, for any ciphertext it opens.
LEMMA EncryptedCmdType ==
    ASSUME TypeOK, NEW ct \in Ciphertexts, EncryptedCmd(ct)
    PROVE  TypeOK'
<1>1. ct.cmd \in L3Commands /\ ct.epoch \in 1 .. MaxEpoch
      /\ ct.nonce \in 0 .. MaxNonce
  BY DEF Ciphertexts
<1>2. CASE ~DecryptCommand(ct)
  BY <1>2 DEF EncryptedCmd, Reply, Resp, Responses, L2Statuses, L3Results, TypeOK
<1>3. CASE DecryptCommand(ct)
  <2>. DEFINE check == CheckAccessPrivileges(Config[GuardOf(ct.cmd)])
              out   == IF check = "ok" THEN ExecuteL3(ct.cmd)
                       ELSE <<pkeys, iConfig, "UNAUTHORIZED">>
  <2>1. /\ out[1] \in [Slots -> PairingKeyStates]
        /\ out[2] \in ConfigValue
        /\ out[3] \in L3Results
    BY <1>1, ExecuteL3Type DEF TypeOK, L3Results
  <2>2. /\ nonce < MaxNonce
        /\ cfgCache' = Config
        /\ accepted' = IF ActivateEncryption
                       THEN accepted \cup {<<ct.epoch, ct.nonce>>}
                       ELSE accepted
        /\ IF check = "not_paired"
           THEN /\ lastResp' = Uncaught
                /\ UNCHANGED <<nonce, pkeys, iConfig, cmdBuf>>
           ELSE /\ pkeys' = out[1]
                /\ iConfig' = out[2]
                /\ nonce' = EncryptResultNonce
                /\ Reply(Resp("REQ_OK", out[3]))
        /\ UNCHANGED <<sessionEst, epoch, pairingKeySlot, rConfig, powerOnEff>>
    BY <1>3 DEF EncryptedCmd
  <2>3. Config \in ConfigValue
    BY ConfigType
  <2>. QED
    BY <1>1, <2>1, <2>2, <2>3
    DEF Reply, Resp, Responses, L2Statuses, TypeOK, EncryptResultNonce
<1>. QED
  BY <1>2, <1>3

LEMMA NextTypeOK == TypeOK /\ [Next]_vars => TypeOK'
<1>. SUFFICES ASSUME TypeOK, [Next]_vars PROVE TypeOK'
  OBVIOUS
<1>1. ASSUME NEW fault \in Faults, RejectFrame(fault) PROVE TypeOK'
  BY <1>1 DEF RejectFrame, Reply, Resp, Responses, L2Statuses, L3Results, TypeOK
<1>2. CASE GetInfo
  BY <1>2 DEF GetInfo, Reply, Resp, Responses, L2Statuses, L3Results, TypeOK
<1>3. ASSUME NEW slot \in 0 .. NbSlots, Handshake(slot) PROVE TypeOK'
  <2>1. CASE slot \in Slots /\ pkeys[slot] = "SET"
    <3>1. Reply(Resp("REQ_OK", "NONE"))
      BY <1>3, <2>1 DEF Handshake
    <3>. QED
      BY <1>3, <2>1, <3>1, ReplyType DEF Handshake, TypeOK, L2Statuses, L3Results
  <2>2. CASE ~(slot \in Slots /\ pkeys[slot] = "SET")
    <3>1. Reply(Resp("GEN_ERR", "NONE")) /\ InvalidateSession
      BY <1>3, <2>2 DEF Handshake
    <3>. QED
      BY <1>3, <2>2, <3>1, ReplyType, InvalidateSessionType
      DEF Handshake, TypeOK, L2Statuses, L3Results
  <2>. QED
    BY <2>1, <2>2
<1>4. CASE EncryptedSessionAbt
  BY <1>4, ReplyType, InvalidateSessionType
  DEF EncryptedSessionAbt, L2Statuses, L3Results, TypeOK
<1>5. CASE Resend
  BY <1>5 DEF Resend, Resp, Responses, L2Statuses, L3Results, TypeOK
<1>6. ASSUME NEW ct \in Ciphertexts, EncryptedCmd(ct) PROVE TypeOK'
  BY <1>6, EncryptedCmdType
<1>7. CASE PowerOff
  BY <1>7, InvalidateSessionType DEF PowerOff, TypeOK, Effective, ConfigValue
<1>8. CASE UNCHANGED vars
  BY <1>8 DEF vars, TypeOK
<1>. QED
  BY <1>1, <1>2, <1>3, <1>4, <1>5, <1>6, <1>7, <1>8 DEF Next

\* The model's state always has its type.
THEOREM TypeCorrect == Spec => []TypeOK
BY InitTypeOK, NextTypeOK, PTL DEF Spec

-----------------------------------------------------------------------------
(* The inductive invariant *)

\* While no configuration is cached, the registers still combine to the
\* configuration stored at power-on: an L3 command that clears a bit of
\* i_config always reads (and so caches) the configuration first.
CacheFresh == cfgCache = None => powerOnEff = Effective(iConfig, rConfig)

IInv ==
    /\ TypeOK
    /\ SessionSlotConsistent
    /\ NoUncaughtException
    /\ AcceptedAreSpent
    /\ ConfigCacheIsPowerOnConfig
    /\ CacheFresh

LEMMA NotUncaught ==
    ASSUME NEW r \in Responses PROVE r # Uncaught
BY DEF Responses, Uncaught, L2Statuses

LEMMA InitIInv == Init => IInv
<1>. SUFFICES ASSUME Init PROVE IInv
  OBVIOUS
<1>1. TypeOK
  BY InitTypeOK
<1>2. SessionSlotConsistent /\ NoUncaughtException /\ AcceptedAreSpent
  BY DEF Init, SessionSlotConsistent, NoSlot, Slots, NoUncaughtException,
         Uncaught, AcceptedAreSpent
<1>3. ConfigCacheIsPowerOnConfig /\ CacheFresh
  BY DEF Init, ConfigCacheIsPowerOnConfig, CacheFresh
<1>. QED
  BY <1>1, <1>2, <1>3 DEF IInv

\* The cached configuration, or the one computed on a miss, is the one
\* stored at power-on.
LEMMA ConfigIsPowerOn == IInv => Config = powerOnEff
BY DEF IInv, Config, ConfigCacheIsPowerOnConfig, CacheFresh

\* The access check passes with encryption only for a slot whose bit is set.
LEMMA CheckOk ==
    ASSUME NEW value, ActivateEncryption, CheckAccessPrivileges(value) = "ok"
    PROVE  pairingKeySlot \in value
BY DEF CheckAccessPrivileges

\* A step that leaves the session, the ghost state and the configuration
\* alone and returns a response preserves the invariant.
LEMMA QuietStep ==
    ASSUME IInv, TypeOK',
           lastResp' \in Responses,
           UNCHANGED <<sessionEst, epoch, nonce, pairingKeySlot, iConfig,
                       rConfig, cfgCache, accepted, powerOnEff>>
    PROVE  IInv'
BY NotUncaught DEF IInv, SessionSlotConsistent, NoUncaughtException,
   AcceptedAreSpent, ConfigCacheIsPowerOnConfig, CacheFresh, Effective

\* A step that runs invalidate_session and keeps the key material, the
\* configuration and the opened ciphertexts preserves the invariant.
LEMMA ResetStep ==
    ASSUME IInv, TypeOK', InvalidateSession,
           lastResp' # Uncaught,
           UNCHANGED <<epoch, accepted>>
    PROVE  /\ SessionSlotConsistent'
           /\ NoUncaughtException'
           /\ AcceptedAreSpent'
<1>1. SessionSlotConsistent'
  BY DEF InvalidateSession, SessionSlotConsistent, NoSlot, Slots
<1>2. AcceptedAreSpent'
  <2>. SUFFICES ASSUME NEW a \in accepted PROVE a[1] < epoch \/ a[1] = epoch
    BY DEF AcceptedAreSpent, InvalidateSession
  <2>. QED
    BY DEF IInv, AcceptedAreSpent
<1>. QED
  BY <1>1, <1>2 DEF NoUncaughtException

LEMMA HandshakeIInv ==
    ASSUME IInv, NEW slot \in 0 .. NbSlots, Handshake(slot), TypeOK'
    PROVE  IInv'
<1>1. CASE slot \in Slots /\ pkeys[slot] = "SET"
  <2>1. SessionSlotConsistent' /\ NoUncaughtException'
    BY <1>1, NotUncaught DEF Handshake, Reply, Resp, Responses, L2Statuses,
                            L3Results, SessionSlotConsistent, NoUncaughtException
  <2>2. AcceptedAreSpent'
    <3>. SUFFICES ASSUME NEW a \in accepted PROVE a[1] < epoch + 1
      BY <1>1 DEF Handshake, AcceptedAreSpent
    <3>1. a[1] \in Nat
      BY DEF IInv, TypeOK
    <3>. QED
      BY <3>1 DEF IInv, AcceptedAreSpent, TypeOK
  <2>3. ConfigCacheIsPowerOnConfig' /\ CacheFresh'
    BY <1>1 DEF Handshake, IInv, ConfigCacheIsPowerOnConfig, CacheFresh
  <2>. QED
    BY <2>1, <2>2, <2>3 DEF IInv
<1>2. CASE ~(slot \in Slots /\ pkeys[slot] = "SET")
  <2>1. InvalidateSession /\ lastResp' = Resp("GEN_ERR", "NONE")
        /\ UNCHANGED <<epoch, iConfig, rConfig, cfgCache, accepted, powerOnEff>>
    BY <1>2 DEF Handshake, Reply
  <2>2. lastResp' # Uncaught
    BY <2>1 DEF Resp, Uncaught
  <2>3. ConfigCacheIsPowerOnConfig' /\ CacheFresh'
    BY <2>1 DEF IInv, ConfigCacheIsPowerOnConfig, CacheFresh
  <2>. QED
    BY <2>1, <2>2, <2>3, ResetStep DEF IInv
<1>. QED
  BY <1>1, <1>2

LEMMA EncryptedSessionAbtIInv ==
    ASSUME IInv, EncryptedSessionAbt, TypeOK'
    PROVE  IInv'
<1>1. InvalidateSession /\ lastResp' = Resp("REQ_OK", "NONE")
      /\ UNCHANGED <<epoch, iConfig, rConfig, cfgCache, accepted, powerOnEff>>
  BY DEF EncryptedSessionAbt, Reply
<1>2. lastResp' # Uncaught
  BY <1>1 DEF Resp, Uncaught
<1>3. ConfigCacheIsPowerOnConfig' /\ CacheFresh'
  BY <1>1 DEF IInv, ConfigCacheIsPowerOnConfig, CacheFresh
<1>. QED
  BY <1>1, <1>2, <1>3, ResetStep DEF IInv

LEMMA PowerOffIInv ==
    ASSUME IInv, PowerOff, TypeOK'
    PROVE  IInv'
<1>1. InvalidateSession /\ UNCHANGED <<epoch, iConfig, rConfig, lastResp, accepted>>
      /\ cfgCache' = None /\ powerOnEff' = Effective(iConfig, rConfig)
  BY DEF PowerOff
<1>2. lastResp' # Uncaught
  BY <1>1 DEF IInv, NoUncaughtException
<1>3. ConfigCacheIsPowerOnConfig' /\ CacheFresh'
  BY <1>1 DEF ConfigCacheIsPowerOnConfig, CacheFresh
<1>. QED
  BY <1>1, <1>2, <1>3, ResetStep DEF IInv

LEMMA EncryptedCmdIInv ==
    ASSUME IInv, NEW ct \in Ciphertexts, EncryptedCmd(ct), TypeOK'
    PROVE  IInv'
<1>1. CASE ~DecryptCommand(ct)
  <2>1. lastResp' \in Responses
    BY <1>1 DEF EncryptedCmd, Reply, Resp, Responses, L2Statuses, L3Results
  <2>. QED
    BY <1>1, <2>1, QuietStep DEF EncryptedCmd
<1>2. CASE DecryptCommand(ct)
  <2>. DEFINE check == CheckAccessPrivileges(Config[GuardOf(ct.cmd)])
              out   == IF check = "ok" THEN ExecuteL3(ct.cmd)
                       ELSE <<pkeys, iConfig, "UNAUTHORIZED">>
  <2>1. check # "not_paired"
    BY <1>2 DEF DecryptCommand, CheckAccessPrivileges, IInv,
                SessionSlotConsistent
  <2>2. /\ cfgCache' = Config
        /\ accepted' = IF ActivateEncryption
                       THEN accepted \cup {<<ct.epoch, ct.nonce>>}
                       ELSE accepted
        /\ iConfig' = out[2]
        /\ nonce' = EncryptResultNonce
        /\ lastResp' = Resp("REQ_OK", out[3])
        /\ UNCHANGED <<sessionEst, epoch, pairingKeySlot, rConfig, powerOnEff>>
    BY <1>2, <2>1 DEF EncryptedCmd, Reply
  <2>3. Config = powerOnEff
    BY ConfigIsPowerOn
  <2>4. SessionSlotConsistent' /\ NoUncaughtException'
    BY <2>2 DEF IInv, SessionSlotConsistent, NoUncaughtException, Resp, Uncaught
  <2>5. ConfigCacheIsPowerOnConfig' /\ CacheFresh'
    <3>1. powerOnEff # None
      BY DEF IInv, TypeOK
    <3>. QED
      BY <2>2, <2>3, <3>1 DEF ConfigCacheIsPowerOnConfig, CacheFresh
  <2>6. AcceptedAreSpent'
    <3>1. CASE ActivateEncryption
      <4>1. sessionEst /\ ct.epoch = epoch /\ ct.nonce = nonce
            /\ nonce' = nonce + 1 /\ nonce \in Nat
        BY <1>2, <2>2, <3>1 DEF DecryptCommand, EncryptResultNonce, IInv, TypeOK
      <4>. SUFFICES ASSUME NEW a \in accepted' PROVE a[1] < epoch \/ (a[1] = epoch /\ a[2] < nonce + 1)
        BY <2>2, <3>1, <4>1 DEF AcceptedAreSpent, IInv
      <4>2. CASE a \in accepted
        <5>1. a[2] \in Nat
          BY <4>2 DEF IInv, TypeOK
        <5>. QED
          BY <4>1, <4>2, <5>1 DEF IInv, AcceptedAreSpent
      <4>3. CASE a = <<ct.epoch, ct.nonce>>
        BY <4>1, <4>3
      <4>. QED
        BY <2>2, <3>1, <4>2, <4>3
    <3>2. CASE ~ActivateEncryption
      BY <2>2, <3>2 DEF EncryptResultNonce, IInv, AcceptedAreSpent
    <3>. QED
      BY <3>1, <3>2
  <2>. QED
    BY <2>4, <2>5, <2>6 DEF IInv
<1>. QED
  BY <1>1, <1>2

LEMMA NextIInv == IInv /\ [Next]_vars => IInv'
<1>. SUFFICES ASSUME IInv, [Next]_vars PROVE IInv'
  OBVIOUS
<1>0. TypeOK'
  BY NextTypeOK DEF IInv
<1>1. ASSUME NEW fault \in Faults, RejectFrame(fault) PROVE IInv'
  <2>1. lastResp' \in Responses
    BY <1>1 DEF RejectFrame, Reply, Resp, Responses, L2Statuses, L3Results
  <2>. QED
    BY <1>0, <1>1, <2>1, QuietStep DEF RejectFrame
<1>2. CASE GetInfo
  <2>1. lastResp' \in Responses
    BY <1>2 DEF GetInfo, Reply, Resp, Responses, L2Statuses, L3Results
  <2>. QED
    BY <1>0, <1>2, <2>1, QuietStep DEF GetInfo
<1>3. ASSUME NEW slot \in 0 .. NbSlots, Handshake(slot) PROVE IInv'
  BY <1>0, <1>3, HandshakeIInv
<1>4. CASE EncryptedSessionAbt
  BY <1>0, <1>4, EncryptedSessionAbtIInv
<1>5. CASE Resend
  <2>1. lastResp' \in Responses
    BY <1>5, NoneAssumption DEF Resend, Resp, Responses, L2Statuses, L3Results,
                                IInv, TypeOK
  <2>. QED
    BY <1>0, <1>5, <2>1, QuietStep DEF Resend
<1>6. ASSUME NEW ct \in Ciphertexts, EncryptedCmd(ct) PROVE IInv'
  BY <1>0, <1>6, EncryptedCmdIInv
<1>7. CASE PowerOff
  BY <1>0, <1>7, PowerOffIInv
<1>8. CASE UNCHANGED vars
  BY <1>8 DEF vars, IInv, TypeOK, SessionSlotConsistent, NoUncaughtException,
              AcceptedAreSpent, ConfigCacheIsPowerOnConfig, CacheFresh, Effective
<1>. QED
  BY <1>1, <1>2, <1>3, <1>4, <1>5, <1>6, <1>7, <1>8 DEF Next

\* The pairing key slot is recorded exactly while a session is open, no
\* request makes process_input raise the not-paired RuntimeError, no
\* ciphertext is opened twice, and the cached configuration is the one
\* stored at power-on: for every number of slots, width and bound.
THEOREM SafetyInvariant == Spec => []IInv
BY InitIInv, NextIInv, PTL DEF Spec

\* The pairing key slot BaseModel records is a valid slot exactly while a
\* session is established (handshake, invalidate_session).
THEOREM SlotConsistent == Spec => []SessionSlotConsistent
BY SafetyInvariant, PTL DEF IInv

\* The configuration cached by BaseModel.config is the one computed from
\* the registers at the last power-on, for every sequence of requests.
THEOREM CacheIsPowerOn == Spec => []ConfigCacheIsPowerOnConfig
BY SafetyInvariant, PTL DEF IInv

\* No request makes process_input raise past its handler of
\* L2ProcessingError: check_access_privileges never meets a decrypted
\* command while no pairing key slot is recorded (its RuntimeError).
THEOREM NoUncaught == Spec => []NoUncaughtException
BY SafetyInvariant, PTL DEF IInv

\* A ciphertext is executed at most once, across aborts, handshakes and
\* power-offs (BaseModel.decrypt_command and encrypt_result).
THEOREM ReplayFree == Spec => []AcceptedAreSpent
BY SafetyInvariant, PTL DEF IInv

-----------------------------------------------------------------------------
(* The UAP action property *)

UapStep ==
    ActivateEncryption =>
         /\ pkeys' # pkeys =>
              pairingKeySlot \in powerOnEff["CFG_UAP_PAIRING_KEY_WRITE"]
         /\ iConfig' # iConfig =>
              pairingKeySlot \in powerOnEff["CFG_UAP_I_CONFIG_WRITE"]

\* The only state an L3 command changes is the one its guard protects.
LEMMA ExecuteL3Frame ==
    ASSUME NEW cmd \in L3Commands
    PROVE  /\ ExecuteL3(cmd)[1] # pkeys => GuardOf(cmd) = "CFG_UAP_PAIRING_KEY_WRITE"
           /\ ExecuteL3(cmd)[2] # iConfig => GuardOf(cmd) = "CFG_UAP_I_CONFIG_WRITE"
BY DEF ExecuteL3, PairingKeyWrite, IConfigWrite, GuardOf, L3Commands

LEMMA EncryptedCmdUap ==
    ASSUME IInv, NEW ct \in Ciphertexts, EncryptedCmd(ct)
    PROVE  UapStep
<1>. SUFFICES ASSUME ActivateEncryption, DecryptCommand(ct)
              PROVE  UapStep
  BY DEF EncryptedCmd, UapStep
<1>. DEFINE check == CheckAccessPrivileges(Config[GuardOf(ct.cmd)])
            out   == IF check = "ok" THEN ExecuteL3(ct.cmd)
                     ELSE <<pkeys, iConfig, "UNAUTHORIZED">>
<1>1. check # "not_paired"
  BY DEF DecryptCommand, CheckAccessPrivileges, IInv, SessionSlotConsistent
<1>2. pkeys' = out[1] /\ iConfig' = out[2]
  BY <1>1 DEF EncryptedCmd
<1>3. CASE check = "ok"
  <2>1. pairingKeySlot \in powerOnEff[GuardOf(ct.cmd)]
    BY <1>3, CheckOk, ConfigIsPowerOn
  <2>2. ct.cmd \in L3Commands
    BY DEF Ciphertexts
  <2>. QED
    BY <1>2, <1>3, <2>1, <2>2, ExecuteL3Frame DEF UapStep
<1>4. CASE check # "ok"
  BY <1>2, <1>4 DEF UapStep
<1>. QED
  BY <1>3, <1>4

LEMMA NextUap == IInv /\ [Next]_vars => [UapStep]_vars
<1>. SUFFICES ASSUME IInv, [Next]_vars PROVE [UapStep]_vars
  OBVIOUS
<1>1. ASSUME NEW ct \in Ciphertexts, EncryptedCmd(ct) PROVE [UapStep]_vars
  BY <1>1, EncryptedCmdUap
<1>2. CASE UNCHANGED <<pkeys, iConfig>>
  BY <1>2 DEF UapStep
<1>. QED
  BY <1>1, <1>2 DEF Next, RejectFrame, GetInfo, Handshake, EncryptedSessionAbt,
                    Resend, PowerOff, vars

\* With encryption active, check_access_privileges admits a change of a
\* pairing key or of the irreversible configuration only for a session
\* whose slot has its bit in the guarding register of the configuration
\* stored at power-on, for every number of slots and register width.
THEOREM UapEnforcedTheorem == Spec => UapEnforced
BY SafetyInvariant, NextUap, PTL DEF Spec, UapEnforced, UapStep

-----------------------------------------------------------------------------
(* The replay action property *)

FreshStep ==
    ActivateEncryption /\ <<pkeys, iConfig>>' # <<pkeys, iConfig>>
        => accepted' \ accepted # {}

\* An opened ciphertext carries the session's current key material and
\* sequence number, which no earlier step has opened.
LEMMA EncryptedCmdFresh ==
    ASSUME IInv, NEW ct \in Ciphertexts, EncryptedCmd(ct)
    PROVE  FreshStep
<1>. SUFFICES ASSUME ActivateEncryption, DecryptCommand(ct)
              PROVE  FreshStep
  BY DEF EncryptedCmd, FreshStep
<1>1. <<ct.epoch, ct.nonce>> \notin accepted
  <2>1. sessionEst /\ ct.epoch = epoch /\ ct.nonce = nonce
    BY DEF DecryptCommand
  <2>2. epoch \in Nat /\ nonce \in Nat
    BY DEF IInv, TypeOK
  <2>. QED
    BY <2>1, <2>2 DEF IInv, AcceptedAreSpent
<1>2. accepted' = accepted \cup {<<ct.epoch, ct.nonce>>}
  BY DEF EncryptedCmd
<1>. QED
  BY <1>1, <1>2 DEF FreshStep

LEMMA NextFresh == IInv /\ [Next]_vars => [FreshStep]_vars
<1>. SUFFICES ASSUME IInv, [Next]_vars PROVE [FreshStep]_vars
  OBVIOUS
<1>1. ASSUME NEW ct \in Ciphertexts, EncryptedCmd(ct) PROVE [FreshStep]_vars
  BY <1>1, EncryptedCmdFresh
<1>2. CASE UNCHANGED <<pkeys, iConfig>>
  BY <1>2 DEF FreshStep
<1>. QED
  BY <1>1, <1>2 DEF Next, RejectFrame, GetInfo, Handshake, EncryptedSessionAbt,
                    Resend, PowerOff, vars

\* With encryption active, no pairing key write and no I-config write
\* takes effect without decrypt_command opening a ciphertext never opened
\* before, for every number of slots, epochs and sequence numbers: the
\* sequence number encrypt_result advances and the key material a
\* handshake renews make every replay a no-op.
THEOREM FreshCiphertextTheorem == Spec => WriteNeedsFreshCiphertext
BY SafetyInvariant, NextFresh, PTL DEF Spec, WriteNeedsFreshCiphertext, FreshStep

=============================================================================
