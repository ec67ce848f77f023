------------------------- MODULE SpiRefinementProofs -------------------------
(***************************************************************************)
(* The SPI-level system is well typed and implements the exchange the    *)
(* host relies on (the instance Exchange of HostExchange, under the       *)
(* refinement mapping of SpiTropic).  Both rest on the inductive          *)
(* invariant SInv of SpiTropicProofs.                                      *)
(***************************************************************************)
EXTENDS SpiTropicProofs

USE NbSlotsAssumption, BitWidthAssumption, BoundsAssumption,
    EncryptionAssumption, NoneAssumption, TransportAssumption,
    ScheduleAssumption, RequestsAssumption, HostCiphertextsAssumption

-----------------------------------------------------------------------------
(* The instance, unfolded.  Exchange substitutes the core variables by     *)
(* themselves, so its operators on the core are this module's operators   *)
(* once every definition is expanded.                                      *)

LEMMA ExchangeInitIsInit == Exchange!Init <=> Init
BY DEF Init, Exchange!Init, NoSlot, Exchange!NoSlot, Slots, Exchange!Slots,
       PairingKeyStates, Exchange!PairingKeyStates, ConfigValue,
       Exchange!ConfigValue, UapRegs, Exchange!UapRegs, Bits, Exchange!Bits,
       Effective, Exchange!Effective

LEMMA ExchangeResendIsResend == Exchange!Resend <=> Resend
BY DEF Resend, Exchange!Resend, Resp, Exchange!Resp

LEMMA ExchangePowerOffIsPowerOff == Exchange!PowerOff <=> PowerOff
BY DEF PowerOff, Exchange!PowerOff, InvalidateSession, Exchange!InvalidateSession,
       NoSlot, Exchange!NoSlot, Effective, Exchange!Effective, UapRegs,
       Exchange!UapRegs

LEMMA ExchangeRequests == Exchange!Requests = Requests /\ Exchange!vars = vars
BY DEF Requests, Exchange!Requests, Faults, Exchange!Faults, vars, Exchange!vars

LEMMA ExchangeInBounds ==
    ASSUME NEW r PROVE Exchange!InBounds(r) <=> InBounds(r)
BY DEF InBounds, Exchange!InBounds, Slots, Exchange!Slots, DecryptCommand,
       Exchange!DecryptCommand

LEMMA ExchangeDispatch ==
    ASSUME NEW r PROVE Exchange!Dispatch(r) <=> Dispatch(r)
BY DEF Dispatch, Exchange!Dispatch,
       BadAddress, Exchange!BadAddress, Bits, Exchange!Bits,
       CheckAccessPrivileges, Exchange!CheckAccessPrivileges, Config,
       Exchange!Config, DecryptCommand, Exchange!DecryptCommand, Effective,
       Exchange!Effective, EncryptResultNonce, Exchange!EncryptResultNonce,
       EncryptedCmd, Exchange!EncryptedCmd, EncryptedSessionAbt,
       Exchange!EncryptedSessionAbt, ExecuteL3, Exchange!ExecuteL3, GetInfo,
       Exchange!GetInfo, GuardOf, Exchange!GuardOf, Handshake,
       Exchange!Handshake, IConfigWrite, Exchange!IConfigWrite,
       InvalidateSession, Exchange!InvalidateSession, NoSlot, Exchange!NoSlot,
       PairingKeyWrite, Exchange!PairingKeyWrite, RejectFrame,
       Exchange!RejectFrame, Reply, Exchange!Reply, Resend, Exchange!Resend,
       Resp, Exchange!Resp, Slots, Exchange!Slots, UapRegs, Exchange!UapRegs,
       Uncaught, Exchange!Uncaught

\* The transport and host variables keep their types alongside the core's.
THEOREM SpiTypeCorrect == SpiSpec => []SpiTypeOK
<1>1. SInv => SpiTypeOK
  BY DEF SInv, IInv, HInv, SpiTypeOK
<1>. QED
  BY <1>1, InitSInv, NextSInv, PTL DEF SpiSpec

-----------------------------------------------------------------------------
(* ImplementsExchange, step by step *)

\* The response a Resend returns is never None.
LEMMA BufferedNotNone == ASSUME NEW b PROVE Buffered(b) # None
<1>1. Resp("GEN_ERR", "NONE") \in Responses
  BY DEF Resp, Responses, L2Statuses, L3Results
<1>. QED
  BY <1>1, NoneAssumption DEF Buffered

\* The mapped initial state: no request, no result, nothing delivered.
LEMMA InitExchange == SpiInit => Exchange!HInit
BY ExchangeInitIsInit DEF SpiInit, Exchange!HInit

\* Every SPI step maps to one HostExchange step or to a stutter of the
\* exchange: a host start is a Request, the completion of the host's own
\* frame a Process, the completion of a Resend frame a Retransmit, the last
\* response chunk a Deliver, the release after it a Done, a power-off a
\* Crash; chip select, polling, partial frames and aborts change nothing
\* the exchange sees.
LEMMA NextExchange ==
    ASSUME SInv, [SpiNext]_allVars
    PROVE  [Exchange!HNext]_(Exchange!hvars)
<1>0. SInv'
  BY NextSInv
<1>h. UNCHANGED <<vars, hostReq, processed, answer, hostGot>>
      => UNCHANGED Exchange!hvars
  BY DEF Exchange!hvars, Exchange!vars, vars
<1>1. ASSUME NEW r \in Requests, HostStart(r) PROVE Exchange!HNext
  <2>1. Exchange!Request(r)
    BY <1>1, ExchangeInBounds, ExchangeRequests
       DEF HostStart, coreVars, vars, Exchange!vars, Exchange!Request
  <2>. QED
    BY <2>1, ExchangeRequests DEF Exchange!HNext
<1>2. CASE SpiCsnLow
  BY <1>2, <1>h DEF SpiCsnLow, coreVars
<1>3. CASE SpiReceive
  <2>1. CASE rx + 1 < FrameLen
    BY <1>3, <2>1, <1>h DEF SpiReceive, coreVars
  <2>2. CASE ~(rx + 1 < FrameLen)
    <3>1. /\ hostReq # None /\ ~mixed /\ hostGot = None
          /\ frame = IF processed THEN ResendReq ELSE hostReq
      BY <1>3 DEF SpiReceive, SInv, HInv
    <3>2. /\ Dispatch(frame)
          /\ processed' = TRUE
          /\ answer' = IF ~processed THEN lastResp' ELSE answer
          /\ UNCHANGED <<hostReq, hostGot>>
      BY <1>3, <2>2, <3>1 DEF SpiReceive
    <3>3. CASE ~processed
      <4>1. Exchange!Process
        BY <3>1, <3>2, <3>3, ExchangeDispatch DEF Exchange!Process
      <4>. QED
        BY <4>1 DEF Exchange!HNext
    <3>4. CASE processed
      <4>1. Resend
        BY <3>1, <3>2, <3>4 DEF Dispatch, ResendReq
      <4>2. lastResp' = Buffered(cmdBuf)
        <5>1. ResendReq \in Requests
          BY DEF ResendReq, Requests
        <5>2. TypeOK /\ lastResp' # Uncaught
          BY <1>0 DEF SInv, IInv, NoUncaughtException
        <5>. QED
          BY <3>1, <3>2, <3>4, <5>1, <5>2, DispatchBuffer
      <4>3. answer = Buffered(cmdBuf)
        BY <3>1, <3>4 DEF SInv, HInv
      <4>4. answer # None
        BY <4>3, BufferedNotNone
      <4>5. Exchange!Retransmit
        BY <3>1, <3>2, <3>4, <4>1, <4>2, <4>3, <4>4, ExchangeResendIsResend
           DEF Exchange!Retransmit
      <4>. QED
        BY <4>5 DEF Exchange!HNext
    <3>. QED
      BY <3>3, <3>4
  <2>. QED
    BY <2>1, <2>2
<1>4. CASE SpiPoll
  BY <1>4, <1>h DEF SpiPoll, coreVars, hostVars
<1>5. CASE SpiSendChunk
  <2>1. CASE tx + 1 # NbChunks
    BY <1>5, <2>1, <1>h DEF SpiSendChunk, coreVars
  <2>2. CASE tx + 1 = NbChunks
    <3>1. /\ hostGot = None /\ hostReq # None /\ processed
          /\ txResp = answer /\ answer = Buffered(cmdBuf)
      <4>1. hostGot = None
        <5>1. tx # NbChunks
          BY <1>5, <2>2 DEF SpiSendChunk, SInv, HInv, TransportTypeOK
        <5>. QED
          BY <5>1 DEF SInv, HInv
      <4>. QED
        BY <1>5, <4>1 DEF SpiSendChunk, SInv, HInv
    <3>2. answer # None
      BY <3>1, BufferedNotNone
    <3>3. Exchange!Deliver
      BY <1>5, <2>2, <3>1, <3>2, ExchangeRequests
         DEF SpiSendChunk, coreVars, vars, Exchange!vars, Exchange!Deliver
    <3>. QED
      BY <3>3 DEF Exchange!HNext
  <2>. QED
    BY <2>1, <2>2
<1>6. CASE SpiCsnHigh
  <2>1. CASE hostGot = None
    BY <1>6, <2>1, <1>h DEF SpiCsnHigh, coreVars
  <2>2. CASE hostGot # None
    <3>1. Exchange!Done
      BY <1>6, <2>2, ExchangeRequests DEF SpiCsnHigh, coreVars, vars, Exchange!vars, Exchange!Done
    <3>. QED
      BY <3>1 DEF Exchange!HNext
  <2>. QED
    BY <2>1, <2>2
<1>7. CASE SpiPowerOff
  <2>1. Exchange!Crash
    BY <1>7, ExchangePowerOffIsPowerOff DEF SpiPowerOff, Exchange!Crash
  <2>. QED
    BY <2>1 DEF Exchange!HNext
<1>8. CASE UNCHANGED allVars
  BY <1>8, <1>h DEF allVars, coreVars, hostVars
<1>. QED
  BY <1>1, <1>2, <1>3, <1>4, <1>5, <1>6, <1>7, <1>8 DEF SpiNext

\* Across chip-select aborts, lost responses and power-offs, the transport
\* and its host implement the one-request-at-a-time exchange: each logical
\* request reaches process_input once, a retried frame is a Resend that
\* returns the stored response, and the host receives that response.
THEOREM ExchangeRefinement == SpiSpec => ImplementsExchange
<1>1. SpiInit /\ [][SpiNext]_allVars => []SInv
  BY InitSInv, NextSInv, PTL
<1>2. SInv /\ [SpiNext]_allVars => [Exchange!HNext]_(Exchange!hvars)
  BY NextExchange
<1>. QED
  BY <1>1, <1>2, InitExchange, PTL DEF SpiSpec, ImplementsExchange, Exchange!HSpec

=============================================================================
