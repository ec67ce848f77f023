--------------------------- MODULE SpiTropicProofs ---------------------------
(* Proofs about SpiTropic: it implements TropicModel, and the host reads   *)
(* the response to its own request, for every size and bound.              *)
EXTENDS SpiTropic, TropicModelProofs, SequenceTheorems, TLAPS

\* What a Resend answers with the command buffer b.
Buffered(b) == IF b = None THEN Resp("GEN_ERR", "NONE") ELSE b

\* The inductive invariant behind HostGetsItsAnswer: no frame mixes bytes
\* of two chip-select windows, a window only opens for a pending request,
\* the outbound frame is the answer, and once the request was processed
\* the command buffer holds what a Resend must return.
HInv ==
    /\ TransportTypeOK
    /\ ~mixed
    /\ fsm = "IDLE" => rx = 0
    /\ hostReq = None => fsm = "IDLE" /\ hostGot = None
    /\ fsm \in {"RECEIVING", "PROCESSING"} => hostGot = None
    /\ hostGot # None => fsm = "SENDING" /\ tx = NbChunks
    /\ fsm = "RECEIVING" => frame = IF processed THEN ResendReq ELSE hostReq
    /\ fsm \in {"PROCESSING", "SENDING"} => txResp = answer /\ processed
    /\ processed /\ hostReq # None => answer = Buffered(cmdBuf)
    /\ HostGetsItsAnswer

USE NbSlotsAssumption, BitWidthAssumption, BoundsAssumption,
    EncryptionAssumption, NoneAssumption, TransportAssumption,
    ScheduleAssumption, RequestsAssumption, HostCiphertextsAssumption

\* The busy schedule has at least one decision.
LEMMA ScheduleLen == Len(Schedule) \in Nat \ {0}
BY EmptySeq

-----------------------------------------------------------------------------
(* Refinement: every step is a TropicModel step or leaves its state alone. *)

\* A complete frame runs one of TropicModel's actions.
LEMMA DispatchNext ==
    ASSUME NEW r \in Requests, Dispatch(r)
    PROVE  Next
<1>1. CASE r = [kind |-> "GET_INFO"]
  BY <1>1 DEF Dispatch, Next
<1>2. CASE r = [kind |-> "ENCRYPTED_SESSION_ABT"]
  BY <1>2 DEF Dispatch, Next
<1>3. CASE r = [kind |-> "RESEND"]
  BY <1>3 DEF Dispatch, Next
<1>4. CASE r \in [kind : {"HANDSHAKE"}, slot : 0 .. NbSlots]
  <2>1. r.kind = "HANDSHAKE" /\ r.slot \in 0 .. NbSlots
    BY <1>4
  <2>2. Handshake(r.slot)
    BY <2>1 DEF Dispatch
  <2>. QED
    BY <2>1, <2>2 DEF Next
<1>5. CASE r \in [kind : {"ENCRYPTED_CMD"}, ct : HostCiphertexts]
  <2>1. r.kind = "ENCRYPTED_CMD" /\ r.ct \in Ciphertexts
    BY <1>5
  <2>2. EncryptedCmd(r.ct)
    BY <2>1 DEF Dispatch
  <2>. QED
    BY <2>1, <2>2 DEF Next
<1>6. CASE r \in [kind : {"BAD_FRAME"}, fault : Faults]
  <2>1. r.kind = "BAD_FRAME" /\ r.fault \in Faults
    BY <1>6
  <2>2. RejectFrame(r.fault)
    BY <2>1 DEF Dispatch
  <2>. QED
    BY <2>1, <2>2 DEF Next
<1>. QED
  BY <1>1, <1>2, <1>3, <1>4, <1>5, <1>6 DEF Requests

\* The one non-stuttering step a transport step may take is a complete
\* frame, and that frame is one the host framed.
LEMMA NextRefines == HInv /\ [SpiNext]_allVars => [Next]_vars
<1>. SUFFICES ASSUME HInv, [SpiNext]_allVars PROVE [Next]_vars
  OBVIOUS
<1>1. ASSUME NEW r \in Requests, HostStart(r) PROVE UNCHANGED vars
  BY <1>1 DEF HostStart, coreVars
<1>2. CASE SpiCsnLow
  BY <1>2 DEF SpiCsnLow, coreVars
<1>3. CASE SpiReceive
  <2>1. CASE rx + 1 < FrameLen
    BY <1>3, <2>1 DEF SpiReceive, coreVars
  <2>2. CASE ~(rx + 1 < FrameLen)
    <3>1. frame \in Requests
      <4>1. hostReq \in Requests
        BY <1>3 DEF SpiReceive, HInv, TransportTypeOK
      <4>2. ResendReq \in Requests
        BY DEF ResendReq, Requests
      <4>. QED
        BY <1>3, <4>1, <4>2 DEF SpiReceive, HInv
    <3>2. Dispatch(frame)
      BY <1>3, <2>2 DEF SpiReceive, HInv
    <3>. QED
      BY <3>1, <3>2, DispatchNext
  <2>. QED
    BY <2>1, <2>2
<1>4. CASE SpiPoll
  BY <1>4 DEF SpiPoll, coreVars
<1>5. CASE SpiSendChunk
  BY <1>5 DEF SpiSendChunk, coreVars
<1>6. CASE SpiCsnHigh
  BY <1>6 DEF SpiCsnHigh, coreVars
<1>7. CASE SpiPowerOff
  BY <1>7 DEF SpiPowerOff, Next
<1>8. CASE UNCHANGED allVars
  BY <1>8 DEF allVars, coreVars
<1>. QED
  BY <1>1, <1>2, <1>3, <1>4, <1>5, <1>6, <1>7, <1>8 DEF SpiNext

-----------------------------------------------------------------------------
(* The host's answer *)

\* Every request but a Resend stores its response in the command buffer;
\* a Resend answers from the buffer and leaves it alone.
LEMMA DispatchBuffer ==
    ASSUME TypeOK, NEW r \in Requests, Dispatch(r), lastResp' # Uncaught
    PROVE  IF r = ResendReq THEN lastResp' = Buffered(cmdBuf) /\ cmdBuf' = cmdBuf
                            ELSE cmdBuf' = lastResp' /\ lastResp' \in Responses
<1>1. CASE r = [kind |-> "GET_INFO"]
  BY <1>1 DEF Dispatch, GetInfo, Reply, Resp, Responses, L2Statuses,
              L3Results, ResendReq
<1>2. CASE r = [kind |-> "ENCRYPTED_SESSION_ABT"]
  BY <1>2 DEF Dispatch, EncryptedSessionAbt, Reply, Resp, Responses,
              L2Statuses, L3Results, ResendReq
<1>3. CASE r = [kind |-> "RESEND"]
  BY <1>3 DEF Dispatch, Resend, Buffered, ResendReq
<1>4. CASE r \in [kind : {"HANDSHAKE"}, slot : 0 .. NbSlots]
  <2>0. r.kind = "HANDSHAKE"
    BY <1>4
  <2>1. r # ResendReq /\ Handshake(r.slot)
    BY <2>0 DEF Dispatch, ResendReq
  <2>. QED
    BY <2>1 DEF Handshake, Reply, Resp, Responses, L2Statuses, L3Results
<1>5. CASE r \in [kind : {"ENCRYPTED_CMD"}, ct : HostCiphertexts]
  <2>0. r.kind = "ENCRYPTED_CMD" /\ r.ct \in Ciphertexts
    BY <1>5
  <2>1. r # ResendReq /\ EncryptedCmd(r.ct) /\ r.ct \in Ciphertexts
    BY <2>0 DEF Dispatch, ResendReq
  <2>2. CASE ~DecryptCommand(r.ct)
    BY <2>1, <2>2 DEF EncryptedCmd, Reply, Resp, Responses, L2Statuses,
                      L3Results
  <2>3. CASE DecryptCommand(r.ct)
    <3>. DEFINE check == CheckAccessPrivileges(Config[GuardOf(r.ct.cmd)])
                out == IF check = "ok" THEN ExecuteL3(r.ct.cmd)
                       ELSE <<pkeys, iConfig, "UNAUTHORIZED">>
    <3>1. check # "not_paired"
      BY <2>1, <2>3 DEF EncryptedCmd
    <3>2. cmdBuf' = lastResp' /\ lastResp' = Resp("REQ_OK", out[3])
      BY <2>1, <2>3, <3>1 DEF EncryptedCmd, Reply
    <3>3. out[3] \in L3Results
      <4>1. r.ct.cmd \in L3Commands
        BY <2>1 DEF Ciphertexts
      <4>. QED
        BY <4>1, ExecuteL3Type DEF L3Results
    <3>. QED
      BY <2>1, <3>2, <3>3 DEF Resp, Responses, L2Statuses
  <2>. QED
    BY <2>2, <2>3
<1>6. CASE r \in [kind : {"BAD_FRAME"}, fault : Faults]
  <2>0. r.kind = "BAD_FRAME"
    BY <1>6
  <2>1. r # ResendReq /\ RejectFrame(r.fault)
    BY <2>0 DEF Dispatch, ResendReq
  <2>. QED
    BY <2>1 DEF RejectFrame, Reply, Resp, Responses, L2Statuses, L3Results
<1>. QED
  BY <1>1, <1>2, <1>3, <1>4, <1>5, <1>6 DEF Requests

LEMMA InitHInv == SpiInit => HInv
<1>. SUFFICES ASSUME SpiInit PROVE HInv
  OBVIOUS
<1>1. TransportTypeOK
  <2>1. busyIdx \in 1 .. Len(Schedule) /\ rx \in 0 .. FrameLen - 1
        /\ tx \in 0 .. NbChunks /\ faults \in 0 .. MaxFaults
    BY ScheduleLen DEF SpiInit
  <2>. QED
    BY <2>1, Zenon DEF SpiInit, TransportTypeOK
<1>. QED
  BY <1>1 DEF SpiInit, HInv, HostGetsItsAnswer

LEMMA NextHInv ==
    ASSUME HInv, TypeOK, TypeOK', NoUncaughtException', [SpiNext]_allVars
    PROVE  HInv'
<1>1. ASSUME NEW r \in Requests, HostStart(r) PROVE HInv'
  <2>1. TransportTypeOK'
    BY <1>1 DEF HostStart, coreVars, vars, spiVars, hostVars, HInv, TransportTypeOK
  <2>. QED
    BY <1>1, <2>1 DEF HostStart, coreVars, vars, spiVars, hostVars, HInv, HostGetsItsAnswer, Buffered
<1>2. CASE SpiCsnLow
  <2>1. TransportTypeOK'
    BY <1>2 DEF SpiCsnLow, coreVars, vars, spiVars, hostVars, HInv, TransportTypeOK,
           ResendReq, Requests
  <2>2. ~(rx > 0)
    BY <1>2 DEF SpiCsnLow, HInv, TransportTypeOK
  <2>3. ~mixed'
    BY <1>2, <2>2, Zenon DEF SpiCsnLow
  <2>. QED
    BY <1>2, <2>1, <2>3 DEF SpiCsnLow, coreVars, vars, spiVars, hostVars, HInv,
                            HostGetsItsAnswer, Buffered
<1>3. CASE SpiReceive
  <2>1. CASE rx + 1 < FrameLen
    <3>1. TransportTypeOK'
      BY <1>3, <2>1 DEF SpiReceive, coreVars, vars, spiVars, hostVars, HInv, TransportTypeOK
    <3>. QED
      BY <1>3, <2>1, <3>1 DEF SpiReceive, coreVars, vars, spiVars, hostVars, HInv, HostGetsItsAnswer, Buffered
  <2>2. CASE ~(rx + 1 < FrameLen)
    <3>1. hostReq \in Requests /\ ~mixed /\ hostGot = None
      BY <1>3 DEF SpiReceive, coreVars, vars, spiVars, hostVars, HInv, TransportTypeOK
    <3>2. /\ Dispatch(frame)
          /\ rx' = 0 /\ fsm' = "PROCESSING" /\ txResp' = lastResp'
          /\ processed' = TRUE
          /\ answer' = IF ~processed THEN lastResp' ELSE answer
          /\ UNCHANGED <<csn, busyIdx, tx, hostReq, frame, hostGot, mixed, faults>>
      BY <1>3, <2>2, <3>1 DEF SpiReceive
    <3>3. frame = IF processed THEN ResendReq ELSE hostReq
      BY <1>3 DEF SpiReceive, coreVars, vars, spiVars, hostVars, HInv
    <3>4. lastResp' # Uncaught
      BY DEF NoUncaughtException
    <3>5. ResendReq \in Requests
      BY DEF ResendReq, Requests
    <3>6. answer' = Buffered(cmdBuf') /\ lastResp' = answer'
          /\ lastResp' \in Responses \cup {Uncaught, None}
      <4>1. CASE processed
        <5>1. lastResp' = Buffered(cmdBuf) /\ cmdBuf' = cmdBuf
          BY <3>2, <3>3, <3>4, <3>5, <4>1, DispatchBuffer
        <5>2. answer = Buffered(cmdBuf)
          BY <3>1, <4>1, NoneAssumption DEF HInv
        <5>. QED
          BY <3>2, <4>1, <5>1, <5>2 DEF TypeOK
      <4>2. CASE ~processed /\ frame = ResendReq
        BY <3>1, <3>2, <3>4, <3>5, <4>2, DispatchBuffer DEF TypeOK
      <4>3. CASE ~processed /\ frame # ResendReq
        <5>1. cmdBuf' = lastResp' /\ lastResp' \in Responses
          BY <3>1, <3>2, <3>3, <3>4, <4>3, DispatchBuffer
        <5>. QED
          BY <3>2, <4>3, <5>1, NoneAssumption DEF Buffered
      <4>. QED
        BY <4>1, <4>2, <4>3
    <3>7. TransportTypeOK'
      BY <1>3, <3>1, <3>2, <3>6 DEF HInv, TransportTypeOK, SpiReceive
    <3>. QED
      BY <1>3, <3>1, <3>2, <3>6, <3>7 DEF HInv, HostGetsItsAnswer, Buffered, SpiReceive
  <2>. QED
    BY <2>1, <2>2
<1>4. CASE SpiPoll
  <2>1. NextBusyIdx \in 1 .. Len(Schedule)
    BY ScheduleLen DEF NextBusyIdx, HInv, TransportTypeOK
  <2>2. TransportTypeOK'
    BY <1>4, <2>1 DEF SpiPoll, coreVars, vars, spiVars, hostVars, HInv, TransportTypeOK
  <2>. QED
    BY <1>4, <2>2 DEF SpiPoll, coreVars, vars, spiVars, hostVars, HInv, HostGetsItsAnswer, Buffered
<1>5. CASE SpiSendChunk
  <2>1. TransportTypeOK'
    BY <1>5 DEF SpiSendChunk, coreVars, vars, spiVars, hostVars, HInv, TransportTypeOK
  <2>. QED
    BY <1>5, <2>1 DEF SpiSendChunk, coreVars, vars, spiVars, hostVars, HInv, HostGetsItsAnswer, Buffered
<1>6. CASE SpiCsnHigh
  <2>1. TransportTypeOK'
    BY <1>6 DEF SpiCsnHigh, coreVars, vars, spiVars, hostVars, HInv, TransportTypeOK
  <2>. QED
    BY <1>6, <2>1 DEF SpiCsnHigh, coreVars, vars, spiVars, hostVars, HInv, HostGetsItsAnswer, Buffered
<1>7. CASE SpiPowerOff
  <2>1. TransportTypeOK'
    BY <1>7, ScheduleLen DEF SpiPowerOff, coreVars, vars, spiVars, hostVars, HInv, TransportTypeOK
  <2>. QED
    BY <1>7, <2>1 DEF SpiPowerOff, coreVars, vars, spiVars, hostVars, HInv, HostGetsItsAnswer, Buffered
<1>8. CASE UNCHANGED allVars
  <2>1. TransportTypeOK'
    BY <1>8, Zenon DEF allVars, coreVars, vars, spiVars, hostVars, HInv,
                       TransportTypeOK
  <2>. QED
    BY <1>8, <2>1 DEF allVars, coreVars, vars, spiVars, hostVars, HInv,
                      HostGetsItsAnswer, Buffered
<1>. QED
  BY <1>1, <1>2, <1>3, <1>4, <1>5, <1>6, <1>7, <1>8 DEF SpiNext

-----------------------------------------------------------------------------
(* The composed system: the BaseModel invariant and the transport invariant *)

SInv == IInv /\ HInv

LEMMA InitSInv == SpiInit => SInv
BY InitIInv, InitHInv DEF SpiInit, SInv

LEMMA NextSInv == SInv /\ [SpiNext]_allVars => SInv'
<1>. SUFFICES ASSUME SInv, [SpiNext]_allVars PROVE SInv'
  OBVIOUS
<1>1. [Next]_vars
  BY NextRefines DEF SInv
<1>2. IInv'
  BY <1>1, NextIInv DEF SInv
<1>3. HInv'
  BY <1>2, NextHInv DEF SInv, IInv
<1>. QED
  BY <1>2, <1>3 DEF SInv

\* Whatever the host aborts, resends or powers off, a response it finishes
\* reading (the last chunk spi_send returns) is the one process_input produced
\* for the host's own request, never a reply left from an earlier frame.
THEOREM AnswerTheorem == SpiSpec => []HostGetsItsAnswer
<1>1. SpiInit /\ [][SpiNext]_allVars => []SInv
  BY InitSInv, NextSInv, PTL
<1>. QED
  BY <1>1, PTL DEF SpiSpec, SInv, HInv

=============================================================================
