------------------------------ MODULE SpiTropic ------------------------------
(***************************************************************************)
(* The chip seen through its SPI transport.  A host drives chip select and *)
(* sends bytes (BaseModel.spi_drive_csn_low / spi_drive_csn_high /         *)
(* spi_send); the transport FSM (internal.spi_fsm, outside src/, modelled  *)
(* from the spec, section 4.3) accumulates a request frame, hands it to    *)
(* BaseModel.process_input when the last byte arrives, reports busy per    *)
(* its busy schedule and then streams the response in chunks.  The L2/L3   *)
(* behaviour of a complete frame is TropicModel's, which this module       *)
(* extends: one frame completion is one step of TropicModel's next-state   *)
(* relation.                                                               *)
(*                                                                         *)
(* The host is the test driver: it issues one logical request at a time,   *)
(* may release chip select at any moment (an abort, a lost frame), and     *)
(* recovers the way the L2 protocol intends: it re-sends a request the chip *)
(* never received, and asks for a Resend of a response it lost.            *)
(***************************************************************************)
EXTENDS L2Requests, Sequences

CONSTANTS FrameLen,   \* bytes of one request frame
          NbChunks,   \* transport cycles needed to stream one response frame
          Schedule,   \* the busy schedule: TRUE is a cycle answered with busy
          MaxFaults   \* aborts and power-offs the host may cause in a run

\* Transport FSM state.
VARIABLES csn, fsm, rx, busyIdx, tx, txResp
\* Host driver state; mixed and answer are history variables.
VARIABLES hostReq, processed, frame, hostGot, answer, mixed, faults

\* The exchange the host sees: its pending request, the response the chip
\* produced for it once processed, and the response it received.
Exchange == INSTANCE HostExchange
                WITH pending   <- hostReq,
                     result    <- IF processed /\ hostReq # None THEN answer ELSE None,
                     delivered <- hostGot

coreVars == vars
spiVars == <<csn, fsm, rx, busyIdx, tx, txResp>>
hostVars == <<hostReq, processed, frame, hostGot, answer, mixed, faults>>
allVars == <<coreVars, spiVars, hostVars>>

ASSUME TransportAssumption ==
    /\ FrameLen \in Nat \ {0}
    /\ NbChunks \in Nat \ {0}
    /\ MaxFaults \in Nat

-----------------------------------------------------------------------------
(* The busy schedule.  ModelConfigurationModel (configuration_file_model)  *)
(* types busy_iter as Optional[List[StrictBool]]: any list of booleans,    *)
(* the empty list and a list of TRUE only included.  The model takes the   *)
(* schedule cyclically and needs at least one entry.                       *)

ASSUME ScheduleAssumption == Schedule \in Seq(BOOLEAN) \ {<<>>}

-----------------------------------------------------------------------------

SpiInit ==
    /\ Init
    /\ csn = "HIGH"
    /\ fsm = "IDLE"
    /\ rx = 0
    /\ busyIdx = 1
    /\ tx = 0
    /\ txResp = None
    /\ hostReq = None
    /\ processed = FALSE
    /\ frame = None
    /\ hostGot = None
    /\ answer = None
    /\ mixed = FALSE
    /\ faults = 0

\* The host picks its next logical request.
HostStart(r) ==
    /\ hostReq = None
    /\ InBounds(r)
    /\ hostReq' = r
    /\ processed' = FALSE
    /\ answer' = None
    /\ UNCHANGED <<coreVars, spiVars, frame, hostGot, mixed, faults>>

\* A host that frames its request again after losing the response, instead
\* of asking for a Resend.
SpiCsnLowRepeat ==
    /\ fsm = "IDLE"
    /\ hostReq # None
    /\ hostGot = None
    /\ csn' = "LOW"
    /\ fsm' = "RECEIVING"
    /\ frame' = hostReq
    /\ mixed' = (rx > 0)
    /\ UNCHANGED <<coreVars, rx, busyIdx, tx, txResp, hostReq, processed,
                   hostGot, answer, faults>>

\* spi_drive_csn_low: valid from IDLE only.  The host frames its request,
\* or a Resend when the chip already processed the request.
SpiCsnLow ==
    /\ fsm = "IDLE"
    /\ hostReq # None
    /\ hostGot = None
    /\ csn' = "LOW"
    /\ fsm' = "RECEIVING"
    /\ frame' = IF processed THEN ResendReq ELSE hostReq
    /\ mixed' = (rx > 0)
    /\ UNCHANGED <<coreVars, rx, busyIdx, tx, txResp, hostReq, processed,
                   hostGot, answer, faults>>

\* spi_send while RECEIVING: one byte of the frame; the last one hands the
\* frame to process_input, whose response becomes the outbound frame.
SpiReceive ==
    /\ fsm = "RECEIVING"
    /\ IF rx + 1 < FrameLen
       THEN /\ rx' = rx + 1
            /\ UNCHANGED <<coreVars, fsm, txResp, processed, answer>>
       ELSE /\ IF mixed THEN RejectFrame("crc") ELSE Dispatch(frame)
            /\ rx' = 0
            /\ fsm' = "PROCESSING"
            /\ txResp' = lastResp'
            /\ processed' = TRUE
            /\ answer' = IF ~processed /\ ~mixed THEN lastResp' ELSE answer
    /\ UNCHANGED <<csn, busyIdx, tx, hostReq, frame, hostGot, mixed, faults>>

\* Sampling the busy schedule advances it by one decision.
NextBusyIdx == (busyIdx % Len(Schedule)) + 1

\* A poll that samples the schedule without consuming the decision.
SpiPollStuck ==
    /\ fsm = "PROCESSING"
    /\ fsm' = IF Schedule[busyIdx] THEN "PROCESSING" ELSE "SENDING"
    /\ UNCHANGED <<coreVars, csn, rx, busyIdx, tx, txResp, hostVars>>

\* spi_send while PROCESSING: busy per the schedule, else start SENDING.
SpiPoll ==
    /\ fsm = "PROCESSING"
    /\ busyIdx' = NextBusyIdx
    /\ fsm' = IF Schedule[busyIdx] THEN "PROCESSING" ELSE "SENDING"
    /\ UNCHANGED <<coreVars, csn, rx, tx, txResp, hostVars>>

\* A send that keeps streaming past the end of the response frame.
SpiSendChunkPastEnd ==
    /\ fsm = "SENDING"
    /\ tx' = tx + 1
    /\ hostGot' = IF tx + 1 = NbChunks THEN txResp ELSE hostGot
    /\ UNCHANGED <<coreVars, csn, fsm, rx, busyIdx, txResp, hostReq,
                   processed, frame, answer, mixed, faults>>

\* spi_send while SENDING: one chunk of the response; the host holds the
\* response once the last chunk is out.
SpiSendChunk ==
    /\ fsm = "SENDING"
    /\ tx < NbChunks
    /\ tx' = tx + 1
    /\ hostGot' = IF tx + 1 = NbChunks THEN txResp ELSE hostGot
    /\ UNCHANGED <<coreVars, csn, fsm, rx, busyIdx, txResp, hostReq,
                   processed, frame, answer, mixed, faults>>

\* A chip-select release that keeps the partially received frame.
SpiCsnHighKeepRx ==
    /\ csn = "LOW"
    /\ hostGot = None => faults < MaxFaults
    /\ csn' = "HIGH"
    /\ fsm' = "IDLE"
    /\ tx' = 0
    /\ txResp' = None
    /\ IF hostGot # None
       THEN /\ hostReq' = None
            /\ hostGot' = None
            /\ UNCHANGED faults
       ELSE /\ faults' = faults + 1
            /\ UNCHANGED <<hostReq, hostGot>>
    /\ UNCHANGED <<coreVars, rx, busyIdx, processed, frame, answer, mixed>>

\* spi_drive_csn_high: back to IDLE from any state, the partial inbound
\* frame and the outbound frame discarded.  Before the host holds its
\* response this is an abort, one of the MaxFaults.
SpiCsnHigh ==
    /\ csn = "LOW"
    /\ hostGot = None => faults < MaxFaults
    /\ csn' = "HIGH"
    /\ fsm' = "IDLE"
    /\ rx' = 0
    /\ tx' = 0
    /\ txResp' = None
    /\ IF hostGot # None
       THEN /\ hostReq' = None
            /\ hostGot' = None
            /\ UNCHANGED faults
       ELSE /\ faults' = faults + 1
            /\ UNCHANGED <<hostReq, hostGot>>
    /\ UNCHANGED <<coreVars, busyIdx, processed, frame, answer, mixed>>

\* BaseModel.power_off: the core's power-off and spi_fsm.reset(); the host
\* starts over after a power cycle.
SpiPowerOff ==
    /\ faults < MaxFaults
    /\ PowerOff
    /\ csn' = "HIGH"
    /\ fsm' = "IDLE"
    /\ rx' = 0
    /\ busyIdx' = 1
    /\ tx' = 0
    /\ txResp' = None
    /\ hostReq' = None
    /\ hostGot' = None
    /\ faults' = faults + 1
    /\ UNCHANGED <<processed, frame, answer, mixed>>

SpiNext ==
    \/ \E r \in Requests : HostStart(r)
    \/ SpiCsnLow
    \/ SpiReceive
    \/ SpiPoll
    \/ SpiSendChunk
    \/ SpiCsnHigh
    \/ SpiPowerOff

\* The host keeps driving an exchange it has started; the transport only
\* moves when the host calls it, so these are the host's obligations.
Fairness ==
    /\ WF_allVars(SpiCsnLow)
    /\ WF_allVars(SpiReceive)
    /\ WF_allVars(SpiPoll)
    /\ WF_allVars(SpiSendChunk)

SpiSpec == SpiInit /\ [][SpiNext]_allVars /\ Fairness

-----------------------------------------------------------------------------
(* Properties *)

\* The transport and host variables keep their types, chip select is low
\* exactly while the FSM is out of IDLE, and the counters stay in range.
TransportTypeOK ==
    /\ csn \in {"HIGH", "LOW"}
    /\ fsm \in {"IDLE", "RECEIVING", "PROCESSING", "SENDING"}
    /\ (fsm = "IDLE") <=> (csn = "HIGH")
    /\ rx \in 0 .. FrameLen - 1
    /\ busyIdx \in 1 .. Len(Schedule)
    /\ tx \in 0 .. NbChunks
    /\ txResp \in Responses \cup {Uncaught, None}
    /\ hostReq \in Requests \cup {None}
    /\ processed \in BOOLEAN
    /\ frame \in Requests \cup {None}
    /\ hostGot \in Responses \cup {Uncaught, None}
    /\ answer \in Responses \cup {Uncaught, None}
    /\ mixed \in BOOLEAN
    /\ faults \in 0 .. MaxFaults

\* The type invariant of the whole system.
SpiTypeOK == TypeOK /\ TransportTypeOK

\* Whatever chip-select aborts, lost responses and Resend recoveries happen
\* on the way, the response the host finally reads is the one the
\* dispatcher produced for the host's own request frame (spi_drive_csn_high
\* discarding partial frames, the command buffer keeping the last response).
HostGetsItsAnswer == hostGot # None => hostGot = answer

\* A request the host has started is answered (or dropped by a power-off),
\* provided the host keeps calling the transport and the busy schedule
\* eventually reports ready.
HostProgress == hostReq # None ~> (hostGot # None \/ hostReq = None)

\* The transport implements the exchange the host relies on: across
\* aborts, lost responses and power-offs, each logical request is executed
\* by process_input once, a retried frame is a Resend returning the stored
\* response, and the host receives that response.
ImplementsExchange == Exchange!HSpec

=============================================================================
