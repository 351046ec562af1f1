------------------------------ MODULE Devices ------------------------------
(***************************************************************************)
(* The devices the host drives register by register, each against its own   *)
(* device and the other agents that use it.  chipsec is single-threaded and *)
(* the devices share no state, so a behaviour drives one device; which one  *)
(* is chosen in the initial state.                                          *)
(***************************************************************************)
EXTENDS Integers, Sequences

CONSTANTS EcOffsets, EcBytes, EcPolls, TpmSizes, TpmHeader, TpmData, TpmBurst,
          PspBuffers, PspCalls, PortHalf, PortValues,
          SmbDevices, SmbPresent, SmbOffsets, SmbTypeOffset, SmbBytes, SmbFF, SmbPollCount, SmbPlans

\* Sizes and bounds are numbers; what was never written reads as 0; an offset of the embedded
\* controller's memory is a byte, and every byte is one (ec.py:140).
ASSUME DevicesAssumption ==
  /\ EcOffsets \in SUBSET Nat /\ EcBytes = EcOffsets /\ 0 \in EcBytes /\ EcPolls \in Nat
  /\ TpmSizes \in SUBSET Nat /\ TpmSizes # {} /\ TpmHeader \in Nat \ {0} /\ TpmData \in Nat /\ TpmBurst \in Nat
  /\ PspBuffers # {} /\ PspCalls \in Nat
  /\ PortHalf \in Nat \ {0} /\ PortValues \in SUBSET Nat /\ 0 \in PortValues

VARIABLES
  device,
  eTodo, ePolls, eCall, eGot, eLate, eDisturbed, eWant, eIbf, eObf, eInp, eOutp, eCmd, eMem,
  tPc, tPhase, tSize, tCount, tBurst, tGot, tRequestedUse, tGranted, tAbandoned, tHolder, tWanted,
  tSeized, tState, tFifo, tRsp, tDsize,
  pPc, pCalls, pBuf, pBuffer, pOwner, pContent, pLo, pHi, pReady, pJob, pGaveUp, pStray,
  iPair, iCall, iPc, iOff, iGot, iIdx, iNmi, iCells, iBefore, iTouched, iRef,
  sStart, sBusy, sIntr, sErr, sTxn, sSlva, sCmd, sD0, sMem, sPc, sPlan, sI, sPolls, sBuf, sClean, sOwn,
  sEnded, sSawIntr

eVars == <<eTodo, ePolls, eCall, eGot, eLate, eDisturbed, eWant, eIbf, eObf, eInp, eOutp, eCmd, eMem>>
tVars == <<tPc, tPhase, tSize, tCount, tBurst, tGot, tRequestedUse, tGranted, tAbandoned, tHolder, tWanted,
           tSeized, tState, tFifo, tRsp, tDsize>>
pVars == <<pPc, pCalls, pBuf, pBuffer, pOwner, pContent, pLo, pHi, pReady, pJob, pGaveUp, pStray>>
iVars == <<iPair, iCall, iPc, iOff, iGot, iIdx, iNmi, iCells, iBefore, iTouched, iRef>>
sVars == <<sStart, sBusy, sIntr, sErr, sTxn, sSlva, sCmd, sD0, sMem, sPc, sPlan, sI, sPolls, sBuf, sClean,
           sOwn, sEnded, sSawIntr>>
vars  == <<device, eVars, tVars, pVars, iVars, sVars>>

EC == INSTANCE EmbeddedController WITH
  Offsets <- EcOffsets, Bytes <- EcBytes, MaxPolls <- EcPolls, todo <- eTodo, polls <- ePolls,
  call <- eCall, got <- eGot, late <- eLate, disturbed <- eDisturbed, want <- eWant, ibf <- eIbf,
  obf <- eObf, inp <- eInp, outp <- eOutp, cmd <- eCmd, mem <- eMem

TPM == INSTANCE TpmFifo WITH
  Sizes <- TpmSizes, HeaderSize <- TpmHeader, MaxData <- TpmData, MaxBurst <- TpmBurst,
  pc <- tPc, phase <- tPhase, size <- tSize, count <- tCount, burst <- tBurst, got <- tGot,
  requestedUse <- tRequestedUse, granted <- tGranted, abandoned <- tAbandoned, holder <- tHolder, wanted <- tWanted,
  seized <- tSeized, state <- tState, fifo <- tFifo, rsp <- tRsp, dsize <- tDsize

PSP == INSTANCE PspMailbox WITH
  Buffers <- PspBuffers, MaxCalls <- PspCalls, pc <- pPc, calls <- pCalls, buf <- pBuf,
  buffer <- pBuffer, owner <- pOwner, content <- pContent, lo <- pLo, hi <- pHi, ready <- pReady,
  job <- pJob, gaveUp <- pGaveUp, stray <- pStray

Ports == INSTANCE IndexPorts WITH
  Half <- PortHalf, Values <- PortValues, pair <- iPair, call <- iCall, pc <- iPc, off <- iOff,
  got <- iGot, idx <- iIdx, nmi <- iNmi, cells <- iCells, before <- iBefore,
  touched <- iTouched, ref <- iRef

SMB == INSTANCE SMBus WITH
  Devices <- SmbDevices, Present <- SmbPresent, Offsets <- SmbOffsets, TypeOffset <- SmbTypeOffset,
  Bytes <- SmbBytes, FF <- SmbFF, PollCount <- SmbPollCount, Plans <- SmbPlans, start <- sStart,
  busy <- sBusy, intr <- sIntr, err <- sErr, txn <- sTxn, slva <- sSlva, cmd <- sCmd, d0 <- sD0,
  mem <- sMem, pc <- sPc, plan <- sPlan, i <- sI, polls <- sPolls, buf <- sBuf, clean <- sClean,
  own <- sOwn, ended <- sEnded, sawIntr <- sSawIntr

\* The calls on the SMBus are sequences of byte accesses to its devices.
ASSUME SMBusAssumption == SMB!Parameters

Init ==
  /\ device \in {"ec", "tpm", "psp", "ports", "smbus"}
  /\ EC!Init /\ TPM!Init /\ PSP!Init /\ Ports!Init /\ SMB!Init
  /\ device # "tpm" => tHolder = "none"
  /\ device # "ports" => iPair = "smn"
  /\ device # "smbus" => SMB!Resting

EcNext   == device = "ec" /\ EC!Next /\ UNCHANGED <<device, tVars, pVars, iVars, sVars>>
TpmNext  == device = "tpm" /\ TPM!Next /\ UNCHANGED <<device, eVars, pVars, iVars, sVars>>
PspNext  == device = "psp" /\ PSP!Next /\ UNCHANGED <<device, eVars, tVars, iVars, sVars>>
PortNext == device = "ports" /\ Ports!Next /\ UNCHANGED <<device, eVars, tVars, pVars, sVars>>
SmbNext  == device = "smbus" /\ SMB!Next /\ UNCHANGED <<device, eVars, tVars, pVars, iVars>>

Next == EcNext \/ TpmNext \/ PspNext \/ PortNext \/ SmbNext

(***************************************************************************)
(* Fairness: the host goes on with a call it has begun.  Of the devices     *)
(* only the TPM is assumed to make progress, since its status is polled     *)
(* without a limit: it grants, gets ready, executes, and a host that asks   *)
(* for the burst count again and again is given a burst.                    *)
(***************************************************************************)
EcHost  == device = "ec" /\ EC!Host /\ UNCHANGED <<device, tVars, pVars, iVars, sVars>>
PspHost == device = "psp" /\ PSP!Host /\ UNCHANGED <<device, eVars, tVars, iVars, sVars>>
TpmHost == device = "tpm" /\ TPM!Host /\ UNCHANGED <<device, eVars, pVars, iVars, sVars>>
TpmSide == device = "tpm" /\ TPM!Tpm /\ UNCHANGED <<device, eVars, pVars, iVars, sVars>>
TpmBurstGiven == /\ device = "tpm" /\ \E b \in 1 .. TpmBurst : TPM!ReadBurst(b)
                 /\ UNCHANGED <<device, eVars, pVars, iVars, sVars>>
SmbHost == device = "smbus" /\ SMB!HostStep /\ UNCHANGED <<device, eVars, tVars, pVars, iVars>>

Fairness == /\ WF_vars(EcHost) /\ WF_vars(PspHost) /\ WF_vars(SmbHost)
            /\ WF_vars(TpmHost) /\ WF_vars(TpmSide) /\ WF_vars(TpmBurstGiven)

Spec == Init /\ [][Next]_vars /\ Fairness

\* The registers, buffers and locals of every device keep their kinds and bounds; the
\* counters of the waits and bursts stay in range.
TypeOK == EC!TypeOK /\ TPM!TypeOK /\ PSP!TypeOK /\ Ports!TypeOK

\* EmbeddedController: a read returns what was written before (ec.py:94 overtakes nothing).
EcReadYourWrites == EC!ReadYourWrites

\* TpmFifo: with its locality a command is sent whole and its response read whole, and a
\* command that returned keeps neither the locality nor a request (tpm.py:242).
TpmCommandsExact == TPM!ResponseGenuine /\ TPM!LocalityReleased

\* PspMailbox: the buffer returned is the answer to this command, and only commands given up
\* (psp.py:96) let the PSP write to memory not lent to it.
PspCommandsExact == PSP!AnswerGenuine /\ PSP!OnlyGivenUpBuffersAreHit

\* IndexPorts: undisturbed reads return, and writes reach, the register they name, and a dump
\* restores the index port (cmos.py:59, :76).
PortsExact == Ports!ReadsExact /\ Ports!WritesExact

\* SMBus: what read_byte takes after a clean start and an INTR is the byte it asked for
\* (smbus.py:164), and write_byte then returns True only for a byte that the device holds.
ReadIsGenuine == SMB!ReadIsGenuine
WriteIsDone == SMB!WriteIsDone

\* Calls to the embedded controller, the PSP and the SMBus return whatever the device does; a TPM
\* command with a locality and something to send returns if the TPM makes progress (tpm.py:293).
CallsReturn ==
  /\ device = "ec" => EC!Returns
  /\ device = "psp" => PSP!Returns
  /\ device = "smbus" => SMB!CallsReturn
  /\ device = "tpm" => TPM!Returns
=============================================================================
