------------------------------ MODULE SpiFlash ------------------------------
(***************************************************************************)
(* SPI flash access through the PCH hardware sequencer: class SPI of       *)
(* chipsec/hal/spi.py.  The host takes one step per access of a controller *)
(* register (FDATA, FADDR, HSFC, HSFS), because the flash controller runs   *)
(* beside it and a cycle may end between any two of them.  The controller   *)
(* itself is outside the repository: it is modelled from the way spi.py     *)
(* drives it (SCIP, write-one-to-clear AEL/FCERR/FDONE, FGO).               *)
(*                                                                         *)
(* A byte is the set of its 1 bits, so that programming NOR flash (which    *)
(* can only clear bits) is intersection and an erased byte is Bits.         *)
(***************************************************************************)
EXTENDS Integers, Sequences

CONSTANTS FlashSize,    \* bytes that FADDR can address (PCH_RCBA_SPI_FADDR_MASK + 1)
          Bits,         \* the bits of a byte
          DefDBC,       \* SPI_READ_WRITE_DEF_DBC: bytes of a small cycle
          MaxDBC,       \* SPI_READ_WRITE_MAX_DBC: bytes in FDATA0..FDATA15
          JedecDBC,     \* the byte count field of a JEDEC ID cycle
          EraseBlock,   \* bytes erased by one erase cycle
          PollLimit,    \* reads of HSFS before the 0.1 s sleep
          RDenied,      \* addresses the controller refuses to read
          WDenied,      \* addresses the controller refuses to program or erase
          JedecId,      \* what the part answers to a JEDEC ID cycle
          Lengths,      \* byte counts the callers read
          Buffers       \* byte strings the callers write

Addr == 0 .. FlashSize - 1
Byte == SUBSET Bits

ASSUME SizesAssumption ==
  /\ FlashSize \in Nat \ {0}
  /\ DefDBC \in Nat \ {0}
  /\ MaxDBC \in Nat
  /\ 3 <= MaxDBC
  /\ DefDBC <= MaxDBC
  /\ JedecDBC \in 0 .. MaxDBC - 1
  /\ EraseBlock \in Nat \ {0}
  /\ PollLimit \in Nat
  /\ RDenied \subseteq Addr
  /\ WDenied \subseteq Addr
  /\ JedecId \in [1 .. 3 -> Byte]
  /\ Lengths \subseteq Nat
  /\ Buffers \subseteq Seq(Byte)

VARIABLES
  scip,     \* HSFS.SCIP: a cycle is in progress
  err,      \* HSFS.FCERR or HSFS.AEL (the code treats the two alike)
  cyc,      \* the cycle the controller has latched
  faddr,    \* FADDR
  fdbc,     \* HSFC.FDBC
  fdata,    \* FDATA0..FDATA15, byte by byte
  flash,    \* the contents of the part
  plat,     \* HSFS.FDV, and whether HSFS has the FCYCLE field
  pc,       \* where the host is
  phase,    \* which call of _wait_SPI_flash_cycle_done is running
  polls,    \* its loop counter
  req,      \* the operation and its arguments
  off,      \* bytes of the request already dealt with (i * dbc)
  ok,       \* write_ok, erase_ok
  buf,      \* the buffer a read returns
  result,   \* how the last operation ended
  flash0    \* history: flash when the operation was found ready to start

ctlVars == <<scip, err, cyc, faddr, fdbc, fdata, flash>>
hostVars == <<pc, phase, polls, req, off, ok, buf, result, flash0>>
vars == <<ctlVars, plat, hostVars>>

\* What a caller may ask for: the bytes it names lie where FADDR can address them.
Requests ==
  [op : {"read"}, fla : Addr, count : Lengths, data : {<<>>}]
    \cup {[op |-> "write", fla |-> a, count |-> Len(d), data |-> d] : a \in Addr, d \in Buffers}
    \cup [op : {"erase"}, fla : Addr, count : {1}, data : {<<>>}]
    \cup [op : {"jedec"}, fla : {0}, count : {1}, data : {<<>>}]

Range(r) == r.fla .. r.fla + r.count - 1
-----------------------------------------------------------------------------
(***************************************************************************)
(* The flash controller (external).                                        *)
(***************************************************************************)

Block(a) == {b \in Addr : b \div EraseBlock = a \div EraseBlock}

\* The addresses a latched cycle works on.
Cells(c) == CASE c.op \in {"read", "write"} -> c.addr .. c.addr + c.n - 1
              [] c.op = "erase"             -> Block(c.addr)
              [] OTHER                      -> {}

Refused(c) == CASE c.op = "read"               -> ~(Cells(c) \subseteq Addr \ RDenied)
                [] c.op \in {"write", "erase"} -> ~(Cells(c) \subseteq Addr \ WDenied)
                [] OTHER                       -> FALSE

\* flash and FDATA after cycle c.
FlashAfter(c) ==
  CASE c.op = "write" -> [a \in Addr |-> IF a \in Cells(c) THEN flash[a] \cap fdata[a - c.addr]
                                                          ELSE flash[a]]
    [] c.op = "erase" -> [a \in Addr |-> IF a \in Cells(c) THEN Bits ELSE flash[a]]
    [] OTHER          -> flash

FdataAfter(c) ==
  CASE c.op = "read"  -> [k \in 0 .. MaxDBC - 1 |-> IF k < c.n THEN flash[c.addr + k] ELSE fdata[k]]
    [] c.op = "jedec" -> [k \in 0 .. MaxDBC - 1 |-> IF k < 3 THEN JedecId[k + 1] ELSE fdata[k]]
    [] OTHER          -> fdata

\* The controller ends the cycle in progress.  A refused cycle changes nothing
\* and sets the error bits.
CycleEnds ==
  /\ scip
  /\ scip' = FALSE
  /\ IF Refused(cyc)
       THEN err' = TRUE /\ UNCHANGED <<flash, fdata>>
       ELSE flash' = FlashAfter(cyc) /\ fdata' = FdataAfter(cyc) /\ UNCHANGED err
  /\ UNCHANGED <<cyc, faddr, fdbc, plat, hostVars>>

\* A write to FADDR, FDBC or FDATA while SCIP is set may be taken or dropped.
RegValues(old, new) == {new} \cup (IF scip THEN {old} ELSE {})
-----------------------------------------------------------------------------
(***************************************************************************)
(* The host.                                                               *)
(***************************************************************************)

\* Bytes of one cycle, and of the cycle at offset off (a full one or the remainder).
Dbc == IF req.op = "read" /\ req.count >= MaxDBC THEN MaxDBC ELSE DefDBC
ChunkLen == IF req.count - off >= Dbc THEN Dbc ELSE req.count - off

\* Go on with the cycle at offset o, or return to the caller.
GoOn(o) ==
  /\ off' = o
  /\ IF o < req.count
       THEN pc' = (IF req.op = "write" THEN "fdata" ELSE "faddr") /\ UNCHANGED result
       ELSE pc' = "idle" /\ result' = "returned"

\* The entry of read_spi, write_spi, erase_spi_block and get_SPI_JEDEC_ID, up to
\* the first access of the sequencer.
Call(r) ==
  /\ pc = "idle"
  /\ Range(r) \subseteq Addr
  /\ req' = r /\ off' = 0 /\ ok' = TRUE /\ buf' = <<>> /\ polls' = 0
  /\ flash0' = flash
  /\ IF r.op = "jedec" /\ ~plat.fcycle
       THEN pc' = "idle" /\ result' = "unsupported" /\ UNCHANGED phase
     ELSE IF ~plat.fdv
       THEN pc' = "idle" /\ result' = "SpiRuntimeError" /\ UNCHANGED phase
     ELSE /\ result' = "running"
          /\ IF r.op = "jedec" THEN pc' = "faddr" /\ UNCHANGED phase
                               ELSE pc' = "poll" /\ phase' = "ready"
  /\ UNCHANGED <<ctlVars, plat>>

\* _wait_SPI_flash_cycle_done returns done to its caller.
WaitReturns(done) ==
  \/ /\ phase = "ready" /\ ~done
     /\ pc' = "idle" /\ result' = "returned" /\ ok' = FALSE
     /\ UNCHANGED <<off, buf, flash0>>
  \/ /\ phase = "ready" /\ done
     /\ GoOn(0)
     /\ flash0' = flash
     /\ UNCHANGED <<ok, buf>>
  \/ /\ phase = "cycle"
     /\ ok' = (ok /\ done)
     /\ IF req.op = "jedec" \/ (req.op = "read" /\ done)
          THEN pc' = "drain" /\ UNCHANGED <<off, result>>
          ELSE GoOn(off + ChunkLen)
     /\ UNCHANGED <<buf, flash0>>

\* Mutant of Poll: the loop has no bound.
PollForever ==
  /\ pc = "poll" /\ polls < PollLimit
  /\ pc' = IF scip THEN "poll" ELSE "clear"
  /\ UNCHANGED <<ctlVars, plat, phase, polls, req, off, ok, buf, result, flash0>>

\* One of the 1000 reads of HSFS.
Poll ==
  /\ pc = "poll" /\ polls < PollLimit
  /\ IF scip THEN polls' = polls + 1 /\ UNCHANGED pc
             ELSE pc' = "clear" /\ UNCHANGED polls
  /\ UNCHANGED <<ctlVars, plat, phase, req, off, ok, buf, result, flash0>>

\* Mutant of LastPoll: a time-out is taken for the end of the cycle.
LastPollIsDone ==
  /\ pc = "poll" /\ polls = PollLimit
  /\ WaitReturns(TRUE)
  /\ UNCHANGED <<ctlVars, plat, phase, polls, req>>

\* The read of HSFS after the sleep.
LastPoll ==
  /\ pc = "poll" /\ polls = PollLimit
  /\ IF scip THEN WaitReturns(FALSE)
             ELSE pc' = "clear" /\ UNCHANGED <<off, ok, buf, result, flash0>>
  /\ UNCHANGED <<ctlVars, plat, phase, polls, req>>

\* The write of HSFSTS_CLEAR.
ClearStatus ==
  /\ pc = "clear"
  /\ err' = FALSE
  /\ pc' = "check"
  /\ UNCHANGED <<scip, cyc, faddr, fdbc, fdata, flash, plat, phase, polls, req, off, ok, buf,
                 result, flash0>>

\* The read of AEL and FCERR that follows it.
CheckStatus ==
  /\ pc = "check"
  /\ WaitReturns(~err)
  /\ UNCHANGED <<ctlVars, plat, phase, polls, req>>

\* write_spi fills FDATA0; the bytes of the dword past the chunk are 0.
WriteFdata ==
  /\ pc = "fdata"
  /\ fdata' \in RegValues(fdata,
       [k \in 0 .. MaxDBC - 1 |-> IF k < ChunkLen THEN req.data[off + k + 1]
                                  ELSE IF k < DefDBC THEN {} ELSE fdata[k]])
  /\ pc' = "faddr"
  /\ UNCHANGED <<scip, err, cyc, faddr, fdbc, flash, plat, phase, polls, req, off, ok, buf,
                 result, flash0>>

\* Mutant of WriteFaddr: every cycle goes to the address of the first one.
WriteFaddrNoOffset ==
  /\ pc = "faddr"
  /\ faddr' \in RegValues(faddr, req.fla)
  /\ pc' = IF req.op = "erase" THEN "fgo" ELSE "dbc"
  /\ UNCHANGED <<scip, err, cyc, fdbc, fdata, flash, plat, phase, polls, req, off, ok, buf,
                 result, flash0>>

\* _send_spi_cycle, register by register.
WriteFaddr ==
  /\ pc = "faddr"
  /\ faddr' \in RegValues(faddr, req.fla + off)
  /\ pc' = IF req.op = "erase" THEN "fgo" ELSE "dbc"
  /\ UNCHANGED <<scip, err, cyc, fdbc, fdata, flash, plat, phase, polls, req, off, ok, buf,
                 result, flash0>>

\* Mutants of WriteDbc: the count is not the field's count less one; the remainder is
\* asked for with the size of a full chunk.
WriteDbcNotLessOne ==
  /\ pc = "dbc"
  /\ fdbc' \in RegValues(fdbc, IF req.op = "jedec" THEN JedecDBC ELSE ChunkLen)
  /\ pc' = "fgo"
  /\ UNCHANGED <<scip, err, cyc, faddr, fdata, flash, plat, phase, polls, req, off, ok, buf,
                 result, flash0>>

WriteDbcFullChunk ==
  /\ pc = "dbc"
  /\ fdbc' \in RegValues(fdbc, IF req.op = "jedec" THEN JedecDBC ELSE Dbc - 1)
  /\ pc' = "fgo"
  /\ UNCHANGED <<scip, err, cyc, faddr, fdata, flash, plat, phase, polls, req, off, ok, buf,
                 result, flash0>>

WriteDbc ==
  /\ pc = "dbc"
  /\ fdbc' \in RegValues(fdbc, IF req.op = "jedec" THEN JedecDBC ELSE ChunkLen - 1)
  /\ pc' = "fgo"
  /\ UNCHANGED <<scip, err, cyc, faddr, fdata, flash, plat, phase, polls, req, off, ok, buf,
                 result, flash0>>

\* FGO starts a cycle unless one is in progress; the wait for its end begins.
WriteFgo ==
  /\ pc = "fgo"
  /\ IF scip THEN UNCHANGED <<scip, cyc>>
             ELSE scip' = TRUE /\ cyc' = [op |-> req.op, addr |-> faddr, n |-> fdbc + 1]
  /\ pc' = "poll" /\ phase' = "cycle" /\ polls' = 0
  /\ UNCHANGED <<err, faddr, fdbc, fdata, flash, plat, req, off, ok, buf, result, flash0>>

\* The host reads FDATA after a read cycle or a JEDEC ID cycle.
ReadFdata ==
  /\ pc = "drain"
  /\ buf' = buf \o [j \in 1 .. (IF req.op = "jedec" THEN 3 ELSE ChunkLen) |-> fdata[j - 1]]
  /\ GoOn(off + ChunkLen)
  /\ UNCHANGED <<ctlVars, plat, phase, polls, req, ok, flash0>>
-----------------------------------------------------------------------------
Init ==
  /\ scip \in BOOLEAN          \* another agent's cycle may be running
  /\ cyc = [op |-> "other", addr |-> 0, n |-> 1]
  /\ err \in BOOLEAN
  /\ faddr = 0 /\ fdbc = 0
  /\ fdata = [k \in 0 .. MaxDBC - 1 |-> {}]
  /\ flash \in [Addr -> Byte]
  /\ plat \in [fdv : BOOLEAN, fcycle : BOOLEAN]
  /\ pc = "idle" /\ phase = "ready" /\ polls = 0
  /\ req = [op |-> "erase", fla |-> 0, count |-> 1, data |-> <<>>]
  /\ off = 0 /\ ok = TRUE /\ buf = <<>> /\ result = "none"
  /\ flash0 = flash

HostStep == Poll \/ LastPoll \/ ClearStatus \/ CheckStatus \/ WriteFdata \/ WriteFaddr
              \/ WriteDbc \/ WriteFgo \/ ReadFdata

Next == HostStep \/ CycleEnds \/ \E r \in Requests : Call(r)

\* The program keeps running; nothing obliges the controller to end a cycle.
Fairness == WF_vars(HostStep)

Spec == Init /\ [][Next]_vars /\ Fairness
-----------------------------------------------------------------------------
(***************************************************************************)
(* Correctness.                                                            *)
(***************************************************************************)

Cycles == [op : {"read", "write", "erase", "jedec", "other"}, addr : Addr, n : 1 .. MaxDBC]

\* The registers, the flash and the local variables of spi.py hold values of
\* their kind; FDBC never exceeds the size of the FDATA window.
TypeOK ==
  /\ scip \in BOOLEAN /\ err \in BOOLEAN
  /\ cyc \in Cycles
  /\ faddr \in Addr /\ fdbc \in 0 .. MaxDBC - 1
  /\ fdata \in [0 .. MaxDBC - 1 -> Byte]
  /\ flash \in [Addr -> Byte] /\ flash0 \in [Addr -> Byte]
  /\ plat \in [fdv : BOOLEAN, fcycle : BOOLEAN]
  /\ pc \in {"idle", "poll", "clear", "check", "fdata", "faddr", "dbc", "fgo", "drain"}
  /\ phase \in {"ready", "cycle"}
  /\ polls \in 0 .. PollLimit
  /\ req \in Requests /\ Range(req) \subseteq Addr
  /\ off \in 0 .. req.count
  /\ ok \in BOOLEAN
  /\ buf \in Seq(Byte)
  /\ result \in {"none", "running", "returned", "unsupported", "SpiRuntimeError"}

Returned(op) == result = "returned" /\ req.op = op

\* When write_spi returns True for a range the controller lets the host write,
\* every byte of the buffer has been programmed at its address and no other
\* byte of the part has changed, however cycles timed out or ended late.
WriteOkIsExact ==
  Returned("write") /\ ok /\ Range(req) \cap WDenied = {}
    => \A a \in Addr :
         flash[a] = IF a \in Range(req) THEN flash0[a] \cap req.data[a - req.fla + 1]
                                        ELSE flash0[a]

\* When read_spi returns as many bytes as it was asked for, they are the bytes
\* of the part, in order: a failed or late cycle always shows as a short buffer.
FullReadIsExact ==
  Returned("read") /\ Len(buf) = req.count /\ Range(req) \cap RDenied = {}
    => \A j \in 1 .. req.count : buf[j] = flash[req.fla + j - 1]

\* When erase_spi_block returns True for a block the controller lets the host
\* erase, that block is erased and the rest of the part is untouched.
EraseOkIsErased ==
  Returned("erase") /\ ok /\ Block(req.fla) \cap WDenied = {}
    => \A a \in Addr : flash[a] = IF a \in Block(req.fla) THEN Bits ELSE flash0[a]

\* Every operation returns to its caller even when the controller never ends a
\* cycle: the polling of HSFS is bounded.
OperationsReturn == (pc # "idle") ~> (pc = "idle")

\* What "Completed SPI flash memory write" (utilcmd/spi_cmd.py:134) says.
CompletedWriteIsWritten ==
  Returned("write") /\ ok
    => \A a \in Range(req) : flash[a] = flash0[a] \cap req.data[a - req.fla + 1]
=============================================================================
