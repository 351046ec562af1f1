---------------------------- MODULE DevicesProofs ----------------------------
(***************************************************************************)
(* The calls of the host against the devices it drives, for every size of   *)
(* the devices and every bound: the PSP mailbox, the index and data ports,  *)
(* the embedded controller, the TPM and the SMBus.  Each device has an      *)
(* inductive invariant of its own, which the steps of the others leave      *)
(* alone; that of the SMBus is proved in SMBusProofs.                       *)
(***************************************************************************)
EXTENDS Devices, TLAPS

SmbProofs == INSTANCE SMBusProofs WITH
  Devices <- SmbDevices, Present <- SmbPresent, Offsets <- SmbOffsets, TypeOffset <- SmbTypeOffset,
  Bytes <- SmbBytes, FF <- SmbFF, PollCount <- SmbPollCount, Plans <- SmbPlans, start <- sStart,
  busy <- sBusy, intr <- sIntr, err <- sErr, txn <- sTxn, slva <- sSlva, cmd <- sCmd, d0 <- sD0,
  mem <- sMem, pc <- sPc, plan <- sPlan, i <- sI, polls <- sPolls, buf <- sBuf, clean <- sClean,
  own <- sOwn, ended <- sEnded, sawIntr <- sSawIntr
-----------------------------------------------------------------------------
(***************************************************************************)
(* PspMailbox.  The PSP is ready exactly when it has no command, and a host *)
(* that saw it ready is the only one to give it another; until a command    *)
(* was given up, the PSP works only while its buffer is lent.               *)
(***************************************************************************)
Lent == pPc \in {"lo", "hi", "send", "done", "read"}

PspInv ==
  /\ PSP!TypeOK
  /\ pPc # "idle" => pCalls > 0
  /\ \A b \in PspBuffers : pOwner[b] = "host" <=> (Lent /\ b = pBuf)
  /\ pReady <=> pJob = 0
  /\ pPc \in {"alloc", "lo", "hi", "send", "read"} => pJob = 0
  /\ pPc \in {"hi", "send", "done", "read"} => pLo = pBuf
  /\ pPc \in {"send", "done", "read"} => pHi = pBuf
  /\ pPc = "done" => (pJob = pCalls \/ (pJob = 0 /\ pContent[pBuf] = pCalls))
  /\ pPc = "read" => pContent[pBuf] = pCalls
  /\ pJob # 0 /\ ~pGaveUp => pPc = "done"
  /\ PSP!AnswerGenuine
  /\ pStray => pGaveUp

LEMMA PspInit == PSP!Init => PspInv
<1> SUFFICES ASSUME PSP!Init PROVE PspInv
  OBVIOUS
<1>1. pBuf \in PspBuffers
  BY DevicesAssumption DEF PSP!Init
<1>2. PSP!TypeOK
  <2>1. 0 \in 0 .. PspCalls /\ 0 \in -1 .. PspCalls
    BY DevicesAssumption
  <2> QED
    BY <1>1, <2>1 DEF PSP!Init, PSP!TypeOK
<1> QED
  BY <1>1, <1>2, DevicesAssumption DEF PSP!Init, PspInv, Lent, PSP!AnswerGenuine, PSP!Idle

LEMMA PspStep == PspInv /\ [PSP!Next]_(PSP!vars) => PspInv'
<1> SUFFICES ASSUME PspInv, [PSP!Next]_(PSP!vars) PROVE PspInv'
  OBVIOUS
<1> USE DevicesAssumption DEF PspInv, PSP!TypeOK, Lent, PSP!AnswerGenuine, PSP!Idle, PSP!BadBad
<1>1. CASE PSP!Begin
  BY <1>1 DEF PSP!Begin
<1>2. ASSUME NEW t \in BOOLEAN, PSP!PollReady(t) PROVE PspInv'
  BY <1>2 DEF PSP!PollReady
<1>3. ASSUME NEW t \in BOOLEAN, PSP!PollDone(t) PROVE PspInv'
  <2>1. CASE t
    BY <1>3, <2>1 DEF PSP!PollDone
  <2>2. CASE ~t
    BY <1>3, <2>2 DEF PSP!PollDone
  <2> QED
    BY <2>1, <2>2
<1>4. ASSUME NEW b \in PspBuffers, PSP!Alloc(b) PROVE PspInv'
  BY <1>4 DEF PSP!Alloc
<1>5. CASE PSP!WriteLo
  BY <1>5 DEF PSP!WriteLo
<1>6. CASE PSP!WriteHi
  BY <1>6 DEF PSP!WriteHi
<1>7. CASE PSP!Send
  <2>1. pPc = "send" /\ pJob = 0 /\ pJob' = pCalls /\ pReady' = FALSE /\ pPc' = "done"
    BY <1>7 DEF PSP!Send
  <2>2. UNCHANGED <<pCalls, pBuf, pBuffer, pOwner, pContent, pLo, pHi, pGaveUp, pStray>>
    BY <1>7 DEF PSP!Send
  <2>3. PSP!TypeOK'
    BY <2>1, <2>2
  <2> QED
    BY <2>1, <2>2, <2>3
<1>8. CASE PSP!ReadBuffer
  BY <1>8 DEF PSP!ReadBuffer
<1>9. CASE PSP!PspAnswers
  BY <1>9 DEF PSP!PspAnswers
<1>10. ASSUME NEW b \in PspBuffers, PSP!OsTakes(b) PROVE PspInv'
  BY <1>10 DEF PSP!OsTakes
<1>11. ASSUME NEW b \in PspBuffers, PSP!OsFrees(b) PROVE PspInv'
  BY <1>11 DEF PSP!OsFrees
<1>12. CASE UNCHANGED PSP!vars
  BY <1>12 DEF PSP!vars
<1> QED
  BY <1>1, <1>2, <1>3, <1>4, <1>5, <1>6, <1>7, <1>8, <1>9, <1>10, <1>11, <1>12 DEF PSP!Next, PSP!Host

LEMMA OnlyPsp == [Next]_vars => [PSP!Next]_(PSP!vars)
  BY DEF Next, EcNext, TpmNext, PspNext, PortNext, SmbNext, vars, eVars, tVars, pVars, iVars, PSP!vars

\* However the PSP, its time-outs and the operating system interleave, whatever the buffers and the
\* number of commands: what a command returns is its own answer, and the PSP writes to memory it was
\* not lent only after a command was given up (psp.py:96).
THEOREM PspAnswersAreGenuine == Spec => []PspCommandsExact
<1>1. Init => PspInv
  BY PspInit DEF Init
<1>2. PspInv /\ [Next]_vars => PspInv'
  BY PspStep, OnlyPsp
<1>3. PspInv => PspCommandsExact
  BY DEF PspInv, PspCommandsExact, PSP!OnlyGivenUpBuffersAreHit, PSP!Idle, Lent
<1> QED
  BY <1>1, <1>2, <1>3, PTL DEF Spec
-----------------------------------------------------------------------------
(***************************************************************************)
(* IndexPorts.  First the two halves of an index: any two fit together, and *)
(* the halves of one offset make that offset again.                         *)
(***************************************************************************)
LEMMA Halves ==
  ASSUME NEW a \in Nat, NEW h \in Nat \ {0}
  PROVE  a = (a \div h) * h + (a % h) /\ a % h \in 0 .. h - 1 /\ a \div h \in Nat
  OBVIOUS

LEMMA Multiples ==
  ASSUME NEW p \in Nat, NEW q \in Nat, NEW h \in Nat \ {0}, p <= q
  PROVE  p * h <= q * h /\ (p + 1) * h = p * h + h
  OBVIOUS

LEMMA HalvesUnique ==
  ASSUME NEW p \in Nat, NEW q \in Nat, NEW h \in Nat \ {0},
         NEW r \in 0 .. h - 1, NEW s \in 0 .. h - 1, p * h + r = q * h + s
  PROVE  p = q /\ r = s
<1>1. ASSUME NEW x \in Nat, NEW y \in Nat, NEW u \in 0 .. h - 1, NEW v \in 0 .. h - 1,
             x * h + u = y * h + v
      PROVE  ~(x < y)
  <2> SUFFICES ASSUME x + 1 <= y PROVE FALSE
    OBVIOUS
  <2>1. (x + 1) * h <= y * h /\ (x + 1) * h = x * h + h
    BY Multiples
  <2> QED
    BY <1>1, <2>1
<1>2. ~(p < q) /\ ~(q < p)
  BY <1>1
<1>3. p = q
  BY <1>2
<1> QED
  BY <1>3

LEMMA HalvesFit ==
  ASSUME NEW h \in Nat \ {0}, NEW a \in 0 .. h * h - 1, NEW b \in 0 .. h * h - 1
  PROVE  /\ (a \div h) * h + (b % h) \in 0 .. h * h - 1
         /\ ((a \div h) * h + (b % h)) % h = b % h
         /\ a % h = b % h => (a \div h) * h + (b % h) = a
<1> DEFINE q == a \div h
           r == b % h
           x == q * h + r
<1>1. h * h \in Nat /\ a \in Nat /\ b \in Nat
  OBVIOUS
<1>2. q \in Nat /\ r \in 0 .. h - 1 /\ a = q * h + (a % h) /\ a % h \in 0 .. h - 1
  BY <1>1, Halves
<1> HIDE DEF q, r
<1>3. q + 1 <= h
  <2> SUFFICES ASSUME h <= q PROVE FALSE
    BY <1>2
  <2>1. h * h <= q * h
    BY <1>2, Multiples
  <2>2. q * h \in Nat
    BY <1>2
  <2>3. q * h <= a /\ a < h * h
    BY <1>1, <1>2, <2>2
  <2> DEFINE m == h * h
             n == q * h
  <2>4. m \in Nat /\ n \in Nat /\ m <= n /\ n <= a /\ a < m
    BY <1>1, <2>1, <2>2, <2>3
  <2> HIDE DEF m, n
  <2> QED
    BY <2>4
<1>4. q * h + h <= h * h /\ q * h \in Nat
  <2>1. (q + 1) * h <= h * h /\ (q + 1) * h = q * h + h
    BY <1>2, <1>3, Multiples
  <2> QED
    BY <1>2, <2>1
<1>5. x \in 0 .. h * h - 1
  BY <1>1, <1>2, <1>4
<1>6. x % h = r
  <2>1. x \in Nat /\ x = q * h + r
    BY <1>2, <1>4
  <2> HIDE DEF x
  <2>2. x = (x \div h) * h + (x % h) /\ x % h \in 0 .. h - 1 /\ x \div h \in Nat
    BY <2>1, Halves
  <2> QED
    BY <1>2, <2>1, <2>2, HalvesUnique
<1> QED
  BY <1>2, <1>5, <1>6 DEF q, r

(***************************************************************************)
(* While nobody else touches the ports, the index port holds what the call  *)
(* wrote to it, half by half; a dump has read as many registers as it is    *)
(* far, in order.                                                           *)
(***************************************************************************)
PortCount == PortHalf * PortHalf

PortTypes ==
  /\ iPair \in Ports!Pairs /\ iPc \in {"idle", "index", "index2", "data", "restore"}
  /\ iOff \in Ports!Offsets /\ iIdx \in Ports!Offsets /\ iNmi \in BOOLEAN
  /\ iCells \in [Ports!Offsets -> PortValues] /\ iTouched \in BOOLEAN
  /\ iBefore \in Ports!Offsets \X BOOLEAN /\ iGot \in Seq(PortValues)
  /\ iCall.op \in {"none", "read", "write", "dump"} /\ iCall.at \in Ports!Offsets
  /\ iCall.value \in PortValues

\* The part of a dump that was read.
Dumped == \A i \in 1 .. Len(iGot) : iGot[i] = iCells[i - 1]

PortsInv ==
  /\ PortTypes
  /\ iRef = iCells
  /\ iPc # "idle" => iCall.op # "none"
  /\ iCall.op \in {"read", "write"} => iOff = iCall.at /\ iPc # "restore"
  /\ iPc = "index2" => iPair = "ec_index"
  /\ iCall.op = "dump" => iPair # "ec_index"
  /\ iPc = "index2" /\ ~iTouched => iIdx % PortHalf = iOff % PortHalf
  /\ iPc = "data" /\ ~iTouched => iIdx = iOff
  /\ iCall.op = "read" => Len(iGot) = IF iPc = "idle" THEN 1 ELSE 0
  /\ iCall.op = "read" /\ iPc = "idle" /\ ~iTouched => iGot[1] = iCells[iCall.at]
  /\ iCall.op \in {"none", "write"} => Len(iGot) = 0
  /\ iCall.op = "dump" => /\ Len(iGot) = IF iPc \in {"index", "data"} THEN iOff ELSE PortCount
                          /\ ~iTouched => Dumped
                          /\ iPc = "idle" /\ ~iTouched => <<iIdx, iNmi>> = iBefore

LEMMA PortFacts == /\ PortHalf \in Nat \ {0} /\ PortCount \in Nat \ {0} /\ 0 \in PortValues
                   /\ PortValues \in SUBSET Nat
                   /\ Ports!Offsets = 0 .. PortCount - 1 /\ 0 \in Ports!Offsets
<1>1. PortHalf \in Nat \ {0}
  BY DevicesAssumption
<1>2. PortHalf * PortHalf \in Nat \ {0}
  BY <1>1
<1> QED
  BY <1>1, <1>2, DevicesAssumption DEF PortCount, Ports!Offsets

LEMMA PortsInit == Ports!Init => PortsInv
<1> SUFFICES ASSUME Ports!Init PROVE PortsInv
  OBVIOUS
<1>1. iGot = <<>> /\ Len(iGot) = 0 /\ iGot \in Seq(PortValues)
  BY DEF Ports!Init
<1>2. iBefore \in Ports!Offsets \X BOOLEAN
  BY PortFacts DEF Ports!Init
<1>3. iCells \in [Ports!Offsets -> PortValues] /\ iRef = iCells
  BY PortFacts DEF Ports!Init
<1>4. PortTypes
  BY <1>1, <1>2, <1>3, PortFacts DEF Ports!Init, PortTypes
<1> QED
  BY <1>1, <1>3, <1>4, PortFacts DEF Ports!Init, PortsInv

LEMMA PortsBegin == ASSUME PortsInv, NEW c \in Ports!Calls(iPair), Ports!Begin(c) PROVE PortsInv'
<1>1. /\ c.op \in {"read", "write", "dump"} /\ c.at \in Ports!Offsets /\ c.value \in PortValues
      /\ c.op = "dump" => iPair # "ec_index" /\ c.at = 0
  BY PortFacts DEF Ports!Calls
<1>2. /\ iPc' = "index" /\ iCall' = c /\ iOff' = c.at /\ iGot' = <<>> /\ iTouched' = FALSE
      /\ iBefore' \in Ports!Offsets \X BOOLEAN
      /\ UNCHANGED <<iPair, iIdx, iNmi, iCells, iRef>>
  <2>1. <<iIdx, iNmi>> \in Ports!Offsets \X BOOLEAN /\ <<0, FALSE>> \in Ports!Offsets \X BOOLEAN
    BY PortFacts DEF PortsInv, PortTypes
  <2> QED
    BY <2>1 DEF Ports!Begin
<1>3. Len(iGot') = 0 /\ iGot' \in Seq(PortValues)
  BY <1>2
<1>4. PortTypes'
  BY <1>1, <1>2, <1>3 DEF PortsInv, PortTypes, Ports!Offsets
<1>5. Dumped'
  BY <1>3 DEF Dumped
<1> QED
  BY <1>1, <1>2, <1>3, <1>4, <1>5 DEF PortsInv

LEMMA PortsIndex == ASSUME PortsInv, Ports!WriteIndex PROVE PortsInv'
<1>1. UNCHANGED <<iPair, iCall, iOff, iGot, iCells, iBefore, iTouched, iRef>> /\ iPc = "index"
  BY DEF Ports!WriteIndex
<1>2. iNmi' \in BOOLEAN
  BY DEF Ports!WriteIndex
<1>3. Dumped' <=> Dumped
  BY <1>1 DEF Dumped
<1>4. CASE iPair # "ec_index"
  <2>1. iIdx' = iOff /\ iPc' = "data"
    BY <1>4 DEF Ports!WriteIndex
  <2>2. PortTypes'
    BY <1>1, <1>2, <2>1 DEF PortsInv, PortTypes, Ports!Offsets
  <2> QED
    BY <1>1, <1>3, <1>4, <2>1, <2>2 DEF PortsInv
<1>5. CASE iPair = "ec_index"
  <2>1. iIdx' = (iIdx \div PortHalf) * PortHalf + (iOff % PortHalf) /\ iPc' = "index2"
    BY <1>5 DEF Ports!WriteIndex
  <2>2. iIdx' \in Ports!Offsets /\ iIdx' % PortHalf = iOff % PortHalf
    <3>1. iIdx \in 0 .. PortHalf * PortHalf - 1 /\ iOff \in 0 .. PortHalf * PortHalf - 1
      BY DEF PortsInv, PortTypes, Ports!Offsets
    <3> QED
      BY <2>1, <3>1, PortFacts, HalvesFit DEF Ports!Offsets
  <2>3. PortTypes'
    BY <1>1, <1>2, <2>1, <2>2 DEF PortsInv, PortTypes, Ports!Offsets
  <2> QED
    BY <1>1, <1>3, <1>5, <2>1, <2>2, <2>3 DEF PortsInv
<1> QED
  BY <1>4, <1>5

LEMMA PortsIndexHigh == ASSUME PortsInv, Ports!WriteIndexHigh PROVE PortsInv'
<1>1. /\ UNCHANGED <<iPair, iCall, iOff, iGot, iCells, iBefore, iTouched, iRef, iNmi>>
      /\ iPc = "index2" /\ iPc' = "data" /\ iPair = "ec_index"
  BY DEF Ports!WriteIndexHigh, PortsInv
<1>2. Dumped' <=> Dumped
  BY <1>1 DEF Dumped
<1>3. iIdx' \in Ports!Offsets /\ (~iTouched => iIdx' = iOff)
  <2>1. iIdx \in 0 .. PortHalf * PortHalf - 1 /\ iOff \in 0 .. PortHalf * PortHalf - 1
    BY DEF PortsInv, PortTypes, Ports!Offsets
  <2>2. iIdx' = (iOff \div PortHalf) * PortHalf + (iIdx % PortHalf)
    BY DEF Ports!WriteIndexHigh
  <2>3. ~iTouched => iOff % PortHalf = iIdx % PortHalf
    BY <1>1 DEF PortsInv
  <2> QED
    BY <2>1, <2>2, <2>3, PortFacts, HalvesFit DEF Ports!Offsets
<1>4. PortTypes'
  BY <1>1, <1>3 DEF PortsInv, PortTypes, Ports!Offsets
<1> QED
  BY <1>1, <1>2, <1>3, <1>4 DEF PortsInv

LEMMA PortsRead == ASSUME PortsInv, Ports!ReadData PROVE PortsInv'
<1>1. /\ UNCHANGED <<iPair, iCall, iIdx, iNmi, iCells, iBefore, iTouched, iRef>>
      /\ iPc = "data" /\ iCall.op # "write" /\ iCall.op # "none" /\ iGot' = Append(iGot, iCells[iIdx])
  BY DEF Ports!ReadData, PortsInv
<1>2. iCells[iIdx] \in PortValues /\ iGot \in Seq(PortValues) /\ Len(iGot) \in Nat
  BY DEF PortsInv, PortTypes
<1>3. /\ iGot' \in Seq(PortValues) /\ Len(iGot') = Len(iGot) + 1 /\ iGot'[Len(iGot) + 1] = iCells[iIdx]
      /\ \A i \in 1 .. Len(iGot) : iGot'[i] = iGot[i]
  BY <1>1, <1>2
<1>4. ~iTouched => iIdx = iOff
  BY <1>1 DEF PortsInv
<1>5. CASE iCall.op = "read"
  <2>1. iPc' = "idle" /\ iOff' = iOff
    BY <1>5 DEF Ports!ReadData
  <2>2. Len(iGot) = 0 /\ iOff = iCall.at
    BY <1>1, <1>5 DEF PortsInv
  <2>3. PortTypes'
    BY <1>1, <1>3, <2>1 DEF PortsInv, PortTypes, Ports!Offsets
  <2> QED
    BY <1>1, <1>3, <1>4, <1>5, <2>1, <2>2, <2>3 DEF PortsInv
<1>6. CASE iCall.op = "dump"
  <2>1. Len(iGot) = iOff /\ iPair # "ec_index"
    BY <1>1, <1>6 DEF PortsInv
  <2>2. ~iTouched => Dumped'
    <3> SUFFICES ASSUME ~iTouched PROVE Dumped'
      OBVIOUS
    <3>1. \A i \in 1 .. Len(iGot) : iGot[i] = iCells[i - 1]
      BY <1>6 DEF PortsInv, Dumped
    <3>2. iGot'[Len(iGot) + 1] = iCells[Len(iGot) + 1 - 1]
      BY <1>2, <1>3, <1>4, <2>1
    <3>3. \A i \in 1 .. Len(iGot') : i \in 1 .. Len(iGot) \/ i = Len(iGot) + 1
      BY <1>2, <1>3
    <3> QED
      BY <1>1, <1>3, <3>1, <3>2, <3>3 DEF Dumped
  <2>3. CASE iOff + 1 \in Ports!Offsets
    <3>1. iOff' = iOff + 1 /\ iPc' = "index"
      BY <1>6, <2>3 DEF Ports!ReadData
    <3>2. PortTypes'
      BY <1>1, <1>3, <2>3, <3>1 DEF PortsInv, PortTypes, Ports!Offsets
    <3> QED
      BY <1>1, <1>3, <1>6, <2>1, <2>2, <3>1, <3>2 DEF PortsInv
  <2>4. CASE iOff + 1 \notin Ports!Offsets
    <3>1. iOff' = iOff /\ iPc' = "restore"
      BY <1>6, <2>4 DEF Ports!ReadData
    <3>2. iOff + 1 = PortCount
      BY <2>4, PortFacts DEF PortsInv, PortTypes
    <3>3. PortTypes'
      BY <1>1, <1>3, <3>1 DEF PortsInv, PortTypes, Ports!Offsets
    <3> QED
      BY <1>1, <1>3, <1>6, <2>1, <2>2, <3>1, <3>2, <3>3 DEF PortsInv
  <2> QED
    BY <2>3, <2>4
<1> QED
  BY <1>1, <1>5, <1>6 DEF PortsInv, PortTypes

LEMMA PortsWrite == ASSUME PortsInv, Ports!WriteData PROVE PortsInv'
<1>1. /\ UNCHANGED <<iPair, iCall, iOff, iGot, iIdx, iNmi, iBefore, iTouched>>
      /\ iPc = "data" /\ iPc' = "idle" /\ iCall.op = "write"
      /\ iCells' = [iCells EXCEPT ![iIdx] = iCall.value]
  BY DEF Ports!WriteData
<1>2. iRef' = iCells'
  BY <1>1 DEF Ports!WriteData, PortsInv, PortTypes
<1>3. PortTypes'
  BY <1>1 DEF PortsInv, PortTypes, Ports!Offsets
<1> QED
  BY <1>1, <1>2, <1>3 DEF PortsInv

LEMMA PortsRestore == ASSUME PortsInv, Ports!Restore PROVE PortsInv'
<1>1. /\ UNCHANGED <<iPair, iCall, iOff, iGot, iCells, iBefore, iTouched, iRef>>
      /\ iPc = "restore" /\ iPc' = "idle" /\ iIdx' = iBefore[1] /\ iNmi' = iBefore[2]
  BY DEF Ports!Restore
<1>2. iBefore = <<iBefore[1], iBefore[2]>> /\ iBefore[1] \in Ports!Offsets /\ iBefore[2] \in BOOLEAN
  BY DEF PortsInv, PortTypes
<1>3. Dumped' <=> Dumped
  BY <1>1 DEF Dumped
<1>4. PortTypes'
  BY <1>1, <1>2 DEF PortsInv, PortTypes, Ports!Offsets
<1>5. iCall.op = "dump"
  BY <1>1 DEF PortsInv, PortTypes
<1> QED
  BY <1>1, <1>2, <1>3, <1>4, <1>5 DEF PortsInv

LEMMA PortsOther == ASSUME PortsInv, NEW o \in Ports!Offsets, Ports!OtherSelects(o) PROVE PortsInv'
<1>1. /\ iIdx' = o /\ iNmi' = FALSE /\ iTouched' = TRUE
      /\ UNCHANGED <<iPair, iCall, iPc, iOff, iGot, iCells, iBefore, iRef>>
  BY DEF Ports!OtherSelects
<1>2. PortTypes'
  BY <1>1 DEF PortsInv, PortTypes, Ports!Offsets
<1> QED
  BY <1>1, <1>2 DEF PortsInv

LEMMA PortsStep == PortsInv /\ [Ports!Next]_(Ports!vars) => PortsInv'
<1> SUFFICES ASSUME PortsInv, [Ports!Next]_(Ports!vars) PROVE PortsInv'
  OBVIOUS
<1>1. CASE UNCHANGED Ports!vars
  BY <1>1 DEF Ports!vars, PortsInv, PortTypes, Dumped, Ports!Offsets
<1> QED
  BY <1>1, PortsBegin, PortsIndex, PortsIndexHigh, PortsRead, PortsWrite, PortsRestore, PortsOther
  DEF Ports!Next, Ports!Host

LEMMA OnlyPorts == [Next]_vars => [Ports!Next]_(Ports!vars)
  BY DEF Next, EcNext, TpmNext, PspNext, PortNext, SmbNext, vars, eVars, tVars, pVars, iVars, Ports!vars

LEMMA PortsInvariance == Spec => []PortsInv
<1>1. Init => PortsInv
  BY PortsInit DEF Init
<1>2. PortsInv /\ [Next]_vars => PortsInv'
  BY PortsStep, OnlyPorts
<1> QED
  BY <1>1, <1>2, PTL DEF Spec

\* For any number of registers behind the ports, and whatever the operating system does with the
\* ports in between: undisturbed reads and dumps return what they name, undisturbed writes change
\* what they name and nothing else, and a dump restores the index port (cmos.py:59, :76).
THEOREM PortAccessesAreExact == Spec => []PortsExact
<1>1. PortsInv => PortsExact
  <2> SUFFICES ASSUME PortsInv PROVE PortsExact
    OBVIOUS
  <2>1. Ports!WritesExact
    BY DEF PortsInv, Ports!WritesExact
  <2>2. iGot \in Seq(PortValues) /\ DOMAIN iGot = 1 .. Len(iGot)
    BY DEF PortsInv, PortTypes
  <2>3. ASSUME Ports!Idle, ~iTouched, iCall.op = "read" PROVE iGot = <<iCells[iCall.at]>>
    <3>1. Len(iGot) = 1 /\ iGot[1] = iCells[iCall.at]
      BY <2>3 DEF PortsInv, Ports!Idle
    <3> QED
      BY <2>2, <3>1
  <2>4. ASSUME Ports!Idle, ~iTouched, iCall.op = "dump"
        PROVE  /\ iGot = [i \in 1 .. PortHalf * PortHalf |-> iCells[i - 1]]
               /\ <<iIdx, iNmi>> = iBefore
    <3>1. Len(iGot) = PortHalf * PortHalf /\ Dumped /\ <<iIdx, iNmi>> = iBefore
      BY <2>4 DEF PortsInv, Ports!Idle, PortCount
    <3>2. iGot = [i \in 1 .. Len(iGot) |-> iGot[i]]
      BY <2>2
    <3> QED
      BY <3>1, <3>2 DEF Dumped
  <2> QED
    BY <2>1, <2>3, <2>4 DEF PortsExact, Ports!ReadsExact
<1> QED
  BY <1>1, PortsInvariance, PTL
-----------------------------------------------------------------------------
(***************************************************************************)
(* TpmFifo.  First the bytes of a command or response.                      *)
(***************************************************************************)
LEMMA BytesFacts ==
  ASSUME NEW m \in Nat, NEW n \in Nat, m <= n + 1
  PROVE  /\ Len(TPM!Bytes(m, n)) = n - m + 1 /\ TPM!Bytes(m, n) \in Seq(Nat)
         /\ m = n + 1 <=> TPM!Bytes(m, n) = <<>>
         /\ m <= n => Head(TPM!Bytes(m, n)) = m /\ Tail(TPM!Bytes(m, n)) = TPM!Bytes(m + 1, n)
         /\ Append(TPM!Bytes(m, n), n + 1) = TPM!Bytes(m, n + 1)
<1> DEFINE B == [i \in 1 .. (n - m + 1) |-> m + i - 1]
<1>1. B \in Seq(Nat) /\ Len(B) = n - m + 1
  <2>1. n - m + 1 \in Nat /\ \A i \in 1 .. (n - m + 1) : m + i - 1 \in Nat
    OBVIOUS
  <2> QED
    BY <2>1
<1>2. m = n + 1 <=> B = <<>>
  <2> HIDE DEF B
  <2> QED
    BY <1>1
<1>3. ASSUME m <= n PROVE Head(B) = m /\ Tail(B) = [i \in 1 .. (n - (m + 1) + 1) |-> m + 1 + i - 1]
  <2>1. Head(B) = B[1] /\ Tail(B) = [i \in 1 .. (Len(B) - 1) |-> B[i + 1]]
    <3> HIDE DEF B
    <3>1. B \in Seq(Nat) /\ B # <<>> /\ Len(B) \in Nat
      BY <1>1, <1>2, <1>3
    <3>2. Tail(B) \in Seq(Nat) /\ Len(Tail(B)) = Len(B) - 1
      BY <3>1
    <3>3. \A i \in 1 .. (Len(B) - 1) : Tail(B)[i] = B[i + 1]
      BY <3>1
    <3>4. Tail(B) = [i \in 1 .. Len(Tail(B)) |-> Tail(B)[i]]
      <4> DEFINE T == Tail(B)
      <4> HIDE DEF T
      <4>1. T \in Seq(Nat) => T = [i \in 1 .. Len(T) |-> T[i]]
        OBVIOUS
      <4> QED
        BY <3>2, <4>1 DEF T
    <3> QED
      BY <3>1, <3>2, <3>3, <3>4
  <2>2. B[1] = m
    BY <1>3
  <2>3. Len(B) - 1 = n - (m + 1) + 1
    BY <1>1
  <2>4. \A i \in 1 .. (n - (m + 1) + 1) : B[i + 1] = m + 1 + i - 1
    OBVIOUS
  <2> HIDE DEF B
  <2> QED
    BY <2>1, <2>2, <2>3, <2>4
<1>4. Append(B, n + 1) = [i \in 1 .. (n + 1 - m + 1) |-> m + i - 1]
  <2> DEFINE A == Append(B, n + 1)
  <2>1. A \in Seq(Nat) /\ Len(A) = n + 1 - m + 1 /\ A[n + 1 - m + 1] = n + 1
        /\ \A i \in 1 .. (n - m + 1) : A[i] = B[i]
    <3> HIDE DEF B
    <3> QED
      BY <1>1
  <2>2. \A i \in 1 .. (n - m + 1) : A[i] = m + i - 1
    BY <2>1
  <2> HIDE DEF A
  <2>3. \A i \in 1 .. (n + 1 - m + 1) : A[i] = m + i - 1
    BY <2>1, <2>2
  <2>4. A = [i \in 1 .. Len(A) |-> A[i]]
    BY <2>1
  <2>5. A = [i \in 1 .. (n + 1 - m + 1) |-> m + i - 1]
    BY <2>1, <2>3, <2>4
  <2> QED
    BY <2>5 DEF A
<1> QED
  BY <1>1, <1>2, <1>3, <1>4 DEF TPM!Bytes

(***************************************************************************)
(* A TPM that is anything but idle works for the command that has its       *)
(* locality; what it has received and what is left of its response then     *)
(* tell how far the host is.                                                *)
(***************************************************************************)
FifoFits == \E n \in TpmSizes : Len(tFifo) <= n

TpmTypes ==
  /\ tPc \in {"idle", "request", "ready", "burst", "byte", "go", "avail", "release"}
  /\ tPhase \in {"send", "header", "data"} /\ tSize \in TpmSizes \cup {0} /\ tCount \in Nat
  /\ tBurst \in 0 .. TpmBurst /\ (tPc = "byte" => tBurst > 0) /\ tDsize \in Nat
  /\ tHolder \in {"none", "host", "other"}
  /\ tState \in {"idle", "preparing", "ready", "executing", "done"}
  /\ tRequestedUse \in BOOLEAN /\ tGranted \in BOOLEAN /\ tWanted \in BOOLEAN /\ tSeized \in BOOLEAN
  /\ tAbandoned \in BOOLEAN /\ FifoFits

Active == tGranted /\ tPc # "idle"

TpmHolds ==
  /\ TpmTypes
  /\ tPc # "idle" => tSize \in TpmSizes
  /\ tPc = "idle" /\ ~tAbandoned => tHolder # "host" /\ ~tWanted
  /\ Active => tHolder = "host"
  /\ tState # "idle" => Active
  /\ tPc \in {"request", "ready"} => tPhase = "send" /\ tCount = 0
  /\ tPc = "request" => ~tGranted
  /\ tPc \in {"go", "avail"} => tPhase = "send"
  /\ tPc # "idle" /\ tPhase = "send" => tGot = <<>>
  /\ tPc = "release" => tPhase # "send"

Sent == tFifo = TPM!Bytes(1, tSize)
Received(n) == tGot = TPM!Bytes(1, n) /\ tRsp = TPM!Bytes(n + 1, TpmHeader + tDsize)

TpmProgress ==
  /\ tPc = "ready" => tState \in {"idle", "preparing", "ready"} /\ tFifo = <<>> /\ tRsp = <<>>
  /\ tPc \in {"burst", "byte"} => tSize > 0
  /\ tPc \in {"burst", "byte"} /\ tPhase = "send" =>
       tState = "ready" /\ tCount < tSize /\ tFifo = TPM!Bytes(1, tCount) /\ tGot = <<>>
  /\ tPc = "go" => tState = "ready" /\ Sent
  /\ tPc = "avail" => /\ Sent
                      /\ IF tSize = 0 THEN tState = "ready" ELSE tState \in {"executing", "done"}
                      /\ tState = "done" => Received(0)
  /\ tPc \in {"burst", "byte"} /\ tPhase = "header" =>
       Sent /\ tState = "done" /\ tCount < TpmHeader /\ Received(tCount)
  /\ tPc \in {"burst", "byte"} /\ tPhase = "data" =>
       Sent /\ tState = "done" /\ tCount < tDsize /\ Received(TpmHeader + tCount)
  /\ tPc = "release" => tState = "done"
  /\ tPc \in {"release", "idle"} =>
       Sent /\ tGot = TPM!Bytes(1, TpmHeader + tDsize)

TpmInv == TpmHolds /\ (tGranted => TpmProgress)

LEMMA TpmFacts == /\ TpmSizes \in SUBSET Nat /\ TpmSizes # {} /\ TpmHeader \in Nat \ {0}
                  /\ TpmData \in Nat /\ TpmBurst \in Nat /\ 0 \in 0 .. TpmBurst
  BY DevicesAssumption

LEMMA NoBytes == /\ Len(<<>>) = 0 /\ TPM!Bytes(1, 0) = <<>>
                 /\ \A n \in Nat : Len(TPM!Bytes(1, n)) = n
<1>1. Len(<<>>) = 0
  OBVIOUS
<1>2. \A n \in Nat : Len(TPM!Bytes(1, n)) = n - 1 + 1
  BY BytesFacts
<1>3. TPM!Bytes(1, 0) = <<>>
  BY BytesFacts
<1> QED
  BY <1>1, <1>2, <1>3

LEMMA EmptyFits == tFifo = <<>> => FifoFits
<1>1. PICK n \in TpmSizes : TRUE
  BY TpmFacts
<1>2. n \in Nat /\ 0 <= n
  BY TpmFacts
<1> QED
  BY <1>2, NoBytes DEF FifoFits

LEMMA FifoStays == FifoFits /\ tFifo' = tFifo => FifoFits'
  BY DEF FifoFits

LEMMA TpmInit == TPM!Init => TpmInv
<1> SUFFICES ASSUME TPM!Init PROVE TpmInv
  OBVIOUS
<1>1. FifoFits
  BY EmptyFits DEF TPM!Init
<1> QED
  BY <1>1, TpmFacts DEF TPM!Init, TpmInv, TpmHolds, TpmTypes, Active

LEMMA TpmBegin == ASSUME TpmInv, NEW n \in TpmSizes, TPM!Begin(n) PROVE TpmInv'
<1>1. TpmHolds'
  BY TpmFacts, FifoStays DEF TPM!Begin, TPM!Idle, TpmInv, TpmHolds, TpmTypes, Active
<1>2. ~tGranted'
  BY DEF TPM!Begin
<1> QED
  BY <1>1, <1>2 DEF TpmInv

LEMMA TpmBeginRaises == ASSUME TpmInv, TPM!BeginRaises PROVE TpmInv'
<1>1. UNCHANGED <<tPc, tPhase, tSize, tCount, tBurst, tGot, tRequestedUse, tGranted, tHolder, tSeized, tState, tFifo,
                  tRsp, tDsize>>
      /\ tPc = "idle" /\ tWanted' = (tWanted \/ tSeized) /\ tAbandoned' = (tAbandoned \/ tSeized)
  BY DEF TPM!BeginRaises, TPM!Idle
<1>2. TpmHolds'
  BY <1>1, FifoStays DEF TpmInv, TpmHolds, TpmTypes, Active
<1> QED
  BY <1>1, <1>2 DEF TpmInv, TpmProgress, Sent, Received, TPM!Bytes

LEMMA TpmRequest == ASSUME TpmInv, TPM!RequestUse PROVE TpmInv'
<1>1. TpmHolds'
  BY TpmFacts, FifoStays DEF TPM!RequestUse, TPM!Mine, TpmInv, TpmHolds, TpmTypes, Active
<1>2. ~tGranted'
  BY DEF TPM!RequestUse, TpmInv, TpmHolds
<1> QED
  BY <1>1, <1>2 DEF TpmInv

LEMMA TpmReady == ASSUME TpmInv, TPM!CommandReady PROVE TpmInv'
<1>1. /\ tPc = "ready" /\ tGranted' = (tGranted \/ TPM!Mine)
      /\ UNCHANGED <<tPhase, tSize, tCount, tBurst, tGot, tRequestedUse, tAbandoned, tHolder, tWanted, tSeized, tDsize>>
  BY DEF TPM!CommandReady
<1>2. tSize \in TpmSizes /\ tSize \in Nat /\ tPhase = "send" /\ tCount = 0 /\ tGot = <<>>
  BY <1>1, TpmFacts DEF TpmInv, TpmHolds
<1>3. CASE ~TPM!Mine
  <2>1. ~tGranted /\ ~tGranted' /\ tPc' \in {"go", "burst"} /\ UNCHANGED <<tState, tFifo, tRsp>>
    BY <1>1, <1>3 DEF TPM!CommandReady, TpmInv, TpmHolds, TPM!Mine, Active
  <2>2. TpmHolds'
    BY <1>1, <1>2, <2>1, TpmFacts, FifoStays DEF TpmInv, TpmHolds, TpmTypes, Active
  <2> QED
    BY <2>1, <2>2 DEF TpmInv
<1>4. CASE TPM!Mine /\ tState = "ready"
  <2>1. /\ tGranted /\ tGranted' = TRUE /\ UNCHANGED <<tState, tFifo, tRsp>>
        /\ tPc' = IF tSize = 0 THEN "go" ELSE "burst"
    BY <1>1, <1>4 DEF TPM!CommandReady, TpmInv, TpmHolds, Active
  <2>2. TpmHolds'
    BY <1>1, <1>2, <1>4, <2>1, TpmFacts, FifoStays DEF TpmInv, TpmHolds, TpmTypes, Active, TPM!Mine
  <2>3. tFifo = <<>>
    BY <1>1, <2>1 DEF TpmInv, TpmProgress
  <2>4. TpmProgress'
    BY <1>1, <1>2, <1>4, <2>1, <2>3, NoBytes DEF TpmProgress, Sent
  <2> QED
    BY <2>2, <2>4 DEF TpmInv
<1>5. CASE TPM!Mine /\ tState # "ready"
  <2>1. /\ tGranted' = TRUE /\ tState' = "preparing" /\ tFifo' = <<>> /\ tRsp' = <<>> /\ tPc' = "ready"
    BY <1>1, <1>5 DEF TPM!CommandReady
  <2>2. FifoFits'
    <3>1. PICK n \in TpmSizes : TRUE
      BY TpmFacts
    <3>2. n \in Nat /\ Len(tFifo') = 0 /\ 0 <= n
      BY <2>1, TpmFacts, NoBytes
    <3> QED
      BY <3>2 DEF FifoFits
  <2>3. TpmHolds'
    BY <1>1, <1>2, <1>5, <2>1, <2>2, TpmFacts, FifoStays DEF TpmInv, TpmHolds, TpmTypes, Active, TPM!Mine
  <2>4. TpmProgress'
    BY <2>1 DEF TpmProgress
  <2> QED
    BY <2>3, <2>4 DEF TpmInv
<1> QED
  BY <1>3, <1>4, <1>5

LEMMA TpmReadBurst == ASSUME TpmInv, NEW b \in 0 .. TpmBurst, TPM!ReadBurst(b) PROVE TpmInv'
<1>1. /\ tPc = "burst" /\ tBurst' = b /\ tPc' = IF b = 0 THEN "burst" ELSE "byte"
      /\ UNCHANGED <<tPhase, tSize, tCount, tGot, tRequestedUse, tGranted, tAbandoned, tHolder, tWanted, tSeized,
                     tState, tFifo, tRsp, tDsize>>
  BY DEF TPM!ReadBurst, TPM!tpmVars
<1>2. TpmHolds'
  BY <1>1, TpmFacts, FifoStays DEF TpmInv, TpmHolds, TpmTypes, Active
<1>3. TpmProgress => TpmProgress'
  BY <1>1 DEF TpmProgress, Sent, Received, TPM!Bytes
<1> QED
  BY <1>1, <1>2, <1>3 DEF TpmInv

LEMMA TpmSend == ASSUME TpmInv, TPM!SendByte PROVE TpmInv'
<1>1. /\ tPc = "byte" /\ tPhase = "send" /\ tCount' = tCount + 1 /\ tBurst' = tBurst - 1
      /\ tPc' = IF tCount + 1 = tSize THEN "go" ELSE IF tBurst = 1 THEN "burst" ELSE "byte"
      /\ UNCHANGED <<tPhase, tSize, tGot, tRequestedUse, tGranted, tAbandoned, tHolder, tWanted, tSeized, tState,
                     tRsp, tDsize>>
      /\ tFifo' = IF TPM!Mine /\ tState = "ready" THEN Append(tFifo, tCount + 1) ELSE tFifo
  BY DEF TPM!SendByte, TPM!Goes, TPM!Length
<1>2. tSize \in TpmSizes /\ tSize \in Nat /\ tCount \in Nat /\ tBurst \in Nat /\ tBurst > 0
  BY <1>1, TpmFacts DEF TpmInv, TpmHolds, TpmTypes
<1>3. CASE ~tGranted
  <2>1. tState = "idle" /\ tFifo' = tFifo
    BY <1>1, <1>3 DEF TpmInv, TpmHolds, Active
  <2>2. tGot' = tGot
    BY <1>1
  <2>3. TpmHolds'
    BY <1>1, <1>2, <1>3, <2>1, TpmFacts, FifoStays DEF TpmInv, TpmHolds, TpmTypes, Active
  <2> QED
    BY <1>1, <1>3, <2>3 DEF TpmInv
<1>4. CASE tGranted
  <2>1. tState = "ready" /\ tCount < tSize /\ tFifo = TPM!Bytes(1, tCount) /\ tGot = <<>> /\ tSize > 0 /\ TPM!Mine
    BY <1>1, <1>4 DEF TpmInv, TpmHolds, TpmProgress, Active, TPM!Mine
  <2>2. tFifo' = TPM!Bytes(1, tCount + 1)
    <3>1. Append(TPM!Bytes(1, tCount), tCount + 1) = TPM!Bytes(1, tCount + 1)
      <4>1. 1 \in Nat /\ 1 <= tCount + 1
        BY <1>2
      <4> QED
        BY <1>2, <4>1, BytesFacts
    <3> QED
      BY <1>1, <2>1, <3>1
  <2>3. Len(tFifo') = tCount + 1 /\ tCount + 1 <= tSize
    BY <1>2, <2>1, <2>2, NoBytes
  <2>4. FifoFits'
    BY <1>2, <2>3 DEF FifoFits
  <2>5. TpmHolds'
    BY <1>1, <1>2, <1>4, <2>1, <2>4, TpmFacts, FifoStays DEF TpmInv, TpmHolds, TpmTypes, Active
  <2>6. CASE tCount + 1 = tSize
    <3>1. tPc' = "go" /\ tFifo' = TPM!Bytes(1, tSize)
      BY <1>1, <2>2, <2>6
    <3>2. Sent'
      BY <1>1, <3>1 DEF Sent, TPM!Bytes
    <3> QED
      BY <1>1, <2>1, <2>5, <3>1, <3>2 DEF TpmInv, TpmProgress
  <2>7. CASE tCount + 1 # tSize
    <3>1. tPc' \in {"burst", "byte"} /\ tCount' < tSize'
      BY <1>1, <1>2, <2>1, <2>7
    <3>2. tFifo' = TPM!Bytes(1, tCount')
      BY <1>1, <2>2
    <3> QED
      BY <1>1, <2>1, <2>5, <3>1, <3>2 DEF TpmInv, TpmProgress, TPM!Bytes
  <2> QED
    BY <2>6, <2>7
<1> QED
  BY <1>3, <1>4 DEF TpmInv, TpmHolds, TpmTypes

LEMMA TpmGoes == ASSUME TpmInv, TPM!TpmGo PROVE TpmInv'
<1>1. /\ tPc = "go" /\ tPc' = "avail"
      /\ tState' = IF TPM!Mine /\ tState = "ready" /\ Len(tFifo) >= tSize /\ tSize > 0 THEN "executing" ELSE tState
      /\ UNCHANGED <<tPhase, tSize, tCount, tBurst, tGot, tRequestedUse, tGranted, tAbandoned, tHolder, tWanted, tSeized,
                     tFifo, tRsp, tDsize>>
  BY DEF TPM!TpmGo
<1>2. TpmHolds'
  BY <1>1, TpmFacts, FifoStays DEF TpmInv, TpmHolds, TpmTypes, Active
<1>3. ASSUME tGranted PROVE TpmProgress'
  <2>1. tState = "ready" /\ Sent /\ TPM!Mine /\ tSize \in Nat
    BY <1>1, <1>3, TpmFacts DEF TpmInv, TpmProgress, TpmHolds, Active, TPM!Mine
  <2>2. Len(tFifo) >= tSize
    BY <2>1, NoBytes DEF Sent
  <2>3. Sent'
    BY <1>1, <2>1 DEF Sent, TPM!Bytes
  <2> QED
    BY <1>1, <2>1, <2>2, <2>3 DEF TpmProgress
<1> QED
  BY <1>1, <1>2, <1>3 DEF TpmInv

LEMMA TpmAvail == ASSUME TpmInv, TPM!DataAvail PROVE TpmInv'
<1>1. /\ tPc = "avail" /\ tPc' = "burst" /\ tPhase' = "header" /\ tCount' = 0
      /\ (~TPM!Mine \/ tState = "done")
      /\ UNCHANGED <<tSize, tBurst, tGot, tRequestedUse, tGranted, tAbandoned, tHolder, tWanted, tSeized,
                     tState, tFifo, tRsp, tDsize>>
  BY DEF TPM!DataAvail, TPM!tpmVars
<1>2. TpmHolds'
  BY <1>1, TpmFacts, FifoStays DEF TpmInv, TpmHolds, TpmTypes, Active
<1>3. ASSUME tGranted PROVE TpmProgress'
  <2>1. tState = "done" /\ Sent /\ Received(0) /\ tSize # 0 /\ tSize \in Nat
    BY <1>1, <1>3, TpmFacts DEF TpmInv, TpmProgress, TpmHolds, Active, TPM!Mine
  <2>2. Sent' /\ Received(tCount)'
    BY <1>1, <2>1 DEF Sent, Received, TPM!Bytes
  <2> QED
    BY <1>1, <2>1, <2>2, TpmFacts DEF TpmProgress
<1> QED
  BY <1>1, <1>2, <1>3 DEF TpmInv

\* A byte of the response: it goes from what the TPM still has to what the host has.
LEMMA OneByte ==
  ASSUME NEW n \in Nat, NEW m \in Nat, n < m
  PROVE  /\ TPM!Bytes(n + 1, m) # <<>> /\ Head(TPM!Bytes(n + 1, m)) = n + 1
         /\ Append(TPM!Bytes(1, n), n + 1) = TPM!Bytes(1, n + 1)
         /\ Tail(TPM!Bytes(n + 1, m)) = TPM!Bytes(n + 1 + 1, m)
<1>1. n + 1 \in Nat /\ n + 1 <= m /\ n + 1 <= m + 1 /\ n + 1 # m + 1 /\ 1 \in Nat /\ 1 <= n + 1
  OBVIOUS
<1>2. TPM!Bytes(n + 1, m) # <<>>
  BY <1>1, BytesFacts
<1>3. Head(TPM!Bytes(n + 1, m)) = n + 1 /\ Tail(TPM!Bytes(n + 1, m)) = TPM!Bytes(n + 1 + 1, m)
  BY <1>1, BytesFacts
<1>4. Append(TPM!Bytes(1, n), n + 1) = TPM!Bytes(1, n + 1)
  BY <1>1, BytesFacts
<1> QED
  BY <1>2, <1>3, <1>4

LEMMA TpmReadByte == ASSUME TpmInv, TPM!ReadByte PROVE TpmInv'
<1> DEFINE live == TPM!Mine /\ tState = "done" /\ tRsp # <<>>
           goesOn == tPhase = "header" /\ tCount + 1 = TpmHeader /\ TPM!AfterHeader = "data"
<1>1. /\ tPc = "byte" /\ tPhase # "send"
      /\ tGot' = Append(tGot, IF live THEN Head(tRsp) ELSE TPM!FF) /\ tRsp' = IF live THEN Tail(tRsp) ELSE tRsp
      /\ UNCHANGED <<tSize, tRequestedUse, tGranted, tAbandoned, tHolder, tWanted, tSeized, tState, tFifo, tDsize>>
      /\ IF goesOn THEN tPhase' = "data" /\ tCount' = 0 /\ tBurst' = 0 /\ tPc' = "burst"
         ELSE TPM!Goes("release") /\ tPhase' = tPhase
  BY DEF TPM!ReadByte
<1>2. /\ tCount \in Nat /\ tBurst \in 1 .. TpmBurst /\ tDsize \in Nat /\ tPhase \in {"header", "data"}
      /\ tSize \in TpmSizes /\ tSize \in Nat
  BY <1>1, TpmFacts DEF TpmInv, TpmHolds, TpmTypes
<1>3. ~goesOn => /\ tCount' = tCount + 1 /\ tBurst' = tBurst - 1
                 /\ tPc' = IF tCount + 1 = (IF tPhase = "header" THEN TpmHeader ELSE tDsize) THEN "release"
                           ELSE IF tBurst = 1 THEN "burst" ELSE "byte"
  BY <1>1, <1>2 DEF TPM!Goes, TPM!Length
<1> HIDE DEF goesOn
<1>4. TpmHolds'
  <2>1. tPhase' \in {"header", "data"} /\ tCount' \in Nat /\ tPc' \in {"release", "burst", "byte"}
    BY <1>1, <1>2, <1>3
  <2>2. tBurst' \in 0 .. TpmBurst /\ (tPc' = "byte" => tBurst' > 0)
    BY <1>1, <1>2, <1>3, TpmFacts
  <2> QED
    BY <1>1, <1>2, <2>1, <2>2, FifoStays DEF TpmInv, TpmHolds, TpmTypes, Active
<1>5. ASSUME tGranted PROVE TpmProgress'
  <2> DEFINE n == IF tPhase = "header" THEN tCount ELSE TpmHeader + tCount
             m == TpmHeader + tDsize
  <2>1. /\ tSize > 0 /\ Sent /\ tState = "done" /\ TPM!Mine /\ Received(n)
        /\ tCount < (IF tPhase = "header" THEN TpmHeader ELSE tDsize)
    BY <1>1, <1>2, <1>5 DEF TpmInv, TpmHolds, TpmProgress, Active, TPM!Mine
  <2>2. n \in Nat /\ m \in Nat /\ n < m
    BY <1>2, <2>1, TpmFacts
  <2> HIDE DEF n, m
  <2>3. tGot = TPM!Bytes(1, n) /\ tRsp = TPM!Bytes(n + 1, m)
    BY <2>1 DEF Received, m
  <2>4. live /\ Head(tRsp) = n + 1
    BY <2>1, <2>2, <2>3, OneByte
  <2>5. tGot' = TPM!Bytes(1, n + 1) /\ tRsp' = TPM!Bytes(n + 1 + 1, m)
    BY <1>1, <2>2, <2>3, <2>4, OneByte
  <2>6. Sent'
    BY <1>1, <2>1 DEF Sent, TPM!Bytes
  <2>7. tPhase = "header" => TPM!AfterHeader = IF tDsize > 0 /\ n + 1 = TpmHeader THEN "data" ELSE "release"
    <3>1. TPM!AfterHeader = IF tDsize > 0 /\ TPM!Bytes(1, n + 1) = TPM!Bytes(1, TpmHeader) THEN "data"
                            ELSE "release"
      BY <2>2, <2>3, <2>4, OneByte DEF TPM!AfterHeader
    <3>2. TPM!Bytes(1, n + 1) = TPM!Bytes(1, TpmHeader) <=> n + 1 = TpmHeader
      <4>1. Len(TPM!Bytes(1, n + 1)) = n + 1 /\ Len(TPM!Bytes(1, TpmHeader)) = TpmHeader
        BY <2>2, TpmFacts, NoBytes
      <4> QED
        BY <4>1
    <3> QED
      BY <3>1, <3>2
  <2>8. CASE goesOn
    <3>1. tPhase = "header" /\ tCount + 1 = TpmHeader /\ tDsize > 0 /\ n + 1 = TpmHeader + 0
      BY <1>2, <2>7, <2>8, TpmFacts DEF goesOn, n
    <3>2. tPc' = "burst" /\ tPhase' = "data" /\ tCount' = 0
      BY <1>1, <2>8
    <3>3. Received(TpmHeader + tCount)'
      BY <1>1, <2>5, <3>1, <3>2 DEF Received, m, TPM!Bytes
    <3> QED
      BY <1>1, <2>1, <2>6, <3>1, <3>2, <3>3 DEF TpmProgress
  <2>9. CASE ~goesOn /\ tPc' # "release"
    <3>1. /\ tPc' \in {"burst", "byte"} /\ tPhase' = tPhase /\ tCount' = tCount + 1
          /\ tCount' < (IF tPhase = "header" THEN TpmHeader ELSE tDsize)
      BY <1>1, <1>2, <1>3, <2>1, <2>9, TpmFacts
    <3>2. n + 1 = IF tPhase = "header" THEN tCount' ELSE TpmHeader + tCount'
      BY <1>2, <3>1, TpmFacts DEF n
    <3>3. IF tPhase = "header" THEN Received(tCount)' ELSE Received(TpmHeader + tCount)'
      BY <1>1, <2>5, <3>2 DEF Received, m, TPM!Bytes
    <3> QED
      BY <1>1, <1>2, <2>1, <2>6, <3>1, <3>3 DEF TpmProgress
  <2>10. CASE ~goesOn /\ tPc' = "release"
    <3>1. tCount + 1 = IF tPhase = "header" THEN TpmHeader ELSE tDsize
      BY <1>2, <1>3, <2>10
    <3>2. n + 1 = TpmHeader + tDsize
      <4>1. CASE tPhase = "header"
        <5>1. n + 1 = TpmHeader
          BY <3>1, <4>1 DEF n
        <5>2. tDsize = 0
          BY <1>2, <2>7, <2>10, <3>1, <4>1, <5>1 DEF goesOn
        <5> QED
          BY <5>1, <5>2, TpmFacts
      <4>2. CASE tPhase # "header"
        BY <1>2, <3>1, <4>2, TpmFacts DEF n
      <4> QED
        BY <4>1, <4>2
    <3>3. tGot' = TPM!Bytes(1, TpmHeader + tDsize)'
      BY <1>1, <2>5, <3>2 DEF TPM!Bytes
    <3> QED
      BY <1>1, <2>1, <2>6, <2>10, <3>3 DEF TpmProgress
  <2> QED
    BY <2>8, <2>9, <2>10
<1> QED
  BY <1>1, <1>4, <1>5 DEF TpmInv

LEMMA TpmRelease == ASSUME TpmInv, TPM!Release PROVE TpmInv'
<1>1. /\ tPc = "release" /\ tPc' = "idle" /\ tSeized' = (tSeized /\ ~tRequestedUse) /\ tWanted' = FALSE
      /\ tAbandoned' = FALSE
      /\ tHolder' = (IF TPM!Mine THEN "none" ELSE tHolder) /\ tState' = (IF TPM!Mine THEN "idle" ELSE tState)
      /\ UNCHANGED <<tPhase, tSize, tCount, tBurst, tGot, tRequestedUse, tGranted, tFifo, tRsp, tDsize>>
  BY DEF TPM!Release
<1>2. TpmHolds'
  BY <1>1, TpmFacts, FifoStays DEF TpmInv, TpmHolds, TpmTypes, Active, TPM!Mine
<1>3. TpmProgress => TpmProgress'
  BY <1>1 DEF TpmProgress, Sent, TPM!Bytes
<1> QED
  BY <1>1, <1>2, <1>3 DEF TpmInv

\* The TPM and the other agent change what the command relies on only while it does not.
LEMMA TpmOwnSteps ==
  ASSUME TpmInv, TPM!Grants \/ TPM!OtherTakes \/ TPM!OtherLeaves \/ TPM!GetsReady PROVE TpmInv'
<1>1. UNCHANGED <<tPc, tPhase, tSize, tCount, tBurst, tGot, tRequestedUse, tGranted, tAbandoned, tFifo, tRsp, tDsize>>
  BY DEF TPM!Grants, TPM!OtherTakes, TPM!OtherLeaves, TPM!GetsReady, TPM!hostVars
<1>2. FifoFits'
  BY <1>1, FifoStays DEF TpmInv, TpmHolds, TpmTypes
<1>3. CASE TPM!Grants
  <2>1. TpmHolds'
    BY <1>1, <1>2, <1>3 DEF TPM!Grants, TpmInv, TpmHolds, TpmTypes, Active
  <2> QED
    BY <1>1, <1>3, <2>1 DEF TPM!Grants, TpmInv, TpmProgress, Sent, Received, TPM!Bytes
<1>4. CASE TPM!OtherTakes
  <2>1. TpmHolds'
    BY <1>1, <1>2, <1>4 DEF TPM!OtherTakes, TPM!Idle, TpmInv, TpmHolds, TpmTypes, Active
  <2> QED
    BY <1>1, <1>4, <2>1 DEF TPM!OtherTakes, TpmInv, TpmProgress, Sent, Received, TPM!Bytes
<1>5. CASE TPM!OtherLeaves
  <2>1. ~Active /\ tState' = "idle" /\ tState = "idle"
    BY <1>5 DEF TPM!OtherLeaves, TpmInv, TpmHolds, Active
  <2>2. TpmHolds'
    BY <1>1, <1>2, <1>5, <2>1 DEF TPM!OtherLeaves, TpmInv, TpmHolds, TpmTypes, Active
  <2> QED
    BY <1>1, <2>1, <2>2 DEF TpmInv, TpmProgress, Sent, Received, TPM!Bytes
<1>6. CASE TPM!GetsReady
  <2>1. tState = "preparing" /\ tState' = "ready" /\ Active
    BY <1>6 DEF TPM!GetsReady, TpmInv, TpmHolds
  <2>2. TpmHolds'
    BY <1>1, <1>2, <1>6, <2>1 DEF TPM!GetsReady, TpmInv, TpmHolds, TpmTypes, Active
  <2>3. tPc = "ready" /\ TpmProgress
    <3>1. TpmProgress /\ tPc # "idle" /\ tPc # "request"
      BY <2>1 DEF TpmInv, TpmHolds, Active
    <3> QED
      BY <2>1, <3>1 DEF TpmInv, TpmHolds, TpmTypes, TpmProgress
  <2>4. TpmProgress'
    BY <1>1, <2>1, <2>3 DEF TpmProgress
  <2> QED
    BY <2>2, <2>4 DEF TpmInv
<1> QED
  BY <1>3, <1>4, <1>5, <1>6

LEMMA TpmExecutes == ASSUME TpmInv, NEW d \in 0 .. TpmData, TPM!Executes(d) PROVE TpmInv'
<1>1. /\ tState = "executing" /\ tState' = "done" /\ tDsize' = d /\ tRsp' = TPM!Bytes(1, TpmHeader + d) /\ d \in Nat
      /\ UNCHANGED <<tPc, tPhase, tSize, tCount, tBurst, tGot, tRequestedUse, tGranted, tAbandoned, tHolder, tWanted, tSeized,
                     tFifo>>
  BY TpmFacts DEF TPM!Executes, TPM!hostVars
<1>2. TpmHolds'
  BY <1>1, FifoStays DEF TpmInv, TpmHolds, TpmTypes, Active
<1>3. tPc = "avail" /\ TpmProgress
  <2>1. TpmProgress /\ tPc # "idle" /\ tPc # "request"
    BY <1>1 DEF TpmInv, TpmHolds, Active
  <2> QED
    BY <1>1, <2>1 DEF TpmInv, TpmHolds, TpmTypes, TpmProgress
<1>4. Sent' /\ tGot = <<>>
  BY <1>1, <1>3 DEF TpmInv, TpmHolds, TpmProgress, Sent, TPM!Bytes
<1>5. Received(0)'
  <2>1. tGot' = TPM!Bytes(1, 0)
    BY <1>1, <1>4, NoBytes
  <2>2. tRsp' = TPM!Bytes(0 + 1, TpmHeader + tDsize')
    BY <1>1
  <2> QED
    BY <2>1, <2>2 DEF Received, TPM!Bytes
<1> QED
  BY <1>1, <1>2, <1>3, <1>4, <1>5 DEF TpmInv, TpmProgress

LEMMA TpmStep == TpmInv /\ [TPM!Next]_(TPM!vars) => TpmInv'
<1> SUFFICES ASSUME TpmInv, [TPM!Next]_(TPM!vars) PROVE TpmInv'
  OBVIOUS
<1>1. CASE UNCHANGED TPM!vars
  <2>1. UNCHANGED <<tPc, tPhase, tSize, tCount, tBurst, tGot, tRequestedUse, tGranted, tAbandoned, tHolder, tWanted,
                    tSeized, tState, tFifo, tRsp, tDsize>>
    BY <1>1 DEF TPM!vars, TPM!hostVars, TPM!tpmVars
  <2>2. TpmHolds'
    BY <2>1, FifoStays DEF TpmInv, TpmHolds, TpmTypes, Active
  <2> QED
    BY <2>1, <2>2 DEF TpmInv, TpmProgress, Sent, Received, TPM!Bytes
<1> QED
  BY <1>1, TpmBegin, TpmBeginRaises, TpmRequest, TpmReady, TpmReadBurst, TpmSend, TpmGoes, TpmAvail, TpmReadByte, TpmRelease,
     TpmOwnSteps, TpmExecutes
  DEF TPM!Next, TPM!Host, TPM!Tpm

LEMMA OnlyTpm == [Next]_vars => [TPM!Next]_(TPM!vars)
  BY DEF Next, EcNext, TpmNext, PspNext, PortNext, SmbNext, vars, eVars, tVars, pVars, iVars, TPM!vars, TPM!hostVars,
         TPM!tpmVars

LEMMA TpmInvariance == Spec => []TpmInv
<1>1. Init => TpmInv
  BY TpmInit DEF Init
<1>2. TpmInv /\ [Next]_vars => TpmInv'
  BY TpmStep, OnlyTpm
<1> QED
  BY <1>1, <1>2, PTL DEF Spec

\* For every size of command, header and response and however the bursts fall: a command that had its
\* locality at the first status read is sent whole and its response is read whole, and no command
\* that returned keeps the locality or a request for it (tpm.py:242).
THEOREM TpmResponsesAreWhole == Spec => []TpmCommandsExact
<1>1. TpmInv => TpmCommandsExact
  BY DEF TpmInv, TpmHolds, TpmProgress, Sent, TpmCommandsExact, TPM!ResponseGenuine, TPM!LocalityReleased, TPM!Idle,
         TPM!Mine
<1> QED
  BY <1>1, TpmInvariance, PTL
-----------------------------------------------------------------------------
(***************************************************************************)
(* EmbeddedController.  r port accesses before the end of a call, the bytes *)
(* it has still to transfer, the offset of the one under way, and the       *)
(* access that comes next.                                                  *)
(***************************************************************************)
Left(r) == IF r = 0 THEN 0 ELSE IF r <= 3 THEN 1 ELSE 2
Place(c, r) == c.at + c.n - Left(r)
Opcode(c) == IF c.op = "read" THEN EC!READ ELSE EC!WRITE
Access(c, r) == IF r \in {3, 6} THEN EC!Cmd(Opcode(c))
                ELSE IF r \in {2, 5} THEN EC!Data(Place(c, r))
                ELSE IF c.op = "read" THEN EC!In ELSE EC!Data(c.bytes[c.n - Left(r) + 1])
Togo == Len(eTodo)
Done == eCall.n - Left(Togo)

IsCall(c) ==
  /\ c.op \in {"read", "write"} /\ c.n \in 0 .. 2 /\ c.at \in Nat
  /\ \A i \in 0 .. c.n - 1 : c.at + i \in EcOffsets
  /\ c.op = "write" => c.n > 0 /\ c.bytes \in [1 .. c.n -> EcBytes]

\* What the controller may hold, however many waits were given up.
CmdType ==
  \/ eCmd = <<>>
  \/ \E c \in {EC!READ, EC!WRITE} : eCmd = <<c>>
  \/ \E c \in {EC!READ, EC!WRITE}, b \in EcBytes : eCmd = <<c, b>>

EcTypes ==
  /\ IsCall(eCall)
  /\ Togo \in 0 .. 3 * eCall.n /\ eTodo \in Seq([port : {"command", "data", "in"}, byte : Nat])
  /\ \A j \in 1 .. Togo : eTodo[j] = Access(eCall, Togo - j + 1)
  /\ ePolls \in -1 .. EcPolls
  /\ Len(eGot) = (IF eCall.op = "read" THEN Done ELSE 0) /\ eGot \in Seq(EcBytes)
  /\ eWant \in [EcOffsets -> EcBytes \cup {EC!Unknown}] /\ eMem \in [EcOffsets -> EcBytes]
  /\ eIbf \in BOOLEAN /\ eObf \in BOOLEAN /\ eLate \in BOOLEAN /\ eDisturbed \in BOOLEAN
  /\ eOutp \in EcBytes /\ CmdType
  /\ eInp.port = "command" => eInp.byte \in {EC!READ, EC!WRITE}
  /\ eInp.port = "data" => eInp.byte \in EcBytes
  /\ eIbf => eInp.port \in {"command", "data"}

\* Host and controller in step, as long as no wait was given up.
Lost == eDisturbed /\ eCmd = <<>>
EcSync ==
  /\ Togo \in {0, 3, 6} =>
       /\ ~eObf
       /\ ~eIbf => eCmd = <<>>
       /\ eIbf => eInp.port = "data" /\ (eCmd = <<>> \/ \E o \in EcOffsets : eCmd = <<EC!WRITE, o>>)
  /\ Togo \in {2, 5} =>
       /\ ~eObf
       /\ eIbf => eInp = EC!Cmd(Opcode(eCall))
       /\ ~eIbf => eCmd = <<Opcode(eCall)>> \/ Lost
  /\ Togo \in {1, 4} =>
       /\ eIbf => ~eObf /\ eInp = EC!Data(Place(eCall, Togo)) /\ (eCmd = <<Opcode(eCall)>> \/ Lost)
       /\ ~eIbf => \/ ~eObf /\ eCmd = <<Opcode(eCall), Place(eCall, Togo)>>
                   \/ eObf /\ eCmd = <<>> /\ eCall.op = "read" /\ eOutp = eMem[Place(eCall, Togo)]
                   \/ ~eObf /\ Lost
  /\ ePolls = -1 /\ Togo > 0 =>
       ~eIbf /\ (Access(eCall, Togo) = EC!In => eCmd = <<>> /\ (eObf \/ eDisturbed))

\* The memory once a byte on its way has arrived.
Pending(o) == eIbf /\ eInp.port = "data" /\ eCmd = <<EC!WRITE, o>>
Settled(o) == IF Pending(o) THEN eInp.byte ELSE eMem[o]
InWrite(o) == eCall.op = "write" /\ Togo > 0 /\ o >= eCall.at /\ o < eCall.at + eCall.n
EcMemory ==
  /\ \A o \in EcOffsets : ~InWrite(o) => eWant[o] \in {Settled(o), EC!Unknown}
  /\ ~eDisturbed => \A i \in 1 .. Done : Settled(eCall.at + i - 1) =
                                           IF eCall.op = "read" THEN eGot[i] ELSE eCall.bytes[i]

EcInv == EcTypes /\ (~eLate => EcSync /\ EcMemory)

LEMMA EcFacts == /\ EcOffsets \in SUBSET Nat /\ EcBytes = EcOffsets /\ 0 \in EcBytes /\ EcPolls \in Nat
                 /\ EC!READ \in Nat /\ EC!WRITE \in Nat /\ EC!READ # EC!WRITE
  BY DevicesAssumption DEF EC!READ, EC!WRITE

LEMMA TupleFacts ==
  /\ \A a : <<a>> # <<>> /\ Len(<<a>>) = 1 /\ <<a>>[1] = a
  /\ \A a, b : <<a, b>> # <<>> /\ Len(<<a, b>>) = 2 /\ <<a, b>>[1] = a /\ <<a, b>>[2] = b
  /\ \A a, b : Append(<<a>>, b) = <<a, b>>
  /\ \A a, b, c : Len(<<a, b, c>>) = 3 /\ <<a, b, c>>[1] = a /\ <<a, b, c>>[2] = b /\ <<a, b, c>>[3] = c
  /\ \A a, b, c : Append(<<a, b>>, c) = <<a, b, c>>
  /\ \A a, b, c : <<a>> # <<b, c>>
  /\ \A a, b : <<a>> = <<b>> <=> a = b
  /\ \A a, b, c, d : <<a, b>> = <<c, d>> <=> (a = c /\ b = d)
  /\ Len(<<>>) = 0
<1>1. \A a : <<a>> # <<>> /\ Len(<<a>>) = 1 /\ <<a>>[1] = a
  OBVIOUS
<1>2. \A a, b : <<a, b>> # <<>> /\ Len(<<a, b>>) = 2 /\ <<a, b>>[1] = a /\ <<a, b>>[2] = b
  OBVIOUS
<1>3. ASSUME NEW S, NEW s \in Seq(S), NEW t \in Seq(S), Len(s) = Len(t), \A i \in 1 .. Len(s) : s[i] = t[i]
      PROVE  s = t
  <2>1. s = [i \in 1 .. Len(s) |-> s[i]] /\ t = [i \in 1 .. Len(t) |-> t[i]]
    OBVIOUS
  <2> QED
    BY <1>3, <2>1
<1>4. ASSUME NEW a, NEW b PROVE Append(<<a>>, b) = <<a, b>>
  <2> DEFINE S == {a, b}
             s == Append(<<a>>, b)
             t == <<a, b>>
  <2>1. s \in Seq(S) /\ t \in Seq(S) /\ Len(s) = 2 /\ Len(t) = 2
    OBVIOUS
  <2>2. s[1] = t[1] /\ s[2] = t[2]
    OBVIOUS
  <2> HIDE DEF S, s, t
  <2>3. \A i \in 1 .. Len(s) : s[i] = t[i]
    BY <2>1, <2>2
  <2>4. s = t
    BY <1>3, <2>1, <2>3
  <2> QED
    BY <2>4 DEF s, t
<1>5. \A a, b, c : Len(<<a, b, c>>) = 3 /\ <<a, b, c>>[1] = a /\ <<a, b, c>>[2] = b /\ <<a, b, c>>[3] = c
  OBVIOUS
<1>6. ASSUME NEW a, NEW b, NEW c PROVE Append(<<a, b>>, c) = <<a, b, c>>
  <2> DEFINE S == {a, b, c}
             s == Append(<<a, b>>, c)
             t == <<a, b, c>>
  <2>1. s \in Seq(S) /\ t \in Seq(S) /\ Len(s) = 3 /\ Len(t) = 3
    OBVIOUS
  <2>2. s[1] = t[1] /\ s[2] = t[2] /\ s[3] = t[3]
    OBVIOUS
  <2> HIDE DEF S, s, t
  <2>3. \A i \in 1 .. Len(s) : s[i] = t[i]
    BY <2>1, <2>2
  <2>4. s = t
    BY <1>3, <2>1, <2>3
  <2> QED
    BY <2>4 DEF s, t
<1>7. \A a, b, c : <<a>> # <<b, c>>
  OBVIOUS
<1>8. \A a, b : <<a>> = <<b>> <=> a = b
  OBVIOUS
<1>9. \A a, b, c, d : <<a, b>> = <<c, d>> <=> (a = c /\ b = d)
  OBVIOUS
<1>10. Len(<<>>) = 0
  OBVIOUS
<1> QED
  BY <1>1, <1>2, <1>4, <1>5, <1>6, <1>7, <1>8, <1>9, <1>10, Zenon

\* The accesses of a call, and where they lead.
LEMMA AccessFacts ==
  ASSUME NEW c, IsCall(c), NEW r \in 1 .. 3 * c.n
  PROVE  /\ r \in 1 .. 6 /\ Left(r) \in 1 .. c.n /\ Place(c, r) \in EcOffsets
         /\ Place(c, r) >= c.at /\ Place(c, r) < c.at + c.n
         /\ Access(c, r) \in [port : {"command", "data", "in"}, byte : Nat]
         /\ r \in {3, 6} => Access(c, r).port = "command" /\ Access(c, r).byte = Opcode(c)
         /\ r \in {2, 5} => Access(c, r).port = "data" /\ Access(c, r).byte = Place(c, r)
         /\ r \in {1, 4} /\ c.op = "read" => Access(c, r) = EC!In
         /\ r \in {1, 4} /\ c.op = "write" =>
              /\ Access(c, r).port = "data" /\ Access(c, r).byte = c.bytes[c.n - Left(r) + 1]
              /\ Access(c, r).byte \in EcBytes
         /\ Access(c, r).port = "in" <=> Access(c, r) = EC!In
<1>1. c.n \in 1 .. 2 /\ r \in 1 .. 6 /\ Left(r) \in 1 .. c.n
  BY DEF IsCall, Left
<1>2. c.n - Left(r) \in 0 .. c.n - 1 /\ Place(c, r) = c.at + (c.n - Left(r))
  BY <1>1 DEF IsCall, Place
<1>3. Place(c, r) \in EcOffsets /\ Place(c, r) >= c.at /\ Place(c, r) < c.at + c.n /\ Place(c, r) \in Nat
  BY <1>1, <1>2, EcFacts DEF IsCall
<1>4. c.op = "write" => c.bytes[c.n - Left(r) + 1] \in EcBytes
  <2>1. c.n - Left(r) + 1 \in 1 .. c.n
    BY <1>1
  <2> HIDE DEF Left
  <2> QED
    BY <2>1 DEF IsCall
<1>5. CASE r \in {3, 6}
  BY <1>1, <1>3, <1>5, EcFacts DEF Access, EC!Cmd, Opcode, EC!In
<1>6. CASE r \in {2, 5}
  BY <1>1, <1>3, <1>6 DEF Access, EC!Data, EC!In
<1>7. CASE r \in {1, 4}
  <2>1. CASE c.op = "read"
    BY <1>1, <1>3, <1>7, <2>1 DEF Access, EC!In
  <2>2. CASE c.op = "write"
    <3>1. Access(c, r) = [port |-> "data", byte |-> c.bytes[c.n - Left(r) + 1]]
      BY <1>7, <2>2 DEF Access, EC!Data
    <3>2. c.bytes[c.n - Left(r) + 1] \in Nat
      BY <1>4, <2>2, EcFacts
    <3> QED
      BY <1>1, <1>3, <1>4, <1>7, <2>2, <3>1, <3>2 DEF EC!In
  <2> QED
    BY <2>1, <2>2 DEF IsCall
<1> QED
  BY <1>1, <1>5, <1>6, <1>7

LEMMA TodoFacts ==
  ASSUME EcTypes
  PROVE  /\ Togo \in 0 .. 6 /\ (EC!Idle <=> Togo = 0)
         /\ Togo > 0 => /\ Togo \in 1 .. 3 * eCall.n /\ Head(eTodo) = Access(eCall, Togo)
                        /\ Len(Tail(eTodo)) = Togo - 1
                        /\ Tail(eTodo) \in Seq([port : {"command", "data", "in"}, byte : Nat])
                        /\ \A j \in 1 .. Togo - 1 : Tail(eTodo)[j] = Access(eCall, Togo - 1 - j + 1)
<1> DEFINE E == [port : {"command", "data", "in"}, byte : Nat]
<1>1. eTodo \in Seq(E) /\ Togo \in 0 .. 6 /\ Togo \in 0 .. 3 * eCall.n
  BY DEF EcTypes, IsCall
<1> HIDE DEF E
<1>2. EC!Idle <=> Togo = 0
  BY <1>1 DEF EC!Idle, Togo
<1>3. ASSUME Togo > 0
      PROVE  /\ Head(eTodo) = eTodo[1] /\ Len(Tail(eTodo)) = Togo - 1 /\ Tail(eTodo) \in Seq(E)
             /\ \A j \in 1 .. Togo - 1 : Tail(eTodo)[j] = eTodo[j + 1]
  BY <1>1, <1>3 DEF Togo
<1>4. \A j \in 1 .. Togo : eTodo[j] = Access(eCall, Togo - j + 1)
  BY DEF EcTypes
<1>5. ASSUME Togo > 0 PROVE eTodo[1] = Access(eCall, Togo)
  <2>1. 1 \in 1 .. Togo /\ Togo - 1 + 1 = Togo
    BY <1>1, <1>5
  <2> QED
    BY <1>4, <2>1
<1>6. ASSUME NEW j \in 1 .. Togo - 1 PROVE eTodo[j + 1] = Access(eCall, Togo - 1 - j + 1)
  <2>1. j + 1 \in 1 .. Togo /\ Togo - (j + 1) + 1 = Togo - 1 - j + 1
    BY <1>1, <1>6
  <2> QED
    BY <1>4, <2>1
<1>7. Togo > 0 => Togo \in 1 .. 3 * eCall.n
  BY <1>1
<1>8. Togo > 0 => /\ Togo \in 1 .. 3 * eCall.n /\ Head(eTodo) = Access(eCall, Togo)
                  /\ Len(Tail(eTodo)) = Togo - 1 /\ Tail(eTodo) \in Seq(E)
                  /\ \A j \in 1 .. Togo - 1 : Tail(eTodo)[j] = Access(eCall, Togo - 1 - j + 1)
  BY <1>3, <1>5, <1>6, <1>7
<1> QED
  BY <1>1, <1>2, <1>8 DEF E

LEMMA EcInit == EC!Init => EcInv
<1> SUFFICES ASSUME EC!Init PROVE EcInv
  OBVIOUS
<1>1. /\ eTodo = <<>> /\ eGot = <<>> /\ Togo = 0 /\ Len(eGot) = 0 /\ Left(0) = 0 /\ eCall.n = 0 /\ Done = 0
      /\ eTodo \in Seq([port : {"command", "data", "in"}, byte : Nat]) /\ eGot \in Seq(EcBytes)
  BY DEF EC!Init, Togo, Done, Left
<1>2. IsCall(eCall)
  BY EcFacts DEF EC!Init, IsCall
<1>3. eMem \in [EcOffsets -> EcBytes] /\ eWant = eMem
  BY EcFacts DEF EC!Init
<1>4. ePolls \in -1 .. EcPolls /\ 0 \in 0 .. 3 * eCall.n
  BY <1>1, EcFacts DEF EC!Init
<1>5. EcTypes
  BY <1>1, <1>2, <1>3, <1>4, EcFacts DEF EC!Init, EcTypes, CmdType, EC!In
<1>6. EcSync
  BY <1>1 DEF EC!Init, EcSync
<1>7. EcMemory
  BY <1>1, <1>3 DEF EC!Init, EcMemory, Settled, Pending
<1> QED
  BY <1>5, <1>6, <1>7 DEF EcInv

\* A new call: its accesses, in the order of read_range and write_range.
LEMMA ScriptFacts ==
  ASSUME NEW c \in EC!Calls
  PROVE  /\ IsCall(c) /\ c.n \in {1, 2} /\ Len(EC!Script(c)) = 3 * c.n
         /\ EC!Script(c) \in Seq([port : {"command", "data", "in"}, byte : Nat])
         /\ \A j \in 1 .. 3 * c.n : EC!Script(c)[j] = Access(c, 3 * c.n - j + 1)
<1> DEFINE E == [port : {"command", "data", "in"}, byte : Nat]
           s == EC!Script(c)
           A(r) == Access(c, r)
<1>1. /\ c.op \in {"read", "write"} /\ c.at \in EcOffsets /\ c.n \in {1, 2}
      /\ c.n = 2 => c.at + 1 \in EcOffsets
      /\ c.op = "write" /\ c.n = 1 => c.bytes \in [1 .. 1 -> EcBytes]
      /\ c.op = "write" /\ c.n = 2 => c.bytes \in [1 .. 2 -> EcBytes]
  BY DEF EC!Calls
<1>2. c.at \in Nat
  BY <1>1, EcFacts
<1>3. IsCall(c)
  <2>1. CASE c.n = 1
    <3>1. \A i \in 0 .. c.n - 1 : c.at + i = c.at
      BY <1>2, <2>1
    <3> QED
      BY <1>1, <1>2, <2>1, <3>1 DEF IsCall
  <2>2. CASE c.n = 2
    <3>1. \A i \in 0 .. c.n - 1 : c.at + i = c.at \/ c.at + i = c.at + 1
      BY <1>2, <2>2
    <3> QED
      BY <1>1, <1>2, <2>2, <3>1 DEF IsCall
  <2> QED
    BY <1>1, <2>1, <2>2
<1>4. \A r \in 1 .. 3 * c.n : A(r) \in E
  BY <1>3, AccessFacts
<1>5. CASE c.n = 1
  <2>1. s = <<A(3), A(2), A(1)>>
    <3>1. c.at + 1 - 1 = c.at /\ Place(c, 2) = c.at /\ c.n - Left(1) + 1 = 1
      BY <1>2, <1>5 DEF Place, Left
    <3> QED
      BY <1>1, <1>5, <3>1 DEF EC!Script, EC!read_memory, EC!write_memory, Access, Opcode
  <2>2. A(3) \in E /\ A(2) \in E /\ A(1) \in E
    BY <1>4, <1>5
  <2> HIDE DEF s, A, E
  <2>3. s \in Seq(E) /\ Len(s) = 3 /\ s[1] = A(3) /\ s[2] = A(2) /\ s[3] = A(1)
    BY <2>1, <2>2
  <2>4. \A j \in 1 .. 3 * c.n : s[j] = A(3 * c.n - j + 1)
    BY <1>5, <2>3
  <2> QED
    BY <1>3, <1>5, <2>3, <2>4 DEF s, A, E
<1>6. CASE c.n = 2
  <2>1. s = <<A(6), A(5), A(4)>> \o <<A(3), A(2), A(1)>>
    <3>1. /\ c.at + 1 - 1 = c.at /\ c.at + 2 - 1 = c.at + 1 /\ Place(c, 5) = c.at /\ Place(c, 2) = c.at + 1
          /\ c.n - Left(4) + 1 = 1 /\ c.n - Left(1) + 1 = 2
      BY <1>2, <1>6 DEF Place, Left
    <3> QED
      BY <1>1, <1>6, <3>1 DEF EC!Script, EC!read_memory, EC!write_memory, Access, Opcode
  <2>2. A(6) \in E /\ A(5) \in E /\ A(4) \in E /\ A(3) \in E /\ A(2) \in E /\ A(1) \in E
    BY <1>4, <1>6
  <2> HIDE DEF s, A, E
  <2>3. /\ s \in Seq(E) /\ Len(s) = 6 /\ s[1] = A(6) /\ s[2] = A(5) /\ s[3] = A(4)
        /\ s[4] = A(3) /\ s[5] = A(2) /\ s[6] = A(1)
    BY <2>1, <2>2
  <2>4. \A j \in 1 .. 3 * c.n : s[j] = A(3 * c.n - j + 1)
    BY <1>6, <2>3
  <2> QED
    BY <1>3, <1>6, <2>3, <2>4 DEF s, A, E
<1> QED
  BY <1>1, <1>5, <1>6

LEMMA EcBegin == ASSUME EcInv, NEW c \in EC!Calls, EC!Begin(c) PROVE EcInv'
<1>1. /\ Togo = 0 /\ eCall' = c /\ eTodo' = EC!Script(c) /\ ePolls' = EcPolls /\ eGot' = <<>> /\ eDisturbed' = FALSE
      /\ UNCHANGED <<eLate, eWant, eIbf, eObf, eInp, eOutp, eCmd, eMem>>
  BY TodoFacts DEF EC!Begin, EC!ecVars, EcInv
<1>2. /\ IsCall(c) /\ c.n \in {1, 2} /\ Togo' = 3 * c.n
      /\ eTodo' \in Seq([port : {"command", "data", "in"}, byte : Nat])
      /\ \A j \in 1 .. Togo' : eTodo'[j] = Access(eCall', Togo' - j + 1)
  BY <1>1, ScriptFacts DEF Togo
<1>3. Left(Togo') = c.n /\ Done' = 0 /\ Togo' \in {3, 6}
  BY <1>1, <1>2 DEF Left, Done
<1>4. Len(eGot') = 0 /\ eGot' \in Seq(EcBytes)
  BY <1>1
<1>5. CmdType'
  BY <1>1 DEF CmdType, EcInv, EcTypes
<1>6. EcTypes'
  <2>1. ePolls' \in -1 .. EcPolls /\ Togo' \in 0 .. 3 * eCall'.n
    BY <1>1, <1>2, EcFacts
  <2>2. IsCall(eCall)' /\ (Len(eGot) = (IF eCall.op = "read" THEN Done ELSE 0))' /\ eGot' \in Seq(EcBytes)
    BY <1>1, <1>2, <1>3, <1>4
  <2> QED
    BY <1>1, <1>2, <1>5, <2>1, <2>2 DEF EcInv, EcTypes
<1>7. ASSUME ~eLate PROVE EcSync'
  <2>1. EcSync
    BY <1>7 DEF EcInv
  <2>2. ePolls' # -1
    BY <1>1, EcFacts
  <2> QED
    BY <1>1, <1>3, <2>1, <2>2 DEF EcSync
<1>8. ASSUME ~eLate PROVE EcMemory'
  <2>1. \A o : Settled(o)' = Settled(o)
    BY <1>1 DEF Settled, Pending
  <2>2. \A o \in EcOffsets : eWant[o] \in {Settled(o), EC!Unknown}
    BY <1>1, <1>8 DEF EcInv, EcMemory, InWrite
  <2> QED
    BY <1>1, <1>3, <2>1, <2>2 DEF EcMemory
<1> QED
  BY <1>1, <1>6, <1>7, <1>8 DEF EcInv

LEMMA EcPoll == ASSUME EcInv, EC!Poll PROVE EcInv'
<1>1. /\ Togo > 0 /\ ePolls >= 0 /\ ePolls' = (IF EC!Ready \/ ePolls = 0 THEN -1 ELSE ePolls - 1)
      /\ eLate' = (eLate \/ (~EC!Ready /\ ePolls = 0))
      /\ UNCHANGED <<eTodo, eCall, eGot, eDisturbed, eWant, eIbf, eObf, eInp, eOutp, eCmd, eMem>>
  BY TodoFacts DEF EC!Poll, EC!ecVars, EcInv
<1>2. Togo' = Togo /\ Done' = Done
  BY <1>1 DEF Togo, Done
<1>3. EC!Ready = IF Access(eCall, Togo).port = "in" THEN eObf ELSE ~eIbf
  BY <1>1, TodoFacts DEF EC!Ready, EcInv
<1>4. EcTypes'
  <2>1. ePolls' \in -1 .. EcPolls
    BY <1>1, EcFacts DEF EcInv, EcTypes
  <2>2. eLate' \in BOOLEAN
    BY <1>1
  <2>3. CmdType'
    BY <1>1 DEF CmdType, EcInv, EcTypes
  <2> QED
    BY <1>1, <1>2, <2>1, <2>2, <2>3 DEF EcInv, EcTypes
<1>5. ASSUME ~eLate' PROVE EcSync' /\ EcMemory'
  <2>1. EcSync /\ EcMemory /\ (ePolls' = -1 => EC!Ready)
    <3>1. ePolls - 1 = -1 => ePolls = 0
      BY EcFacts DEF EcInv, EcTypes
    <3>2. ~eLate /\ (EC!Ready \/ ePolls # 0)
      BY <1>1, <1>5
    <3> QED
      BY <1>1, <3>1, <3>2 DEF EcInv
  <2>2. EcMemory'
    BY <1>1, <1>2, <2>1 DEF EcMemory, Settled, Pending, InWrite
  <2>3. ePolls' = -1 => ~eIbf /\ (Access(eCall, Togo) = EC!In => eCmd = <<>> /\ (eObf \/ eDisturbed))
    <3> SUFFICES ASSUME ePolls' = -1 PROVE ~eIbf /\ (Access(eCall, Togo) = EC!In => eCmd = <<>> /\ (eObf \/ eDisturbed))
      OBVIOUS
    <3>1. /\ Togo \in 1 .. 6 /\ (Access(eCall, Togo).port = "in" <=> Access(eCall, Togo) = EC!In)
          /\ Togo \in {2, 3, 5, 6} => Access(eCall, Togo) # EC!In
      <4>1. IsCall(eCall) /\ Togo \in 1 .. 3 * eCall.n
        BY <1>1, TodoFacts DEF EcInv, EcTypes
      <4>2. Togo \in 1 .. 6 /\ (Access(eCall, Togo).port = "in" <=> Access(eCall, Togo) = EC!In)
        BY <4>1, AccessFacts
      <4>3. /\ Togo \in {3, 6} => Access(eCall, Togo).port = "command"
            /\ Togo \in {2, 5} => Access(eCall, Togo).port = "data"
        BY <4>1, AccessFacts
      <4> QED
        BY <4>2, <4>3
    <3>2. CASE Access(eCall, Togo) = EC!In
      <4>1. eObf /\ Togo \in {1, 4}
        BY <1>3, <2>1, <3>1, <3>2
      <4> QED
        BY <2>1, <4>1, TupleFacts DEF EcSync
    <3>3. CASE Access(eCall, Togo) # EC!In
      BY <1>3, <2>1, <3>1, <3>3
    <3> QED
      BY <3>2, <3>3
  <2>4. EcSync'
    BY <1>1, <1>2, <2>1, <2>3 DEF EcSync, Lost
  <2> QED
    BY <2>2, <2>4
<1> QED
  BY <1>4, <1>5 DEF EcInv

LEMMA EcPortRead == ASSUME EcInv, EC!PortRead PROVE EcInv'
<1>1. /\ Togo > 0 /\ ePolls = -1 /\ Head(eTodo).port = "in" /\ eObf' = FALSE /\ eGot' = Append(eGot, eOutp)
      /\ eTodo' = Tail(eTodo) /\ ePolls' = EcPolls
      /\ UNCHANGED <<eCall, eLate, eDisturbed, eWant, eIbf, eInp, eOutp, eCmd, eMem>>
  BY TodoFacts DEF EC!PortRead, EcInv
<1>2. /\ Togo \in 1 .. 6 /\ Access(eCall, Togo) = EC!In /\ Togo \in {1, 4} /\ eCall.op = "read"
      /\ Place(eCall, Togo) \in EcOffsets /\ IsCall(eCall)
  <2>1. IsCall(eCall) /\ Togo \in 1 .. 3 * eCall.n /\ Access(eCall, Togo).port = "in"
    BY <1>1, TodoFacts DEF EcInv, EcTypes
  <2>2. eCall.op \in {"read", "write"}
    BY <2>1 DEF IsCall
  <2> QED
    BY <2>1, <2>2, AccessFacts
<1>3. /\ Togo' = Togo - 1 /\ eTodo' \in Seq([port : {"command", "data", "in"}, byte : Nat])
      /\ \A j \in 1 .. Togo' : eTodo'[j] = Access(eCall', Togo' - j + 1)
  BY <1>1, TodoFacts DEF EcInv, Togo
<1>4. Done \in Nat /\ Done' = Done + 1 /\ Place(eCall, Togo) = eCall.at + Done /\ eCall.at \in Nat
  <2>1. eCall.n \in 0 .. 2 /\ eCall.at \in Nat /\ Togo \in 1 .. 3 * eCall.n
    BY <1>1, <1>2, TodoFacts DEF IsCall, EcInv
  <2>2. Left(Togo') = Left(Togo) - 1 /\ Left(Togo) \in 1 .. eCall.n
    BY <1>2, <1>3, <2>1 DEF Left
  <2> HIDE DEF Left
  <2> QED
    BY <1>1, <2>1, <2>2 DEF Done, Place
<1>5. /\ eGot' \in Seq(EcBytes) /\ Len(eGot') = Done + 1 /\ eGot'[Done + 1] = eOutp
      /\ \A i \in 1 .. Done : eGot'[i] = eGot[i]
  BY <1>1, <1>2, <1>4 DEF EcInv, EcTypes
<1>6. EcTypes'
  <2>1. ePolls' \in -1 .. EcPolls /\ Togo' \in 0 .. 3 * eCall'.n
    BY <1>1, <1>2, <1>3, EcFacts DEF EcInv, EcTypes, IsCall
  <2>2. CmdType'
    BY <1>1 DEF CmdType, EcInv, EcTypes
  <2> QED
    BY <1>1, <1>2, <1>3, <1>4, <1>5, <2>1, <2>2 DEF EcInv, EcTypes
<1>7. ASSUME ~eLate PROVE EcSync' /\ EcMemory'
  <2>1. EcSync /\ EcMemory /\ ~eIbf /\ eCmd = <<>> /\ (eObf \/ eDisturbed)
    BY <1>1, <1>2, <1>7 DEF EcInv, EcSync
  <2>2. Togo' \in {0, 3} /\ ePolls' # -1
    BY <1>1, <1>2, <1>3, EcFacts
  <2>3. EcSync'
    BY <1>1, <2>1, <2>2 DEF EcSync
  <2>4. \A o : Settled(o)' = eMem[o] /\ Settled(o) = eMem[o]
    BY <1>1, <2>1 DEF Settled, Pending
  <2>5. ~eDisturbed => eOutp = eMem[eCall.at + Done]
    BY <1>2, <1>4, <2>1, TupleFacts DEF EcSync
  <2>6. \A o \in EcOffsets : ~InWrite(o)' => eWant'[o] \in {Settled(o)', EC!Unknown}
    BY <1>1, <1>2, <2>1, <2>4 DEF EcMemory, InWrite
  <2>7. ASSUME ~eDisturbed, NEW i \in 1 .. Done + 1 PROVE eMem[eCall.at + i - 1] = eGot'[i]
    <3>1. CASE i \in 1 .. Done
      BY <1>2, <1>5, <2>1, <2>4, <2>7, <3>1 DEF EcMemory
    <3>2. CASE i = Done + 1
      <4>1. eCall.at + i - 1 = eCall.at + Done
        BY <1>4, <3>2
      <4> QED
        BY <1>5, <2>5, <2>7, <3>2, <4>1
    <3> QED
      BY <1>4, <3>1, <3>2
  <2> QED
    BY <1>1, <1>2, <1>4, <2>3, <2>4, <2>6, <2>7 DEF EcMemory
<1> QED
  BY <1>1, <1>6, <1>7 DEF EcInv

\* What the caller may expect once a write is out.
LEMMA ExpectedFacts ==
  ASSUME EcTypes, eCall.op = "write"
  PROVE  /\ EC!Expected \in [EcOffsets -> EcBytes \cup {EC!Unknown}]
         /\ \A o \in EcOffsets : EC!Expected[o] =
              IF o < eCall.at \/ o >= eCall.at + eCall.n THEN eWant[o]
              ELSE IF eDisturbed \/ eLate THEN EC!Unknown ELSE eCall.bytes[o - eCall.at + 1]
<1> DEFINE X(o) == IF o < eCall.at \/ o >= eCall.at + eCall.n THEN eWant[o]
                   ELSE IF eDisturbed \/ eLate THEN EC!Unknown ELSE eCall.bytes[o - eCall.at + 1]
<1>1. EC!Expected = [o \in EcOffsets |-> X(o)]
  BY DEF EC!Expected
<1>2. ASSUME NEW o \in EcOffsets PROVE X(o) \in EcBytes \cup {EC!Unknown}
  <2>1. o \in Nat /\ eCall.at \in Nat /\ eCall.n \in Nat
    BY EcFacts DEF EcTypes, IsCall
  <2>2. ~(o < eCall.at \/ o >= eCall.at + eCall.n) => o - eCall.at + 1 \in 1 .. eCall.n
    BY <2>1
  <2> QED
    BY <2>2 DEF EcTypes, IsCall
<1> HIDE DEF X
<1>3. EC!Expected \in [EcOffsets -> EcBytes \cup {EC!Unknown}] /\ \A o \in EcOffsets : EC!Expected[o] = X(o)
  BY <1>1, <1>2
<1> QED
  BY <1>3 DEF X

LEMMA EcPortWrite == ASSUME EcInv, EC!PortWrite PROVE EcInv'
<1>1. /\ Togo > 0 /\ ePolls = -1 /\ Head(eTodo).port # "in" /\ eIbf' = TRUE /\ eInp' = Head(eTodo)
      /\ eTodo' = Tail(eTodo) /\ ePolls' = EcPolls
      /\ eWant' = IF Togo = 1 THEN EC!Expected ELSE eWant
      /\ UNCHANGED <<eCall, eGot, eLate, eDisturbed, eObf, eOutp, eCmd, eMem>>
  BY TodoFacts DEF EC!PortWrite, EcInv, Togo
<1>2. /\ IsCall(eCall) /\ Togo \in 1 .. 3 * eCall.n /\ Togo \in 1 .. 6 /\ eInp' = Access(eCall, Togo)
      /\ Access(eCall, Togo).port # "in" /\ eCall.op \in {"read", "write"}
  BY <1>1, TodoFacts DEF EcInv, EcTypes, IsCall
<1>3. /\ Togo' = Togo - 1 /\ eTodo' \in Seq([port : {"command", "data", "in"}, byte : Nat])
      /\ \A j \in 1 .. Togo' : eTodo'[j] = Access(eCall', Togo' - j + 1)
  BY <1>1, TodoFacts DEF EcInv, Togo
<1>4. Togo \in {1, 4} => eCall.op = "write"
  BY <1>2, AccessFacts DEF EC!In
<1>5. /\ Togo \in {3, 6} => eInp'.port = "command" /\ eInp'.byte = Opcode(eCall)
      /\ Togo \in {2, 5} => eInp'.port = "data" /\ eInp'.byte = Place(eCall, Togo)
      /\ Togo \in {1, 4} => /\ eInp'.port = "data" /\ eInp'.byte = eCall.bytes[eCall.n - Left(Togo) + 1]
                            /\ eInp'.byte \in EcBytes
      /\ Place(eCall, Togo) \in EcOffsets /\ Place(eCall, Togo) >= eCall.at
      /\ Place(eCall, Togo) < eCall.at + eCall.n
  BY <1>2, <1>4, AccessFacts
<1>6. /\ Togo \in {2, 3, 5, 6} => Left(Togo - 1) = Left(Togo) /\ Done' = Done
      /\ Togo \in {1, 4} => Done \in Nat /\ Done' = Done + 1 /\ Place(eCall, Togo) = eCall.at + Done
      /\ eCall.at \in Nat /\ eCall.n \in Nat
  <2>1. eCall.at \in Nat /\ eCall.n \in 0 .. 2 /\ Done' = eCall.n - Left(Togo - 1) /\ Done = eCall.n - Left(Togo)
    BY <1>1, <1>2, <1>3 DEF IsCall, Done
  <2>2. /\ Togo \in {2, 3, 5, 6} => Left(Togo - 1) = Left(Togo)
        /\ Togo = 1 => Left(Togo) = 1 /\ Left(Togo - 1) = 0
        /\ Togo = 4 => Left(Togo) = 2 /\ Left(Togo - 1) = 1 /\ eCall.n = 2
    BY <1>2, <2>1 DEF Left
  <2>3. Place(eCall, Togo) = eCall.at + eCall.n - Left(Togo) /\ eCall.n > 0
    BY <1>2, <2>1 DEF Place
  <2> HIDE DEF Left, Done
  <2> QED
    BY <2>1, <2>2, <2>3
<1>7. eWant' \in [EcOffsets -> EcBytes \cup {EC!Unknown}]
  BY <1>1, <1>4, ExpectedFacts DEF EcInv, EcTypes
<1>8. EcTypes'
  <2>1. ePolls' \in -1 .. EcPolls /\ Togo' \in 0 .. 3 * eCall'.n
    BY <1>1, <1>2, <1>3, EcFacts DEF IsCall
  <2>2. CmdType'
    BY <1>1 DEF CmdType, EcInv, EcTypes
  <2>3. /\ eInp'.port \in {"command", "data"}
        /\ eInp'.port = "command" => eInp'.byte \in {EC!READ, EC!WRITE}
        /\ eInp'.port = "data" => eInp'.byte \in EcBytes
    BY <1>2, <1>5, EcFacts DEF Opcode
  <2>4. Len(eGot') = (IF eCall'.op = "read" THEN Done' ELSE 0) /\ eGot' \in Seq(EcBytes)
    BY <1>1, <1>2, <1>4, <1>6 DEF EcInv, EcTypes
  <2> QED
    BY <1>1, <1>2, <1>3, <1>7, <2>1, <2>2, <2>3, <2>4 DEF EcInv, EcTypes
<1>9. ASSUME ~eLate PROVE EcSync' /\ EcMemory'
  <2>1. EcSync /\ EcMemory /\ ~eIbf
    BY <1>1, <1>9 DEF EcInv, EcSync
  <2>2. ePolls' # -1
    BY <1>1, EcFacts
  <2>3. \A o : Settled(o) = eMem[o]
    BY <2>1 DEF Settled, Pending
  <2> DEFINE After(o) == IF eInp'.port = "data" /\ eCmd = <<EC!WRITE, o>> THEN eInp'.byte ELSE eMem[o]
  <2>4. \A o : Settled(o)' = After(o)
    BY <1>1 DEF Settled, Pending
  <2>5. CASE Togo \in {3, 6}
    <3>1. eInp' = EC!Cmd(Opcode(eCall))
      BY <1>2, <2>5 DEF Access
    <3>2. Togo' \in {2, 5} /\ Togo' > 0
      BY <1>3, <2>5
    <3>3. EcSync'
      BY <1>1, <2>1, <2>2, <2>5, <3>1, <3>2 DEF EcSync
    <3>4. \A o : Settled(o)' = Settled(o)
      BY <1>5, <2>3, <2>4, <2>5
    <3>5. eWant' = eWant /\ Done' = Done /\ \A o : InWrite(o)' <=> InWrite(o)
      BY <1>1, <1>2, <1>3, <1>6, <2>5, <3>2 DEF InWrite
    <3> QED
      BY <1>1, <2>1, <3>3, <3>4, <3>5 DEF EcMemory
  <2>6. CASE Togo \in {2, 5}
    <3>1. eInp' = EC!Data(Place(eCall, Togo)) /\ Place(eCall, Togo') = Place(eCall, Togo)
      BY <1>2, <1>3, <1>6, <2>6 DEF Access, Place
    <3>2. Togo' \in {1, 4} /\ Togo' > 0
      BY <1>3, <2>6
    <3>3. ~eObf /\ (eCmd = <<Opcode(eCall)>> \/ Lost)
      BY <2>1, <2>6 DEF EcSync
    <3>4. EcSync'
      BY <1>1, <2>1, <2>2, <3>1, <3>2, <3>3 DEF EcSync, Lost
    <3>5. \A o : eCmd # <<EC!WRITE, o>>
      BY <3>3, TupleFacts DEF Lost
    <3>6. \A o : Settled(o)' = Settled(o)
      BY <2>3, <2>4, <3>5
    <3>7. eWant' = eWant /\ Done' = Done /\ \A o : InWrite(o)' <=> InWrite(o)
      BY <1>1, <1>2, <1>3, <1>6, <2>6, <3>2 DEF InWrite
    <3> QED
      BY <1>1, <2>1, <3>4, <3>6, <3>7 DEF EcMemory
  <2>7. CASE Togo \in {1, 4}
    <3> DEFINE w == Place(eCall, Togo)
    <3>1. eCall.op = "write" /\ Opcode(eCall) = EC!WRITE
      BY <1>4, <2>7 DEF Opcode
    <3>2. ~eObf /\ (eCmd = <<EC!WRITE, w>> \/ Lost)
      BY <2>1, <2>7, <3>1 DEF EcSync
    <3>3. Togo' \in {0, 3}
      BY <1>3, <2>7
    <3>4. EcSync'
      BY <1>1, <1>5, <2>2, <2>7, <3>2, <3>3 DEF EcSync, Lost
    <3>5. /\ \A o : o # w => After(o) = eMem[o]
          /\ ~eDisturbed => After(w) = eCall.bytes[Done + 1]
      <4>1. \A o : o # w => eCmd # <<EC!WRITE, o>>
        BY <3>2, TupleFacts DEF Lost
      <4>2. ~eDisturbed => eCmd = <<EC!WRITE, w>>
        BY <3>2 DEF Lost
      <4>3. eInp'.port = "data" /\ eInp'.byte = eCall.bytes[Done + 1]
        BY <1>5, <2>7 DEF Done
      <4> QED
        BY <4>1, <4>2, <4>3
    <3>6. w = eCall.at + Done /\ w \in Nat /\ Done \in Nat /\ Done' = Done + 1 /\ w >= eCall.at /\ w < eCall.at + eCall.n
      BY <1>5, <1>6, <2>7, EcFacts
    <3> HIDE DEF w, After
    <3>7. ASSUME ~eDisturbed, NEW i \in 1 .. Done + 1 PROVE After(eCall.at + i - 1) = eCall.bytes[i]
      <4>1. CASE i \in 1 .. Done
        <5>1. eCall.at + i - 1 # w
          BY <1>6, <3>6, <4>1
        <5>2. eMem[eCall.at + i - 1] = eCall.bytes[i]
          BY <2>1, <2>3, <3>1, <3>7, <4>1 DEF EcMemory
        <5> QED
          BY <3>5, <5>1, <5>2
      <4>2. CASE i = Done + 1
        <5>1. eCall.at + i - 1 = w
          BY <1>6, <3>6, <4>2
        <5> QED
          BY <3>5, <3>7, <4>2, <5>1
      <4> QED
        BY <3>6, <3>7, <4>1, <4>2
    <3>8. ASSUME NEW o \in EcOffsets, ~InWrite(o)' PROVE eWant'[o] \in {After(o), EC!Unknown}
      <4>1. o \in Nat
        BY EcFacts
      <4>2. CASE o < eCall.at \/ o >= eCall.at + eCall.n
        <5>1. o # w /\ ~InWrite(o)
          BY <1>6, <3>6, <4>1, <4>2 DEF InWrite
        <5>2. eWant'[o] = eWant[o]
          BY <1>1, <3>1, <4>2, ExpectedFacts DEF EcInv
        <5>3. eWant[o] \in {eMem[o], EC!Unknown}
          BY <2>1, <2>3, <5>1 DEF EcMemory
        <5> QED
          BY <3>5, <5>1, <5>2, <5>3
      <4>3. CASE ~(o < eCall.at \/ o >= eCall.at + eCall.n)
        <5>1. Togo' = 0 /\ Togo = 1
          BY <1>1, <1>3, <1>6, <2>7, <3>1, <3>8, <4>1, <4>3 DEF InWrite
        <5>2. eWant'[o] = IF eDisturbed THEN EC!Unknown ELSE eCall.bytes[o - eCall.at + 1]
          BY <1>1, <1>9, <3>1, <4>3, <5>1, ExpectedFacts DEF EcInv
        <5>3. Done + 1 = eCall.n
          BY <1>6, <5>1, <1>2 DEF Done, Left
        <5>4. o - eCall.at + 1 \in 1 .. Done + 1 /\ eCall.at + (o - eCall.at + 1) - 1 = o
          BY <1>6, <4>1, <4>3, <5>3
        <5>5. ~eDisturbed => After(o) = eCall.bytes[o - eCall.at + 1]
          BY <3>7, <5>4
        <5> QED
          BY <5>2, <5>5
      <4> QED
        BY <4>2, <4>3
    <3> QED
      BY <1>1, <2>4, <3>1, <3>4, <3>6, <3>7, <3>8 DEF EcMemory
  <2> QED
    BY <1>2, <2>5, <2>6, <2>7
<1> QED
  BY <1>1, <1>8, <1>9 DEF EcInv

\* What the controller makes of the byte it takes.
LEMMA TakesDoes ==
  ASSUME EcTypes, EC!Takes
  PROVE  /\ eInp.port = "command" => eCmd' = <<eInp.byte>> /\ eMem' = eMem
         /\ eInp.port = "data" /\ eCmd = <<>> => eCmd' = <<>> /\ eMem' = eMem
         /\ \A c : eInp.port = "data" /\ eCmd = <<c>> => eCmd' = <<c, eInp.byte>> /\ eMem' = eMem
         /\ \A c, o : eInp.port = "data" /\ eCmd = <<c, o>> =>
              eCmd' = <<>> /\ eMem' = IF c = EC!WRITE THEN [eMem EXCEPT ![o] = eInp.byte] ELSE eMem
<1> DEFINE all == IF eInp.port = "command" THEN <<eInp.byte>>
                  ELSE IF eCmd = <<>> THEN <<>> ELSE Append(eCmd, eInp.byte)
<1>1. /\ eCmd' = IF Len(all) = 3 THEN <<>> ELSE all
      /\ eMem' = IF Len(all) = 3 /\ all[1] = EC!WRITE THEN [eMem EXCEPT ![all[2]] = all[3]] ELSE eMem
  BY DEF EC!Takes
<1>2. eInp.port = "command" => all = <<eInp.byte>> /\ Len(all) = 1
  BY TupleFacts
<1>3. eInp.port = "data" /\ eCmd = <<>> => all = <<>> /\ Len(all) = 0
  BY TupleFacts
<1>4. \A c : eInp.port = "data" /\ eCmd = <<c>> => all = <<c, eInp.byte>> /\ Len(all) = 2
  BY TupleFacts
<1>5. \A c, o : eInp.port = "data" /\ eCmd = <<c, o>> =>
        Len(all) = 3 /\ all[1] = c /\ all[2] = o /\ all[3] = eInp.byte
  BY TupleFacts
<1> HIDE DEF all
<1> QED
  BY <1>1, <1>2, <1>3, <1>4, <1>5

LEMMA EcTakes == ASSUME EcInv, EC!Takes PROVE EcInv'
<1>1. /\ eIbf /\ eIbf' = FALSE
      /\ UNCHANGED <<eTodo, ePolls, eCall, eGot, eLate, eDisturbed, eWant, eObf, eInp, eOutp>>
  BY DEF EC!Takes, EC!hostVars
<1>2. Togo' = Togo /\ Done' = Done
  BY <1>1 DEF Togo, Done
<1>3. EcTypes /\ eInp.port \in {"command", "data"}
  BY <1>1 DEF EcInv, EcTypes
<1>4. EcTypes'
  <2>1. CmdType' /\ eMem' \in [EcOffsets -> EcBytes]
    <3>1. CASE eInp.port = "command"
      BY <1>3, <3>1, TakesDoes DEF EcTypes, CmdType
    <3>2. CASE eInp.port = "data" /\ eCmd = <<>>
      BY <1>3, <3>2, TakesDoes DEF EcTypes, CmdType
    <3>3. ASSUME NEW c \in {EC!READ, EC!WRITE}, eInp.port = "data", eCmd = <<c>>
          PROVE  CmdType' /\ eMem' \in [EcOffsets -> EcBytes]
      BY <1>3, <3>3, TakesDoes DEF EcTypes, CmdType
    <3>4. ASSUME NEW c \in {EC!READ, EC!WRITE}, NEW b \in EcBytes, eInp.port = "data", eCmd = <<c, b>>
          PROVE  CmdType' /\ eMem' \in [EcOffsets -> EcBytes]
      <4>1. eCmd' = <<>> /\ eMem' = IF c = EC!WRITE THEN [eMem EXCEPT ![b] = eInp.byte] ELSE eMem
        BY <1>3, <3>4, TakesDoes
      <4>2. eMem \in [EcOffsets -> EcBytes] /\ eInp.byte \in EcBytes
        BY <1>3, <3>4 DEF EcTypes
      <4> QED
        BY <4>1, <4>2 DEF CmdType
    <3> QED
      BY <1>3, <3>1, <3>2, <3>3, <3>4 DEF EcTypes, CmdType
  <2> QED
    BY <1>1, <1>2, <1>3, <2>1 DEF EcTypes
<1>5. ASSUME ~eLate PROVE EcSync' /\ EcMemory'
  <2>1. EcSync /\ EcMemory /\ ~(ePolls = -1 /\ Togo > 0)
    BY <1>1, <1>5 DEF EcInv, EcSync
  <2>2. Togo \in 0 .. 6
    BY <1>3, TodoFacts
  <2>3. EcSync' /\ \A o \in EcOffsets : eMem'[o] = Settled(o)
    <3>1. CASE Togo \in {0, 3, 6}
      <4>1. ~eObf /\ eInp.port = "data" /\ (eCmd = <<>> \/ \E o \in EcOffsets : eCmd = <<EC!WRITE, o>>)
        BY <1>1, <2>1, <3>1 DEF EcSync
      <4>2. CASE eCmd = <<>>
        <5>1. eCmd' = <<>> /\ eMem' = eMem
          BY <1>3, <4>1, <4>2, TakesDoes
        <5>2. \A o : Settled(o) = eMem[o]
          BY <4>2, TupleFacts DEF Settled, Pending
        <5> QED
          BY <1>1, <1>2, <2>1, <3>1, <4>1, <5>1, <5>2 DEF EcSync
      <4>3. ASSUME NEW o \in EcOffsets, eCmd = <<EC!WRITE, o>>
            PROVE  EcSync' /\ \A p \in EcOffsets : eMem'[p] = Settled(p)
        <5>1. eCmd' = <<>> /\ eMem' = [eMem EXCEPT ![o] = eInp.byte]
          BY <1>3, <4>1, <4>3, TakesDoes
        <5>2. \A p : Settled(p) = IF p = o THEN eInp.byte ELSE eMem[p]
          BY <1>1, <4>1, <4>3, TupleFacts DEF Settled, Pending
        <5>3. eMem \in [EcOffsets -> EcBytes]
          BY <1>3 DEF EcTypes
        <5> QED
          BY <1>1, <1>2, <2>1, <3>1, <4>1, <5>1, <5>2, <5>3 DEF EcSync
      <4> QED
        BY <4>1, <4>2, <4>3
    <3>2. CASE Togo \in {2, 5}
      <4>1. ~eObf /\ eInp = EC!Cmd(Opcode(eCall)) /\ eInp.port = "command" /\ eInp.byte = Opcode(eCall)
        BY <1>1, <2>1, <3>2 DEF EcSync, EC!Cmd
      <4>2. eCmd' = <<Opcode(eCall)>> /\ eMem' = eMem
        BY <1>3, <4>1, TakesDoes
      <4>3. \A o : Settled(o) = eMem[o]
        BY <4>1 DEF Settled, Pending
      <4> QED
        BY <1>1, <1>2, <2>1, <3>2, <4>1, <4>2, <4>3 DEF EcSync
    <3>3. CASE Togo \in {1, 4}
      <4>1. /\ ~eObf /\ eInp.port = "data" /\ eInp.byte = Place(eCall, Togo) /\ (eCmd = <<Opcode(eCall)>> \/ Lost)
        BY <1>1, <2>1, <3>3 DEF EcSync, EC!Data
      <4>2. \A o : Settled(o) = eMem[o]
        BY <4>1, TupleFacts DEF Settled, Pending, Lost
      <4>3. CASE eCmd = <<Opcode(eCall)>>
        <5>1. eCmd' = <<Opcode(eCall), Place(eCall, Togo)>> /\ eMem' = eMem
          BY <1>3, <4>1, <4>3, TakesDoes
        <5> QED
          BY <1>1, <1>2, <2>1, <3>3, <4>1, <4>2, <5>1 DEF EcSync
      <4>4. CASE Lost
        <5>1. eCmd' = <<>> /\ eMem' = eMem /\ eDisturbed
          BY <1>3, <4>1, <4>4, TakesDoes DEF Lost
        <5> QED
          BY <1>1, <1>2, <2>1, <3>3, <4>1, <4>2, <5>1 DEF EcSync, Lost
      <4> QED
        BY <4>1, <4>3, <4>4
    <3> QED
      BY <2>2, <3>1, <3>2, <3>3
  <2>4. \A o \in EcOffsets : Settled(o)' = Settled(o)
    BY <1>1, <2>3 DEF Settled, Pending
  <2>5. EcMemory'
    <3>1. \A i \in 1 .. Done : eCall.at + i - 1 \in EcOffsets
      <4>1. ASSUME NEW i \in 1 .. Done PROVE eCall.at + i - 1 \in EcOffsets
        <5>1. IsCall(eCall) /\ Left(Togo) \in 0 .. 2
          BY <1>3, <2>2 DEF EcTypes, Left
        <5>2. i - 1 \in 0 .. eCall.n - 1 /\ eCall.at + (i - 1) = eCall.at + i - 1
          BY <4>1, <5>1 DEF Done, IsCall
        <5> QED
          BY <5>1, <5>2 DEF IsCall
      <4> QED
        BY <4>1
    <3> QED
      BY <1>1, <1>2, <2>1, <2>4, <3>1 DEF EcMemory, InWrite
  <2> QED
    BY <2>3, <2>5
<1> QED
  BY <1>1, <1>4, <1>5 DEF EcInv

LEMMA EcAnswers == ASSUME EcInv, EC!Answers PROVE EcInv'
<1>1. /\ ~eIbf /\ Len(eCmd) = 2 /\ eCmd[1] = EC!READ /\ eObf' = TRUE /\ eOutp' = eMem[eCmd[2]] /\ eCmd' = <<>>
      /\ UNCHANGED <<eTodo, ePolls, eCall, eGot, eLate, eDisturbed, eWant, eIbf, eInp, eMem>>
  BY DEF EC!Answers, EC!hostVars
<1>2. Togo' = Togo /\ Done' = Done
  BY <1>1 DEF Togo, Done
<1>3. PICK o \in EcBytes : eCmd = <<EC!READ, o>>
  <2>1. CmdType /\ eCmd # <<>> /\ \A c : eCmd # <<c>>
    <3>1. CmdType
      BY DEF EcInv, EcTypes
    <3>2. Len(<<>>) # 2 /\ \A c : Len(<<c>>) # 2
      BY TupleFacts
    <3> QED
      BY <1>1, <3>1, <3>2, Zenon
  <2>2. PICK c \in {EC!READ, EC!WRITE}, o \in EcBytes : eCmd = <<c, o>>
    BY <2>1 DEF CmdType
  <2>3. c = EC!READ
    BY <1>1, <2>2, TupleFacts
  <2> QED
    BY <2>2, <2>3
<1>4. eOutp' = eMem[o]
  BY <1>1, <1>3, TupleFacts
<1>5. EcTypes'
  <2>1. eOutp' \in EcBytes /\ CmdType'
    BY <1>1, <1>4, EcFacts DEF EcInv, EcTypes, CmdType
  <2> QED
    BY <1>1, <1>2, <2>1 DEF EcInv, EcTypes
<1>6. ASSUME ~eLate PROVE EcSync' /\ EcMemory'
  <2>1. EcSync /\ EcMemory /\ Togo \in 0 .. 6 /\ eCall.op \in {"read", "write"}
    BY <1>6, TodoFacts DEF EcInv, EcTypes, IsCall
  <2>2. eCmd # <<>> /\ \A c : eCmd # <<c>>
    BY <1>3, TupleFacts
  <2>3. Togo \in {1, 4} /\ eCmd = <<Opcode(eCall), Place(eCall, Togo)>>
    BY <1>1, <2>1, <2>2 DEF EcSync, Lost
  <2>4. eCall.op = "read" /\ o = Place(eCall, Togo)
    BY <1>3, <2>1, <2>3, TupleFacts, EcFacts DEF Opcode
  <2>5. ePolls # -1
    <3>1. Togo > 0 /\ Access(eCall, Togo) = EC!In
      BY <2>3, <2>4 DEF Access
    <3> QED
      BY <2>1, <2>2, <3>1 DEF EcSync
  <2>6. EcSync'
    BY <1>1, <1>2, <1>4, <2>3, <2>4, <2>5 DEF EcSync
  <2>7. \A p : Settled(p)' = Settled(p)
    BY <1>1 DEF Settled, Pending
  <2> QED
    BY <1>1, <1>2, <2>1, <2>6, <2>7 DEF EcMemory, InWrite
<1> QED
  BY <1>1, <1>5, <1>6 DEF EcInv

LEMMA EcDriver == ASSUME EcInv, EC!DriverUses PROVE EcInv'
<1>1. /\ ~eIbf /\ eCmd' = <<>> /\ eObf' = FALSE /\ eDisturbed' = (eDisturbed \/ ~EC!Idle)
      /\ UNCHANGED <<eTodo, ePolls, eCall, eGot, eLate, eWant, eIbf, eInp, eMem>>
      /\ \E o \in EcOffsets : eOutp' = eMem[o]
  BY DEF EC!DriverUses
<1>2. Togo' = Togo /\ Done' = Done /\ Togo \in 0 .. 6 /\ (EC!Idle <=> Togo = 0)
  BY <1>1, TodoFacts DEF Togo, Done, EcInv
<1>3. EcTypes'
  <2>1. eOutp' \in EcBytes /\ CmdType' /\ eDisturbed' \in BOOLEAN
    BY <1>1 DEF EcInv, EcTypes, CmdType
  <2> QED
    BY <1>1, <1>2, <2>1 DEF EcInv, EcTypes
<1>4. ASSUME ~eLate PROVE EcSync' /\ EcMemory'
  <2>1. EcSync /\ EcMemory
    BY <1>4 DEF EcInv
  <2>2. EcSync'
    BY <1>1, <1>2, <2>1 DEF EcSync, Lost
  <2>3. \A p : Settled(p)' = Settled(p)
    BY <1>1 DEF Settled, Pending
  <2> QED
    BY <1>1, <1>2, <2>1, <2>2, <2>3 DEF EcMemory, InWrite
<1> QED
  BY <1>1, <1>3, <1>4 DEF EcInv

LEMMA EcStep == EcInv /\ [EC!Next]_(EC!vars) => EcInv'
<1> SUFFICES ASSUME EcInv, [EC!Next]_(EC!vars) PROVE EcInv'
  OBVIOUS
<1>1. CASE UNCHANGED EC!vars
  <2>1. UNCHANGED <<eTodo, ePolls, eCall, eGot, eLate, eDisturbed, eWant, eIbf, eObf, eInp, eOutp, eCmd, eMem>>
    BY <1>1 DEF EC!vars, EC!hostVars, EC!ecVars
  <2>2. Togo' = Togo /\ Done' = Done
    BY <2>1 DEF Togo, Done
  <2>3. EcTypes'
    BY <2>1, <2>2 DEF EcInv, EcTypes, CmdType
  <2>4. EcSync => EcSync'
    BY <2>1, <2>2 DEF EcSync, Lost
  <2>5. EcMemory => EcMemory'
    BY <2>1, <2>2 DEF EcMemory, Settled, Pending, InWrite
  <2> QED
    BY <2>1, <2>3, <2>4, <2>5 DEF EcInv
<1> QED
  BY <1>1, EcBegin, EcPoll, EcPortWrite, EcPortRead, EcTakes, EcAnswers, EcDriver DEF EC!Next, EC!Host

LEMMA OnlyEc == [Next]_vars => [EC!Next]_(EC!vars)
  BY DEF Next, EcNext, TpmNext, PspNext, PortNext, SmbNext, vars, eVars, tVars, pVars, iVars, EC!vars, EC!hostVars, EC!ecVars

LEMMA EcInvariance == Spec => []EcInv
<1>1. Init => EcInv
  BY EcInit DEF Init
<1>2. EcInv /\ [Next]_vars => EcInv'
  BY EcStep, OnlyEc
<1> QED
  BY <1>1, <1>2, PTL DEF Spec

\* For a memory of any size and any limit of the polls: as long as no wait was given up, a read that the
\* driver did not disturb returns, byte for byte, what the calls before it wrote, although a write
\* returns before its last byte is taken (ec.py:94).
THEOREM ReadsSeeWrites == Spec => []EcReadYourWrites
<1>1. EcInv => EcReadYourWrites
  <2> SUFFICES ASSUME EcInv, EC!Idle, eCall.op = "read", ~eLate, ~eDisturbed
               PROVE  /\ Len(eGot) = eCall.n
                      /\ \A i \in 1 .. eCall.n : eWant[eCall.at + i - 1] \in {eGot[i], EC!Unknown}
    BY DEF EcReadYourWrites, EC!ReadYourWrites
  <2>1. Togo = 0 /\ EcMemory /\ EcTypes /\ IsCall(eCall) /\ eCall.n \in 0 .. 2
    BY TodoFacts DEF EcInv, EcTypes, IsCall
  <2>2. Done = eCall.n
    BY <2>1 DEF Done, Left
  <2>3. ASSUME NEW i \in 1 .. eCall.n PROVE eWant[eCall.at + i - 1] \in {eGot[i], EC!Unknown}
    <3>1. eCall.at + i - 1 \in EcOffsets
      <4>1. i - 1 \in 0 .. eCall.n - 1 /\ eCall.at + (i - 1) = eCall.at + i - 1
        BY <2>1, <2>3 DEF IsCall
      <4> QED
        BY <2>1, <4>1 DEF IsCall
    <3>2. Settled(eCall.at + i - 1) = eGot[i]
      BY <2>1, <2>2, <2>3 DEF EcMemory
    <3>3. eWant[eCall.at + i - 1] \in {Settled(eCall.at + i - 1), EC!Unknown}
      BY <2>1, <3>1 DEF EcMemory, InWrite
    <3> QED
      BY <3>2, <3>3
  <2> QED
    BY <2>1, <2>2, <2>3 DEF EcTypes
<1> QED
  BY <1>1, EcInvariance, PTL
-----------------------------------------------------------------------------
(***************************************************************************)
(* SMBus.                                                                  *)
(***************************************************************************)
LEMMA OnlySmb == [Next]_vars => [SMB!Next]_(SMB!vars)
  BY DEF Next, EcNext, TpmNext, PspNext, PortNext, SmbNext, vars, sVars, SMB!vars, SMB!ctlVars, SMB!callVars,
         SMB!history

\* The module and its proofs speak of the same bus.
LEMMA SameSmb ==
  /\ SMB!Parameters <=> SmbProofs!Parameters
  /\ SMB!Init <=> SmbProofs!Init
  /\ [SMB!Next]_(SMB!vars) <=> [SmbProofs!Next]_(SmbProofs!vars)
  /\ SMB!ReadIsGenuine <=> SmbProofs!ReadIsGenuine
  /\ SMB!WriteIsDone <=> SmbProofs!WriteIsDone
<1>1. SMB!Parameters <=> SmbProofs!Parameters
  BY DEF SMB!Parameters, SmbProofs!Parameters, SMB!Access, SmbProofs!Access
<1>2. SMB!Init <=> SmbProofs!Init
  BY DEF SMB!Init, SmbProofs!Init
<1>3. UNCHANGED SMB!vars <=> UNCHANGED SmbProofs!vars
  BY DEF SMB!vars, SMB!ctlVars, SMB!callVars, SMB!history,
         SmbProofs!vars, SmbProofs!ctlVars, SmbProofs!callVars, SmbProofs!history
<1>4. SMB!Acc = SmbProofs!Acc
  BY DEF SMB!Acc, SmbProofs!Acc
<1>5. SMB!Next <=> SmbProofs!Next
  <2> USE DEF SMB!ctlVars, SMB!callVars, SMB!history, SmbProofs!ctlVars, SmbProofs!callVars, SmbProofs!history
  <2>1. /\ SMB!Begins <=> SmbProofs!Begins
        /\ SMB!Completes <=> SmbProofs!Completes
        /\ SMB!Fails <=> SmbProofs!Fails
        /\ \A p \in SmbPlans : SMB!Call(p) <=> SmbProofs!Call(p)
    BY DEF SMB!Begins, SmbProofs!Begins, SMB!Completes, SmbProofs!Completes, SMB!Fails, SmbProofs!Fails,
           SMB!Call, SmbProofs!Call
  <2>2. /\ SMB!ClearStatus <=> SmbProofs!ClearStatus
        /\ SMB!WriteSlva <=> SmbProofs!WriteSlva
        /\ SMB!WriteCmd <=> SmbProofs!WriteCmd
        /\ SMB!WriteD0 <=> SmbProofs!WriteD0
        /\ SMB!Start <=> SmbProofs!Start
        /\ SMB!ReadD0 <=> SmbProofs!ReadD0
    BY <1>4 DEF SMB!ClearStatus, SmbProofs!ClearStatus, SMB!WriteSlva, SmbProofs!WriteSlva, SMB!WriteCmd,
                SmbProofs!WriteCmd, SMB!WriteD0, SmbProofs!WriteD0, SMB!Start, SmbProofs!Start,
                SMB!ReadD0, SmbProofs!ReadD0
  <2>3. /\ SMB!Poll <=> SmbProofs!Poll
        /\ SMB!ClearAfter <=> SmbProofs!ClearAfter
    BY <1>4 DEF SMB!Poll, SmbProofs!Poll, SMB!ClearAfter, SmbProofs!ClearAfter, SMB!WaitReturns,
                SmbProofs!WaitReturns, SMB!Returns, SmbProofs!Returns, SMB!Advance, SmbProofs!Advance
  <2> QED
    BY <2>1, <2>2, <2>3 DEF SMB!Next, SmbProofs!Next, SMB!HostStep, SmbProofs!HostStep
<1>6. [SMB!Next]_(SMB!vars) <=> [SmbProofs!Next]_(SmbProofs!vars)
  BY <1>3, <1>5
<1>7. /\ SMB!ReadIsGenuine <=> SmbProofs!ReadIsGenuine
      /\ SMB!WriteIsDone <=> SmbProofs!WriteIsDone
  BY <1>4 DEF SMB!ReadIsGenuine, SmbProofs!ReadIsGenuine, SMB!WriteIsDone, SmbProofs!WriteIsDone
<1> QED
  BY <1>1, <1>2, <1>6, <1>7

SmbInv == SmbProofs!IInv

LEMMA SmbInvariance == Spec => []SmbInv
<1>1. Init => SmbInv
  BY SameSmb, SMBusAssumption, SmbProofs!InitIInv DEF Init, SmbInv
<1>2. SmbInv /\ [Next]_vars => SmbInv'
  BY OnlySmb, SameSmb, SmbProofs!StepIInv DEF SmbInv
<1> QED
  BY <1>1, <1>2, PTL DEF Spec

\* A wait that ended on INTR after a clean start gives read_byte the device's byte, whatever the
\* controller still did after earlier accesses were given up (smbus.py:164).
THEOREM ReadsAreGenuine == Spec => []ReadIsGenuine
<1>1. SmbInv => ReadIsGenuine
  BY SameSmb, SmbProofs!IInvGenuine DEF SmbInv, ReadIsGenuine
<1> QED
  BY <1>1, SmbInvariance, PTL

\* And write_byte then returns True only for a byte that the device holds.
THEOREM WritesAreDone == Spec => []WriteIsDone
<1>1. SmbInv => WriteIsDone
  BY SameSmb, SmbProofs!IInvGenuine DEF SmbInv, WriteIsDone
<1> QED
  BY <1>1, SmbInvariance, PTL
-----------------------------------------------------------------------------
\* The registers, buffers and locals of every device keep their kinds and bounds, whatever is
\* disturbed or given up: not even a lost byte makes the controller leave its memory (ec.py:82).
THEOREM TypeCorrect == Spec => []TypeOK
<1>1. PortsInv => Ports!TypeOK
  <2> SUFFICES ASSUME PortsInv PROVE Ports!TypeOK
    OBVIOUS
  <2>1. Len(iGot) <= PortCount
    BY PortFacts DEF PortsInv, PortTypes
  <2> QED
    BY <2>1 DEF PortsInv, PortTypes, Ports!TypeOK, PortCount
<1>2. TpmInv => TPM!TypeOK
  BY DEF TpmInv, TpmHolds, TpmTypes, FifoFits, TPM!TypeOK
<1>3. EcInv => EC!TypeOK
  <2> SUFFICES ASSUME EcInv PROVE EC!TypeOK
    OBVIOUS
  <2> DEFINE E == {EC!Cmd(EC!READ), EC!Cmd(EC!WRITE), EC!In} \cup {EC!Data(b) : b \in EcOffsets \cup EcBytes}
  <2>1. EcTypes /\ IsCall(eCall)
    BY DEF EcInv, EcTypes
  <2>2. ASSUME NEW j \in 1 .. Togo PROVE eTodo[j] \in E
    <3>1. eTodo[j] = Access(eCall, Togo - j + 1) /\ Togo - j + 1 \in 1 .. 3 * eCall.n
      BY <2>1, <2>2 DEF EcTypes, IsCall
    <3>2. ASSUME NEW r \in 1 .. 3 * eCall.n PROVE Access(eCall, r) \in E
      <4>1. r \in 1 .. 6 /\ Place(eCall, r) \in EcOffsets /\ eCall.op \in {"read", "write"}
        BY <2>1, <3>2, AccessFacts DEF IsCall
      <4>2. CASE r \in {3, 6}
        BY <4>2 DEF Access, Opcode
      <4>3. CASE r \in {2, 5}
        BY <4>1, <4>3 DEF Access
      <4>4. CASE r \in {1, 4} /\ eCall.op = "read"
        BY <4>4 DEF Access
      <4>5. CASE r \in {1, 4} /\ eCall.op = "write"
        <5>1. Access(eCall, r) = EC!Data(eCall.bytes[eCall.n - Left(r) + 1])
          BY <4>5 DEF Access
        <5>2. eCall.bytes[eCall.n - Left(r) + 1] \in EcBytes
          BY <2>1, <3>2, <4>5, AccessFacts
        <5> QED
          BY <5>1, <5>2
      <4> QED
        BY <4>1, <4>2, <4>3, <4>4, <4>5
    <3> QED
      BY <3>1, <3>2
  <2>3. eTodo \in Seq(E)
    <3>1. eTodo = [j \in 1 .. Togo |-> eTodo[j]] /\ Togo \in Nat
      BY <2>1 DEF EcTypes, Togo
    <3> HIDE DEF E
    <3> QED
      BY <2>2, <3>1
  <2>4. Len(eGot) <= eCall.n
    <3>1. Left(Togo) \in 0 .. 2 /\ eCall.n \in Nat
      BY <2>1 DEF Left, IsCall
    <3> QED
      BY <2>1, <3>1 DEF EcTypes, Done
  <2>5. Len(eCmd) <= 2
    <3>1. Len(<<>>) <= 2 /\ (\A c : Len(<<c>>) <= 2) /\ (\A c, b : Len(<<c, b>>) <= 2)
      BY TupleFacts
    <3> QED
      BY <2>1, <3>1, Zenon DEF EcTypes, CmdType
  <2> QED
    BY <2>1, <2>3, <2>4, <2>5 DEF EcTypes, EC!TypeOK
<1>4. Init => PspInv
  BY PspInit DEF Init
<1>5. PspInv /\ [Next]_vars => PspInv'
  BY PspStep, OnlyPsp
<1>6. PspInv => PSP!TypeOK
  BY DEF PspInv
<1> QED
  BY <1>1, <1>2, <1>3, <1>4, <1>5, <1>6, PortsInvariance, TpmInvariance, EcInvariance, PTL DEF Spec, TypeOK
=============================================================================
