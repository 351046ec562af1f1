-------------------------- MODULE SpiFlashProofs --------------------------
(***************************************************************************)
(* Proofs about SpiFlash for every size of the part, every chunk size,     *)
(* every polling limit and every set of refused addresses.                 *)
(***************************************************************************)
EXTENDS SpiFlash, TLAPS

\* The facts about the current request that the steps below use.
ReqOK ==
  /\ req.op \in {"read", "write", "erase", "jedec"}
  /\ req.fla \in Addr
  /\ req.count \in Nat
  /\ req.fla + req.count <= FlashSize
  /\ req.op = "write" => req.data \in Seq(Byte) /\ Len(req.data) = req.count
  /\ req.op \in {"erase", "jedec"} => req.count = 1

\* A request that TypeOK admits has a length, an address and a buffer that fit.
LEMMA RequestFacts ==
  ASSUME NEW r \in Requests, Range(r) \subseteq Addr
  PROVE  /\ r.op \in {"read", "write", "erase", "jedec"}
         /\ r.fla \in Addr
         /\ r.count \in Nat
         /\ r.fla + r.count <= FlashSize
         /\ r.op = "write" => r.data \in Seq(Byte) /\ Len(r.data) = r.count
         /\ r.op \in {"erase", "jedec"} => r.count = 1
<1>1. /\ r.op \in {"read", "write", "erase", "jedec"}
      /\ r.fla \in Addr
      /\ r.count \in Nat
      /\ r.op = "write" => r.data \in Seq(Byte) /\ Len(r.data) = r.count
      /\ r.op \in {"erase", "jedec"} => r.count = 1
  <2>1. CASE r \in [op : {"read"}, fla : Addr, count : Lengths, data : {<<>>}]
    BY <2>1, SizesAssumption
  <2>2. CASE \E a \in Addr, d \in Buffers :
               r = [op |-> "write", fla |-> a, count |-> Len(d), data |-> d]
    <3>1. PICK a \in Addr, d \in Buffers :
               r = [op |-> "write", fla |-> a, count |-> Len(d), data |-> d]
      BY <2>2
    <3>2. d \in Seq(Byte) /\ Len(d) \in Nat
      BY SizesAssumption
    <3> QED BY <3>1, <3>2
  <2>3. CASE r \in [op : {"erase"}, fla : Addr, count : {1}, data : {<<>>}]
    BY <2>3
  <2>4. CASE r \in [op : {"jedec"}, fla : {0}, count : {1}, data : {<<>>}]
    BY <2>4, SizesAssumption DEF Addr
  <2> QED BY <2>1, <2>2, <2>3, <2>4 DEF Requests
<1>2. r.fla + r.count <= FlashSize
  <2>1. CASE r.count = 0
    BY <2>1, <1>1, SizesAssumption DEF Addr
  <2>2. CASE r.count # 0
    <3>1. r.fla + r.count - 1 \in Range(r)
      BY <2>2, <1>1, SizesAssumption DEF Range, Addr
    <3> QED BY <3>1, <1>1, SizesAssumption DEF Addr
  <2> QED BY <2>1, <2>2
<1> QED BY <1>1, <1>2

\* The arguments of the running operation are addresses and lengths of their kind.
LEMMA ReqFacts == TypeOK => ReqOK
BY RequestFacts DEF TypeOK, ReqOK

\* A cycle carries between 1 and MaxDBC bytes and ends inside the request;
\* a write cycle fits in FDATA0.
LEMMA ChunkFacts ==
  ASSUME TypeOK, off < req.count
  PROVE  /\ ChunkLen \in 1 .. MaxDBC
         /\ off + ChunkLen <= req.count
         /\ req.op = "write" => ChunkLen <= DefDBC
<1>1. ReqOK BY ReqFacts
<1>2. off \in Nat BY <1>1 DEF TypeOK, ReqOK
<1>3. Dbc \in 1 .. MaxDBC BY SizesAssumption DEF Dbc
<1> QED BY <1>1, <1>2, <1>3, SizesAssumption DEF ReqOK, ChunkLen, Dbc
-----------------------------------------------------------------------------
(***************************************************************************)
(* The inductive invariant.  Control says how the host's locals relate to  *)
(* where it is; Registers, that as long as no cycle of the operation has    *)
(* failed the controller is idle between cycles and works on the chunk the  *)
(* host has asked for; WriteInv, ReadInv and EraseInv, what the flash and   *)
(* the buffer hold meanwhile.                                               *)
(***************************************************************************)
Sending == pc \in {"fdata", "faddr", "dbc", "fgo"}
Waiting == pc \in {"poll", "clear", "check"} /\ phase = "cycle"
Readying == pc \in {"poll", "clear", "check"} /\ phase = "ready"

Control ==
  /\ pc # "idle" <=> result = "running"
  /\ Sending \/ Waiting \/ pc = "drain" => off < req.count
  /\ pc = "fdata" => req.op = "write"
  /\ pc = "dbc" => req.op # "erase"
  /\ pc = "drain" => req.op \in {"read", "jedec"}
  /\ Readying => req.op # "jedec" /\ off = 0 /\ ok /\ buf = <<>>
  /\ pc \in {"clear", "check"} => ~scip
  /\ req.op = "read" => Len(buf) <= off

\* No cycle of the operation has failed, and the controller refuses none of it.
Clean ==
  \/ req.op = "read" /\ Len(buf) = off /\ Range(req) \cap RDenied = {}
  \/ req.op = "write" /\ ok /\ Range(req) \cap WDenied = {}
  \/ req.op = "erase" /\ ok /\ Block(req.fla) \cap WDenied = {}

Registers ==
  Clean => /\ Sending => ~scip
           /\ pc \in {"dbc", "fgo"} => faddr = req.fla + off
           /\ pc = "fgo" /\ req.op # "erase" => fdbc = ChunkLen - 1
           /\ Waiting => /\ cyc.op = req.op
                         /\ cyc.addr = req.fla + off
                         /\ req.op # "erase" => cyc.n = ChunkLen

\* The first o bytes of the buffer are programmed, the rest of the part is as it was.
Programmed(o) ==
  \A a \in Addr : flash[a] = IF a \in req.fla .. req.fla + o - 1
                               THEN flash0[a] \cap req.data[a - req.fla + 1]
                               ELSE flash0[a]

WriteInv ==
  Clean /\ req.op = "write" =>
    /\ pc \in {"faddr", "dbc", "fgo"} \/ Waiting
         => \A k \in 0 .. ChunkLen - 1 : fdata[k] = req.data[off + k + 1]
    /\ Sending \/ (Waiting /\ scip) => Programmed(off)
    /\ Waiting /\ ~scip => Programmed(off + ChunkLen)
    /\ result = "returned" => ~scip /\ Programmed(req.count)

ReadInv ==
  Clean /\ req.op = "read" /\ result \in {"running", "returned"} =>
    /\ \A j \in 1 .. off : buf[j] = flash[req.fla + j - 1]
    /\ (Waiting /\ ~scip) \/ pc = "drain"
         => \A k \in 0 .. ChunkLen - 1 : fdata[k] = flash[req.fla + off + k]
    /\ pc = "drain" => ~scip
    /\ result = "returned" /\ off > 0 => ~scip

Erased == \A a \in Addr : flash[a] = IF a \in Block(req.fla) THEN Bits ELSE flash0[a]

EraseInv ==
  Clean /\ req.op = "erase" =>
    /\ Sending \/ (Waiting /\ scip) => flash = flash0
    /\ Waiting /\ ~scip => Erased
    /\ result = "returned" => ~scip /\ Erased

IInv == TypeOK /\ Control /\ Registers /\ WriteInv /\ ReadInv /\ EraseInv
-----------------------------------------------------------------------------
(***************************************************************************)
(* Type correctness and control.                                           *)
(***************************************************************************)

\* Going on with the next cycle, or returning, keeps the host's locals in order.
LEMMA GoOnFacts ==
  ASSUME NEW o \in Nat, o <= req.count, GoOn(o), ReqOK, result = "running"
  PROVE  /\ off' = o
         /\ pc' \in {"fdata", "faddr", "idle"}
         /\ result' \in {"running", "returned"}
         /\ pc' # "idle" <=> result' = "running"
         /\ pc' # "idle" => o < req.count
         /\ pc' = "fdata" => req.op = "write"
         /\ pc' = "idle" => o = req.count
BY DEF GoOn, ReqOK

\* What the return from _wait_SPI_flash_cycle_done leaves.
LEMMA WaitFacts ==
  ASSUME TypeOK, Control, NEW done \in BOOLEAN, WaitReturns(done), done => ~scip,
         pc \in {"poll", "check"},
         UNCHANGED <<ctlVars, plat, phase, polls, req>>
  PROVE  TypeOK' /\ Control'
<1>1. ReqOK /\ ReqOK' BY ReqFacts DEF ReqOK
<1>2. result = "running" BY DEF Control
<1>3. off \in Nat BY <1>1 DEF TypeOK, ReqOK
<1>4. CASE phase = "ready" /\ ~done
  BY <1>4, <1>1, <1>2, <1>3 DEF WaitReturns, TypeOK, Control, ctlVars, ReqOK,
     Sending, Waiting, Readying, Byte
<1>5. CASE phase = "ready" /\ done
  <2>1. /\ GoOn(0) /\ flash0' = flash /\ UNCHANGED <<ok, buf>>
    BY <1>5 DEF WaitReturns
  <2>2. off = 0 /\ off' = 0
    BY <2>1, <1>5 DEF Control, Readying, GoOn
  <2> QED BY <2>1, <2>2, <1>1, <1>2, <1>5, GoOnFacts
          DEF TypeOK, Control, ctlVars, ReqOK, Sending, Waiting, Readying
<1>6. CASE phase = "cycle"
  <2>1. off < req.count BY <1>6 DEF Control, Waiting
  <2>2. /\ ChunkLen \in 1 .. MaxDBC /\ off + ChunkLen <= req.count
    BY <2>1, ChunkFacts
  <2>3. ok' \in BOOLEAN /\ UNCHANGED <<buf, flash0>>
    BY <1>6 DEF WaitReturns, TypeOK
  <2>4. CASE req.op = "jedec" \/ (req.op = "read" /\ done)
    <3>1. pc' = "drain" /\ UNCHANGED <<off, result>>
      BY <1>6, <2>4 DEF WaitReturns
    <3> QED BY <3>1, <2>1, <2>3, <2>4, <1>1, <1>2
            DEF TypeOK, Control, ctlVars, ReqOK, Sending, Waiting, Readying
  <2>5. CASE ~(req.op = "jedec" \/ (req.op = "read" /\ done))
    <3>1. GoOn(off + ChunkLen)
      BY <1>6, <2>5 DEF WaitReturns
    <3>2. off + ChunkLen \in Nat BY <1>3, <2>2, SizesAssumption
    <3>3. buf \in Seq(Byte) /\ Len(buf) \in Nat BY DEF TypeOK
    <3> QED BY <3>1, <3>2, <3>3, <2>2, <2>3, <1>1, <1>2, <1>3, GoOnFacts, SizesAssumption
            DEF TypeOK, Control, ctlVars, ReqOK, Sending, Waiting, Readying
  <2> QED BY <2>4, <2>5
<1> QED BY <1>4, <1>5, <1>6 DEF TypeOK

\* The initial states are well typed and the host is between operations.
LEMMA TypeControlInit == Init => TypeOK /\ Control
<1> SUFFICES ASSUME Init PROVE TypeOK /\ Control
  OBVIOUS
<1>1. 0 \in Addr BY SizesAssumption DEF Addr
<1>2. req \in Requests
  BY <1>1 DEF Init, Requests
<1>3. Range(req) = 0 .. 0 /\ req.count = 1 /\ req.op = "erase"
  BY DEF Init, Range
<1>4. Range(req) \subseteq Addr
  BY <1>1, <1>3
<1>5. cyc \in Cycles
  BY <1>1, SizesAssumption DEF Init, Cycles
<1>6. fdata \in [0 .. MaxDBC - 1 -> Byte]
  BY DEF Init, Byte
<1>7. buf \in Seq(Byte) /\ off \in 0 .. req.count
  BY <1>3 DEF Init
<1>8. TypeOK
  <2>1. /\ scip \in BOOLEAN /\ err \in BOOLEAN /\ ok \in BOOLEAN
        /\ plat \in [fdv : BOOLEAN, fcycle : BOOLEAN]
        /\ flash \in [Addr -> Byte] /\ flash0 \in [Addr -> Byte]
    BY DEF Init
  <2>2. faddr \in Addr /\ fdbc \in 0 .. MaxDBC - 1 /\ polls \in 0 .. PollLimit
    BY <1>1, SizesAssumption DEF Init
  <2>3. pc = "idle" /\ phase = "ready" /\ result = "none"
    BY DEF Init
  <2> QED BY <1>2, <1>4, <1>5, <1>6, <1>7, <2>1, <2>2, <2>3 DEF TypeOK
<1>9. Control
  BY <1>3 DEF Init, Control, Sending, Waiting, Readying
<1> QED BY <1>8, <1>9

\* No step of the host or of the controller leaves the types or the order of the steps.
LEMMA TypeControlStep == TypeOK /\ Control /\ [Next]_vars => TypeOK' /\ Control'
<1> SUFFICES ASSUME TypeOK, Control, [Next]_vars PROVE TypeOK' /\ Control'
  OBVIOUS
<1> USE DEF Sending, Waiting, Readying
<1>1. ReqOK BY ReqFacts
<1>2. off \in Nat BY <1>1 DEF TypeOK, ReqOK
<1>3. CASE Poll
  BY <1>3, SizesAssumption DEF Poll, TypeOK, Control, ctlVars
<1>4. CASE LastPoll
  <2>1. CASE scip
    <3>1. WaitReturns(FALSE) /\ pc = "poll" /\ UNCHANGED <<ctlVars, plat, phase, polls, req>>
      BY <1>4, <2>1 DEF LastPoll
    <3> QED BY <3>1, WaitFacts
  <2>2. CASE ~scip
    BY <1>4, <2>2 DEF LastPoll, TypeOK, Control, ctlVars
  <2> QED BY <2>1, <2>2
<1>5. CASE ClearStatus
  BY <1>5 DEF ClearStatus, TypeOK, Control
<1>6. CASE CheckStatus
  <2>1. WaitReturns(~err) /\ pc = "check" /\ ~scip /\ (~err) \in BOOLEAN
        /\ UNCHANGED <<ctlVars, plat, phase, polls, req>>
    BY <1>6 DEF CheckStatus, Control, TypeOK
  <2> QED BY <2>1, WaitFacts
<1>7. CASE WriteFdata
  <2>1. off < req.count /\ req.op = "write" /\ ChunkLen \in 1 .. MaxDBC
        /\ off + ChunkLen <= req.count
    BY <1>7, ChunkFacts DEF WriteFdata, Control
  <2> DEFINE new == [k \in 0 .. MaxDBC - 1 |-> IF k < ChunkLen THEN req.data[off + k + 1]
                                                ELSE IF k < DefDBC THEN {} ELSE fdata[k]]
  <2>2. new \in [0 .. MaxDBC - 1 -> Byte]
    <3>1. ASSUME NEW k \in 0 .. MaxDBC - 1, k < ChunkLen PROVE req.data[off + k + 1] \in Byte
      <4>1. off + k + 1 \in 1 .. Len(req.data)
        BY <3>1, <2>1, <1>1, <1>2 DEF ReqOK
      <4>2. req.data \in Seq(Byte)
        BY <2>1, <1>1 DEF ReqOK
      <4> QED BY <4>1, <4>2
    <3>2. \A k \in 0 .. MaxDBC - 1 : {} \in Byte /\ fdata[k] \in Byte
      BY DEF TypeOK, Byte
    <3> QED BY <3>1, <3>2
  <2>3. fdata' \in {new, fdata}
    BY <1>7 DEF WriteFdata, RegValues
  <2>4. fdata' \in [0 .. MaxDBC - 1 -> Byte]
    BY <2>2, <2>3 DEF TypeOK
  <2> QED BY <1>7, <2>1, <2>4 DEF WriteFdata, TypeOK, Control
<1>8. CASE WriteFaddr
  <2>1. off < req.count BY <1>8 DEF WriteFaddr, Control
  <2>2. req.fla + off \in Addr
    BY <2>1, <1>1, <1>2, SizesAssumption DEF ReqOK, Addr
  <2>3. faddr' \in Addr
    BY <1>8, <2>2 DEF WriteFaddr, RegValues, TypeOK
  <2> QED BY <1>8, <2>1, <2>3 DEF WriteFaddr, TypeOK, Control
<1>9. CASE WriteDbc
  <2>1. off < req.count BY <1>9 DEF WriteDbc, Control
  <2>2. ChunkLen - 1 \in 0 .. MaxDBC - 1
    BY <2>1, ChunkFacts, SizesAssumption
  <2>3. fdbc' \in 0 .. MaxDBC - 1
    BY <1>9, <2>2, SizesAssumption DEF WriteDbc, RegValues, TypeOK
  <2> QED BY <1>9, <2>1, <2>3 DEF WriteDbc, TypeOK, Control
<1>10. CASE WriteFgo
  <2>1. cyc' \in Cycles
    BY <1>10, <1>1, SizesAssumption DEF WriteFgo, TypeOK, Cycles, ReqOK
  <2>2. scip' \in BOOLEAN BY <1>10 DEF WriteFgo, TypeOK
  <2>3. TypeOK'
    BY <1>10, <2>1, <2>2, SizesAssumption DEF WriteFgo, TypeOK
  <2>4. Control'
    BY <1>10 DEF WriteFgo, Control
  <2> QED BY <2>3, <2>4
<1>11. CASE ReadFdata
  <2>1. off < req.count /\ req.op \in {"read", "jedec"} /\ ChunkLen \in 1 .. MaxDBC
        /\ off + ChunkLen <= req.count /\ result = "running"
    BY <1>11, ChunkFacts DEF ReadFdata, Control
  <2> DEFINE m == IF req.op = "jedec" THEN 3 ELSE ChunkLen
             piece == [j \in 1 .. m |-> fdata[j - 1]]
  <2>2. m \in 1 .. MaxDBC BY <2>1, SizesAssumption
  <2>3. piece \in Seq(Byte) /\ Len(piece) = m
    <3>1. \A j \in 1 .. m : fdata[j - 1] \in Byte
      BY <2>2, SizesAssumption DEF TypeOK
    <3> QED BY <3>1, <2>2, SizesAssumption
  <2>4. buf' = buf \o piece /\ GoOn(off + ChunkLen)
        /\ UNCHANGED <<ctlVars, plat, phase, polls, req, ok, flash0>>
    BY <1>11 DEF ReadFdata
  <2>5. buf \in Seq(Byte) BY DEF TypeOK
  <2> HIDE DEF m, piece
  <2>6. buf' \in Seq(Byte) /\ Len(buf') = Len(buf) + m
    BY <2>3, <2>4, <2>5
  <2>7. off + ChunkLen \in Nat /\ off + ChunkLen <= req.count
    BY <1>2, <2>1, SizesAssumption
  <2>8. req.op = "read" => Len(buf') <= off + ChunkLen
    BY <2>1, <2>5, <2>6, <1>2, SizesAssumption DEF Control, m
  <2>9. /\ off' = off + ChunkLen
        /\ pc' \in {"fdata", "faddr", "idle"}
        /\ result' \in {"running", "returned"}
        /\ pc' # "idle" <=> result' = "running"
        /\ pc' # "idle" => off' < req.count
        /\ pc' = "fdata" => req.op = "write"
    BY <2>1, <2>4, <2>7, <1>1, GoOnFacts
  <2>10. TypeOK'
    BY <2>4, <2>6, <2>7, <2>9, <1>1 DEF TypeOK, ctlVars, ReqOK
  <2>11. Control'
    BY <2>4, <2>8, <2>9 DEF Control, ctlVars
  <2> QED BY <2>10, <2>11
<1>12. CASE CycleEnds
  <2>1. flash' \in [Addr -> Byte] /\ fdata' \in [0 .. MaxDBC - 1 -> Byte]
    <3>1. CASE Refused(cyc)
      BY <1>12, <3>1 DEF CycleEnds, TypeOK
    <3>2. CASE ~Refused(cyc)
      <4>1. flash' = FlashAfter(cyc) /\ fdata' = FdataAfter(cyc)
        BY <1>12, <3>2 DEF CycleEnds
      <4>2. cyc.addr \in Addr /\ cyc.n \in 1 .. MaxDBC
        BY DEF TypeOK, Cycles
      <4>3. FlashAfter(cyc) \in [Addr -> Byte]
        BY <4>2, SizesAssumption DEF FlashAfter, TypeOK, Byte, Addr
      <4>4. FdataAfter(cyc) \in [0 .. MaxDBC - 1 -> Byte]
        <5>1. CASE cyc.op = "read"
          <6>1. cyc.addr .. cyc.addr + cyc.n - 1 \subseteq Addr
            BY <3>2, <5>1 DEF Refused, Cells
          <6>2. \A k \in 0 .. MaxDBC - 1 : k < cyc.n => cyc.addr + k \in Addr
            BY <6>1, <4>2, SizesAssumption DEF Addr
          <6> QED BY <6>2, <5>1 DEF FdataAfter, TypeOK
        <5>2. CASE cyc.op = "jedec"
          BY <5>2, SizesAssumption DEF FdataAfter, TypeOK
        <5>3. CASE cyc.op \notin {"read", "jedec"}
          BY <5>3 DEF FdataAfter, TypeOK
        <5> QED BY <5>1, <5>2, <5>3
      <4> QED BY <4>1, <4>3, <4>4
    <3> QED BY <3>1, <3>2
  <2>2. scip' = FALSE /\ err' \in BOOLEAN /\ UNCHANGED <<cyc, faddr, fdbc, plat, hostVars>>
    BY <1>12 DEF CycleEnds, TypeOK
  <2> QED BY <2>1, <2>2 DEF TypeOK, Control, hostVars
<1>13. ASSUME NEW r \in Requests, Call(r) PROVE TypeOK' /\ Control'
  <2>1. Range(r) \subseteq Addr BY <1>13 DEF Call
  <2>2. r.count \in Nat BY <2>1, RequestFacts
  <2>3. /\ req' = r /\ off' = 0 /\ ok' = TRUE /\ buf' = <<>> /\ polls' = 0
        /\ flash0' = flash
        /\ UNCHANGED <<ctlVars, plat>>
        /\ pc' \in {"idle", "faddr", "poll"}
        /\ phase' \in {phase, "ready"}
        /\ result' \in {"running", "unsupported", "SpiRuntimeError"}
        /\ pc' # "idle" <=> result' = "running"
        /\ pc' = "faddr" => r.op = "jedec"
        /\ pc' = "poll" => r.op # "jedec" /\ phase' = "ready"
    BY <1>13 DEF Call
  <2>4. r.op = "jedec" => r.count = 1
    BY <2>1, RequestFacts
  <2>5. buf' \in Seq(Byte) /\ Len(buf') = 0
    BY <2>3
  <2>6. TypeOK'
    BY <2>1, <2>2, <2>3, <2>5, SizesAssumption DEF TypeOK, ctlVars
  <2>7. Control'
    BY <2>3, <2>4, <2>5 DEF Control, ctlVars
  <2> QED BY <2>6, <2>7
<1>14. CASE UNCHANGED vars
  BY <1>14 DEF vars, ctlVars, hostVars, TypeOK, Control
<1> QED
  BY <1>3, <1>4, <1>5, <1>6, <1>7, <1>8, <1>9, <1>10, <1>11, <1>12, <1>13, <1>14
     DEF Next, HostStep
-----------------------------------------------------------------------------
(***************************************************************************)
(* The rest of the inductive invariant.                                    *)
(***************************************************************************)
DataInv == Registers /\ WriteInv /\ ReadInv /\ EraseInv

\* A wait that returns, True or False, keeps the data in order.
LEMMA WaitData ==
  ASSUME TypeOK, Control, DataInv, TypeOK', Control',
         NEW done \in BOOLEAN, WaitReturns(done), done => ~scip,
         pc \in {"poll", "check"},
         UNCHANGED <<ctlVars, plat, phase, polls, req>>
  PROVE  DataInv'
<1> USE DEF Sending, Waiting, Readying
<1>1. ReqOK BY ReqFacts
<1>2. result = "running" /\ off \in Nat /\ Len(buf) \in Nat
  BY <1>1 DEF TypeOK, ReqOK, Control
<1>3. /\ scip' = scip /\ cyc' = cyc /\ faddr' = faddr /\ fdbc' = fdbc /\ fdata' = fdata
      /\ flash' = flash /\ req' = req /\ phase' = phase
  BY DEF ctlVars
<1>4. CASE phase = "ready" /\ ~done
  <2>1. pc' = "idle" /\ result' = "returned" /\ ok' = FALSE /\ off' = 0 /\ buf' = <<>>
    BY <1>4 DEF WaitReturns, Control
  <2> QED BY <2>1, <1>3 DEF DataInv, Registers, WriteInv, ReadInv, EraseInv, Clean
<1>5. CASE phase = "ready" /\ done
  <2>1. /\ GoOn(0) /\ flash0' = flash /\ ok' = ok /\ buf' = buf /\ ~scip /\ off' = 0
    BY <1>5 DEF WaitReturns, GoOn
  <2>2. pc' \in {"fdata", "faddr", "idle"} /\ (pc' = "fdata" => req.op = "write")
        /\ (pc' = "idle" => req.count = 0) /\ (result' = "returned" => pc' = "idle")
        /\ (pc' = "faddr" => req.op # "write")
    BY <2>1, <1>1, <1>2 DEF GoOn, ReqOK
  <2>3. Programmed(0)'
    BY <2>1, <1>3, <1>1 DEF Programmed, ReqOK, Addr
  <2>4. (Registers /\ ReadInv)'
    BY <2>1, <2>2, <1>3 DEF Registers, ReadInv
  <2>5. WriteInv'
    BY <2>1, <2>2, <2>3, <1>3 DEF WriteInv
  <2>6. EraseInv'
    BY <2>1, <2>2, <1>1, <1>3 DEF EraseInv, ReqOK
  <2> QED BY <2>4, <2>5, <2>6 DEF DataInv
<1>6. CASE phase = "cycle"
  <2>1. /\ off < req.count
        /\ ChunkLen \in 1 .. MaxDBC /\ off + ChunkLen <= req.count /\ off + ChunkLen \in Nat
    BY <1>2, <1>6, ChunkFacts, SizesAssumption DEF Control
  <2>2. ok' = (ok /\ done) /\ buf' = buf /\ flash0' = flash0
    BY <1>6 DEF WaitReturns
  <2>3. CASE req.op = "jedec"
    BY <2>3, <1>3 DEF DataInv, Registers, WriteInv, ReadInv, EraseInv, Clean
  <2>4. CASE req.op = "read" /\ done
    <3>1. pc' = "drain" /\ off' = off /\ result' = result /\ ~scip
      BY <1>6, <2>4 DEF WaitReturns
    <3>2. ChunkLen' = ChunkLen
      BY <3>1, <1>3 DEF ChunkLen, Dbc
    <3> QED BY <2>4, <3>1, <3>2, <2>2, <1>2, <1>3, <1>6
            DEF DataInv, Registers, WriteInv, ReadInv, EraseInv, Clean
  <2>5. CASE req.op = "read" /\ ~done
    <3>1. off' = off + ChunkLen
      BY <1>6, <2>5 DEF WaitReturns, GoOn
    <3>2. ~Clean'
      BY <3>1, <2>1, <2>2, <2>5, <1>2, <1>3 DEF Clean, Control
    <3> QED BY <3>2 DEF DataInv, Registers, WriteInv, ReadInv, EraseInv
  <2>6. CASE req.op \in {"write", "erase"}
    <3>1. GoOn(off + ChunkLen)
      BY <1>6, <2>6 DEF WaitReturns
    <3>2. /\ off' = off + ChunkLen
          /\ pc' \in {"fdata", "faddr", "idle"}
          /\ pc' = "fdata" => req.op = "write"
          /\ pc' = "faddr" => req.op # "write" /\ off' < req.count
          /\ pc' = "idle" => off' = req.count
          /\ result' = "returned" => pc' = "idle"
      BY <3>1, <2>1, <1>1, <1>2, <2>6 DEF GoOn, ReqOK
    <3>3. CASE ~done
      <4>1. ~Clean' BY <3>3, <2>2, <2>6, <1>3 DEF Clean
      <4> QED BY <4>1 DEF DataInv, Registers, WriteInv, ReadInv, EraseInv
    <3>4. CASE done /\ req.op = "write"
      <4>1. ~scip /\ (Clean' => Clean)
        BY <3>4, <2>2, <1>3 DEF Clean
      <4>2. Clean' => Programmed(off)'
        BY <4>1, <3>2, <3>4, <2>2, <1>3, <1>6 DEF DataInv, WriteInv, Programmed
      <4> QED BY <4>1, <4>2, <3>2, <3>4, <1>3 DEF DataInv, Registers, WriteInv, ReadInv, EraseInv
    <3>5. CASE done /\ req.op = "erase"
      <4>1. ~scip /\ (Clean' => Clean)
        BY <3>5, <2>2, <1>3 DEF Clean
      <4>2. pc' = "idle"
        BY <3>2, <3>5, <2>1, <1>1, <1>2, SizesAssumption DEF ReqOK
      <4>3. Clean' => Erased'
        BY <4>1, <3>5, <2>2, <1>3, <1>6 DEF DataInv, EraseInv, Erased
      <4> QED BY <4>1, <4>2, <4>3, <3>5, <1>3 DEF DataInv, Registers, WriteInv, ReadInv, EraseInv
    <3> QED BY <3>3, <3>4, <3>5, <2>6
  <2> QED BY <2>3, <2>4, <2>5, <2>6, <1>1 DEF ReqOK
<1> QED BY <1>4, <1>5, <1>6 DEF TypeOK

\* The length and the elements of a concatenation.
LEMMA ConcatFacts ==
  ASSUME NEW S, NEW s \in Seq(S), NEW t \in Seq(S)
  PROVE  /\ Len(s \o t) = Len(s) + Len(t)
         /\ \A j \in 1 .. Len(s) : (s \o t)[j] = s[j]
         /\ \A j \in Len(s) + 1 .. Len(s) + Len(t) : (s \o t)[j] = t[j - Len(s)]
OBVIOUS

\* Every step keeps what the invariant says of the flash, FDATA and the buffer.
LEMMA DataStep ==
  ASSUME TypeOK, Control, DataInv, TypeOK', Control', [Next]_vars
  PROVE  DataInv'
<1> USE DEF Sending, Waiting, Readying
<1>1. ReqOK BY ReqFacts
<1>2. off \in Nat /\ Len(buf) \in Nat BY <1>1 DEF TypeOK, ReqOK
<1>3. ASSUME UNCHANGED <<req, off, ok, buf>>
      PROVE  ChunkLen' = ChunkLen /\ (Clean' <=> Clean)
  BY <1>3 DEF ChunkLen, Dbc, Clean
<1>4. CASE Poll
  BY <1>4, <1>3 DEF Poll, ctlVars, DataInv, Registers, WriteInv, ReadInv, EraseInv, Programmed, Erased
<1>5. CASE LastPoll
  <2>1. CASE scip
    <3>1. WaitReturns(FALSE) /\ pc = "poll" /\ UNCHANGED <<ctlVars, plat, phase, polls, req>>
      BY <1>5, <2>1 DEF LastPoll
    <3> QED BY <3>1, WaitData
  <2>2. CASE ~scip
    BY <1>5, <2>2, <1>3
       DEF LastPoll, ctlVars, DataInv, Registers, WriteInv, ReadInv, EraseInv, Programmed, Erased
  <2> QED BY <2>1, <2>2
<1>6. CASE ClearStatus
  BY <1>6, <1>3
     DEF ClearStatus, DataInv, Registers, WriteInv, ReadInv, EraseInv, Programmed, Erased
<1>7. CASE CheckStatus
  <2>1. WaitReturns(~err) /\ pc = "check" /\ ~scip /\ (~err) \in BOOLEAN
        /\ UNCHANGED <<ctlVars, plat, phase, polls, req>>
    BY <1>7 DEF CheckStatus, Control, TypeOK
  <2> QED BY <2>1, WaitData
<1>8. CASE WriteFdata
  <2>1. /\ pc = "fdata" /\ pc' = "faddr" /\ req.op = "write"
        /\ UNCHANGED <<scip, cyc, faddr, fdbc, flash, phase, req, off, ok, buf, result, flash0>>
    BY <1>8 DEF WriteFdata, Control
  <2>2. ChunkLen \in 1 .. MaxDBC
    BY <2>1, ChunkFacts DEF Control
  <2>3. Clean => ~scip BY <2>1 DEF DataInv, Registers
  <2>4. Clean => \A k \in 0 .. ChunkLen - 1 : fdata'[k] = req.data[off + k + 1]
    BY <1>8, <2>2, <2>3, SizesAssumption DEF WriteFdata, RegValues
  <2> QED BY <2>1, <2>3, <2>4, <1>3
          DEF DataInv, Registers, WriteInv, ReadInv, EraseInv, Programmed
<1>9. CASE WriteFaddr
  <2>1. /\ pc = "faddr" /\ pc' = (IF req.op = "erase" THEN "fgo" ELSE "dbc")
        /\ UNCHANGED <<scip, cyc, fdbc, fdata, flash, phase, req, off, ok, buf, result, flash0>>
    BY <1>9 DEF WriteFaddr
  <2>2. Clean => ~scip BY <2>1 DEF DataInv, Registers
  <2>3. Clean => faddr' = req.fla + off
    BY <1>9, <2>2 DEF WriteFaddr, RegValues
  <2>5. ChunkLen' = ChunkLen /\ (Clean' <=> Clean)
    BY <2>1, <1>3
  <2>6. Registers'
    BY <2>1, <2>2, <2>3, <2>5 DEF DataInv, Registers
  <2>7. WriteInv'
    BY <2>1, <2>5 DEF DataInv, WriteInv, Control, Programmed
  <2>8. ReadInv'
    BY <2>1, <2>5 DEF DataInv, ReadInv, Control
  <2>9. EraseInv'
    BY <2>1, <2>5 DEF DataInv, EraseInv, Control
  <2> QED BY <2>6, <2>7, <2>8, <2>9 DEF DataInv
<1>10. CASE WriteDbc
  <2>1. /\ pc = "dbc" /\ pc' = "fgo"
        /\ UNCHANGED <<scip, cyc, faddr, fdata, flash, phase, req, off, ok, buf, result, flash0>>
    BY <1>10 DEF WriteDbc
  <2>2. Clean => ~scip /\ req.op # "jedec" BY <2>1 DEF DataInv, Registers, Clean
  <2>3. Clean => fdbc' = ChunkLen - 1
    BY <1>10, <2>2 DEF WriteDbc, RegValues
  <2>5. ChunkLen' = ChunkLen /\ (Clean' <=> Clean)
    BY <2>1, <1>3
  <2>6. Registers'
    BY <2>1, <2>2, <2>3, <2>5 DEF DataInv, Registers
  <2>7. WriteInv'
    BY <2>1, <2>5 DEF DataInv, WriteInv, Control, Programmed
  <2>8. ReadInv'
    BY <2>1, <2>5 DEF DataInv, ReadInv, Control
  <2>9. EraseInv'
    BY <2>1, <2>5 DEF DataInv, EraseInv, Control
  <2> QED BY <2>6, <2>7, <2>8, <2>9 DEF DataInv
<1>11. CASE WriteFgo
  <2>1. /\ pc = "fgo" /\ pc' = "poll" /\ phase' = "cycle"
        /\ UNCHANGED <<fdata, flash, req, off, ok, buf, result, flash0>>
    BY <1>11 DEF WriteFgo
  <2>2. Clean => /\ scip'
                 /\ cyc' = [op |-> req.op, addr |-> req.fla + off, n |-> fdbc + 1]
                 /\ req.op # "erase" => fdbc = ChunkLen - 1
    BY <1>11, <2>1 DEF WriteFgo, DataInv, Registers
  <2>3. ChunkLen \in 1 .. MaxDBC
    BY <2>1, ChunkFacts DEF Control
  <2>5. ChunkLen' = ChunkLen /\ (Clean' <=> Clean)
    BY <2>1, <1>3
  <2>6. Clean => /\ cyc'.op = req.op /\ cyc'.addr = req.fla + off
                 /\ req.op # "erase" => cyc'.n = ChunkLen
    BY <2>2, <2>3, SizesAssumption
  <2>7. Registers'
    BY <2>1, <2>5, <2>6 DEF Registers
  <2>8. WriteInv'
    BY <2>1, <2>2, <2>5 DEF DataInv, WriteInv, Control, Programmed
  <2>9. ReadInv'
    BY <2>1, <2>2, <2>5 DEF DataInv, ReadInv, Control
  <2>10. EraseInv'
    BY <2>1, <2>2, <2>5 DEF DataInv, EraseInv, Control
  <2> QED BY <2>7, <2>8, <2>9, <2>10 DEF DataInv
<1>12. CASE ReadFdata
  <2>1. /\ off < req.count /\ req.op \in {"read", "jedec"} /\ result = "running"
        /\ ChunkLen \in 1 .. MaxDBC /\ off + ChunkLen <= req.count /\ off + ChunkLen \in Nat
        /\ pc = "drain"
    BY <1>2, <1>12, ChunkFacts, SizesAssumption DEF ReadFdata, Control
  <2>2. /\ GoOn(off + ChunkLen)
        /\ UNCHANGED <<scip, cyc, faddr, fdbc, fdata, flash, phase, req, ok, flash0>>
    BY <1>12 DEF ReadFdata, ctlVars
  <2>3. CASE req.op = "jedec"
    BY <2>2, <2>3 DEF DataInv, Registers, WriteInv, ReadInv, EraseInv, Clean
  <2>4. CASE req.op = "read"
    <3> DEFINE piece == [j \in 1 .. ChunkLen |-> fdata[j - 1]]
    <3>1. buf' = buf \o piece BY <1>12, <2>4 DEF ReadFdata
    <3>2. buf \in Seq(Byte) /\ piece \in Seq(Byte) /\ Len(piece) = ChunkLen
      <4>1. \A j \in 1 .. ChunkLen : fdata[j - 1] \in Byte
        BY <2>1, SizesAssumption DEF TypeOK
      <4> QED BY <4>1, <2>1, SizesAssumption DEF TypeOK
    <3>3. \A j \in 1 .. ChunkLen : piece[j] = fdata[j - 1]
      OBVIOUS
    <3> HIDE DEF piece
    <3>4. /\ Len(buf') = Len(buf) + ChunkLen
          /\ \A j \in 1 .. Len(buf) : buf'[j] = buf[j]
          /\ \A j \in Len(buf) + 1 .. Len(buf) + ChunkLen : buf'[j] = piece[j - Len(buf)]
      BY <3>1, <3>2, ConcatFacts
    <3>5. off' = off + ChunkLen /\ pc' \in {"faddr", "idle"}
          /\ (result' = "returned" => pc' = "idle")
      BY <2>1, <2>2, <2>4 DEF GoOn
    <3>6. Clean' => Clean
      BY <3>4, <3>5, <2>1, <2>2, <2>4, <1>2, SizesAssumption DEF Clean
    <3>7. Clean => ~scip
      BY <2>1, <2>4 DEF DataInv, ReadInv
    <3>8. ASSUME Clean', NEW j \in 1 .. off' PROVE buf'[j] = flash'[req.fla + j - 1]
      <4>1. Len(buf) = off BY <3>6, <3>8, <2>4 DEF Clean
      <4>2. CASE j <= off
        <5>1. j \in 1 .. off BY <4>2, <3>5, <2>1, <1>2, SizesAssumption
        <5> QED BY <5>1, <4>1, <3>4, <3>6, <3>8, <2>1, <2>2, <2>4 DEF DataInv, ReadInv
      <4>3. CASE j > off
        <5>1. j \in off + 1 .. off + ChunkLen /\ j - off \in 1 .. ChunkLen
              /\ j - off - 1 \in 0 .. ChunkLen - 1
          BY <4>3, <3>5, <2>1, <1>2, SizesAssumption
        <5>2. buf'[j] = fdata[j - off - 1]
          BY <5>1, <4>1, <3>3, <3>4
        <5>3. fdata[j - off - 1] = flash[req.fla + off + (j - off - 1)]
          BY <5>1, <3>6, <3>8, <2>1, <2>4 DEF DataInv, ReadInv
        <5>4. req.fla + off + (j - off - 1) = req.fla + j - 1
          BY <5>1, <1>1, <1>2 DEF ReqOK, Addr
        <5> QED BY <5>2, <5>3, <5>4, <2>2
      <4> QED BY <4>2, <4>3, <3>5, <2>1, <1>2, SizesAssumption
    <3> QED BY <3>5, <3>6, <3>7, <3>8, <2>2, <2>4
            DEF DataInv, Registers, WriteInv, ReadInv, EraseInv
  <2> QED BY <2>1, <2>3, <2>4
<1>13. CASE CycleEnds
  <2>1. scip /\ scip' = FALSE
        /\ UNCHANGED <<cyc, faddr, fdbc, pc, phase, polls, req, off, ok, buf, result, flash0>>
    BY <1>13 DEF CycleEnds, hostVars
  <2>2. ChunkLen' = ChunkLen /\ (Clean' <=> Clean)
    BY <2>1, <1>3
  <2>3. Registers'
    BY <2>1, <2>2 DEF DataInv, Registers
  <2>4. ASSUME Waiting
        PROVE  /\ off < req.count
               /\ ChunkLen \in 1 .. MaxDBC /\ off + ChunkLen <= req.count
               /\ req.op = "write" => ChunkLen <= DefDBC
               /\ req.fla + off .. req.fla + off + ChunkLen - 1 \subseteq Range(req)
    <3>1. /\ off < req.count /\ ChunkLen \in 1 .. MaxDBC /\ off + ChunkLen <= req.count
          /\ req.op = "write" => ChunkLen <= DefDBC
      BY <2>4, ChunkFacts DEF Control
    <3>2. req.fla \in Nat /\ req.count \in Nat /\ ChunkLen \in Nat
      BY <3>1, <1>1, SizesAssumption DEF ReqOK, Addr
    <3>3. \A a \in req.fla + off .. req.fla + off + ChunkLen - 1 :
             a \in req.fla .. req.fla + req.count - 1
      BY <3>1, <3>2, <1>2
    <3> QED BY <3>1, <3>3 DEF Range
  <2>5. ASSUME Waiting, Clean PROVE ~Refused(cyc)
    <3>1. /\ cyc.op = req.op /\ cyc.addr = req.fla + off
          /\ req.op # "erase" => cyc.n = ChunkLen
      BY <2>5 DEF DataInv, Registers
    <3>2. CASE req.op \in {"read", "write"}
      <4>1. Cells(cyc) = req.fla + off .. req.fla + off + ChunkLen - 1
        BY <3>1, <3>2 DEF Cells
      <4>2. Cells(cyc) \subseteq Range(req) /\ Range(req) \subseteq Addr
        BY <4>1, <2>4, <2>5 DEF TypeOK
      <4> QED BY <4>2, <3>1, <3>2, <2>5 DEF Refused, Clean
    <3>3. CASE req.op = "erase"
      <4>1. off = 0 BY <3>3, <2>4, <2>5, <1>1, <1>2 DEF ReqOK
      <4>2. cyc.addr = req.fla BY <4>1, <3>1, <1>1 DEF ReqOK, Addr
      <4>3. Cells(cyc) = Block(req.fla) /\ Block(req.fla) \subseteq Addr
        BY <4>2, <3>1, <3>3 DEF Cells, Block
      <4> QED BY <4>3, <3>1, <3>3, <2>5 DEF Refused, Clean
    <3> QED BY <3>2, <3>3, <2>5 DEF Clean
  <2>6. ASSUME Waiting, Clean
        PROVE  flash' = FlashAfter(cyc) /\ fdata' = FdataAfter(cyc)
    BY <2>5, <2>6, <1>13 DEF CycleEnds
  <2>7. WriteInv'
    <3> SUFFICES ASSUME Clean, req.op = "write" PROVE WriteInv'
      BY <2>1, <2>2 DEF WriteInv
    <3>1. CASE ~Waiting
      BY <3>1, <2>1, <2>2 DEF DataInv, WriteInv, Registers, Control
    <3>2. CASE Waiting
      <4>1. cyc.op = "write" /\ cyc.addr = req.fla + off /\ cyc.n = ChunkLen
        BY <3>2 DEF DataInv, Registers
      <4>2. Cells(cyc) = req.fla + off .. req.fla + off + ChunkLen - 1
        BY <4>1 DEF Cells
      <4>3. fdata' = fdata
        BY <4>1, <3>2, <2>6 DEF FdataAfter
      <4>4. flash' = [a \in Addr |-> IF a \in Cells(cyc) THEN flash[a] \cap fdata[a - cyc.addr]
                                                          ELSE flash[a]]
        BY <4>1, <3>2, <2>6 DEF FlashAfter
      <4>5. \A k \in 0 .. ChunkLen - 1 : fdata[k] = req.data[off + k + 1]
        BY <3>2 DEF DataInv, WriteInv
      <4>6. Programmed(off) BY <3>2, <2>1 DEF DataInv, WriteInv
      <4>7. ASSUME NEW a \in Addr
            PROVE  flash'[a] = IF a \in req.fla .. req.fla + (off + ChunkLen) - 1
                                 THEN flash0[a] \cap req.data[a - req.fla + 1]
                                 ELSE flash0[a]
        <5>1. a \in Nat /\ req.fla \in Nat /\ off \in Nat /\ ChunkLen \in Nat
          BY <1>1, <1>2, <2>4, <3>2, SizesAssumption DEF ReqOK, Addr
        <5>2. CASE a \in Cells(cyc)
          <6>1. a - cyc.addr \in 0 .. ChunkLen - 1
            BY <5>1, <5>2, <4>1, <4>2
          <6>2. off + (a - cyc.addr) + 1 = a - req.fla + 1
            BY <5>1, <4>1
          <6>3. fdata[a - cyc.addr] = req.data[a - req.fla + 1]
            BY <6>1, <6>2, <4>5
          <6>4. flash[a] = flash0[a]
            <7>1. a \notin req.fla .. req.fla + off - 1
              BY <5>1, <5>2, <4>2
            <7> QED BY <7>1, <4>6 DEF Programmed
          <6>5. a \in req.fla .. req.fla + (off + ChunkLen) - 1
            BY <5>1, <5>2, <4>2
          <6> QED BY <6>3, <6>4, <6>5, <5>2, <4>4
        <5>3. CASE a \notin Cells(cyc)
          <6>1. a \in req.fla .. req.fla + (off + ChunkLen) - 1 <=> a \in req.fla .. req.fla + off - 1
            BY <5>1, <5>3, <4>2
          <6> QED BY <6>1, <5>3, <4>4, <4>6 DEF Programmed
        <5> QED BY <5>2, <5>3
      <4>8. Programmed(off + ChunkLen)'
        BY <4>7, <2>1, <2>2 DEF Programmed
      <4>9. result = "running"
        BY <3>2 DEF Control
      <4>10. pc \notin {"fdata", "faddr", "dbc", "fgo"} BY <3>2
      <4> QED BY <4>3, <4>5, <4>8, <4>9, <4>10, <2>1, <2>2 DEF WriteInv
    <3> QED BY <3>1, <3>2
  <2>8. ReadInv'
    <3> SUFFICES ASSUME Clean, req.op = "read", result \in {"running", "returned"} PROVE ReadInv'
      BY <2>1, <2>2 DEF ReadInv
    <3>1. CASE Waiting
      <4>1. cyc.op = "read" /\ cyc.addr = req.fla + off /\ cyc.n = ChunkLen
        BY <3>1 DEF DataInv, Registers
      <4>2. flash' = flash
        BY <4>1, <3>1, <2>6 DEF FlashAfter
      <4>3. \A k \in 0 .. ChunkLen - 1 : fdata'[k] = flash[req.fla + off + k]
        BY <4>1, <3>1, <2>4, <2>6, SizesAssumption DEF FdataAfter
      <4> QED BY <4>2, <4>3, <3>1, <2>1, <2>2 DEF DataInv, ReadInv
    <3>2. CASE ~Waiting
      <4>1. off = 0
        BY <3>2, <2>1, <1>2 DEF DataInv, Registers, ReadInv, Control, TypeOK
      <4>2. pc # "drain" BY <2>1 DEF DataInv, ReadInv
      <4> QED BY <4>1, <4>2, <3>2, <2>1, <2>2 DEF ReadInv
    <3> QED BY <3>1, <3>2
  <2>9. EraseInv'
    <3> SUFFICES ASSUME Clean, req.op = "erase" PROVE EraseInv'
      BY <2>1, <2>2 DEF EraseInv
    <3>1. CASE ~Waiting
      BY <3>1, <2>1, <2>2 DEF DataInv, EraseInv, Registers, Control
    <3>2. CASE Waiting
      <4>1. off = 0 BY <3>2, <2>4, <1>1, <1>2 DEF ReqOK
      <4>2. cyc.op = "erase" /\ cyc.addr = req.fla
        BY <4>1, <3>2, <1>1 DEF DataInv, Registers, ReqOK, Addr
      <4>3. flash' = [a \in Addr |-> IF a \in Block(req.fla) THEN Bits ELSE flash[a]]
        BY <4>2, <3>2, <2>6 DEF FlashAfter, Cells
      <4>4. flash = flash0 /\ result = "running"
        BY <3>2, <2>1 DEF DataInv, EraseInv, Control
      <4>5. Erased'
        BY <4>3, <4>4, <2>1 DEF Erased
      <4>6. pc \notin {"fdata", "faddr", "dbc", "fgo"} BY <3>2
      <4> QED BY <4>4, <4>5, <4>6, <2>1, <2>2 DEF EraseInv
    <3> QED BY <3>1, <3>2
  <2> QED BY <2>3, <2>7, <2>8, <2>9 DEF DataInv
<1>14. ASSUME NEW r \in Requests, Call(r) PROVE DataInv'
  <2>1. /\ off' = 0 /\ result' # "returned"
        /\ pc' \in {"idle", "faddr", "poll"}
        /\ pc' = "faddr" => req'.op = "jedec"
        /\ pc' = "poll" => phase' = "ready"
    BY <1>14 DEF Call
  <2>2. pc' = "faddr" => ~Clean'
    BY <2>1 DEF Clean
  <2>3. Registers' BY <2>1, <2>2 DEF Registers
  <2>4. WriteInv' BY <2>1, <2>2 DEF WriteInv
  <2>5. ReadInv' BY <2>1, <2>2 DEF ReadInv
  <2>6. EraseInv' BY <2>1, <2>2 DEF EraseInv
  <2> QED BY <2>3, <2>4, <2>5, <2>6 DEF DataInv
<1>15. CASE UNCHANGED vars
  <2>1. UNCHANGED <<scip, cyc, faddr, fdbc, fdata, flash, pc, phase, req, off, ok, buf, result, flash0>>
    BY <1>15 DEF vars, ctlVars, hostVars
  <2>2. ChunkLen' = ChunkLen /\ (Clean' <=> Clean)
    BY <2>1, <1>3
  <2>3. Registers' BY <2>1, <2>2 DEF DataInv, Registers
  <2>4. WriteInv' BY <2>1, <2>2 DEF DataInv, WriteInv, Programmed
  <2>5. ReadInv' BY <2>1, <2>2 DEF DataInv, ReadInv
  <2>6. EraseInv' BY <2>1, <2>2 DEF DataInv, EraseInv, Erased
  <2> QED BY <2>3, <2>4, <2>5, <2>6 DEF DataInv
<1> QED
  BY <1>4, <1>5, <1>6, <1>7, <1>8, <1>9, <1>10, <1>11, <1>12, <1>13, <1>14, <1>15
     DEF Next, HostStep
-----------------------------------------------------------------------------
(***************************************************************************)
(* The theorems.                                                           *)
(***************************************************************************)
LEMMA DataInit == Init => DataInv
<1> SUFFICES ASSUME Init PROVE DataInv
  OBVIOUS
<1>1. pc = "idle" /\ result = "none" BY DEF Init
<1> QED BY <1>1 DEF DataInv, Registers, WriteInv, ReadInv, EraseInv, Sending, Waiting

\* The inductive invariant holds in every state of every behaviour.
THEOREM Invariance == Spec => []IInv
<1>1. Init => IInv
  BY TypeControlInit, DataInit DEF IInv, DataInv
<1>2. IInv /\ [Next]_vars => IInv'
  <2> SUFFICES ASSUME IInv, [Next]_vars PROVE IInv'
    OBVIOUS
  <2>1. TypeOK' /\ Control' BY TypeControlStep DEF IInv
  <2>2. DataInv' BY <2>1, DataStep DEF IInv, DataInv
  <2> QED BY <2>1, <2>2 DEF IInv, DataInv
<1> QED BY <1>1, <1>2, PTL DEF Spec

\* Registers, flash and locals keep their types, so FDBC always fits FDATA and
\* every address handed to the controller lies in the part.
THEOREM TypeCorrect == Spec => []TypeOK
BY Invariance, PTL DEF IInv

\* A True result of write_spi means exactly the requested bytes were programmed.
THEOREM WriteCorrect == Spec => []WriteOkIsExact
<1>1. IInv => WriteOkIsExact
  <2> SUFFICES ASSUME IInv, Returned("write"), ok, Range(req) \cap WDenied = {}
               PROVE  \A a \in Addr :
                        flash[a] = IF a \in Range(req) THEN flash0[a] \cap req.data[a - req.fla + 1]
                                                       ELSE flash0[a]
    BY DEF WriteOkIsExact
  <2>1. Programmed(req.count)
    BY DEF IInv, WriteInv, Clean, Returned
  <2> QED BY <2>1 DEF Programmed, Range
<1> QED BY <1>1, Invariance, PTL

\* A full-length result of read_spi holds exactly the bytes of the part.
THEOREM ReadCorrect == Spec => []FullReadIsExact
<1>1. IInv => FullReadIsExact
  <2> SUFFICES ASSUME IInv, Returned("read"), Len(buf) = req.count, Range(req) \cap RDenied = {}
               PROVE  \A j \in 1 .. req.count : buf[j] = flash[req.fla + j - 1]
    BY DEF FullReadIsExact
  <2>1. ReqOK BY ReqFacts DEF IInv
  <2>2. off = req.count
    BY <2>1 DEF IInv, TypeOK, Control, Returned, ReqOK
  <2> QED BY <2>2 DEF IInv, ReadInv, Clean, Returned
<1> QED BY <1>1, Invariance, PTL

\* A True result of erase_spi_block means exactly that block was erased.
THEOREM EraseCorrect == Spec => []EraseOkIsErased
<1>1. IInv => EraseOkIsErased
  BY DEF IInv, EraseInv, Clean, Returned, EraseOkIsErased, Erased
<1> QED BY <1>1, Invariance, PTL
=============================================================================
