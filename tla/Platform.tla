------------------------------- MODULE Platform -------------------------------
(***************************************************************************)
(* The parts of chipsec between its command line and the devices: commands, *)
(* platform detection and configuration, register and BAR access, the tests *)
(* of registers, of every thread and of the flash ranges, tests that modify *)
(* variables, walks over tables and edits of firmware images.  chipsec is   *)
(* single-threaded and these parts keep no state for each other, so a       *)
(* behaviour exercises one of them, which the initial state chooses; the    *)
(* variables of the others are parked.                                      *)
(***************************************************************************)
EXTENDS Integers, Sequences

CONSTANTS RegisterOthers,   \* writes of other agents to the registers
          Threads,          \* logical CPUs
          BarMoves,         \* how often a BAR is programmed again
          FlashPageSize, FlashMaxPage, FlashRanges,   \* the flash and its protected ranges
          WalkEntries, WalkExtra, WalkFill   \* sizes of the tables walked

ASSUME PlatformAssumption ==
  /\ RegisterOthers \in Nat /\ Threads \in Nat \ {0} /\ BarMoves \in Nat
  /\ FlashPageSize \in Nat \ {0} /\ FlashMaxPage \in Nat /\ FlashRanges \in Nat
  /\ WalkEntries \in Nat /\ WalkExtra \in Nat /\ WalkFill \in Nat

VARIABLES
  part,
  cRaw, cSkus, cReqPch, cCpuid, cArgs, cExplore, cPc, cCode, cDid, cPchCode, cLoadList, cRegisters,
  cBus, cLock, cHist, cOutcome,
  rKind, rChecking, rCells, rIdx, rCall, rPc, rTodo, rSub, rAcc, rVals, rRet, rSeen, rWritten,
  rOthers, rClobbered, rRef,
  kMod, kInput, kVerdict,
  bPc, bWp, bBios, bJ, bAreas, bCover, bResult, bRegion, bGuarded,
  tMod, tPlat, tPc, tCount, tTid, tSeen, tCtl, tAcc, tResults, tBits, tResult,
  pHdr, pKinds, pOriginal, pRegs, pCalc, pOff, pSize, pBars, pRom, pRomBefore, pArgs, pPc,
  mBar, mChecking, mPresent, mHw, mCaching, mCached, mHeld, mMoves, mLast,
  vTest, vOs, vModify, vListed, vEnabled, vVar, vStore, vPc, vTodo, vMissing, vWeak, vChanged,
  vVerdict, vTook, vRefused,
  wWalk, wEntries, wFill, wOff, wFound, wEnd,
  fCommand, fNewSize, fOriginal, fData, fPc, fFv, fImg, fOff, fChange, fEndOff,
  uReqs, uStyle, uSw, uPc, uDriver, uKnown, uExit, uRmmodFailed

cVars == <<cRaw, cSkus, cReqPch, cCpuid, cArgs, cExplore, cPc, cCode, cDid, cPchCode, cLoadList,
          cRegisters, cBus, cLock, cHist, cOutcome>>
rVars == <<rKind, rChecking, rCells, rIdx, rCall, rPc, rTodo, rSub, rAcc, rVals, rRet, rSeen,
          rWritten, rOthers, rClobbered, rRef>>
kVars == <<kMod, kInput, kVerdict>>
bVars == <<bPc, bWp, bBios, bJ, bAreas, bCover, bResult, bRegion, bGuarded>>
tVars == <<tMod, tPlat, tPc, tCount, tTid, tSeen, tCtl, tAcc, tResults, tBits, tResult>>
pVars == <<pHdr, pKinds, pOriginal, pRegs, pCalc, pOff, pSize, pBars, pRom, pRomBefore, pArgs, pPc>>
mVars == <<mBar, mChecking, mPresent, mHw, mCaching, mCached, mHeld, mMoves, mLast>>
vVars == <<vTest, vOs, vModify, vListed, vEnabled, vVar, vStore, vPc, vTodo, vMissing, vWeak,
          vChanged, vVerdict, vTook, vRefused>>
wVars == <<wWalk, wEntries, wFill, wOff, wFound, wEnd>>
fVars == <<fCommand, fNewSize, fOriginal, fData, fPc, fFv, fImg, fOff, fChange, fEndOff>>
uVars == <<uReqs, uStyle, uSw, uPc, uDriver, uKnown, uExit, uRmmodFailed>>
vars  == <<part, cVars, rVars, kVars, bVars, tVars, pVars, mVars, vVars, wVars, fVars, uVars>>

Config == INSTANCE PlatformConfig WITH
  raw <- cRaw, skus <- cSkus, reqPch <- cReqPch, cpuid <- cCpuid, args <- cArgs,
  explore <- cExplore, pc <- cPc, code <- cCode, did <- cDid, pchCode <- cPchCode,
  loadList <- cLoadList, registers <- cRegisters, bus <- cBus, lock <- cLock, hist <- cHist,
  outcome <- cOutcome

Registers == INSTANCE RegisterAccess WITH
  MaxOthers <- RegisterOthers, kind <- rKind, checking <- rChecking, cells <- rCells, idx <- rIdx,
  call <- rCall, pc <- rPc, todo <- rTodo, sub <- rSub, acc <- rAcc, vals <- rVals, ret <- rRet,
  seen <- rSeen, written <- rWritten, others <- rOthers, clobbered <- rClobbered, ref <- rRef

Checks == INSTANCE RegisterChecks WITH
  mod <- kMod, input <- kInput, verdict <- kVerdict

BiosWp == INSTANCE BiosWriteProtection WITH
  PageSize <- FlashPageSize, MaxPage <- FlashMaxPage, PRCount <- FlashRanges, pc <- bPc, wp <- bWp,
  bios <- bBios, j <- bJ, areas <- bAreas, cover <- bCover, result <- bResult, region <- bRegion,
  guarded <- bGuarded

PerThread == INSTANCE ThreadChecks WITH
  N <- Threads, mod <- tMod, plat <- tPlat, pc <- tPc, count <- tCount, tid <- tTid, seen <- tSeen,
  ctl <- tCtl, acc <- tAcc, results <- tResults, bits <- tBits, result <- tResult

Bars == INSTANCE PciBars WITH
  hdr <- pHdr, kinds <- pKinds, original <- pOriginal, regs <- pRegs, bCalcSize <- pCalc,
  off <- pOff, size <- pSize, bars <- pBars, rom <- pRom, romBefore <- pRomBefore,
  args <- pArgs, pc <- pPc

Ranges == INSTANCE MmioBars WITH
  MaxMoves <- BarMoves, bar <- mBar, checking <- mChecking, present <- mPresent, hw <- mHw,
  cache_bar_addresses_resolution <- mCaching, cached_bar_addresses <- mCached, held <- mHeld,
  moves <- mMoves, last <- mLast

Variables == INSTANCE VariableTests WITH
  test <- vTest, os <- vOs, modify <- vModify, listed <- vListed, enabled <- vEnabled,
  var <- vVar, store <- vStore, pc <- vPc, todo <- vTodo, missing <- vMissing, weak <- vWeak,
  changed <- vChanged, verdict <- vVerdict, took <- vTook, refused <- vRefused

Walks == INSTANCE TableWalks WITH
  walk <- wWalk, entries <- wEntries, fill <- wFill, off <- wOff, found <- wFound, end <- wEnd,
  MaxEntries <- WalkEntries, MaxExtra <- WalkExtra, MaxFill <- WalkFill

Edit == INSTANCE FirmwareEdit WITH
  command <- fCommand, newSize <- fNewSize, original <- fOriginal, data <- fData, pc <- fPc,
  fv <- fFv, img <- fImg, off <- fOff, change <- fChange, endOff <- fEndOff

Util == INSTANCE ChipsecUtil WITH
  reqs <- uReqs, style <- uStyle, sw <- uSw, pc <- uPc, driver <- uDriver, known <- uKnown,
  exit <- uExit, rmmodFailed <- uRmmodFailed

Parked == 0
ParkConfig ==
  /\ cRaw = Parked /\ cSkus = Parked /\ cReqPch = Parked /\ cCpuid = Parked /\ cArgs = Parked
  /\ cExplore = Parked /\ cPc = Parked /\ cCode = Parked /\ cDid = Parked /\ cPchCode = Parked
  /\ cLoadList = Parked /\ cRegisters = Parked /\ cBus = Parked /\ cLock = Parked
  /\ cHist = Parked /\ cOutcome = Parked
ParkRegisters ==
  /\ rKind = Parked /\ rChecking = Parked /\ rCells = Parked /\ rIdx = Parked /\ rCall = Parked
  /\ rPc = Parked /\ rTodo = Parked /\ rSub = Parked /\ rAcc = Parked /\ rVals = Parked
  /\ rRet = Parked /\ rSeen = Parked /\ rWritten = Parked /\ rOthers = Parked
  /\ rClobbered = Parked /\ rRef = Parked
ParkChecks ==
  /\ kMod = Parked /\ kInput = Parked /\ kVerdict = Parked
ParkBios ==
  /\ bPc = Parked /\ bWp = Parked /\ bBios = Parked /\ bJ = Parked /\ bAreas = Parked
  /\ bCover = Parked /\ bResult = Parked /\ bRegion = Parked /\ bGuarded = Parked
ParkThreads ==
  /\ tMod = Parked /\ tPlat = Parked /\ tPc = Parked /\ tCount = Parked /\ tTid = Parked
  /\ tSeen = Parked /\ tCtl = Parked /\ tAcc = Parked /\ tResults = Parked /\ tBits = Parked
  /\ tResult = Parked
ParkBars ==
  /\ pHdr = Parked /\ pKinds = Parked /\ pOriginal = Parked /\ pRegs = Parked /\ pCalc = Parked
  /\ pOff = Parked /\ pSize = Parked /\ pBars = Parked /\ pRom = Parked /\ pRomBefore = Parked
  /\ pArgs = Parked /\ pPc = Parked
ParkRanges ==
  /\ mBar = Parked /\ mChecking = Parked /\ mPresent = Parked /\ mHw = Parked
  /\ mCaching = Parked /\ mCached = Parked /\ mHeld = Parked /\ mMoves = Parked /\ mLast = Parked
ParkVariables ==
  /\ vTest = Parked /\ vOs = Parked /\ vModify = Parked /\ vListed = Parked /\ vEnabled = Parked
  /\ vVar = Parked /\ vStore = Parked /\ vPc = Parked /\ vTodo = Parked /\ vMissing = Parked
  /\ vWeak = Parked /\ vChanged = Parked /\ vVerdict = Parked /\ vTook = Parked
  /\ vRefused = Parked
ParkWalks ==
  /\ wWalk = Parked /\ wEntries = Parked /\ wFill = Parked /\ wOff = Parked /\ wFound = Parked
  /\ wEnd = Parked
ParkEdit ==
  /\ fCommand = Parked /\ fNewSize = Parked /\ fOriginal = Parked /\ fData = Parked
  /\ fPc = Parked /\ fFv = Parked /\ fImg = Parked /\ fOff = Parked /\ fChange = Parked
  /\ fEndOff = Parked
ParkUtil ==
  /\ uReqs = Parked /\ uStyle = Parked /\ uSw = Parked /\ uPc = Parked /\ uDriver = Parked
  /\ uKnown = Parked /\ uExit = Parked /\ uRmmodFailed = Parked

Init ==
  /\ part \in {"config", "registers", "checks", "bios", "threads", "bars", "ranges", "variables",
              "walks", "edit", "util"}
  /\ IF part = "config" THEN Config!Init ELSE ParkConfig
  /\ IF part = "registers" THEN Registers!Init ELSE ParkRegisters
  /\ IF part = "checks" THEN Checks!Init ELSE ParkChecks
  /\ IF part = "bios" THEN BiosWp!Init ELSE ParkBios
  /\ IF part = "threads" THEN PerThread!Init ELSE ParkThreads
  /\ IF part = "bars" THEN Bars!Init ELSE ParkBars
  /\ IF part = "ranges" THEN Ranges!Init ELSE ParkRanges
  /\ IF part = "variables" THEN Variables!Init ELSE ParkVariables
  /\ IF part = "walks" THEN Walks!Init ELSE ParkWalks
  /\ IF part = "edit" THEN Edit!Init ELSE ParkEdit
  /\ IF part = "util" THEN Util!Init ELSE ParkUtil

ConfigNext ==
  /\ part = "config" /\ Config!Next
  /\ UNCHANGED <<part, rVars, kVars, bVars, tVars, pVars, mVars, vVars, wVars, fVars, uVars>>
RegistersNext ==
  /\ part = "registers" /\ Registers!Next
  /\ UNCHANGED <<part, cVars, kVars, bVars, tVars, pVars, mVars, vVars, wVars, fVars, uVars>>
ChecksNext ==
  /\ part = "checks" /\ Checks!Next
  /\ UNCHANGED <<part, cVars, rVars, bVars, tVars, pVars, mVars, vVars, wVars, fVars, uVars>>
BiosNext ==
  /\ part = "bios" /\ BiosWp!Next
  /\ UNCHANGED <<part, cVars, rVars, kVars, tVars, pVars, mVars, vVars, wVars, fVars, uVars>>
ThreadsNext ==
  /\ part = "threads" /\ PerThread!Next
  /\ UNCHANGED <<part, cVars, rVars, kVars, bVars, pVars, mVars, vVars, wVars, fVars, uVars>>
BarsNext ==
  /\ part = "bars" /\ Bars!Next
  /\ UNCHANGED <<part, cVars, rVars, kVars, bVars, tVars, mVars, vVars, wVars, fVars, uVars>>
RangesNext ==
  /\ part = "ranges" /\ Ranges!Next
  /\ UNCHANGED <<part, cVars, rVars, kVars, bVars, tVars, pVars, vVars, wVars, fVars, uVars>>
VariablesNext ==
  /\ part = "variables" /\ Variables!Next
  /\ UNCHANGED <<part, cVars, rVars, kVars, bVars, tVars, pVars, mVars, wVars, fVars, uVars>>
WalksNext ==
  /\ part = "walks" /\ Walks!Next
  /\ UNCHANGED <<part, cVars, rVars, kVars, bVars, tVars, pVars, mVars, vVars, fVars, uVars>>
EditNext ==
  /\ part = "edit" /\ Edit!Next
  /\ UNCHANGED <<part, cVars, rVars, kVars, bVars, tVars, pVars, mVars, vVars, wVars, uVars>>
UtilNext ==
  /\ part = "util" /\ Util!Next
  /\ UNCHANGED <<part, cVars, rVars, kVars, bVars, tVars, pVars, mVars, vVars, wVars, fVars>>

Next == ConfigNext \/ RegistersNext \/ ChecksNext \/ BiosNext \/ ThreadsNext \/ BarsNext
        \/ RangesNext \/ VariablesNext \/ WalksNext \/ EditNext \/ UtilNext

Spec == Init /\ [][Next]_vars

\* RegisterAccess: a register write changes the named field and nothing else, in every instance
\* it reports as written, and a read returns the named field (register.py:490).
RegistersExact == part = "registers" => Registers!WritesExact /\ Registers!ReadsExact

\* PlatformConfig: the processor and PCH found are those asked for, or fit what was enumerated
\* (config.py:207).
DetectionSound == part = "config" => Config!DetectionSound

\* PlatformConfig: later files override earlier ones entry by entry and field by field
\* (core_parsers.py:220).
ConfigIsReference == part = "config" => Config!ConfigIsReference

\* RegisterChecks: a module passes only with all of its protections, and no protection makes a
\* verdict worse.
ChecksSound == part = "checks" => Checks!ChecksSound

\* BiosWriteProtection: at every turn of the loop the areas left are the bytes of the BIOS region
\* that no enabled protected range covers, each once (bios_wp.py:114).
AreasExact == part = "bios" => BiosWp!AreasExact

\* BiosWriteProtection: the test passes exactly when SMM protection is on or the ranges together
\* cover every byte of a BIOS region that is there (the note at bios_wp.py:56).
PassedIffProtected == part = "bios" => BiosWp!PassedIffProtected

\* BiosWriteProtection: "write-protect parts of BIOS region" and "None of the SPI protected ranges
\* write-protect BIOS region" are said exactly when they are true (bios_wp.py:131).
MessageIsTrue == part = "bios" => BiosWp!MessageIsTrue

\* ThreadChecks: the verdict over all threads is what they amount to together, whatever their
\* order (memlock.py:82).
VerdictIsReference == part = "threads" => PerThread!VerdictIsReference

\* ThreadChecks: a module passes only after it has looked at every thread, or, where spectre_v2
\* had no count, at the one it supposes (spectre_v2.py:162).
PassedAfterAllThreads == part = "threads" => PerThread!PassedAfterAllThreads

\* RegisterChecks, ThreadChecks: the status kept for -rc agrees with the verdict returned.
StatusMatchesVerdict ==
  /\ part = "checks" => Checks!StatusMatchesVerdict
  /\ part = "threads" => PerThread!StatusAgrees

\* PciBars: enumerating BARs reports what is there and leaves it as it was, up to the first 32-bit
\* BAR that is sized; a ROM decodes only where it was told to (pci.py:424, pci.py:347).
BarsExact == part = "bars" => Bars!BarsExact

\* PciBars: sizing puts every register back (pci.py:442, "Write original value back to register").
BarsRestored == part = "bars" => Bars!BarsRestored

\* MmioBars: an access goes to where its range has been since the cache of addresses was last
\* empty, and is refused only if it was nowhere (mmio.py:191).
AccessesFresh == part = "ranges" => Ranges!AccessesFresh

\* VariableTests: what was modified is put back (variables.py:97).
VariablesRestored == part = "variables" => Variables!VariablesRestored

\* VariableTests: a test passes only if nothing it guards could be modified.
ModifyVerdictSound == part = "variables" => Variables!ModifyVerdictSound

\* TableWalks: walks end, stay on the entries' boundaries and report every entry.
WalksExact == part = "walks" => Walks!WalksExact


\* ChipsecUtil: a command runs only with what it requires, and its process leaves no driver
\* (chipsec_util.py:174).
CommandsPrepared == part = "util" => Util!CommandsPrepared

\* TableWalks: listing a variable store reports all of its variables but the empty ones
\* (uefi_platform.py:704).
EveryVariableReported == part = "walks" => Walks!EveryVariableReported
=============================================================================
