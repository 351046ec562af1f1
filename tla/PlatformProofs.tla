--------------------------- MODULE PlatformProofs ---------------------------
(***************************************************************************)
(* Proofs about Platform.  A behaviour is one of a single part, so that an  *)
(* invariant of a part's own module is one of Platform; the parts whose     *)
(* proofs are short have theirs here, ThreadChecks and BiosWriteProtection  *)
(* have modules of their own.                                               *)
(***************************************************************************)
EXTENDS Platform, WellFoundedInduction, TLAPS

ThreadProofs == INSTANCE ThreadChecksProofs WITH
  N <- Threads, mod <- tMod, plat <- tPlat, pc <- tPc, count <- tCount, tid <- tTid, seen <- tSeen,
  ctl <- tCtl, acc <- tAcc, results <- tResults, bits <- tBits, result <- tResult

BiosProofs == INSTANCE BiosWriteProtectionProofs WITH
  PageSize <- FlashPageSize, MaxPage <- FlashMaxPage, PRCount <- FlashRanges, pc <- bPc, wp <- bWp,
  bios <- bBios, j <- bJ, areas <- bAreas, cover <- bCover, result <- bResult, region <- bRegion,
  guarded <- bGuarded

\* What a step of the whole is for the part that the behaviour is about.
LEMMA PartStays == ASSUME [Next]_vars PROVE part' = part
BY DEF Next, vars, ConfigNext, RegistersNext, ChecksNext, BiosNext, ThreadsNext, BarsNext, RangesNext,
       VariablesNext, WalksNext, EditNext, UtilNext

LEMMA OnlyConfig ==
  ASSUME [Next]_vars, part = "config"
  PROVE  [Config!Next]_(Config!vars)
<1>1. CASE ConfigNext
  BY <1>1 DEF ConfigNext
<1>2. CASE UNCHANGED vars
  <2>1. UNCHANGED cVars
    BY <1>2 DEF vars
  <2> QED
    BY <2>1 DEF cVars, Config!vars
<1>3. ~ConfigNext => UNCHANGED vars
  BY DEF Next, ConfigNext, RegistersNext, ChecksNext, BiosNext, ThreadsNext, BarsNext, RangesNext,
       VariablesNext, WalksNext, EditNext, UtilNext
<1> QED
  BY <1>1, <1>2, <1>3

LEMMA OnlyRegisters ==
  ASSUME [Next]_vars, part = "registers"
  PROVE  [Registers!Next]_(Registers!vars)
<1>1. CASE RegistersNext
  BY <1>1 DEF RegistersNext
<1>2. CASE UNCHANGED vars
  <2>1. UNCHANGED rVars
    BY <1>2 DEF vars
  <2> QED
    BY <2>1 DEF rVars, Registers!vars
<1>3. ~RegistersNext => UNCHANGED vars
  BY DEF Next, ConfigNext, RegistersNext, ChecksNext, BiosNext, ThreadsNext, BarsNext, RangesNext,
       VariablesNext, WalksNext, EditNext, UtilNext
<1> QED
  BY <1>1, <1>2, <1>3

LEMMA OnlyChecks ==
  ASSUME [Next]_vars, part = "checks"
  PROVE  [Checks!Next]_(Checks!vars)
<1>1. CASE ChecksNext
  BY <1>1 DEF ChecksNext
<1>2. CASE UNCHANGED vars
  <2>1. UNCHANGED kVars
    BY <1>2 DEF vars
  <2> QED
    BY <2>1 DEF kVars, Checks!vars
<1>3. ~ChecksNext => UNCHANGED vars
  BY DEF Next, ConfigNext, RegistersNext, ChecksNext, BiosNext, ThreadsNext, BarsNext, RangesNext,
       VariablesNext, WalksNext, EditNext, UtilNext
<1> QED
  BY <1>1, <1>2, <1>3

LEMMA OnlyPerThread ==
  ASSUME [Next]_vars, part = "threads"
  PROVE  [PerThread!Next]_(PerThread!vars)
<1>1. CASE ThreadsNext
  BY <1>1 DEF ThreadsNext
<1>2. CASE UNCHANGED vars
  <2>1. UNCHANGED tVars
    BY <1>2 DEF vars
  <2> QED
    BY <2>1 DEF tVars, PerThread!vars
<1>3. ~ThreadsNext => UNCHANGED vars
  BY DEF Next, ConfigNext, RegistersNext, ChecksNext, BiosNext, ThreadsNext, BarsNext, RangesNext,
       VariablesNext, WalksNext, EditNext, UtilNext
<1> QED
  BY <1>1, <1>2, <1>3

LEMMA OnlyBios ==
  ASSUME [Next]_vars, part = "bios"
  PROVE  [BiosWp!Next]_(BiosWp!vars)
<1>1. CASE BiosNext
  BY <1>1 DEF BiosNext
<1>2. CASE UNCHANGED vars
  <2>1. UNCHANGED bVars
    BY <1>2 DEF vars
  <2> QED
    BY <2>1 DEF bVars, BiosWp!vars
<1>3. ~BiosNext => UNCHANGED vars
  BY DEF Next, ConfigNext, RegistersNext, ChecksNext, BiosNext, ThreadsNext, BarsNext, RangesNext,
       VariablesNext, WalksNext, EditNext, UtilNext
<1> QED
  BY <1>1, <1>2, <1>3

LEMMA OnlyBars ==
  ASSUME [Next]_vars, part = "bars"
  PROVE  [Bars!Next]_(Bars!vars)
<1>1. CASE BarsNext
  BY <1>1 DEF BarsNext
<1>2. CASE UNCHANGED vars
  <2>1. UNCHANGED pVars
    BY <1>2 DEF vars
  <2> QED
    BY <2>1 DEF pVars, Bars!vars
<1>3. ~BarsNext => UNCHANGED vars
  BY DEF Next, ConfigNext, RegistersNext, ChecksNext, BiosNext, ThreadsNext, BarsNext, RangesNext,
       VariablesNext, WalksNext, EditNext, UtilNext
<1> QED
  BY <1>1, <1>2, <1>3

LEMMA OnlyRanges ==
  ASSUME [Next]_vars, part = "ranges"
  PROVE  [Ranges!Next]_(Ranges!vars)
<1>1. CASE RangesNext
  BY <1>1 DEF RangesNext
<1>2. CASE UNCHANGED vars
  <2>1. UNCHANGED mVars
    BY <1>2 DEF vars
  <2> QED
    BY <2>1 DEF mVars, Ranges!vars
<1>3. ~RangesNext => UNCHANGED vars
  BY DEF Next, ConfigNext, RegistersNext, ChecksNext, BiosNext, ThreadsNext, BarsNext, RangesNext,
       VariablesNext, WalksNext, EditNext, UtilNext
<1> QED
  BY <1>1, <1>2, <1>3

LEMMA OnlyVariables ==
  ASSUME [Next]_vars, part = "variables"
  PROVE  [Variables!Next]_(Variables!vars)
<1>1. CASE VariablesNext
  BY <1>1 DEF VariablesNext
<1>2. CASE UNCHANGED vars
  <2>1. UNCHANGED vVars
    BY <1>2 DEF vars
  <2> QED
    BY <2>1 DEF vVars, Variables!vars
<1>3. ~VariablesNext => UNCHANGED vars
  BY DEF Next, ConfigNext, RegistersNext, ChecksNext, BiosNext, ThreadsNext, BarsNext, RangesNext,
       VariablesNext, WalksNext, EditNext, UtilNext
<1> QED
  BY <1>1, <1>2, <1>3

LEMMA OnlyWalks ==
  ASSUME [Next]_vars, part = "walks"
  PROVE  [Walks!Next]_(Walks!vars)
<1>1. CASE WalksNext
  BY <1>1 DEF WalksNext
<1>2. CASE UNCHANGED vars
  <2>1. UNCHANGED wVars
    BY <1>2 DEF vars
  <2> QED
    BY <2>1 DEF wVars, Walks!vars
<1>3. ~WalksNext => UNCHANGED vars
  BY DEF Next, ConfigNext, RegistersNext, ChecksNext, BiosNext, ThreadsNext, BarsNext, RangesNext,
       VariablesNext, WalksNext, EditNext, UtilNext
<1> QED
  BY <1>1, <1>2, <1>3

LEMMA OnlyUtil ==
  ASSUME [Next]_vars, part = "util"
  PROVE  [Util!Next]_(Util!vars)
<1>1. CASE UtilNext
  BY <1>1 DEF UtilNext
<1>2. CASE UNCHANGED vars
  <2>1. UNCHANGED uVars
    BY <1>2 DEF vars
  <2> QED
    BY <2>1 DEF uVars, Util!vars
<1>3. ~UtilNext => UNCHANGED vars
  BY DEF Next, ConfigNext, RegistersNext, ChecksNext, BiosNext, ThreadsNext, BarsNext, RangesNext,
       VariablesNext, WalksNext, EditNext, UtilNext
<1> QED
  BY <1>1, <1>2, <1>3
-----------------------------------------------------------------------------
(***************************************************************************)
(* ChipsecUtil.  Where the process is tells what it has: a command that     *)
(* needs the driver has its own from the end of start_helper on, one whose  *)
(* configuration is known has it from prerun on, and ERROR before the end   *)
(* of main() comes from run() and is followed by tear_down.                 *)
(***************************************************************************)
Loaded == {"detect", "setup", "prerun", "run", "teardown"}
UtilInv ==
  /\ uDriver \in {"absent", "fresh", "stale"}
  /\ uPc \in {"start", "over", "unload", "insmod"} \cup Loaded
  /\ uPc \in Loaded /\ Util!load_driver(uReqs) => uDriver = "fresh"
  /\ uPc \in Loaded /\ ~Util!load_driver(uReqs) => uDriver # "fresh"
  /\ uPc \in {"start", "unload", "insmod"} => uDriver # "fresh"
  /\ uPc \in {"unload", "insmod"} => Util!load_driver(uReqs)
  /\ uPc = "run" /\ Util!load_config(uReqs) => uKnown
  /\ uPc = "over" /\ uExit \in {"OK", "ERROR"} /\ uDriver = "fresh" => uRmmodFailed

LEMMA UtilInit == Util!Init => UtilInv
BY DEF Util!Init, UtilInv, Loaded

\* Every step of main() keeps the invariant; NextCommand turns a driver that is left into a
\* stale one.
LEMMA UtilStep == UtilInv /\ [Util!Next]_(Util!vars) => UtilInv'
<1> SUFFICES ASSUME UtilInv, [Util!Next]_(Util!vars) PROVE UtilInv'
  OBVIOUS
<1> USE DEF UtilInv, Loaded, Util!Over, Util!Goes, Util!command
<1>1. CASE Util!Start
  BY <1>1 DEF Util!Start
<1>2. CASE Util!StartUnload
  BY <1>2 DEF Util!StartUnload, Util!Unload
<1>3. CASE Util!StartDriver
  BY <1>3 DEF Util!StartDriver
<1>4. CASE Util!Detect
  BY <1>4 DEF Util!Detect
<1>5. CASE Util!SetUp
  BY <1>5 DEF Util!SetUp
<1>6. CASE Util!Prerun
  BY <1>6 DEF Util!Prerun
<1>7. CASE Util!Run
  BY <1>7 DEF Util!Run
<1>8. CASE Util!TearDown
  BY <1>8 DEF Util!TearDown, Util!Unload
<1>9. CASE Util!NextCommand
  BY <1>9 DEF Util!NextCommand
<1>10. CASE UNCHANGED Util!vars
  BY <1>10 DEF Util!vars
<1> QED
  BY <1>1, <1>2, <1>3, <1>4, <1>5, <1>6, <1>7, <1>8, <1>9, <1>10 DEF Util!Next

\* A command runs only on its own process's driver and with a recognised platform's configuration,
\* as it requires, and a process that came to its last line leaves no driver unless rmmod failed,
\* over any sequence of processes (chipsec_util.py:150).
THEOREM Prepared == Spec => []CommandsPrepared
<1> DEFINE I == part = "util" => UtilInv
<1>1. Init => I
  BY UtilInit DEF Init
<1>2. I /\ [Next]_vars => I'
  BY PartStays, OnlyUtil, UtilStep
<1>3. I => CommandsPrepared
  BY DEF UtilInv, Loaded, CommandsPrepared, Util!CommandsPrepared
<1> QED
  BY <1>1, <1>2, <1>3, PTL DEF Spec
-----------------------------------------------------------------------------
(***************************************************************************)
(* ThreadChecks: the invariant of ThreadChecksProofs, which speaks of the   *)
(* same module under the same substitution.                                 *)
(***************************************************************************)
LEMMA SameThreads ==
  /\ PerThread!Init <=> ThreadProofs!Init
  /\ [PerThread!Next]_(PerThread!vars) <=> [ThreadProofs!Next]_(ThreadProofs!vars)
<1>1. PerThread!Init <=> ThreadProofs!Init
  BY DEF PerThread!Init, ThreadProofs!Init, PerThread!Modules, ThreadProofs!Modules,
       PerThread!Platforms, ThreadProofs!Platforms, PerThread!Vendors, ThreadProofs!Vendors
<1>2. PerThread!Next <=> ThreadProofs!Next
  BY DEF PerThread!Modules, ThreadProofs!Modules, PerThread!Platforms, ThreadProofs!Platforms,
       PerThread!Vendors, ThreadProofs!Vendors, PerThread!ThreadValues,
       ThreadProofs!ThreadValues, PerThread!SpecCtrls, ThreadProofs!SpecCtrls, PerThread!Counts,
       ThreadProofs!Counts, PerThread!Begin, ThreadProofs!Begin, PerThread!Turn,
       ThreadProofs!Turn, PerThread!InLoop, ThreadProofs!InLoop,
       PerThread!check_MSR_LT_LOCK_MEMORY, ThreadProofs!check_MSR_LT_LOCK_MEMORY,
       PerThread!check_ia32feature_control, ThreadProofs!check_ia32feature_control,
       PerThread!check_untrusted, ThreadProofs!check_untrusted, PerThread!ArchCapabilities,
       ThreadProofs!ArchCapabilities, PerThread!SpecCtrlBegin, ThreadProofs!SpecCtrlBegin,
       PerThread!SpecCtrl, ThreadProofs!SpecCtrl, PerThread!AmdSpecCtrl,
       ThreadProofs!AmdSpecCtrl, PerThread!CodeChk, ThreadProofs!CodeChk,
       PerThread!check_SMM_Code_Chk_En, ThreadProofs!check_SMM_Code_Chk_En, PerThread!DebugFound,
       ThreadProofs!DebugFound, PerThread!check_cpu_debug_enable,
       ThreadProofs!check_cpu_debug_enable, PerThread!check_SMRR, ThreadProofs!check_SMRR,
       PerThread!ReadRaises, ThreadProofs!ReadRaises, PerThread!Returns, ThreadProofs!Returns,
       PerThread!Deciding, ThreadProofs!Deciding, PerThread!MemlockDecides,
       ThreadProofs!MemlockDecides, PerThread!LocksDecide, ThreadProofs!LocksDecide,
       PerThread!SpectreHardware, ThreadProofs!SpectreHardware, PerThread!SpectreDecides,
       ThreadProofs!SpectreDecides, PerThread!AmdDecides, ThreadProofs!AmdDecides,
       PerThread!CodeChkDecides, ThreadProofs!CodeChkDecides, PerThread!DebugDecides,
       ThreadProofs!DebugDecides, PerThread!SmrrDecides, ThreadProofs!SmrrDecides,
       PerThread!ReadThread, ThreadProofs!ReadThread, PerThread!Decide, ThreadProofs!Decide,
       PerThread!Next, ThreadProofs!Next
<1>3. UNCHANGED PerThread!vars <=> UNCHANGED ThreadProofs!vars
  BY DEF PerThread!vars, ThreadProofs!vars
<1> QED
  BY <1>1, <1>2, <1>3

ThreadsInv == part = "threads" => ThreadProofs!Inv

LEMMA ThreadsInvariance == Spec => []ThreadsInv
<1>0. Threads \in Nat \ {0}
  BY PlatformAssumption
<1>1. Init => ThreadsInv
  BY <1>0, SameThreads, ThreadProofs!InvInit DEF Init, ThreadsInv
<1>2. ThreadsInv /\ [Next]_vars => ThreadsInv'
  BY <1>0, PartStays, OnlyPerThread, SameThreads, ThreadProofs!InvStep DEF ThreadsInv
<1> QED
  BY <1>1, <1>2, PTL DEF Spec

\* Whatever the number of threads and the order of their values, the verdict of each module is the
\* one its registers amount to together; for spectre_v2 it is the table over its final decision
\* (debugenabled.py:145, memlock.py:83, spectre_v2.py:251).
THEOREM ThreadVerdicts == Spec => []VerdictIsReference
<1>1. ThreadsInv => VerdictIsReference
  BY DEF ThreadsInv, ThreadProofs!Inv, VerdictIsReference, PerThread!VerdictIsReference,
       ThreadProofs!VerdictIsReference, PerThread!Over, ThreadProofs!Over, PerThread!OnAmd,
       ThreadProofs!OnAmd, PerThread!NoSmrr, ThreadProofs!NoSmrr, PerThread!Reference,
       ThreadProofs!Reference, PerThread!Some, ThreadProofs!Some
<1> QED
  BY <1>1, ThreadsInvariance, PTL

\* Whatever the number of threads, a module passes only after it has looked at every one of them,
\* spectre_v2 on Intel at both registers (spectre_v2.py:217) and, where it had no count
\* (spectre_v2.py:162), at the one thread it supposes.
THEOREM ThreadsAllSeen == Spec => []PassedAfterAllThreads
<1>1. ThreadsInv => PassedAfterAllThreads
  BY DEF ThreadsInv, ThreadProofs!Inv, PassedAfterAllThreads, PerThread!PassedAfterAllThreads,
       ThreadProofs!PassedAfterAllThreads, PerThread!Over, ThreadProofs!Over, PerThread!OnAmd,
       ThreadProofs!OnAmd, PerThread!OnRetpoline, ThreadProofs!OnRetpoline, PerThread!Uncounted,
       ThreadProofs!Uncounted
<1> QED
  BY <1>1, ThreadsInvariance, PTL
-----------------------------------------------------------------------------
(***************************************************************************)
(* BiosWriteProtection: the invariant of BiosWriteProtectionProofs, for     *)
(* every page size, flash size and number of protected ranges.              *)
(***************************************************************************)
LEMMA SameBios ==
  /\ BiosWp!Init <=> BiosProofs!Init
  /\ [BiosWp!Next]_(BiosWp!vars) <=> [BiosProofs!Next]_(BiosProofs!vars)
<1>1. BiosWp!Init <=> BiosProofs!Init
  BY DEF BiosWp!Init, BiosProofs!Init, BiosWp!Interval, BiosProofs!Interval
<1>2. BiosWp!Next <=> BiosProofs!Next
  BY DEF BiosWp!Next, BiosProofs!Next, BiosWp!Controls, BiosProofs!Controls, BiosWp!FREG,
       BiosProofs!FREG, BiosWp!PR, BiosProofs!PR, BiosWp!Page, BiosProofs!Page, BiosWp!Interval,
       BiosProofs!Interval, BiosWp!ReadFails, BiosProofs!ReadFails,
       BiosWp!check_BIOS_write_protection, BiosProofs!check_BIOS_write_protection,
       BiosWp!RegionOf, BiosProofs!RegionOf, BiosWp!ReadRegion, BiosProofs!ReadRegion,
       BiosWp!RangeOf, BiosProofs!RangeOf, BiosWp!Carve, BiosProofs!Carve, BiosWp!ReadRange,
       BiosProofs!ReadRange, BiosWp!Verdict, BiosProofs!Verdict, BiosWp!CoverMessage,
       BiosProofs!CoverMessage, BiosWp!Conclude, BiosProofs!Conclude
<1>3. UNCHANGED BiosWp!vars <=> UNCHANGED BiosProofs!vars
  BY DEF BiosWp!vars, BiosProofs!vars
<1> QED
  BY <1>1, <1>2, <1>3

LEMMA FlashSizes == BiosProofs!Sizes
BY PlatformAssumption DEF BiosProofs!Sizes

BiosInv == part = "bios" => BiosProofs!Inv

LEMMA BiosInvariance == Spec => []BiosInv
<1>1. Init => BiosInv
  BY SameBios, FlashSizes, BiosProofs!InvInit DEF Init, BiosInv
<1>2. BiosInv /\ [Next]_vars => BiosInv'
  BY PartStays, OnlyBios, SameBios, FlashSizes, BiosProofs!InvStep DEF BiosInv
<1> QED
  BY <1>1, <1>2, PTL DEF Spec

LEMMA SameFlash ==
  /\ BiosWp!AreasExact <=> BiosProofs!AreasExact
  /\ BiosWp!PassedIffProtected <=> BiosProofs!PassedIffProtected
  /\ BiosWp!MessageIsTrue <=> BiosProofs!MessageIsTrue
<1> USE DEF BiosWp!Flash, BiosProofs!Flash, BiosWp!InBios, BiosProofs!InBios, BiosWp!Guarded,
            BiosProofs!Guarded, BiosWp!Covered, BiosProofs!Covered, BiosWp!Inside, BiosProofs!Inside
<1>1. BiosWp!AreasExact <=> BiosProofs!AreasExact
  BY DEF BiosWp!AreasExact, BiosProofs!AreasExact
<1>2. BiosWp!PassedIffProtected <=> BiosProofs!PassedIffProtected
  BY DEF BiosWp!PassedIffProtected, BiosProofs!PassedIffProtected
<1>3. BiosWp!MessageIsTrue <=> BiosProofs!MessageIsTrue
  BY DEF BiosWp!MessageIsTrue, BiosProofs!MessageIsTrue
<1> QED
  BY <1>1, <1>2, <1>3

\* The list of areas is exact after every range, however ranges overlap, touch, nest or are given
\* twice, for every number of them and every size of page and flash (bios_wp.py:114).
THEOREM AreasCorrect == Spec => []AreasExact
<1>1. BiosInv => AreasExact
  BY SameFlash, BiosProofs!InvAreas DEF BiosInv, AreasExact
<1> QED
  BY <1>1, BiosInvariance, PTL

\* The verdict of bios_wp is right for every content of the registers: it passes exactly when SMM
\* protects the region or the ranges together cover it (bios_wp.py:165).
THEOREM FlashVerdict == Spec => []PassedIffProtected
<1>1. BiosInv => PassedIffProtected
  BY SameFlash, FlashSizes, BiosProofs!InvVerdict DEF BiosInv, PassedIffProtected
<1> QED
  BY <1>1, BiosInvariance, PTL

\* The message on the ranges is true for every content of the registers (bios_wp.py:131).
THEOREM FlashMessage == Spec => []MessageIsTrue
<1>1. BiosInv => MessageIsTrue
  BY SameFlash, FlashSizes, BiosProofs!InvMessage DEF BiosInv, MessageIsTrue
<1> QED
  BY <1>1, BiosInvariance, PTL
-----------------------------------------------------------------------------
(***************************************************************************)
(* VariableTests.  Outside of can_modify a variable is as it was found, or  *)
(* its restoring write was refused, or it is one that access_uefispec       *)
(* deletes; one that took a modification has been counted; a variable that  *)
(* was passed has had its attributes checked.                               *)
(***************************************************************************)
Deleted(v) == vTest = "uefispec" /\ vVar[v].data = "ioerror"
InHand(v) == vPc \in {"modify", "compare", "restore"} /\ v = vTodo[1]
Passed(v) == vPc \notin {"start", "end"} /\ (vTodo = <<>> \/ (v = 1 /\ vTodo = <<2>>))
PutBack(v) == vStore[v] = 0 \/ v \in vRefused \/ Deleted(v)
Counted(v) == v \in vTook => v \in vChanged \/ Deleted(v)
Looked(v) == /\ vVar[v].there = "one" /\ Variables!Checked(v) => Variables!AttrsOf(v) \in vWeak
             /\ v = 1 /\ vTest = "secureboot" /\ vVar[v].there # "one" => vMissing

VariablesInv ==
  /\ vTest \in {"secureboot", "uefispec", "rtclock"}
  /\ vPc \in {"start", "next", "modify", "compare", "restore", "end"}
  /\ vTodo \in {<<>>, <<1, 2>>, <<2>>} /\ DOMAIN vStore = {1, 2}
  /\ vPc \in {"modify", "compare", "restore"} => vTodo # <<>>
  /\ vPc = "start" => vTook = {}
  /\ vPc # "end" => vVerdict = "none"
  /\ \A v \in {1, 2} :
       /\ InHand(v) => Variables!Attempt(v) \in {"write", "delete"} /\ vVar[v].there = "one"
       /\ InHand(v) \/ Passed(v) => Looked(v)
       /\ PutBack(v) \/ vVerdict = "raised" \/ (InHand(v) /\ vPc # "modify")
       /\ Counted(v) \/ vVerdict = "raised" \/ (InHand(v) /\ vPc = "compare" /\ vStore[v] # 0)
  /\ Variables!ModifyVerdictSound

LEMMA VariablesInit == Variables!Init => VariablesInv
<1> SUFFICES ASSUME Variables!Init PROVE VariablesInv
  OBVIOUS
<1>1. \A v \in {1, 2} : ~InHand(v) /\ ~Passed(v) /\ PutBack(v) /\ Counted(v)
  BY DEF Variables!Init, Variables!V, Variables!Original, InHand, Passed, PutBack, Counted
<1>2. Variables!ModifyVerdictSound
  BY DEF Variables!Init, Variables!ModifyVerdictSound
<1> QED
  BY <1>1, <1>2 DEF Variables!Init, VariablesInv, Variables!V, Variables!Original

\* No step changes what the test was given, so that what it would do with a variable stays.
LEMMA SameInputs ==
  ASSUME UNCHANGED Variables!inputs, NEW v
  PROVE  /\ Variables!Attempt(v)' = Variables!Attempt(v) /\ Variables!Checked(v)' = Variables!Checked(v)
         /\ Variables!AttrsOf(v)' = Variables!AttrsOf(v) /\ (Deleted(v)' <=> Deleted(v))
         /\ Variables!Guarded' = Variables!Guarded
         /\ vTest' = vTest /\ vVar' = vVar /\ vModify' = vModify /\ vOs' = vOs /\ vListed' = vListed
BY DEF Variables!inputs, Variables!Attempt, Variables!Checked, Variables!AttrsOf, Deleted,
       Variables!Guarded

LEMMA TodoTails ==
  /\ Tail(<<1, 2>>) = <<2>> /\ Tail(<<2>>) = <<>> /\ <<1, 2>>[1] = 1 /\ <<2>>[1] = 2
  /\ <<1, 2>> # <<>> /\ <<2>> # <<>> /\ <<1, 2>> # <<2>>
<1>1. <<1, 2>>[1] = 1 /\ <<2>>[1] = 2
  OBVIOUS
<1>2. Tail(<<1, 2>>) = <<2>> /\ Tail(<<2>>) = <<>>
  OBVIOUS
<1>3. <<1, 2>> # <<2>>
  BY <1>1
<1> QED
  BY <1>1, <1>2, <1>3

LEMMA DeleteIsDeleted == \A v : Variables!Attempt(v) = "delete" => Deleted(v)
BY DEF Variables!Attempt, Deleted

\* A step that ends the test keeps what holds of every variable.
LEMMA EndKeeps ==
  ASSUME VariablesInv, UNCHANGED <<Variables!inputs, vStore, vChanged, vTook, vRefused>>,
         vPc' = "end", vTodo' = <<>>, Variables!ModifyVerdictSound',
         vVerdict' = "raised" \/ vPc \in {"start", "next"}
  PROVE  VariablesInv'
<1>1. ASSUME NEW v \in {1, 2}
      PROVE  /\ ~InHand(v)' /\ ~Passed(v)' /\ (PutBack(v)' <=> PutBack(v))
             /\ (Counted(v)' <=> Counted(v))
  BY SameInputs DEF InHand, Passed, PutBack, Counted
<1>2. ASSUME NEW v \in {1, 2} PROVE Counted(v) \/ vVerdict' = "raised"
  BY DEF VariablesInv, InHand
<1>3. ASSUME NEW v \in {1, 2} PROVE PutBack(v) \/ vVerdict' = "raised"
  BY DEF VariablesInv, InHand
<1> QED
  BY <1>1, <1>2, <1>3, SameInputs DEF VariablesInv

\* Before the first variable nothing was modified; without a list rtclock passes if both banks are
\* locked, and has nothing else to check.
LEMMA StartKeeps == VariablesInv /\ Variables!Start => VariablesInv'
<1> SUFFICES ASSUME VariablesInv, Variables!Start PROVE VariablesInv'
  OBVIOUS
<1>1. UNCHANGED <<Variables!inputs, vStore, vMissing, vWeak, vChanged, vTook, vRefused>> /\ vPc = "start"
  BY DEF Variables!Start
<1>2. vTook = {} /\ vVerdict = "none"
  BY <1>1 DEF VariablesInv
<1>3. CASE vPc' = "next" /\ vTodo' = <<1, 2>> /\ vVerdict' = vVerdict
  <2>1. \A v \in {1, 2} : ~InHand(v)' /\ ~Passed(v)' /\ PutBack(v) /\ (PutBack(v)' <=> PutBack(v)) /\ Counted(v)'
    BY <1>1, <1>2, <1>3, TodoTails, SameInputs DEF VariablesInv, InHand, Passed, PutBack, Counted
  <2>2. Variables!ModifyVerdictSound'
    BY <1>2, <1>3 DEF Variables!ModifyVerdictSound
  <2> QED
    BY <1>1, <1>2, <1>3, <2>1, <2>2, SameInputs DEF VariablesInv
<1>4. CASE \E r : Variables!End(r) /\ (r = "PASSED" => vTest = "rtclock")
  <2>1. Variables!ModifyVerdictSound'
    BY <1>1, <1>2, <1>4, SameInputs DEF Variables!ModifyVerdictSound, Variables!End, Variables!Checked
  <2> QED
    BY <1>1, <1>4, <2>1, EndKeeps DEF Variables!End
<1> QED
  BY <1>3, <1>4 DEF Variables!Start, Variables!Uefi, VariablesInv

LEMMA RaiseKeeps == VariablesInv /\ Variables!Raise => VariablesInv'
<1> SUFFICES ASSUME VariablesInv, Variables!Raise PROVE VariablesInv'
  OBVIOUS
<1>1. Variables!ModifyVerdictSound'
  BY DEF Variables!Raise, Variables!End, Variables!ModifyVerdictSound
<1> QED
  BY <1>1, EndKeeps DEF Variables!Raise, Variables!End

\* The verdict is made of what was counted, missed and found weak of the two variables.
LEMMA FinishKeeps == VariablesInv /\ Variables!Finish => VariablesInv'
<1> SUFFICES ASSUME VariablesInv, Variables!Finish PROVE VariablesInv'
  OBVIOUS
<1>1. /\ UNCHANGED <<Variables!inputs, vStore, vMissing, vWeak, vChanged, vTook, vRefused>>
      /\ vPc = "next" /\ vTodo = <<>> /\ vPc' = "end" /\ vTodo' = <<>> /\ vVerdict' = Variables!Verdict
  BY DEF Variables!Finish, Variables!End
<1>2. ASSUME NEW v \in {1, 2} PROVE Looked(v) /\ Counted(v)
  BY <1>1 DEF VariablesInv, Passed, InHand
<1>3. Variables!ModifyVerdictSound'
  <2> SUFFICES ASSUME Variables!Verdict = "PASSED" PROVE Variables!ModifyVerdictSound'
    BY <1>1 DEF Variables!ModifyVerdictSound
  <2>1. /\ vTest = "secureboot" => ~vMissing /\ vWeak = {} /\ vChanged = {}
        /\ vTest = "uefispec" => vWeak = {} /\ 1 \notin vChanged
        /\ vTest = "rtclock" => vChanged = {}
    BY DEF Variables!Verdict
  <2>2. \A v \in Variables!Guarded \cap vTook : Deleted(v)
    BY <1>2, <2>1 DEF Counted, VariablesInv, Variables!Guarded, Variables!V
  <2>3. \A v \in {1, 2} : vVar[v].there = "one" => ~Variables!Checked(v)
    BY <1>2, <2>1 DEF Looked, VariablesInv, Variables!Checked
  <2>4. vTest = "secureboot" => vVar[1].there = "one"
    BY <1>2, <2>1 DEF Looked
  <2> QED
    BY <1>1, <2>2, <2>3, <2>4, SameInputs DEF Variables!ModifyVerdictSound, Variables!V, Deleted
<1> QED
  BY <1>1, <1>3, EndKeeps

\* A step to the next variable keeps what holds of each, if it does of the one that is left.
LEMMA NextKeeps ==
  ASSUME VariablesInv, UNCHANGED <<Variables!inputs, vTook, vVerdict>>, vPc \notin {"start", "end"},
         vTodo # <<>>, vPc' = "next", vTodo' = Tail(vTodo), DOMAIN vStore' = {1, 2},
         vWeak \subseteq vWeak', vMissing => vMissing', vChanged \subseteq vChanged',
         vRefused \subseteq vRefused', \A v \in {1, 2} : v # vTodo[1] => vStore'[v] = vStore[v],
         \A v \in {1, 2} : v = vTodo[1] => Looked(v)' /\ PutBack(v)' /\ Counted(v)'
  PROVE  VariablesInv'
<1>1. vVerdict = "none" /\ vTodo[1] \in {1, 2} /\ vTodo' \in {<<>>, <<2>>}
  BY TodoTails DEF VariablesInv
<1>2. ASSUME NEW v \in {1, 2}
      PROVE  ~InHand(v)' /\ PutBack(v)' /\ Counted(v)'
  <2>1. CASE v = vTodo[1]
    BY <2>1 DEF InHand
  <2>2. CASE v # vTodo[1]
    <3>1. PutBack(v) /\ Counted(v) /\ ~InHand(v)'
      BY <2>2, <1>1 DEF VariablesInv, InHand
    <3>2. Deleted(v)' <=> Deleted(v)
      BY SameInputs
    <3> QED
      BY <2>2, <3>1, <3>2 DEF PutBack, Counted
  <2> QED
    BY <2>1, <2>2
<1>3. ASSUME NEW v \in {1, 2}, Passed(v)' PROVE Looked(v)'
  <2>1. CASE v = vTodo[1]
    BY <2>1
  <2>2. CASE v # vTodo[1]
    <3>1. v = 1 /\ vTodo = <<2>>
      BY <2>2, <1>3, TodoTails DEF VariablesInv, Passed
    <3>2. Looked(v)
      BY <3>1 DEF VariablesInv, Passed
    <3> QED
      BY <3>2, SameInputs DEF Looked
  <2> QED
    BY <2>1, <2>2
<1>4. Variables!ModifyVerdictSound'
  BY <1>1 DEF Variables!ModifyVerdictSound
<1> QED
  BY <1>1, <1>2, <1>3, <1>4, SameInputs DEF VariablesInv

\* The same for a step within can_modify.
LEMMA InHandKeeps ==
  ASSUME VariablesInv, UNCHANGED <<Variables!inputs, vTodo, vVerdict>>, vPc \notin {"start", "end"},
         vTodo # <<>>, vPc' \in {"modify", "compare", "restore"}, DOMAIN vStore' = {1, 2},
         vWeak \subseteq vWeak', vMissing => vMissing', vChanged \subseteq vChanged',
         vRefused \subseteq vRefused', \A v \in {1, 2} : v # vTodo[1] => vStore'[v] = vStore[v],
         \A v \in vTook' : v \in vTook \/ v = vTodo[1],
         \A v \in {1, 2} : v = vTodo[1] =>
           /\ Variables!Attempt(v) \in {"write", "delete"} /\ vVar[v].there = "one"
           /\ Looked(v)' /\ (PutBack(v)' \/ vPc' # "modify")
           /\ Counted(v)' \/ (vPc' = "compare" /\ vStore'[v] # 0)
  PROVE  VariablesInv'
<1>1. vVerdict = "none" /\ vTodo[1] \in {1, 2} /\ vTodo \in {<<1, 2>>, <<2>>}
  BY TodoTails DEF VariablesInv
<1>2. ASSUME NEW v \in {1, 2}
      PROVE  /\ InHand(v)' => Variables!Attempt(v)' \in {"write", "delete"} /\ vVar'[v].there = "one"
             /\ PutBack(v)' \/ (InHand(v)' /\ vPc' # "modify")
             /\ Counted(v)' \/ (InHand(v)' /\ vPc' = "compare" /\ vStore'[v] # 0)
             /\ (InHand(v) \/ Passed(v))' => Looked(v)'
  <2>1. CASE v = vTodo[1]
    BY <2>1, SameInputs DEF InHand
  <2>2. CASE v # vTodo[1]
    <3>1. PutBack(v) /\ Counted(v) /\ ~InHand(v)'
      BY <2>2, <1>1 DEF VariablesInv, InHand
    <3>2. Deleted(v)' <=> Deleted(v)
      BY SameInputs
    <3>3. ASSUME Passed(v)' PROVE Looked(v)'
      <4>1. Looked(v)
        BY <3>3 DEF VariablesInv, Passed
      <4> QED
        BY <4>1, SameInputs DEF Looked
    <3> QED
      BY <2>2, <3>1, <3>2, <3>3 DEF PutBack, Counted
  <2> QED
    BY <2>1, <2>2
<1>3. Variables!ModifyVerdictSound'
  BY <1>1 DEF Variables!ModifyVerdictSound
<1> QED
  BY <1>1, <1>2, <1>3, SameInputs DEF VariablesInv

\* The next variable: its attributes are checked before anything else is done with it.
LEMMA NextVariableKeeps == VariablesInv /\ Variables!NextVariable => VariablesInv'
<1> SUFFICES ASSUME VariablesInv, Variables!NextVariable PROVE VariablesInv'
  OBVIOUS
<1>0. vPc = "next" /\ vTodo # <<>> /\ UNCHANGED <<Variables!inputs, vStore, vChanged, vTook, vRefused>>
  BY DEF Variables!NextVariable
<1> DEFINE v == vTodo[1]
<1>1. v \in {1, 2} /\ DOMAIN vStore = {1, 2} /\ vVerdict = "none"
  BY <1>0, TodoTails DEF VariablesInv
<1>2. \A x \in {1, 2} : PutBack(x)' /\ Counted(x)'
  <2> TAKE x \in {1, 2}
  <2>1. PutBack(x) /\ Counted(x)
    BY <1>0, <1>1 DEF VariablesInv, InHand
  <2>2. Deleted(x)' <=> Deleted(x)
    BY <1>0, SameInputs
  <2> QED
    BY <1>0, <2>1, <2>2 DEF PutBack, Counted
<1>3. CASE /\ vVar[v].there = "none" /\ vTodo' = Tail(vTodo)
           /\ vMissing' = (vMissing \/ (vTest = "secureboot" /\ v = 1))
           /\ UNCHANGED <<vPc, vWeak, vVerdict>>
  <2>1. \A x \in {1, 2} : x = vTodo[1] => Looked(x)'
    BY <1>0, <1>1, <1>3, SameInputs DEF Looked
  <2> QED
    BY <1>0, <1>1, <1>2, <1>3, <2>1, NextKeeps
<1>4. CASE Variables!End("FAILED") \/ Variables!End("raised")
  <2>1. Variables!ModifyVerdictSound'
    BY <1>4 DEF Variables!ModifyVerdictSound, Variables!End
  <2> QED
    BY <1>0, <1>4, <2>1, EndKeeps DEF Variables!End
<1>5. CASE /\ vVar[v].there = "one" /\ UNCHANGED vMissing
           /\ vWeak' = IF Variables!Checked(v) THEN vWeak \cup {Variables!AttrsOf(v)} ELSE vWeak
           /\ UNCHANGED vVerdict
           /\ \/ vPc' = vPc /\ vTodo' = Tail(vTodo)
              \/ vPc' = "modify" /\ vTodo' = vTodo /\ Variables!Attempt(v) \notin {"nothing", "raise"}
  <2>1. \A x \in {1, 2} : x = vTodo[1] => Looked(x)'
    BY <1>0, <1>1, <1>5, SameInputs DEF Looked
  <2>2. Variables!Attempt(v) \in {"nothing", "raise", "write", "delete"}
    BY DEF Variables!Attempt
  <2>3. CASE vTodo' = vTodo /\ vPc' = "modify" /\ Variables!Attempt(v) \in {"write", "delete"}
    BY <1>0, <1>1, <1>2, <1>5, <2>1, <2>3, InHandKeeps
  <2>4. CASE vTodo' = Tail(vTodo) /\ vPc' = vPc
    BY <1>0, <1>1, <1>2, <1>5, <2>1, <2>4, NextKeeps
  <2> QED
    BY <1>5, <2>2, <2>3, <2>4
<1> QED
  BY <1>3, <1>4, <1>5 DEF Variables!NextVariable

\* What is known of the variable in hand.
LEMMA InHandFacts ==
  ASSUME VariablesInv, vPc \in {"modify", "compare", "restore"}
  PROVE  LET v == vTodo[1] IN
         /\ vTodo # <<>> /\ v \in {1, 2} /\ DOMAIN vStore = {1, 2} /\ vVerdict = "none"
         /\ Variables!Attempt(v) \in {"write", "delete"} /\ vVar[v].there = "one" /\ Looked(v)
         /\ vPc = "modify" => PutBack(v)
         /\ Counted(v) \/ (vPc = "compare" /\ vStore[v] # 0)
BY TodoTails DEF VariablesInv, InHand

LEMMA ModifyKeeps == ASSUME NEW taken, VariablesInv, Variables!Modify(taken) PROVE VariablesInv'
<1>0. /\ vPc = "modify" /\ vPc' = "compare"
      /\ UNCHANGED <<Variables!inputs, vTodo, vMissing, vWeak, vChanged, vVerdict, vRefused>>
  BY DEF Variables!Modify
<1> DEFINE w == vTodo[1]
           d == IF Variables!Attempt(w) = "delete" THEN 2 ELSE 1
<1>1. /\ vStore' = (IF taken THEN [vStore EXCEPT ![w] = d] ELSE vStore)
      /\ vTook' = (IF taken THEN vTook \cup {w} ELSE vTook)
  BY DEF Variables!Modify, Variables!Write, Variables!Gone, Variables!Bad
<1>2. d # 0
  OBVIOUS
<1> HIDE DEF d
<1>3. \A v \in {1, 2} : v = vTodo[1] => Looked(v)'
  BY <1>0, InHandFacts, SameInputs DEF Looked
<1>4. \A v \in {1, 2} : v = vTodo[1] => Counted(v)' \/ vStore'[v] # 0
  BY <1>0, <1>1, <1>2, InHandFacts, SameInputs DEF Counted
<1>5. DOMAIN vStore' = {1, 2} /\ \A v \in {1, 2} : v # vTodo[1] => vStore'[v] = vStore[v]
  BY <1>0, <1>1, InHandFacts
<1> QED
  BY <1>0, <1>1, <1>3, <1>4, <1>5, InHandFacts, InHandKeeps

\* A variable that differs is counted; one that was written and does not is as it was.
LEMMA CompareKeeps == ASSUME NEW readable, VariablesInv, Variables!Compare(readable) PROVE VariablesInv'
<1>0. /\ vPc = "compare" /\ UNCHANGED <<Variables!inputs, vStore, vMissing, vWeak, vVerdict, vTook, vRefused>>
  BY DEF Variables!Compare
<1> DEFINE w == vTodo[1]
<1>1. \/ /\ Variables!Attempt(w) = "delete" \/ vStore[w] = 0
         /\ vPc' = "next" /\ vTodo' = Tail(vTodo) /\ vChanged' = vChanged
      \/ vPc' = "restore" /\ vChanged' = vChanged \cup {w} /\ vTodo' = vTodo
  BY DEF Variables!Compare, Variables!Original
<1>2. \A v \in {1, 2} : v = vTodo[1] => Looked(v)'
  BY <1>0, InHandFacts, SameInputs DEF Looked
<1>3. CASE /\ Variables!Attempt(w) = "delete" \/ vStore[w] = 0
           /\ vPc' = "next" /\ vTodo' = Tail(vTodo) /\ vChanged' = vChanged
  <2>1. \A v \in {1, 2} : v = vTodo[1] => PutBack(v)' /\ Counted(v)'
    BY <1>0, <1>3, InHandFacts, SameInputs, DeleteIsDeleted DEF PutBack, Counted
  <2> QED
    BY <1>0, <1>2, <1>3, <2>1, InHandFacts, NextKeeps
<1>4. CASE vPc' = "restore" /\ vChanged' = vChanged \cup {w} /\ vTodo' = vTodo
  <2>1. \A v \in {1, 2} : v = vTodo[1] => Counted(v)'
    BY <1>4 DEF Counted
  <2> QED
    BY <1>0, <1>2, <1>4, <2>1, InHandFacts, InHandKeeps
<1> QED
  BY <1>1, <1>3, <1>4

LEMMA RestoreKeeps == ASSUME NEW taken, VariablesInv, Variables!Restore(taken) PROVE VariablesInv'
<1>0. /\ vPc = "restore" /\ vPc' = "next" /\ vTodo' = Tail(vTodo)
      /\ UNCHANGED <<Variables!inputs, vMissing, vWeak, vChanged, vVerdict, vTook>>
  BY DEF Variables!Restore
<1> DEFINE w == vTodo[1]
           d == IF Variables!Attempt(w) = "delete" THEN 2 ELSE 0
<1>1. /\ vStore' = (IF taken THEN [vStore EXCEPT ![w] = d] ELSE vStore)
      /\ vRefused' = (IF taken THEN vRefused ELSE vRefused \cup {w})
  BY DEF Variables!Restore, Variables!Write, Variables!Gone, Variables!Original
<1>2. d = 0 \/ Deleted(w)
  BY DeleteIsDeleted
<1> HIDE DEF d
<1>3. \A v \in {1, 2} : v = vTodo[1] => Looked(v)'
  BY <1>0, InHandFacts, SameInputs DEF Looked
<1>4. \A v \in {1, 2} : v = vTodo[1] => PutBack(v)' /\ Counted(v)'
  BY <1>0, <1>1, <1>2, InHandFacts, SameInputs DEF PutBack, Counted
<1>5. DOMAIN vStore' = {1, 2} /\ \A v \in {1, 2} : v # vTodo[1] => vStore'[v] = vStore[v]
  BY <1>0, <1>1, InHandFacts
<1> QED
  BY <1>0, <1>1, <1>3, <1>4, <1>5, InHandFacts, NextKeeps

LEMMA VariablesStep == VariablesInv /\ [Variables!Next]_(Variables!vars) => VariablesInv'
<1> SUFFICES ASSUME VariablesInv, [Variables!Next]_(Variables!vars) PROVE VariablesInv'
  OBVIOUS
<1>1. CASE UNCHANGED Variables!vars
  <2>1. UNCHANGED <<Variables!inputs, vStore, vPc, vTodo, vMissing, vWeak, vChanged, vVerdict, vTook, vRefused>>
    BY <1>1 DEF Variables!vars, Variables!inputs
  <2> QED
    BY <2>1, SameInputs DEF VariablesInv, InHand, Passed, PutBack, Counted, Looked, Variables!ModifyVerdictSound
<1> QED
  BY <1>1, StartKeeps, NextVariableKeeps, RaiseKeeps, FinishKeeps, ModifyKeeps, CompareKeeps,
     RestoreKeeps DEF Variables!Next

LEMMA VariablesInvariance == Spec => [](part = "variables" => VariablesInv)
<1> DEFINE I == part = "variables" => VariablesInv
<1>1. Init => I
  BY VariablesInit DEF Init
<1>2. I /\ [Next]_vars => I'
  BY PartStays, OnlyVariables, VariablesStep
<1> QED
  BY <1>1, <1>2, PTL DEF Spec

\* A test that modifies variables and runs to its end has put every one back, unless the write that
\* restores it was refused or access_uefispec deleted what it could not read (variables.py:97).
THEOREM Restored == Spec => []VariablesRestored
<1>1. (part = "variables" => VariablesInv) => VariablesRestored
  <2> SUFFICES ASSUME VariablesInv, vPc = "end", vVerdict # "raised", NEW v \in {1, 2}
               PROVE  PutBack(v)
    BY DEF VariablesRestored, Variables!VariablesRestored, Variables!V, Variables!Original, PutBack, Deleted
  <2> QED
    BY DEF VariablesInv, InHand
<1> QED
  BY <1>1, VariablesInvariance, PTL

\* Such a test passes only if no variable it guards took a modification and the attributes it checks
\* are right, whatever is refused, unreadable for once or raised on the way (access_uefispec.py:208).
THEOREM PassedUnmodified == Spec => []ModifyVerdictSound
<1>1. (part = "variables" => VariablesInv) => ModifyVerdictSound
  BY DEF VariablesInv, ModifyVerdictSound
<1> QED
  BY <1>1, VariablesInvariance, PTL
-----------------------------------------------------------------------------
(***************************************************************************)
(* MmioBars.  Every address in the cache is one where the range of its bus  *)
(* was, with something the BAR has held since the cache was last empty; and *)
(* what the BAR holds now is among that.                                    *)
(***************************************************************************)
BarValues == {0, 1, 2, 6, 7}
Where(v) == Ranges!Location(v) \cup Ranges!Mistaken(v)

RangesInv ==
  /\ mBar \in Ranges!Definitions /\ mCaching \in BOOLEAN
  /\ mHw \in [{1, 2} -> BarValues] /\ mHeld \in [{1, 2} -> SUBSET BarValues]
  /\ \A b \in {1, 2} : mHw[b] \in mHeld[b] /\ (~mPresent[b] => mHw[b] = 7)
  /\ \A x \in DOMAIN mCached : /\ mCaching /\ x \in {0, 1, 2}
                               /\ \E v \in mHeld[Ranges!Bus(x)] : mCached[x] \in Where(v)
  /\ Ranges!AccessesFresh

LEMMA BusType == \A b \in {0, 1, 2} : Ranges!Bus(b) \in {1, 2}
BY DEF Ranges!Bus, Ranges!NoBus

LEMMA BaseValues ==
  /\ Ranges!Base(0) = 0 /\ Ranges!Base(1) = 0 /\ Ranges!Base(2) = 2
  /\ Ranges!Base(6) = 6 /\ Ranges!Base(7) = 6
BY DEF Ranges!Base

LEMMA DefinitionType ==
  ASSUME mBar \in Ranges!Definitions
  PROVE  /\ mBar.space \in {"mmio", "io"} /\ mBar.style \in {"field", "register", "mask"}
         /\ mBar.fixed \in BOOLEAN /\ mBar.offset \in BOOLEAN
         /\ mBar.style = "mask" => ~mBar.fixed
BY DEF Ranges!Definitions

\* The code takes these for the base of the range, though there is none.
LEMMA MistakenIs ==
  ASSUME NEW v, NEW a \in {0, 6},
         \/ a = 0 /\ mBar.style = "mask" /\ v = 1
         \/ /\ a = Ranges!Base(v) /\ mBar.style = "register"
            /\ ~(mBar.fixed /\ Ranges!Unprogrammed(v))
         \/ a = 0 /\ mBar.space = "io" /\ mBar.offset /\ (Ranges!Base(v) = 0 \/ Ranges!Unreadable(1))
         \/ a = 6 /\ mBar.space = "io" /\ v = 7
  PROVE  Ranges!WithOffset(a) \in Where(v)
BY DEF Where, Ranges!Mistaken, Ranges!BaseMask, Ranges!AllOnes

\* A base that is taken from the register is where the range is; a refusal has its reason.
LEMMA ResolvedGood ==
  ASSUME mBar \in Ranges!Definitions, mHw \in [{1, 2} -> BarValues], NEW b \in {1, 2}
  PROVE  LET r == Ranges!Resolved(b) IN
         /\ r.out \in {"ok", "CSReadError", "unbound"}
         /\ r.out = "ok" => r.base \in Where(mHw[b])
         /\ r.out \in {"CSReadError", "unbound"} =>
              Ranges!Unreadable(b) \/ Ranges!Location(mHw[b]) = {}
<1>1. mHw[b] \in BarValues
  OBVIOUS
<1>2. CASE Ranges!Unreadable(b)
  BY <1>2 DEF Ranges!Resolved, Ranges!Raises
<1>3. CASE ~Ranges!Unreadable(b) /\ mBar.fixed /\ Ranges!Unprogrammed(mHw[b])
  BY <1>3 DEF Ranges!Resolved, Ranges!Ok, Where, Ranges!Location
<1>4. CASE ~Ranges!Unreadable(b) /\ ~(mBar.fixed /\ Ranges!Unprogrammed(mHw[b]))
  <2> DEFINE v == mHw[b]
             base == Ranges!Base(v)
             invalid == Ranges!Invalid(v)
  <2>1. Ranges!Resolved(b) = IF invalid THEN Ranges!Raises("CSReadError")
                             ELSE Ranges!Ok(Ranges!WithOffset(base))
    BY <1>4 DEF Ranges!Resolved
  <2>2. Ranges!Location(v) = IF base = 0 \/ v = 7 THEN {} ELSE {Ranges!WithOffset(base)}
    BY <1>4 DEF Ranges!Location, Ranges!AllOnes
  <2>3. CASE invalid
    <3>1. base = 0 \/ v = 7
      BY <2>3, BaseValues DEF Ranges!Invalid, Ranges!AllOnes
    <3> QED
      BY <2>1, <2>2, <2>3, <3>1 DEF Ranges!Raises
  <2>4. CASE ~invalid /\ ~(base = 0 \/ v = 7)
    BY <2>1, <2>2, <2>4 DEF Ranges!Ok, Where
  <2>5. CASE ~invalid /\ (base = 0 \/ v = 7)
    <3>1. mBar.style \in {"register", "mask"} /\ (mBar.style = "mask" => v = 1)
      BY <1>1, <2>5, BaseValues, DefinitionType DEF Ranges!Invalid, Ranges!AllOnes, BarValues
    <3>2. base \in {0, 6} /\ (v = 1 => base = 0)
      BY <1>1, <2>5, BaseValues DEF BarValues
    <3>3. Ranges!WithOffset(base) \in Where(v)
      BY <1>4, <3>1, <3>2, MistakenIs
    <3> QED
      BY <2>1, <2>5, <3>3 DEF Ranges!Ok
  <2> QED
    BY <2>3, <2>4, <2>5
<1> QED
  BY <1>2, <1>3, <1>4

\* The same of I/O ranges, where an error reads as zero and all ones as a base.
LEMMA IoGood ==
  ASSUME mBar \in Ranges!Definitions, mHw \in [{1, 2} -> BarValues], mBar.space = "io",
         ~mPresent[1] => mHw[1] = 7
  PROVE  LET r == Ranges!get_IO_BAR_base_address IN
         /\ r.out \in {"ok", "CSReadError"}
         /\ r.out = "ok" => r.base \in Where(mHw[1])
         /\ r.out = "CSReadError" => Ranges!Unreadable(1) \/ Ranges!Location(mHw[1]) = {}
<1> DEFINE base == IF Ranges!Unreadable(1) THEN 0 ELSE Ranges!Base(mHw[1])
           unset == Ranges!Unreadable(1) \/ Ranges!Unprogrammed(mHw[1])
           used == Ranges!WithOffset(IF mBar.fixed /\ unset THEN 8 ELSE base)
<1>1. mHw[1] \in BarValues /\ base \in {0, 2, 6}
  BY BaseValues DEF BarValues
<1>2. Ranges!get_IO_BAR_base_address =
        IF used = 0 THEN Ranges!Raises("CSReadError") ELSE Ranges!Ok(used)
  BY DEF Ranges!get_IO_BAR_base_address, Ranges!FIXED
<1>3. CASE mBar.fixed /\ unset
  <2>1. used = Ranges!WithOffset(8) /\ used # 0
    BY <1>3 DEF Ranges!WithOffset, Ranges!OFFSET
  <2>2. Ranges!Unprogrammed(mHw[1])
    BY <1>3, BaseValues, DefinitionType DEF Ranges!Unreadable, Ranges!Unprogrammed, Ranges!BaseMask, Ranges!AllOnes
  <2>3. Ranges!WithOffset(8) \in Where(mHw[1])
    BY <1>3, <2>2 DEF Where, Ranges!Location, Ranges!FIXED
  <2> QED
    BY <1>2, <2>1, <2>3 DEF Ranges!Ok
<1>4. CASE ~(mBar.fixed /\ unset) /\ base = 0
  <2>1. used = Ranges!WithOffset(0)
    BY <1>4
  <2>2. CASE mBar.offset
    <3>1. used \in Where(mHw[1]) /\ used # 0
      BY <1>4, <2>1, <2>2, MistakenIs DEF Ranges!WithOffset, Ranges!OFFSET
    <3> QED
      BY <1>2, <3>1 DEF Ranges!Ok
  <2>3. CASE ~mBar.offset
    <3>1. used = 0
      BY <2>1, <2>3 DEF Ranges!WithOffset
    <3>2. Ranges!Unreadable(1) \/ Ranges!Location(mHw[1]) = {}
      BY <1>4 DEF Ranges!Location
    <3> QED
      BY <1>2, <3>1, <3>2 DEF Ranges!Raises
  <2> QED
    BY <2>2, <2>3
<1>5. CASE ~(mBar.fixed /\ unset) /\ base # 0
  <2>1. used = Ranges!WithOffset(base) /\ used # 0 /\ base = Ranges!Base(mHw[1])
    BY <1>1, <1>5 DEF Ranges!WithOffset, Ranges!OFFSET
  <2>2. used \in Where(mHw[1])
    <3>1. CASE mHw[1] = 7
      BY <1>5, <2>1, <3>1, BaseValues, MistakenIs
    <3>2. CASE mHw[1] # 7
      BY <1>5, <2>1, <3>2 DEF Where, Ranges!Location, Ranges!AllOnes
    <3> QED
      BY <3>1, <3>2
  <2> QED
    BY <1>2, <2>1, <2>2 DEF Ranges!Ok
<1> QED
  BY <1>3, <1>4, <1>5

LEMMA SameRange ==
  ASSUME UNCHANGED <<mBar, mChecking, mPresent>>, NEW v
  PROVE  /\ Where(v)' = Where(v) /\ Ranges!Location(v)' = Ranges!Location(v)
         /\ (Ranges!Unreadable(v)' <=> Ranges!Unreadable(v))
BY DEF Where, Ranges!Location, Ranges!Mistaken, Ranges!Unreadable, Ranges!Unprogrammed, Ranges!WithOffset,
   Ranges!Base

\* A zero that the cache gave, or the register, stands for no range.
LEMMA ZeroIsNowhere ==
  ASSUME mBar \in Ranges!Definitions, mBar.space = "mmio", NEW v \in BarValues, 0 \in Where(v)
  PROVE  Ranges!Location(v) = {}
<1>1. 0 \notin Ranges!Location(v)
  BY BaseValues DEF BarValues, Ranges!Location, Ranges!WithOffset, Ranges!OFFSET, Ranges!FIXED
<1>2. \/ mBar.style = "mask" /\ v = 1
      \/ mBar.style = "register" /\ ~(mBar.fixed /\ Ranges!Unprogrammed(v)) /\ Ranges!Base(v) = 0
  BY <1>1, DefinitionType DEF Where, Ranges!Mistaken, Ranges!WithOffset, Ranges!OFFSET, Ranges!BaseMask
<1> QED
  BY <1>2, BaseValues, DefinitionType DEF Ranges!Location

\* What the BARs have held after an access: all of it, or what they hold now.
LEMMA HeldAfter ==
  ASSUME RangesInv, mHeld' = IF mCaching THEN mHeld ELSE Ranges!HeldNow
  PROVE  /\ mHeld' \in [{1, 2} -> SUBSET BarValues]
         /\ \A b \in {1, 2} : mHw[b] \in mHeld'[b]
BY DEF RangesInv, Ranges!HeldNow, Ranges!Buses

LEMMA AccessKeeps ==
  ASSUME RangesInv, NEW b \in {0, 1, 2}, NEW r, Ranges!Access(b, r),
         r.out = "ok" => \E v \in mHeld'[Ranges!Bus(b)] : r.base \in Where(v),
         r.out \in {"CSReadError", "unbound"} =>
           Ranges!Unreadable(Ranges!Bus(b)) \/ \E v \in mHeld'[Ranges!Bus(b)] : Ranges!Location(v) = {},
         \A x \in DOMAIN mCached' : /\ mCaching /\ x \in {0, 1, 2}
                                   /\ \E v \in mHeld'[Ranges!Bus(x)] : mCached'[x] \in Where(v)
  PROVE  RangesInv'
<1>1. /\ UNCHANGED <<mBar, mChecking, mPresent, mHw, mCaching>>
      /\ mHeld' = IF mCaching THEN mHeld ELSE Ranges!HeldNow
      /\ mLast' = [bus |-> Ranges!Bus(b), out |-> r.out, base |-> r.base, held |-> mHeld'[Ranges!Bus(b)]]
  BY DEF Ranges!Access, Ranges!Bus, Ranges!NoBus
<1>2. Ranges!AccessesFresh'
  BY <1>1, SameRange DEF Ranges!AccessesFresh, Where
<1> QED
  BY <1>1, <1>2, HeldAfter, SameRange DEF RangesInv, Ranges!Bus, Ranges!NoBus

\* The base from the cache or, without one, from the register of the bus.
LEMMA MmioGood ==
  ASSUME RangesInv, NEW b \in {0, 1, 2}, mHeld' = IF mCaching THEN mHeld ELSE Ranges!HeldNow
  PROVE  LET r == Ranges!get_MMIO_BAR_base_address(b) IN
         /\ r = [out |-> r.out, base |-> r.base] /\ r.out \in {"ok", "CSReadError", "unbound"}
         /\ r.out = "ok" => \E v \in mHeld'[Ranges!Bus(b)] : r.base \in Where(v)
         /\ r.out \in {"CSReadError", "unbound"} =>
              Ranges!Unreadable(Ranges!Bus(b)) \/ \E v \in mHeld'[Ranges!Bus(b)] : Ranges!Location(v) = {}
<1>1. CASE Ranges!IsCached(b)
  <2>1. Ranges!get_MMIO_BAR_base_address(b) = [out |-> "ok", base |-> mCached[b]]
    BY <1>1 DEF Ranges!get_MMIO_BAR_base_address, Ranges!Ok
  <2>2. \E v \in mHeld'[Ranges!Bus(b)] : mCached[b] \in Where(v)
    BY <1>1 DEF RangesInv, Ranges!IsCached
  <2> QED
    BY <2>1, <2>2
<1>2. CASE ~Ranges!IsCached(b)
  <2>1. Ranges!get_MMIO_BAR_base_address(b) = Ranges!Resolved(Ranges!Bus(b))
    BY <1>2 DEF Ranges!get_MMIO_BAR_base_address
  <2>2. Ranges!Bus(b) \in {1, 2} /\ mHw[Ranges!Bus(b)] \in mHeld'[Ranges!Bus(b)]
    BY BusType, HeldAfter
  <2>3. Ranges!Resolved(Ranges!Bus(b)) =
          [out |-> Ranges!Resolved(Ranges!Bus(b)).out, base |-> Ranges!Resolved(Ranges!Bus(b)).base]
    <3>1. \E o, a : Ranges!Resolved(Ranges!Bus(b)) = [out |-> o, base |-> a]
      BY DEF Ranges!Resolved, Ranges!Ok, Ranges!Raises
    <3> QED
      BY <3>1
  <2> QED
    BY <2>1, <2>2, <2>3, ResolvedGood DEF RangesInv
<1> QED
  BY <1>1, <1>2

\* What a resolution leaves in the cache is where the range is now.
LEMMA RememberGood ==
  ASSUME RangesInv, NEW b \in {0, 1, 2}, NEW r, Ranges!Remember(b, r),
         mHeld' = IF mCaching THEN mHeld ELSE Ranges!HeldNow,
         r.out = "ok" => \E v \in mHeld'[Ranges!Bus(b)] : r.base \in Where(v)
  PROVE  \A x \in DOMAIN mCached' : /\ mCaching /\ x \in {0, 1, 2}
                                   /\ \E v \in mHeld'[Ranges!Bus(x)] : mCached'[x] \in Where(v)
<1>1. CASE mCaching /\ r.out = "ok"
  <2>1. /\ DOMAIN mCached' = DOMAIN mCached \cup {b}
        /\ \A x \in DOMAIN mCached' : mCached'[x] = IF x = b THEN r.base ELSE mCached[x]
    BY <1>1 DEF Ranges!Remember
  <2> QED
    BY <1>1, <2>1 DEF RangesInv
<1>2. CASE ~(mCaching /\ r.out = "ok")
  <2>1. mCached' = mCached
    BY <1>2 DEF Ranges!Remember
  <2> QED
    BY <2>1 DEF RangesInv
<1> QED
  BY <1>1, <1>2

LEMMA ReadMmioKeeps == ASSUME RangesInv, NEW b \in {0, 1, 2}, Ranges!ReadMmio(b) PROVE RangesInv'
<1> DEFINE r == Ranges!get_MMIO_BAR_base_address(b)
           a == IF r = Ranges!Ok(0) THEN Ranges!Raises("CSReadError") ELSE r
<1>1. Ranges!Remember(b, r) /\ Ranges!Access(b, a) /\ mBar.space = "mmio"
  BY DEF Ranges!ReadMmio
<1>2. mHeld' = IF mCaching THEN mHeld ELSE Ranges!HeldNow
  BY <1>1 DEF Ranges!Access
<1>3. /\ r.out \in {"ok", "CSReadError", "unbound"}
      /\ r.out = "ok" => \E v \in mHeld'[Ranges!Bus(b)] : r.base \in Where(v)
      /\ r.out \in {"CSReadError", "unbound"} =>
              Ranges!Unreadable(Ranges!Bus(b)) \/ \E v \in mHeld'[Ranges!Bus(b)] : Ranges!Location(v) = {}
  BY <1>2, MmioGood
<1> HIDE DEF r
<1>4. \A x \in DOMAIN mCached' : /\ mCaching /\ x \in {0, 1, 2}
                                /\ \E v \in mHeld'[Ranges!Bus(x)] : mCached'[x] \in Where(v)
  BY <1>1, <1>2, <1>3, RememberGood
<1>5. CASE r = Ranges!Ok(0)
  <2>1. r.out = "ok" /\ r.base = 0 /\ a.out = "CSReadError"
    BY <1>5 DEF Ranges!Ok, Ranges!Raises
  <2>2. PICK v \in mHeld'[Ranges!Bus(b)] : 0 \in Where(v)
    BY <1>3, <2>1
  <2>3. v \in BarValues
    BY <1>2, HeldAfter, BusType
  <2>4. Ranges!Location(v) = {}
    BY <1>1, <2>2, <2>3, ZeroIsNowhere DEF RangesInv
  <2> QED
    BY <1>1, <1>4, <2>1, <2>4, AccessKeeps
<1>6. CASE r # Ranges!Ok(0)
  BY <1>1, <1>3, <1>4, <1>6, AccessKeeps
<1> QED
  BY <1>5, <1>6

LEMMA WriteMmioKeeps == ASSUME RangesInv, NEW b \in {0, 1, 2}, Ranges!WriteMmio(b) PROVE RangesInv'
<1> DEFINE r == Ranges!get_MMIO_BAR_base_address(b)
<1>1. Ranges!Remember(b, r) /\ Ranges!Access(b, r)
  BY DEF Ranges!WriteMmio
<1>2. mHeld' = IF mCaching THEN mHeld ELSE Ranges!HeldNow
  BY <1>1 DEF Ranges!Access
<1>3. /\ r.out = "ok" => \E v \in mHeld'[Ranges!Bus(b)] : r.base \in Where(v)
      /\ r.out \in {"CSReadError", "unbound"} =>
              Ranges!Unreadable(Ranges!Bus(b)) \/ \E v \in mHeld'[Ranges!Bus(b)] : Ranges!Location(v) = {}
  BY <1>2, MmioGood
<1> HIDE DEF r
<1> QED
  BY <1>1, <1>2, <1>3, RememberGood, AccessKeeps

LEMMA AccessIoKeeps == ASSUME RangesInv, Ranges!AccessIo PROVE RangesInv'
<1> DEFINE r == Ranges!get_IO_BAR_base_address
<1>1. Ranges!Access(0, r) /\ mCached' = mCached /\ mBar.space = "io"
  BY DEF Ranges!AccessIo, Ranges!NoBus
<1>2. mHeld' = (IF mCaching THEN mHeld ELSE Ranges!HeldNow) /\ Ranges!Bus(0) = 1
  BY <1>1 DEF Ranges!Access, Ranges!Bus, Ranges!NoBus
<1>3. /\ r.out \in {"ok", "CSReadError"}
      /\ r.out = "ok" => r.base \in Where(mHw[1])
      /\ r.out = "CSReadError" => Ranges!Unreadable(1) \/ Ranges!Location(mHw[1]) = {}
  BY <1>1, IoGood DEF RangesInv
<1> HIDE DEF r
<1>4. \A x \in DOMAIN mCached' : /\ mCaching /\ x \in {0, 1, 2}
                                /\ \E v \in mHeld'[Ranges!Bus(x)] : mCached'[x] \in Where(v)
  BY <1>1, <1>2 DEF RangesInv
<1>5. mHw[1] \in mHeld'[Ranges!Bus(0)]
  BY <1>2, HeldAfter
<1> QED
  BY <1>1, <1>2, <1>3, <1>4, <1>5, AccessKeeps

\* Emptying the cache, and programming a BAR.
LEMMA EmptyCacheKeeps ==
  ASSUME RangesInv, UNCHANGED <<mBar, mChecking, mPresent, mHw, mLast>>, mCaching' \in BOOLEAN,
         DOMAIN mCached' = {}, mHeld' = Ranges!HeldNow
  PROVE  RangesInv'
<1>1. mHeld' \in [{1, 2} -> SUBSET BarValues] /\ \A b \in {1, 2} : mHw[b] \in mHeld'[b]
  BY DEF RangesInv, Ranges!HeldNow, Ranges!Buses
<1>2. Ranges!AccessesFresh'
  BY SameRange DEF RangesInv, Ranges!AccessesFresh, Where
<1> QED
  BY <1>1, <1>2 DEF RangesInv

LEMMA EnableKeeps ==
  ASSUME RangesInv, NEW e \in BOOLEAN, Ranges!enable_cache_address_resolution(e)
  PROVE  RangesInv'
<1>1. UNCHANGED <<mBar, mChecking, mPresent, mHw, mLast>> /\ mCaching' = e
  BY DEF Ranges!enable_cache_address_resolution
<1>2. CASE mCaching /\ e
  <2>1. mCached' = mCached /\ mHeld' = mHeld
    BY <1>2 DEF Ranges!enable_cache_address_resolution
  <2>2. Ranges!AccessesFresh'
    BY <1>1, SameRange DEF RangesInv, Ranges!AccessesFresh, Where
  <2> QED
    BY <1>1, <1>2, <2>1, <2>2, SameRange DEF RangesInv, Ranges!Bus, Ranges!NoBus
<1>3. CASE ~(mCaching /\ e)
  <2>1. DOMAIN mCached' = {} /\ mHeld' = Ranges!HeldNow
    <3>1. mHeld' = Ranges!HeldNow /\ mCached' = IF e THEN mCached ELSE <<>>
      BY <1>3 DEF Ranges!enable_cache_address_resolution
    <3>2. e => DOMAIN mCached = {}
      BY <1>3 DEF RangesInv
    <3>3. DOMAIN <<>> = {}
      OBVIOUS
    <3> QED
      BY <3>1, <3>2, <3>3
  <2> QED
    BY <1>1, <2>1, EmptyCacheKeeps
<1> QED
  BY <1>2, <1>3

LEMMA FlushKeeps == ASSUME RangesInv, Ranges!flush_bar_address_cache PROVE RangesInv'
<1>1. DOMAIN <<>> = {}
  OBVIOUS
<1>2. /\ UNCHANGED <<mBar, mChecking, mPresent, mHw, mLast, mCaching>>
      /\ mCached' = <<>> /\ mHeld' = Ranges!HeldNow
  BY DEF Ranges!flush_bar_address_cache
<1>3. mCaching' \in BOOLEAN
  BY <1>2 DEF RangesInv
<1> QED
  BY <1>1, <1>2, <1>3, EmptyCacheKeeps

LEMMA ProgramKeeps ==
  ASSUME RangesInv, NEW b \in {1, 2}, NEW w \in {0, 1, 2, 6}, Ranges!Program(b, w)
  PROVE  RangesInv'
<1>1. /\ UNCHANGED <<mBar, mChecking, mPresent, mCaching, mCached, mLast>> /\ mPresent[b]
      /\ mHw' = [mHw EXCEPT ![b] = w] /\ mHeld' = [mHeld EXCEPT ![b] = @ \cup {w}]
  BY DEF Ranges!Program
<1>2. w \in BarValues
  BY DEF BarValues
<1>3. mHw' \in [{1, 2} -> BarValues] /\ mHeld' \in [{1, 2} -> SUBSET BarValues]
  BY <1>1, <1>2 DEF RangesInv
<1>4. \A c \in {1, 2} : /\ mHeld[c] \subseteq mHeld'[c]
                        /\ mHw'[c] \in mHeld'[c] /\ (~mPresent[c] => mHw'[c] = 7)
  BY <1>1 DEF RangesInv
<1>5. Ranges!AccessesFresh'
  BY <1>1, SameRange DEF RangesInv, Ranges!AccessesFresh, Where
<1>6. \A x \in DOMAIN mCached' : /\ mCaching' /\ x \in {0, 1, 2}
                                /\ \E v \in mHeld'[Ranges!Bus(x)] : mCached'[x] \in Where(v)'
  BY <1>1, <1>4, SameRange, BusType DEF RangesInv
<1> QED
  BY <1>1, <1>3, <1>4, <1>5, <1>6 DEF RangesInv, Ranges!Bus, Ranges!NoBus

LEMMA RangesInit == Ranges!Init => RangesInv
<1> SUFFICES ASSUME Ranges!Init PROVE RangesInv
  OBVIOUS
<1>1. DOMAIN <<>> = {}
  OBVIOUS
<1>2. mHw \in [{1, 2} -> BarValues] /\ \A b \in {1, 2} : ~mPresent[b] => mHw[b] = 7
  BY DEF Ranges!Init, Ranges!Buses, Ranges!AllOnes, BarValues
<1>3. mHeld \in [{1, 2} -> SUBSET BarValues] /\ \A b \in {1, 2} : mHw[b] \in mHeld[b]
  BY <1>2 DEF Ranges!Init, Ranges!Buses, Ranges!HeldNow
<1>4. Ranges!AccessesFresh
  BY DEF Ranges!Init, Ranges!AccessesFresh
<1> QED
  BY <1>1, <1>2, <1>3, <1>4 DEF Ranges!Init, RangesInv

LEMMA RangesStep == RangesInv /\ [Ranges!Next]_(Ranges!vars) => RangesInv'
<1> SUFFICES ASSUME RangesInv, [Ranges!Next]_(Ranges!vars) PROVE RangesInv'
  OBVIOUS
<1>1. CASE UNCHANGED Ranges!vars
  <2>1. UNCHANGED <<mBar, mChecking, mPresent, mHw, mCaching, mCached, mHeld, mLast>>
    BY <1>1 DEF Ranges!vars
  <2>2. Ranges!AccessesFresh'
    BY <2>1, SameRange DEF RangesInv, Ranges!AccessesFresh, Where
  <2> QED
    BY <2>1, <2>2, SameRange DEF RangesInv, Ranges!Bus, Ranges!NoBus
<1> QED
  BY <1>1, ReadMmioKeeps, WriteMmioKeeps, AccessIoKeeps, FlushKeeps, EnableKeeps, ProgramKeeps
     DEF Ranges!Next, Ranges!Buses, Ranges!NoBus, Ranges!BaseMask

\* An access goes to where the range of its own bus has been since the cache was last empty, for any
\* definition of the range and however often its BARs are moved (mmio.py:191).
THEOREM Fresh == Spec => []AccessesFresh
<1> DEFINE I == part = "ranges" => RangesInv
<1>1. Init => I
  BY RangesInit DEF Init
<1>2. I /\ [Next]_vars => I'
  BY PartStays, OnlyRanges, RangesStep
<1>3. I => AccessesFresh
  BY DEF RangesInv, AccessesFresh
<1> QED
  BY <1>1, <1>2, <1>3, PTL DEF Spec
-----------------------------------------------------------------------------
(***************************************************************************)
(* RegisterChecks: a run is a function of the registers, so that its        *)
(* soundness is a fact of each module, for all that they can hold.          *)
(***************************************************************************)
StatusRight(m, i, v) ==
  ~Checks!Disagree(m, i, v) => (v.bits \subseteq {"INFORMATION"} <=>
                                v.res \in {"PASSED", "INFORMATION", "NOTAPPLICABLE"})
Right(m, i) == Checks!Sound(m, i, Checks!run(m, i)) /\ StatusRight(m, i, Checks!run(m, i))

\* sgx_check, whose four protections are dealt with one after the other: none of them makes the
\* verdict worse.
LEMMA SgxSound == \A i \in Checks!sgx_check_in : Checks!Sound("sgx_check", i, Checks!check_sgx_config(i))
<1> USE DEF Checks!Says, Checks!Res, Checks!Raises, Checks!If, Checks!Bit, Checks!Opt, Checks!Undef, Checks!Err
<1> TAKE i \in Checks!sgx_check_in
<1> DEFINE r(j) == Checks!Rank(Checks!check_sgx_config(j).res)
<1>1. /\ Checks!Protections("sgx_check") = {<<"locked", 1>>, <<"dbg", 0>>, <<"dlock", 1>>, <<"ena", 0>>}
      /\ \A j : Checks!run("sgx_check", j) = Checks!check_sgx_config(j)
  BY DEF Checks!Protections, Checks!run
<1>2. r([i EXCEPT !["locked"] = 1]) <= r(i)
  BY DEF Checks!sgx_check_in, Checks!Rank, Checks!check_sgx_config, Checks!check_prmrr_values, Checks!check_debug
<1>3. r([i EXCEPT !["dbg"] = 0]) <= r(i)
  BY DEF Checks!sgx_check_in, Checks!Rank, Checks!check_sgx_config, Checks!check_prmrr_values, Checks!check_debug
<1>4. r([i EXCEPT !["dlock"] = 1]) <= r(i)
  BY DEF Checks!sgx_check_in, Checks!Rank, Checks!check_sgx_config, Checks!check_prmrr_values, Checks!check_debug
<1>5. r([i EXCEPT !["ena"] = 0]) <= r(i)
  BY DEF Checks!sgx_check_in, Checks!Rank, Checks!check_sgx_config, Checks!check_prmrr_values, Checks!check_debug
<1>6. \A p \in Checks!Protections("sgx_check") : r([i EXCEPT ![p[1]] = p[2]]) <= r(i)
  <2> HIDE DEF r
  <2> TAKE p \in Checks!Protections("sgx_check")
  <2>1. \/ p[1] = "locked" /\ p[2] = 1
        \/ p[1] = "dbg" /\ p[2] = 0
        \/ p[1] = "dlock" /\ p[2] = 1
        \/ p[1] = "ena" /\ p[2] = 0
    BY <1>1
  <2> QED
    BY <2>1, <1>2, <1>3, <1>4, <1>5
<1>7. Checks!check_sgx_config(i).res = "PASSED" =>
        /\ Checks!Readable(i)
        /\ \A p \in Checks!Protections("sgx_check") : i[p[1]] \in {p[2], 2}
  <2> SUFFICES ASSUME Checks!check_sgx_config(i).res = "PASSED"
               PROVE  /\ Checks!Readable(i)
                      /\ \A p \in Checks!Protections("sgx_check") : i[p[1]] \in {p[2], 2}
    OBVIOUS
  <2>1. i.ok /\ i["locked"] = 1 /\ i["dlock"] = 1 /\ i["dbg"] = 0 /\ i["ena"] = 0
    BY DEF Checks!sgx_check_in, Checks!check_sgx_config, Checks!check_debug
  <2>2. DOMAIN i \cap {"wrsdis", "flockdn", "bild", "topswap"} = {}
    BY DEF Checks!sgx_check_in
  <2>3. \A p \in Checks!Protections("sgx_check") : i[p[1]] = p[2]
    BY <1>1, <2>1
  <2> QED
    BY <2>1, <2>2, <2>3 DEF Checks!Readable
<1>8. LET v == Checks!check_sgx_config(i) IN
        v.said \in {"PASSED", "WARNING", "FAILED", "ERROR"} =>
          Checks!Rank(v.res) = Checks!Rank(v.said) \/ v.res = "INFORMATION"
  BY DEF Checks!check_sgx_config
<1> QED
  BY <1>1, <1>6, <1>7, <1>8 DEF Checks!Sound

LEMMA ModulesRight == \A m \in Checks!Modules : \A i \in Checks!Inputs(m) : Right(m, i)
<1> USE DEF Checks!Says, Checks!Res, Checks!Bare, Checks!Raises, Checks!Unreadable, Checks!If, Checks!Bit,
            Checks!Opt, Checks!Undef, Checks!Err, Right, StatusRight
<1>1. \A i \in Checks!smm_in : Right("smm", i)
  BY DEF Checks!smm_in, Checks!Sound, Checks!check_SMRAMC, Checks!Protections,
     Checks!Readable, Checks!Untrusted, Checks!Rank, Checks!run, Checks!Disagree
<1>2. \A i \in Checks!smm_lock_in : Right("smm_lock", i)
  BY DEF Checks!smm_lock_in, Checks!Sound, Checks!check_HWCR, Checks!Protections,
     Checks!Readable, Checks!Untrusted, Checks!Rank, Checks!run, Checks!Disagree
<1>3. \A i \in Checks!smm_close_in : Right("smm_close", i)
  BY DEF Checks!smm_close_in, Checks!Sound, Checks!check_SMMClose, Checks!Protections,
     Checks!Readable, Checks!Untrusted, Checks!Rank, Checks!run, Checks!Disagree
<1>4. \A i \in Checks!smm_dma_in : Right("smm_dma", i)
  BY DEF Checks!smm_dma_in, Checks!Sound, Checks!check_tseg_config, Checks!check_tseg_locks, Checks!Protections,
     Checks!Readable, Checks!Untrusted, Checks!Rank, Checks!run, Checks!Disagree
<1>5. \A i \in Checks!smm_addr_in : Right("smm_addr", i)
  BY DEF Checks!smm_addr_in, Checks!Sound, Checks!check_SMMMask, Checks!Protections,
     Checks!Readable, Checks!Untrusted, Checks!Rank, Checks!run, Checks!Disagree
<1>6. \A i \in Checks!spi_lock_in : Right("spi_lock", i)
  BY DEF Checks!spi_lock_in, Checks!Sound, Checks!check_spi_lock, Checks!Protections,
     Checks!Readable, Checks!Untrusted, Checks!Rank, Checks!run, Checks!Disagree
<1>7. \A i \in Checks!spi_desc_in : Right("spi_desc", i)
  BY DEF Checks!spi_desc_in, Checks!Sound, Checks!check_descriptor, Checks!Protections,
     Checks!Readable, Checks!Untrusted, Checks!Rank, Checks!run, Checks!Disagree
<1>8. \A i \in Checks!spi_access_in : Right("spi_access", i)
  BY DEF Checks!spi_access_in, Checks!Sound, Checks!check_flash_access_permissions, Checks!Protections,
     Checks!Readable, Checks!Untrusted, Checks!Rank, Checks!run, Checks!Disagree
<1>9. \A i \in Checks!spi_fdopss_in : Right("spi_fdopss", i)
  BY DEF Checks!spi_fdopss_in, Checks!Sound, Checks!check_fd_security_override_strap, Checks!Protections,
     Checks!Readable, Checks!Untrusted, Checks!Rank, Checks!run, Checks!Disagree
<1>10. \A i \in Checks!bios_ts_in : Right("bios_ts", i)
  BY DEF Checks!bios_ts_in, Checks!Sound, Checks!check_bios_iface_lock, Checks!Protections,
     Checks!Readable, Checks!Untrusted, Checks!Rank, Checks!run, Checks!Disagree
<1>11. \A i \in Checks!bios_smi_in : Right("bios_smi", i)
  BY DEF Checks!bios_smi_in, Checks!Sound, Checks!check_SMI_locks, Checks!Protections,
     Checks!Readable, Checks!Untrusted, Checks!Rank, Checks!run, Checks!Disagree
<1>12. \A i \in Checks!memconfig_in : Right("memconfig", i)
  BY DEF Checks!memconfig_in, Checks!Sound, Checks!check_memmap_locks, Checks!Protections,
     Checks!Readable, Checks!Untrusted, Checks!Rank, Checks!run, Checks!Disagree
<1>13. \A i \in Checks!remap_in : Right("remap", i)
  <2> TAKE i \in Checks!remap_in
  <2> USE DEF Checks!remap_in, Checks!WindowOf, Checks!Window, Checks!OtherWindow, Checks!Top
  <2>1. \A j : Checks!run("remap", j) = Checks!check_remap_config(j)
    BY DEF Checks!run
  <2>2. StatusRight("remap", i, Checks!check_remap_config(i))
    BY DEF Checks!Disagree, Checks!check_remap_config
  <2>3. Checks!Sound("remap", i, Checks!check_remap_config(i))
    BY <2>1 DEF Checks!Sound, Checks!check_remap_config, Checks!Protections, Checks!Readable,
       Checks!Untrusted, Checks!Rank
  <2> QED
    BY <2>1, <2>2, <2>3
<1>14. \A i \in Checks!me_mfg_mode_in : Right("me_mfg_mode", i)
  BY DEF Checks!me_mfg_mode_in, Checks!Sound, Checks!check_me_mfg_mode, Checks!Protections,
     Checks!Readable, Checks!Untrusted, Checks!Rank, Checks!run, Checks!Disagree
<1>15. \A i \in Checks!spd_wd_in : Right("spd_wd", i)
  BY DEF Checks!spd_wd_in, Checks!Sound, Checks!check_spd_wd, Checks!Protections,
     Checks!Readable, Checks!Untrusted, Checks!Rank, Checks!run, Checks!Disagree
<1>16. \A i \in Checks!rom_armor_in : Right("rom_armor", i)
  BY DEF Checks!rom_armor_in, Checks!Sound, Checks!check_rom_armor, Checks!Protections,
     Checks!Readable, Checks!Untrusted, Checks!Rank, Checks!run, Checks!Disagree
<1>17. \A i \in Checks!cet_in : Right("cet", i)
  BY DEF Checks!cet_in, Checks!Sound, Checks!check_cet, Checks!Protections,
     Checks!Readable, Checks!Untrusted, Checks!Rank, Checks!run, Checks!Disagree
<1>18. \A i \in Checks!cpu_info_in : Right("cpu_info", i)
  BY DEF Checks!cpu_info_in, Checks!Sound, Checks!check_cpu_info, Checks!Protections,
     Checks!Readable, Checks!Untrusted, Checks!Rank, Checks!run, Checks!Disagree
<1>19. \A i \in Checks!bios_kbrd_buffer_in : Right("bios_kbrd_buffer", i)
  BY DEF Checks!bios_kbrd_buffer_in, Checks!Sound, Checks!check_BIOS_keyboard_buffer, Checks!Protections,
     Checks!Readable, Checks!Untrusted, Checks!Rank, Checks!run, Checks!Disagree
<1>20. \A i \in Checks!wsmt_in : Right("wsmt", i)
  BY DEF Checks!wsmt_in, Checks!Sound, Checks!check_wsmt, Checks!Protections,
     Checks!Readable, Checks!Untrusted, Checks!Rank, Checks!run, Checks!Disagree
<1>21. \A i \in Checks!sgx_check_in : Right("sgx_check", i)
  <2> TAKE i \in Checks!sgx_check_in
  <2>1. Checks!run("sgx_check", i) = Checks!check_sgx_config(i)
    BY DEF Checks!run
  <2>2. StatusRight("sgx_check", i, Checks!check_sgx_config(i))
    BY DEF Checks!sgx_check_in, Checks!Disagree, Checks!check_sgx_config, Checks!check_prmrr_values,
       Checks!check_debug
  <2> QED
    BY <2>1, <2>2, SgxSound
<1>22. \A i \in Checks!s3bootscript_in : Right("s3bootscript", i)
  BY DEF Checks!s3bootscript_in, Checks!Sound, Checks!check_s3_bootscripts, Checks!Protections,
     Checks!Readable, Checks!Untrusted, Checks!Rank, Checks!run, Checks!Disagree
<1> QED
  BY <1>1, <1>2, <1>3, <1>4, <1>5, <1>6, <1>7, <1>8, <1>9, <1>10, <1>11,
     <1>12, <1>13, <1>14, <1>15, <1>16, <1>17, <1>18, <1>19, <1>20, <1>21, <1>22 DEF Checks!Modules, Checks!Inputs

ChecksInv == /\ kMod \in Checks!Modules /\ kInput \in Checks!Inputs(kMod)
             /\ kVerdict \in {Checks!NoVerdict, Checks!run(kMod, kInput)}

LEMMA ChecksInvariance == Spec => [](part = "checks" => ChecksInv)
<1> DEFINE I == part = "checks" => ChecksInv
<1>1. Init => I
  BY DEF Init, Checks!Init, ChecksInv
<1>2. ChecksInv /\ [Checks!Next]_(Checks!vars) => ChecksInv'
  BY DEF Checks!Next, Checks!Run, Checks!vars, ChecksInv
<1>3. I /\ [Next]_vars => I'
  BY <1>2, PartStays, OnlyChecks
<1> QED
  BY <1>1, <1>3, PTL DEF Spec

\* A module that reads a few registers passes only if it could read them and every protection is in
\* place, no protection makes its verdict worse, and it returns what it announced, whatever the
\* registers hold (spi_lock.py:88, memconfig.py:114, bios_smi.py:91).
THEOREM ChecksAreSound == Spec => []ChecksSound
<1>1. (part = "checks" => ChecksInv) => ChecksSound
  BY ModulesRight DEF ChecksInv, ChecksSound, Checks!ChecksSound, Right
<1> QED
  BY <1>1, ChecksInvariance, PTL

LEMMA BitsInvariance == Spec => [](part = "threads" => ThreadProofs!BitsInv)
<1> DEFINE I == part = "threads" => ThreadProofs!BitsInv
<1>1. Init => I
  BY SameThreads, ThreadProofs!BitsInit DEF Init
<1>2. I /\ [Next]_vars => I'
  BY PartStays, OnlyPerThread, SameThreads, ThreadProofs!BitsStep
<1> QED
  BY <1>1, <1>2, PTL DEF Spec

\* The status bits kept for -rc agree with the verdict returned, for every module, all that registers
\* can hold and any number of threads, with the exceptions the properties name (smm_close.py:66).
THEOREM StatusIsVerdict == Spec => []StatusMatchesVerdict
<1>1. (part = "checks" => ChecksInv) => (part = "checks" => Checks!StatusMatchesVerdict)
  BY ModulesRight DEF ChecksInv, Checks!StatusMatchesVerdict, Right, StatusRight
<1>2. (part = "threads" => ThreadProofs!BitsInv) => (part = "threads" => PerThread!StatusAgrees)
  BY DEF ThreadProofs!BitsInv, ThreadProofs!StatusAgrees, PerThread!StatusAgrees, PerThread!Over, ThreadProofs!Over,
     PerThread!OnRetpoline, ThreadProofs!OnRetpoline, PerThread!RcPassed, ThreadProofs!RcPassed
<1> QED
  BY <1>1, <1>2, ChecksInvariance, BitsInvariance, PTL DEF StatusMatchesVerdict
-----------------------------------------------------------------------------
(***************************************************************************)
(* PlatformConfig, the tables.  The file that last undefined an entry is    *)
(* known, so that the definitions since then are; each file adds itself or  *)
(* nothing to them.                                                         *)
(***************************************************************************)
Undefs(k) == {i \in Config!At(k) : cHist[i].undef}

TablesInv ==
  /\ cHist \in Seq(Config!Registers \cup Config!Devices \cup Config!LocksOf \cup {[kind |-> "nothing"]})
  /\ \A k \in {"register", "lock"} : Config!LastOf(Undefs(k)) \in 0 .. Len(cHist)
  /\ Config!LastOf(Config!At("device")) \in 0 .. Len(cHist)
  /\ Config!ConfigIsReference

\* A number above those of a set is the last when it is added.
LEMMA LastAdded ==
  ASSUME NEW n \in Nat, NEW S \in SUBSET (0 .. n)
  PROVE  Config!LastOf(S \cup {n + 1}) = n + 1
<1>1. \A i \in S \cup {n + 1} : (\A j \in S \cup {n + 1} : j <= i) => i = n + 1
  OBVIOUS
<1>2. \A j \in S \cup {n + 1} : j <= n + 1
  OBVIOUS
<1> QED
  BY <1>1, <1>2 DEF Config!LastOf

\* What a file that is loaded adds to the entries of a kind.
LEMMA AtAfter ==
  ASSUME NEW E, cHist \in Seq(E), NEW e \in E, cHist' = Append(cHist, e), NEW k
  PROVE  /\ Len(cHist') = Len(cHist) + 1 /\ Len(cHist) \in Nat
         /\ cHist'[Len(cHist) + 1] = e
         /\ \A i \in DOMAIN cHist : cHist'[i] = cHist[i] /\ i \in 1 .. Len(cHist)
         /\ Config!At(k)' = Config!At(k) \cup (IF e.kind = k THEN {Len(cHist) + 1} ELSE {})
<1>1. /\ DOMAIN cHist = 1 .. Len(cHist) /\ Len(cHist) \in Nat
      /\ DOMAIN cHist' = 1 .. Len(cHist) + 1 /\ Len(cHist') = Len(cHist) + 1
      /\ cHist'[Len(cHist) + 1] = e
      /\ \A i \in 1 .. Len(cHist) : cHist'[i] = cHist[i]
  OBVIOUS
<1> QED
  BY <1>1 DEF Config!At

\* A definition joins those since the last undefinition; an undefinition ends them.
LEMMA SinceAfter ==
  ASSUME NEW E, cHist \in Seq(E), NEW e \in E, cHist' = Append(cHist, e), NEW k,
         Config!LastOf(Undefs(k)) \in 0 .. Len(cHist)
  PROVE  LET n == Len(cHist) + 1 IN
         /\ Config!LastOf(Undefs(k))' \in 0 .. n
         /\ e.kind # k => Config!Since(k)' = Config!Since(k)
         /\ e.kind = k /\ e.undef => Config!Since(k)' = {}
         /\ e.kind = k /\ ~e.undef => Config!Since(k)' = Config!Since(k) \cup {n}
         /\ Config!Since(k) \subseteq 1 .. Len(cHist)
<1> DEFINE n == Len(cHist) + 1
<1>1. /\ Len(cHist) \in Nat /\ cHist'[n] = e /\ DOMAIN cHist = 1 .. Len(cHist)
      /\ \A i \in 1 .. Len(cHist) : cHist'[i] = cHist[i]
      /\ Config!At(k)' = Config!At(k) \cup (IF e.kind = k THEN {n} ELSE {})
  BY AtAfter
<1>2. Config!At(k) \subseteq 1 .. Len(cHist) /\ Undefs(k) \subseteq 1 .. Len(cHist)
  BY <1>1 DEF Config!At, Undefs
<1>3. Undefs(k)' = Undefs(k) \cup (IF e.kind = k /\ e.undef THEN {n} ELSE {})
  BY <1>1, <1>2 DEF Undefs
<1>4. /\ Config!Since(k) = {i \in Config!At(k) : i > Config!LastOf(Undefs(k))}
      /\ Config!Since(k)' = {i \in Config!At(k)' : i > Config!LastOf(Undefs(k)')}
  BY DEF Config!Since, Undefs, Config!LastOf
<1>5. Config!LastOf(Undefs(k))' = Config!LastOf(Undefs(k)')
  BY DEF Config!LastOf
<1>6. CASE e.kind = k /\ e.undef
  <2>1. Config!LastOf(Undefs(k)') = n
    <3>1. Undefs(k)' = Undefs(k) \cup {n}
      BY <1>3, <1>6
    <3>2. Undefs(k) \in SUBSET (0 .. Len(cHist))
      BY <1>1, <1>2
    <3>3. Config!LastOf(Undefs(k) \cup {Len(cHist) + 1}) = Len(cHist) + 1
      BY <1>1, <3>2, LastAdded
    <3> QED
      BY <3>1, <3>3
  <2>2. \A i \in Config!At(k)' : ~(i > n)
    BY <1>1, <1>2, <1>6
  <2> QED
    BY <1>1, <1>2, <1>4, <1>5, <1>6, <2>1, <2>2
<1>7. CASE ~(e.kind = k /\ e.undef)
  <2>1. Undefs(k)' = Undefs(k)
    BY <1>3, <1>7
  <2> HIDE DEF n
  <2>2. n > Config!LastOf(Undefs(k)) /\ Config!LastOf(Undefs(k)) \in 0 .. n
    BY <1>1 DEF n
  <2>3. CASE e.kind = k
    BY <1>1, <1>2, <1>4, <1>5, <1>7, <2>1, <2>2, <2>3 DEF n
  <2>4. CASE e.kind # k
    BY <1>1, <1>2, <1>4, <1>5, <1>7, <2>1, <2>2, <2>4 DEF n
  <2> QED
    BY <2>3, <2>4
<1> QED
  BY <1>6, <1>7

LEMMA TablesInit == Config!Init => TablesInv
<1> SUFFICES ASSUME Config!Init PROVE TablesInv
  OBVIOUS
<1>1. cHist = <<>> /\ cRegisters = Config!Absent /\ cLock = 0
  BY DEF Config!Init
<1>2. (\A S : <<>> \in Seq(S)) /\ DOMAIN <<>> = {} /\ Len(<<>>) = 0
  OBVIOUS
<1>3. \A k : Config!At(k) = {} /\ Config!Since(k) = {} /\ Undefs(k) = {}
  BY <1>1, <1>2 DEF Config!At, Config!Since, Undefs
<1>4. Config!LastOf({}) = 0
  BY DEF Config!LastOf
<1>5. Config!ConfigIsReference
  BY <1>1, <1>3, <1>4 DEF Config!ConfigIsReference, Config!Absent
<1>6. 0 \in 0 .. Len(cHist)
  <2>1. 0 \in 0 .. 0
    OBVIOUS
  <2> QED
    BY <1>1, <1>2, <2>1, Zenon
<1>7. /\ \A k : Config!LastOf(Undefs(k)) \in 0 .. Len(cHist)
      /\ Config!LastOf(Config!At("device")) \in 0 .. Len(cHist)
  BY <1>3, <1>4, <1>6, Zenon
<1> QED
  BY <1>1, <1>2, <1>5, <1>7 DEF TablesInv

AllEntries == Config!Registers \cup Config!Devices \cup Config!LocksOf \cup {[kind |-> "nothing"]}

\* A register: its definition and each field are those of the last file since it was undefined.
RegisterRef == [def |-> Config!LastOf(Config!Since("register")),
                fields |-> [f \in Config!FieldNames |->
                              Config!LastOf({i \in Config!Since("register") : f \in cHist[i].fields})]]

LEMMA RegisterKeeps ==
  ASSUME TablesInv, NEW e \in AllEntries, cHist' = Append(cHist, e), cRegisters = RegisterRef,
         IF e.kind = "register" THEN Config!RegisterEntry(e) ELSE UNCHANGED cRegisters
  PROVE  cRegisters' = RegisterRef'
<1> DEFINE n == Len(cHist) + 1
           S == Config!Since("register")
           F(f) == {i \in S : f \in cHist[i].fields}
<1>1. cHist \in Seq(AllEntries) /\ Config!LastOf(Undefs("register")) \in 0 .. Len(cHist)
  BY DEF TablesInv, AllEntries
<1> HIDE DEF AllEntries
<1>2. /\ e.kind # "register" => S' = S
      /\ e.kind = "register" /\ e.undef => S' = {}
      /\ e.kind = "register" /\ ~e.undef => S' = S \cup {n}
      /\ S \subseteq 1 .. Len(cHist)
  BY <1>1, SinceAfter
<1>3. /\ Len(cHist) \in Nat /\ Len(cHist') = n /\ cHist'[n] = e
      /\ \A i \in 1 .. Len(cHist) : cHist'[i] = cHist[i]
  BY <1>1, AtAfter
<1>4. Config!LastOf({}) = 0
  BY DEF Config!LastOf
<1>5. RegisterRef' = [def |-> Config!LastOf(S'),
                      fields |-> [f \in Config!FieldNames |-> Config!LastOf({i \in S' : f \in cHist'[i].fields})]]
  BY DEF RegisterRef, Config!LastOf
<1> HIDE DEF S
<1>6. CASE e.kind # "register"
  <2>1. \A f \in Config!FieldNames : {i \in S' : f \in cHist'[i].fields} = F(f)
    BY <1>2, <1>3, <1>6
  <2>2. RegisterRef' = [def |-> Config!LastOf(S), fields |-> [f \in Config!FieldNames |-> Config!LastOf(F(f))]]
    BY <1>2, <1>5, <1>6, <2>1
  <2> QED
    BY <1>6, <2>2 DEF RegisterRef, S
<1>7. CASE e.kind = "register" /\ e.undef
  <2>1. \A f : {i \in S' : f \in cHist'[i].fields} = {}
    BY <1>2, <1>7
  <2>2. RegisterRef' = [def |-> 0, fields |-> [f \in Config!FieldNames |-> 0]]
    BY <1>2, <1>4, <1>5, <1>7, <2>1
  <2> QED
    BY <1>7, <2>2 DEF Config!RegisterEntry, Config!Absent
<1>8. CASE e.kind = "register" /\ ~e.undef
  <2>1. Config!LastOf(S') = n
    <3>1. S \in SUBSET (0 .. Len(cHist))
      BY <1>2, <1>3
    <3> QED
      BY <1>2, <1>3, <1>8, <3>1, LastAdded
  <2>2. ASSUME NEW f \in Config!FieldNames
        PROVE  Config!LastOf({i \in S' : f \in cHist'[i].fields}) =
                 IF f \in e.fields THEN n ELSE Config!LastOf(F(f))
    <3>1. CASE f \in e.fields
      <4>1. {i \in S' : f \in cHist'[i].fields} = F(f) \cup {n}
        BY <1>2, <1>3, <1>8, <3>1
      <4>2. F(f) \in SUBSET (0 .. Len(cHist))
        <5>1. S \subseteq 0 .. Len(cHist)
          BY <1>2, <1>3
        <5>2. F(f) \subseteq S
          OBVIOUS
        <5> HIDE DEF F
        <5> QED
          BY <5>1, <5>2
      <4> HIDE DEF F
      <4>3. Config!LastOf(F(f) \cup {Len(cHist) + 1}) = Len(cHist) + 1
        BY <1>3, <4>2, LastAdded
      <4> QED
        BY <3>1, <4>1, <4>3
    <3>2. CASE f \notin e.fields
      <4>1. {i \in S' : f \in cHist'[i].fields} = F(f)
        BY <1>2, <1>3, <1>8, <3>2
      <4> QED
        BY <3>2, <4>1
    <3> QED
      BY <3>1, <3>2
  <2>3. RegisterRef' = [def |-> n, fields |-> [f \in Config!FieldNames |->
                                                IF f \in e.fields THEN n ELSE Config!LastOf(F(f))]]
    BY <1>5, <2>1, <2>2
  <2>4. \A f \in Config!FieldNames : cRegisters.fields[f] = Config!LastOf(F(f))
    BY DEF RegisterRef, S
  <2>5. cRegisters' = [def |-> n, fields |-> [f \in Config!FieldNames |->
                                                IF f \in e.fields THEN n ELSE cRegisters.fields[f]]]
    BY <1>3, <1>8 DEF Config!RegisterEntry
  <2> QED
    BY <2>3, <2>4, <2>5
<1> QED
  BY <1>6, <1>7, <1>8

\* An entry of the tables without fields.
LEMMA LockKeeps ==
  ASSUME TablesInv, NEW e \in AllEntries, cHist' = Append(cHist, e),
         cLock = Config!LastOf(Config!Since("lock")),
         cLock' = IF e.kind = "lock" THEN (IF e.undef THEN 0 ELSE Len(cHist')) ELSE cLock
  PROVE  cLock' = Config!LastOf(Config!Since("lock"))'
<1> DEFINE n == Len(cHist) + 1
           S == Config!Since("lock")
<1>1. cHist \in Seq(AllEntries) /\ Config!LastOf(Undefs("lock")) \in 0 .. Len(cHist)
  BY DEF TablesInv, AllEntries
<1> HIDE DEF AllEntries
<1>2. /\ e.kind # "lock" => S' = S
      /\ e.kind = "lock" /\ e.undef => S' = {}
      /\ e.kind = "lock" /\ ~e.undef => S' = S \cup {n}
      /\ S \subseteq 1 .. Len(cHist)
  BY <1>1, SinceAfter
<1>3. Len(cHist) \in Nat /\ Len(cHist') = n
  BY <1>1, AtAfter
<1>4. Config!LastOf({}) = 0 /\ Config!LastOf(S)' = Config!LastOf(S')
  BY DEF Config!LastOf
<1>5. S \in SUBSET (0 .. Len(cHist))
  BY <1>2, <1>3
<1>6. Config!LastOf(S \cup {n}) = n
  BY <1>3, <1>5, LastAdded
<1> HIDE DEF S
<1> QED
  BY <1>2, <1>3, <1>4, <1>6 DEF S

\* A device: the first of its device IDs that was enumerated gives its bus.
DeviceRef ==
  LET i == Config!LastOf(Config!At("device"))
  IN i # 0 => /\ cBus.buses = {} <=> {cHist[i].dids[j] : j \in DOMAIN cHist[i].dids} \cap cRaw = {}
              /\ cBus.buses # {} => cBus.did \in cBus.buses

LEMMA DeviceKeeps ==
  ASSUME TablesInv, NEW e \in AllEntries, cHist' = Append(cHist, e), cRaw' = cRaw, DeviceRef,
         Config!LastOf(Config!At("device")) \in 0 .. Len(cHist),
         IF e.kind = "device" THEN Config!DeviceEntry(e) ELSE UNCHANGED cBus
  PROVE  DeviceRef' /\ Config!LastOf(Config!At("device"))' \in 0 .. Len(cHist')
<1> DEFINE n == Len(cHist) + 1
           A == Config!At("device")
<1>1. cHist \in Seq(AllEntries)
  BY DEF TablesInv, AllEntries
<1> HIDE DEF AllEntries
<1>2. /\ Len(cHist) \in Nat /\ Len(cHist') = n /\ cHist'[n] = e
      /\ \A i \in 1 .. Len(cHist) : cHist'[i] = cHist[i]
      /\ A' = A \cup (IF e.kind = "device" THEN {n} ELSE {})
  BY <1>1, AtAfter
<1>3. A \in SUBSET (0 .. Len(cHist))
  BY <1>1, <1>2 DEF Config!At
<1>4. Config!LastOf(A)' = Config!LastOf(A')
  BY DEF Config!LastOf
<1>5. CASE e.kind # "device"
  <2>1. A' = A /\ cBus' = cBus
    BY <1>2, <1>5
  <2> QED
    BY <1>2, <1>4, <2>1 DEF DeviceRef
<1>6. CASE e.kind = "device"
  <2>1. Config!LastOf(A)' = n
    BY <1>2, <1>3, <1>4, <1>6, LastAdded
  <2> DEFINE found == {j \in DOMAIN e.dids : e.dids[j] \in cRaw}
             d == e.dids[Config!Min(found)]
  <2>2. cBus' = IF found # {} THEN [buses |-> {d}, did |-> d]
                ELSE [buses |-> {}, did |-> IF e.dids = <<>> THEN 0 ELSE e.dids[1]]
    BY <1>6 DEF Config!DeviceEntry, Config!NoDid
  <2>3. found = {} <=> {e.dids[j] : j \in DOMAIN e.dids} \cap cRaw = {}
    OBVIOUS
  <2> HIDE DEF found, d
  <2>4. (cBus'.buses = {} <=> found = {}) /\ (cBus'.buses # {} => cBus'.did \in cBus'.buses)
    BY <2>2
  <2> QED
    BY <1>2, <2>1, <2>3, <2>4 DEF DeviceRef
<1> QED
  BY <1>5, <1>6

LEMMA TablesStep == TablesInv /\ [Config!Next]_(Config!vars) => TablesInv'
<1> SUFFICES ASSUME TablesInv, [Config!Next]_(Config!vars) PROVE TablesInv'
  OBVIOUS
<1>1. CASE \E e \in Config!Entries : Config!LoadFile(e)
  <2>1. PICK e \in Config!Entries : Config!LoadFile(e)
    BY <1>1
  <2>2. e \in AllEntries
    BY DEF Config!Entries, AllEntries
  <2>3. cHist' = Append(cHist, e) /\ cRaw' = cRaw
    BY <2>1 DEF Config!LoadFile, Config!inputs
  <2>4. cRegisters' = RegisterRef'
    BY <2>1, <2>2, <2>3, RegisterKeeps DEF TablesInv, Config!ConfigIsReference, RegisterRef, Config!LoadFile
  <2>5. cLock' = Config!LastOf(Config!Since("lock"))'
    BY <2>1, <2>2, <2>3, LockKeeps DEF TablesInv, Config!ConfigIsReference, Config!LoadFile
  <2>6. DeviceRef' /\ Config!LastOf(Config!At("device"))' \in 0 .. Len(cHist')
    BY <2>1, <2>2, <2>3, DeviceKeeps DEF TablesInv, Config!ConfigIsReference, DeviceRef, Config!LoadFile
  <2>7. Config!ConfigIsReference'
    BY <2>4, <2>5, <2>6 DEF Config!ConfigIsReference, RegisterRef, DeviceRef
  <2>8. cHist \in Seq(AllEntries)
    BY DEF TablesInv, AllEntries
  <2> HIDE DEF AllEntries
  <2>9. cHist' \in Seq(AllEntries) /\ Len(cHist') = Len(cHist) + 1
    BY <2>2, <2>3, <2>8
  <2>10. \A k \in {"register", "lock"} : Config!LastOf(Undefs(k))' \in 0 .. Len(cHist')
    BY <2>2, <2>3, <2>8, <2>9, SinceAfter DEF TablesInv
  <2> QED
    BY <2>6, <2>7, <2>9, <2>10 DEF TablesInv, AllEntries
<1>2. CASE UNCHANGED <<cRegisters, cBus, cLock, cHist, cRaw>>
  <2>1. \A k : /\ Config!At(k)' = Config!At(k) /\ Undefs(k)' = Undefs(k)
               /\ Config!Since(k)' = Config!Since(k)
    BY <1>2 DEF Config!At, Undefs, Config!Since, Config!LastOf
  <2>2. /\ \A k : Config!LastOf(Undefs(k))' = Config!LastOf(Undefs(k))
        /\ Config!LastOf(Config!At("device"))' = Config!LastOf(Config!At("device"))
        /\ Config!LastOf(Config!Since("lock"))' = Config!LastOf(Config!Since("lock"))
    <3>1. /\ \A k : Config!LastOf(Undefs(k))' = Config!LastOf(Undefs(k)')
          /\ Config!LastOf(Config!At("device"))' = Config!LastOf(Config!At("device")')
          /\ Config!LastOf(Config!Since("lock"))' = Config!LastOf(Config!Since("lock")')
      BY DEF Config!LastOf
    <3> QED
      BY <2>1, <3>1
  <2>5. RegisterRef' = RegisterRef
    <3> DEFINE S == Config!Since("register")
    <3>1. S' = S /\ \A f : {i \in S' : f \in cHist'[i].fields} = {i \in S : f \in cHist[i].fields}
      BY <1>2, <2>1
    <3>2. RegisterRef' = [def |-> Config!LastOf(S'),
                          fields |-> [f \in Config!FieldNames |->
                                        Config!LastOf({i \in S' : f \in cHist'[i].fields})]]
      BY DEF RegisterRef, Config!LastOf
    <3>3. RegisterRef = [def |-> Config!LastOf(S),
                         fields |-> [f \in Config!FieldNames |->
                                       Config!LastOf({i \in S : f \in cHist[i].fields})]]
      BY DEF RegisterRef
    <3> HIDE DEF S
    <3> QED
      BY <3>1, <3>2, <3>3
  <2>3. DeviceRef' <=> DeviceRef
    BY <1>2, <2>2 DEF DeviceRef
  <2>4. Config!ConfigIsReference' <=> Config!ConfigIsReference
    BY <1>2, <2>2, <2>3, <2>5 DEF Config!ConfigIsReference, RegisterRef, DeviceRef
  <2> QED
    BY <1>2, <2>2, <2>4 DEF TablesInv
<1> QED
  BY <1>1, <1>2 DEF Config!Next, Config!DetectProc, Config!DetectPch, Config!Decide, Config!Loaded, Config!inputs,
     Config!vars

\* Whatever the files hold and however many are loaded, the tables are what the files say, the later
\* over the earlier, entry by entry and field by field (core_parsers.py:220).
THEOREM LaterFilesOverride == Spec => []ConfigIsReference
<1> DEFINE I == part = "config" => TablesInv
<1>1. Init => I
  BY TablesInit DEF Init
<1>2. I /\ [Next]_vars => I'
  BY PartStays, OnlyConfig, TablesStep
<1>3. I => ConfigIsReference
  BY DEF TablesInv, ConfigIsReference
<1> QED
  BY <1>1, <1>2, <1>3, PTL DEF Spec
-----------------------------------------------------------------------------
(***************************************************************************)
(* PlatformConfig, the detection.  Only DetectProc chooses; what it chooses *)
(* from is looked at once, on the SKUs that the CPUID leaves.               *)
(***************************************************************************)
DetectTypes ==
  /\ cRaw \in SUBSET {1, 2, 3} /\ cCpuid \in {0, 1, 2} /\ (cCpuid = 0 => cRaw = {})
  /\ cSkus \in [Config!Procs -> [dids : SUBSET {1, 2}, detect : SUBSET {1, 2}]]
  /\ cArgs \in {"", "A", "B"} \X {"", "P"}

DetectInv ==
  /\ DetectTypes
  /\ cPc \in {"proc", "pch", "decide", "load", "end"} /\ cCode \in {"", "A", "B"}
  /\ cPc # "end" => cOutcome = "none"
  /\ cPc = "load" => cCode # ""
  /\ Config!DetectionSound

\* The largest of some device IDs is one of them.
LEMMA MaxOfIds == ASSUME NEW S \in SUBSET {1, 2}, S # {} PROVE Config!Max(S) \in S
<1>1. \E x \in S : \A y \in S : x >= y
  <2>1. CASE 2 \in S
    <3>1. \A y \in S : 2 >= y
      OBVIOUS
    <3> QED
      BY <2>1, <3>1
  <2>2. CASE 2 \notin S
    <3>1. \A y \in S : y = 1
      BY <2>2
    <3>2. 1 \in S
      BY <3>1
    <3> QED
      BY <3>1, <3>2
  <2> QED
    BY <2>1, <2>2
<1> QED
  BY <1>1 DEF Config!Max

\* What _find_sku_data may return when no code is given, whatever was enumerated.
LEMMA FoundFits ==
  ASSUME DetectTypes, NEW c \in Config!find_sku_data("")
  PROVE  /\ c \in {"", "A", "B"}
         /\ c # "" => /\ Config!OnBus(c) \/ cCpuid \in cSkus[c].detect
                      /\ (\E b \in Config!Procs : Config!OnBus(b) /\ cCpuid \in cSkus[b].detect)
                           => Config!OnBus(c) /\ cCpuid \in cSkus[c].detect
         /\ c = "" => \A b \in Config!Procs : ~Config!OnBus(b)
<1> DEFINE p == Config!Possible(cSkus)
           Fits(b) == cCpuid = 0 \/ cCpuid \in cSkus[b].detect
<1>1. \A b \in {"A", "B"} : /\ p[b].dids = (IF Fits(b) THEN cSkus[b].dids ELSE {})
                            /\ p[b].dids \subseteq {1, 2} /\ cSkus[b].dids \subseteq {1, 2}
  BY DEF DetectTypes, Config!Possible, Config!Procs
<1> HIDE DEF p
<1>2. CASE cRaw = {}
  BY <1>2 DEF Config!find_sku_data, Config!OnBus, Config!Procs
<1>3. CASE cRaw # {} /\ Config!FromRaw(p) # {}
  <2>1. c \in Config!FromRaw(p)
    BY <1>3 DEF Config!find_sku_data, p
  <2>2. PICK d \in cRaw \cap Config!Listed(p) : c = Config!FirstOf(p, d)
    BY <2>1 DEF Config!FromRaw
  <2>3. c \in {"A", "B"} /\ d \in p[c].dids
    BY <2>2 DEF Config!FirstOf, Config!Listed
  <2>4. cCpuid # 0
    BY <1>3 DEF DetectTypes
  <2>5. Config!OnBus(c) /\ cCpuid \in cSkus[c].detect
    BY <1>1, <2>2, <2>3, <2>4 DEF Config!OnBus
  <2> QED
    BY <2>3, <2>5
<1>4. CASE cRaw # {} /\ Config!FromRaw(p) = {}
  <2>1. \A b \in {"A", "B"} : p[b].dids \cap cRaw = {}
    BY <1>4 DEF Config!FromRaw, Config!Listed
  <2>2. ~ \E b \in Config!Procs : Config!OnBus(b) /\ cCpuid \in cSkus[b].detect
    BY <1>1, <2>1 DEF Config!OnBus, Config!Procs
  <2>3. CASE Config!FromRaw(cSkus) # {}
    <3>1. c \in Config!FromRaw(cSkus)
      BY <1>4, <2>3 DEF Config!find_sku_data, p
    <3>2. PICK d \in cRaw \cap Config!Listed(cSkus) : c = Config!FirstOf(cSkus, d)
      BY <3>1 DEF Config!FromRaw
    <3>3. c \in {"A", "B"} /\ Config!OnBus(c)
      BY <3>2 DEF Config!FirstOf, Config!Listed, Config!OnBus
    <3> QED
      BY <2>2, <3>3
  <2>4. CASE Config!FromRaw(cSkus) = {}
    <3>1. \A b \in Config!Procs : ~Config!OnBus(b)
      BY <2>4 DEF Config!FromRaw, Config!Listed, Config!OnBus, Config!Procs
    <3>2. c \in IF cCpuid # 0 /\ Config!Listed(p) # {} THEN Config!Generic(p) ELSE {""}
      BY <1>4, <2>4 DEF Config!find_sku_data, p
    <3>3. CASE c = ""
      BY <3>1, <3>3
    <3>4. CASE c # ""
      <4>1. Config!Listed(p) # {} /\ cCpuid # 0 /\ c = Config!LastListed(p, Config!LastDid(p))
        BY <3>2, <3>4 DEF Config!Generic
      <4>2. Config!LastDid(p) \in Config!Listed(p)
        <5> DEFINE new == Config!Listed(p) \ cSkus["A"].dids
                   S == IF new # {} THEN new ELSE Config!Listed(p)
        <5>1. S \in SUBSET {1, 2} /\ S # {} /\ S \subseteq Config!Listed(p)
          BY <1>1, <4>1 DEF Config!Listed
        <5>2. Config!LastDid(p) = Config!Max(S)
          BY DEF Config!LastDid
        <5> HIDE DEF S
        <5> QED
          BY <5>1, <5>2, MaxOfIds
      <4>3. c \in {"A", "B"} /\ Config!LastDid(p) \in p[c].dids
        BY <4>1, <4>2 DEF Config!LastListed, Config!Listed
      <4>4. cCpuid \in cSkus[c].detect
        BY <1>1, <4>1, <4>3
      <4> QED
        BY <2>2, <4>3, <4>4
    <3> QED
      BY <3>3, <3>4
  <2> QED
    BY <2>3, <2>4
<1> QED
  BY <1>2, <1>3, <1>4

LEMMA DetectInit == Config!Init => DetectInv
<1> SUFFICES ASSUME Config!Init PROVE DetectInv
  OBVIOUS
<1>1. cSkus \in [Config!Procs -> [dids : SUBSET {1, 2}, detect : SUBSET {1, 2}]]
  <2>1. CASE cExplore
    <3>1. cSkus = [c \in Config!Procs |-> [dids |-> {1, 2}, detect |-> {1, 2}]]
      BY <2>1 DEF Config!Init
    <3> QED
      BY <3>1
  <2>2. CASE ~cExplore
    BY <2>2 DEF Config!Init, Config!NonEmpty
  <2> QED
    BY <2>1, <2>2
<1>2. cArgs \in {"", "A", "B"} \X {"", "P"}
  <2>1. cArgs \in IF cExplore THEN {<<"", "">>} ELSE {"", "A", "B"} \X {"", "P"}
    BY DEF Config!Init
  <2>2. <<"", "">> \in {"", "A", "B"} \X {"", "P"}
    OBVIOUS
  <2> QED
    BY <2>1, <2>2
<1>3. DetectTypes
  BY <1>1, <1>2 DEF Config!Init, DetectTypes
<1> QED
  BY <1>3 DEF Config!Init, DetectInv, Config!DetectionSound

LEMMA DetectStep == DetectInv /\ [Config!Next]_(Config!vars) => DetectInv'
<1> SUFFICES ASSUME DetectInv, [Config!Next]_(Config!vars) PROVE DetectInv'
  OBVIOUS
<1>1. UNCHANGED Config!inputs
  BY DEF Config!Next, Config!DetectProc, Config!DetectPch, Config!Decide, Config!LoadFile, Config!Loaded,
     Config!inputs, Config!vars
<1>2. DetectTypes' /\ \A c : Config!OnBus(c)' <=> Config!OnBus(c)
  BY <1>1 DEF DetectInv, DetectTypes, Config!inputs, Config!OnBus
<1>3. CASE Config!DetectProc
  <2>1. PICK c \in Config!find_sku_data(cArgs[1]) : cCode' = c
    BY <1>3 DEF Config!DetectProc
  <2>2. cPc = "proc" /\ cPc' = "pch" /\ cOutcome' = "none"
    BY <1>3 DEF Config!DetectProc, DetectInv
  <2>3. CASE cArgs[1] = ""
    <3>1. /\ c \in {"", "A", "B"}
          /\ c # "" => /\ Config!OnBus(c) \/ cCpuid \in cSkus[c].detect
                       /\ (\E b \in Config!Procs : Config!OnBus(b) /\ cCpuid \in cSkus[b].detect)
                            => Config!OnBus(c) /\ cCpuid \in cSkus[c].detect
          /\ c = "" => \A b \in Config!Procs : ~Config!OnBus(b)
      BY <2>1, <2>3, FoundFits DEF DetectInv
    <3> QED
      BY <1>1, <1>2, <2>1, <2>2, <2>3, <3>1 DEF DetectInv, Config!DetectionSound, Config!inputs
  <2>4. CASE cArgs[1] # ""
    <3>1. cArgs[1] \in {"A", "B"}
      BY <2>4 DEF DetectInv, DetectTypes
    <3>2. (cRaw # {} => c = cArgs[1]) /\ (cRaw = {} => c = "")
      BY <2>1, <2>4 DEF Config!find_sku_data
    <3> QED
      BY <1>1, <1>2, <2>1, <2>2, <2>4, <3>1, <3>2 DEF DetectInv, Config!DetectionSound, Config!inputs
  <2> QED
    BY <2>3, <2>4
<1>4. CASE UNCHANGED <<cCode, cPchCode, cPc, cOutcome>>
  BY <1>1, <1>2, <1>4 DEF DetectInv, Config!DetectionSound, Config!inputs
<1>5. CASE Config!DetectPch
  BY <1>1, <1>2, <1>5 DEF DetectInv, Config!DetectionSound, Config!inputs, Config!DetectPch
<1>6. CASE Config!Decide
  BY <1>1, <1>2, <1>6 DEF DetectInv, Config!DetectionSound, Config!inputs, Config!Decide
<1>7. CASE Config!Loaded
  BY <1>1, <1>2, <1>7 DEF DetectInv, Config!DetectionSound, Config!inputs, Config!Loaded
<1> QED
  BY <1>3, <1>4, <1>5, <1>6, <1>7 DEF Config!Next, Config!LoadFile, Config!vars

\* Whatever was enumerated and whatever the CPUID and the SKUs, a code that is given is honoured, the
\* processor found fits as well as any can, and init returns only with what it must know (config.py:216).
THEOREM DetectedFits == Spec => []DetectionSound
<1> DEFINE I == part = "config" => DetectInv
<1>1. Init => I
  BY DetectInit DEF Init
<1>2. I /\ [Next]_vars => I'
  BY PartStays, OnlyConfig, DetectStep
<1>3. I => DetectionSound
  BY DEF DetectInv, DetectionSound
<1> QED
  BY <1>1, <1>2, <1>3, PTL DEF Spec

(***************************************************************************)
(* RegisterAccess.  The instance behind a thread or bus, the threads or      *)
(* buses of a call and the PCI kinds, as functions of the register's kind.   *)
(***************************************************************************)
RegCell(k, a) ==
  CASE k = "ima" -> 1
    [] k \in {"msr_packages", "msr_noscope"} -> IF a = 2 THEN 1 ELSE 0
    [] OTHER -> a
RegTargets(k, c) == IF c.op \notin Registers!All THEN <<c.arg>>
  ELSE CASE k \in {"msr_threads", "msr_noscope"} -> <<0, 1, 2>>
         [] k = "msr_packages" -> <<0, 2>>
         [] k = "pci" -> <<1, 2>>
         [] k = "absent" -> IF c.op = "write_all_single" THEN <<1>> ELSE <<>>
         [] OTHER -> <<0>>
RegPci(k) == k \in {"pci", "absent"}

\* A part of a register after the write of a field, from what that part held.
NewLower(f, x, a) == Registers!set_field(a, f, x) % 2
NewUpper(f, x, b) == Registers!set_field(2 * b, f, x) \div 2
NewPart(c, p, b) == IF p = 1 THEN NewLower(c.field, c.value, b) ELSE NewUpper(c.field, c.value, b)

RegTypes ==
  /\ rKind \in Registers!Kinds /\ rOthers \in Nat /\ rSub \in {1, 2} /\ rPc \in {"idle", "read", "write"}
  /\ rCells \in [Registers!Cells -> [1 .. 2 -> 0 .. 3]]
  /\ \A c \in Registers!Cells : rCells[c][1] \in {0, 1}
  /\ rTodo \in Seq(Registers!Cells) /\ rVals \in Seq(0 .. 7)
  /\ (rPc # "idle" \/ rRet = "ok") => rCall \in Registers!Calls
  /\ rPc # "idle" => rTodo # <<>>
  /\ rAcc \in 0 .. 3
  /\ rPc = "read" => rCall.op # "write_all_single"
  /\ (rKind # "ima" /\ ~RegPci(rKind) /\ rPc # "idle") => rSub = 2
  /\ (rKind = "ima" /\ rPc # "idle" /\ rSub = 2) => rIdx = 1

\* A call goes through its threads or buses in order: todo is what is left of them.
RegPlace ==
  LET t == RegTargets(rKind, rCall) IN
  rPc # "idle" =>
    /\ Len(rTodo) <= Len(t)
    /\ \A i \in 1 .. Len(rTodo) : rTodo[i] = t[Len(t) - Len(rTodo) + i]
    /\ Len(rVals) = IF rPc = "read" THEN Len(t) - Len(rTodo) ELSE Len(rTodo)

\* While it reads, the values are what the instances hold, and all of their parts are known as read;
\* a read is about calls that nobody disturbs.
RegRead ==
  LET t == RegTargets(rKind, rCall) IN
  (rPc = "read" /\ (rCall.op \in Registers!Writes \/ rOthers = 0)) =>
    /\ \A i \in 1 .. Len(rVals) : /\ rVals[i] = Registers!Whole(rCells[RegCell(rKind, t[i])])
                                  /\ <<RegCell(rKind, t[i]), 1>> \in rSeen
                                  /\ <<RegCell(rKind, t[i]), 2>> \in rSeen
    /\ (rSub = 2 /\ RegPci(rKind)) => rAcc = rCells[rTodo[1]][2] /\ <<rTodo[1], 2>> \in rSeen

\* While it writes, the values are the instances with the field changed, part by part, except for
\* the lower part of a PCI register between its two writes.
RegBehind(i, p) == i = 1 /\ RegPci(rKind) /\ rSub = 2 /\ p = 1
RegWrite ==
  rPc = "write" =>
    /\ rCall.op \in Registers!Writes
    /\ \A i \in 1 .. Len(rTodo) :
         IF rCall.op = "write_all_single" THEN rVals[i] = rCall.value
         ELSE \A p \in 1 .. 2 : RegBehind(i, p) \/
                /\ Registers!Parts(rVals[i])[p] = NewPart(rCall, p, rCells[RegCell(rKind, rTodo[i])][p])
                /\ <<RegCell(rKind, rTodo[i]), p>> \in rSeen

\* What has been written: the instances of the targets passed, and that lower part.
RegWritten ==
  LET t == RegTargets(rKind, rCall)
      n == IF rPc = "idle" THEN Len(t) ELSE Len(t) - Len(rTodo)
  IN /\ (rPc = "read" \/ (rRet = "none" /\ rPc = "idle")) => rWritten = {}
     /\ (rKind # "absent" /\ (rPc = "write" \/ (rRet = "ok" /\ rCall.op \in Registers!Writes)))
          => rWritten = {<<RegCell(rKind, t[i]), p>> : i \in 1 .. n, p \in 1 .. 2}
                          \cup (IF rPc = "write" /\ RegPci(rKind) /\ rSub = 2 THEN {<<rTodo[1], 1>>} ELSE {})

\* What a read that was not disturbed has returned.
RegResult ==
  LET t == RegTargets(rKind, rCall) IN
  (rPc = "idle" /\ rOthers = 0 /\ rRet = "ok" /\ rCall.op \notin Registers!Writes) =>
    rVals = [i \in 1 .. Len(t) |->
               Registers!get_field(Registers!Whole(rCells[RegCell(rKind, t[i])]), rCall.field)]

RegGood == RegTypes /\ RegPlace /\ RegRead /\ RegWrite /\ RegWritten /\ RegResult /\ rCells = rRef
\* All of it holds until another agent changes a part between its read and its write: then nothing
\* is claimed of the call any more.
RegInv ==
  /\ rClobbered \in BOOLEAN /\ rOthers \in Nat /\ (rOthers = 0 => rClobbered = FALSE)
  /\ rClobbered = FALSE => RegGood /\ (rPc # "idle" => rRet = "none")

\* The functions above are the definitions of RegisterAccess.
LEMMA RegNames ==
  /\ \A a : Registers!CellOf(a) = RegCell(rKind, a)
  /\ \A c : Registers!Targets(c) = RegTargets(rKind, c)
  /\ Registers!IsPci <=> RegPci(rKind)
BY DEF Registers!CellOf, RegCell, Registers!Targets, RegTargets, Registers!Instances, Registers!IsPci, RegPci

\* set_field works part by part, and a second time it changes nothing: what lies in the other part,
\* or that an instance is reached through two threads, makes no difference.
LEMMA FieldParts ==
  ASSUME NEW f \in Registers!Fields, NEW x \in Registers!Values, NEW a \in {0, 1}, NEW b \in 0 .. 3
  PROVE  /\ NewLower(f, x, a) \in {0, 1} /\ NewUpper(f, x, b) \in 0 .. 3
         /\ Registers!set_field(a + 2 * b, f, x) = NewLower(f, x, a) + 2 * NewUpper(f, x, b)
         /\ NewLower(f, x, NewLower(f, x, a)) = NewLower(f, x, a)
         /\ NewUpper(f, x, NewUpper(f, x, b)) = NewUpper(f, x, b)
<1> USE DEF NewLower, NewUpper, Registers!set_field, Registers!get_field, Registers!Values
<1>0. x \in {0, 1, 2} /\ b \in {0, 1, 2, 3}
  OBVIOUS
<1>p. 2^0 = 1 /\ 2^1 = 2 /\ 2^2 = 4
  OBVIOUS
<1>1. CASE f.bit = 1 /\ f.size = 1
  BY <1>0, <1>p, <1>1
<1>2. CASE f.bit = 0 /\ f.size = 2
  BY <1>0, <1>p, <1>2
<1> QED
  BY <1>1, <1>2 DEF Registers!Fields

\* The two parts of a value make the value.
LEMMA PartsFacts ==
  \A n \in 0 .. 7 : /\ Registers!Parts(n)[1] \in {0, 1} /\ Registers!Parts(n)[2] \in 0 .. 3
                    /\ Registers!Parts(n)[1] + 2 * Registers!Parts(n)[2] = n
<1> TAKE n \in 0 .. 7
<1>1. n % 2 \in {0, 1} /\ n \div 2 \in 0 .. 3 /\ (n % 2) + 2 * (n \div 2) = n
  OBVIOUS
<1> QED
  BY <1>1 DEF Registers!Parts

\* The same for the parts of a whole instance.
LEMMA NewPartFacts ==
  ASSUME NEW c, c.field \in Registers!Fields, c.value \in Registers!Values
  PROVE  /\ \A v : (v[1] \in {0, 1} /\ v[2] \in 0 .. 3) =>
              LET n == Registers!set_field(Registers!Whole(v), c.field, c.value)
              IN n \in 0 .. 7 /\ Registers!Parts(n)[1] = NewPart(c, 1, v[1])
                 /\ Registers!Parts(n)[2] = NewPart(c, 2, v[2])
         /\ \A a \in {0, 1} : NewPart(c, 1, a) \in {0, 1} /\ NewPart(c, 1, NewPart(c, 1, a)) = NewPart(c, 1, a)
         /\ \A b \in 0 .. 3 : NewPart(c, 2, b) \in 0 .. 3 /\ NewPart(c, 2, NewPart(c, 2, b)) = NewPart(c, 2, b)
<1> DEFINE f == c.field
           x == c.value
<1> HIDE DEF f, x
<1>0. f \in Registers!Fields /\ x \in Registers!Values
  BY DEF f, x
<1>1. ASSUME NEW v, v[1] \in {0, 1}, v[2] \in 0 .. 3
      PROVE  LET n == Registers!set_field(Registers!Whole(v), f, x)
             IN n \in 0 .. 7 /\ Registers!Parts(n)[1] = NewPart(c, 1, v[1])
                 /\ Registers!Parts(n)[2] = NewPart(c, 2, v[2])
  <2> DEFINE n == Registers!set_field(Registers!Whole(v), f, x)
             l == NewLower(f, x, v[1])
             h == NewUpper(f, x, v[2])
  <2>1. n = l + 2 * h /\ l \in {0, 1} /\ h \in 0 .. 3
    BY <1>0, <1>1, FieldParts DEF Registers!Whole
  <2> HIDE DEF n, l, h
  <2>2. n \in 0 .. 7 /\ n % 2 = l /\ n \div 2 = h
    BY <2>1
  <2> QED
    BY <2>2 DEF n, l, h, f, x, Registers!Parts, NewPart
<1>2. ASSUME NEW a \in {0, 1}
      PROVE  NewPart(c, 1, a) \in {0, 1} /\ NewPart(c, 1, NewPart(c, 1, a)) = NewPart(c, 1, a)
  <2>1. 0 \in 0 .. 3
    OBVIOUS
  <2> QED
    BY <1>0, <2>1, FieldParts DEF NewPart, f, x
<1>3. ASSUME NEW b \in 0 .. 3
      PROVE  NewPart(c, 2, b) \in 0 .. 3 /\ NewPart(c, 2, NewPart(c, 2, b)) = NewPart(c, 2, b)
  BY <1>0, FieldParts DEF NewPart, f, x
<1> QED
  BY <1>1, <1>2, <1>3 DEF f, x

\* What a call may be about.
LEMMA TargetFacts ==
  ASSUME rKind \in Registers!Kinds, NEW c \in Registers!Calls
  PROVE  /\ c.field \in Registers!Fields /\ c.value \in Registers!Values /\ c.op \in Registers!Ops
         /\ RegTargets(rKind, c) \in Seq(Registers!Cells) /\ Len(RegTargets(rKind, c)) \in 0 .. 3
         /\ c.op = "write_all_single" => RegTargets(rKind, c) # <<>>
         /\ \A a \in Registers!Cells : RegCell(rKind, a) \in Registers!Cells
         /\ RegPci(rKind) => \A a : RegCell(rKind, a) = a
         /\ rKind = "ima" => \A a : RegCell(rKind, a) = 1
<1>1. c \in [op : Registers!Ops, arg : Registers!Cells, field : Registers!Fields, value : Registers!Values]
  BY DEF Registers!Calls
<1>2. 0 \in Registers!Cells /\ 1 \in Registers!Cells /\ 2 \in Registers!Cells
  BY DEF Registers!Cells
<1> HIDE DEF Registers!Cells
<1>3. /\ RegTargets(rKind, c) \in Seq(Registers!Cells) /\ Len(RegTargets(rKind, c)) \in 0 .. 3
      /\ c.op = "write_all_single" => RegTargets(rKind, c) # <<>>
  BY <1>1, <1>2 DEF RegTargets, Registers!All, Registers!Kinds
<1>4. /\ \A a \in Registers!Cells : RegCell(rKind, a) \in Registers!Cells
      /\ RegPci(rKind) => \A a : RegCell(rKind, a) = a
      /\ rKind = "ima" => \A a : RegCell(rKind, a) = 1
  BY <1>2 DEF RegCell, RegPci
<1> QED
  BY <1>1, <1>3, <1>4

\* One lemma for each kind of step: it keeps the invariant.
LEMMA RegInit == ASSUME Registers!Init PROVE RegInv
<1> USE DEF Registers!Init
<1>1. RegTypes
  <2>1. 0 \in 0 .. 3 /\ 1 \in 0 .. 3 /\ 2 \in 0 .. 3 /\ 3 \in 0 .. 3
    OBVIOUS
  <2>2. \A a, b \in 0 .. 3 : <<a, b>> \in [1 .. 2 -> 0 .. 3]
    OBVIOUS
  <2>3. rCells \in [Registers!Cells -> [1 .. 2 -> 0 .. 3]]
    BY <2>1, <2>2 DEF Registers!AllOnes
  <2>4. \A c \in Registers!Cells : rCells[c][1] \in {0, 1}
    BY DEF Registers!AllOnes
  <2> QED
    BY <2>1, <2>3, <2>4 DEF RegTypes
<1> QED
  <2>1. RegPlace /\ RegRead /\ RegWrite
    BY DEF RegPlace, RegRead, RegWrite
  <2>2. RegWritten
    BY DEF RegWritten
  <2>3. RegResult
    BY DEF RegResult
  <2> QED
    BY <1>1, <2>1, <2>2, <2>3 DEF RegInv, RegGood

LEMMA RegBegin ==
  ASSUME RegInv, NEW c \in Registers!Calls, Registers!Begin(c)
  PROVE  RegInv'
<1> DEFINE t == RegTargets(rKind, c)
<1>0. SUFFICES ASSUME rClobbered = FALSE PROVE RegGood'
  BY RegNames DEF RegInv, Registers!Begin, Registers!Idle
<1>1. /\ rKind' = rKind /\ rCells' = rCells /\ rRef' = rRef /\ rWritten' = rWritten /\ rIdx' = rIdx
      /\ rOthers' = rOthers /\ rCall' = c /\ rPc = "idle" /\ rRet = "none" /\ rTodo' = t
      /\ rSub' = (IF RegPci(rKind) \/ rKind = "ima" THEN 1 ELSE 2)
  BY RegNames DEF Registers!Begin, Registers!FirstSub, Registers!Idle
<1>2. \/ /\ c.op = "write_all_single" /\ rPc' = "write" /\ rRet' = "none"
         /\ rVals' = [i \in DOMAIN t |-> c.value]
      \/ c.op # "write_all_single" /\ rVals' = <<>> /\ t # <<>> /\ rPc' = "read" /\ rRet' = "none"
      \/ /\ c.op # "write_all_single" /\ rVals' = <<>> /\ t = <<>> /\ rPc' = "idle"
         /\ rRet' = IF c.op \in Registers!Writes THEN "false" ELSE "ok"
  BY RegNames DEF Registers!Begin, Registers!Idle
<1>3. /\ c.value \in 0 .. 7 /\ t \in Seq(Registers!Cells) /\ Len(t) \in Nat /\ DOMAIN t = 1 .. Len(t)
      /\ c.op = "write_all_single" => t # <<>>
  BY <1>0, TargetFacts DEF RegInv, RegGood, RegTypes, Registers!Values
<1>4. RegGood
  BY <1>0 DEF RegInv
<1> HIDE DEF t
<1>5. rVals' \in Seq(0 .. 7) /\ (rPc' = "write" => Len(rVals') = Len(t)) /\ (rPc' # "write" => rVals' = <<>>)
  <2>1. CASE c.op = "write_all_single"
    <3>1. rVals' = [i \in 1 .. Len(t) |-> c.value] /\ rPc' = "write"
      BY <1>2, <1>3, <2>1
    <3> QED
      BY <1>3, <3>1
  <2>2. CASE c.op # "write_all_single"
    <3>1. <<>> \in Seq(0 .. 7)
      OBVIOUS
    <3>2. rVals' = <<>> /\ rPc' # "write"
      BY <1>2, <2>2
    <3> QED
      BY <3>1, <3>2
  <2> QED
    BY <2>1, <2>2
<1>6. RegTypes'
  <2>1. rAcc' = rAcc
    BY DEF Registers!Begin
  <2> QED
    BY <1>1, <1>2, <1>3, <1>4, <1>5, <2>1 DEF RegTypes, RegGood, RegPci, Registers!Calls, Registers!IsPci
<1>7. RegPlace'
  <2>1. \A i \in 1 .. Len(t) : Len(t) - Len(t) + i = i
    BY <1>3
  <2>2. rTodo' = RegTargets(rKind', rCall')
    BY <1>1 DEF t
  <2>3. Len(<<>>) = 0
    OBVIOUS
  <2> QED
    BY <1>1, <1>2, <1>3, <1>5, <2>1, <2>2, <2>3 DEF RegPlace
<1>8. RegRead'
  BY <1>1, <1>2, <1>3 DEF RegRead
<1>9. RegWrite'
  BY <1>1, <1>2, <1>3 DEF RegWrite, Registers!Writes, Registers!Ops
<1>10. RegWritten'
  <2>1. rWritten' = {}
    BY <1>1, <1>4 DEF RegGood, RegWritten
  <2>2. rTodo' = RegTargets(rKind', rCall')
    BY <1>1 DEF t
  <2> QED
    BY <1>1, <1>2, <1>3, <2>1, <2>2 DEF RegWritten
<1>11. RegResult'
  <2>2. t = RegTargets(rKind', rCall')
    BY <1>1 DEF t
  <2> QED
    BY <1>1, <1>2, <1>3, <2>2 DEF RegResult
<1> QED
  BY <1>1, <1>4, <1>6, <1>7, <1>8, <1>9, <1>10, <1>11 DEF RegGood

LEMMA RegFail == ASSUME RegInv, Registers!Fail PROVE RegInv'
<1> SUFFICES ASSUME rClobbered = FALSE PROVE RegGood'
  BY DEF RegInv, Registers!Fail
<1>1. RegGood /\ rPc' = "idle" /\ rRet' \in {"false", "raised"}
  BY DEF RegInv, Registers!Fail
<1>2. UNCHANGED <<rKind, rCells, rRef, rOthers, rSub, rTodo, rAcc, rVals, rWritten>>
  BY DEF Registers!Fail
<1>3. RegTypes'
  BY <1>1, <1>2 DEF RegGood, RegTypes
<1>4. RegPlace' /\ RegRead' /\ RegWrite' /\ RegResult'
  BY <1>1 DEF RegPlace, RegRead, RegWrite, RegResult
<1>5. RegWritten'
  BY <1>1 DEF RegWritten
<1> QED
  BY <1>1, <1>2, <1>3, <1>4, <1>5 DEF RegGood

LEMMA RegReadFirst == ASSUME RegInv, Registers!ReadFirst PROVE RegInv'
<1> SUFFICES ASSUME rClobbered = FALSE PROVE RegGood'
  BY DEF RegInv, Registers!ReadFirst
<1>1. RegGood /\ rPc = "read" /\ rPc' = "read" /\ rRet = "none" /\ rSub = 1 /\ rSub' = 2
  BY DEF RegInv, Registers!ReadFirst
<1>2. UNCHANGED <<rKind, rCells, rRef, rCall, rOthers, rTodo, rVals, rWritten, rRet>>
  BY DEF Registers!ReadFirst
<1>3. \/ rKind = "ima" /\ rIdx' = 1 /\ rSeen' = rSeen
      \/ /\ RegPci(rKind) /\ rAcc' = rCells[rTodo[1]][2]
         /\ rSeen' = rSeen \cup {<<rTodo[1], 2>>}
  BY RegNames DEF Registers!ReadFirst
<1>4. RegTypes'
  <2>1. rCall' \in Registers!Calls'
    BY <1>1, <1>2 DEF RegGood, RegTypes, Registers!Calls, Registers!IsPci
  <2>2. rAcc' \in 0 .. 3
    <3>1. rTodo[1] \in Registers!Cells
      BY <1>1 DEF RegGood, RegTypes
    <3>2. \A d \in Registers!Cells : rCells[d][2] \in 0 .. 3
      BY <1>1 DEF RegGood, RegTypes
    <3>3. rAcc' = rAcc \/ rAcc' = rCells[rTodo[1]][2]
      BY DEF Registers!ReadFirst
    <3> QED
      BY <1>1, <3>1, <3>2, <3>3 DEF RegGood, RegTypes
  <2> QED
    BY <1>1, <1>2, <1>3, <2>1, <2>2 DEF RegGood, RegTypes, RegPci
<1>5. RegPlace' /\ RegWrite' /\ RegResult' /\ RegWritten'
  BY <1>1, <1>2 DEF RegGood, RegPlace, RegWrite, RegResult, RegWritten
<1>6. RegRead'
  BY <1>1, <1>2, <1>3 DEF RegGood, RegRead, RegPci
<1> QED
  BY <1>1, <1>2, <1>4, <1>5, <1>6 DEF RegGood

LEMMA RegOtherSelects == ASSUME RegInv, Registers!OtherSelects PROVE RegInv'
<1> SUFFICES ASSUME rClobbered' = FALSE PROVE RegGood'
  <2>1. /\ rClobbered' \in BOOLEAN /\ (rClobbered' = FALSE => rClobbered = FALSE)
        /\ rOthers' = rOthers + 1 /\ rPc' = rPc /\ rRet' = rRet
    BY DEF RegInv, Registers!OtherSelects
  <2>2. rOthers' \in Nat /\ rOthers' # 0
    BY <2>1 DEF RegInv
  <2> QED
    BY <2>1, <2>2 DEF RegInv
<1>1. RegGood /\ rPc # "idle" /\ rRet = "none" /\ rSub # 2 /\ rKind = "ima" /\ rOthers' = rOthers + 1
  BY DEF RegInv, Registers!OtherSelects, Registers!Idle
<1>2. UNCHANGED <<rKind, rCells, rRef, rCall, rPc, rTodo, rSub, rAcc, rVals, rSeen, rWritten, rRet>>
  BY DEF Registers!OtherSelects
<1>3. rOthers' \in Nat /\ rOthers' # 0
  BY <1>1 DEF RegGood, RegTypes
<1>4. RegTypes'
  <2>1. rCall' \in Registers!Calls'
    BY <1>1, <1>2 DEF RegGood, RegTypes, Registers!Calls, Registers!IsPci
  <2> QED
    BY <1>1, <1>2, <1>3, <2>1 DEF RegGood, RegTypes, RegPci
<1>5. RegPlace' /\ RegWrite' /\ RegResult' /\ RegWritten'
  BY <1>1, <1>2 DEF RegGood, RegPlace, RegWrite, RegBehind, RegResult, RegWritten
<1>6. RegRead'
  BY <1>1, <1>2, <1>3 DEF RegGood, RegRead, RegPci
<1> QED
  BY <1>1, <1>2, <1>4, <1>5, <1>6 DEF RegGood

LEMMA RegOtherWrites ==
  ASSUME RegInv, NEW c \in Registers!Used, NEW p \in {1, 2}, NEW v \in Registers!PartValues[p],
         Registers!OtherWrites(c, p, v)
  PROVE  RegInv'
<1> SUFFICES ASSUME rClobbered' = FALSE PROVE RegGood'
  <2>1. /\ rClobbered' \in BOOLEAN /\ (rClobbered' = FALSE => rClobbered = FALSE)
        /\ rOthers' = rOthers + 1 /\ rPc' = rPc /\ rRet' = rRet
    BY DEF RegInv, Registers!OtherWrites
  <2>2. rOthers' \in Nat /\ rOthers' # 0
    BY <2>1 DEF RegInv
  <2> QED
    BY <2>1, <2>2 DEF RegInv
<1>1. RegGood /\ rPc # "idle" /\ rRet = "none" /\ rOthers' = rOthers + 1 /\ ~Registers!Pending(c, p)
  BY DEF RegInv, Registers!OtherWrites, Registers!Idle
<1>2. UNCHANGED <<rKind, rIdx, rCall, rPc, rTodo, rSub, rAcc, rVals, rSeen, rWritten, rRet>>
  BY DEF Registers!OtherWrites
<1>3. rOthers' \in Nat /\ rOthers' # 0
  BY <1>1 DEF RegGood, RegTypes
<1>4. /\ c \in Registers!Cells
      /\ rCells' = [rCells EXCEPT ![c][p] = v] /\ rRef' = [rRef EXCEPT ![c][p] = v]
  <2>1. Registers!Used \subseteq Registers!Cells
    <3>1. {0, 1, 2} \subseteq Registers!Cells
      BY DEF Registers!Cells
    <3> QED
      BY <1>1, <3>1 DEF Registers!Used, Registers!CellOf, Registers!Instances, RegGood, RegTypes, Registers!Kinds
  <2> QED
    BY <2>1 DEF Registers!OtherWrites
<1>5. rCells' \in [Registers!Cells -> [1 .. 2 -> 0 .. 3]] /\ \A d \in Registers!Cells : rCells'[d][1] \in {0, 1}
  <2>1. v \in 0 .. 3 /\ (p = 1 => v \in {0, 1}) /\ p \in 1 .. 2
    BY DEF Registers!PartValues
  <2> QED
    BY <1>1, <1>4, <2>1 DEF RegGood, RegTypes
<1>6. RegTypes'
  <2>1. rCall' \in Registers!Calls'
    BY <1>1, <1>2 DEF RegGood, RegTypes, Registers!Calls, Registers!IsPci
  <2> QED
    BY <1>1, <1>2, <1>3, <1>5, <2>1 DEF RegGood, RegTypes, RegPci
<1>7. RegPlace' /\ RegResult' /\ RegWritten'
  BY <1>1, <1>2 DEF RegGood, RegPlace, RegResult, RegWritten
<1>8. \A d \in Registers!Cells, q \in 1 .. 2 : (d # c \/ q # p) => rCells'[d][q] = rCells[d][q]
  BY <1>1, <1>4 DEF RegGood, RegTypes
<1>9. RegRead'
  <2> SUFFICES ASSUME rPc = "read", rCall.op \in Registers!Writes PROVE RegRead'
    BY <1>2, <1>3 DEF RegRead
  <2>1. <<c, p>> \notin rSeen
    BY <1>1 DEF Registers!Pending
  <2> DEFINE t == RegTargets(rKind, rCall)
  <2>2. /\ t \in Seq(Registers!Cells) /\ Len(rVals) <= Len(t) /\ Len(rVals) \in Nat /\ Len(t) \in Nat
        /\ \A a \in Registers!Cells : RegCell(rKind, a) \in Registers!Cells
    BY <1>1, TargetFacts DEF RegGood, RegTypes, RegPlace
  <2>3. \A i \in 1 .. Len(rVals) : t[i] \in Registers!Cells
    BY <2>2
  <2>4. rTodo[1] \in Registers!Cells
    BY <1>1 DEF RegGood, RegTypes
  <2> HIDE DEF t
  <2>5. t = RegTargets(rKind, rCall) /\ t = RegTargets(rKind', rCall')
    BY <1>2 DEF t
  <2>6. ASSUME NEW i \in 1 .. Len(rVals)
        PROVE  /\ rVals[i] = Registers!Whole(rCells'[RegCell(rKind, t[i])])
               /\ <<RegCell(rKind, t[i]), 1>> \in rSeen
               /\ <<RegCell(rKind, t[i]), 2>> \in rSeen
    <3> DEFINE d == RegCell(rKind, t[i])
    <3>1. d \in Registers!Cells
      BY <2>2, <2>3
    <3>2. rVals[i] = Registers!Whole(rCells[d]) /\ <<d, 1>> \in rSeen /\ <<d, 2>> \in rSeen
      BY <1>1, <2>5 DEF RegGood, RegRead
    <3>3. d # c
      BY <2>1, <3>2
    <3> HIDE DEF d
    <3>4. rCells'[d][1] = rCells[d][1] /\ rCells'[d][2] = rCells[d][2]
      BY <1>8, <3>1, <3>3
    <3> QED
      BY <3>2, <3>4 DEF d, Registers!Whole
  <2>7. (rSub = 2 /\ RegPci(rKind)) => rAcc = rCells'[rTodo[1]][2] /\ <<rTodo[1], 2>> \in rSeen
    <3> SUFFICES ASSUME rSub = 2, RegPci(rKind) PROVE rAcc = rCells'[rTodo[1]][2] /\ <<rTodo[1], 2>> \in rSeen
      OBVIOUS
    <3>1. rAcc = rCells[rTodo[1]][2] /\ <<rTodo[1], 2>> \in rSeen
      BY <1>1 DEF RegGood, RegRead
    <3>2. rTodo[1] # c \/ 2 # p
      BY <2>1, <3>1
    <3> QED
      BY <1>8, <2>4, <3>1, <3>2
  <2> QED
    BY <1>2, <2>5, <2>6, <2>7 DEF RegRead
<1>10. RegWrite'
  <2> SUFFICES ASSUME rPc = "write" PROVE RegWrite'
    BY <1>2 DEF RegWrite
  <2>1. rCall.op \in Registers!Writes
    BY <1>1 DEF RegGood, RegWrite
  <2>2. DOMAIN rTodo = 1 .. Len(rTodo) /\ \A i \in 1 .. Len(rTodo) : rTodo[i] \in Registers!Cells
    BY <1>1 DEF RegGood, RegTypes
  <2>3. \A a \in Registers!Cells : RegCell(rKind, a) \in Registers!Cells
    BY <1>1, TargetFacts DEF RegGood, RegTypes
  <2>4. ASSUME NEW i \in 1 .. Len(rTodo), NEW q \in 1 .. 2, rCall.op # "write_all_single", ~RegBehind(i, q)
        PROVE  /\ Registers!Parts(rVals[i])[q] = NewPart(rCall, q, rCells'[RegCell(rKind, rTodo[i])][q])
               /\ <<RegCell(rKind, rTodo[i]), q>> \in rSeen
    <3>1. /\ Registers!Parts(rVals[i])[q] = NewPart(rCall, q, rCells[RegCell(rKind, rTodo[i])][q])
          /\ <<RegCell(rKind, rTodo[i]), q>> \in rSeen
      BY <1>1, <2>4 DEF RegGood, RegWrite
    <3>2. RegCell(rKind, rTodo[i]) # c \/ q # p
      <4> SUFFICES ASSUME RegCell(rKind, rTodo[i]) = c, q = p PROVE Registers!Pending(c, p)
        BY <1>1
      <4> QED
        BY <2>1, <2>2, <2>4, <3>1, RegNames DEF Registers!Pending, RegBehind
    <3> QED
      BY <1>8, <2>2, <2>3, <3>1, <3>2
  <2>5. \A i \in 1 .. Len(rTodo) : rCall.op = "write_all_single" => rVals[i] = rCall.value
    BY <1>1 DEF RegGood, RegWrite
  <2> QED
    BY <1>2, <2>1, <2>4, <2>5 DEF RegWrite, RegBehind
<1> QED
  BY <1>1, <1>4, <1>6, <1>7, <1>9, <1>10 DEF RegGood

\* One write puts into a part what it is meant to hold, and leaves the values still to be written
\* right for the instances they go to, the one just written included.
LEMMA RegStore ==
  ASSUME RegGood, rPc = "write", NEW c, c = RegCell(rKind, rTodo[1]), NEW ps \in SUBSET (1 .. 2),
         \A p \in ps : ~RegBehind(1, p), Registers!Store(c, ps)
  PROVE  /\ rCells' = rRef'
         /\ rCells' \in [Registers!Cells -> [1 .. 2 -> 0 .. 3]]
         /\ \A d \in Registers!Cells : rCells'[d][1] \in {0, 1}
         /\ rCall.op # "write_all_single" =>
              \A d \in Registers!Cells, q \in 1 .. 2 : NewPart(rCall, q, rCells'[d][q]) = NewPart(rCall, q, rCells[d][q])
<1>1. /\ rCall \in Registers!Calls /\ rTodo # <<>> /\ rTodo \in Seq(Registers!Cells) /\ rVals \in Seq(0 .. 7)
      /\ Len(rVals) = Len(rTodo) /\ rKind \in Registers!Kinds /\ rCells = rRef
      /\ rCells \in [Registers!Cells -> [1 .. 2 -> 0 .. 3]]
      /\ \A d \in Registers!Cells : rCells[d][1] \in {0, 1}
  BY DEF RegGood, RegTypes, RegPlace
<1>2. Len(rTodo) \in Nat \ {0} /\ rTodo[1] \in Registers!Cells /\ rVals[1] \in 0 .. 7
  BY <1>1
<1>3. c \in Registers!Cells /\ rCall.field \in Registers!Fields /\ rCall.value \in Registers!Values
  BY <1>1, <1>2, TargetFacts
<1> DEFINE n == Registers!Meant(rCells[c])
<1>4. /\ rCells[c][1] \in {0, 1} /\ rCells[c][2] \in 0 .. 3
      /\ \A d \in Registers!Cells : rCells[d][2] \in 0 .. 3
  BY <1>1, <1>3
<1>5. \A p \in ps : Registers!Parts(rVals[1])[p] = Registers!Parts(n)[p]
  <2>1. CASE rCall.op = "write_all_single"
    <3>1. 1 \in 1 .. Len(rTodo)
      BY <1>2
    <3>2. rVals[1] = rCall.value
      BY <2>1, <3>1 DEF RegGood, RegWrite
    <3>3. n = rCall.value
      BY <2>1 DEF Registers!Meant
    <3> HIDE DEF n
    <3> QED
      BY <3>2, <3>3
  <2>2. CASE rCall.op # "write_all_single"
    <3>1. \A p \in ps : Registers!Parts(rVals[1])[p] = NewPart(rCall, p, rCells[c][p])
      <4>1. 1 \in 1 .. Len(rTodo)
        BY <1>2
      <4> QED
        BY <2>2, <4>1 DEF RegGood, RegWrite
    <3>2. n = Registers!set_field(Registers!Whole(rCells[c]), rCall.field, rCall.value)
      BY <2>2 DEF Registers!Meant
    <3>3. /\ Registers!Parts(n)[1] = NewPart(rCall, 1, rCells[c][1])
          /\ Registers!Parts(n)[2] = NewPart(rCall, 2, rCells[c][2])
      BY <1>3, <1>4, <3>2, NewPartFacts
    <3> HIDE DEF n
    <3>4. \A p \in ps : p = 1 \/ p = 2
      OBVIOUS
    <3> QED
      BY <3>1, <3>3, <3>4
  <2> QED
    BY <2>1, <2>2
<1> HIDE DEF n
<1>6. CASE rKind = "absent"
  BY <1>1, <1>6 DEF Registers!Store
<1>7. CASE rKind # "absent"
  <2> DEFINE f == [p \in 1 .. 2 |-> IF p \in ps THEN Registers!Parts(rVals[1])[p] ELSE rCells[c][p]]
             g == [p \in 1 .. 2 |-> IF p \in ps THEN Registers!Parts(n)[p] ELSE rCells[c][p]]
  <2>1. f = g
    BY <1>5
  <2>2. rCells' = [rCells EXCEPT ![c] = f]
    BY <1>7 DEF Registers!Store
  <2>3. rRef' = [rCells EXCEPT ![c] = g]
    <3>1. Registers!CellOf(rTodo[1]) = c
      BY RegNames
    <3> QED
      BY <1>1, <1>7, <3>1 DEF Registers!Store, n
  <2>4. f \in [1 .. 2 -> 0 .. 3] /\ f[1] \in {0, 1}
    <3>1. \A p \in 1 .. 2 : f[p] \in 0 .. 3
      <4>1. Registers!Parts(rVals[1])[1] \in 0 .. 3 /\ Registers!Parts(rVals[1])[2] \in 0 .. 3
        BY <1>2, PartsFacts
      <4>2. \A p \in 1 .. 2 : p = 1 \/ p = 2
        OBVIOUS
      <4>3. \A p \in 1 .. 2 : f[p] = IF p \in ps THEN Registers!Parts(rVals[1])[p] ELSE rCells[c][p]
        OBVIOUS
      <4>4. rCells[c][1] \in 0 .. 3 /\ rCells[c][2] \in 0 .. 3
        BY <1>4
      <4> HIDE DEF f
      <4> QED
        BY <4>1, <4>2, <4>3, <4>4
    <3>2. f[1] \in {0, 1}
      <4>1. f[1] = IF 1 \in ps THEN Registers!Parts(rVals[1])[1] ELSE rCells[c][1]
        OBVIOUS
      <4>2. Registers!Parts(rVals[1])[1] \in {0, 1}
        BY <1>2, PartsFacts
      <4> HIDE DEF f
      <4> QED
        BY <1>4, <4>1, <4>2
    <3> QED
      BY <3>1, <3>2
  <2>5. rCall.op # "write_all_single" => \A q \in 1 .. 2 : NewPart(rCall, q, f[q]) = NewPart(rCall, q, rCells[c][q])
    <3> SUFFICES ASSUME rCall.op # "write_all_single", NEW q \in 1 .. 2
                 PROVE  NewPart(rCall, q, f[q]) = NewPart(rCall, q, rCells[c][q])
      OBVIOUS
    <3>1. CASE q \in ps
      <4>1. f[q] = NewPart(rCall, q, rCells[c][q])
        <5>1. 1 \in 1 .. Len(rTodo)
          BY <1>2
        <5>2. Registers!Parts(rVals[1])[q] = NewPart(rCall, q, rCells[c][q])
          BY <3>1, <5>1 DEF RegGood, RegWrite
        <5> QED
          BY <3>1, <5>2
      <4>2. q = 1 \/ q = 2
        OBVIOUS
      <4> HIDE DEF f
      <4> QED
        BY <1>3, <1>4, <4>1, <4>2, NewPartFacts
    <3>2. CASE q \notin ps
      BY <3>2
    <3> QED
      BY <3>1, <3>2
  <2> HIDE DEF f, g
  <2>6. rCells'[c] = f /\ \A d \in Registers!Cells : d # c => rCells'[d] = rCells[d]
    BY <1>1, <1>3, <2>2
  <2> QED
    BY <1>1, <1>3, <2>1, <2>2, <2>3, <2>4, <2>5, <2>6
<1> QED
  BY <1>6, <1>7

LEMMA RegWriteFirst == ASSUME RegInv, Registers!WriteFirst PROVE RegInv'
<1> SUFFICES ASSUME rClobbered = FALSE PROVE RegGood'
  BY DEF RegInv, Registers!WriteFirst
<1>1. RegGood /\ rPc = "write" /\ rPc' = "write" /\ rRet = "none" /\ rSub = 1 /\ rSub' = 2
  BY DEF RegInv, Registers!WriteFirst
<1>2. UNCHANGED <<rKind, rCall, rOthers, rTodo, rAcc, rVals, rSeen, rRet>>
  BY DEF Registers!WriteFirst
<1>3. RegPlace' /\ RegRead' /\ RegResult'
  BY <1>1, <1>2 DEF RegGood, RegPlace, RegRead, RegResult
<1>4. rCall' \in Registers!Calls'
  BY <1>1, <1>2 DEF RegGood, RegTypes, Registers!Calls, Registers!IsPci
<1>5. CASE rKind = "ima" /\ rIdx' = 1 /\ UNCHANGED <<rCells, rRef, rWritten>>
  <2>1. RegTypes'
    BY <1>1, <1>2, <1>4, <1>5 DEF RegGood, RegTypes, RegPci
  <2>2. RegWrite'
    BY <1>1, <1>2, <1>5 DEF RegGood, RegWrite, RegBehind
  <2>3. RegWritten'
    BY <1>1, <1>2, <1>5 DEF RegGood, RegWritten, RegPci
  <2> QED
    BY <1>1, <1>3, <1>5, <2>1, <2>2, <2>3 DEF RegGood
<1>6. CASE RegPci(rKind) /\ Registers!Store(rTodo[1], {1}) /\ UNCHANGED rIdx
  <2>0. rTodo[1] = RegCell(rKind, rTodo[1])
    BY <1>6 DEF RegCell, RegPci
  <2>1. {1} \in SUBSET (1 .. 2) /\ \A p \in {1} : ~RegBehind(1, p)
    BY <1>1 DEF RegBehind
  <2>2. /\ rCells' = rRef'
        /\ rCells' \in [Registers!Cells -> [1 .. 2 -> 0 .. 3]]
        /\ \A d \in Registers!Cells : rCells'[d][1] \in {0, 1}
        /\ rCall.op # "write_all_single" =>
              \A d \in Registers!Cells, q \in 1 .. 2 : NewPart(rCall, q, rCells'[d][q]) = NewPart(rCall, q, rCells[d][q])
    BY <1>1, <1>6, <2>0, <2>1, RegStore
  <2>3. RegTypes'
    BY <1>1, <1>2, <1>4, <1>6, <2>2 DEF RegGood, RegTypes, RegPci
  <2>4. RegWrite'
    <3>1. \A i \in 1 .. Len(rTodo) : RegCell(rKind, rTodo[i]) \in Registers!Cells
      BY <1>1, TargetFacts DEF RegGood, RegTypes
    <3>2. \A i \in 1 .. Len(rTodo), q \in 1 .. 2 : RegBehind(i, q) => RegBehind(i, q)'
      BY <1>1 DEF RegBehind
    <3> QED
      BY <1>1, <1>2, <2>2, <3>1, <3>2 DEF RegGood, RegWrite
  <2>5. RegWritten'
    <3>1. rWritten' = rWritten \cup {<<rTodo[1], 1>>}
      BY <1>6 DEF Registers!Store
    <3> QED
      BY <1>1, <1>2, <1>6, <3>1 DEF RegGood, RegWritten
  <2> QED
    BY <1>3, <2>2, <2>3, <2>4, <2>5 DEF RegGood
<1> QED
  BY <1>5, <1>6, RegNames DEF Registers!WriteFirst

LEMMA RegWriteLast == ASSUME RegInv, Registers!WriteLast PROVE RegInv'
<1> SUFFICES ASSUME rClobbered = FALSE PROVE RegGood' /\ (rPc' # "idle" => rRet' = "none")
  BY DEF RegInv, Registers!WriteLast
<1> DEFINE t == RegTargets(rKind, rCall)
           c == RegCell(rKind, rTodo[1])
           n == Len(t) - Len(rTodo)
           ps == IF RegPci(rKind) THEN {2} ELSE {1, 2}
<1>1. RegGood /\ rPc = "write" /\ rRet = "none" /\ rSub = 2
  BY DEF RegInv, Registers!WriteLast
<1>2. /\ UNCHANGED <<rKind, rCall, rOthers, rAcc, rSeen, rIdx>>
      /\ rTodo' = Tail(rTodo) /\ rVals' = Tail(rVals)
      /\ rSub' = (IF RegPci(rKind) \/ rKind = "ima" THEN 1 ELSE 2)
      /\ \/ Len(rTodo) > 1 /\ rPc' = "write" /\ rRet' = "none"
         \/ Len(rTodo) = 1 /\ rPc' = "idle" /\ rRet' = "ok"
  BY <1>1, RegNames DEF Registers!WriteLast, Registers!FirstSub
<1>p. \/ Len(rTodo) > 1 /\ rPc' = "write" /\ rRet' = "none"
      \/ Len(rTodo) = 1 /\ rPc' = "idle" /\ rRet' = "ok"
  BY <1>2
<1>k. rKind' = rKind /\ rSub' = (IF RegPci(rKind) \/ rKind = "ima" THEN 1 ELSE 2)
  BY <1>2
<1>3. Registers!Store(c, ps)
  <2>1. RegPci(rKind) => c = rTodo[1]
    BY DEF RegCell, RegPci
  <2>2. rKind = "ima" => c = rIdx
    BY <1>1 DEF RegGood, RegTypes, RegCell
  <2> QED
    BY <2>1, <2>2, RegNames DEF Registers!WriteLast, RegPci
<1>4. ps \in SUBSET (1 .. 2) /\ \A p \in ps : ~RegBehind(1, p)
  BY DEF RegBehind
<1>5. /\ rCells' = rRef'
      /\ rCells' \in [Registers!Cells -> [1 .. 2 -> 0 .. 3]]
      /\ \A d \in Registers!Cells : rCells'[d][1] \in {0, 1}
      /\ rCall.op # "write_all_single" =>
            \A d \in Registers!Cells, q \in 1 .. 2 : NewPart(rCall, q, rCells'[d][q]) = NewPart(rCall, q, rCells[d][q])
  <2> HIDE DEF ps, c
  <2>1. c = RegCell(rKind, rTodo[1])
    BY DEF c
  <2> QED
    BY <1>1, <1>3, <1>4, <2>1, RegStore
<1>6. /\ rCall \in Registers!Calls /\ rTodo # <<>> /\ rTodo \in Seq(Registers!Cells) /\ rVals \in Seq(0 .. 7)
      /\ Len(rVals) = Len(rTodo) /\ rKind \in Registers!Kinds /\ Len(rTodo) <= Len(t)
      /\ \A i \in 1 .. Len(rTodo) : rTodo[i] = t[Len(t) - Len(rTodo) + i]
  BY <1>1 DEF RegGood, RegTypes, RegPlace
<1>7. Len(t) \in Nat /\ Len(rTodo) \in Nat \ {0} /\ t \in Seq(Registers!Cells)
  BY <1>6, TargetFacts
<1>8. /\ rTodo' \in Seq(Registers!Cells) /\ rVals' \in Seq(0 .. 7)
      /\ Len(rTodo') = Len(rTodo) - 1 /\ Len(rVals') = Len(rTodo) - 1
      /\ \A i \in 1 .. Len(rTodo) - 1 : rTodo'[i] = rTodo[i + 1] /\ rVals'[i] = rVals[i + 1]
  BY <1>2, <1>6, <1>7
<1> HIDE DEF t, c, ps
<1>9. t = RegTargets(rKind, rCall) /\ RegTargets(rKind', rCall') = t
  BY <1>2 DEF t
<1>10. RegTypes'
  <2>1. rCall' \in Registers!Calls'
    BY <1>2, <1>6 DEF Registers!Calls, Registers!IsPci
  <2>2. rPc' # "idle" => rTodo' # <<>>
    <3>1. Len(<<>>) = 0
      OBVIOUS
    <3>2. rPc' # "idle" => Len(rTodo') > 0
      BY <1>2, <1>7, <1>8
    <3> QED
      BY <3>1, <3>2
  <2>3. rSub' \in {1, 2} /\ rPc' \in {"idle", "write"}
    BY <1>2
  <2> QED
    BY <1>1, <1>2, <1>5, <1>8, <2>1, <2>2, <2>3 DEF RegGood, RegTypes, RegPci
<1>11. RegPlace'
  <2>1. \A i \in 1 .. Len(rTodo) - 1 : rTodo'[i] = t[Len(t) - (Len(rTodo) - 1) + i]
    <3> TAKE i \in 1 .. Len(rTodo) - 1
    <3>1. i + 1 \in 1 .. Len(rTodo) /\ Len(t) - Len(rTodo) + (i + 1) = Len(t) - (Len(rTodo) - 1) + i
      BY <1>7
    <3> QED
      BY <1>6, <1>8, <3>1
  <2> QED
    BY <1>2, <1>6, <1>7, <1>8, <1>9, <2>1 DEF RegPlace
<1>12. RegRead' /\ RegResult'
  <2>1. rPc' # "read" /\ rCall'.op \in Registers!Writes
    BY <1>1, <1>2 DEF RegGood, RegWrite
  <2> QED
    BY <2>1 DEF RegRead, RegResult
<1>13. RegWrite'
  <2>1. rCall'.op \in Registers!Writes
    BY <1>1, <1>2 DEF RegGood, RegWrite
  <2>2. ASSUME NEW i \in 1 .. Len(rTodo')
        PROVE  IF rCall.op = "write_all_single" THEN rVals'[i] = rCall.value
               ELSE \A p \in 1 .. 2 :
                      /\ Registers!Parts(rVals'[i])[p] = NewPart(rCall, p, rCells'[RegCell(rKind, rTodo'[i])][p])
                      /\ <<RegCell(rKind, rTodo'[i]), p>> \in rSeen
    <3>1. i + 1 \in 1 .. Len(rTodo) /\ i + 1 # 1 /\ rTodo'[i] = rTodo[i + 1] /\ rVals'[i] = rVals[i + 1]
      BY <1>7, <1>8
    <3>2. \A p : ~RegBehind(i + 1, p)
      BY <3>1 DEF RegBehind
    <3> DEFINE j == i + 1
    <3> HIDE DEF j
    <3>3. j \in 1 .. Len(rTodo) /\ rTodo'[i] = rTodo[j] /\ rVals'[i] = rVals[j] /\ \A p : ~RegBehind(j, p)
      BY <3>1, <3>2 DEF j
    <3>4. RegCell(rKind, rTodo[j]) \in Registers!Cells
      BY <1>6, <3>3, TargetFacts
    <3> QED
      BY <1>1, <1>5, <3>3, <3>4 DEF RegGood, RegWrite
  <2> QED
    BY <1>2, <2>1, <2>2 DEF RegWrite
<1>14. RegWritten'
  <2> SUFFICES ASSUME rKind # "absent"
      PROVE  rWritten' = {<<RegCell(rKind, t[i]), p>> : i \in 1 .. n + 1, p \in 1 .. 2}
    <3> DEFINE k == IF rPc' = "idle" THEN Len(t) ELSE Len(t) - Len(rTodo')
    <3>1. k = n + 1
      <4>1. CASE rPc' = "write"
        <5>1. Len(t) - Len(rTodo') = n + 1
          BY <1>7, <1>8
        <5> QED
          BY <4>1, <5>1
      <4>2. CASE rPc' = "idle" /\ Len(rTodo) = 1
        <5>1. Len(t) = n + 1
          BY <1>7, <4>2
        <5> QED
          BY <4>2, <5>1
      <4> QED
        BY <1>p, <4>1, <4>2
    <3>2. rPc' # "read" /\ ~(rRet' = "none" /\ rPc' = "idle")
      BY <1>p
    <3>3. ~(RegPci(rKind') /\ rSub' = 2)
      BY <1>k
    <3> QED
      BY <1>k, <1>9, <3>1, <3>2, <3>3 DEF RegWritten
  <2>1. rWritten' = rWritten \cup {<<c, p>> : p \in ps}
    BY <1>3 DEF Registers!Store
  <2>2. rWritten = {<<RegCell(rKind, t[i]), p>> : i \in 1 .. n, p \in 1 .. 2}
                     \cup (IF RegPci(rKind) THEN {<<rTodo[1], 1>>} ELSE {})
    BY <1>1, <1>9 DEF RegGood, RegWritten
  <2>3. n + 1 \in 1 .. n + 1 /\ t[n + 1] = rTodo[1] /\ n \in Nat
    BY <1>6, <1>7
  <2>4. RegCell(rKind, t[n + 1]) = c /\ (RegPci(rKind) => c = rTodo[1])
    BY <2>3 DEF c, RegCell, RegPci
  <2>5. \A p \in 1 .. 2 : p = 1 \/ p = 2
    OBVIOUS
  <2>6. rWritten' = {<<RegCell(rKind, t[i]), p>> : i \in 1 .. n, p \in 1 .. 2} \cup {<<c, 1>>, <<c, 2>>}
    BY <2>1, <2>2, <2>4 DEF ps
  <2>7. 1 .. n + 1 = (1 .. n) \cup {n + 1}
    BY <2>3
  <2> HIDE DEF n
  <2> QED
    BY <2>4, <2>5, <2>6, <2>7
<1> QED
  BY <1>2, <1>5, <1>10, <1>11, <1>12, <1>13, <1>14 DEF RegGood

LEMMA RegReadLast == ASSUME RegInv, Registers!ReadLast PROVE RegInv'
<1> SUFFICES ASSUME rClobbered = FALSE PROVE RegGood' /\ (rPc' # "idle" => rRet' = "none")
  <2>1. rClobbered' = rClobbered /\ rOthers' = rOthers
    BY DEF Registers!ReadLast
  <2> QED
    BY <2>1 DEF RegInv
<1> DEFINE t == RegTargets(rKind, rCall)
           c == RegCell(rKind, rTodo[1])
           v == IF RegPci(rKind) THEN rCells[c][1] + 2 * rAcc ELSE Registers!Whole(rCells[c])
           vs == Append(rVals, v)
           quiet == rCall.op \in Registers!Writes \/ rOthers = 0
<1>1. RegGood /\ rPc = "read" /\ rRet = "none" /\ rSub = 2
  BY DEF RegInv, Registers!ReadLast
<1>2. /\ UNCHANGED <<rKind, rCells, rRef, rCall, rOthers, rAcc, rWritten, rIdx>>
      /\ rSub' = (IF RegPci(rKind) \/ rKind = "ima" THEN 1 ELSE 2)
  BY RegNames DEF Registers!ReadLast, Registers!FirstSub
<1>3. c = IF rKind = "ima" THEN rIdx ELSE Registers!CellOf(rTodo[1])
  <2>1. rKind = "ima" => rIdx = 1 /\ c = 1
    BY <1>1 DEF RegGood, RegTypes, RegCell
  <2>2. Registers!CellOf(rTodo[1]) = c
    BY RegNames
  <2> HIDE DEF c
  <2> QED
    BY <2>1, <2>2
<1>4. /\ rSeen' = rSeen \cup {<<c, 1>>} \cup (IF RegPci(rKind) THEN {} ELSE {<<c, 2>>})
      /\ IF Len(rTodo) = 1 THEN Registers!Collected(vs)
         ELSE /\ rVals' = vs /\ rTodo' = Tail(rTodo) /\ rPc' = rPc /\ rRet' = rRet
  <2> HIDE DEF c
  <2> QED
    BY <1>3, RegNames DEF Registers!ReadLast
<1>5. /\ rCall \in Registers!Calls /\ rTodo # <<>> /\ rTodo \in Seq(Registers!Cells) /\ rVals \in Seq(0 .. 7)
      /\ Len(rVals) = Len(t) - Len(rTodo) /\ rKind \in Registers!Kinds /\ Len(rTodo) <= Len(t)
      /\ \A i \in 1 .. Len(rTodo) : rTodo[i] = t[Len(t) - Len(rTodo) + i]
  BY <1>1 DEF RegGood, RegTypes, RegPlace
<1>6. /\ Len(t) \in Nat /\ Len(rTodo) \in Nat \ {0} /\ t \in Seq(Registers!Cells)
      /\ rCall.field \in Registers!Fields /\ rCall.value \in Registers!Values
      /\ rTodo[1] \in Registers!Cells /\ c \in Registers!Cells
      /\ \A a \in Registers!Cells : RegCell(rKind, a) \in Registers!Cells
  <2>1. Len(rTodo) \in Nat \ {0} /\ rTodo[1] \in Registers!Cells
    BY <1>5
  <2> QED
    BY <1>5, <2>1, TargetFacts
<1>7. v \in 0 .. 7 /\ (quiet => v = Registers!Whole(rCells[c]))
  <2>1. rCells[c][1] \in {0, 1} /\ rCells[c][2] \in 0 .. 3 /\ rAcc \in 0 .. 3
    BY <1>1, <1>6 DEF RegGood, RegTypes
  <2>2. RegPci(rKind) => c = rTodo[1]
    BY DEF RegCell, RegPci
  <2>3. (quiet /\ RegPci(rKind)) => rAcc = rCells[c][2]
    BY <1>1, <2>2 DEF RegGood, RegRead
  <2> HIDE DEF c
  <2> QED
    BY <2>1, <2>3 DEF Registers!Whole
<1>8. quiet => <<c, 1>> \in rSeen' /\ <<c, 2>> \in rSeen' /\ rSeen \subseteq rSeen'
  <2>1. (quiet /\ RegPci(rKind)) => <<rTodo[1], 2>> \in rSeen /\ c = rTodo[1]
    BY <1>1 DEF RegGood, RegRead, RegCell, RegPci
  <2> HIDE DEF c
  <2> QED
    BY <1>4, <2>1
<1> HIDE DEF t, c, v
<1>9. /\ t = RegTargets(rKind, rCall) /\ RegTargets(rKind', rCall') = t
      /\ t[Len(rVals) + 1] = rTodo[1] /\ Len(vs) = Len(rVals) + 1 /\ vs \in Seq(0 .. 7)
      /\ vs[Len(rVals) + 1] = v /\ \A i \in 1 .. Len(rVals) : vs[i] = rVals[i]
  <2>1. t[Len(rVals) + 1] = rTodo[1]
    BY <1>5, <1>6
  <2>2. Len(vs) = Len(rVals) + 1 /\ vs \in Seq(0 .. 7)
        /\ vs[Len(rVals) + 1] = v /\ \A i \in 1 .. Len(rVals) : vs[i] = rVals[i]
    BY <1>5, <1>7
  <2> QED
    BY <1>2, <2>1, <2>2 DEF t
<1> HIDE DEF vs
<1>10. ASSUME quiet, NEW i \in 1 .. Len(vs)
       PROVE  /\ vs[i] = Registers!Whole(rCells[RegCell(rKind, t[i])])
              /\ <<RegCell(rKind, t[i]), 1>> \in rSeen' /\ <<RegCell(rKind, t[i]), 2>> \in rSeen'
  <2>0. Len(rVals) \in Nat
    BY <1>5
  <2>1. CASE i = Len(rVals) + 1
    BY <1>7, <1>8, <1>9, <1>10, <2>1 DEF c
  <2>2. CASE i # Len(rVals) + 1
    <3>1. i \in 1 .. Len(rVals)
      BY <1>9, <2>0, <2>2
    <3>2. /\ rVals[i] = Registers!Whole(rCells[RegCell(rKind, t[i])])
          /\ <<RegCell(rKind, t[i]), 1>> \in rSeen /\ <<RegCell(rKind, t[i]), 2>> \in rSeen
      BY <1>1, <1>9, <1>10, <3>1 DEF RegGood, RegRead
    <3> QED
      BY <1>8, <1>9, <1>10, <3>1, <3>2
  <2> QED
    BY <2>1, <2>2
<1> HIDE DEF quiet
<1>11. rCall' \in Registers!Calls' /\ rSub' \in {1, 2}
  BY <1>2, <1>5 DEF Registers!Calls, Registers!IsPci
<1>12. rWritten' = {}
  BY <1>1, <1>2 DEF RegGood, RegWritten
<1>13. CASE Len(rTodo) # 1
  <2>1. /\ rVals' = vs /\ rTodo' = Tail(rTodo) /\ rPc' = "read" /\ rRet' = "none"
    BY <1>1, <1>4, <1>13
  <2>2. /\ rTodo' \in Seq(Registers!Cells) /\ Len(rTodo') = Len(rTodo) - 1
        /\ \A i \in 1 .. Len(rTodo) - 1 : rTodo'[i] = rTodo[i + 1]
    BY <1>5, <1>6, <2>1
  <2>3. rTodo' # <<>>
    <3>1. Len(rTodo') # 0 /\ Len(<<>>) = 0
      BY <1>6, <1>13, <2>2
    <3> QED
      BY <3>1
  <2>4. RegTypes'
    BY <1>1, <1>2, <1>9, <1>11, <2>1, <2>2, <2>3 DEF RegGood, RegTypes, RegPci
  <2>5. RegPlace'
    <3>1. \A i \in 1 .. Len(rTodo) - 1 : rTodo'[i] = t[Len(t) - (Len(rTodo) - 1) + i]
      <4> TAKE i \in 1 .. Len(rTodo) - 1
      <4>1. i + 1 \in 1 .. Len(rTodo) /\ Len(t) - Len(rTodo) + (i + 1) = Len(t) - (Len(rTodo) - 1) + i
        BY <1>6
      <4> QED
        BY <1>5, <2>2, <4>1
    <3>2. Len(rVals') = Len(t) - (Len(rTodo) - 1) /\ Len(rTodo) - 1 <= Len(t)
      BY <1>5, <1>6, <1>9, <2>1
    <3> QED
      BY <1>9, <2>1, <2>2, <3>1, <3>2 DEF RegPlace
  <2>6. RegRead'
    <3>1. (rCall'.op \in Registers!Writes \/ rOthers' = 0) => quiet
      BY <1>2 DEF quiet
    <3>2. ~(rSub' = 2 /\ RegPci(rKind'))
      BY <1>2
    <3> QED
      BY <1>2, <1>9, <1>10, <2>1, <3>1, <3>2 DEF RegRead
  <2>7. RegWrite' /\ RegResult' /\ RegWritten'
    BY <1>12, <2>1 DEF RegWrite, RegResult, RegWritten
  <2> QED
    BY <1>1, <1>2, <2>1, <2>4, <2>5, <2>6, <2>7 DEF RegGood
<1>14. CASE Len(rTodo) = 1 /\ rCall.op \in Registers!Writes
  <2>1. /\ rPc' = "write" /\ rTodo' = t /\ rRet' = "none"
        /\ rVals' = [i \in DOMAIN vs |-> Registers!set_field(vs[i], rCall.field, rCall.value)]
    BY <1>1, <1>4, <1>9, <1>14, RegNames DEF Registers!Collected
  <2>2. Len(vs) = Len(t) /\ DOMAIN vs = 1 .. Len(t) /\ t # <<>>
    <3>1. Len(vs) = Len(t) /\ Len(t) # 0
      BY <1>5, <1>6, <1>9, <1>14
    <3>2. Len(<<>>) = 0
      OBVIOUS
    <3> QED
      BY <1>9, <3>1, <3>2
  <2>3. ASSUME NEW i \in 1 .. Len(t)
        PROVE  /\ RegCell(rKind, t[i]) \in Registers!Cells /\ rVals'[i] \in 0 .. 7
               /\ \A p \in 1 .. 2 : Registers!Parts(rVals'[i])[p] = NewPart(rCall, p, rCells[RegCell(rKind, t[i])][p])
               /\ \A p \in 1 .. 2 : <<RegCell(rKind, t[i]), p>> \in rSeen'
    <3> DEFINE d == RegCell(rKind, t[i])
    <3>1. d \in Registers!Cells
      BY <1>6
    <3>2. vs[i] = Registers!Whole(rCells[d]) /\ <<d, 1>> \in rSeen' /\ <<d, 2>> \in rSeen'
      BY <1>10, <1>14, <2>2 DEF quiet
    <3> HIDE DEF d
    <3>3. rCells[d][1] \in {0, 1} /\ rCells[d][2] \in 0 .. 3
      BY <1>1, <3>1 DEF RegGood, RegTypes
    <3>4. rVals'[i] = Registers!set_field(Registers!Whole(rCells[d]), rCall.field, rCall.value)
      BY <2>1, <2>2, <3>2
    <3>5. /\ rVals'[i] \in 0 .. 7 /\ Registers!Parts(rVals'[i])[1] = NewPart(rCall, 1, rCells[d][1])
          /\ Registers!Parts(rVals'[i])[2] = NewPart(rCall, 2, rCells[d][2])
      BY <1>6, <3>3, <3>4, NewPartFacts
    <3>6. \A p \in 1 .. 2 : p = 1 \/ p = 2
      OBVIOUS
    <3> QED
      BY <3>1, <3>2, <3>5, <3>6 DEF d
  <2>4. rVals' \in Seq(0 .. 7) /\ Len(rVals') = Len(t)
    <3>1. rVals' = [i \in 1 .. Len(t) |-> rVals'[i]]
      BY <2>1, <2>2
    <3>2. \A i \in 1 .. Len(t) : rVals'[i] \in 0 .. 7
      BY <2>3
    <3> QED
      BY <1>6, <3>1, <3>2
  <2>5. RegTypes'
    BY <1>1, <1>2, <1>6, <1>11, <2>1, <2>2, <2>4 DEF RegGood, RegTypes, RegPci
  <2>6. RegPlace'
    <3>1. \A i \in 1 .. Len(t) : Len(t) - Len(t) + i = i
      BY <1>6
    <3> QED
      BY <1>6, <1>9, <2>1, <2>4, <3>1 DEF RegPlace
  <2>7. RegWrite'
    <3>1. rCall.op # "write_all_single"
      BY <1>1 DEF RegGood, RegTypes
    <3> QED
      BY <1>2, <1>14, <2>1, <2>3, <3>1 DEF RegWrite
  <2>8. RegRead' /\ RegResult'
    BY <2>1 DEF RegRead, RegResult
  <2>9. RegWritten'
    <3>1. ~(RegPci(rKind') /\ rSub' = 2) /\ Len(t) - Len(t) = 0
      BY <1>2, <1>6
    <3> QED
      BY <1>9, <1>12, <2>1, <3>1 DEF RegWritten
  <2> QED
    BY <1>1, <1>2, <2>1, <2>5, <2>6, <2>7, <2>8, <2>9 DEF RegGood
<1>15. CASE Len(rTodo) = 1 /\ rCall.op \notin Registers!Writes
  <2>1. /\ rPc' = "idle" /\ rTodo' = <<>> /\ rRet' = "ok"
        /\ rVals' = [i \in DOMAIN vs |-> Registers!get_field(vs[i], rCall.field)]
    BY <1>4, <1>15 DEF Registers!Collected
  <2>2. Len(vs) = Len(t) /\ DOMAIN vs = 1 .. Len(t)
    BY <1>5, <1>6, <1>9, <1>15
  <2>3. \A m \in 0 .. 7 : Registers!get_field(m, rCall.field) \in 0 .. 7
    <3> TAKE m \in 0 .. 7
    <3>1. 2^0 = 1 /\ 2^1 = 2 /\ 2^2 = 4
      OBVIOUS
    <3>2. CASE rCall.field.bit = 1 /\ rCall.field.size = 1
      BY <3>1, <3>2 DEF Registers!get_field
    <3>3. CASE rCall.field.bit = 0 /\ rCall.field.size = 2
      BY <3>1, <3>3 DEF Registers!get_field
    <3> QED
      BY <1>6, <3>2, <3>3 DEF Registers!Fields
  <2>4. rVals' \in Seq(0 .. 7)
    <3>1. \A i \in 1 .. Len(t) : rVals'[i] \in 0 .. 7
      BY <1>9, <2>1, <2>2, <2>3
    <3>2. rVals' = [i \in 1 .. Len(t) |-> rVals'[i]]
      BY <2>1, <2>2
    <3> QED
      BY <1>6, <3>1, <3>2
  <2>5. RegTypes'
    <3>1. <<>> \in Seq(Registers!Cells)
      OBVIOUS
    <3> QED
      BY <1>1, <1>2, <1>11, <2>1, <2>4, <3>1 DEF RegGood, RegTypes, RegPci
  <2>6. RegPlace' /\ RegRead' /\ RegWrite'
    BY <2>1 DEF RegPlace, RegRead, RegWrite
  <2>7. RegWritten'
    BY <1>2, <1>15, <2>1 DEF RegWritten
  <2>8. RegResult'
    <3> SUFFICES ASSUME rOthers' = 0
                 PROVE  rVals' = [i \in 1 .. Len(t) |->
                          Registers!get_field(Registers!Whole(rCells[RegCell(rKind, t[i])]), rCall.field)]
      BY <1>2, <1>9 DEF RegResult
    <3>1. quiet
      BY <1>2 DEF quiet
    <3>2. \A i \in 1 .. Len(t) : vs[i] = Registers!Whole(rCells[RegCell(rKind, t[i])])
      BY <1>10, <2>2, <3>1
    <3> QED
      BY <2>1, <2>2, <3>2
  <2> QED
    BY <1>1, <1>2, <2>1, <2>5, <2>6, <2>7, <2>8 DEF RegGood
<1> QED
  BY <1>13, <1>14, <1>15

LEMMA RegStep == ASSUME RegInv, [Registers!Next]_(Registers!vars) PROVE RegInv'
<1>1. CASE UNCHANGED Registers!vars
  <2>1. UNCHANGED <<rKind, rChecking, rCells, rIdx, rCall, rPc, rTodo, rSub, rAcc, rVals, rRet, rSeen,
                    rWritten, rOthers, rClobbered, rRef>>
    BY <1>1 DEF Registers!vars
  <2>2. Registers!Calls' = Registers!Calls
    BY <2>1 DEF Registers!Calls, Registers!IsPci
  <2>3. (RegTypes' <=> RegTypes) /\ (RegPlace' <=> RegPlace) /\ (RegRead' <=> RegRead)
    BY <2>1, <2>2 DEF RegTypes, RegPlace, RegRead
  <2>4. (RegWrite' <=> RegWrite) /\ (RegWritten' <=> RegWritten) /\ (RegResult' <=> RegResult)
    BY <2>1 DEF RegWrite, RegBehind, RegWritten, RegResult
  <2> QED
    BY <2>1, <2>3, <2>4 DEF RegInv, RegGood
<1>2. CASE Registers!Next
  BY <1>2, RegBegin, RegFail, RegReadFirst, RegReadLast, RegWriteFirst, RegWriteLast, RegOtherWrites,
     RegOtherSelects DEF Registers!Next, Registers!Others
<1> QED
  BY <1>1, <1>2

\* Both halves of the property follow.
LEMMA RegExact == RegInv => Registers!WritesExact /\ Registers!ReadsExact
<1> SUFFICES ASSUME RegInv PROVE Registers!WritesExact /\ Registers!ReadsExact
  OBVIOUS
<1> DEFINE t == RegTargets(rKind, rCall)
<1>1. ASSUME rPc = "idle", rClobbered = FALSE, rRet = "ok", rCall.op \in Registers!Writes, rKind # "absent"
      PROVE  rWritten = (IF rCall.op \in Registers!All THEN Registers!Used
                         ELSE {Registers!CellOf(rCall.arg)}) \X {1, 2}
  <2>1. RegTypes /\ rCall \in Registers!Calls
    BY <1>1 DEF RegInv, RegGood, RegTypes
  <2>2. rWritten = {<<RegCell(rKind, t[i]), p>> : i \in 1 .. Len(t), p \in 1 .. 2}
    BY <1>1 DEF RegInv, RegGood, RegWritten
  <2>3. t \in Seq(Registers!Cells) /\ DOMAIN t = 1 .. Len(t)
    BY <2>1, TargetFacts DEF RegTypes
  <2>4. \A p : p \in 1 .. 2 <=> p \in {1, 2}
    OBVIOUS
  <2>5. rWritten = {RegCell(rKind, t[i]) : i \in DOMAIN t} \X {1, 2}
    <3> HIDE DEF t
    <3> QED
      BY <2>2, <2>3, <2>4
  <2>6. CASE rCall.op \in Registers!All
    <3>1. t = Registers!Instances("write_all_single")
      BY <1>1, <2>6 DEF RegTargets, Registers!Instances
    <3> HIDE DEF t
    <3>2. Registers!Used = {RegCell(rKind, t[i]) : i \in DOMAIN t}
      BY <3>1, RegNames DEF Registers!Used
    <3> QED
      BY <2>5, <2>6, <3>2
  <2>7. CASE rCall.op \notin Registers!All
    <3>1. t = <<rCall.arg>>
      BY <2>7 DEF RegTargets
    <3> HIDE DEF t
    <3>2. {RegCell(rKind, t[i]) : i \in DOMAIN t} = {Registers!CellOf(rCall.arg)}
      BY <3>1, RegNames
    <3> QED
      BY <2>5, <2>7, <3>2
  <2> QED
    BY <2>6, <2>7
<1>2. Registers!WritesExact
  BY <1>1 DEF Registers!WritesExact, Registers!Idle, RegInv, RegGood
<1>3. ASSUME rPc = "idle", rOthers = 0, rRet = "ok", rCall.op \in Registers!Ops \ Registers!Writes,
             rClobbered = FALSE
      PROVE  rVals = [i \in DOMAIN Registers!Targets(rCall) |->
                 Registers!get_field(Registers!Whole(rCells[Registers!CellOf(Registers!Targets(rCall)[i])]), rCall.field)]
  <2>1. RegTypes /\ rCall \in Registers!Calls /\ RegResult
    BY <1>3 DEF RegInv, RegGood, RegTypes
  <2>2. t \in Seq(Registers!Cells) /\ DOMAIN t = 1 .. Len(t) /\ Registers!Targets(rCall) = t
    BY <2>1, TargetFacts, RegNames DEF RegTypes
  <2> HIDE DEF t
  <2>3. t = RegTargets(rKind, rCall)
    BY DEF t
  <2> QED
    BY <1>3, <2>1, <2>2, <2>3, RegNames DEF RegResult
<1>4. Registers!ReadsExact
  BY <1>3 DEF Registers!ReadsExact, Registers!Idle, RegInv
<1> QED
  BY <1>2, <1>4

LEMMA RegInvariance == Spec => [](part = "registers" => RegInv)
<1> DEFINE I == part = "registers" => RegInv
<1>1. Init => I
  BY RegInit DEF Init
<1>2. I /\ [Next]_vars => I'
  BY PartStays, OnlyRegisters, RegStep
<1> QED
  BY <1>1, <1>2, PTL DEF Spec

\* A field write changes its field and nothing else in every instance it reports as written, and an
\* undisturbed read returns the field of every instance, over any number of writes of other agents:
\* only a part changed between its read and its write is put back (register.py:490).
THEOREM FieldsAreExact == Spec => []RegistersExact
<1>1. (part = "registers" => RegInv) => RegistersExact
  BY RegExact DEF RegistersExact
<1> QED
  BY <1>1, RegInvariance, PTL

(***************************************************************************)
(* The base address registers.  The invariant says which layouts there are, *)
(* that every register up to the first 32-bit one that was sized holds what *)
(* it held, that every BAR passed so far is reported, and how far find_XROM *)
(* may have moved the ROM.                                                  *)
(***************************************************************************)
BarKinds(h) ==
  {[kind |-> "none", s |-> 0], [kind |-> "mem1MB", s |-> 1], [kind |-> "mem32", s |-> 1],
   [kind |-> "io", s |-> 1], [kind |-> "mem64", s |-> 1], [kind |-> "mem64", s |-> 3],
   [kind |-> "hi", s |-> 1], [kind |-> "hi", s |-> 3]}
    \cup (IF h = 1 THEN {[kind |-> "busnum", s |-> 0]} ELSE {})
BarLayout(h, k) ==
  /\ k \in Seq(BarKinds(h))
  /\ \A i \in 1 .. Len(k) : k[i].kind = "mem64" =>
       i + 1 <= Len(k) /\ k[i + 1] = [kind |-> "hi", s |-> k[i].s]

\* PciBars' operators, with the state they read as arguments.
BarMask(k, i) ==
  LET s == k[i].s IN
  CASE k[i].kind = "hi" -> IF s > 2 THEN 4 - 2^(s - 2) ELSE 3
    [] k[i].kind = "mem64" /\ s > 2 -> 0
    [] OTHER -> 4 - 2^s
BarStored(k, i, v) == IF k[i].kind = "none" THEN 0 ELSE IF v = 3 THEN BarMask(k, i) ELSE v
BarUpto(k, o, h, z, i) ==
  (z /\ h = 0) => \A j \in 1 .. i - 1 : k[j].kind \in {"mem32", "io"} => o[j] = 0
BarAddress(k, o, i) == o[i] + IF k[i].kind = "mem64" THEN 4 * o[i + 1] ELSE 0
BarReported(k, o, h, z, bs, i) ==
  \E b \in 1 .. Len(bs) :
    /\ bs[b].off = i /\ bs[b].base = BarAddress(k, o, i)
    /\ (z /\ h = 0 /\ bs[b].is64
          /\ ~(k[i].kind = "mem64" /\ BarAddress(k, o, i) = BarMask(k, i) + 4 * BarMask(k, i + 1)))
         => bs[b].size = 2^k[i].s

\* The parts of the invariant.
BarTypes ==
  /\ pHdr \in 0 .. 2 /\ pCalc \in BOOLEAN /\ BarLayout(pHdr, pKinds)
  /\ pOriginal \in [1 .. Len(pKinds) -> 0 .. 3] /\ pRegs \in [1 .. Len(pKinds) -> Int]
  /\ \A i \in 1 .. Len(pKinds) : BarStored(pKinds, i, pOriginal[i]) = pOriginal[i]
  /\ pOff \in Nat \ {0} /\ pSize \in Int
  /\ pBars \in Seq([base : Int, off : Nat, is64 : BOOLEAN, size : Int])
  /\ pPc = "over" => pOff > Len(pKinds)
BarSame ==
  \A i \in 1 .. Len(pKinds) : BarUpto(pKinds, pOriginal, pHdr, pCalc, i) => pRegs[i] = pOriginal[i]
BarFound ==
  \A i \in 1 .. Len(pKinds) :
    (i < pOff /\ BarUpto(pKinds, pOriginal, pHdr, pCalc, i) /\ pKinds[i].kind \in {"mem32", "io", "mem64"}
       /\ BarAddress(pKinds, pOriginal, i) # 0)
      => BarReported(pKinds, pOriginal, pHdr, pCalc, pBars, i)

RomType == [exists : BOOLEAN, image : BOOLEAN, s : 0 .. 1, base : Int, en : BOOLEAN]
RomKept(r, v) == v = IF r.exists THEN v - (v % 2^r.s) ELSE 0
RomInv ==
  pPc \notin {"bars", "over"} =>
    /\ pPc \in {"xrom", "place", "check", "misaligned", "absent", "raised"}
    /\ pRom \in RomType /\ RomKept(pRom, pRom.base) /\ (pRom.en => pRom.exists) /\ pRomBefore \in RomType
    /\ pArgs \in [try_init : BOOLEAN, addr : Int]
    /\ pPc = "xrom" => pRom = pRomBefore
    /\ pPc = "place" => pRomBefore.base = 0 /\ pRomBefore.en = FALSE /\ pRom.en = FALSE
    /\ (pRomBefore.base # 0 \/ pRomBefore.en) => pRom = pRomBefore
    /\ (pRom.en /\ ~pRomBefore.en) => pRom.base = pArgs.addr

BarInv == BarTypes /\ BarSame /\ BarFound /\ RomInv

\* Layouts are put together of registers and of 64-bit pairs, which stay together.
LEMMA BarConcat ==
  ASSUME NEW h, NEW a, NEW b, BarLayout(h, a), BarLayout(h, b)
  PROVE  BarLayout(h, a \o b)
<1> DEFINE K == BarKinds(h)
<1>1. a \in Seq(K) /\ b \in Seq(K) /\ Len(a) \in Nat /\ Len(b) \in Nat
  BY DEF BarLayout
<1> HIDE DEF K
<1> DEFINE c == a \o b
<1>2. c \in Seq(K) /\ Len(c) = Len(a) + Len(b)
  BY <1>1
<1>3. \A i \in 1 .. Len(a) + Len(b) : c[i] = IF i <= Len(a) THEN a[i] ELSE b[i - Len(a)]
  BY <1>1
<1> HIDE DEF c
<1>4. ASSUME NEW i \in 1 .. Len(c), c[i].kind = "mem64"
      PROVE  i + 1 <= Len(c) /\ c[i + 1] = [kind |-> "hi", s |-> c[i].s]
  <2>1. CASE i <= Len(a)
    <3>1. i \in 1 .. Len(a) /\ c[i] = a[i]
      BY <1>1, <1>2, <1>3, <2>1
    <3>2. i + 1 <= Len(a) /\ a[i + 1] = [kind |-> "hi", s |-> a[i].s]
      BY <1>4, <3>1 DEF BarLayout
    <3>3. i + 1 \in 1 .. Len(a) + Len(b) /\ i + 1 <= Len(c)
      BY <1>1, <1>2, <3>1, <3>2
    <3> QED
      BY <1>3, <3>1, <3>2, <3>3
  <2>2. CASE ~(i <= Len(a))
    <3> DEFINE j == i - Len(a)
    <3>1. j \in 1 .. Len(b) /\ c[i] = b[j] /\ (i + 1) - Len(a) = j + 1 /\ ~(i + 1 <= Len(a))
      BY <1>1, <1>2, <1>3, <2>2
    <3> HIDE DEF j
    <3>2. j + 1 <= Len(b) /\ b[j + 1] = [kind |-> "hi", s |-> b[j].s]
      BY <1>4, <3>1 DEF BarLayout
    <3>3. i + 1 \in 1 .. Len(a) + Len(b) /\ i + 1 <= Len(c)
      BY <1>1, <1>2, <3>1, <3>2
    <3> QED
      BY <1>3, <3>1, <3>2, <3>3
  <2> QED
    BY <2>1, <2>2
<1> QED
  BY <1>2, <1>4 DEF BarLayout, c, K

LEMMA BarLayouts == ASSUME NEW h, NEW n, NEW l \in Bars!Layouts(n) PROVE BarLayout(h, l)
<1> DEFINE E == Bars!Single \cup {Bars!Wide(1), Bars!Wide(3), <<>>}
<1>1. ASSUME NEW x \in E PROVE BarLayout(h, x)
  <2>1. ASSUME NEW y \in BarKinds(h), y.kind # "mem64" PROVE BarLayout(h, <<y>>)
    <3>1. <<y>> \in Seq(BarKinds(h)) /\ Len(<<y>>) = 1
      OBVIOUS
    <3> QED
      BY <2>1, <3>1 DEF BarLayout
  <2>2. ASSUME NEW z \in {1, 3} PROVE BarLayout(h, Bars!Wide(z))
    <3>1. [kind |-> "mem64", s |-> z] \in BarKinds(h) /\ [kind |-> "hi", s |-> z] \in BarKinds(h)
      BY DEF BarKinds
    <3>2. Bars!Wide(z) \in Seq(BarKinds(h)) /\ Len(Bars!Wide(z)) = 2
      BY <3>1 DEF Bars!Wide
    <3> QED
      BY <3>2 DEF BarLayout, Bars!Wide
  <2>3. BarLayout(h, <<>>)
    <3>1. <<>> \in Seq(BarKinds(h)) /\ Len(<<>>) = 0
      OBVIOUS
    <3> QED
      BY <3>1 DEF BarLayout
  <2>4. \A y \in Bars!Single : \E z \in BarKinds(h) : y = <<z>> /\ z.kind # "mem64"
    BY DEF Bars!Single, Bars!None, BarKinds
  <2> QED
    BY <2>1, <2>2, <2>3, <2>4
<1> HIDE DEF E
<1>2. ASSUME NEW x \in Bars!Pairs PROVE BarLayout(h, x)
  <2>1. PICK a, b \in E : x = a \o b
    BY DEF Bars!Pairs, E
  <2> QED
    BY <1>1, <2>1, BarConcat
<1>3. PICK a, b \in Bars!Pairs : l = a \o b
  BY DEF Bars!Layouts
<1> QED
  BY <1>2, <1>3, BarConcat

LEMMA BarWidth == Bars!Ones = 3 /\ Bars!Ones \in Int /\ 2^Bars!W = 4 /\ 2^(2 * Bars!W) = 16
<1>1. 2^2 = 4 /\ 2^4 = 16 /\ 2 * 2 = 4
  OBVIOUS
<1> QED
  BY <1>1 DEF Bars!Ones, Bars!W

LEMMA BarNames ==
  /\ \A i : Bars!Mask(i) = BarMask(pKinds, i)
  /\ \A i, v : Bars!Stored(i, v) = BarStored(pKinds, i, v)
<1>1. 2^2 = 4
  OBVIOUS
<1> QED
  BY <1>1 DEF Bars!Mask, BarMask, Bars!Stored, BarStored, Bars!Ones, Bars!W

\* What the masks of the kinds of registers are.
LEMMA BarMasks ==
  ASSUME NEW h, NEW k, BarLayout(h, k), NEW i \in 1 .. Len(k)
  PROVE  /\ BarMask(k, i) \in 0 .. 3
         /\ k[i].kind = "mem64" => /\ BarMask(k, i) + 4 * BarMask(k, i + 1) = 16 - 2^k[i].s
                                   /\ 2^k[i].s \in Nat
<1>1. 2^0 = 1 /\ 2^1 = 2 /\ 2^2 = 4 /\ 2^3 = 8 /\ 3 - 2 = 1
  OBVIOUS
<1>2. k[i] \in BarKinds(h)
  BY DEF BarLayout
<1>3. BarMask(k, i) \in 0 .. 3
  <2> DEFINE e == k[i]
  <2> HIDE DEF e
  <2>1. CASE e.kind \in {"none", "busnum"} /\ e.s = 0
    BY <1>1, <2>1 DEF BarMask, e
  <2>2. CASE e.kind \in {"mem1MB", "mem32", "io"} /\ e.s = 1
    BY <1>1, <2>2 DEF BarMask, e
  <2>3. CASE e.kind = "mem64" /\ e.s = 1
    BY <1>1, <2>3 DEF BarMask, e
  <2>4. CASE e.kind = "mem64" /\ e.s = 3
    BY <1>1, <2>4 DEF BarMask, e
  <2>5. CASE e.kind = "hi" /\ e.s = 1
    BY <1>1, <2>5 DEF BarMask, e
  <2>6. CASE e.kind = "hi" /\ e.s = 3
    BY <1>1, <2>6 DEF BarMask, e
  <2>7. e \in BarKinds(h)
    BY <1>2 DEF e
  <2> QED
    BY <2>1, <2>2, <2>3, <2>4, <2>5, <2>6, <2>7 DEF BarKinds
<1>4. ASSUME k[i].kind = "mem64" PROVE BarMask(k, i) + 4 * BarMask(k, i + 1) = 16 - 2^k[i].s /\ 2^k[i].s \in Nat
  <2>1. k[i + 1] = [kind |-> "hi", s |-> k[i].s]
    BY <1>4 DEF BarLayout
  <2>2. k[i + 1].kind = "hi" /\ k[i + 1].s = k[i].s
    BY <2>1
  <2>3. k[i].s \in {1, 3}
    BY <1>2, <1>4 DEF BarKinds
  <2>4. CASE k[i].s = 1
    BY <1>1, <1>4, <2>2, <2>4 DEF BarMask
  <2>5. CASE k[i].s = 3
    BY <1>1, <1>4, <2>2, <2>5 DEF BarMask
  <2> QED
    BY <2>3, <2>4, <2>5
<1> QED
  BY <1>3, <1>4

\* What the firmware leaves is what a write of it leaves: every BAR lies on its alignment.
LEMMA BarInit == ASSUME Bars!Init PROVE BarInv
<1> DEFINE k == pKinds
           o == pOriginal
<1>1. BarLayout(pHdr, k)
  <2>1. CASE pHdr # 1
    <3>1. PICK n : k \in Bars!Layouts(n)
      BY <2>1 DEF Bars!Init
    <3> QED
      BY <3>1, BarLayouts
  <2>2. CASE pHdr = 1
    <3>1. PICK l \in Bars!Layouts(2) : k = l \o <<[kind |-> "busnum", s |-> 0]>>
      BY <2>2 DEF Bars!Init
    <3>2. BarLayout(pHdr, <<[kind |-> "busnum", s |-> 0]>>)
      <4>1. [kind |-> "busnum", s |-> 0] \in BarKinds(pHdr)
        BY <2>2 DEF BarKinds
      <4> QED
        BY <4>1 DEF BarLayout
    <3> QED
      BY <3>1, <3>2, BarLayouts, BarConcat
  <2> QED
    BY <2>1, <2>2
<1>2. k \in Seq(BarKinds(pHdr)) /\ Len(k) \in Nat /\ DOMAIN k = 1 .. Len(k)
  BY <1>1 DEF BarLayout
<1>3. o \in [1 .. Len(k) -> 0 .. 3]
  BY BarWidth DEF Bars!Init
<1>4. ASSUME NEW i \in 1 .. Len(k) PROVE BarStored(k, i, o[i]) = o[i]
  <2> DEFINE e == k[i]
             v == o[i]
  <2>0. e \in BarKinds(pHdr) /\ v \in 0 .. 3
    BY <1>2, <1>3
  <2>1. (CASE e.kind = "none" -> v = 0
           [] e.kind = "hi" -> e.s > 2 => v % 2^(e.s - 2) = 0
           [] e.kind = "mem64" /\ e.s > 2 -> v = 0
           [] OTHER -> v % 2^e.s = 0)
    BY <1>2 DEF Bars!Init, Bars!W
  <2>2. BarStored(k, i, v) = IF e.kind = "none" THEN 0 ELSE IF v = 3 THEN BarMask(k, i) ELSE v
    BY DEF BarStored
  <2>3. BarMask(k, i) = LET s == e.s IN
          CASE e.kind = "hi" -> IF s > 2 THEN 4 - 2^(s - 2) ELSE 3
            [] e.kind = "mem64" /\ s > 2 -> 0
            [] OTHER -> 4 - 2^s
    BY DEF BarMask
  <2> SUFFICES BarStored(k, i, v) = v
    OBVIOUS
  <2> HIDE DEF e, v
  <2>4. 2^0 = 1 /\ 2^1 = 2 /\ 2^2 = 4 /\ 2^3 = 8 /\ 3 - 2 = 1 /\ 3 % 2 = 1 /\ 3 % 1 = 0
    OBVIOUS
  <2>5. CASE e.kind = "none"
    BY <2>1, <2>2, <2>5
  <2>6. CASE e.kind = "busnum" /\ e.s = 0
    <3>1. BarMask(k, i) = 3
      BY <2>3, <2>4, <2>6
    <3> QED
      BY <2>2, <2>6, <3>1
  <2>7. CASE e.kind \in {"mem1MB", "mem32", "io"} /\ e.s = 1
    <3>1. v % 2 = 0
      BY <2>1, <2>4, <2>7
    <3>2. v # 3
      BY <2>4, <3>1
    <3> QED
      BY <2>2, <2>7, <3>2
  <2>8. CASE e.kind = "mem64" /\ e.s = 1
    <3>1. v % 2 = 0
      BY <2>1, <2>4, <2>8
    <3>2. v # 3
      BY <2>4, <3>1
    <3> QED
      BY <2>2, <2>8, <3>2
  <2>9. CASE e.kind = "mem64" /\ e.s = 3
    <3>1. v = 0
      BY <2>1, <2>4, <2>9
    <3>2. v # 3
      BY <2>4, <3>1
    <3> QED
      BY <2>2, <2>9, <3>2
  <2>10. CASE e.kind = "hi" /\ e.s = 1
    <3>1. BarMask(k, i) = 3
      BY <2>3, <2>4, <2>10
    <3> QED
      BY <2>2, <2>10, <3>1
  <2>11. CASE e.kind = "hi" /\ e.s = 3
    <3>1. v % 2 = 0
      BY <2>1, <2>4, <2>11
    <3>2. v # 3
      BY <2>4, <3>1
    <3> QED
      BY <2>2, <2>11, <3>2
  <2> QED
    BY <2>0, <2>5, <2>6, <2>7, <2>8, <2>9, <2>10, <2>11 DEF BarKinds, e, v
<1>5. BarTypes
  <2>1. pHdr \in 0 .. 2 /\ pCalc \in BOOLEAN /\ pRegs = pOriginal /\ pOff = 1 /\ pBars = <<>> /\ pPc # "over"
        /\ pSize \in Int
    <3>1. -1 \in Int
      OBVIOUS
    <3> QED
      BY <3>1 DEF Bars!Init, Bars!BOUNDARY_4KB
  <2>2. <<>> \in Seq([base : Int, off : Nat, is64 : BOOLEAN, size : Int])
    OBVIOUS
  <2>3. pRegs \in [1 .. Len(k) -> Int]
    BY <1>3, <2>1
  <2> QED
    BY <1>1, <1>3, <1>4, <2>1, <2>2, <2>3 DEF BarTypes
<1>6. BarSame /\ BarFound
  <2>1. pRegs = pOriginal /\ pOff = 1
    BY DEF Bars!Init
  <2> QED
    BY <2>1 DEF BarSame, BarFound
<1>7. RomInv
  <2> SUFFICES ASSUME pPc = "xrom" PROVE RomInv
    BY DEF Bars!Init, RomInv
  <2>1. /\ pRom \in [exists : BOOLEAN, image : BOOLEAN, s : 0 .. 1, base : 0 .. 2, en : BOOLEAN]
        /\ pRom.base = Bars!RomStored(pRom.base) /\ (pRom.en => pRom.exists)
        /\ pRomBefore = pRom /\ pArgs \in [try_init : BOOLEAN, addr : -1 .. 2]
    BY DEF Bars!Init
  <2>2. pRom \in RomType /\ pArgs \in [try_init : BOOLEAN, addr : Int]
    BY <2>1 DEF RomType
  <2>3. RomKept(pRom, pRom.base)
    BY <2>1 DEF RomKept, Bars!RomStored
  <2> QED
    BY <2>1, <2>2, <2>3 DEF RomInv
<1> QED
  BY <1>5, <1>6, <1>7 DEF BarInv

\* A register that is put back holds what it held, and the write of ones leaves its mask.
LEMMA BarWrites ==
  ASSUME BarTypes, NEW r \in [1 .. Len(pKinds) -> Int], NEW i, NEW v \in Int
  PROVE  /\ Bars!WriteReg(r, i, v) \in [1 .. Len(pKinds) -> Int]
         /\ \A j \in 1 .. Len(pKinds) : j # i => Bars!WriteReg(r, i, v)[j] = r[j]
         /\ i \in 1 .. Len(pKinds) =>
              /\ Bars!WriteReg(r, i, v)[i] = BarStored(pKinds, i, v)
              /\ Bars!ReadReg(r, i) = r[i]
              /\ Bars!WriteReg(r, i, 3)[i] = IF pKinds[i].kind = "none" THEN 0 ELSE BarMask(pKinds, i)
         /\ Bars!ReadReg(r, i) \in Int
<1>1. DOMAIN pKinds = 1 .. Len(pKinds) /\ BarLayout(pHdr, pKinds)
  BY DEF BarTypes, BarLayout
<1>2. \A j \in 1 .. Len(pKinds), u \in Int : BarStored(pKinds, j, u) \in Int
  <2> TAKE j \in 1 .. Len(pKinds), u \in Int
  <2>1. BarMask(pKinds, j) \in Int
    BY <1>1, BarMasks
  <2> QED
    BY <2>1 DEF BarStored
<1>3. CASE i \in 1 .. Len(pKinds)
  <2>1. \A u : Bars!WriteReg(r, i, u) = [r EXCEPT ![i] = BarStored(pKinds, i, u)]
    BY <1>1, <1>3, BarNames DEF Bars!WriteReg
  <2>2. BarStored(pKinds, i, v) \in Int /\ Bars!ReadReg(r, i) = r[i]
    BY <1>1, <1>2, <1>3 DEF Bars!ReadReg
  <2>3. BarStored(pKinds, i, 3) = IF pKinds[i].kind = "none" THEN 0 ELSE BarMask(pKinds, i)
    BY DEF BarStored
  <2> QED
    BY <1>3, <2>1, <2>2, <2>3
<1>4. CASE i \notin 1 .. Len(pKinds)
  BY <1>1, <1>4 DEF Bars!WriteReg, Bars!ReadReg
<1> QED
  BY <1>3, <1>4

LEMMA BarOnes ==
  ASSUME BarTypes, NEW r \in [1 .. Len(pKinds) -> Int], NEW i \in 1 .. Len(pKinds), pKinds[i].kind # "none",
         NEW u, u = Bars!WriteReg(r, i, Bars!Ones)
  PROVE  u \in [1 .. Len(pKinds) -> Int] /\ u[i] = BarMask(pKinds, i)
         /\ \A j \in 1 .. Len(pKinds) : j # i => u[j] = r[j]
<1>1. u = Bars!WriteReg(r, i, 3) /\ 3 \in Int
  BY BarWidth
<1>2. u \in [1 .. Len(pKinds) -> Int]
  BY <1>1, BarWrites
<1>3. u[i] = BarMask(pKinds, i)
  BY <1>1, BarWrites
<1>4. \A j \in 1 .. Len(pKinds) : j # i => u[j] = r[j]
  BY <1>1, BarWrites
<1> QED
  BY <1>2, <1>3, <1>4

\* Sizing a 64-bit BAR puts both halves back and measures it, unless it lies at the very top.
BarSizing == pCalc /\ pHdr = 0
LEMMA BarWide ==
  ASSUME BarTypes, BarSame, NEW i \in 1 .. Len(pKinds), pKinds[i].kind = "mem64"
  PROVE  LET w == Bars!Sized(i, TRUE, TRUE, pSize) IN
         /\ w.regs \in [1 .. Len(pKinds) -> Int] /\ w.size \in Int
         /\ \A j \in 1 .. Len(pKinds) : (j # i /\ j # i + 1) => w.regs[j] = pRegs[j]
         /\ BarUpto(pKinds, pOriginal, pHdr, pCalc, i) =>
              /\ w.regs[i] = pOriginal[i] /\ w.regs[i + 1] = pOriginal[i + 1]
              /\ (BarSizing /\ BarAddress(pKinds, pOriginal, i) # BarMask(pKinds, i) + 4 * BarMask(pKinds, i + 1))
                   => w.size = 2^pKinds[i].s
<1> DEFINE k == pKinds
           n == i + 1
           o == pOriginal
           w == Bars!Sized(i, TRUE, TRUE, pSize)
           r1 == Bars!WriteReg(pRegs, n, Bars!Ones)
           r2 == Bars!WriteReg(r1, i, Bars!Ones)
           r3 == Bars!WriteReg(r2, i, pRegs[i])
           r4 == Bars!WriteReg(r3, n, pRegs[n])
           upto == BarUpto(k, o, pHdr, pCalc, i)
<1>1. n \in 1 .. Len(k) /\ i # n /\ k[n].kind = "hi" /\ pRegs \in [1 .. Len(k) -> Int] /\ pSize \in Int
      /\ Len(k) \in Nat
  <2>1. BarLayout(pHdr, k) /\ pRegs \in [1 .. Len(k) -> Int] /\ pSize \in Int
    BY DEF BarTypes
  <2>2. Len(k) \in Nat
    BY <2>1 DEF BarLayout
  <2>3. i + 1 <= Len(k) /\ k[i + 1] = [kind |-> "hi", s |-> k[i].s]
    BY <2>1 DEF BarLayout
  <2> QED
    BY <2>1, <2>2, <2>3
<1>2. upto => pRegs[i] = o[i] /\ pRegs[n] = o[n]
  <2>1. upto => BarUpto(k, o, pHdr, pCalc, n)
    <3>1. \A j \in 1 .. n - 1 : j = i \/ j \in 1 .. i - 1
      BY <1>1
    <3> QED
      BY <3>1 DEF BarUpto
  <2> QED
    BY <1>1, <2>1 DEF BarSame
<1>3. BarStored(k, i, o[i]) = o[i] /\ BarStored(k, n, o[n]) = o[n] /\ o[i] \in Int /\ o[n] \in Int
  <2>1. \A j \in 1 .. Len(k) : BarStored(k, j, o[j]) = o[j]
    BY DEF BarTypes
  <2>2. o \in [1 .. Len(k) -> 0 .. 3]
    BY DEF BarTypes
  <2>3. o[i] \in 0 .. 3 /\ o[n] \in 0 .. 3
    BY <1>1, <2>2
  <2> QED
    BY <1>1, <2>1, <2>3
<1>4. BarMask(k, i) \in Int /\ BarMask(k, n) \in Int /\ BarMask(k, i) + 4 * BarMask(k, n) = 16 - 2^k[i].s
      /\ 2^k[i].s \in Nat
  BY <1>1, BarMasks DEF BarTypes
<1>5. BarAddress(k, o, i) = o[i] + 4 * o[n]
  BY DEF BarAddress
<1>6. CASE ~BarSizing
  <2>1. w.regs = pRegs /\ w.size = pSize
    BY <1>6 DEF Bars!Sized, BarSizing
  <2> QED
    BY <1>1, <1>2, <1>6, <2>1
<1>7. CASE BarSizing
  <2>1. w = Bars!calc_bar_size(i, TRUE, TRUE)
    BY <1>7 DEF Bars!Sized, BarSizing
  <2> DEFINE rr == Bars!WriteReg(r3, n, Bars!ReadReg(pRegs, n))
             zz == Bars!Measured(r2[i] + 2^Bars!W * Bars!ReadReg(r2, n),
                                 pRegs[i] + 2^Bars!W * Bars!ReadReg(pRegs, n), 2 * Bars!W, Bars!BOUNDARY_4KB)
  <2> HIDE DEF w
  <2>2. w = [regs |-> rr, size |-> zz]
    BY <2>1, Zenon DEF Bars!calc_bar_size
  <2> HIDE DEF rr, zz
  <2>3. w.regs = rr /\ w.size = zz
    BY <2>2
  <2> HIDE DEF n, r1, r2, r3, r4
  <2>4. r1 \in [1 .. Len(k) -> Int] /\ r1[n] = BarMask(k, n)
        /\ \A j \in 1 .. Len(k) : j # n => r1[j] = pRegs[j]
    BY <1>1, BarOnes DEF r1
  <2>5. r2 \in [1 .. Len(k) -> Int] /\ r2[i] = BarMask(k, i) /\ Bars!ReadReg(r2, n) = r2[n]
        /\ \A j \in 1 .. Len(k) : j # i => r2[j] = r1[j]
    <3>1. r2 \in [1 .. Len(k) -> Int] /\ r2[i] = BarMask(k, i)
          /\ \A j \in 1 .. Len(k) : j # i => r2[j] = r1[j]
      BY <2>4, BarOnes DEF r2
    <3> QED
      BY <1>1, <3>1, BarWrites
  <2>6. pRegs[i] \in Int /\ pRegs[n] \in Int /\ Bars!ReadReg(pRegs, n) = pRegs[n]
    BY <1>1, BarWrites
  <2>7. r3 \in [1 .. Len(k) -> Int] /\ r3[i] = BarStored(k, i, pRegs[i])
        /\ \A j \in 1 .. Len(k) : j # i => r3[j] = r2[j]
    <3> DEFINE v == pRegs[i]
    <3> HIDE DEF v
    <3>1. v \in Int /\ r3 = Bars!WriteReg(r2, i, v)
      BY <2>6 DEF r3, v
    <3>2. r3 \in [1 .. Len(k) -> Int] /\ r3[i] = BarStored(k, i, v)
          /\ \A j \in 1 .. Len(k) : j # i => r3[j] = r2[j]
      BY <2>5, <3>1, BarWrites
    <3> QED
      BY <3>2 DEF v
  <2>8. w.regs = r4
    BY <2>3, <2>6 DEF r4, rr
  <2>9. r4 \in [1 .. Len(k) -> Int] /\ r4[n] = BarStored(k, n, pRegs[n])
        /\ \A j \in 1 .. Len(k) : j # n => r4[j] = r3[j]
    BY <1>1, <2>6, <2>7, BarWrites DEF r4
  <2>10. \A j \in 1 .. Len(k) : (j # i /\ j # n) => w.regs[j] = pRegs[j]
    BY <2>4, <2>5, <2>7, <2>8, <2>9
  <2>11. upto => w.regs[i] = o[i] /\ w.regs[n] = o[n]
    BY <1>1, <1>2, <1>3, <2>7, <2>8, <2>9
  <2>12. w.size = IF 16 - 2^k[i].s = pRegs[i] + 4 * pRegs[n] THEN -1 ELSE 2^k[i].s
    <3>1. r2[i] + 4 * r2[n] = 16 - 2^k[i].s
      BY <1>1, <1>4, <2>4, <2>5
    <3>2. 16 - (16 - 2^k[i].s) = 2^k[i].s
      BY <1>4
    <3>3. w.size = IF r2[i] + 4 * r2[n] = pRegs[i] + 4 * pRegs[n] THEN -1 ELSE 16 - (r2[i] + 4 * r2[n])
      BY <2>3, <2>5, <2>6, BarWidth DEF Bars!Measured, Bars!BOUNDARY_4KB, zz
    <3> QED
      BY <3>1, <3>2, <3>3
  <2>13. w.size \in Int
    BY <1>4, <2>12
  <2>14. (upto /\ BarAddress(k, o, i) # BarMask(k, i) + 4 * BarMask(k, n)) => w.size = 2^k[i].s
    BY <1>2, <1>4, <1>5, <2>12 DEF n
  <2> QED
    BY <2>8, <2>9, <2>10, <2>11, <2>13, <2>14 DEF n, w
<1> QED
  BY <1>6, <1>7

\* Sizing any other puts its own register back, but not the one behind, which it has overwritten.
BarNarrowed(w, i) == \E m \in BOOLEAN, z \in Int : w = Bars!Sized(i, FALSE, m, z)
LEMMA BarNarrow ==
  ASSUME BarTypes, BarSame, NEW i \in 1 .. Len(pKinds), NEW w, BarNarrowed(w, i)
  PROVE  /\ w.regs \in [1 .. Len(pKinds) -> Int] /\ w.size \in Int
         /\ \A j \in 1 .. Len(pKinds) : (j # i /\ j # i + 1) => w.regs[j] = pRegs[j]
         /\ BarUpto(pKinds, pOriginal, pHdr, pCalc, i) => w.regs[i] = pOriginal[i]
         /\ ~BarSizing => w.regs = pRegs
<1> DEFINE k == pKinds
           n == i + 1
           r1 == Bars!WriteReg(pRegs, n, Bars!Ones)
           r2 == Bars!WriteReg(r1, i, pRegs[i])
<1>0. PICK m \in BOOLEAN, z \in Int : w = Bars!Sized(i, FALSE, m, z)
  BY DEF BarNarrowed
<1>1. i # n /\ pRegs \in [1 .. Len(k) -> Int] /\ pRegs[i] \in Int
  <2>1. pRegs \in [1 .. Len(k) -> Int]
    BY DEF BarTypes
  <2> QED
    BY <2>1
<1>2. CASE ~BarSizing
  <2>1. w.regs = pRegs /\ w.size = z
    BY <1>0, <1>2 DEF Bars!Sized, BarSizing
  <2> QED
    BY <1>1, <2>1 DEF BarSame
<1>3. CASE BarSizing
  <2>1. w = Bars!calc_bar_size(i, FALSE, m)
    BY <1>0, <1>3 DEF Bars!Sized, BarSizing
  <2> DEFINE zz == Bars!Measured(r1[i], pRegs[i], Bars!W, IF m THEN Bars!BOUNDARY_4KB ELSE Bars!IO_DEFAULT)
  <2>2. w = [regs |-> r2, size |-> zz]
    BY <2>1, Zenon DEF Bars!calc_bar_size
  <2> HIDE DEF r2, zz
  <2>3. w.regs = r2 /\ w.size = zz
    BY <2>2
  <2> HIDE DEF n, r1
  <2>4. r1 \in [1 .. Len(k) -> Int] /\ \A j \in 1 .. Len(k) : j # n => r1[j] = pRegs[j]
    BY <1>1, BarWrites, BarWidth DEF r1
  <2>5. r2 \in [1 .. Len(k) -> Int] /\ r2[i] = BarStored(k, i, pRegs[i])
        /\ \A j \in 1 .. Len(k) : j # i => r2[j] = r1[j]
    <3> DEFINE v == pRegs[i]
    <3> HIDE DEF v
    <3>1. v \in Int /\ r2 = Bars!WriteReg(r1, i, v)
      BY <1>1 DEF r2, v
    <3>2. r1 \in [1 .. Len(k) -> Int]
      BY <2>4
    <3>3. r2 \in [1 .. Len(k) -> Int]
      BY <3>1, <3>2, BarWrites
    <3>4. r2[i] = BarStored(k, i, v)
      BY <3>1, <3>2, BarWrites
    <3>5. \A j \in 1 .. Len(k) : j # i => r2[j] = r1[j]
      BY <3>1, <3>2, BarWrites
    <3> QED
      BY <3>3, <3>4, <3>5 DEF v
  <2>6. w.size \in Int
    <3>1. r1[i] \in Int
      BY <2>4
    <3>2. w.size = IF r1[i] = pRegs[i] THEN IF m THEN -1 ELSE -2 ELSE 4 - r1[i]
      BY <2>3, BarWidth DEF Bars!Measured, Bars!BOUNDARY_4KB, Bars!IO_DEFAULT, zz
    <3>3. -1 \in Int /\ -2 \in Int /\ 4 - r1[i] \in Int
      BY <3>1
    <3> QED
      BY <3>2, <3>3
  <2>7. BarStored(k, i, pOriginal[i]) = pOriginal[i]
    BY DEF BarTypes
  <2>8. BarUpto(k, pOriginal, pHdr, pCalc, i) => pRegs[i] = pOriginal[i]
    BY DEF BarSame
  <2> QED
    BY <1>3, <2>3, <2>4, <2>5, <2>6, <2>7, <2>8 DEF n
<1> QED
  BY <1>2, <1>3

BarRecord == [base : Int, off : Nat, is64 : BOOLEAN, size : Int]

\* A BAR once reported stays so, and the one appended is.
LEMMA BarAppend ==
  ASSUME NEW bs \in Seq(BarRecord), NEW nb \in BarRecord, NEW k, NEW o, NEW h, NEW z, NEW i
  PROVE  /\ Append(bs, nb) \in Seq(BarRecord)
         /\ BarReported(k, o, h, z, bs, i) => BarReported(k, o, h, z, Append(bs, nb), i)
         /\ (/\ nb.off = i /\ nb.base = BarAddress(k, o, i)
             /\ (z /\ h = 0 /\ nb.is64
                   /\ ~(k[i].kind = "mem64" /\ BarAddress(k, o, i) = BarMask(k, i) + 4 * BarMask(k, i + 1)))
                  => nb.size = 2^k[i].s)
              => BarReported(k, o, h, z, Append(bs, nb), i)
<1> DEFINE c == Append(bs, nb)
<1>1. c \in Seq(BarRecord) /\ Len(c) = Len(bs) + 1 /\ c[Len(bs) + 1] = nb /\ Len(bs) \in Nat
  OBVIOUS
<1>2. \A b \in 1 .. Len(bs) : c[b] = bs[b] /\ b \in 1 .. Len(c)
  BY <1>1
<1>3. Len(bs) + 1 \in 1 .. Len(c)
  BY <1>1
<1> HIDE DEF c
<1> SUFFICES /\ BarReported(k, o, h, z, bs, i) => BarReported(k, o, h, z, c, i)
             /\ (/\ nb.off = i /\ nb.base = BarAddress(k, o, i)
                 /\ (z /\ h = 0 /\ nb.is64
                       /\ ~(k[i].kind = "mem64" /\ BarAddress(k, o, i) = BarMask(k, i) + 4 * BarMask(k, i + 1)))
                      => nb.size = 2^k[i].s)
                  => BarReported(k, o, h, z, c, i)
  BY <1>1 DEF c
<1>4. BarReported(k, o, h, z, bs, i) => BarReported(k, o, h, z, c, i)
  BY <1>2 DEF BarReported
<1> QED
  BY <1>1, <1>3, <1>4 DEF BarReported

\* What is left to show of a turn: that it keeps the registers and reports what it passes.
LEMMA BarAdvance ==
  ASSUME BarInv, pPc = "bars", pPc' = pPc, UNCHANGED <<pHdr, pKinds, pOriginal, pCalc>>,
         pRegs' \in [1 .. Len(pKinds) -> Int], pSize' \in Int, pOff' \in {pOff + 1, pOff + 2},
         \/ pBars' = pBars
         \/ \E nb \in BarRecord : pBars' = Append(pBars, nb),
         \A i \in 1 .. Len(pKinds) :
           BarUpto(pKinds, pOriginal, pHdr, pCalc, i) => pRegs'[i] = pOriginal[i],
         \A i \in 1 .. Len(pKinds) :
           (pOff <= i /\ i < pOff' /\ BarUpto(pKinds, pOriginal, pHdr, pCalc, i)
              /\ pKinds[i].kind \in {"mem32", "io", "mem64"} /\ BarAddress(pKinds, pOriginal, i) # 0)
             => BarReported(pKinds, pOriginal, pHdr, pCalc, pBars', i)
  PROVE  BarInv'
<1>1. BarTypes /\ BarFound /\ pBars \in Seq(BarRecord) /\ pOff \in Nat \ {0} /\ Len(pKinds) \in Nat
  BY DEF BarInv, BarTypes, BarRecord, BarLayout
<1>2. pBars' \in Seq(BarRecord) /\ pOff' \in Nat \ {0}
  <2>1. \A e \in BarRecord : Append(pBars, e) \in Seq(BarRecord)
    BY <1>1
  <2>2. pBars' \in Seq(BarRecord)
    BY <1>1, <2>1
  <2>3. pOff' \in Nat \ {0}
    BY <1>1
  <2> QED
    BY <2>2, <2>3
<1>3. BarTypes'
  BY <1>1, <1>2 DEF BarTypes, BarRecord
<1>4. BarSame'
  BY DEF BarSame
<1>5. BarFound'
  <2> SUFFICES ASSUME NEW i \in 1 .. Len(pKinds), i < pOff', BarUpto(pKinds, pOriginal, pHdr, pCalc, i),
                      pKinds[i].kind \in {"mem32", "io", "mem64"}, BarAddress(pKinds, pOriginal, i) # 0
               PROVE  BarReported(pKinds, pOriginal, pHdr, pCalc, pBars', i)
    BY DEF BarFound
  <2>1. CASE pOff <= i
    BY <2>1
  <2>2. CASE i < pOff
    <3>1. BarReported(pKinds, pOriginal, pHdr, pCalc, pBars, i)
      BY <1>1, <2>2 DEF BarFound
    <3> QED
      BY <1>1, <3>1, BarAppend
  <2> QED
    BY <1>1, <2>1, <2>2
<1>6. RomInv'
  BY DEF RomInv
<1> QED
  BY <1>3, <1>4, <1>5, <1>6 DEF BarInv

\* The three ways a turn goes: the register is passed over, is a 64-bit BAR, or another one.
LEMMA BarSkip ==
  ASSUME BarInv, pPc = "bars", pOff \in 1 .. Len(pKinds), UNCHANGED <<pHdr, pKinds, pOriginal, pCalc, pPc>>,
         \/ pKinds[pOff].kind \in {"none", "mem1MB"}
         \/ pKinds[pOff].kind \in {"mem32", "io", "busnum"} /\ pRegs[pOff] = 0,
         pOff' = pOff + 1, UNCHANGED <<pRegs, pSize, pBars>>
  PROVE  BarInv'
<1>1. BarTypes /\ BarSame
  BY DEF BarInv
<1>2. pRegs \in [1 .. Len(pKinds) -> Int] /\ pSize \in Int
  BY <1>1 DEF BarTypes
<1>3. \A i \in 1 .. Len(pKinds) : BarUpto(pKinds, pOriginal, pHdr, pCalc, i) => pRegs'[i] = pOriginal[i]
  BY <1>1 DEF BarSame
<1>4. ASSUME NEW i \in 1 .. Len(pKinds), pOff <= i, i < pOff',
             BarUpto(pKinds, pOriginal, pHdr, pCalc, i), pKinds[i].kind \in {"mem32", "io", "mem64"},
             BarAddress(pKinds, pOriginal, i) # 0
      PROVE  FALSE
  <2>1. i = pOff
    BY <1>4
  <2>2. pKinds[i].kind \in {"mem32", "io"} /\ pRegs[i] = 0
    BY <1>4, <2>1
  <2>3. pOriginal[i] = 0
    BY <1>3, <1>4, <2>2
  <2> QED
    BY <1>4, <2>2, <2>3 DEF BarAddress
<1> QED
  BY <1>2, <1>3, <1>4, BarAdvance

LEMMA BarTurnWide ==
  ASSUME BarInv, pPc = "bars", pOff \in 1 .. Len(pKinds), UNCHANGED <<pHdr, pKinds, pOriginal, pCalc, pPc>>,
         pKinds[pOff].kind = "mem64", NEW w, w = Bars!Sized(pOff, TRUE, TRUE, pSize),
         NEW base, base = w.regs[pOff] + 4 * Bars!ReadReg(w.regs, pOff + 1),
         pOff' = pOff + 2, pRegs' = w.regs, pSize' = w.size,
         pBars' = IF base = 0 THEN pBars ELSE Append(pBars, Bars!Bar(base, pOff, TRUE, w.size))
  PROVE  BarInv'
<1> DEFINE k == pKinds
           o == pOriginal
           n == pOff + 1
           nb == Bars!Bar(base, pOff, TRUE, w.size)
<1>1. BarTypes /\ BarSame /\ pBars \in Seq(BarRecord) /\ pOff \in Nat
  BY DEF BarInv, BarTypes, BarRecord
<1>2. /\ w.regs \in [1 .. Len(k) -> Int] /\ w.size \in Int
      /\ \A j \in 1 .. Len(k) : (j # pOff /\ j # n) => w.regs[j] = pRegs[j]
      /\ BarUpto(k, o, pHdr, pCalc, pOff) =>
           /\ w.regs[pOff] = o[pOff] /\ w.regs[n] = o[n]
           /\ (BarSizing /\ BarAddress(k, o, pOff) # BarMask(k, pOff) + 4 * BarMask(k, n))
                => w.size = 2^k[pOff].s
  BY <1>1, BarWide
<1>3. n \in 1 .. Len(k) /\ k[n].kind = "hi"
  <2>1. BarLayout(pHdr, k)
    BY <1>1 DEF BarTypes
  <2>2. n <= Len(k) /\ k[n] = [kind |-> "hi", s |-> k[pOff].s] /\ Len(k) \in Nat
    BY <2>1 DEF BarLayout
  <2> QED
    BY <1>1, <2>2
<1>4. base = w.regs[pOff] + 4 * w.regs[n] /\ base \in Int
  <2>1. Bars!ReadReg(w.regs, n) = w.regs[n]
    BY <1>1, <1>2, <1>3, BarWrites
  <2>2. w.regs[pOff] \in Int /\ w.regs[n] \in Int
    BY <1>2, <1>3
  <2>3. base = w.regs[pOff] + 4 * w.regs[n]
    BY <2>1
  <2>4. \A x, y \in Int : x + 4 * y \in Int
    OBVIOUS
  <2> QED
    BY <2>2, <2>3, <2>4, Zenon
<1>5. nb = [base |-> base, off |-> pOff, is64 |-> TRUE, size |-> w.size]
  BY DEF Bars!Bar
<1> HIDE DEF nb
<1>6. nb \in BarRecord
  BY <1>1, <1>2, <1>4, <1>5 DEF BarRecord
<1>7. pBars' = pBars \/ \E e \in BarRecord : pBars' = Append(pBars, e)
  BY <1>6 DEF nb
<1>8. BarUpto(k, o, pHdr, pCalc, n) => BarUpto(k, o, pHdr, pCalc, pOff)
  <2>1. \A j \in 1 .. pOff - 1 : j \in 1 .. n - 1
    BY <1>1
  <2> QED
    BY <2>1 DEF BarUpto
<1>9. \A i \in 1 .. Len(k) : BarUpto(k, o, pHdr, pCalc, i) => pRegs'[i] = o[i]
  <2> TAKE i \in 1 .. Len(k)
  <2> HAVE BarUpto(k, o, pHdr, pCalc, i)
  <2>1. CASE i = pOff
    BY <1>2, <2>1
  <2>2. CASE i = n
    BY <1>2, <1>8, <2>2
  <2>3. CASE i # pOff /\ i # n
    BY <1>1, <1>2, <2>3 DEF BarSame
  <2> QED
    BY <2>1, <2>2, <2>3
<1>10. ASSUME NEW i \in 1 .. Len(k), pOff <= i, i < pOff',
              BarUpto(k, o, pHdr, pCalc, i), k[i].kind \in {"mem32", "io", "mem64"}, BarAddress(k, o, i) # 0
       PROVE  BarReported(k, o, pHdr, pCalc, pBars', i)
  <2>1. i = pOff
    <3>1. i = pOff \/ i = n
      BY <1>1, <1>10
    <3> QED
      BY <1>3, <1>10, <3>1
  <2>2. base = BarAddress(k, o, pOff)
    BY <1>2, <1>4, <1>10, <2>1 DEF BarAddress
  <2>3. pBars' = Append(pBars, nb)
    BY <1>10, <2>1, <2>2 DEF nb
  <2>4. nb.off = i /\ nb.base = BarAddress(k, o, i) /\ nb.size = w.size
    BY <1>5, <2>1, <2>2
  <2>5. (pCalc /\ pHdr = 0 /\ ~(k[i].kind = "mem64" /\ BarAddress(k, o, i) = BarMask(k, i) + 4 * BarMask(k, i + 1)))
          => nb.size = 2^k[i].s
    BY <1>2, <1>10, <2>1, <2>4 DEF BarSizing
  <2> QED
    <3>1. BarReported(k, o, pHdr, pCalc, Append(pBars, nb), i)
      BY <1>1, <1>6, <2>4, <2>5, BarAppend
    <3> QED
      BY <2>3, <3>1
<1> QED
  BY <1>1, <1>2, <1>7, <1>9, <1>10, BarAdvance

LEMMA BarTurnNarrow ==
  ASSUME BarInv, pPc = "bars", pOff \in 1 .. Len(pKinds), UNCHANGED <<pHdr, pKinds, pOriginal, pCalc, pPc>>,
         pKinds[pOff].kind \in {"mem32", "io", "busnum"}, pRegs[pOff] # 0, NEW w, BarNarrowed(w, pOff),
         pOff' = pOff + 1, pRegs' = w.regs, pSize' = w.size,
         pBars' = Append(pBars, Bars!Bar(pRegs[pOff], pOff, FALSE, w.size))
  PROVE  BarInv'
<1> DEFINE k == pKinds
           o == pOriginal
           n == pOff + 1
           nb == Bars!Bar(pRegs[pOff], pOff, FALSE, w.size)
<1>1. BarTypes /\ BarSame /\ pBars \in Seq(BarRecord) /\ pOff \in Nat /\ pRegs[pOff] \in Int
  BY DEF BarInv, BarTypes, BarRecord
<1>2. /\ w.regs \in [1 .. Len(k) -> Int] /\ w.size \in Int
      /\ \A j \in 1 .. Len(k) : (j # pOff /\ j # n) => w.regs[j] = pRegs[j]
      /\ BarUpto(k, o, pHdr, pCalc, pOff) => w.regs[pOff] = o[pOff]
      /\ ~BarSizing => w.regs = pRegs
  BY <1>1, BarNarrow
<1>3. nb = [base |-> pRegs[pOff], off |-> pOff, is64 |-> FALSE, size |-> w.size]
  BY DEF Bars!Bar
<1> HIDE DEF nb
<1>4. nb \in BarRecord /\ pBars' = Append(pBars, nb)
  <2>1. nb \in BarRecord
    BY <1>1, <1>2, <1>3 DEF BarRecord
  <2> QED
    BY <2>1 DEF nb
<1>5. \A i \in 1 .. Len(k) : BarUpto(k, o, pHdr, pCalc, i) => pRegs[i] = o[i]
  BY <1>1 DEF BarSame
<1>6. BarSizing => k[pOff].kind \in {"mem32", "io"}
  <2>1. k[pOff] \in BarKinds(pHdr)
    BY <1>1 DEF BarTypes, BarLayout
  <2> QED
    BY <2>1 DEF BarSizing, BarKinds
<1>7. ~(BarSizing /\ BarUpto(k, o, pHdr, pCalc, n))
  <2> SUFFICES ASSUME BarSizing, BarUpto(k, o, pHdr, pCalc, n) PROVE FALSE
    OBVIOUS
  <2>1. pOff \in 1 .. n - 1 /\ \A j \in 1 .. pOff - 1 : j \in 1 .. n - 1
    BY <1>1
  <2>2. o[pOff] = 0
    BY <1>6, <2>1 DEF BarUpto, BarSizing
  <2>3. BarUpto(k, o, pHdr, pCalc, pOff)
    BY <2>1 DEF BarUpto
  <2> QED
    BY <1>5, <2>2, <2>3
<1>8. \A i \in 1 .. Len(k) : BarUpto(k, o, pHdr, pCalc, i) => pRegs'[i] = o[i]
  <2> TAKE i \in 1 .. Len(k)
  <2> HAVE BarUpto(k, o, pHdr, pCalc, i)
  <2>1. CASE ~BarSizing
    BY <1>2, <1>5, <2>1
  <2>2. CASE BarSizing /\ i = pOff
    BY <1>2, <2>2
  <2>3. CASE BarSizing /\ i # pOff
    <3>1. i # n
      BY <1>7, <2>3
    <3> QED
      BY <1>2, <1>5, <2>3, <3>1
  <2> QED
    BY <2>1, <2>2, <2>3
<1>9. ASSUME NEW i \in 1 .. Len(k), pOff <= i, i < pOff',
             BarUpto(k, o, pHdr, pCalc, i), k[i].kind \in {"mem32", "io", "mem64"}, BarAddress(k, o, i) # 0
      PROVE  BarReported(k, o, pHdr, pCalc, pBars', i)
  <2>1. i = pOff
    BY <1>1, <1>9
  <2>2. o[i] \in Int /\ BarAddress(k, o, i) = o[i] + 0
    <3>1. o[i] \in 0 .. 3
      BY <1>1 DEF BarTypes
    <3>2. k[i].kind # "mem64"
      BY <2>1
    <3> QED
      BY <3>1, <3>2 DEF BarAddress
  <2>3. pRegs[pOff] = BarAddress(k, o, pOff)
    BY <1>5, <1>9, <2>1, <2>2
  <2>4. nb.off = i /\ nb.base = BarAddress(k, o, i) /\ nb.is64 = FALSE
    BY <1>3, <2>1, <2>3
  <2> QED
    BY <1>1, <1>4, <2>4, BarAppend
<1> QED
  BY <1>1, <1>2, <1>4, <1>8, <1>9, BarAdvance

LEMMA BarTurn == ASSUME BarInv, Bars!Turn PROVE BarInv'
<1> DEFINE kd == pKinds[pOff].kind
           wide == Bars!Sized(pOff, TRUE, TRUE, pSize)
           z == IF kd = "io" THEN Bars!IO_DEFAULT ELSE pSize
           narrow == Bars!Sized(pOff, FALSE, kd # "io", z)
           base64 == wide.regs[pOff] + 2^Bars!W * Bars!ReadReg(wide.regs, pOff + 1)
<1>1. pPc = "bars" /\ pOff \in DOMAIN pKinds /\ UNCHANGED <<pHdr, pKinds, pOriginal, pCalc, pPc>>
  BY DEF Bars!Turn
<1>2. \/ /\ kd \in {"none", "mem1MB"} \/ (kd \in {"mem32", "io", "busnum"} /\ pRegs[pOff] = 0)
         /\ pOff' = pOff + 1 /\ UNCHANGED <<pRegs, pSize, pBars>>
      \/ /\ kd = "mem64" /\ pOff' = pOff + 2 /\ pRegs' = wide.regs /\ pSize' = wide.size
         /\ pBars' = IF base64 = 0 THEN pBars ELSE Append(pBars, Bars!Bar(base64, pOff, TRUE, wide.size))
      \/ /\ kd \in {"mem32", "io", "busnum"} /\ pRegs[pOff] # 0
         /\ pOff' = pOff + 1 /\ pRegs' = narrow.regs /\ pSize' = narrow.size
         /\ pBars' = Append(pBars, Bars!Bar(pRegs[pOff], pOff, FALSE, narrow.size))
  BY Zenon DEF Bars!Turn, Bars!Narrow
<1>3. pOff \in 1 .. Len(pKinds) /\ pSize \in Int
  BY <1>1 DEF BarInv, BarTypes, BarLayout
<1>4. z \in Int
  BY <1>3 DEF Bars!IO_DEFAULT
<1> HIDE DEF wide, narrow, z
<1>5. base64 = wide.regs[pOff] + 4 * Bars!ReadReg(wide.regs, pOff + 1)
  BY BarWidth
<1> HIDE DEF base64
<1>6. CASE pKinds[pOff].kind = "mem64"
  BY <1>1, <1>2, <1>3, <1>5, <1>6, BarTurnWide DEF wide
<1>7. CASE pOff' = pOff + 1 /\ UNCHANGED <<pRegs, pSize, pBars>>
           /\ (kd \in {"none", "mem1MB"} \/ (kd \in {"mem32", "io", "busnum"} /\ pRegs[pOff] = 0))
  BY <1>1, <1>3, <1>7, BarSkip
<1>8. CASE pKinds[pOff].kind \in {"mem32", "io", "busnum"} /\ pRegs[pOff] # 0
  <2>1. BarNarrowed(narrow, pOff)
    <3>1. (kd # "io") \in BOOLEAN
      OBVIOUS
    <3> QED
      BY <1>4, <3>1, Zenon DEF narrow, BarNarrowed
  <2> QED
    BY <1>1, <1>2, <1>3, <1>8, <2>1, BarTurnNarrow
<1> QED
  BY <1>2, <1>6, <1>7, <1>8

LEMMA BarsAreOver == ASSUME BarInv, Bars!BarsOver PROVE BarInv'
<1>1. pPc = "bars" /\ pPc' = "over" /\ pOff \notin DOMAIN pKinds
      /\ UNCHANGED <<pHdr, pKinds, pOriginal, pRegs, pCalc, pOff, pSize, pBars, pRom, pRomBefore, pArgs>>
  BY DEF Bars!BarsOver
<1>2. BarTypes /\ BarSame /\ BarFound
  BY DEF BarInv
<1>3. pOff > Len(pKinds)
  <2>1. pOff \in Nat \ {0} /\ DOMAIN pKinds = 1 .. Len(pKinds) /\ Len(pKinds) \in Nat
    BY <1>2 DEF BarTypes, BarLayout
  <2> QED
    BY <1>1, <2>1
<1>4. BarTypes'
  BY <1>1, <1>2, <1>3 DEF BarTypes
<1>5. BarSame' /\ BarFound'
  BY <1>1, <1>2 DEF BarSame, BarFound
<1>6. RomInv'
  BY <1>1 DEF RomInv
<1> QED
  BY <1>4, <1>5, <1>6 DEF BarInv

\* What a write of the ROM's BAR leaves in it.
LEMMA RomWrite ==
  ASSUME BarInv, pPc \in {"xrom", "place", "check"}, NEW base \in Int, NEW en \in BOOLEAN, NEW next,
         next # "over", next # "bars", Bars!RomGoes(base, en, next)
  PROVE  /\ BarTypes' /\ BarSame' /\ BarFound' /\ RomInv
         /\ pPc' = next /\ UNCHANGED <<pRomBefore, pArgs>>
         /\ pRom' \in RomType /\ RomKept(pRom', pRom'.base) /\ (pRom'.en => pRom'.exists)
         /\ pRom'.en = (pRom.exists /\ en)
         /\ base = pRom.base /\ en = pRom.en => pRom' = pRom
         /\ pRom.exists /\ base % 2^pRom.s = 0 => pRom'.base = base
<1>1. BarTypes /\ BarSame /\ BarFound /\ RomInv
  BY DEF BarInv
<1>2. /\ pPc' = next /\ UNCHANGED <<pHdr, pKinds, pOriginal, pRegs, pCalc, pOff, pSize, pBars, pRomBefore, pArgs>>
      /\ pRom' = [pRom EXCEPT !.base = Bars!RomStored(base), !.en = pRom.exists /\ en]
  BY DEF Bars!RomGoes
<1>3. BarTypes' /\ BarSame' /\ BarFound'
  <2>1. BarTypes'
    BY <1>1, <1>2 DEF BarTypes
  <2> QED
    BY <1>1, <1>2, <2>1 DEF BarSame, BarFound
<1>4. pRom \in RomType /\ RomKept(pRom, pRom.base) /\ (pRom.en => pRom.exists)
  BY <1>1 DEF RomInv
<1> DEFINE p == 2^pRom.s
           v == IF pRom.exists THEN base - (base % p) ELSE 0
<1>5. p \in {1, 2}
  <2>1. pRom.s \in {0, 1} /\ 2^0 = 1 /\ 2^1 = 2
    BY <1>4 DEF RomType
  <2> QED
    BY <2>1
<1>6. Bars!RomStored(base) = v
  BY DEF Bars!RomStored
<1>7. v = (IF pRom.exists THEN v - (v % p) ELSE 0) /\ v \in Int
  <2>1. p = 1 \/ p = 2
    BY <1>5
  <2> HIDE DEF p
  <2>2. CASE p = 1
    BY <2>2
  <2>3. CASE p = 2
    BY <2>3
  <2> QED
    BY <2>1, <2>2, <2>3
<1>8. pRom.exists /\ base % p = 0 => v = base
  <2> HIDE DEF p
  <2> QED
    OBVIOUS
<1>9. pRom.base = IF pRom.exists THEN pRom.base - (pRom.base % p) ELSE 0
  BY <1>4 DEF RomKept
<1>10. base = pRom.base => v = base
  BY <1>9
<1> HIDE DEF p, v
<1>11. /\ pRom'.base = v /\ pRom'.en = (pRom.exists /\ en) /\ pRom'.exists = pRom.exists
       /\ pRom'.s = pRom.s /\ pRom'.image = pRom.image
  BY <1>2, <1>4, <1>6 DEF RomType
<1>12. pRom' \in RomType
  BY <1>2, <1>4, <1>6, <1>7 DEF RomType
<1>13. RomKept(pRom', pRom'.base)
  BY <1>7, <1>11 DEF RomKept, p
<1>14. base = pRom.base /\ en = pRom.en => pRom' = pRom
  <2> SUFFICES ASSUME base = pRom.base, en = pRom.en PROVE pRom' = pRom
    OBVIOUS
  <2>1. v = pRom.base /\ (pRom.exists /\ en) = pRom.en
    BY <1>4, <1>10 DEF RomType
  <2> QED
    BY <1>2, <1>4, <1>6, <2>1 DEF RomType
<1> QED
  BY <1>1, <1>2, <1>3, <1>8, <1>11, <1>12, <1>13, <1>14 DEF p

\* A write that changes nothing, of the value read.
LEMMA RomStays ==
  ASSUME BarInv, pPc \in {"xrom", "place", "check"}, NEW next \in {"check", "misaligned", "absent", "raised"},
         Bars!RomGoes(pRom.base, pRom.en, next)
  PROVE  BarInv'
<1>1. RomInv /\ pRom.base \in Int /\ pRom.en \in BOOLEAN
  BY DEF BarInv, RomInv, RomType
<1>2. BarTypes' /\ BarSame' /\ BarFound' /\ pPc' = next /\ UNCHANGED <<pRom, pRomBefore, pArgs>>
  BY <1>1, RomWrite
<1>3. RomInv'
  BY <1>1, <1>2 DEF RomInv
<1> QED
  BY <1>2, <1>3 DEF BarInv

\* The steps of find_XROM.
LEMMA RomProbe == ASSUME BarInv, Bars!ProbeXROM PROVE BarInv'
<1>1. pPc = "xrom"
  BY DEF Bars!ProbeXROM
<1>2. RomInv /\ pRom = pRomBefore
  BY <1>1 DEF BarInv, RomInv
<1>3. CASE pRom.base # 0 \/ pRom.en \/ ~pArgs.try_init
  BY <1>1, <1>3, RomStays DEF Bars!ProbeXROM
<1>4. CASE ~(pRom.base # 0 \/ pRom.en \/ ~pArgs.try_init)
  <2>1. PICK e \in BOOLEAN : e = FALSE /\ Bars!RomGoes(3, e, "place")
    BY <1>4 DEF Bars!ProbeXROM, Bars!AnyRom
  <2>2. /\ BarTypes' /\ BarSame' /\ BarFound' /\ pPc' = "place" /\ UNCHANGED <<pRomBefore, pArgs>>
        /\ pRom' \in RomType /\ RomKept(pRom', pRom'.base) /\ (pRom'.en => pRom'.exists) /\ pRom'.en = FALSE
    BY <1>1, <2>1, RomWrite
  <2>3. pRomBefore.base = 0 /\ pRomBefore.en = FALSE
    BY <1>1, <1>2, <1>4 DEF RomInv, RomType
  <2>4. RomInv'
    BY <1>1, <1>2, <2>2, <2>3 DEF RomInv
  <2> QED
    BY <2>2, <2>4 DEF BarInv
<1> QED
  BY <1>3, <1>4

LEMMA RomPlace == ASSUME BarInv, Bars!PlaceXROM PROVE BarInv'
<1>1. pPc = "place"
  BY DEF Bars!PlaceXROM
<1>2. RomInv /\ pRomBefore.base = 0 /\ pRomBefore.en = FALSE /\ pRom \in RomType /\ RomKept(pRom, pRom.base)
      /\ pArgs.addr \in Int
  BY <1>1 DEF BarInv, RomInv
<1>3. CASE pRom.base = 0 \/ pArgs.addr = -1
  BY <1>1, <1>3, RomStays DEF Bars!PlaceXROM
<1>4. CASE ~(pRom.base = 0 \/ pArgs.addr = -1) /\ pArgs.addr % 2^pRom.s # 0
  BY <1>1, <1>4, RomStays DEF Bars!PlaceXROM
<1>5. CASE ~(pRom.base = 0 \/ pArgs.addr = -1) /\ pArgs.addr % 2^pRom.s = 0
  <2>1. Bars!RomGoes(pArgs.addr, TRUE, "check")
    BY <1>5 DEF Bars!PlaceXROM
  <2>2. pRom.exists
    BY <1>2, <1>5 DEF RomKept
  <2>3. /\ BarTypes' /\ BarSame' /\ BarFound' /\ pPc' = "check" /\ UNCHANGED <<pRomBefore, pArgs>>
        /\ pRom' \in RomType /\ RomKept(pRom', pRom'.base) /\ (pRom'.en => pRom'.exists)
        /\ pRom'.base = pArgs.addr
    BY <1>1, <1>2, <1>5, <2>1, <2>2, RomWrite
  <2>4. RomInv'
    BY <1>1, <1>2, <2>3 DEF RomInv
  <2> QED
    BY <2>3, <2>4 DEF BarInv
<1> QED
  BY <1>3, <1>4, <1>5

LEMMA RomCheck == ASSUME BarInv, Bars!CheckXROM PROVE BarInv'
<1>1. pPc = "check" /\ (Bars!RomGoes(pRom.base, pRom.en, "raised") \/ Bars!RomGoes(pRom.base, pRom.en, "absent"))
  BY DEF Bars!CheckXROM
<1> QED
  BY <1>1, RomStays

LEMMA BarStep == ASSUME BarInv, [Bars!Next]_(Bars!vars) PROVE BarInv'
<1>1. CASE UNCHANGED Bars!vars
  <2>1. UNCHANGED <<pHdr, pKinds, pOriginal, pRegs, pCalc, pOff, pSize, pBars, pRom, pRomBefore, pArgs, pPc>>
    BY <1>1 DEF Bars!vars
  <2>2. (BarTypes' <=> BarTypes) /\ (BarSame' <=> BarSame) /\ (BarFound' <=> BarFound) /\ (RomInv' <=> RomInv)
    BY <2>1 DEF BarTypes, BarSame, BarFound, RomInv
  <2> QED
    BY <2>2 DEF BarInv
<1>2. CASE Bars!Next
  BY <1>2, BarTurn, BarsAreOver, RomProbe, RomPlace, RomCheck DEF Bars!Next
<1> QED
  BY <1>1, <1>2

\* The property follows.
LEMMA BarExact == BarInv => Bars!BarsExact
<1> SUFFICES ASSUME BarInv PROVE Bars!BarsExact
  OBVIOUS
<1>1. BarTypes /\ BarSame /\ BarFound /\ RomInv
  BY DEF BarInv
<1>2. DOMAIN pKinds = 1 .. Len(pKinds) /\ DOMAIN pBars = 1 .. Len(pBars)
  BY <1>1 DEF BarTypes, BarLayout
<1>3. \A i : Bars!Upto(i) <=> BarUpto(pKinds, pOriginal, pHdr, pCalc, i)
  BY DEF Bars!Upto, Bars!Sizing, Bars!Narrow, BarUpto
<1>4. \A i : Bars!Address(i) = BarAddress(pKinds, pOriginal, i)
  BY BarWidth DEF Bars!Address, BarAddress
<1>5. \A i : Bars!AtTop(i) <=> pKinds[i].kind = "mem64"
                /\ BarAddress(pKinds, pOriginal, i) = BarMask(pKinds, i) + 4 * BarMask(pKinds, i + 1)
  BY <1>4, BarNames, BarWidth DEF Bars!AtTop
<1>6. \A i \in DOMAIN pKinds : Bars!Upto(i) => pRegs[i] = pOriginal[i]
  BY <1>1, <1>2, <1>3 DEF BarSame
<1>7. ASSUME pPc \in {"misaligned", "absent", "raised"}
      PROVE  /\ pRomBefore.base # 0 \/ pRomBefore.en => pRom = pRomBefore
             /\ pRom.en /\ ~pRomBefore.en => pRom.base = pArgs.addr
  BY <1>1, <1>7 DEF RomInv
<1>8. pPc = "over" => \A i \in DOMAIN pKinds :
        Bars!Upto(i) /\ pKinds[i].kind \in Bars!Narrow \cup {"mem64"} /\ Bars!Address(i) # 0 =>
          \E b \in DOMAIN pBars : /\ pBars[b].off = i /\ pBars[b].base = Bars!Address(i)
                                  /\ Bars!Sizing /\ pBars[b].is64 /\ ~Bars!AtTop(i)
                                       => pBars[b].size = 2^pKinds[i].s
  <2> HAVE pPc = "over"
  <2> TAKE i \in DOMAIN pKinds
  <2> HAVE Bars!Upto(i) /\ pKinds[i].kind \in Bars!Narrow \cup {"mem64"} /\ Bars!Address(i) # 0
  <2>1. i \in 1 .. Len(pKinds) /\ i < pOff
    <3>1. pOff > Len(pKinds) /\ pOff \in Nat /\ Len(pKinds) \in Nat
      BY <1>1 DEF BarTypes, BarLayout
    <3> QED
      BY <1>2, <3>1
  <2>2. BarReported(pKinds, pOriginal, pHdr, pCalc, pBars, i)
    BY <1>1, <1>3, <1>4, <2>1 DEF BarFound, Bars!Narrow
  <2> QED
    BY <1>2, <1>4, <1>5, <2>2 DEF BarReported, Bars!Sizing
<1>9. pPc \in {"misaligned", "absent", "raised"} =>
         /\ pRomBefore.base # 0 \/ pRomBefore.en => pRom = pRomBefore
         /\ pRom.en /\ ~pRomBefore.en => pRom.base = pArgs.addr
  BY <1>7
<1> QED
  BY <1>6, <1>8, <1>9, Zenon DEF Bars!BarsExact

LEMMA BarInvariance == Spec => [](part = "bars" => BarInv)
<1> DEFINE I == part = "bars" => BarInv
<1>1. Init => I
  BY BarInit DEF Init
<1>2. I /\ [Next]_vars => I'
  BY PartStays, OnlyBars, BarStep
<1> QED
  BY <1>1, <1>2, PTL DEF Spec

\* Enumerating the BARs of a function reports each with its address, a 64-bit one with its size, and
\* leaves the registers as they were, up to the first 32-bit or I/O BAR that is sized (pci.py:433);
\* find_XROM moves no ROM the firmware has placed (pci.py:365).
THEOREM BarsAreReported == Spec => []BarsExact
<1>1. (part = "bars" => BarInv) => BarsExact
  BY BarExact DEF BarsExact
<1> QED
  BY <1>1, BarInvariance, PTL

(***************************************************************************)
(* TableWalks, for tables of any length with entries of any size.  Until a  *)
(* walk is behind the last entry it stands at the start of one and has      *)
(* listed those before it.                                                  *)
(***************************************************************************)
UpToUnknown == {"eventlog", "hest", "nfit"}   \* the walks that an unknown type ends
Filled == {"nvar", "nvar_simple", "vss", "section"}
WithUnknown == {"nvar", "sb_db", "evsa", "hest", "nfit", "eventlog", "vss"}
Undamaged == {"vss", "hest", "smbios", "eventlog", "windows"}
EntryKinds == {"good", "bare", "skip", "last", "zero", "long", "foreign"}

\* The entries that a format knows, where they may be and what they have in common.
Fits(w, e) ==
  /\ e.kind \in {"good", "bare", "skip", "last"} => e.size >= 2
  /\ e.kind = "zero" => e.size = 0
  /\ e.kind = "skip" => w \in WithUnknown
  /\ e.kind = "bare" => w = "smbios"
  /\ e.kind = "last" => w \in {"s3", "windows"}
  /\ e.kind = "foreign" => w = "nvar"
  /\ e.kind \in {"zero", "long", "foreign"} => w \notin Undamaged
  /\ w = "smbios" /\ e.kind = "good" => e.size >= 4
WalkImage ==
  /\ wWalk \in Walks!Walks
  /\ wEntries \in Seq([kind : EntryKinds, size : Nat])
  /\ \A i \in 1 .. Len(wEntries) :
       /\ Fits(wWalk, wEntries[i])
       /\ wEntries[i].kind \in {"last", "zero", "long", "foreign"} => i = Len(wEntries)
  /\ wFill \in Nat /\ (wFill # 0 => wWalk \in Filled)
  /\ wWalk = "vss" => wEntries # <<>>

\* The starts of the entries before i that the walk reports.
Before(i) == {Walks!Starts[j] : j \in {k \in Walks!Known : k < i}}
NoneUnknown(i) == wWalk \in UpToUnknown => \A j \in 1 .. i : wEntries[j].kind # "skip"
\* The walk is at entry i, and has reported those before it.
AtEntry(i, o, f) == o = Walks!Starts[i] /\ Walks!Lists(f, Before(i)) /\ NoneUnknown(i - 1)
\* The walk is behind the last entry; NVAR_simple takes the filler for an entry.
Behind == Walks!Starts[Len(wEntries) + 1]
AtFiller(o, f) ==
  /\ o >= Behind
  /\ Walks!Clean =>
       \/ Walks!Lists(f, Walks!Expected) /\ (wWalk = "nvar_simple" => o = Behind)
       \/ wWalk = "nvar_simple" /\ wFill > 2 /\ o >= Walks!Size
            /\ Walks!Lists(f, Walks!Expected \cup {Behind})
Listed(o, f) == (\E i \in 1 .. Len(wEntries) : AtEntry(i, o, f)) \/ AtFiller(o, f)

LoopsAllowed == \/ wWalk = "auth" /\ ~Walks!Clean
                \/ wWalk = "nfit" /\ \E i \in 1 .. Len(wEntries) : wEntries[i].kind \in {"skip", "zero"}
ReportedBy(f) ==
  \/ Walks!Lists(f, Walks!Expected)
  \/ Walks!Unseen /\ Walks!Lists(f, Walks!Expected \ {Walks!Starts[Len(wEntries)]})
  \/ wWalk = "nvar_simple" /\ wFill > 2 /\ Walks!Lists(f, Walks!Expected \cup {Behind})
Walked(e, o, f) ==
  /\ o \in Nat /\ f \in Seq(Nat) /\ e \in {"", "end", "raised", "loops"}
  /\ e = "" => Listed(o, f)
  /\ e = "loops" => LoopsAllowed
  /\ e # "" /\ Walks!Clean => ReportedBy(f)
\* The variable store's walk loses what it has listed but stays on the entries.
Stored(e, o) == /\ o \in Nat /\ e \in {"", "end", "raised"}
                /\ e = "" => \E i \in 1 .. Len(wEntries) : o = Walks!Starts[i]
WalkInv == /\ WalkImage
           /\ IF wWalk = "vss" THEN Stored(wEnd, wOff) ELSE Walked(wEnd, wOff, wFound)

\* Every nonempty set of natural numbers has a least element.
LEMMA LeastNumber ==
  ASSUME NEW S, S \subseteq Nat, S # {}
  PROVE  \E x \in S : \A y \in S : x <= y
<1> DEFINE R == {p \in Nat \X Nat : p[1] < p[2]}
<1>1. IsWellFoundedOn(R, Nat)
  BY NatLessThanWellFounded, Zenon DEF OpToRel
<1>2. \A x, y \in Nat : y < x => <<y, x>> \in R
  OBVIOUS
<1> HIDE DEF R
<1>3. PICK x \in S : \A y \in S : ~ (<<y, x>> \in R)
  BY <1>1, WFMin
<1>4. \A y \in S : ~(y < x)
  BY <1>2, <1>3
<1> QED
  BY <1>4

EntrySet == [kind : EntryKinds, size : Nat]
AlignedEnd(es, a, s, i) == IF i <= Len(es) THEN Walks!align(s + Walks!Extent(es[i - 1]), a)
                           ELSE s + Walks!Extent(es[i - 1])
IsStarts(f, es, a, m) == f = [i \in 1 .. m |-> IF i = 1 THEN 0 ELSE AlignedEnd(es, a, f[i - 1], i)]

LEMMA ExtentIs == \A e \in EntrySet : Walks!Extent(e) \in Nat
BY DEF EntrySet, Walks!Extent, Walks!H

LEMMA AlignIs ==
  \A n \in Nat : /\ Walks!align(n, 1) = n
                 /\ Walks!align(n, 2) \in Nat /\ n <= Walks!align(n, 2) /\ Walks!align(n, 2) <= n + 1
                 /\ Walks!align(n, 2) % 2 = 0
<1> TAKE n \in Nat
<1>1. Walks!align(n, 1) = n
  BY DEF Walks!align
<1>2. (n + 2 - 1) \div 2 \in Nat /\ n <= 2 * ((n + 2 - 1) \div 2) /\ 2 * ((n + 2 - 1) \div 2) <= n + 1
  OBVIOUS
<1>3. Walks!align(n, 2) = 2 * ((n + 2 - 1) \div 2)
  BY <1>2 DEF Walks!align
<1>4. \A k \in Nat : (2 * k) % 2 = 0
  OBVIOUS
<1> QED
  BY <1>1, <1>2, <1>3, <1>4

\* A recursive function over the entries exists: of any number of them.
LEMMA StartsExist ==
  ASSUME NEW es, NEW a
  PROVE  \A m \in Nat : \E f : IsStarts(f, es, a, m)
<1> DEFINE S == {m \in Nat : ~ \E f : IsStarts(f, es, a, m)}
<1>1. SUFFICES S = {}
  OBVIOUS
<1>2. SUFFICES ASSUME S # {} PROVE FALSE
  OBVIOUS
<1>3. PICK m \in S : \A y \in S : m <= y
  BY <1>2, LeastNumber
<1>4. m # 0
  <2> DEFINE f == [i \in 1 .. 0 |-> 0]
  <2>1. f = [i \in 1 .. 0 |-> IF i = 1 THEN 0 ELSE AlignedEnd(es, a, f[i - 1], i)]
    OBVIOUS
  <2> QED
    BY <2>1 DEF IsStarts
<1>5. m - 1 \in Nat /\ ~(m <= m - 1)
  BY <1>4
<1>6. PICK f : IsStarts(f, es, a, m - 1)
  BY <1>3, <1>5
<1> DEFINE g == [i \in 1 .. m |-> IF i = 1 THEN 0 ELSE AlignedEnd(es, a, f[i - 1], i)]
<1>7. \A i \in 1 .. m - 1 : g[i] = f[i]
  <2>1. \A i \in 1 .. m - 1 : i \in 1 .. m
    BY <1>5
  <2> QED
    BY <1>6, <2>1 DEF IsStarts
<1>8. \A i \in 1 .. m : i # 1 => i - 1 \in 1 .. m - 1
  BY <1>5
<1>9. g = [i \in 1 .. m |-> IF i = 1 THEN 0 ELSE AlignedEnd(es, a, g[i - 1], i)]
  BY <1>7, <1>8
<1>10. IsStarts(g, es, a, m)
  BY <1>9 DEF IsStarts
<1> QED
  BY <1>3, <1>10

LEMMA StartsAre ==
  ASSUME NEW es \in Seq(EntrySet), NEW a
  PROVE  IsStarts(Walks!StartsOf(es, a), es, a, Len(es) + 1)
<1>1. Len(es) + 1 \in Nat
  OBVIOUS
<1>2. \E f : IsStarts(f, es, a, Len(es) + 1)
  BY <1>1, StartsExist
<1>3. Walks!StartsOf(es, a) = CHOOSE f : IsStarts(f, es, a, Len(es) + 1)
  BY DEF Walks!StartsOf, IsStarts, AlignedEnd
<1> QED
  BY <1>2, <1>3

\* Entry by entry, the starts are natural numbers that rise by at least a header, and even ones where
\* sections are aligned.
LEMMA StartsStep ==
  ASSUME NEW es \in Seq(EntrySet), NEW a \in {1, 2}, NEW S, S = Walks!StartsOf(es, a)
  PROVE  /\ DOMAIN S = 1 .. Len(es) + 1
         /\ S[1] = 0
         /\ \A i \in 1 .. Len(es) : S[i + 1] = AlignedEnd(es, a, S[i], i + 1)
<1>1. S = [i \in 1 .. Len(es) + 1 |-> IF i = 1 THEN 0 ELSE AlignedEnd(es, a, S[i - 1], i)]
  BY StartsAre DEF IsStarts
<1> DEFINE F(i) == IF i = 1 THEN 0 ELSE AlignedEnd(es, a, S[i - 1], i)
<1>2. S = [i \in 1 .. Len(es) + 1 |-> F(i)]
  BY <1>1
<1>3. F(1) = 0 /\ 1 \in 1 .. Len(es) + 1
  OBVIOUS
<1>4. \A i \in 1 .. Len(es) : i + 1 \in 1 .. Len(es) + 1 /\ F(i + 1) = AlignedEnd(es, a, S[i], i + 1)
  <2> TAKE i \in 1 .. Len(es)
  <2>1. i + 1 \in 1 .. Len(es) + 1 /\ i + 1 # 1 /\ (i + 1) - 1 = i
    OBVIOUS
  <2> QED
    BY <2>1
<1> HIDE DEF F
<1>5. DOMAIN S = 1 .. Len(es) + 1
  BY <1>2
<1>6. \A i \in 1 .. Len(es) + 1 : S[i] = F(i)
  BY <1>2
<1> QED
  BY <1>3, <1>4, <1>5, <1>6

LEMMA StartsNat ==
  ASSUME NEW es \in Seq(EntrySet), NEW a \in {1, 2}, NEW S, S = Walks!StartsOf(es, a)
  PROVE  /\ \A i \in 1 .. Len(es) + 1 : S[i] \in Nat
         /\ \A i \in 1 .. Len(es) : a = 2 => S[i] % 2 = 0
<1> DEFINE Bad == {m \in 1 .. Len(es) + 1 : ~(S[m] \in Nat /\ (m <= Len(es) /\ a = 2 => S[m] % 2 = 0))}
<1>1. SUFFICES Bad = {}
  OBVIOUS
<1>2. SUFFICES ASSUME Bad # {} PROVE FALSE
  OBVIOUS
<1>3. Bad \subseteq Nat
  OBVIOUS
<1>4. PICK m \in Bad : \A y \in Bad : m <= y
  BY <1>2, <1>3, LeastNumber
<1>5. m # 1
  <2>1. S[1] = 0 /\ 0 % 2 = 0
    BY StartsStep
  <2> QED
    BY <2>1
<1>6. m - 1 \in 1 .. Len(es) /\ ~(m <= m - 1) /\ (m - 1) + 1 = m /\ m \in 1 .. Len(es) + 1
  BY <1>5
<1>7. S[m - 1] \in Nat
  BY <1>4, <1>6
<1>8. S[m] = AlignedEnd(es, a, S[m - 1], m)
  <2>1. S[(m - 1) + 1] = AlignedEnd(es, a, S[m - 1], (m - 1) + 1)
    BY <1>6, StartsStep
  <2> QED
    BY <1>6, <2>1
<1>9. es[m - 1] \in EntrySet
  BY <1>6
<1>10. S[m - 1] + Walks!Extent(es[m - 1]) \in Nat
  BY <1>7, <1>9, ExtentIs
<1> DEFINE e == S[m - 1] + Walks!Extent(es[m - 1])
<1>11. /\ S[m] = IF m <= Len(es) THEN Walks!align(e, a) ELSE e
       /\ e \in Nat
  BY <1>8, <1>10 DEF AlignedEnd
<1> HIDE DEF e
<1>12. S[m] \in Nat /\ (m <= Len(es) /\ a = 2 => S[m] % 2 = 0)
  BY <1>11, AlignIs
<1> QED
  BY <1>4, <1>12

LEMMA StartsRise ==
  ASSUME NEW es \in Seq(EntrySet), NEW a \in {1, 2}, NEW S, S = Walks!StartsOf(es, a),
         \A i \in 1 .. Len(es) : Walks!Extent(es[i]) >= 2
  PROVE  \A i \in 1 .. Len(es) :
           /\ S[i] + Walks!Extent(es[i]) <= S[i + 1]
           /\ a = 1 \/ i = Len(es) => S[i + 1] = S[i] + Walks!Extent(es[i])
           /\ \A j \in i + 1 .. Len(es) + 1 : S[i + 1] <= S[j]
<1>1. ASSUME NEW i \in 1 .. Len(es)
      PROVE  /\ S[i] + Walks!Extent(es[i]) <= S[i + 1]
             /\ a = 1 \/ i = Len(es) => S[i + 1] = S[i] + Walks!Extent(es[i])
  <2>1. S[i + 1] = AlignedEnd(es, a, S[i], i + 1) /\ (i + 1) - 1 = i /\ (i + 1 <= Len(es) <=> i # Len(es))
    BY StartsStep
  <2>2. es[i] \in EntrySet /\ S[i] \in Nat
    BY StartsNat
  <2> DEFINE e == S[i] + Walks!Extent(es[i])
  <2>3. e \in Nat
    BY <2>2, ExtentIs
  <2>4. S[i + 1] = IF i # Len(es) THEN Walks!align(e, a) ELSE e
    BY <2>1 DEF AlignedEnd
  <2> HIDE DEF e
  <2>5. e <= S[i + 1] /\ (a = 1 \/ i = Len(es) => S[i + 1] = e)
    <3>1. CASE i = Len(es) \/ a = 1
      <4>1. Walks!align(e, 1) = e
        BY <2>3, AlignIs
      <4> QED
        BY <2>3, <2>4, <3>1, <4>1
    <3>2. CASE i # Len(es) /\ a = 2
      <4>1. S[i + 1] = Walks!align(e, 2)
        BY <2>4, <3>2
      <4>2. e <= Walks!align(e, 2)
        BY <2>3, AlignIs
      <4> QED
        BY <3>2, <4>1, <4>2
    <3> QED
      BY <3>1, <3>2
  <2> QED
    BY <2>5 DEF e
<1>2. ASSUME NEW i \in 1 .. Len(es)
      PROVE  \A j \in i + 1 .. Len(es) + 1 : S[i + 1] <= S[j]
  <2> DEFINE Bad == {m \in i + 1 .. Len(es) + 1 : ~(S[i + 1] <= S[m])}
  <2>1. SUFFICES ASSUME Bad # {} PROVE FALSE
    OBVIOUS
  <2>2. Bad \subseteq Nat
    OBVIOUS
  <2>3. PICK m \in Bad : \A y \in Bad : m <= y
    BY <2>1, <2>2, LeastNumber
  <2>4. \A k \in 1 .. Len(es) + 1 : S[k] \in Nat
    BY StartsNat
  <2>5. m # i + 1
    <3>1. i + 1 \in 1 .. Len(es) + 1
      OBVIOUS
    <3>2. S[i + 1] <= S[i + 1]
      BY <2>4, <3>1
    <3> QED
      BY <2>3, <3>2
  <2>6. m - 1 \in i + 1 .. Len(es) + 1 /\ m - 1 \in 1 .. Len(es) /\ (m - 1) + 1 = m /\ ~(m <= m - 1)
    BY <2>5
  <2>7. S[i + 1] <= S[m - 1]
    BY <2>3, <2>6
  <2>8. S[m - 1] + Walks!Extent(es[m - 1]) <= S[m] /\ es[m - 1] \in EntrySet
    BY <1>1, <2>6
  <2>9. S[m - 1] \in Nat /\ S[m] \in Nat /\ S[i + 1] \in Nat
    <3>1. m - 1 \in 1 .. Len(es) + 1 /\ m \in 1 .. Len(es) + 1 /\ i + 1 \in 1 .. Len(es) + 1
      BY <2>6
    <3> QED
      BY <2>4, <3>1
  <2>10. S[m - 1] <= S[m]
    <3> DEFINE x == Walks!Extent(es[m - 1])
    <3>1. x \in Nat /\ S[m - 1] + x <= S[m]
      BY <2>8, ExtentIs
    <3> HIDE DEF x
    <3> QED
      BY <2>9, <3>1
  <2>11. S[i + 1] <= S[m]
    BY <2>7, <2>9, <2>10
  <2> QED
    BY <2>3, <2>11
<1> QED
  BY <1>1, <1>2

LEMMA ImageEntries ==
  ASSUME WalkImage
  PROVE  /\ Len(wEntries) \in Nat /\ DOMAIN wEntries = 1 .. Len(wEntries)
         /\ Len(wEntries) + 1 \in 1 .. Len(wEntries) + 1
         /\ wEntries \in Seq(EntrySet)
         /\ \A i \in 1 .. Len(wEntries) :
              /\ wEntries[i] \in EntrySet /\ wEntries[i].kind \in EntryKinds /\ wEntries[i].size \in Nat
              /\ Walks!Extent(wEntries[i]) \in Nat /\ Walks!Extent(wEntries[i]) >= 2
              /\ wEntries[i].kind \in {"good", "bare", "skip", "last"}
                   => Walks!Extent(wEntries[i]) = wEntries[i].size
              /\ wEntries[i].kind \in {"zero", "long", "foreign"} => Walks!Extent(wEntries[i]) = 2
<1>1. wEntries \in Seq(EntrySet)
  BY DEF WalkImage, EntrySet
<1>2. ASSUME NEW i \in 1 .. Len(wEntries)
      PROVE  /\ wEntries[i] \in EntrySet /\ wEntries[i].kind \in EntryKinds /\ wEntries[i].size \in Nat
             /\ wEntries[i].kind \in {"good", "bare", "skip", "last"} => wEntries[i].size >= 2
  <2>1. wEntries[i] \in EntrySet
    BY <1>1
  <2>2. Fits(wWalk, wEntries[i])
    BY DEF WalkImage
  <2> QED
    BY <2>1, <2>2 DEF EntrySet, Fits
<1>3. ASSUME NEW i \in 1 .. Len(wEntries)
      PROVE  /\ wEntries[i].kind \in {"good", "bare", "skip", "last"}
                  => Walks!Extent(wEntries[i]) = wEntries[i].size
             /\ wEntries[i].kind \in {"zero", "long", "foreign"} => Walks!Extent(wEntries[i]) = 2
  BY DEF Walks!Extent, Walks!H
<1> QED
  BY <1>1, <1>2, <1>3 DEF EntryKinds

\* What is known of where the entries of the image start.
LEMMA ImageStarts ==
  ASSUME WalkImage
  PROVE  /\ Walks!Starts[1] = 0
         /\ \A i \in 1 .. Len(wEntries) + 1 : Walks!Starts[i] \in Nat
         /\ \A i \in 1 .. Len(wEntries) :
              /\ Walks!Starts[i] + Walks!Extent(wEntries[i]) <= Walks!Starts[i + 1]
              /\ wWalk \notin {"vss", "section"} \/ i = Len(wEntries)
                   => Walks!Starts[i + 1] = Walks!Starts[i] + Walks!Extent(wEntries[i])
              /\ wWalk = "section" /\ i # Len(wEntries)
                   => Walks!Starts[i + 1] = Walks!align(Walks!Starts[i] + Walks!Extent(wEntries[i]), 2)
              /\ wWalk = "section" => Walks!Starts[i] % 2 = 0
              /\ \A j \in i + 1 .. Len(wEntries) + 1 : Walks!Starts[i + 1] <= Walks!Starts[j]
<1>1. wEntries \in Seq(EntrySet) /\ \A i \in 1 .. Len(wEntries) : Walks!Extent(wEntries[i]) >= 2
  BY ImageEntries
<1> DEFINE a == Walks!AlignTo(wWalk)
<1>2. a \in {1, 2} /\ (wWalk \notin {"vss", "section"} => a = 1) /\ (wWalk = "section" => a = 2)
  BY DEF Walks!AlignTo
<1>3. Walks!Starts = Walks!StartsOf(wEntries, a)
  BY DEF Walks!Starts
<1> HIDE DEF a
<1>4. /\ Walks!Starts[1] = 0
      /\ \A i \in 1 .. Len(wEntries) :
           Walks!Starts[i + 1] = AlignedEnd(wEntries, a, Walks!Starts[i], i + 1)
  BY <1>1, <1>2, <1>3, StartsStep
<1>5. /\ \A i \in 1 .. Len(wEntries) + 1 : Walks!Starts[i] \in Nat
      /\ \A i \in 1 .. Len(wEntries) : a = 2 => Walks!Starts[i] % 2 = 0
  BY <1>1, <1>2, <1>3, StartsNat
<1>6. \A i \in 1 .. Len(wEntries) :
        /\ Walks!Starts[i] + Walks!Extent(wEntries[i]) <= Walks!Starts[i + 1]
        /\ a = 1 \/ i = Len(wEntries)
             => Walks!Starts[i + 1] = Walks!Starts[i] + Walks!Extent(wEntries[i])
        /\ \A j \in i + 1 .. Len(wEntries) + 1 : Walks!Starts[i + 1] <= Walks!Starts[j]
  BY <1>1, <1>2, <1>3, StartsRise
<1>7. ASSUME NEW i \in 1 .. Len(wEntries), wWalk = "section", i # Len(wEntries)
      PROVE  Walks!Starts[i + 1] = Walks!align(Walks!Starts[i] + Walks!Extent(wEntries[i]), 2)
  <2>1. i + 1 <= Len(wEntries) /\ (i + 1) - 1 = i
    BY <1>7
  <2>2. Walks!Starts[i + 1] = AlignedEnd(wEntries, 2, Walks!Starts[i], i + 1)
    BY <1>2, <1>4, <1>7
  <2> QED
    BY <2>1, <2>2 DEF AlignedEnd
<1> QED
  BY <1>2, <1>4, <1>5, <1>6, <1>7

LEMMA StartsOrder ==
  ASSUME WalkImage, NEW i \in 1 .. Len(wEntries), NEW j \in 1 .. Len(wEntries) + 1
  PROVE  /\ i < j => Walks!Starts[i] + 2 <= Walks!Starts[j]
         /\ Walks!Starts[i] = Walks!Starts[j] => i = j
<1>1. ASSUME NEW k \in 1 .. Len(wEntries), NEW m \in 1 .. Len(wEntries) + 1, k < m
      PROVE  Walks!Starts[k] + 2 <= Walks!Starts[m]
  <2> DEFINE x == Walks!Extent(wEntries[k])
  <2>1. x \in Nat /\ x >= 2
    BY ImageEntries
  <2>2. k + 1 \in 1 .. Len(wEntries) + 1 /\ m \in k + 1 .. Len(wEntries) + 1
    BY <1>1, ImageEntries
  <2>3. Walks!Starts[k] + x <= Walks!Starts[k + 1] /\ Walks!Starts[k + 1] <= Walks!Starts[m]
    BY <2>2, ImageStarts
  <2>4. Walks!Starts[k] \in Nat /\ Walks!Starts[k + 1] \in Nat /\ Walks!Starts[m] \in Nat
    BY <2>2, ImageStarts
  <2> HIDE DEF x
  <2> QED
    BY <2>1, <2>3, <2>4
<1>2. Walks!Starts[i] \in Nat /\ Walks!Starts[j] \in Nat
  BY ImageStarts
<1>3. j < i => Walks!Starts[j] + 2 <= Walks!Starts[i]
  BY <1>1
<1> QED
  BY <1>1, <1>2, <1>3

LEMMA AtHeader ==
  ASSUME WalkImage, NEW i \in 1 .. Len(wEntries)
  PROVE  Walks!HeaderAt(Walks!Starts[i]) = Walks!HeaderOf(wEntries[i])
<1>1. DOMAIN wEntries = 1 .. Len(wEntries)
  BY ImageEntries
<1>2. \A j \in DOMAIN wEntries : Walks!Starts[j] = Walks!Starts[i] => j = i
  BY <1>1, StartsOrder
<1>3. (CHOOSE j \in DOMAIN wEntries : Walks!Starts[j] = Walks!Starts[i]) = i
  BY <1>1, <1>2
<1> QED
  BY <1>1, <1>3 DEF Walks!HeaderAt

LEMMA AtFill ==
  ASSUME WalkImage, NEW o \in Nat, o >= Behind
  PROVE  Walks!HeaderAt(o) = Walks!Header("fill", Walks!Beyond)
<1>1. /\ DOMAIN wEntries = 1 .. Len(wEntries) /\ Len(wEntries) \in Nat
      /\ Len(wEntries) + 1 \in 1 .. Len(wEntries) + 1
  BY ImageEntries
<1>2. Behind = Walks!Starts[Len(wEntries) + 1]
  BY DEF Behind
<1>3. ASSUME NEW i \in 1 .. Len(wEntries)
      PROVE  Walks!Starts[i] # o
  <2>1. Walks!Starts[i] + 2 <= Behind
    BY <1>1, <1>2, StartsOrder
  <2>2. Walks!Starts[i] \in Nat /\ Behind \in Nat
    <3>1. i \in 1 .. Len(wEntries) + 1
      BY <1>1
    <3>2. \A k \in 1 .. Len(wEntries) + 1 : Walks!Starts[k] \in Nat
      BY ImageStarts
    <3> QED
      BY <1>1, <1>2, <3>1, <3>2
  <2> QED
    BY <2>1, <2>2
<1> QED
  BY <1>1, <1>2, <1>3 DEF Walks!HeaderAt

\* Only the start of an entry has an entry's header.
LEMMA OnlyStarts ==
  ASSUME NEW o, Walks!HeaderAt(o).kind \in {"good", "skip"}, WalkImage
  PROVE  \E i \in 1 .. Len(wEntries) : o = Walks!Starts[i]
<1>1. SUFFICES ASSUME ~ \E i \in DOMAIN wEntries : Walks!Starts[i] = o PROVE FALSE
  BY ImageEntries
<1>2. \E k \in {"fill", "body"} : Walks!HeaderAt(o) = Walks!Header(k, Walks!Beyond)
  BY <1>1 DEF Walks!HeaderAt
<1> QED
  BY <1>2 DEF Walks!Header

LEMMA SizeIs ==
  ASSUME WalkImage
  PROVE  /\ Behind \in Nat /\ Walks!Size \in Nat /\ Walks!Beyond \in Nat
         /\ Behind = Walks!Starts[Len(wEntries) + 1]
         /\ Walks!Size = Behind + wFill /\ wFill \in Nat
         /\ Walks!Beyond = Walks!Size + 20 /\ Walks!NfitHeaders = 20
<1>1. wFill \in Nat
  BY DEF WalkImage
<1>2. Behind \in Nat
  BY ImageStarts, ImageEntries DEF Behind
<1> QED
  BY <1>1, <1>2 DEF Behind, Walks!Size, Walks!Beyond, Walks!NfitHeaders, Walks!H

\* The walk at entry i sees its kind k and its length z, which leads to the next entry unless it is
\* damaged.
Whole == {"good", "bare", "skip", "last"}
Sees(i, k, z) ==
  /\ Walks!HeaderAt(Walks!Starts[i]) = [kind |-> k, size |-> z]
  /\ k = wEntries[i].kind /\ k \in EntryKinds /\ z \in Nat
  /\ Fits(wWalk, wEntries[i])
  /\ k \in Whole =>
       /\ z = wEntries[i].size /\ z >= 2 /\ Walks!Starts[i] + z <= Walks!Starts[i + 1]
       /\ wWalk \notin {"vss", "section"} \/ i = Len(wEntries)
            => Walks!Starts[i + 1] = Walks!Starts[i] + z
  /\ k = "zero" => z = 0
  /\ k = "long" => z = Walks!Beyond
  /\ k \in {"last", "zero", "long", "foreign"} => i = Len(wEntries)
  /\ k \in {"zero", "long", "foreign"} => ~Walks!Clean /\ Behind = Walks!Starts[i] + 2
Room(i) ==
  /\ Walks!Starts[i] \in Nat /\ Walks!Starts[i + 1] \in Nat /\ Walks!Starts[i] + 2 <= Walks!Starts[i + 1]
  /\ i = Len(wEntries) => Walks!Starts[i + 1] = Behind
  /\ i # Len(wEntries) => Walks!Starts[i + 1] + 2 <= Behind

LEMMA RoomIs == ASSUME WalkImage, NEW i \in 1 .. Len(wEntries) PROVE Room(i)
<1>1. i \in 1 .. Len(wEntries) + 1 /\ i + 1 \in 1 .. Len(wEntries) + 1 /\ i < i + 1
  BY ImageEntries
<1>2. Walks!Starts[i] \in Nat /\ Walks!Starts[i + 1] \in Nat
  BY <1>1, ImageStarts
<1>3. Walks!Starts[i] + 2 <= Walks!Starts[i + 1]
  BY <1>1, StartsOrder
<1>4. ASSUME i # Len(wEntries)
      PROVE  Walks!Starts[i + 1] + 2 <= Walks!Starts[Len(wEntries) + 1]
  <2>1. i + 1 \in 1 .. Len(wEntries) /\ i + 1 < Len(wEntries) + 1
    BY <1>4
  <2> QED
    BY <2>1, StartsOrder, ImageEntries
<1> QED
  BY <1>2, <1>3, <1>4 DEF Room, Behind

LEMMA SeesEntry ==
  ASSUME WalkImage, NEW i \in 1 .. Len(wEntries)
  PROVE  \E k, z : Sees(i, k, z)
<1> DEFINE e == wEntries[i]
           z == IF e.kind = "long" THEN Walks!Beyond ELSE e.size
<1>1. Walks!HeaderAt(Walks!Starts[i]) = [kind |-> e.kind, size |-> z]
  BY AtHeader DEF Walks!HeaderOf, Walks!Header
<1>2. /\ e.kind \in EntryKinds /\ e.size \in Nat
      /\ e.kind \in Whole => Walks!Extent(e) = e.size /\ e.size >= 2
      /\ e.kind \in {"zero", "long", "foreign"} => Walks!Extent(e) = 2
  BY ImageEntries DEF Whole
<1>3. Fits(wWalk, e) /\ (e.kind \in {"last", "zero", "long", "foreign"} => i = Len(wEntries))
  BY DEF WalkImage
<1>4. z \in Nat
  BY <1>2, SizeIs
<1>5. /\ Walks!Starts[i] + Walks!Extent(e) <= Walks!Starts[i + 1]
      /\ wWalk \notin {"vss", "section"} \/ i = Len(wEntries)
           => Walks!Starts[i + 1] = Walks!Starts[i] + Walks!Extent(e)
  BY ImageStarts
<1>6. e.kind \in {"zero", "long", "foreign"} => ~Walks!Clean
  BY ImageEntries DEF Walks!Clean
<1>7. e.kind \in {"zero", "long", "foreign"} => Behind = Walks!Starts[i] + 2
  BY <1>2, <1>3, <1>5 DEF Behind
<1>8. e.kind = "zero" => z = 0
  BY <1>3 DEF Fits
<1>9. e.kind \in Whole =>
        /\ z = e.size /\ z >= 2 /\ Walks!Starts[i] + z <= Walks!Starts[i + 1]
        /\ wWalk \notin {"vss", "section"} \/ i = Len(wEntries)
             => Walks!Starts[i + 1] = Walks!Starts[i] + z
  BY <1>2, <1>5 DEF Whole
<1>10. e.kind = "long" => z = Walks!Beyond
  OBVIOUS
<1> HIDE DEF z
<1>11. Sees(i, e.kind, z)
  BY <1>1, <1>2, <1>3, <1>4, <1>6, <1>7, <1>8, <1>9, <1>10 DEF Sees
<1> QED
  BY <1>11

\* What a turn t may do at entry i: go on to the next entry, stop at a last one that it does not
\* look at or with which the format ends, stop or stay at an unknown type, or be misled.
Misses(t, i) == /\ ~t.add /\ t.end \in {"end", "raised"}
                /\ Walks!Clean => i = Len(wEntries) /\ Walks!Unseen
Advances(t, i) ==
  /\ t.end = "" /\ t.next \in Nat /\ t.next > Walks!Starts[i]
  /\ wEntries[i].kind \in Whole
  /\ t.add <=> wEntries[i].kind # "skip"
  /\ wWalk \in UpToUnknown => wEntries[i].kind # "skip"
  /\ i # Len(wEntries) => t.next = Walks!Starts[i + 1]
  /\ i = Len(wEntries) => t.next >= Behind /\ (wWalk = "nvar_simple" => t.next = Behind)
Ends(t, i) == /\ t.add /\ t.end \in {"end", "raised"}
              /\ i = Len(wEntries) /\ wEntries[i].kind = "last"
Unknown(t, i) == /\ ~t.add /\ wEntries[i].kind = "skip" /\ wWalk \in UpToUnknown
                 /\ \/ t.end \in {"end", "raised"}
                    \/ t.end = "" /\ t.next = Walks!Starts[i] /\ wWalk = "nfit"
Misled(t, i) == /\ wEntries[i].kind \in {"zero", "long", "foreign"} /\ ~Walks!Clean
                /\ \/ t.end \in {"end", "raised"}
                   \/ t.end = "" /\ t.next \in Nat /\ t.next >= Behind /\ t.next # Walks!Starts[i]
                   \/ /\ t.end = "" /\ t.next = Walks!Starts[i]
                      /\ wEntries[i].kind = "zero" /\ wWalk \in {"auth", "nfit"}
Outcome(t, i) ==
  Misses(t, i) \/ Advances(t, i) \/ Ends(t, i) \/ Unknown(t, i) \/ Misled(t, i)

LEMMA StopIs == ~Walks!Stop.add /\ Walks!Stop.end = "end"
BY DEF Walks!Stop, Walks!Take, Walks!Pass

\* A walk that looks for more than a header does not see a last entry that is only one.
LEMMA TooShort ==
  ASSUME WalkImage, NEW i \in 1 .. Len(wEntries), Walks!Starts[i] + 2 >= Walks!Size,
         wWalk \notin Walks!ToTheEnd
  PROVE  Misses(Walks!Stop, i)
<1>1. PICK k, z : Sees(i, k, z)
  BY SeesEntry
<1>2. i = Len(wEntries) /\ wFill = 0
  <2>1. Room(i) /\ Behind \in Nat /\ wFill \in Nat /\ Walks!Size = Behind + wFill
    BY RoomIs, SizeIs
  <2> QED
    BY <2>1 DEF Room
<1>3. ASSUME Walks!Clean PROVE Walks!Unseen
  <2>1. k \in Whole
    BY <1>1, <1>3 DEF Sees, Whole, EntryKinds
  <2>2. z = 2
    BY <1>1, <1>2, <2>1, RoomIs, SizeIs DEF Room, Sees
  <2>3. wEntries[Len(wEntries)].size = 2 /\ wEntries # <<>>
    BY <1>1, <1>2, <2>1, <2>2 DEF Sees
  <2> QED
    BY <1>2, <2>3 DEF Walks!Unseen, Walks!H
<1> QED
  BY <1>2, <1>3, StopIs DEF Misses

\* An undamaged entry that is added, and one that is stepped over, lead to the next.
LEMMA AddAdvances ==
  ASSUME WalkImage, NEW i \in 1 .. Len(wEntries), NEW k, NEW z, Sees(i, k, z),
         k \in Whole, k # "skip", wWalk \notin {"vss", "section"}
  PROVE  Advances(Walks!Add(Walks!Starts[i], [kind |-> k, size |-> z]), i)
<1>1. /\ Walks!Add(Walks!Starts[i], [kind |-> k, size |-> z]).add
      /\ Walks!Add(Walks!Starts[i], [kind |-> k, size |-> z]).end = ""
      /\ Walks!Add(Walks!Starts[i], [kind |-> k, size |-> z]).next = Walks!Starts[i] + z
  BY DEF Walks!Add, Walks!Take, Walks!Pass
<1>2. Walks!Starts[i] + z = Walks!Starts[i + 1]
  BY DEF Sees
<1>3. Room(i) /\ Behind \in Nat
  BY RoomIs, SizeIs
<1>4. /\ Walks!Starts[i + 1] \in Nat /\ Walks!Starts[i + 1] > Walks!Starts[i]
      /\ i = Len(wEntries) => Walks!Starts[i + 1] = Behind /\ Walks!Starts[i + 1] >= Behind
  BY <1>3 DEF Room
<1> HIDE DEF Room
<1> QED
  BY <1>1, <1>2, <1>4 DEF Advances, Sees

LEMMA SkipAdvances ==
  ASSUME WalkImage, NEW i \in 1 .. Len(wEntries), NEW k, NEW z, Sees(i, k, z),
         k = "skip", wWalk \notin UpToUnknown, wWalk \notin {"vss", "section"}
  PROVE  Advances(Walks!Skip(Walks!Starts[i], [kind |-> k, size |-> z]), i)
<1>1. /\ ~Walks!Skip(Walks!Starts[i], [kind |-> k, size |-> z]).add
      /\ Walks!Skip(Walks!Starts[i], [kind |-> k, size |-> z]).end = ""
      /\ Walks!Skip(Walks!Starts[i], [kind |-> k, size |-> z]).next = Walks!Starts[i] + z
  BY DEF Walks!Skip, Walks!Take, Walks!Pass
<1>2. Walks!Starts[i] + z = Walks!Starts[i + 1] /\ k \in Whole
  BY DEF Sees, Whole
<1>3. Room(i) /\ Behind \in Nat
  BY RoomIs, SizeIs
<1>4. /\ Walks!Starts[i + 1] \in Nat /\ Walks!Starts[i + 1] > Walks!Starts[i]
      /\ i = Len(wEntries) => Walks!Starts[i + 1] = Behind /\ Walks!Starts[i + 1] >= Behind
  BY <1>3 DEF Room
<1> HIDE DEF Room
<1> QED
  BY <1>1, <1>2, <1>4 DEF Advances, Sees

\* A length that leads out of the image does so.
LEMMA LongMisleads ==
  ASSUME WalkImage, NEW i \in 1 .. Len(wEntries), NEW k, NEW z, Sees(i, k, z), k = "long"
  PROVE  Misled(Walks!Add(Walks!Starts[i], [kind |-> k, size |-> z]), i)
<1>1. /\ Walks!Add(Walks!Starts[i], [kind |-> k, size |-> z]).end = ""
      /\ Walks!Add(Walks!Starts[i], [kind |-> k, size |-> z]).next = Walks!Starts[i] + z
  BY DEF Walks!Add, Walks!Take, Walks!Pass
<1>2. z = Walks!Beyond /\ ~Walks!Clean
  BY DEF Sees
<1>3. /\ Walks!Starts[i] + z \in Nat /\ Walks!Starts[i] + z >= Behind
      /\ Walks!Starts[i] + z # Walks!Starts[i]
  <2>1. Room(i) /\ Behind \in Nat /\ wFill \in Nat /\ Walks!Beyond = (Behind + wFill) + 20
    BY RoomIs, SizeIs
  <2>2. Walks!Starts[i] \in Nat
    BY <2>1 DEF Room
  <2> QED
    BY <1>2, <2>1, <2>2
<1> QED
  BY <1>1, <1>2, <1>3 DEF Misled, Sees

\* What the tests of the loops compare.
Compares(i, k, z) ==
  /\ Walks!HeaderAt(Walks!Starts[i]) = [kind |-> k, size |-> z]
  /\ k \in EntryKinds /\ z \in Nat /\ k = wEntries[i].kind
  /\ Walks!Starts[i] \in Nat /\ Walks!Size \in Nat /\ Walks!Beyond = Walks!Size + 20
  /\ Walks!Starts[i] + 2 <= Walks!Size
  /\ k \in Whole => z >= 2 /\ Walks!Starts[i] + z <= Walks!Size
  /\ k = "zero" => z = 0
  /\ k = "long" => z = Walks!Beyond
  /\ k \in {"zero", "long", "foreign"} => ~Walks!Clean

LEMMA Looks ==
  ASSUME WalkImage, NEW i \in 1 .. Len(wEntries)
  PROVE  \E k, z : Sees(i, k, z) /\ Compares(i, k, z)
<1>1. PICK k, z : Sees(i, k, z)
  BY SeesEntry
<1>2. Room(i) /\ Behind \in Nat /\ wFill \in Nat /\ Walks!Size = Behind + wFill
  BY RoomIs, SizeIs
<1>3. Walks!Starts[i] \in Nat /\ Walks!Starts[i] + 2 <= Behind /\ Walks!Starts[i + 1] <= Behind
  BY <1>2 DEF Room
<1>4. Walks!Starts[i] + 2 <= Walks!Size
  BY <1>2, <1>3
<1>5. ASSUME k \in Whole PROVE z >= 2 /\ Walks!Starts[i] + z <= Walks!Size
  <2>1. z \in Nat /\ z >= 2 /\ Walks!Starts[i] + z <= Walks!Starts[i + 1]
    BY <1>1, <1>5 DEF Sees
  <2>2. Walks!Starts[i + 1] \in Nat
    BY <1>2 DEF Room
  <2> QED
    BY <1>2, <1>3, <2>1, <2>2
<1>6. Compares(i, k, z)
  BY <1>1, <1>3, <1>4, <1>5, SizeIs DEF Sees, Compares
<1> QED
  BY <1>1, <1>6

\* At an entry every loop goes on to the next one, or ends as it may.
LEMMA NvarTurn ==
  ASSUME WalkImage, NEW i \in 1 .. Len(wEntries), wWalk = "nvar"
  PROVE  Outcome(Walks!nvar(Walks!Starts[i]), i)
<1> DEFINE o == Walks!Starts[i]
<1>1. PICK k, z : Sees(i, k, z) /\ Compares(i, k, z)
  BY Looks
<1> DEFINE h == [kind |-> k, size |-> z]
<1>2. Walks!HeaderAt(o) = h /\ h.kind = k /\ h.size = z
  BY <1>1 DEF Sees
<1>3. k \in {"good", "skip", "zero", "long", "foreign"}
  BY <1>1 DEF Sees, Fits, EntryKinds, WithUnknown, Undamaged
<1>4. CASE o + 2 >= Walks!Size
  <2>1. Walks!nvar(o) = Walks!Stop
    BY <1>1, <1>2, <1>3, <1>4 DEF Walks!nvar, Walks!H, Compares, Whole
  <2> QED
    BY <1>1, <1>4, <2>1, TooShort DEF Outcome, Walks!ToTheEnd
<1>5. CASE o + 2 < Walks!Size /\ k \in {"zero", "foreign"}
  <2>1. Walks!nvar(o) = Walks!Stop
    BY <1>1, <1>2, <1>3, <1>5 DEF Walks!nvar, Walks!H, Compares, Whole
  <2> QED
    BY <1>1, <1>5, <2>1, StopIs DEF Outcome, Misled, Compares
<1>6. CASE o + 2 < Walks!Size /\ k = "skip"
  <2>1. Walks!nvar(o) = Walks!Skip(o, h)
    BY <1>1, <1>2, <1>3, <1>6 DEF Walks!nvar, Walks!H, Compares, Whole
  <2> QED
    BY <1>1, <1>6, <2>1, SkipAdvances DEF Outcome, UpToUnknown
<1>7. CASE o + 2 < Walks!Size /\ k \in {"good", "long"}
  <2>1. Walks!nvar(o) = Walks!Add(o, h)
    BY <1>1, <1>2, <1>3, <1>7 DEF Walks!nvar, Walks!H, Compares, Whole
  <2> QED
    BY <1>1, <1>7, <2>1, AddAdvances, LongMisleads DEF Outcome, Whole
<1> QED
  BY <1>1, <1>3, <1>4, <1>5, <1>6, <1>7 DEF Compares

LEMMA SbDbTurn ==
  ASSUME WalkImage, NEW i \in 1 .. Len(wEntries), wWalk = "sb_db"
  PROVE  Outcome(Walks!sb_db(Walks!Starts[i]), i)
<1> DEFINE o == Walks!Starts[i]
<1>1. PICK k, z : Sees(i, k, z) /\ Compares(i, k, z)
  BY Looks
<1> DEFINE h == [kind |-> k, size |-> z]
<1>2. Walks!HeaderAt(o) = h /\ h.kind = k /\ h.size = z
  BY <1>1 DEF Sees
<1>3. k \in {"good", "skip", "zero", "long"}
  BY <1>1 DEF Sees, Fits, EntryKinds, WithUnknown, Undamaged
<1>4. CASE o + 2 >= Walks!Size
  <2>1. Walks!sb_db(o) = Walks!Stop
    BY <1>1, <1>2, <1>3, <1>4 DEF Walks!sb_db, Walks!H, Compares, Whole
  <2> QED
    BY <1>1, <1>4, <2>1, TooShort DEF Outcome, Walks!ToTheEnd
<1>5. CASE o + 2 < Walks!Size /\ k = "zero"
  <2>1. Walks!sb_db(o) = Walks!Stop
    BY <1>1, <1>2, <1>3, <1>5 DEF Walks!sb_db, Walks!H, Compares, Whole
  <2> QED
    BY <1>1, <1>5, <2>1, StopIs DEF Outcome, Misled, Compares
<1>6. CASE o + 2 < Walks!Size /\ k = "skip"
  <2>1. Walks!sb_db(o) = Walks!Skip(o, h)
    BY <1>1, <1>2, <1>3, <1>6 DEF Walks!sb_db, Walks!H, Compares, Whole
  <2> QED
    BY <1>1, <1>6, <2>1, SkipAdvances DEF Outcome, UpToUnknown
<1>7. CASE o + 2 < Walks!Size /\ k \in {"good", "long"}
  <2>1. Walks!sb_db(o) = Walks!Add(o, h)
    BY <1>1, <1>2, <1>3, <1>7 DEF Walks!sb_db, Walks!H, Compares, Whole
  <2> QED
    BY <1>1, <1>7, <2>1, AddAdvances, LongMisleads DEF Outcome, Whole
<1> QED
  BY <1>1, <1>3, <1>4, <1>5, <1>6, <1>7 DEF Compares

LEMMA NvarSimpleTurn ==
  ASSUME WalkImage, NEW i \in 1 .. Len(wEntries), wWalk = "nvar_simple"
  PROVE  Outcome(Walks!nvar_simple(Walks!Starts[i]), i)
<1> DEFINE o == Walks!Starts[i]
<1>1. PICK k, z : Sees(i, k, z) /\ Compares(i, k, z)
  BY Looks
<1> DEFINE h == [kind |-> k, size |-> z]
<1>2. Walks!HeaderAt(o) = h /\ h.kind = k /\ h.size = z
  BY <1>1 DEF Sees
<1>3. k \in {"good", "zero", "long"}
  BY <1>1 DEF Sees, Fits, EntryKinds, WithUnknown, Undamaged
<1>4. CASE o + 2 >= Walks!Size
  <2>1. Walks!nvar_simple(o) = Walks!Stop
    BY <1>1, <1>2, <1>3, <1>4 DEF Walks!nvar_simple, Walks!H, Compares, Whole
  <2> QED
    BY <1>1, <1>4, <2>1, TooShort DEF Outcome, Walks!ToTheEnd
<1>5. CASE o + 2 < Walks!Size /\ k = "zero"
  <2>1. Walks!nvar_simple(o) = Walks!Take(o, "end")
    BY <1>1, <1>2, <1>3, <1>5 DEF Walks!nvar_simple, Walks!H, Compares, Whole
  <2> QED
    BY <1>1, <1>5, <2>1 DEF Outcome, Misled, Compares, Walks!Take, Walks!Pass
<1>6. CASE o + 2 < Walks!Size /\ k \in {"good", "long"}
  <2>1. Walks!nvar_simple(o) = Walks!Add(o, h)
    BY <1>1, <1>2, <1>3, <1>6 DEF Walks!nvar_simple, Walks!H, Compares, Whole
  <2> QED
    BY <1>1, <1>6, <2>1, AddAdvances, LongMisleads DEF Outcome, Whole
<1> QED
  BY <1>1, <1>3, <1>4, <1>5, <1>6 DEF Compares

LEMMA AuthTurn ==
  ASSUME WalkImage, NEW i \in 1 .. Len(wEntries), wWalk = "auth"
  PROVE  Outcome(Walks!auth(Walks!Starts[i]), i)
<1> DEFINE o == Walks!Starts[i]
<1>1. PICK k, z : Sees(i, k, z) /\ Compares(i, k, z)
  BY Looks
<1> DEFINE h == [kind |-> k, size |-> z]
<1>2. Walks!HeaderAt(o) = h /\ h.kind = k /\ h.size = z
  BY <1>1 DEF Sees
<1>3. k \in {"good", "zero", "long"}
  BY <1>1 DEF Sees, Fits, EntryKinds, WithUnknown, Undamaged
<1>4. CASE o + 2 >= Walks!Size
  <2>1. Walks!auth(o) = Walks!Stop
    BY <1>1, <1>2, <1>3, <1>4 DEF Walks!auth, Walks!H, Compares, Whole
  <2> QED
    BY <1>1, <1>4, <2>1, TooShort DEF Outcome, Walks!ToTheEnd
<1>5. CASE o + 2 < Walks!Size /\ k = "zero"
  <2>1. o \in Nat /\ z = 0 /\ o + z = o /\ ~(o + 2 >= Walks!Size)
    BY <1>1, <1>5 DEF Compares
  <2>2. Walks!auth(o) = Walks!Take(o, "")
    BY <1>2, <2>1 DEF Walks!auth, Walks!Add, Walks!H
  <2>3. Walks!Take(o, "").end = "" /\ Walks!Take(o, "").next = o
    BY DEF Walks!Take
  <2> QED
    BY <1>1, <1>5, <2>2, <2>3 DEF Outcome, Misled, Compares
<1>6. CASE o + 2 < Walks!Size /\ k \in {"good", "long"}
  <2>1. Walks!auth(o) = Walks!Add(o, h)
    BY <1>1, <1>2, <1>3, <1>6 DEF Walks!auth, Walks!H, Compares, Whole
  <2> QED
    BY <1>1, <1>6, <2>1, AddAdvances, LongMisleads DEF Outcome, Whole
<1> QED
  BY <1>1, <1>3, <1>4, <1>5, <1>6 DEF Compares

LEMMA S3Turn ==
  ASSUME WalkImage, NEW i \in 1 .. Len(wEntries), wWalk = "s3"
  PROVE  Outcome(Walks!s3(Walks!Starts[i]), i)
<1> DEFINE o == Walks!Starts[i]
<1>1. PICK k, z : Sees(i, k, z) /\ Compares(i, k, z)
  BY Looks
<1> DEFINE h == [kind |-> k, size |-> z]
<1>2. Walks!HeaderAt(o) = h /\ h.kind = k /\ h.size = z
  BY <1>1 DEF Sees
<1>3. k \in {"good", "last", "zero", "long"}
  BY <1>1 DEF Sees, Fits, EntryKinds, WithUnknown, Undamaged
<1>4. CASE k = "long"
  <2>1. Walks!s3(o) = Walks!Stop
    BY <1>1, <1>2, <1>3, <1>4 DEF Walks!s3, Walks!H, Compares, Whole
  <2> QED
    BY <1>1, <1>4, <2>1, StopIs DEF Outcome, Misled, Compares
<1>5. CASE k = "zero"
  <2>1. Walks!s3(o) = Walks!Pass(o, "raised")
    BY <1>1, <1>2, <1>3, <1>5 DEF Walks!s3, Walks!H, Compares, Whole
  <2> QED
    BY <1>1, <1>5, <2>1 DEF Outcome, Misled, Compares, Walks!Take, Walks!Pass
<1>6. CASE k = "last"
  <2>1. Walks!s3(o) = Walks!Take(o, "end")
    BY <1>1, <1>2, <1>3, <1>6 DEF Walks!s3, Walks!H, Compares, Whole
  <2> QED
    BY <1>1, <1>6, <2>1 DEF Outcome, Ends, Sees, Walks!Take, Walks!Pass
<1>7. CASE k = "good"
  <2>1. Walks!s3(o) = Walks!Add(o, h)
    BY <1>1, <1>2, <1>3, <1>7 DEF Walks!s3, Walks!H, Compares, Whole
  <2> QED
    BY <1>1, <1>7, <2>1, AddAdvances, LongMisleads DEF Outcome, Whole
<1> QED
  BY <1>1, <1>3, <1>4, <1>5, <1>6, <1>7 DEF Compares

LEMMA EvsaTurn ==
  ASSUME WalkImage, NEW i \in 1 .. Len(wEntries), wWalk = "evsa"
  PROVE  Outcome(Walks!evsa(Walks!Starts[i]), i)
<1> DEFINE o == Walks!Starts[i]
<1>1. PICK k, z : Sees(i, k, z) /\ Compares(i, k, z)
  BY Looks
<1> DEFINE h == [kind |-> k, size |-> z]
<1>2. Walks!HeaderAt(o) = h /\ h.kind = k /\ h.size = z
  BY <1>1 DEF Sees
<1>3. k \in {"good", "skip", "zero", "long"}
  BY <1>1 DEF Sees, Fits, EntryKinds, WithUnknown, Undamaged
<1>4. CASE o + 2 >= Walks!Size
  <2>1. Walks!evsa(o) = Walks!Stop
    BY <1>1, <1>2, <1>3, <1>4 DEF Walks!evsa, Walks!H, Compares, Whole
  <2> QED
    BY <1>1, <1>4, <2>1, TooShort DEF Outcome, Walks!ToTheEnd
<1>5. CASE o + 2 < Walks!Size /\ k = "zero"
  <2>1. Walks!evsa(o) = Walks!Stop
    BY <1>1, <1>2, <1>3, <1>5 DEF Walks!evsa, Walks!H, Compares, Whole
  <2> QED
    BY <1>1, <1>5, <2>1, StopIs DEF Outcome, Misled, Compares
<1>6. CASE o + 2 < Walks!Size /\ k = "long"
  <2>1. Walks!evsa(o) = Walks!Pass(o, "raised")
    BY <1>1, <1>2, <1>3, <1>6 DEF Walks!evsa, Walks!H, Compares, Whole
  <2> QED
    BY <1>1, <1>6, <2>1 DEF Outcome, Misled, Compares, Walks!Take, Walks!Pass
<1>7. CASE o + 2 < Walks!Size /\ k = "skip"
  <2>1. Walks!evsa(o) = Walks!Skip(o, h)
    BY <1>1, <1>2, <1>3, <1>7 DEF Walks!evsa, Walks!H, Compares, Whole
  <2> QED
    BY <1>1, <1>7, <2>1, SkipAdvances DEF Outcome, UpToUnknown
<1>8. CASE o + 2 < Walks!Size /\ k = "good"
  <2>1. Walks!evsa(o) = Walks!Add(o, h)
    BY <1>1, <1>2, <1>3, <1>8 DEF Walks!evsa, Walks!H, Compares, Whole
  <2> QED
    BY <1>1, <1>8, <2>1, AddAdvances, LongMisleads DEF Outcome, Whole
<1> QED
  BY <1>1, <1>3, <1>4, <1>5, <1>6, <1>7, <1>8 DEF Compares

LEMMA DmarTurn ==
  ASSUME WalkImage, NEW i \in 1 .. Len(wEntries), wWalk \in {"dmar", "apic", "device_scope"}
  PROVE  Outcome(Walks!dmar(Walks!Starts[i]), i)
<1> DEFINE o == Walks!Starts[i]
<1>1. PICK k, z : Sees(i, k, z) /\ Compares(i, k, z)
  BY Looks
<1> DEFINE h == [kind |-> k, size |-> z]
<1>2. Walks!HeaderAt(o) = h /\ h.kind = k /\ h.size = z
  BY <1>1 DEF Sees
<1>3. k \in {"good", "zero", "long"}
  BY <1>1 DEF Sees, Fits, EntryKinds, WithUnknown, Undamaged
<1>4. CASE k = "zero"
  <2>1. Walks!dmar(o) = Walks!Stop
    BY <1>1, <1>2, <1>3, <1>4 DEF Walks!dmar, Walks!H, Compares, Whole
  <2> QED
    BY <1>1, <1>4, <2>1, StopIs DEF Outcome, Misled, Compares
<1>5. CASE k = "long"
  <2>1. Walks!dmar(o) = Walks!Pass(o, "raised")
    BY <1>1, <1>2, <1>3, <1>5 DEF Walks!dmar, Walks!H, Compares, Whole
  <2> QED
    BY <1>1, <1>5, <2>1 DEF Outcome, Misled, Compares, Walks!Take, Walks!Pass
<1>6. CASE k = "good"
  <2>1. Walks!dmar(o) = Walks!Add(o, h)
    BY <1>1, <1>2, <1>3, <1>6 DEF Walks!dmar, Walks!H, Compares, Whole
  <2> QED
    BY <1>1, <1>6, <2>1, AddAdvances, LongMisleads DEF Outcome, Whole
<1> QED
  BY <1>1, <1>3, <1>4, <1>5, <1>6 DEF Compares

LEMMA HestTurn ==
  ASSUME WalkImage, NEW i \in 1 .. Len(wEntries), wWalk = "hest"
  PROVE  Outcome(Walks!hest(Walks!Starts[i]), i)
<1> DEFINE o == Walks!Starts[i]
<1>1. PICK k, z : Sees(i, k, z) /\ Compares(i, k, z)
  BY Looks
<1> DEFINE h == [kind |-> k, size |-> z]
<1>2. Walks!HeaderAt(o) = h /\ h.kind = k /\ h.size = z
  BY <1>1 DEF Sees
<1>3. k \in {"good", "skip"}
  BY <1>1 DEF Sees, Fits, EntryKinds, WithUnknown, Undamaged
<1>4. CASE k = "skip"
  <2>1. Walks!hest(o) = Walks!Stop
    BY <1>1, <1>2, <1>3, <1>4 DEF Walks!hest, Walks!H, Compares, Whole
  <2> QED
    BY <1>1, <1>4, <2>1, StopIs DEF Outcome, Unknown, Compares, UpToUnknown, Walks!Take, Walks!Pass
<1>5. CASE k = "good"
  <2>1. Walks!hest(o) = Walks!Add(o, h)
    BY <1>1, <1>2, <1>3, <1>5 DEF Walks!hest, Walks!H, Compares, Whole
  <2> QED
    BY <1>1, <1>5, <2>1, AddAdvances, LongMisleads DEF Outcome, Whole
<1> QED
  BY <1>1, <1>3, <1>4, <1>5 DEF Compares

LEMMA NfitTurn ==
  ASSUME WalkImage, NEW i \in 1 .. Len(wEntries), wWalk = "nfit"
  PROVE  Outcome(Walks!nfit(Walks!Starts[i]), i)
<1> DEFINE o == Walks!Starts[i]
<1>1. PICK k, z : Sees(i, k, z) /\ Compares(i, k, z)
  BY Looks
<1> DEFINE h == [kind |-> k, size |-> z]
<1>2. Walks!HeaderAt(o) = h /\ h.kind = k /\ h.size = z
  BY <1>1 DEF Sees
<1>3. k \in {"good", "skip", "zero", "long"}
  BY <1>1 DEF Sees, Fits, EntryKinds, WithUnknown, Undamaged
<1>4. ~(o + 2 > Walks!Size) /\ o + 2 <= Walks!Size /\ o \in Nat /\ z \in Nat /\ Walks!Size \in Nat
  BY <1>1 DEF Compares
<1>5. Walks!NfitHeaders = 20 /\ Walks!Beyond = Walks!Size + 20
  BY SizeIs
<1>6. CASE k = "skip"
  <2>1. Walks!nfit(o) = Walks!Pass(o, "")
    BY <1>2, <1>4, <1>6 DEF Walks!nfit, Walks!H
  <2>2. Walks!Pass(o, "").end = "" /\ Walks!Pass(o, "").next = o /\ ~Walks!Pass(o, "").add
    BY DEF Walks!Pass
  <2> QED
    BY <1>1, <1>6, <2>1, <2>2 DEF Outcome, Unknown, Compares, UpToUnknown
<1>7. CASE k = "good"
  <2>1. ~(o + z >= Walks!Size + 20)
    BY <1>1, <1>4, <1>7 DEF Compares, Whole
  <2>2. Walks!nfit(o) = Walks!Add(o, h)
    BY <1>2, <1>4, <1>5, <1>7, <2>1 DEF Walks!nfit, Walks!H, Walks!Add
  <2> QED
    BY <1>1, <1>7, <2>2, AddAdvances DEF Outcome, Whole
<1>8. CASE k = "zero"
  <2>1. z = 0 /\ o + z = o /\ ~(o + z >= Walks!Size + 20)
    BY <1>1, <1>4, <1>8 DEF Compares
  <2>2. Walks!nfit(o) = Walks!Take(o, "")
    BY <1>2, <1>4, <1>5, <1>8, <2>1 DEF Walks!nfit, Walks!H
  <2>3. Walks!Take(o, "").end = "" /\ Walks!Take(o, "").next = o
    BY DEF Walks!Take
  <2> QED
    BY <1>1, <1>8, <2>2, <2>3 DEF Outcome, Misled, Compares
<1>9. CASE k = "long"
  <2>1. o + z >= Walks!Size + 20
    BY <1>1, <1>4, <1>5, <1>9 DEF Compares
  <2>2. Walks!nfit(o) = Walks!Take(o + z, "end")
    BY <1>2, <1>4, <1>5, <1>9, <2>1 DEF Walks!nfit, Walks!H
  <2> QED
    BY <1>1, <1>9, <2>2 DEF Outcome, Misled, Compares, Walks!Take
<1> QED
  BY <1>3, <1>6, <1>7, <1>8, <1>9

LEMMA EventLogTurn ==
  ASSUME WalkImage, NEW i \in 1 .. Len(wEntries), wWalk = "eventlog"
  PROVE  Outcome(Walks!eventlog(Walks!Starts[i]), i)
<1> DEFINE o == Walks!Starts[i]
<1>1. PICK k, z : Sees(i, k, z) /\ Compares(i, k, z)
  BY Looks
<1> DEFINE h == [kind |-> k, size |-> z]
<1>2. Walks!HeaderAt(o) = h /\ h.kind = k /\ h.size = z
  BY <1>1 DEF Sees
<1>3. k \in {"good", "skip"}
  BY <1>1 DEF Sees, Fits, EntryKinds, WithUnknown, Undamaged
<1>4. CASE k = "skip"
  <2>1. Walks!eventlog(o) = Walks!Stop
    BY <1>1, <1>2, <1>3, <1>4 DEF Walks!eventlog, Walks!H, Compares, Whole
  <2> QED
    BY <1>1, <1>4, <2>1, StopIs DEF Outcome, Unknown, Compares, UpToUnknown, Walks!Take, Walks!Pass
<1>5. CASE k = "good"
  <2>1. Walks!eventlog(o) = Walks!Add(o, h)
    BY <1>1, <1>2, <1>3, <1>5 DEF Walks!eventlog, Walks!H, Compares, Whole
  <2> QED
    BY <1>1, <1>5, <2>1, AddAdvances, LongMisleads DEF Outcome, Whole
<1> QED
  BY <1>1, <1>3, <1>4, <1>5 DEF Compares

LEMMA WindowsTurn ==
  ASSUME WalkImage, NEW i \in 1 .. Len(wEntries), wWalk = "windows"
  PROVE  Outcome(Walks!windows(Walks!Starts[i]), i)
<1> DEFINE o == Walks!Starts[i]
<1>1. PICK k, z : Sees(i, k, z) /\ Compares(i, k, z)
  BY Looks
<1> DEFINE h == [kind |-> k, size |-> z]
<1>2. Walks!HeaderAt(o) = h /\ h.kind = k /\ h.size = z
  BY <1>1 DEF Sees
<1>3. k \in {"good", "last"}
  BY <1>1 DEF Sees, Fits, EntryKinds, WithUnknown, Undamaged
<1>4. CASE o + 2 >= Walks!Size
  <2>1. Walks!windows(o) = Walks!Stop
    BY <1>1, <1>2, <1>3, <1>4 DEF Walks!windows, Walks!H, Compares, Whole
  <2> QED
    BY <1>1, <1>4, <2>1, TooShort DEF Outcome, Walks!ToTheEnd
<1>5. CASE o + 2 < Walks!Size /\ k = "last"
  <2>1. Walks!windows(o) = Walks!Take(o, "end")
    BY <1>1, <1>2, <1>3, <1>5 DEF Walks!windows, Walks!H, Compares, Whole
  <2> QED
    BY <1>1, <1>5, <2>1 DEF Outcome, Ends, Sees, Walks!Take, Walks!Pass
<1>6. CASE o + 2 < Walks!Size /\ k = "good"
  <2>1. Walks!windows(o) = Walks!Add(o, h)
    BY <1>1, <1>2, <1>3, <1>6 DEF Walks!windows, Walks!H, Compares, Whole
  <2> QED
    BY <1>1, <1>6, <2>1, AddAdvances, LongMisleads DEF Outcome, Whole
<1> QED
  BY <1>1, <1>3, <1>4, <1>5, <1>6 DEF Compares

LEMMA SmbiosTurn ==
  ASSUME WalkImage, NEW i \in 1 .. Len(wEntries), wWalk = "smbios"
  PROVE  Outcome(Walks!smbios(Walks!Starts[i]), i)
<1> DEFINE o == Walks!Starts[i]
<1>1. PICK k, z : Sees(i, k, z) /\ Compares(i, k, z)
  BY Looks
<1> DEFINE h == [kind |-> k, size |-> z]
<1>2. Walks!HeaderAt(o) = h /\ h.kind = k /\ h.size = z
  BY <1>1 DEF Sees
<1>3. k \in {"good", "bare"} /\ k = wEntries[i].kind
  BY <1>1 DEF Sees, Fits, EntryKinds, WithUnknown, Undamaged
<1>4. /\ o \in Nat /\ z \in Nat /\ Walks!Size \in Nat /\ ~(o >= Walks!Size) /\ ~(o + 2 > Walks!Size)
      /\ o + z <= Walks!Size
  BY <1>1, <1>3 DEF Compares, Whole
<1>5. CASE k = "good"
  <2>1. ~(((o + z) - 1) - 1 + 1 >= Walks!Size)
    BY <1>4
  <2>2. Walks!smbios(o) = Walks!Add(o, h)
    BY <1>2, <1>4, <1>5, <2>1 DEF Walks!smbios, Walks!H, Walks!T
  <2> QED
    BY <1>1, <1>5, <2>2, AddAdvances DEF Outcome, Whole
<1>6. CASE k = "bare" /\ o + z >= Walks!Size
  <2>1. ((o + z) - 1) - 0 + 1 >= Walks!Size
    BY <1>4, <1>6
  <2>2. Walks!smbios(o) = Walks!Stop
    BY <1>2, <1>4, <1>6, <2>1 DEF Walks!smbios, Walks!H, Walks!T
  <2>3. Room(i) /\ Behind \in Nat /\ wFill \in Nat /\ Walks!Size = Behind + wFill
    BY RoomIs, SizeIs
  <2>4. o + z <= Walks!Starts[i + 1]
    BY <1>1, <1>6 DEF Sees, Whole
  <2>5. i = Len(wEntries) /\ wFill = 0
    BY <1>4, <1>6, <2>3, <2>4 DEF Room
  <2>6. Walks!Unseen
    <3>1. wEntries # <<>>
      BY <2>5
    <3>2. wEntries[Len(wEntries)].kind = "bare"
      BY <1>3, <1>6, <2>5
    <3> QED
      BY <2>5, <3>1, <3>2 DEF Walks!Unseen, Walks!ToTheEnd
  <2> QED
    BY <2>2, <2>5, <2>6, StopIs DEF Outcome, Misses
<1>7. CASE k = "bare" /\ ~(o + z >= Walks!Size)
  <2>1. ~(((o + z) - 1) - 0 + 1 >= Walks!Size)
    BY <1>4, <1>7
  <2>2. Walks!smbios(o) = Walks!Add(o, h)
    BY <1>2, <1>4, <1>7, <2>1 DEF Walks!smbios, Walks!H, Walks!T
  <2> QED
    BY <1>1, <1>7, <2>2, AddAdvances DEF Outcome, Whole
<1> QED
  BY <1>3, <1>5, <1>6, <1>7

\* Where sections start at even offsets, aligning a length aligns the end.
LEMMA AlignFromEven ==
  \A o, z \in Nat : o % 2 = 0 => o + Walks!align(z, 2) = Walks!align(o + z, 2)
<1> TAKE o, z \in Nat
<1> HAVE o % 2 = 0
<1>1. PICK q \in Nat : o = 2 * q
  <2>1. o = 2 * (o \div 2) /\ o \div 2 \in Nat
    OBVIOUS
  <2> QED
    BY <2>1
<1>2. (2 * q + z + 1) \div 2 = q + (z + 1) \div 2
  OBVIOUS
<1>3. (z + 1) \div 2 \in Nat
  OBVIOUS
<1>4. Walks!align(o + z, 2) = ((2 * q + z + 1) \div 2) * 2 /\ Walks!align(z, 2) = ((z + 1) \div 2) * 2
  BY <1>1 DEF Walks!align
<1> QED
  BY <1>1, <1>2, <1>3, <1>4

LEMMA SectionTurn ==
  ASSUME WalkImage, NEW i \in 1 .. Len(wEntries), wWalk = "section"
  PROVE  Outcome(Walks!section(Walks!Starts[i]), i)
<1> DEFINE o == Walks!Starts[i]
<1>1. PICK k, z : Sees(i, k, z) /\ Compares(i, k, z)
  BY Looks
<1> DEFINE h == [kind |-> k, size |-> z]
<1>2. Walks!HeaderAt(o).kind = k /\ Walks!HeaderAt(o).size = z
  BY <1>1 DEF Sees
<1>3. k \in {"good", "zero", "long"} /\ k = wEntries[i].kind
  BY <1>1 DEF Sees, Fits, EntryKinds, WithUnknown, Undamaged
<1>4. o \in Nat /\ z \in Nat /\ Walks!Size \in Nat /\ Behind \in Nat
  BY <1>1, SizeIs DEF Compares
<1>5. /\ k # "fill"
      /\ o + 2 >= Walks!Size => ~(o + 2 < Walks!Size)
      /\ o + 2 < Walks!Size => ~(o + 2 >= Walks!Size)
  BY <1>3, <1>4
<1>9. CASE o + 2 >= Walks!Size
  <2>1. Walks!section(o) = Walks!Stop
    BY <1>2, <1>5, <1>9, Zenon DEF Walks!section, Walks!H
  <2> QED
    BY <1>9, <2>1, TooShort DEF Outcome, Walks!ToTheEnd
<1>6. CASE o + 2 < Walks!Size /\ k = "zero"
  <2>1. z = 0 /\ ~Walks!Clean /\ Behind = o + 2
    BY <1>1, <1>6 DEF Compares, Sees
  <2>2. Walks!section(o) = Walks!Pass(Walks!align(o + 2, 2), "")
    BY <1>2, <1>5, <1>6, <2>1, Zenon DEF Walks!section, Walks!H
  <2>3. Walks!align(o + 2, 2) \in Nat /\ Walks!align(o + 2, 2) >= o + 2
    <3>1. o + 2 \in Nat
      BY <1>4
    <3> QED
      BY <3>1, AlignIs
  <2>4. Walks!align(o + 2, 2) # o
    BY <1>4, <2>3
  <2> DEFINE next == Walks!align(o + 2, 2)
  <2>5. Walks!Pass(next, "").end = "" /\ Walks!Pass(next, "").next = next
    BY DEF Walks!Pass
  <2> HIDE DEF next
  <2> QED
    BY <1>3, <1>6, <2>1, <2>2, <2>3, <2>4, <2>5 DEF Outcome, Misled, next
<1>7. CASE o + 2 < Walks!Size /\ k = "long"
  <2>1. z = Walks!Beyond /\ ~Walks!Clean /\ Behind = o + 2
    BY <1>1, <1>7 DEF Compares, Sees
  <2>2. z # 0 /\ z >= Behind
    BY <1>4, <2>1, SizeIs
  <2>3. Walks!section(o) = Walks!Take(o + Walks!align(z, 2), "")
    BY <1>2, <1>5, <1>7, <2>2, Zenon DEF Walks!section, Walks!H
  <2>4. Walks!align(z, 2) \in Nat /\ Walks!align(z, 2) >= z
    BY <1>4, AlignIs
  <2>5. o + Walks!align(z, 2) \in Nat /\ o + Walks!align(z, 2) >= Behind /\ o + Walks!align(z, 2) # o
    BY <1>4, <2>1, <2>2, <2>4
  <2> DEFINE next == o + Walks!align(z, 2)
  <2>6. Walks!Take(next, "").end = "" /\ Walks!Take(next, "").next = next
    BY DEF Walks!Take
  <2> HIDE DEF next
  <2> QED
    BY <1>3, <1>7, <2>1, <2>3, <2>5, <2>6 DEF Outcome, Misled, next
<1>8. CASE o + 2 < Walks!Size /\ k = "good"
  <2>1. /\ z >= 2 /\ k \in Whole /\ z = wEntries[i].size
        /\ i = Len(wEntries) => Walks!Starts[i + 1] = o + z
    BY <1>1, <1>8 DEF Compares, Sees, Whole
  <2>0. z # 0
    BY <1>4, <2>1
  <2>2. Walks!section(o) = Walks!Take(o + Walks!align(z, 2), "")
    BY <1>2, <1>5, <1>8, <2>0, Zenon DEF Walks!section, Walks!H
  <2>3. Walks!align(z, 2) \in Nat /\ Walks!align(z, 2) >= z
    BY <1>4, AlignIs
  <2>4. o + Walks!align(z, 2) \in Nat /\ o + Walks!align(z, 2) > o /\ o + Walks!align(z, 2) >= o + z
    BY <1>4, <2>1, <2>3
  <2>5. ASSUME i # Len(wEntries) PROVE o + Walks!align(z, 2) = Walks!Starts[i + 1]
    <3>1. Walks!Extent(wEntries[i]) = z /\ o % 2 = 0
      BY <1>3, <1>8, <2>1, ImageEntries, ImageStarts
    <3>2. Walks!Starts[i + 1] = Walks!align(o + z, 2)
      BY <2>5, <3>1, ImageStarts
    <3> QED
      BY <1>4, <3>1, <3>2, AlignFromEven
  <2>6. i = Len(wEntries) => o + Walks!align(z, 2) >= Behind
    BY <2>1, <2>4, SizeIs
  <2> DEFINE next == o + Walks!align(z, 2)
  <2>7. /\ Walks!Take(next, "").end = "" /\ Walks!Take(next, "").next = next
        /\ Walks!Take(next, "").add
    BY DEF Walks!Take
  <2> HIDE DEF next
  <2> QED
    BY <1>3, <1>8, <2>1, <2>2, <2>4, <2>5, <2>6, <2>7 DEF Outcome, Advances, UpToUnknown, next
<1> QED
  BY <1>3, <1>4, <1>9, <1>6, <1>7, <1>8

LEMMA EntryTurn ==
  ASSUME WalkImage, NEW i \in 1 .. Len(wEntries), wWalk # "vss"
  PROVE  Outcome(Walks!TurnOf(Walks!Starts[i]), i)
<1> DEFINE o == Walks!Starts[i]
<1>1. wWalk \in Walks!Walks
  BY DEF WalkImage
<1>2. CASE wWalk = "nvar"
  BY <1>2, NvarTurn DEF Walks!TurnOf
<1>3. CASE wWalk = "nvar_simple"
  BY <1>3, NvarSimpleTurn DEF Walks!TurnOf
<1>4. CASE wWalk = "sb_db"
  BY <1>4, SbDbTurn DEF Walks!TurnOf
<1>5. CASE wWalk = "auth"
  BY <1>5, AuthTurn DEF Walks!TurnOf
<1>6. CASE wWalk = "s3"
  BY <1>6, S3Turn DEF Walks!TurnOf
<1>7. CASE wWalk = "evsa"
  BY <1>7, EvsaTurn DEF Walks!TurnOf
<1>8. CASE wWalk \in {"dmar", "apic", "device_scope"}
  BY <1>8, DmarTurn DEF Walks!TurnOf, Walks!apic, Walks!device_scope
<1>9. CASE wWalk = "hest"
  BY <1>9, HestTurn DEF Walks!TurnOf
<1>10. CASE wWalk = "nfit"
  BY <1>10, NfitTurn DEF Walks!TurnOf
<1>11. CASE wWalk = "smbios"
  BY <1>11, SmbiosTurn DEF Walks!TurnOf
<1>12. CASE wWalk = "eventlog"
  BY <1>12, EventLogTurn DEF Walks!TurnOf
<1>13. CASE wWalk = "windows"
  BY <1>13, WindowsTurn DEF Walks!TurnOf
<1>14. CASE wWalk = "section"
  BY <1>14, SectionTurn DEF Walks!TurnOf
<1> QED
  BY <1>1, <1>2, <1>3, <1>4, <1>5, <1>6, <1>7, <1>8, <1>9, <1>10, <1>11, <1>12, <1>13, <1>14
     DEF Walks!Walks

\* Behind the last entry a walk stops, steps over filler, or takes it for one more variable.
FillOutcome(t, o) ==
  \/ ~t.add /\ t.end \in {"end", "raised"}
  \/ ~t.add /\ t.end = "" /\ t.next \in Nat /\ t.next > o /\ wWalk \in {"nvar", "section"}
  \/ /\ t.add /\ t.end = "" /\ t.next = o + Walks!Beyond
     /\ wWalk = "nvar_simple" /\ o + 2 < Walks!Size

LEMMA FillTurn ==
  ASSUME WalkImage, NEW o \in Nat, o >= Behind, wWalk # "vss"
  PROVE  FillOutcome(Walks!TurnOf(o), o)
<1> DEFINE h == [kind |-> "fill", size |-> Walks!Beyond]
<1>1. wWalk \in Walks!Walks
  BY DEF WalkImage
<1>2. Walks!HeaderAt(o) = h /\ Walks!HeaderAt(o).kind = "fill" /\ Walks!HeaderAt(o).size = Walks!Beyond
  BY AtFill DEF Walks!Header
<1>3. /\ Walks!Size \in Nat /\ Walks!Beyond \in Nat /\ Walks!Beyond = Walks!Size + 20
      /\ wWalk \notin Filled => o >= Walks!Size
  <2>1. Walks!Size = Behind + wFill /\ Behind \in Nat /\ wFill \in Nat /\ Walks!Size \in Nat
        /\ Walks!Beyond \in Nat /\ Walks!Beyond = Walks!Size + 20
    BY SizeIs
  <2>2. wFill # 0 => wWalk \in Filled
    BY DEF WalkImage
  <2> QED
    BY <2>1, <2>2
<1>4. ASSUME o >= Walks!Size
      PROVE  o + 2 >= Walks!Size /\ o + 2 > Walks!Size /\ o >= Walks!Size - 1 /\ ~(o + 2 < Walks!Size)
             /\ ~(o + 2 <= Walks!Size) /\ ~(o < Walks!Size) /\ ~(o < Walks!Size - 1)
  BY <1>3, <1>4
<1>5. ~Walks!Pass(0, "raised").add /\ Walks!Pass(0, "raised").end = "raised"
      /\ ~Walks!Pass(o, "raised").add /\ Walks!Pass(o, "raised").end = "raised"
  BY DEF Walks!Pass
<1>6. ASSUME wWalk \in {"sb_db", "evsa"} PROVE FillOutcome(Walks!TurnOf(o), o)
  BY <1>2, <1>3, <1>4, <1>6, StopIs DEF Filled, Walks!TurnOf, FillOutcome, Walks!sb_db, Walks!evsa, Walks!H
<1>7. ASSUME wWalk \in {"auth", "s3", "hest", "windows", "smbios"} PROVE FillOutcome(Walks!TurnOf(o), o)
  <2>1. Walks!TurnOf(o) = Walks!Stop
    BY <1>3, <1>4, <1>7 DEF Filled, Walks!TurnOf, Walks!auth, Walks!s3, Walks!hest, Walks!windows,
       Walks!smbios, Walks!H
  <2> QED
    BY <2>1, StopIs DEF FillOutcome
<1>8. ASSUME wWalk \in {"dmar", "apic", "device_scope", "eventlog"}
      PROVE  FillOutcome(Walks!TurnOf(o), o)
  <2>1. Walks!TurnOf(o) = Walks!Stop
    BY <1>2, <1>3, <1>4, <1>8 DEF Filled, Walks!TurnOf, Walks!dmar, Walks!apic, Walks!device_scope,
       Walks!eventlog, Walks!H
  <2> QED
    BY <2>1, StopIs DEF FillOutcome
<1>9. ASSUME wWalk = "nfit" PROVE FillOutcome(Walks!TurnOf(o), o)
  <2>1. Walks!TurnOf(o) = Walks!Pass(o, "raised")
    BY <1>2, <1>3, <1>4, <1>9 DEF Filled, Walks!TurnOf, Walks!nfit, Walks!H
  <2> QED
    BY <2>1, <1>5 DEF FillOutcome
<1>10. ASSUME wWalk = "nvar" PROVE FillOutcome(Walks!TurnOf(o), o)
  <2>1. Walks!TurnOf(o) = IF o + 2 >= Walks!Size THEN Walks!Stop ELSE Walks!Skip(o, h)
    BY <1>2, <1>3, <1>10 DEF Walks!TurnOf, Walks!nvar, Walks!H
  <2>2. /\ ~Walks!Skip(o, h).add /\ Walks!Skip(o, h).end = ""
        /\ Walks!Skip(o, h).next = o + Walks!Beyond
    BY DEF Walks!Skip, Walks!Pass
  <2>3. o + Walks!Beyond \in Nat /\ o + Walks!Beyond > o
    BY <1>3
  <2> QED
    BY <1>10, <2>1, <2>2, <2>3, StopIs DEF FillOutcome
<1>11. ASSUME wWalk = "nvar_simple" PROVE FillOutcome(Walks!TurnOf(o), o)
  <2>1. Walks!TurnOf(o) = IF o + 2 >= Walks!Size THEN Walks!Stop ELSE Walks!Add(o, h)
    BY <1>2, <1>3, <1>11 DEF Walks!TurnOf, Walks!nvar_simple, Walks!H
  <2>2. Walks!Add(o, h).add /\ Walks!Add(o, h).end = "" /\ Walks!Add(o, h).next = o + Walks!Beyond
    BY DEF Walks!Add, Walks!Take
  <2>3. ~(o + 2 >= Walks!Size) => o + 2 < Walks!Size
    BY <1>3
  <2> QED
    BY <1>11, <2>1, <2>2, <2>3, StopIs DEF FillOutcome
<1>12. ASSUME wWalk = "section" PROVE FillOutcome(Walks!TurnOf(o), o)
  <2> DEFINE next == Walks!align(o + 2, 2)
  <2>1. (~(o + 2 >= Walks!Size) <=> o + 2 < Walks!Size) /\ o + 2 \in Nat
    BY <1>3
  <2>2. Walks!section(o) = IF o + 2 >= Walks!Size THEN Walks!Stop ELSE Walks!Pass(next, "")
    <3>1. CASE o + 2 >= Walks!Size
      BY <2>1, <3>1, Zenon DEF Walks!section, Walks!H
    <3>2. CASE ~(o + 2 >= Walks!Size)
      BY <1>2, <2>1, <3>2, Zenon DEF Walks!section, Walks!H
    <3> QED
      BY <3>1, <3>2
  <2>3. Walks!TurnOf(o) = Walks!section(o)
    BY <1>12 DEF Walks!TurnOf
  <2>4. next \in Nat /\ next >= o + 2
    BY <2>1, AlignIs
  <2>5. next \in Nat /\ next > o
    BY <2>4
  <2> HIDE DEF next
  <2>6. ~Walks!Pass(next, "").add /\ Walks!Pass(next, "").end = "" /\ Walks!Pass(next, "").next = next
    BY DEF Walks!Pass
  <2> QED
    BY <1>12, <2>2, <2>3, <2>5, <2>6, StopIs DEF FillOutcome
<1> QED
  BY <1>1, <1>6, <1>7, <1>8, <1>9, <1>10, <1>11, <1>12 DEF Walks!Walks

LEMMA ListsNothing == Walks!Lists(<<>>, {})
BY DEF Walks!Lists

LEMMA ListsMore ==
  ASSUME NEW f \in Seq(Nat), NEW X, Walks!Lists(f, X), NEW a \in Nat, \A x \in X : x < a
  PROVE  Walks!Lists(Append(f, a), X \cup {a})
<1> DEFINE g == Append(f, a)
<1>1. /\ Len(f) \in Nat /\ DOMAIN f = 1 .. Len(f) /\ DOMAIN g = 1 .. Len(f) + 1
      /\ \A j \in 1 .. Len(f) : g[j] = f[j]
      /\ g[Len(f) + 1] = a
  OBVIOUS
<1>2. \A j \in 1 .. Len(f) : f[j] \in X /\ f[j] < a
  BY <1>1 DEF Walks!Lists
<1>3. {f[j] : j \in DOMAIN f} = X /\ \A j, k \in DOMAIN f : j < k => f[j] < f[k]
  BY DEF Walks!Lists
<1> HIDE DEF g
<1>4. {g[j] : j \in DOMAIN g} = X \cup {a}
  <2>1. ASSUME NEW x \in {g[j] : j \in DOMAIN g} PROVE x \in X \cup {a}
    BY <1>1, <1>2
  <2>2. ASSUME NEW x \in X PROVE x \in {g[j] : j \in DOMAIN g}
    <3>1. PICK j \in DOMAIN f : x = f[j]
      BY <1>3
    <3> QED
      BY <1>1, <3>1
  <2>3. a \in {g[j] : j \in DOMAIN g}
    BY <1>1
  <2> QED
    BY <2>1, <2>2, <2>3
<1>5. ASSUME NEW j \in DOMAIN g, NEW k \in DOMAIN g, j < k PROVE g[j] < g[k]
  <2>1. j \in 1 .. Len(f) /\ (k \in 1 .. Len(f) \/ k = Len(f) + 1)
    BY <1>1, <1>5
  <2>2. CASE k \in 1 .. Len(f)
    BY <1>1, <1>3, <1>5, <2>1, <2>2
  <2>3. CASE k = Len(f) + 1
    BY <1>1, <1>2, <2>1, <2>3
  <2> QED
    BY <2>1, <2>2, <2>3
<1> QED
  BY <1>4, <1>5 DEF Walks!Lists, g

\* What is reported of the entries up to i.
LEMMA KnownIs ==
  ASSUME WalkImage
  PROVE  /\ Walks!Known \subseteq 1 .. Len(wEntries)
         /\ \A i \in 1 .. Len(wEntries) :
              i \in Walks!Known <=> wEntries[i].kind # "skip" /\ NoneUnknown(i)
BY ImageEntries DEF Walks!Known, NoneUnknown, UpToUnknown

LEMMA BeforeBelow ==
  ASSUME WalkImage, NEW i \in 1 .. Len(wEntries) + 1
  PROVE  \A x \in Before(i) : x \in Nat /\ x < Walks!Starts[i]
<1> TAKE x \in Before(i)
<1>1. PICK j \in Walks!Known : x = Walks!Starts[j] /\ j < i
  BY DEF Before
<1>2. j \in 1 .. Len(wEntries) /\ j \in 1 .. Len(wEntries) + 1
  BY <1>1, KnownIs, ImageEntries
<1>3. Walks!Starts[j] + 2 <= Walks!Starts[i]
  BY <1>1, <1>2, StartsOrder
<1>4. Walks!Starts[j] \in Nat /\ Walks!Starts[i] \in Nat
  BY <1>2, ImageStarts
<1> QED
  BY <1>1, <1>3, <1>4

LEMMA BeforeNext ==
  ASSUME WalkImage, NEW i \in 1 .. Len(wEntries)
  PROVE  /\ i \in Walks!Known => Before(i + 1) = Before(i) \cup {Walks!Starts[i]}
         /\ i \notin Walks!Known => Before(i + 1) = Before(i)
<1>1. \A k \in Walks!Known : k < i + 1 <=> k < i \/ k = i
  BY KnownIs
<1>2. {k \in Walks!Known : k < i + 1} =
        {k \in Walks!Known : k < i} \cup (IF i \in Walks!Known THEN {i} ELSE {})
  BY <1>1
<1> QED
  BY <1>2 DEF Before

LEMMA BeforeAll ==
  ASSUME WalkImage
  PROVE  /\ Before(Len(wEntries) + 1) = Walks!Expected
         /\ Before(1) = {}
<1>1. \A k \in Walks!Known : k < Len(wEntries) + 1 /\ ~(k < 1)
  BY KnownIs, ImageEntries
<1>2. {k \in Walks!Known : k < Len(wEntries) + 1} = Walks!Known /\ {k \in Walks!Known : k < 1} = {}
  BY <1>1
<1> QED
  BY <1>2 DEF Before, Walks!Expected

LEMMA BeforeLast ==
  ASSUME WalkImage, NEW i \in 1 .. Len(wEntries), i = Len(wEntries)
  PROVE  Before(i) = Walks!Expected \ {Walks!Starts[i]}
<1>1. Before(i + 1) = Walks!Expected
  BY BeforeAll
<1>2. Walks!Starts[i] \notin Before(i)
  <2>1. i \in 1 .. Len(wEntries) + 1
    BY ImageEntries
  <2>2. Walks!Starts[i] \in Nat /\ ~(Walks!Starts[i] < Walks!Starts[i])
    BY <2>1, ImageStarts
  <2> QED
    BY <2>1, <2>2, BeforeBelow
<1> QED
  BY <1>1, <1>2, BeforeNext

LEMMA BeforeUnknown ==
  ASSUME WalkImage, NEW i \in 1 .. Len(wEntries), wWalk \in UpToUnknown, wEntries[i].kind = "skip"
  PROVE  Before(i) = Walks!Expected
<1>1. ASSUME NEW k \in Walks!Known PROVE k < i
  <2>1. k \in 1 .. Len(wEntries) /\ NoneUnknown(k)
    BY KnownIs
  <2>2. i \notin 1 .. k
    BY <2>1 DEF NoneUnknown
  <2> QED
    BY <2>1, <2>2
<1>2. {k \in Walks!Known : k < i} = Walks!Known
  BY <1>1
<1> QED
  BY <1>2 DEF Before, Walks!Expected

\* One step: from an entry.
GoesTo(t, o) == IF t.end = "" THEN t.next ELSE o
EndsWith(t, o) == IF t.end = "" /\ t.next = o THEN "loops" ELSE t.end
Found(t, o, f) == IF t.add THEN Append(f, o) ELSE f

LEMMA EntryKeeps ==
  ASSUME WalkImage, NEW i \in 1 .. Len(wEntries), NEW o \in Nat, NEW f \in Seq(Nat), AtEntry(i, o, f),
         NEW t, Outcome(t, i)
  PROVE  Walked(EndsWith(t, o), GoesTo(t, o), Found(t, o, f))
<1>1. /\ o = Walks!Starts[i] /\ Walks!Lists(f, Before(i)) /\ NoneUnknown(i - 1)
      /\ i \in 1 .. Len(wEntries) + 1
  BY ImageEntries DEF AtEntry
<1>2. Found(t, o, f) \in Seq(Nat)
  BY DEF Found
<1>3. wEntries[i].kind # "skip" => NoneUnknown(i)
  <2>1. \A j \in 1 .. i : j \in 1 .. i - 1 \/ j = i
    OBVIOUS
  <2> QED
    BY <1>1, <2>1 DEF NoneUnknown
<1>4. i \in Walks!Known <=> wEntries[i].kind # "skip" /\ NoneUnknown(i)
  BY KnownIs
<1>5. ASSUME t.add <=> wEntries[i].kind # "skip"
      PROVE  Walks!Lists(Found(t, o, f), Before(i + 1))
  <2>1. CASE wEntries[i].kind # "skip"
    <3>1. Found(t, o, f) = Append(f, o) /\ Before(i + 1) = Before(i) \cup {o}
      BY <1>1, <1>3, <1>4, <1>5, <2>1, BeforeNext DEF Found
    <3>2. \A x \in Before(i) : x < o
      BY <1>1, BeforeBelow
    <3>3. Walks!Lists(Append(f, o), Before(i) \cup {o})
      BY <1>1, <3>2, ListsMore
    <3> QED
      BY <3>1, <3>3
  <2>2. CASE wEntries[i].kind = "skip"
    <3>1. Found(t, o, f) = f /\ Before(i + 1) = Before(i)
      BY <1>4, <1>5, <2>2, BeforeNext DEF Found
    <3> QED
      BY <1>1, <3>1
  <2> QED
    BY <2>1, <2>2
<1>6. CASE Misses(t, i)
  <2>1. /\ EndsWith(t, o) \in {"end", "raised"} /\ GoesTo(t, o) = o /\ Found(t, o, f) = f
    BY <1>6 DEF Misses, EndsWith, GoesTo, Found
  <2>2. ASSUME Walks!Clean PROVE ReportedBy(f)
    BY <1>1, <1>6, <2>2, BeforeLast DEF Misses, ReportedBy
  <2> QED
    BY <2>1, <2>2 DEF Walked
<1>7. CASE Advances(t, i)
  <2>1. /\ EndsWith(t, o) = "" /\ GoesTo(t, o) = t.next /\ t.next \in Nat
        /\ Walks!Lists(Found(t, o, f), Before(i + 1))
    <3>1. PICK n \in Nat : n = t.next /\ n > o
      BY <1>1, <1>7 DEF Advances
    <3>2. n # o
      BY <3>1
    <3>3. t.end = "" /\ (t.add <=> wEntries[i].kind # "skip")
      BY <1>7 DEF Advances
    <3> QED
      BY <1>5, <3>1, <3>2, <3>3 DEF EndsWith, GoesTo
  <2>2. CASE i # Len(wEntries)
    <3>1. i + 1 \in 1 .. Len(wEntries) /\ (i + 1) - 1 = i
      BY <2>2
    <3>2. NoneUnknown(i)
      BY <1>3, <1>7 DEF Advances, NoneUnknown
    <3>3. AtEntry(i + 1, t.next, Found(t, o, f))
      BY <1>7, <2>1, <2>2, <3>1, <3>2 DEF Advances, AtEntry
    <3> QED
      BY <1>2, <2>1, <3>1, <3>3 DEF Walked, Listed
  <2>3. CASE i = Len(wEntries)
    <3>1. Walks!Lists(Found(t, o, f), Walks!Expected)
      BY <2>1, <2>3, BeforeAll
    <3>2. AtFiller(t.next, Found(t, o, f))
      BY <1>7, <2>3, <3>1 DEF Advances, AtFiller
    <3> QED
      BY <1>2, <2>1, <3>2 DEF Walked, Listed
  <2> QED
    BY <2>2, <2>3
<1>8. CASE Ends(t, i)
  <2>1. /\ EndsWith(t, o) \in {"end", "raised"} /\ GoesTo(t, o) = o
        /\ Walks!Lists(Found(t, o, f), Before(i + 1))
    BY <1>5, <1>8 DEF Ends, EndsWith, GoesTo
  <2>2. ReportedBy(Found(t, o, f))
    BY <1>8, <2>1, BeforeAll DEF Ends, ReportedBy
  <2> QED
    BY <1>2, <2>1, <2>2 DEF Walked
<1>9. CASE Unknown(t, i)
  <2>1. /\ EndsWith(t, o) \in {"end", "raised", "loops"} /\ GoesTo(t, o) = o /\ Found(t, o, f) = f
        /\ EndsWith(t, o) = "loops" => wWalk = "nfit"
    BY <1>1, <1>9 DEF Unknown, EndsWith, GoesTo, Found
  <2>2. ReportedBy(f)
    BY <1>1, <1>9, BeforeUnknown DEF Unknown, ReportedBy
  <2>3. EndsWith(t, o) = "loops" => LoopsAllowed
    BY <1>9, <2>1 DEF Unknown, LoopsAllowed
  <2> QED
    BY <2>1, <2>2, <2>3 DEF Walked
<1>10. CASE Misled(t, i)
  <2>1. ~Walks!Clean
    BY <1>10 DEF Misled
  <2>2. CASE t.end \in {"end", "raised"}
    <3>1. EndsWith(t, o) \in {"end", "raised"} /\ GoesTo(t, o) = o
      BY <2>2 DEF EndsWith, GoesTo
    <3> QED
      BY <1>2, <2>1, <3>1 DEF Walked
  <2>3. CASE t.end = "" /\ t.next \in Nat /\ t.next >= Behind /\ t.next # Walks!Starts[i]
    <3>1. EndsWith(t, o) = "" /\ GoesTo(t, o) = t.next
      BY <1>1, <2>3 DEF EndsWith, GoesTo
    <3>2. AtFiller(t.next, Found(t, o, f))
      BY <2>1, <2>3 DEF AtFiller
    <3> QED
      BY <1>2, <2>1, <2>3, <3>1, <3>2 DEF Walked, Listed
  <2>4. CASE t.end = "" /\ t.next = Walks!Starts[i] /\ wEntries[i].kind = "zero" /\ wWalk \in {"auth", "nfit"}
    <3>1. EndsWith(t, o) = "loops" /\ GoesTo(t, o) = o
      BY <1>1, <2>4 DEF EndsWith, GoesTo
    <3>2. LoopsAllowed
      BY <2>1, <2>4 DEF LoopsAllowed
    <3> QED
      BY <1>2, <2>1, <3>1, <3>2 DEF Walked
  <2> QED
    BY <1>10, <2>2, <2>3, <2>4 DEF Misled
<1> QED
  BY <1>6, <1>7, <1>8, <1>9, <1>10 DEF Outcome

\* And from the filler behind the last one.
LEMMA FillKeeps ==
  ASSUME WalkImage, NEW o \in Nat, NEW f \in Seq(Nat), AtFiller(o, f), NEW t, FillOutcome(t, o)
  PROVE  Walked(EndsWith(t, o), GoesTo(t, o), Found(t, o, f))
<1>1. Found(t, o, f) \in Seq(Nat)
  BY DEF Found
<1>2. /\ Walks!Size = Behind + wFill /\ Behind \in Nat /\ wFill \in Nat /\ Walks!Size \in Nat
      /\ Walks!Beyond = Walks!Size + 20
  BY SizeIs
<1>3. CASE ~t.add /\ t.end \in {"end", "raised"}
  <2>1. EndsWith(t, o) \in {"end", "raised"} /\ GoesTo(t, o) = o /\ Found(t, o, f) = f
    BY <1>3 DEF EndsWith, GoesTo, Found
  <2>2. Walks!Clean => ReportedBy(f)
    BY DEF AtFiller, ReportedBy
  <2> QED
    BY <2>1, <2>2 DEF Walked
<1>4. CASE ~t.add /\ t.end = "" /\ t.next \in Nat /\ t.next > o /\ wWalk \in {"nvar", "section"}
  <2>1. PICK n \in Nat : n = t.next /\ n > o
    BY <1>4
  <2>2. n # o /\ n >= Behind
    <3>1. o >= Behind /\ Behind \in Nat
      BY <1>2 DEF AtFiller
    <3> QED
      BY <2>1, <3>1
  <2>3. EndsWith(t, o) = "" /\ GoesTo(t, o) = t.next /\ Found(t, o, f) = f
    BY <1>4, <2>1, <2>2 DEF EndsWith, GoesTo, Found
  <2>4. AtFiller(t.next, f)
    BY <1>4, <2>1, <2>2 DEF AtFiller
  <2> QED
    BY <1>4, <2>3, <2>4 DEF Walked, Listed
<1>5. CASE /\ t.add /\ t.end = "" /\ t.next = o + Walks!Beyond
           /\ wWalk = "nvar_simple" /\ o + 2 < Walks!Size
  <2>1. t.next \in Nat /\ t.next # o /\ t.next >= Walks!Size /\ t.next >= Behind /\ ~(o >= Walks!Size)
    <3> DEFINE n == o + Walks!Beyond
    <3>1. o + 2 < Walks!Size /\ n = t.next
      BY <1>5
    <3>2. n \in Nat /\ n # o /\ n >= Walks!Size /\ n >= Behind /\ ~(o >= Walks!Size)
      BY <1>2, <3>1
    <3> HIDE DEF n
    <3> QED
      BY <3>1, <3>2
  <2>2. EndsWith(t, o) = "" /\ GoesTo(t, o) = t.next /\ Found(t, o, f) = Append(f, o)
    BY <1>5, <2>1 DEF EndsWith, GoesTo, Found
  <2>3. ASSUME Walks!Clean PROVE wFill > 2 /\ Walks!Lists(Append(f, o), Walks!Expected \cup {Behind})
    <3>1. Walks!Lists(f, Walks!Expected) /\ o = Behind
      BY <1>5, <2>1, <2>3 DEF AtFiller
    <3>2. wFill > 2
      <4>1. Behind + 2 < Behind + wFill
        BY <1>2, <1>5, <3>1
      <4> QED
        BY <1>2, <4>1
    <3>3. \A x \in Walks!Expected : x < o
      BY <3>1, BeforeAll, BeforeBelow, ImageEntries DEF Behind
    <3> QED
      BY <3>1, <3>2, <3>3, ListsMore
  <2>4. AtFiller(t.next, Append(f, o))
    BY <1>5, <2>1, <2>3 DEF AtFiller
  <2> QED
    BY <1>1, <2>1, <2>2, <2>4 DEF Walked, Listed
<1> QED
  BY <1>3, <1>4, <1>5 DEF FillOutcome

\* The variable store: a next signature is that of a later entry.
LEMMA VssTurn ==
  ASSUME WalkImage, wWalk = "vss", NEW i \in 1 .. Len(wEntries), NEW o, o = Walks!Starts[i]
  PROVE  /\ Stored(EndsWith(Walks!vss(o), o), GoesTo(Walks!vss(o), o))
         /\ EndsWith(Walks!vss(o), o) # "loops"
<1>1. PICK k, z : Sees(i, k, z) /\ Compares(i, k, z)
  BY Looks
<1>2. Walks!HeaderAt(o).kind = k /\ Walks!HeaderAt(o).size = z
  BY <1>1 DEF Sees
<1>3. k \in {"good", "skip"}
  BY <1>1 DEF Sees, Fits, EntryKinds, WithUnknown, Undamaged
<1>4. o \in Nat /\ z \in Nat /\ z >= 2 /\ Walks!Size \in Nat
  BY <1>1, <1>3 DEF Compares, Whole
<1> DEFINE at == {x \in o + z .. o + z + 1 : Walks!HeaderAt(x).kind \in {"good", "skip"}}
           next == Walks!NextSignature(o + z)
<1>5. next = IF at = {} THEN -1 ELSE CHOOSE x \in at : \A y \in at : x <= y
  BY DEF Walks!NextSignature
<1>6. ASSUME at # {} PROVE next \in at
  <2>1. at \subseteq Nat
    BY <1>4
  <2>2. \E x \in at : \A y \in at : x <= y
    BY <1>6, <2>1, LeastNumber
  <2> QED
    BY <1>5, <1>6, <2>2
<1>7. ASSUME next # -1
      PROVE  /\ next \in Nat /\ next # o
             /\ \E j \in 1 .. Len(wEntries) : next = Walks!Starts[j]
  <2>1. next \in at
    BY <1>5, <1>6, <1>7
  <2>2. next \in o + z .. o + z + 1 /\ Walks!HeaderAt(next).kind \in {"good", "skip"}
    BY <2>1
  <2> HIDE DEF next, at
  <2>3. next \in Nat /\ next # o
    BY <1>4, <2>2
  <2> QED
    BY <2>2, <2>3, OnlyStarts
<1> HIDE DEF next, at
<1> DEFINE t == Walks!vss(o)
<1>8. \/ t = Walks!Stop
      \/ t = IF k = "good" THEN Walks!Take(o, "end") ELSE Walks!Pass(o, "end")
      \/ next # -1 /\ t = IF k = "good" THEN Walks!Take(next, "") ELSE Walks!Pass(next, "")
  <2>1. CASE o + 2 >= Walks!Size
    <3>1. ~(o + 2 < Walks!Size)
      BY <1>4, <2>1
    <3>2. t = Walks!Stop
      BY <2>1, <3>1, Zenon DEF Walks!vss, Walks!H
    <3> QED
      BY <3>2
  <2>2. CASE ~(o + 2 >= Walks!Size)
    <3>1. o + 2 < Walks!Size
      BY <1>4, <2>2
    <3>2. CASE next = -1
      <4>1. t = IF k = "good" THEN Walks!Take(o, "end") ELSE Walks!Pass(o, "end")
        BY <1>2, <2>2, <3>1, <3>2, Zenon DEF Walks!vss, Walks!H, next
      <4> QED
        BY <4>1
    <3>3. CASE next # -1
      <4>1. t = IF k = "good" THEN Walks!Take(next, "") ELSE Walks!Pass(next, "")
        BY <1>2, <2>2, <3>1, <3>3, Zenon DEF Walks!vss, Walks!H, next
      <4> QED
        BY <3>3, <4>1
    <3> QED
      BY <3>2, <3>3
  <2> QED
    BY <2>1, <2>2
<1> HIDE DEF t
<1>9. t.end = "end" \/ (t.end = "" /\ t.next = next /\ next # -1)
  <2>1. \A n, e : /\ Walks!Take(n, e).end = e /\ Walks!Take(n, e).next = n
                 /\ Walks!Pass(n, e).end = e /\ Walks!Pass(n, e).next = n
    BY DEF Walks!Take, Walks!Pass
  <2>2. CASE t = Walks!Stop
    BY <2>2, StopIs
  <2>3. CASE t = IF k = "good" THEN Walks!Take(o, "end") ELSE Walks!Pass(o, "end")
    BY <2>1, <2>3
  <2>4. CASE next # -1 /\ t = IF k = "good" THEN Walks!Take(next, "") ELSE Walks!Pass(next, "")
    <3>1. t.end = "" /\ t.next = next
      BY <2>1, <2>4
    <3> QED
      BY <2>4, <3>1
  <2> QED
    BY <1>8, <2>2, <2>3, <2>4
<1>10. Stored(EndsWith(t, o), GoesTo(t, o)) /\ EndsWith(t, o) # "loops"
  <2>1. CASE t.end = "end"
    BY <1>4, <2>1 DEF EndsWith, GoesTo, Stored
  <2>2. CASE t.end = "" /\ t.next = next /\ next # -1
    <3>1. EndsWith(t, o) = "" /\ GoesTo(t, o) = next
      BY <1>7, <2>2 DEF EndsWith, GoesTo
    <3> QED
      BY <1>7, <2>2, <3>1 DEF Stored
  <2> QED
    BY <1>9, <2>1, <2>2
<1> QED
  BY <1>10 DEF t

LEMMA SameImage ==
  ASSUME wWalk' = wWalk, wEntries' = wEntries, wFill' = wFill
  PROVE  /\ WalkImage' <=> WalkImage
         /\ Walks!Starts' = Walks!Starts /\ Behind' = Behind /\ Walks!Size' = Walks!Size
         /\ Walks!Known' = Walks!Known /\ Walks!Expected' = Walks!Expected
         /\ Walks!Clean' <=> Walks!Clean
         /\ Walks!Unseen' <=> Walks!Unseen
         /\ LoopsAllowed' <=> LoopsAllowed
         /\ \A i : Before(i)' = Before(i)
         /\ \A i : NoneUnknown(i)' <=> NoneUnknown(i)
<1>1. WalkImage' <=> WalkImage
  BY DEF WalkImage
<1>2. Walks!Starts' = Walks!Starts
  BY DEF Walks!Starts
<1>3. Behind' = Behind /\ Walks!Size' = Walks!Size
  BY <1>2 DEF Behind, Walks!Size
<1>4. Walks!Known' = Walks!Known
  BY DEF Walks!Known
<1>5. Walks!Expected' = Walks!Expected
  BY <1>2, <1>4 DEF Walks!Expected
<1>6. Walks!Clean' <=> Walks!Clean
  BY DEF Walks!Clean
<1>7. Walks!Unseen' <=> Walks!Unseen
  BY DEF Walks!Unseen
<1>8. LoopsAllowed' <=> LoopsAllowed
  BY <1>6 DEF LoopsAllowed
<1>9. \A i : Before(i)' = Before(i)
  BY <1>2, <1>4 DEF Before
<1>10. \A i : NoneUnknown(i)' <=> NoneUnknown(i)
  BY DEF NoneUnknown
<1> QED
  BY <1>1, <1>2, <1>3, <1>4, <1>5, <1>6, <1>7, <1>8, <1>9, <1>10

LEMMA WalkStep == WalkInv /\ [Walks!Next]_(Walks!vars) => WalkInv'
<1> SUFFICES ASSUME WalkInv, [Walks!Next]_(Walks!vars) PROVE WalkInv'
  OBVIOUS
<1>1. wWalk' = wWalk /\ wEntries' = wEntries /\ wFill' = wFill
  BY DEF Walks!Next, Walks!Step, Walks!vars
<1>2. WalkImage /\ WalkImage'
  BY <1>1, SameImage DEF WalkInv
<1>3. IF wWalk = "vss" THEN Stored(wEnd', wOff') ELSE Walked(wEnd', wOff', wFound')
  <2>1. CASE UNCHANGED Walks!vars
    BY <2>1 DEF WalkInv, Walks!vars
  <2>2. CASE Walks!Step
    <3> DEFINE t == Walks!TurnOf(wOff)
    <3>1. /\ wEnd = "" /\ wOff' = GoesTo(t, wOff) /\ wEnd' = EndsWith(t, wOff)
          /\ wWalk # "vss" => wFound' = Found(t, wOff, wFound)
      BY <2>2 DEF Walks!Step, GoesTo, EndsWith, Found, Walks!Kept
    <3> HIDE DEF t
    <3>2. CASE wWalk = "vss"
      <4>1. PICK i \in 1 .. Len(wEntries) : wOff = Walks!Starts[i]
        BY <3>1, <3>2 DEF WalkInv, Stored
      <4>2. t = Walks!vss(wOff)
        BY <3>2 DEF t, Walks!TurnOf
      <4> QED
        BY <1>2, <3>1, <3>2, <4>1, <4>2, VssTurn
    <3>3. CASE wWalk # "vss"
      <4>1. wOff \in Nat /\ wFound \in Seq(Nat) /\ Listed(wOff, wFound)
        BY <3>1, <3>3 DEF WalkInv, Walked
      <4>2. ASSUME NEW i \in 1 .. Len(wEntries), AtEntry(i, wOff, wFound)
            PROVE  Walked(EndsWith(t, wOff), GoesTo(t, wOff), Found(t, wOff, wFound))
        <5>1. Outcome(t, i)
          BY <1>2, <3>3, <4>2, EntryTurn DEF t, AtEntry
        <5> QED
          BY <1>2, <4>1, <4>2, <5>1, EntryKeeps
      <4>3. ASSUME AtFiller(wOff, wFound)
            PROVE  Walked(EndsWith(t, wOff), GoesTo(t, wOff), Found(t, wOff, wFound))
        <5>1. FillOutcome(t, wOff)
          BY <1>2, <3>3, <4>1, <4>3, FillTurn DEF t, AtFiller
        <5> QED
          BY <1>2, <4>1, <4>3, <5>1, FillKeeps
      <4>4. Walked(EndsWith(t, wOff), GoesTo(t, wOff), Found(t, wOff, wFound))
        BY <4>1, <4>2, <4>3 DEF Listed
      <4> QED
        BY <3>1, <3>3, <4>4
    <3> QED
      BY <3>2, <3>3
  <2> QED
    BY <2>1, <2>2 DEF Walks!Next
<1>4. CASE wWalk = "vss"
  BY <1>1, <1>2, <1>3, <1>4, SameImage DEF WalkInv, Stored
<1>5. CASE wWalk # "vss"
  <2>1. Walked(wEnd', wOff', wFound')
    BY <1>3, <1>5
  <2>2. Listed(wOff', wFound') => Listed(wOff, wFound)'
    BY <1>1, SameImage DEF Listed, AtEntry, AtFiller
  <2>3. ReportedBy(wFound') => ReportedBy(wFound)'
    BY <1>1, SameImage DEF ReportedBy
  <2>4. Walked(wEnd, wOff, wFound)'
    BY <1>1, <2>1, <2>2, <2>3, SameImage DEF Walked
  <2> QED
    BY <1>1, <1>2, <1>5, <2>4 DEF WalkInv
<1> QED
  BY <1>4, <1>5

\* The entries of the images the walks are given.
LEMMA WholeFits ==
  ASSUME NEW w \in Walks!Walks, NEW e \in Walks!Whole(w)
  PROVE  e \in EntrySet /\ Fits(w, e) /\ e.kind \in {"good", "bare", "skip"}
<1>1. PICK k \in Walks!KindsOf(w) : e \in [kind : {k}, size : Walks!SizesOf(w, k)]
  BY DEF Walks!Whole
<1>2. e.kind = k /\ e.size \in Walks!SizesOf(w, k) /\ e = [kind |-> e.kind, size |-> e.size]
  BY <1>1
<1>3. /\ k \in {"good", "bare", "skip"} /\ (k = "skip" => w \in WithUnknown)
      /\ k = "bare" => w = "smbios"
  BY <1>1 DEF Walks!KindsOf, WithUnknown
<1>4. WalkExtra \in Nat
  BY PlatformAssumption
<1>5. e.size \in Nat /\ e.size >= 2 /\ (w = "smbios" /\ k = "good" => e.size >= 4)
  <2>1. \/ e.size \in 2 + 1 .. 2 + WalkExtra
        \/ w = "smbios" /\ k = "bare" /\ e.size \in 2 + 1 .. 2 + WalkExtra
        \/ e.size \in 2 + 1 + 1 .. 2 + 1 + WalkExtra
        \/ e.size = 2 /\ w = "vss"
        \/ w # "smbios" /\ e.size \in 2 .. 2 + WalkExtra
    BY <1>2 DEF Walks!SizesOf, Walks!H, Walks!T
  <2>2. w = "smbios" /\ k = "good" => e.size \in 2 + 1 + 1 .. 2 + 1 + WalkExtra
    BY <1>2 DEF Walks!SizesOf, Walks!H, Walks!T
  <2>3. e.size \in Nat /\ e.size >= 2
    BY <1>4, <2>1
  <2>4. w = "smbios" /\ k = "good" => e.size >= 4
    BY <1>4, <2>2
  <2> QED
    BY <2>3, <2>4
<1>6. e \in EntrySet
  BY <1>2, <1>3, <1>5 DEF EntrySet, EntryKinds
<1>7. Fits(w, e)
  BY <1>2, <1>3, <1>5 DEF Fits
<1> QED
  BY <1>2, <1>3, <1>6, <1>7

LEMMA TailFits ==
  ASSUME NEW w \in Walks!Walks, NEW e \in Walks!LastOf(w) \cup Walks!Damaged(w)
  PROVE  e \in EntrySet /\ Fits(w, e)
<1>1. WalkExtra \in Nat
  BY PlatformAssumption
<1>2. CASE e \in Walks!LastOf(w)
  <2>1. w \in {"s3", "windows"} /\ e.kind = "last" /\ e = [kind |-> e.kind, size |-> e.size]
        /\ (e.size = 2 \/ e.size \in 2 + 1 .. 2 + WalkExtra)
    BY <1>2 DEF Walks!LastOf, Walks!H
  <2>2. e.size \in Nat /\ e.size >= 2
    BY <1>1, <2>1
  <2>3. e \in EntrySet
    BY <2>1, <2>2 DEF EntrySet, EntryKinds
  <2> QED
    BY <2>1, <2>2, <2>3 DEF Fits
<1>3. CASE e \in Walks!Damaged(w)
  <2>1. /\ w \notin Undamaged
        /\ \/ e \in {[kind |-> k, size |-> 0] : k \in {"zero", "long"}}
           \/ w = "nvar" /\ e = [kind |-> "foreign", size |-> 2]
    BY <1>3 DEF Walks!Damaged, Walks!H, Undamaged
  <2>2. e \in EntrySet
    BY <2>1 DEF EntrySet, EntryKinds
  <2> QED
    BY <2>1, <2>2 DEF Fits
<1> QED
  BY <1>2, <1>3

LEMMA WalkImageInit == Walks!Init => WalkImage
<1> SUFFICES ASSUME Walks!Init PROVE WalkImage
  OBVIOUS
<1>1. PICK body \in UNION {[1 .. n -> Walks!Whole(wWalk)] : n \in 0 .. WalkEntries},
           tail \in {<<>>} \cup {<<e>> : e \in Walks!LastOf(wWalk) \cup Walks!Damaged(wWalk)} :
        wEntries = body \o tail /\ (wWalk = "vss" => body # <<>>)
  BY DEF Walks!Init
<1>2. wWalk \in Walks!Walks
  BY DEF Walks!Init
<1>3. PICK n \in 0 .. WalkEntries : body \in [1 .. n -> Walks!Whole(wWalk)]
  BY <1>1
<1>4. n \in Nat /\ Len(body) = n
  BY <1>3, PlatformAssumption
<1>5. \A i \in 1 .. n : body[i] \in EntrySet /\ Fits(wWalk, body[i]) /\ body[i].kind \in {"good", "bare", "skip"}
  BY <1>2, <1>3, WholeFits
<1>6. body \in Seq(EntrySet)
  BY <1>3, <1>4, <1>5
<1>7. /\ wEntries \in Seq(EntrySet)
      /\ \A i \in 1 .. Len(wEntries) :
           /\ Fits(wWalk, wEntries[i])
           /\ wEntries[i].kind \in {"last", "zero", "long", "foreign"} => i = Len(wEntries)
      /\ wWalk = "vss" => wEntries # <<>>
  <2>1. CASE tail = <<>>
    <3>1. wEntries = body
      BY <1>1, <1>6, <2>1
    <3> QED
      BY <1>1, <1>4, <1>5, <1>6, <3>1
  <2>2. CASE tail # <<>>
    <3>1. PICK e \in Walks!LastOf(wWalk) \cup Walks!Damaged(wWalk) : tail = <<e>>
      BY <1>1, <2>2
    <3>2. e \in EntrySet /\ Fits(wWalk, e)
      BY <1>2, <3>1, TailFits
    <3>3. wEntries = Append(body, e)
      BY <1>1, <1>6, <3>1
    <3>4. /\ wEntries \in Seq(EntrySet) /\ Len(wEntries) = n + 1 /\ wEntries[n + 1] = e
          /\ \A i \in 1 .. n : wEntries[i] = body[i]
      BY <1>4, <1>6, <3>2, <3>3
    <3>5. \A i \in 1 .. n + 1 : i \in 1 .. n \/ i = n + 1
      BY <1>4
    <3>6. wEntries # <<>>
      BY <1>4, <3>4
    <3> QED
      BY <1>5, <3>2, <3>4, <3>5, <3>6
  <2> QED
    BY <2>1, <2>2
<1>8. wFill \in Nat /\ (wFill # 0 => wWalk \in Filled)
  <2>1. wFill \in IF wWalk \in Filled THEN 0 .. WalkFill ELSE {0}
    BY Zenon DEF Walks!Init, Filled
  <2> QED
    BY <2>1, PlatformAssumption
<1> QED
  BY <1>2, <1>7, <1>8 DEF WalkImage, EntrySet

LEMMA WalkInit == Walks!Init => WalkInv
<1> SUFFICES ASSUME Walks!Init PROVE WalkInv
  OBVIOUS
<1>1. WalkImage
  BY WalkImageInit
<1>2. wOff = 0 /\ wFound = <<>> /\ wEnd = "" /\ 0 \in Nat /\ <<>> \in Seq(Nat)
  <2>1. wOff = 0 /\ wFound = <<>> /\ wEnd = ""
    BY Zenon DEF Walks!Init
  <2>2. 0 \in Nat /\ <<>> \in Seq(Nat)
    OBVIOUS
  <2> QED
    BY <2>1, <2>2
<1>3. Walks!Starts[1] = 0 /\ Len(wEntries) \in Nat
  BY <1>1, ImageStarts, ImageEntries
<1>4. CASE wEntries # <<>>
  <2>1. 1 \in 1 .. Len(wEntries)
    BY <1>1, <1>4, ImageEntries
  <2>2. NoneUnknown(1 - 1)
    BY DEF NoneUnknown
  <2>3. AtEntry(1, 0, <<>>)
    BY <1>1, <1>3, <2>2, BeforeAll, ListsNothing DEF AtEntry
  <2>4. Listed(0, <<>>)
    BY <2>1, <2>3 DEF Listed
  <2> QED
    BY <1>1, <1>2, <1>3, <2>1, <2>4 DEF WalkInv, Walked, Stored
<1>5. CASE wEntries = <<>>
  <2>1. Len(wEntries) = 0
    BY <1>5
  <2>2. Before(0 + 1) = Walks!Expected /\ Before(1) = {}
    BY <1>1, <2>1, BeforeAll
  <2>3. Behind = 0
    BY <1>3, <2>1 DEF Behind
  <2>4. AtFiller(0, <<>>)
    BY <2>2, <2>3, ListsNothing DEF AtFiller
  <2>5. wWalk # "vss"
    BY <1>1, <1>5 DEF WalkImage
  <2>6. Walked("", 0, <<>>)
    BY <1>2, <2>4 DEF Walked, Listed
  <2> QED
    BY <1>1, <1>2, <2>5, <2>6 DEF WalkInv
<1> QED
  BY <1>4, <1>5

LEMMA WalkExact == WalkInv => Walks!WalksExact
<1> SUFFICES ASSUME WalkInv PROVE Walks!WalksExact
  OBVIOUS
<1>1. WalkImage /\ DOMAIN wEntries = 1 .. Len(wEntries)
  BY ImageEntries DEF WalkInv
<1>2. wEnd = "loops" => LoopsAllowed
  BY DEF WalkInv, Stored, Walked
<1>3. ASSUME NEW i \in 1 .. Len(wEntries), wOff = Walks!Starts[i]
      PROVE  Walks!HeaderAt(wOff).kind # "body"
  <2>1. PICK k, z : Sees(i, k, z)
    BY <1>1, SeesEntry
  <2>2. Walks!HeaderAt(wOff).kind = k /\ k \in EntryKinds
    BY <1>3, <2>1 DEF Sees
  <2> QED
    BY <2>2 DEF EntryKinds
<1>4. ASSUME wOff \in Nat, wOff >= Behind
      PROVE  Walks!HeaderAt(wOff).kind # "body"
  <2>1. Walks!HeaderAt(wOff) = Walks!Header("fill", Walks!Beyond)
    BY <1>1, <1>4, AtFill
  <2> QED
    BY <2>1 DEF Walks!Header
<1>5. wEnd = "" => Walks!HeaderAt(wOff).kind # "body"
  BY <1>3, <1>4 DEF WalkInv, Stored, Walked, Listed, AtEntry, AtFiller
<1>6. wEnd # "" /\ Walks!Clean /\ wWalk # "vss" => ReportedBy(wFound)
  BY DEF WalkInv, Walked
<1>7. ReportedBy(wFound) => Walks!Reported
  BY DEF ReportedBy, Walks!Reported, Behind, Walks!H
<1> QED
  BY <1>1, <1>2, <1>5, <1>6, <1>7 DEF Walks!WalksExact, LoopsAllowed

LEMMA WalkInvariance == Spec => [](part = "walks" => WalkInv)
<1> DEFINE I == part = "walks" => WalkInv
<1>1. Init => I
  BY WalkInit DEF Init
<1>2. I /\ [Next]_vars => I'
  BY PartStays, OnlyWalks, WalkStep
<1> QED
  BY <1>1, <1>2, PTL DEF Spec

\* A walk over a table of any number of entries of any size ends, but where a length of zero or an
\* unknown type stops it from going on; it takes no inside of an entry for a header, and reports every
\* entry of an undamaged table, once and in order (TableWalks; the loops of uefi_common.py,
\* uefi_platform.py, acpi_tables.py, smbios.py, tpm_eventlog.py).
THEOREM TablesAreWalked == Spec => []WalksExact
<1>1. (part = "walks" => WalkInv) => WalksExact
  BY WalkExact DEF WalksExact
<1> QED
  BY <1>1, WalkInvariance, PTL
=============================================================================
