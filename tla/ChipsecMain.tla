----------------------------- MODULE ChipsecMain -----------------------------
(***************************************************************************)
(* One or more runs of chipsec_main: the kernel driver is loaded, the       *)
(* platform detected, the test modules loaded and run one after the other,  *)
(* their results collected and reduced to an exit code, the driver removed. *)
(* The driver is the one thing that outlives a run, so runs follow each     *)
(* other: what one leaves loaded is what the next one finds.                *)
(* Sources: chipsec_main.py, chipsec/module.py, chipsec/testcase.py,        *)
(* chipsec/library/returncode.py, chipsec/chipset.py and                    *)
(* chipsec/helper/linux/linuxhelper.py (start, stop).                       *)
(***************************************************************************)
EXTENDS Integers, Sequences, FiniteSets

CONSTANTS CommonModules,    \* modules under modules/common and modules/, as ordered names
          PlatformModules,  \* modules in the directory of the detected platform
          Results,          \* what the run methods of test modules return
          Switches          \* the command lines considered

ASSUME ModulesAssumption ==
  /\ CommonModules \subseteq Nat /\ PlatformModules \subseteq Nat
  /\ IsFiniteSet(CommonModules) /\ IsFiniteSet(PlatformModules)

AllModules == CommonModules \cup PlatformModules

ModuleResult == {"FAILED", "PASSED", "WARNING", "DEPRECATED", "INFORMATION", "NOTAPPLICABLE",
                 "ARCHIVED", "ERROR"}

\* Values outside ModuleResult that a run method can return: 0 and 1 (bools are
\* ints), a value that no f'{..:016X}' formats (None, a str, a float), and one
\* that cannot be hashed.
Foreign == {"False", "True", "None", "list"}

ASSUME ResultsAssumption == Results \subseteq ModuleResult \cup Foreign

\* The switches that steer a run: -m names one module, -mx excludes some.
SwitchSet == [failfast : BOOLEAN, return_codes : BOOLEAN, no_driver : BOOLEAN,
              ignore_platform : BOOLEAN, load_config : BOOLEAN, list_tags : BOOLEAN,
              user_tags : BOOLEAN, module : SUBSET AllModules, exclude : SUBSET AllModules]

ASSUME SwitchesAssumption ==
  Switches \subseteq SwitchSet /\ \A s \in Switches : Cardinality(s.module) <= 1

\* class ExitCode
ExitCode == [OK |-> 0, WARNING |-> 2, DEPRECATED |-> 4, FAIL |-> 8, ERROR |-> 16,
             EXCEPTION |-> 32, INFORMATION |-> 64, NOTAPPLICABLE |-> 128, ARCHIVED |-> 256]

\* An integer, as far as a process status tells it: its low bits, and whether it
\* is too wide for a C long.
Code(n) == [low |-> n, wide |-> FALSE]

VARIABLES
  sw,           \* the switches of this run
  pc,           \* where main() is
  driver,       \* chipsec.ko: absent, fresh (this run's) or stale (left by an earlier one)
  known,        \* whether Cfg holds the configuration of a recognised platform
  Loaded,       \* Loaded_Modules
  done,         \* how many of them have been run
  test_cases,   \* results.test_cases: module and result name
  codes,        \* their result codes
  exceptions,   \* results.exceptions
  exit,         \* how main() ended: refused by init, returned or raised; its value (of a
                \* raise, the status Python exits with), and a result it could not name
  rmmodFailed   \* history: the last rmmod of this run did not remove the driver

vars == <<sw, pc, driver, known, Loaded, done, test_cases, codes, exceptions, exit, rmmodFailed>>

results == <<Loaded, done, test_cases, codes, exceptions>>

NoExit == [how |-> "none", code |-> Code(0), unnamed |-> "none"]
Pending(c) == [how |-> "none", code |-> c, unnamed |-> "none"]
Return(c) == [how |-> "returned", code |-> c, unnamed |-> "none"]
Refuse == [how |-> "refused", code |-> Code(ExitCode.EXCEPTION), unnamed |-> "none"]
Raise == [how |-> "raised", code |-> Code(1), unnamed |-> "none"]
SystemExit == [how |-> "raised", code |-> Code(0), unnamed |-> "none"]   \* sys.exit(0) of a module
Unnamed(r) == [how |-> "raised", code |-> Code(1), unnamed |-> r.enum]

\* main() ends: the exception leaves it or it returns c.
Ends(e) == pc' = "over" /\ exit' = e

\* The handlers of OsHelperError and BaseException around _cs.init.
InitFails == Ends(IF sw.failfast THEN Raise ELSE Refuse)
-----------------------------------------------------------------------------
(***************************************************************************)
(* Chipset.init: the helper.  rmmod and insmod are external commands.       *)
(***************************************************************************)

\* unload_chipsec_module: the status of rmmod is ignored.
Unload(next) ==
  /\ \/ driver' = "absent" /\ rmmodFailed' = FALSE
     \/ driver # "absent" /\ UNCHANGED driver /\ rmmodFailed' = TRUE
  /\ pc' = next

\* load_helper, and the first half of LinuxHelper.start.
StartUnload ==
  /\ pc = "init" /\ ~sw.no_driver
  /\ Unload("insmod")
  /\ UNCHANGED <<sw, known, results, exit>>

\* Mutant of StartInsmod: the status of insmod is ignored.
StartInsmodUnchecked ==
  /\ pc = "insmod"
  /\ driver' = IF driver = "absent" THEN "fresh" ELSE driver
  /\ pc' = "open"
  /\ UNCHANGED <<sw, known, results, exit, rmmodFailed>>

\* load_chipsec_module: insmod fails when a driver is loaded, and may fail anyway
\* (no chipsec.ko, no root).
StartInsmod ==
  /\ pc = "insmod"
  /\ \/ driver = "absent" /\ driver' = "fresh" /\ pc' = "open" /\ UNCHANGED exit
     \/ InitFails /\ UNCHANGED driver
  /\ UNCHANGED <<sw, known, results, rmmodFailed>>

\* LinuxHelper.init opens the device.
StartOpen ==
  /\ pc = "open"
  /\ \/ pc' = "detect" /\ UNCHANGED exit
     \/ InitFails
  /\ UNCHANGED <<sw, driver, known, results, rmmodFailed>>

\* With -n, NoneHelper stands in and is never started.
NoHelper ==
  /\ pc = "init" /\ sw.no_driver
  /\ pc' = "detect"
  /\ UNCHANGED <<sw, driver, known, results, exit, rmmodFailed>>

\* The handler of UnknownChipsetError: give up under -i, go on without it.
UnknownChipset ==
  IF sw.ignore_platform THEN InitFails ELSE pc' = "load" /\ UNCHANGED exit

\* The rest of Chipset.init: CPUID, PCI enumeration, platform and PCH detection,
\* loading of the platform configuration.
Detect ==
  /\ pc = "detect"
  /\ \/ /\ sw.load_config /\ ~sw.ignore_platform     \* processor and PCH recognised
        /\ known' = TRUE /\ pc' = "load" /\ UNCHANGED exit
     \/ /\ sw.load_config /\ ~sw.ignore_platform     \* processor unknown
        /\ known' = FALSE
        /\ IF sw.no_driver THEN pc' = "load" /\ UNCHANGED exit ELSE UnknownChipset
     \/ /\ sw.load_config /\ ~sw.ignore_platform     \* a required PCH unknown
        /\ known' = TRUE
        /\ IF sw.no_driver THEN pc' = "load" /\ UNCHANGED exit ELSE UnknownChipset
     \/ /\ ~(sw.load_config /\ ~sw.ignore_platform)  \* nothing is detected
        /\ known' = FALSE /\ pc' = "load" /\ UNCHANGED exit
     \/ known' = FALSE /\ InitFails                  \* any other exception
  /\ UNCHANGED <<sw, driver, results, rmmodFailed>>
-----------------------------------------------------------------------------
(***************************************************************************)
(* Loading and running the modules.                                        *)
(***************************************************************************)

\* A set of names in the order Loaded_Modules.sort() leaves them.
Sorted(S) == CHOOSE s \in [1 .. Cardinality(S) -> S] :
               \A i, j \in 1 .. Cardinality(S) : i < j => s[i] < s[j]

\* load_module for -m, load_my_modules otherwise: the modules of an unknown
\* platform are not looked for, excluded ones are not appended.
LoadModules ==
  /\ pc = "load"
  /\ LET found == IF sw.module # {} THEN sw.module
                  ELSE CommonModules \cup (IF known THEN PlatformModules ELSE {})
     IN  Loaded' = Sorted(found \ sw.exclude)
  /\ pc' = "run"
  /\ UNCHANGED <<sw, driver, known, done, test_cases, codes, exceptions, exit, rmmodFailed>>

\* What a test module can turn out to be: its path may be malformed, its import
\* may raise, its metadata may say ARCHIVED, one of its TAGS may be asked for, it
\* may lack a class of its own name, be unsupported here, raise, exit (te.py:481),
\* or return a result, through getReturnCode or (direct) as it is.  For -rc it
\* leaves status bits and has an id, of which the lowest four bits may all be 0
\* (memlock's are, module_ids.json).
Statuses == {"SUCCESS", "INFORMATION", "NOT_APPLICABLE", "LOCKS", "OTHER"}
Attributes == [path : {"malformed", "raises", "ok"}, archived : BOOLEAN, tagged : BOOLEAN,
               object : BOOLEAN, supported : BOOLEAN, run : Results \cup {"raises", "exits"},
               direct : BOOLEAN, status : Statuses, id : {1, 16}]

\* verify_module_tags
RunIt(a) == IF sw.user_tags \/ sw.list_tags THEN a.tagged /\ ~sw.list_tags ELSE ~a.archived

\* ReturnCode.getReturnCode: the result itself, or with -rc a code made of the
\* status bits and the module id; run_module's own codes carry no id.
Rc(status, id) == [enum |-> "none", status |-> status, id |-> id]
Enum(res) == [enum |-> res, status |-> "none", id |-> 0]
getReturnCode(res, status, id) == IF sw.return_codes THEN Rc(status, id) ELSE Enum(res)

\* ChipsecMain.run_module and Module.run: a result, or what was raised.
run_module(a) ==
  CASE a.path = "malformed"         -> Enum("ERROR")
    [] a.path = "raises"            -> Enum("raises")
    [] a.path = "ok" /\ ~a.object   -> Enum("raises")
    [] a.path = "ok" /\ a.object    ->
         IF ~RunIt(a)
           THEN IF a.archived THEN getReturnCode("ARCHIVED", "ARCHIVED", 0)
                              ELSE getReturnCode("NOTAPPLICABLE", "NOT_APPLICABLE", 0)
         ELSE IF ~a.supported THEN getReturnCode("NOTAPPLICABLE", "NOT_APPLICABLE", a.id)
         ELSE IF a.run \in {"raises", "exits"} \/ a.direct THEN Enum(a.run)
         ELSE getReturnCode(a.run, a.status, a.id)

ModuleResultName == [FAILED |-> "Failed", PASSED |-> "Passed", WARNING |-> "Warning",
                     DEPRECATED |-> "Deprecated", INFORMATION |-> "Information",
                     NOTAPPLICABLE |-> "NotApplicable", ARCHIVED |-> "Archived", ERROR |-> "Error"]

\* Mutant of getModuleResultName: with -rc, the name of the status is taken.
StatusName(r) ==
  IF ~sw.return_codes THEN IF r.enum \in ModuleResult THEN ModuleResultName[r.enum] ELSE "Error"
  ELSE IF r.enum # "none" THEN "TypeError" ELSE r.status

\* What is no ModuleResult is an Error, and what cannot be hashed cannot be looked
\* up; with -rc an int is masked, and nothing else has an & operator.
getModuleResultName(r) ==
  IF ~sw.return_codes
    THEN IF r.enum \in ModuleResult THEN ModuleResultName[r.enum]
         ELSE IF r.enum = "list" THEN "TypeError" ELSE "Error"
  ELSE CASE r.enum \in {"False", "True"}                                  -> "Passed"
         [] r.enum \notin {"none", "False", "True"}                       -> "TypeError"
         [] r.enum = "none" ->
              IF r.status \in {"SUCCESS", "INFORMATION", "NOT_APPLICABLE"} THEN "Passed"
              ELSE IF r.status = "ARCHIVED" THEN "Archived" ELSE "Failed"

\* One turn of the loop of run_loaded_modules.  A result that has no name raises
\* outside the try.
RunModule(a) ==
  /\ pc = "run" /\ done < Len(Loaded)
  /\ LET m == Loaded[done + 1]
         raised == run_module(a).enum \in {"raises", "exits"}
         result == IF raised THEN Enum("ERROR") ELSE run_module(a)
         name == getModuleResultName(result)
         stops == (raised /\ sw.failfast) \/ name = "TypeError"
     IN  /\ exceptions' = IF raised THEN Append(exceptions, m) ELSE exceptions
         /\ \/ /\ stops
               /\ Ends(IF ~(raised /\ sw.failfast) THEN Unnamed(result)
                       ELSE IF run_module(a).enum = "exits" THEN SystemExit ELSE Raise)
               /\ UNCHANGED <<done, test_cases, codes>>
            \/ /\ ~stops
               /\ test_cases' = Append(test_cases, [module |-> m, result |-> name])
               /\ codes' = Append(codes, result)
               /\ done' = done + 1
               /\ UNCHANGED <<pc, exit>>
  /\ UNCHANGED <<sw, driver, known, Loaded, rmmodFailed>>
-----------------------------------------------------------------------------
(***************************************************************************)
(* Results: LegacyResults and ReturnCodeResults.                           *)
(***************************************************************************)
Has(name) == \E i \in DOMAIN test_cases : test_cases[i].result = name

\* TestCase.get_fields formats an int and the value of an enum, and nothing else.
Unformattable == \E i \in DOMAIN codes : codes[i].enum = "None"

\* Mutant of SummaryRaises: the times of the first test case are always needed.
SummaryNeedsATest == test_cases = <<>> \/ Unformattable \/ (~sw.return_codes /\ Has("Deprecated"))

\* LegacyResults.order_summary has no place for 'Deprecated' (KeyError);
\* ReturnCodeResults.order_summary takes the time of the first test case; both
\* take the fields of every test case.
SummaryRaises ==
  Unformattable \/ IF sw.return_codes THEN test_cases = <<>> ELSE Has("Deprecated")

\* Mutant of LegacyReturnCode: the warnings are left out of the table.
LegacyWithoutWarnings ==
  CASE Has("Error")                       -> ExitCode.ERROR
    [] ~Has("Error") /\ exceptions # <<>> -> ExitCode.EXCEPTION
    [] OTHER -> IF Has("Failed") THEN ExitCode.FAIL
                ELSE IF Has("NotApplicable") THEN ExitCode.NOTAPPLICABLE
                ELSE ExitCode.OK

\* LegacyResults.get_return_code: the first category that is not empty.
LegacyReturnCode ==
  CASE Has("Error")         -> ExitCode.ERROR
    [] ~Has("Error") /\ exceptions # <<>> -> ExitCode.EXCEPTION
    [] OTHER -> IF Has("Failed") THEN ExitCode.FAIL
                ELSE IF Has("Warning") THEN ExitCode.WARNING
                ELSE IF Has("NotApplicable") THEN ExitCode.NOTAPPLICABLE
                ELSE IF Has("Information") THEN ExitCode.INFORMATION
                ELSE IF Has("Archived") THEN ExitCode.ARCHIVED
                ELSE ExitCode.OK

\* setResultBits and setTestID: the status bits from bit 32 up (LOCKS is bit 63),
\* the id from bit 4 up.
CodeValue(r) ==
  IF r.enum = "none" THEN [low |-> 16 * r.id, wide |-> r.status = "LOCKS"]
                     ELSE Code(IF r.enum = "True" THEN 1 ELSE 0)

\* ReturnCodeResults.get_return_code: the code of the only test case, or FAIL.
ReturnCodesReturnCode ==
  IF Len(test_cases) = 1 THEN CodeValue(codes[1])
  ELSE IF Has("Failed") THEN Code(ExitCode.FAIL) ELSE Code(ExitCode.OK)

get_return_code == IF sw.return_codes THEN ReturnCodesReturnCode ELSE Code(LegacyReturnCode)

\* Mutant of Report: main() returns without destroy_helper.
ReportKeepsDriver ==
  /\ pc = "run" /\ done = Len(Loaded)
  /\ Ends(IF SummaryRaises THEN Raise ELSE Return(get_return_code))
  /\ UNCHANGED <<sw, driver, known, results, rmmodFailed>>

\* The end of run_loaded_modules: output files, summary, return code.
Report ==
  /\ pc = "run" /\ done = Len(Loaded)
  /\ IF SummaryRaises THEN Ends(Raise)
     ELSE IF sw.no_driver THEN Ends(Return(get_return_code))
     ELSE pc' = "destroy" /\ exit' = Pending(get_return_code)
  /\ UNCHANGED <<sw, driver, known, results, rmmodFailed>>

\* destroy_helper: LinuxHelper.stop closes the device and unloads the driver.
DestroyHelper ==
  /\ pc = "destroy"
  /\ Unload("over")
  /\ exit' = Return(exit.code)
  /\ UNCHANGED <<sw, known, results>>

\* sys.exit(main()): of an integer the system keeps eight bits, of one that is no
\* C long Python makes -1; an exception that main() lets through is status 1, a
\* SystemExit its own.
ProcessStatus == IF exit.code.wide THEN 255 ELSE exit.code.low % 256
-----------------------------------------------------------------------------
Fresh == /\ pc' = "init" /\ sw' \in Switches /\ known' = FALSE /\ Loaded' = <<>> /\ done' = 0
         /\ test_cases' = <<>> /\ codes' = <<>> /\ exceptions' = <<>> /\ exit' = NoExit
         /\ rmmodFailed' = FALSE

\* The next run finds the driver that this one has left, if any.
NextRun ==
  /\ pc = "over"
  /\ Fresh
  /\ driver' = IF driver = "absent" THEN "absent" ELSE "stale"

Init ==
  /\ pc = "init" /\ sw \in Switches /\ known = FALSE /\ Loaded = <<>> /\ done = 0
  /\ test_cases = <<>> /\ codes = <<>> /\ exceptions = <<>> /\ exit = NoExit
  /\ rmmodFailed = FALSE
  /\ driver \in {"absent", "stale"}

Next == StartUnload \/ StartInsmod \/ StartOpen \/ NoHelper \/ Detect \/ LoadModules
          \/ (\E a \in Attributes : RunModule(a)) \/ Report \/ DestroyHelper \/ NextRun

Spec == Init /\ [][Next]_vars
-----------------------------------------------------------------------------
(***************************************************************************)
(* Correctness.                                                            *)
(***************************************************************************)

Codes == [enum : ModuleResult \cup Foreign \cup {"none"}, id : {0, 1, 16},
          status : Statuses \cup {"none", "ARCHIVED"}]
ExitValues == [low : Nat, wide : BOOLEAN]

ResultNames == {ModuleResultName[r] : r \in ModuleResult}

\* The state of main(), of the results object and of the driver are of their kind.
TypeOK ==
  /\ sw \in Switches
  /\ pc \in {"init", "insmod", "open", "detect", "load", "run", "destroy", "over"}
  /\ driver \in {"absent", "fresh", "stale"}
  /\ known \in BOOLEAN /\ rmmodFailed \in BOOLEAN
  /\ Loaded \in Seq(AllModules) /\ done \in 0 .. Len(Loaded)
  /\ test_cases \in Seq([module : AllModules, result : ResultNames])
  /\ codes \in Seq(Codes) /\ exceptions \in Seq(AllModules)
  /\ exit.how \in {"none", "refused", "returned", "raised"} /\ exit.code \in ExitValues

\* The run went through all its modules and main() returned.
Completed == pc = "over" /\ exit.how = "returned"

\* No test module ever talks to a driver that an earlier run has left loaded
\* (LinuxHelper.start unloads first, and insmod refuses to replace a driver that
\* rmmod could not remove).
FreshDriver == pc \in {"detect", "load", "run", "destroy"} /\ ~sw.no_driver => driver = "fresh"

\* A completed run with a driver leaves none behind unless rmmod itself failed,
\* whatever its modules did.
DriverReleased == Completed /\ ~sw.no_driver => driver = "absent" \/ rmmodFailed

\* Every module ran, in order, and none of them raised.
AllRan == /\ exceptions = <<>> /\ Len(test_cases) = Len(Loaded)
          /\ \A i \in DOMAIN test_cases : test_cases[i].module = Loaded[i]
AllHave(names) == \A i \in DOMAIN test_cases : test_cases[i].result \in names

\* With -rc the code of the only module is the exit code, and its low byte is 0.
LowByteLost == sw.return_codes /\ Len(codes) = 1 /\ codes[1].id % 16 = 0

\* The process ends with status 0 only when every module ran and passed or is
\* archived, save that the code of a single module may lose its status to the low
\* byte (-rc), and that a module may exit (--failfast): no result of several
\* modules is lost on the way to the status, and no failed initialisation.
ZeroMeansPassed ==
  pc = "over" /\ ProcessStatus = 0
    => \/ Completed /\ AllRan /\ (AllHave({"Passed", "Archived"}) \/ LowByteLost)
       \/ sw.failfast /\ exceptions # <<>> /\ exit = SystemExit

\* "Exit code is 0: all modules ran successfully and passed" (testcase.py:46).
StatusZeroMeansPassed == pc = "over" /\ ProcessStatus = 0 => AllRan /\ AllHave({"Passed"})

\* Without --failfast and without -rc a test module keeps the remaining modules
\* from running only by returning what cannot be hashed: an exception, a missing
\* class, any other value is recorded and the loop goes on to the last module.
\* After that main() raises only over a DEPRECATED or a value without a format.
OneModuleNeverStopsTheRun ==
  pc = "over" /\ exit.how # "refused" /\ ~sw.failfast /\ ~sw.return_codes
    => \/ exit.unnamed = "list"
       \/ /\ done = Len(Loaded)
          /\ exit.how = "raised" => \E i \in DOMAIN codes : codes[i].enum \in {"DEPRECATED", "None"}

\* "Fail on any exception and exit (don't mask exceptions)" is what --failfast
\* adds (chipsec_main.py:94): without it, with or without -rc, exceptions of
\* modules are masked.
ExceptionsMasked == exit.how = "raised" => sw.failfast
=============================================================================
