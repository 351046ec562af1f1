----------------------------- MODULE ChipsecUtil -----------------------------
(***************************************************************************)
(* Commands of chipsec_util, one process after the other: the command says  *)
(* what it requires, the driver is started and the platform detected, the   *)
(* command is set up, run and torn down, the driver is removed.  As in      *)
(* ChipsecMain the driver is what outlives a process.                       *)
(* Sources: chipsec_util.py, chipsec/command.py, chipsec/utilcmd/*.py,      *)
(* chipsec/chipset.py and chipsec/helper/linux/linuxhelper.py.              *)
(***************************************************************************)

\* toLoad: what requirements() returns.
toLoad == {"Nil", "Config", "Driver", "All"}
load_config(r) == r \in {"Config", "All"}
load_driver(r) == r \in {"Driver", "All"}

\* BaseCommand.run swallows exceptions; commands with a run() of their own let them through,
\* but those of tpm and txt turn them into ExitCode.ERROR.
Runs == {"base", "own", "catches"}

VARIABLES
  reqs, style,   \* of the command
  sw,            \* -n, --skip_config, -i
  pc,
  driver,        \* chipsec.ko: absent, fresh (this process's) or stale
  known,         \* Cfg.code
  exit,          \* how the process ends
  rmmodFailed    \* history: the last rmmod of this process did not remove the driver

vars == <<reqs, style, sw, pc, driver, known, exit, rmmodFailed>>
command == <<reqs, style, sw>>

Over(e) == pc' = "over" /\ exit' = e
Goes(next) == pc' = next /\ UNCHANGED exit

\* parse_arguments leaves the process on a usage error or --help; then the two refusals.
Start ==
  /\ pc = "start"
  /\ \/ Over("usage")
     \/ /\ \/ load_driver(reqs) /\ sw.no_driver
           \/ load_config(reqs) /\ sw.skip_config
        /\ Over("ERROR")
     \/ /\ ~(load_driver(reqs) /\ sw.no_driver) /\ ~(load_config(reqs) /\ sw.skip_config)
        /\ Goes(IF load_driver(reqs) THEN "unload" ELSE "detect")
  /\ UNCHANGED <<command, driver, known, rmmodFailed>>

\* unload_chipsec_module: the status of rmmod is ignored.
Unload ==
  \/ driver' = "absent" /\ rmmodFailed' = FALSE
  \/ driver # "absent" /\ UNCHANGED driver /\ rmmodFailed' = TRUE

StartUnload ==
  /\ pc = "unload" /\ Goes("insmod") /\ Unload
  /\ UNCHANGED <<command, known>>

\* insmod fails with a driver in place and may fail anyway; opening the device may fail too.
StartDriver ==
  /\ pc = "insmod"
  /\ \/ driver = "absent" /\ driver' = "fresh" /\ Goes("detect")
     \/ driver = "absent" /\ driver' = "fresh" /\ Over("EXCEPTION")
     \/ UNCHANGED driver /\ Over("EXCEPTION")
  /\ UNCHANGED <<command, known, rmmodFailed>>

\* The rest of Chipset.init.  Without a driver no device is enumerated, so that no processor is
\* found, with -p neither, and nothing is raised.
Detect ==
  /\ pc = "detect"
  /\ \/ /\ load_config(reqs) /\ ~sw.ignore_platform /\ load_driver(reqs)
        /\ \/ known' = TRUE /\ (Goes("setup") \/ Over("EXCEPTION"))   \* the PCH may be unknown
           \/ known' = FALSE /\ Over("EXCEPTION")
     \/ /\ ~(load_config(reqs) /\ ~sw.ignore_platform /\ load_driver(reqs))
        /\ UNCHANGED known /\ Goes("setup")
  /\ UNCHANGED <<command, driver, rmmodFailed>>

\* An exception in set_up ends main() with None, which exits with 0.
SetUp ==
  /\ pc = "setup" /\ (Goes("prerun") \/ Over("none"))
  /\ UNCHANGED <<command, driver, known, rmmodFailed>>

\* Mutant of Prerun: the configuration is not asked for.
PrerunAlways ==
  /\ pc = "prerun" /\ Goes("run")
  /\ UNCHANGED <<command, driver, known, rmmodFailed>>

Prerun ==
  /\ pc = "prerun" /\ Goes(IF load_config(reqs) /\ ~known THEN "teardown" ELSE "run")
  /\ UNCHANGED <<command, driver, known, rmmodFailed>>

Run ==
  /\ pc = "run"
  /\ \/ Goes("teardown")                                    \* done, or swallowed
     \/ style = "own" /\ Over("raised")
     \/ style = "catches" /\ pc' = "teardown" /\ exit' = "ERROR"
  /\ UNCHANGED <<command, driver, known, rmmodFailed>>

\* tear_down, destroy_helper if the driver was asked for, and comm.ExitCode.
TearDown ==
  /\ pc = "teardown"
  /\ pc' = "over" /\ exit' = IF exit = "running" THEN "OK" ELSE exit
  /\ IF load_driver(reqs) THEN Unload ELSE UNCHANGED <<driver, rmmodFailed>>
  /\ UNCHANGED <<command, known>>

Switches == [no_driver : BOOLEAN, skip_config : BOOLEAN, ignore_platform : BOOLEAN]

\* The next process: a driver still loaded is one left by an earlier process.
NextCommand ==
  /\ pc = "over" /\ pc' = "start" /\ exit' = "running" /\ known' = FALSE /\ rmmodFailed' = FALSE
  /\ reqs' \in toLoad /\ style' \in Runs /\ sw' \in Switches
  /\ driver' = IF driver = "absent" THEN "absent" ELSE "stale"

Init ==
  /\ reqs \in toLoad /\ style \in Runs /\ sw \in Switches /\ pc = "start"
  /\ driver = "absent" /\ known = FALSE /\ exit = "running" /\ rmmodFailed = FALSE

Next == \/ Start \/ StartUnload \/ StartDriver \/ Detect \/ SetUp \/ Prerun \/ Run \/ TearDown
        \/ NextCommand

Spec == Init /\ [][Next]_vars

(***************************************************************************)
(* A command runs only on a driver its own process has loaded and with the  *)
(* configuration of a recognised platform, as it requires; and a process    *)
(* that came to its last line leaves no driver of its own unless rmmod has  *)
(* failed.  (The early returns and what leaves run() do leave it:           *)
(* chipsec_util.py:173 to 191.)                                             *)
(***************************************************************************)
CommandsPrepared ==
  /\ pc = "run" => /\ load_driver(reqs) => driver = "fresh"
                   /\ load_config(reqs) => known
  /\ (exit \in {"OK", "ERROR"} /\ pc = "over" /\ driver = "fresh") => rmmodFailed
=============================================================================
