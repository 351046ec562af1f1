---------------------------- MODULE ThreadChecks ----------------------------
(***************************************************************************)
(* The test modules under chipsec/modules/common that look at a register of *)
(* every logical CPU and fold what they find into one verdict: memlock,     *)
(* ia32cfg, smm_code_chk, debugenabled, smrr, cpu/ia_untrusted and          *)
(* cpu/spectre_v2.  One step is one turn of such a loop.  The value a       *)
(* thread's register turns out to hold is chosen when it is read and kept   *)
(* in seen (and ctl for the second loop of spectre_v2), so that the verdict  *)
(* can be compared with what was there.                                     *)
(* A module returns a ModuleResult and, for -rc, leaves status bits.        *)
(***************************************************************************)
EXTENDS Integers, Sequences

CONSTANT N   \* the logical CPUs: get_cpu_thread_count() when it succeeds

Modules == {"memlock", "ia32cfg", "ia_untrusted", "spectre_v2", "smm_code_chk",
            "debugenabled", "smrr"}
Vendors == {"intel", "amd"}

VARIABLES
  mod,      \* the test module
  plat,     \* what it asks of the platform as a whole
  pc,       \* idle, in a loop over the threads, at the final decision, over
  count,    \* how many threads the loops go through
  tid,      \* the loop variable
  seen,     \* history: what was read of the threads
  ctl,      \* history: IA32_SPEC_CTRL of the threads (spectre_v2)
  acc,      \* what the loop has found so far: status, res, TestFail, smrr_ok, ibrs_...
  results,  \* smm_code_chk: the members of the list results
  bits,     \* status bits of self.result
  result    \* what run() returned

vars == <<mod, plat, pc, count, tid, seen, ctl, acc, results, bits, result>>

\* What the platform as a whole answers to each module.
Platforms(m) ==
  CASE m = "ia_untrusted" -> [soc : {"undefined", "0", "1"}]
    [] m = "debugenabled" -> [ectrl : {"undefined", "0", "1"}, sample : BOOLEAN]
    [] m = "smrr"         -> [supported : BOOLEAN, programmed : BOOLEAN, blocked : BOOLEAN,
                              modify : BOOLEAN, writable : BOOLEAN]
    [] m = "spectre_v2"   -> [vendor : Vendors, ibrs_ibpb : BOOLEAN, stibp : BOOLEAN,
                              arch_cap : BOOLEAN, retpoline : {"yes", "no", "unimplemented"}]
    [] OTHER              -> [any : {TRUE}]

\* What the register of a thread can hold, as far as the module tells it apart.
ThreadValues ==
  CASE mod = "memlock"                      -> {"unreadable", "0", "1"}
    [] mod \in {"ia32cfg", "ia_untrusted"}  -> {"0", "1"}
    [] mod = "smm_code_chk"                 -> [en : BOOLEAN, lock : BOOLEAN]
    [] mod = "debugenabled"                 ->
         [enable : BOOLEAN, lock : BOOLEAN, occurred : BOOLEAN]
    [] mod = "smrr"                         -> {"same", "differs"}
    [] OTHER -> IF plat.vendor = "amd" THEN [others : BOOLEAN, psfd : BOOLEAN]
                                       ELSE {"unreadable", "0", "1"}

\* What IA32_SPEC_CTRL can hold; an unreadable one shows neither bit.
SpecCtrls == {v \in [readable : BOOLEAN, ibrs : BOOLEAN, stibp : BOOLEAN] :
                ~v.readable => ~v.ibrs /\ ~v.stibp}

\* spectre_v2 takes a count that cannot be had for 1 (the bare except of line 162).
Counts(m) == IF m = "spectre_v2" THEN {N, 1} ELSE {N}
-----------------------------------------------------------------------------
\* What happens in run() before the loop.  The status bit smrr sets where the range is not
\* supported is gone when its loop begins: getReturnCode, called at once, resets it, and
\* check_SMRR goes on.
Begin(m, p, c) ==
  /\ pc = "idle"
  /\ mod' = m /\ plat' = p /\ count' = c
  /\ tid' = 0 /\ seen' = <<>> /\ ctl' = <<>> /\ results' = {} /\ result' = "none"
  /\ LET bad == \/ m = "ia_untrusted" /\ p.soc = "0"
                \/ m = "smrr" /\ ~p.programmed
                \/ m = "spectre_v2" /\ p.vendor = "intel" /\ ~p.arch_cap
     IN  /\ acc' = IF bad THEN "FAILED" ELSE "PASSED"
         /\ bits' = IF bad /\ m = "ia_untrusted" THEN {"CONFIGURATION"} ELSE {}
         /\ pc' = IF bad /\ m = "spectre_v2" THEN "decide" ELSE "loop"

\* Mutant of Turn: the last thread is left out.
TurnNotLast(v, stop, a, b) ==
  /\ seen' = Append(seen, v) /\ acc' = a /\ bits' = bits \cup b /\ tid' = tid + 1
  /\ pc' = IF stop \/ tid + 1 >= count - 1 THEN "decide" ELSE "loop"

\* One turn: v is read, a and b are what it adds to the findings; stop is a break.
Turn(v, stop, a, b) ==
  /\ seen' = Append(seen, v) /\ acc' = a /\ bits' = bits \cup b /\ tid' = tid + 1
  /\ pc' = IF stop \/ tid + 1 = count THEN "decide" ELSE "loop"

InLoop(m) == pc = "loop" /\ mod = m

check_MSR_LT_LOCK_MEMORY(v) ==
  /\ InLoop("memlock")
  /\ Turn(v, v = "unreadable",
          CASE v = "unreadable" -> "ERROR" [] v = "0" -> "FAILED" [] v = "1" -> acc, {})
  /\ UNCHANGED <<mod, plat, count, ctl, results, result>>

check_ia32feature_control(v) ==
  /\ InLoop("ia32cfg")
  /\ Turn(v, FALSE, IF v = "0" THEN "FAILED" ELSE acc, IF v = "0" THEN {"LOCKS"} ELSE {})
  /\ UNCHANGED <<mod, plat, count, ctl, results, result>>

check_untrusted(v) ==
  /\ InLoop("ia_untrusted")
  /\ Turn(v, FALSE, IF v = "0" THEN "FAILED" ELSE acc, IF v = "0" THEN {"CONFIGURATION"} ELSE {})
  /\ UNCHANGED <<mod, plat, count, ctl, results, result>>

\* IA32_ARCH_CAPABILITIES: acc is ibrs_enh_supported.
ArchCapabilities(v) ==
  /\ InLoop("spectre_v2") /\ plat.vendor = "intel"
  /\ Turn(v, v # "1", IF v # "1" THEN "FAILED" ELSE acc, {})
  /\ UNCHANGED <<mod, plat, count, ctl, results, result>>

\* The loop over IA32_SPEC_CTRL is entered when all threads have enhanced IBRS.
SpecCtrlBegin ==
  /\ pc = "decide" /\ mod = "spectre_v2" /\ plat.vendor = "intel"
  /\ acc = "PASSED" /\ ctl = <<>>
  /\ pc' = "ctl" /\ tid' = 0
  /\ UNCHANGED <<mod, plat, count, seen, ctl, acc, results, bits, result>>

\* IA32_SPEC_CTRL: acc becomes ibrs_enabled, WARNING standing for "not enabled".  STIBP is
\* counted in stibp_enabled_count, which is logged and asked nothing else.
SpecCtrl(v) ==
  /\ pc = "ctl"
  /\ ctl' = Append(ctl, v)
  /\ acc' = IF v.ibrs THEN acc ELSE "WARNING"
  /\ tid' = tid + 1
  /\ pc' = IF ~v.readable \/ tid + 1 = count THEN "decide" ELSE "ctl"
  /\ UNCHANGED <<mod, plat, count, seen, results, bits, result>>

\* SPEC_CTRL on AMD: after the inner loop f is still PSFD, the only field tested.
AmdSpecCtrl(v) ==
  /\ InLoop("spectre_v2") /\ plat.vendor = "amd"
  /\ Turn(v, FALSE, IF ~v.psfd THEN "FAILED" ELSE acc, {})
  /\ UNCHANGED <<mod, plat, count, ctl, results, result>>

\* _check_SMM_Code_Chk_En for one thread.
CodeChk(v) == IF ~v.en THEN "WARNING" ELSE IF v.lock THEN "PASSED" ELSE "FAILED"

check_SMM_Code_Chk_En(v) ==
  /\ InLoop("smm_code_chk")
  /\ results' = results \cup {CodeChk(v)}
  /\ Turn(v, FALSE, acc, IF CodeChk(v) = "FAILED" THEN {"LOCKS"} ELSE {})
  /\ UNCHANGED <<mod, plat, count, ctl, result>>

\* Mutant of DebugFound: a debug event overrides what was found before.
DebugLastFound(v) ==
  IF v.occurred THEN "WARNING" ELSE IF v.enable \/ ~v.lock THEN "FAILED" ELSE acc

\* TestFail after a thread's IA32_DEBUG_INTERFACE.
DebugFound(v) ==
  IF v.enable \/ ~v.lock THEN "FAILED"
  ELSE IF v.occurred /\ acc = "PASSED" THEN "WARNING" ELSE acc

check_cpu_debug_enable(v) ==
  /\ InLoop("debugenabled")
  /\ Turn(v, FALSE, DebugFound(v),
          (IF v.enable \/ v.occurred THEN {"DEBUG_FEATURE"} ELSE {})
             \cup (IF ~v.lock THEN {"LOCKS"} ELSE {}))
  /\ UNCHANGED <<mod, plat, count, ctl, results, result>>

\* "Verifying that SMRR range base & mask are the same on all logical CPUs"; they are
\* compared with those of thread 0.
check_SMRR(v) ==
  /\ InLoop("smrr")
  /\ tid = 0 => v = "same"
  /\ Turn(v, v = "differs", IF v = "differs" THEN "FAILED" ELSE acc, {})
  /\ UNCHANGED <<mod, plat, count, ctl, results, result>>

\* Only HWAccessViolationError is caught, and only by memlock and, on Intel, spectre_v2: anything
\* else a read raises, or the thread count of the other modules, ends run().
ReadRaises ==
  /\ pc \in {"loop", "ctl"} \/ (pc = "decide" /\ mod \in {"smrr", "debugenabled", "spectre_v2"})
  /\ pc' = "idle" /\ result' = "raises"
  /\ UNCHANGED <<mod, plat, count, tid, seen, ctl, acc, results, bits>>
-----------------------------------------------------------------------------
(***************************************************************************)
(* The final decision of each module.                                      *)
(***************************************************************************)

\* run() sets status bits b and returns r.
Returns(r, b) ==
  /\ result' = r /\ bits' = bits \cup b
  /\ pc' = "idle"
  /\ UNCHANGED <<mod, plat, count, tid, seen, ctl, acc, results>>

Deciding(m) == pc = "decide" /\ mod = m

MemlockDecides ==
  /\ Deciding("memlock")
  /\ \/ acc = "ERROR" /\ Returns("ERROR", {"ACCESS_RW"})
     \/ acc = "FAILED" /\ Returns("FAILED", {"LOCKS"})
     \/ acc = "PASSED" /\ Returns("PASSED", {})

\* ia32cfg and ia_untrusted
LocksDecide == (Deciding("ia32cfg") \/ Deciding("ia_untrusted")) /\ Returns(acc, {})

\* "Combining results of all checks into final decision", without retpoline.
SpectreHardware ==
  IF ~plat.ibrs_ibpb THEN [r |-> "FAILED", b |-> {"MITIGATION"}]
  ELSE IF acc = "FAILED" THEN [r |-> "WARNING", b |-> {"PROTECTION"}]
  ELSE IF acc = "WARNING" \/ ~plat.stibp THEN [r |-> "WARNING", b |-> {"MITIGATION"}]
  ELSE [r |-> "PASSED", b |-> {}]

SpectreDecides ==
  /\ Deciding("spectre_v2") /\ plat.vendor = "intel"
  /\ acc = "PASSED" => ctl # <<>>
  /\ LET h == SpectreHardware
     IN  Returns(IF plat.retpoline = "yes" THEN "PASSED" ELSE h.r, h.b)

\* Logs what it found as failed or passed (line 313) and returns PASSED in either case.
AmdDecides == Deciding("spectre_v2") /\ plat.vendor = "amd" /\ Returns("PASSED", {})

\* The threads must agree; FAILED is then returned as it is, not through getReturnCode.
CodeChkDecides ==
  /\ Deciding("smm_code_chk")
  /\ \/ /\ \E r1, r2 \in results : r1 # r2
        /\ Returns("FAILED", {"POTENTIALLY_VULNERABLE"})
     \/ results = {"FAILED"} /\ Returns("FAILED", {"LOCKS"})
     \/ results = {"WARNING"} /\ Returns("WARNING", {"VERIFY"})
     \/ results = {"PASSED"} /\ Returns("PASSED", {})

\* check_dci, and the end of debugenabled's run.
DebugDecides ==
  /\ Deciding("debugenabled")
  /\ LET dci == plat.ectrl = "1"
         b == IF dci THEN {"DEBUG_FEATURE"} ELSE {}
     IN  IF plat.sample THEN Returns("INFORMATION", b)
         ELSE IF dci \/ acc = "FAILED" THEN Returns("FAILED", b)
         ELSE Returns(acc, b)

\* The read and, if asked for, the write at the SMRR base, and the verdict.
SmrrDecides ==
  /\ Deciding("smrr")
  /\ IF acc = "PASSED" /\ plat.blocked /\ (plat.modify => ~plat.writable)
       THEN Returns("PASSED", {}) ELSE Returns("FAILED", {"CONFIGURATION"})
-----------------------------------------------------------------------------
Init ==
  /\ mod \in Modules /\ plat \in Platforms(mod)
  /\ pc = "idle" /\ count = N /\ tid = 0 /\ seen = <<>> /\ ctl = <<>>
  /\ acc = "PASSED" /\ results = {} /\ bits = {} /\ result = "none"

ReadThread(v) ==
  \/ check_MSR_LT_LOCK_MEMORY(v) \/ check_ia32feature_control(v) \/ check_untrusted(v)
  \/ ArchCapabilities(v) \/ AmdSpecCtrl(v) \/ check_SMM_Code_Chk_En(v)
  \/ check_cpu_debug_enable(v) \/ check_SMRR(v)

Decide == MemlockDecides \/ LocksDecide \/ SpectreDecides \/ AmdDecides \/ CodeChkDecides
            \/ DebugDecides \/ SmrrDecides

Next == \/ \E m \in Modules : \E p \in Platforms(m), c \in Counts(m) : Begin(m, p, c)
        \/ \E v \in ThreadValues : ReadThread(v)
        \/ SpecCtrlBegin \/ \E v \in SpecCtrls : SpecCtrl(v)
        \/ ReadRaises \/ Decide

Spec == Init /\ [][Next]_vars
-----------------------------------------------------------------------------
(***************************************************************************)
(* Correctness.                                                            *)
(***************************************************************************)
ModuleResult == {"PASSED", "FAILED", "WARNING", "ERROR", "INFORMATION"}
Status == {"LOCKS", "CONFIGURATION", "MITIGATION", "PROTECTION", "ACCESS_RW", "VERIFY",
           "DEBUG_FEATURE", "POTENTIALLY_VULNERABLE"}

\* The loop variables and findings are of their kind; the loops stay within the threads.
TypeOK ==
  /\ mod \in Modules /\ plat \in Platforms(mod)
  /\ pc \in {"idle", "loop", "ctl", "decide"}
  /\ count \in {N, 1} /\ tid \in 0 .. count
  /\ seen \in Seq(ThreadValues) /\ Len(seen) <= N
  /\ ctl \in Seq(SpecCtrls) /\ Len(ctl) <= N
  /\ acc \in ModuleResult /\ results \subseteq ModuleResult
  /\ bits \subseteq Status
  /\ result \in ModuleResult \cup {"none", "raises"}

OnAmd == mod = "spectre_v2" /\ plat.vendor = "amd"
OnRetpoline == mod = "spectre_v2" /\ plat.vendor = "intel" /\ plat.retpoline = "yes"
Over == pc = "idle" /\ result \notin {"none", "raises"}
Some(S) == \E i \in DOMAIN seen : seen[i] \in S

\* The SMRR are not supported: check_SMRR says NOTAPPLICABLE, does not return it and goes on to
\* judge what it reads.
NoSmrr == mod = "smrr" /\ ~plat.supported

\* The threads could not be counted, and spectre_v2 looks at the first only.
Uncounted == mod = "spectre_v2" /\ count # N

\* The verdict each module means to give, from the registers alone: no mention of the order of
\* the threads.  For spectre_v2 it is the table over its final decision (spectre_v2.py:251-262),
\* which asks that STIBP be supported; lines 60-63 and 84 ask more (SpectreWarnsOfStibp).
Reference ==
  CASE mod = "memlock" -> IF Some({"unreadable"}) THEN "ERROR" ELSE IF Some({"0"}) THEN "FAILED"
                          ELSE "PASSED"
    [] mod = "ia32cfg" -> IF Some({"0"}) THEN "FAILED" ELSE "PASSED"
    [] mod = "ia_untrusted" -> IF Some({"0"}) \/ plat.soc = "0" THEN "FAILED" ELSE "PASSED"
    [] mod = "smm_code_chk" ->
         IF \A i \in DOMAIN seen : seen[i].en /\ seen[i].lock THEN "PASSED"
         ELSE IF \A i \in DOMAIN seen : ~seen[i].en THEN "WARNING" ELSE "FAILED"
    [] mod = "debugenabled" ->
         IF plat.sample THEN "INFORMATION"
         ELSE IF plat.ectrl = "1" \/ \E i \in DOMAIN seen : seen[i].enable \/ ~seen[i].lock
           THEN "FAILED"
         ELSE IF \E i \in DOMAIN seen : seen[i].occurred THEN "WARNING" ELSE "PASSED"
    [] mod = "smrr" ->
         IF plat.programmed /\ plat.blocked /\ ~(plat.modify /\ plat.writable) /\ ~Some({"differs"})
           THEN "PASSED" ELSE "FAILED"
    [] OTHER ->
         IF plat.retpoline = "yes" THEN "PASSED"
         ELSE IF ~plat.ibrs_ibpb THEN "FAILED"
         ELSE IF plat.arch_cap /\ plat.stibp /\ ~Some({"0", "unreadable"})
                   /\ \A i \in DOMAIN ctl : ctl[i].ibrs
           THEN "PASSED" ELSE "WARNING"

\* Every module's verdict is the one its registers amount to together: no finding of one
\* thread is overwritten, hidden or kept alive by another, whatever the order of the threads
\* (debugenabled.py:110, memlock.py:82).  On AMD spectre_v2 has but one verdict.
VerdictIsReference == Over /\ ~OnAmd /\ ~NoSmrr => result = Reference

\* A module passes only after it has looked at every thread (for enhanced IBRS at both
\* registers of every thread), except where retpoline settles the matter; where spectre_v2
\* had no count (spectre_v2.py:162), after the one thread it then supposes.
PassedAfterAllThreads ==
  Over /\ result = "PASSED" /\ ~OnRetpoline
    => LET n == IF Uncounted THEN 1 ELSE N
       IN  Len(seen) = n /\ (mod = "spectre_v2" /\ ~OnAmd => Len(ctl) = n)

\* getModuleResultName under -rc: no status bit means passed.
RcPassed == bits = {}

\* With and without -rc a module passes or does not pass alike.  Where retpoline or a
\* sample part overrides the findings their status bits stay, which -rc counts as failed.
StatusAgrees ==
  Over /\ ~OnRetpoline /\ ~(mod = "debugenabled" /\ plat.sample)
    => (RcPassed <=> result = "PASSED")

\* spectre_v2 passes on the hardware's mitigations, not on retpoline or what AMD has.
PassedOnIbrs == Over /\ mod = "spectre_v2" /\ ~OnAmd /\ ~OnRetpoline /\ result = "PASSED"

\* spectre_v2.py:84: "The module returns WARNING when CPU doesn't support STIBP or OS doesn't
\* enable it"; stibp_enabled_count (line 235) takes no part in the verdict.
SpectreWarnsOfStibp == PassedOnIbrs => plat.stibp /\ \A i \in DOMAIN ctl : ctl[i].stibp

\* spectre_v2.py:39: "we need to check that relevant MSR bits are set consistently on all logical
\* processors (CPU threads)"; the count of lines 160-163 may be a supposed 1.
SpectreChecksAllThreads == PassedOnIbrs => Len(seen) = N /\ Len(ctl) = N
=============================================================================
