--------------------------- MODULE RegisterChecks ---------------------------
(***************************************************************************)
(* The test modules under chipsec/modules/common (and tools/wsmt) that read *)
(* a few registers of the platform and come to one verdict.  Each is a      *)
(* function from what the registers hold, a record, to what run() returns,  *)
(* the status bits it leaves for -rc and the verdict its log announces.     *)
(* Fields are 1 or 0; Undef is a control or field that the configuration    *)
(* does not define, Err one that cannot be read, as it is when ok is FALSE. *)
(***************************************************************************)
EXTENDS Integers, FiniteSets

Bit == {0, 1}
Undef == 2
Err == 3
Opt == Bit \cup {Undef}

Says(res, bits, said) == [res |-> res, bits |-> bits, said |-> said, bare |-> FALSE]
Res(res, bits) == Says(res, bits, res)
Bare(res, said) == [res |-> res, bits |-> {}, said |-> said, bare |-> TRUE]  \* no getReturnCode
Raises == Says("raised", {}, "none")
Unreadable(bits) == Res("WARNING", bits \cup {"VERIFY"})
If(cond, bit) == IF cond THEN {bit} ELSE {}

(***************************************************************************)
(* SMRAM.                                                                   *)
(***************************************************************************)
smm_in == [ok : BOOLEAN, g : Bit, open : Bit, lck : Bit]
check_SMRAMC(i) ==
  CASE ~i.ok -> Raises
    [] i.ok /\ i.g = 1 -> IF i.lck = 1 /\ i.open = 0 THEN Res("PASSED", {})
                          ELSE Res("FAILED", {"LOCKS"})
    [] OTHER -> Says("NOTAPPLICABLE", {"FEATURE_DISABLED"}, "none")

\* An unlocked SMRAM ends in an exception: self.rc_res does not exist.
smm_lock_in == [ok : BOOLEAN, lock : Bit]
check_HWCR(i) == IF i.ok /\ i.lock = 1 THEN Res("PASSED", {}) ELSE Raises

smm_close_in == [ok : BOOLEAN, tclose : Bit, aclose : Bit]
check_SMMClose(i) ==
  CASE ~i.ok -> Raises
    [] i.ok /\ (i.tclose = 1 \/ i.aclose = 1) -> Res("FAILED", {})
    [] OTHER -> Res("PASSED", {})

\* smrr: not supported or zero, or its range and that of TSEG in units of their alignment.
smm_dma_in == [ok : BOOLEAN, smrr : {"none", "some"}, tseg : {<<1, 2>>, <<2, 3>>},
               smram : {<<1, 2>>, <<2, 2>>, <<2, 3>>}, base : Bit, limit : Bit, untrusted : Opt]
check_tseg_locks(i) == (i.base = 1 /\ i.limit = 1) \/ i.untrusted = 1
check_tseg_config(i) ==
  CASE ~i.ok -> Raises
    [] i.ok /\ i.smrr = "none" -> Res("WARNING", {"VERIFY"})
    [] i.ok /\ i.smrr = "some" /\ ~(i.tseg[1] <= i.smram[1] /\ i.smram[2] <= i.tseg[2]) ->
         Res("FAILED", {"POTENTIALLY_VULNERABLE"})
    [] OTHER -> IF check_tseg_locks(i) THEN Res("PASSED", {}) ELSE Res("FAILED", {"LOCKS"})

\* res is overwritten in the end, the NOT_APPLICABLE bit of a CPU without SMRR is reset by the
\* getReturnCode of the next line; the memory type of ASEG counts for nothing.
smm_addr_in == [ok : BOOLEAN, supported : Bit, tsegType : Bit, valid : Bit, same : Bit, blocked : Bit]
check_SMMMask(i) ==
  LET good == i.tsegType = 1 /\ i.valid = 1 /\ i.same = 1 /\ i.blocked = 1
  IN IF ~i.ok THEN Raises
     ELSE Says("PASSED", If(~good, "CONFIGURATION"), IF good THEN "PASSED" ELSE "FAILED")

(***************************************************************************)
(* SPI flash and BIOS interface.                                            *)
(***************************************************************************)
\* A status bit set before the second read fails stays.
spi_lock_in == [wrsdis : Opt \cup {Err}, flockdn : Bit \cup {Err}]
check_spi_lock(i) ==
  LET first == If(i.wrsdis = 0, "ACCESS_RW")
  IN CASE i.wrsdis = Err -> Unreadable({})
       [] i.wrsdis # Err /\ i.flockdn = Err -> Unreadable(first)
       [] OTHER -> IF i.wrsdis = 0 \/ i.flockdn = 0
                   THEN Res("FAILED", first \cup If(i.flockdn = 0, "LOCKS")) ELSE Res("PASSED", {})

spi_desc_in == [ok : BOOLEAN, descw : Bit]
check_descriptor(i) ==
  IF ~i.ok THEN Unreadable({})
  ELSE IF i.descw = 1 THEN Res("FAILED", {"ACCESS_RW"}) ELSE Res("PASSED", {})

\* Without a valid descriptor every verdict becomes a warning; the bits stay.
spi_access_in == [ok : BOOLEAN, fdv : Bit, gbe : Bit, descw : Bit, me : Bit]
check_flash_access_permissions(i) ==
  LET rw == If(i.gbe = 1 \/ i.descw = 1 \/ i.me = 1, "ACCESS_RW")
      res == IF i.descw = 1 \/ i.me = 1 THEN "FAILED" ELSE IF i.gbe = 1 THEN "WARNING" ELSE "PASSED"
  IN CASE ~i.ok -> Unreadable({})
       [] i.ok /\ i.fdv = 1 -> Res(res, rw)
       [] OTHER -> Res("WARNING", rw \cup {"UNSUPPORTED_FEATURE"})

spi_fdopss_in == [ok : BOOLEAN, fdopss : Bit]
check_fd_security_override_strap(i) ==
  IF ~i.ok THEN Unreadable({})
  ELSE IF i.fdopss = 1 THEN Res("PASSED", {}) ELSE Res("FAILED", {"CONFIGURATION"})

bios_ts_in == [bild : Bit \cup {Err}, topswap : {Undef, 1, Err}]

\* Mutant of check_bios_iface_lock: an unlocked interface fails without a status bit.
BiosTsNoStatusBit(i) ==
  IF i.bild = Err \/ i.topswap = Err THEN Unreadable({})
  ELSE IF i.bild = 0 THEN Res("FAILED", {}) ELSE Res("PASSED", {})

check_bios_iface_lock(i) ==
  IF i.bild = Err \/ i.topswap = Err THEN Unreadable({})
  ELSE IF i.bild = 0 THEN Res("FAILED", {"LOCKS"}) ELSE Res("PASSED", {})

bios_smi_in == [ok : BOOLEAN, bwp : Bit, enables : BOOLEAN, tco : Bit, gbl : Bit, tcolock : Bit,
                smilock : Bit]
check_SMI_locks(i) ==
  LET bad  == \/ i.enables /\ (i.gbl = 0 \/ (i.tco = 0 /\ i.bwp = 1))
              \/ i.tcolock = 0 \/ i.smilock = 0
      warn == i.enables /\ i.gbl = 1 /\ i.tco = 0 /\ i.bwp = 0
  IN CASE ~i.ok -> Raises
       [] i.ok /\ bad -> Res("FAILED", {"LOCKS"})
       [] OTHER -> IF warn THEN Res("WARNING", {"VERIFY"}) ELSE Res("PASSED", {})

(***************************************************************************)
(* Memory map.                                                              *)
(***************************************************************************)
\* regs: the lock fields of three of the twelve registers.
memconfig_in == [ok : BOOLEAN, untrusted : Opt, regs : [1 .. 3 -> Opt]]

\* Mutant of check_memmap_locks: the last register decides.
MemmapLastDecides(i) ==
  CASE ~i.ok -> Raises
    [] i.ok /\ (i.untrusted = 1 \/ i.regs[3] # 0) -> Res("PASSED", {})
    [] OTHER -> Res("FAILED", {"LOCKS"})

check_memmap_locks(i) ==
  CASE ~i.ok -> Raises
    [] i.ok /\ (i.untrusted = 1 \/ \A r \in 1 .. 3 : i.regs[r] # 0) -> Res("PASSED", {})
    [] OTHER -> Res("FAILED", {"LOCKS"})

(***************************************************************************)
(* Memory remapping, in units of 1 MB (the masks align every address, so    *)
(* the alignment always holds and an all-ones register, whose address is    *)
(* Top, no longer looks like one when that is asked for the second time).   *)
(* Registers of the second controller replace those of the first when both  *)
(* of these are all ones.                                                   *)
(***************************************************************************)
Top == 9
Window == [base : {1, 2, Top}, limit : {1, 2, Top}, baseLock : Bit, limitLock : Bit]
remap_in == [ok : BOOLEAN, mc0 : Window, mc1 : {"none", "window"}, ibecc : BOOLEAN, touud : {2, 3},
             touudLock : Bit, toludLock : Bit, lockDefined : BOOLEAN, untrusted : Opt]
OtherWindow == [base |-> 1, limit |-> 2, baseLock |-> 1, limitLock |-> 1]
WindowOf(i) ==
  IF i.mc0.base = Top /\ i.mc0.limit = Top /\ i.mc1 = "window" THEN OtherWindow ELSE i.mc0
check_remap_config(i) ==
  LET w == WindowOf(i)
      locked(bit) == bit = 1 \/ i.untrusted = 1
      window == \/ w.base >= w.limit   \* unknown or disabled
                \/ IF i.ibecc THEN w.limit >= i.touud /\ w.base < i.touud
                   ELSE w.limit + 1 = i.touud
      good == /\ window /\ locked(i.touudLock) /\ locked(i.toludLock)
              /\ i.lockDefined => \/ i.untrusted = 1
                                  \/ (w.base = Top \/ w.baseLock = 1)
                                       /\ (w.limit = Top \/ w.limitLock = 1)
  IN CASE ~i.ok -> Raises
       [] i.ok /\ good -> IF w.base = w.limit THEN Res("WARNING", {"VERIFY"}) ELSE Res("PASSED", {})
       [] OTHER -> Res("FAILED", {"CONFIGURATION", "LOCKS"})

(***************************************************************************)
(* Other devices and processor features.                                    *)
(***************************************************************************)
me_mfg_mode_in == [ok : BOOLEAN, mfg : Bit]
check_me_mfg_mode(i) ==
  CASE ~i.ok -> Raises
    [] i.ok /\ i.mfg = 0 -> Res("PASSED", {})
    [] OTHER -> Res("FAILED", {"POTENTIALLY_VULNERABLE"})

\* hal: SMBus and SPD could be set up.
spd_wd_in == [hal : BOOLEAN, ok : BOOLEAN, wd : Bit, detected : Bit]
check_spd_wd(i) ==
  CASE ~i.hal -> Says("ERROR", {"INFORMATION"}, "none")
    [] i.hal /\ ~i.ok -> Raises
    [] i.hal /\ i.ok /\ i.wd = 1 -> Res("PASSED", {})
    [] OTHER -> IF i.detected = 1 THEN Res("FAILED", {"POTENTIALLY_VULNERABLE"})
                ELSE Res("INFORMATION", {"INFORMATION"})

\* armor: bit 11 of HSTI or a higher one is set; HSTI is 0 when the mailbox times out.
rom_armor_in == [ok : BOOLEAN, armor : Bit, barBlocked : Bit]
check_rom_armor(i) ==
  CASE ~i.ok -> Raises
    [] i.ok /\ i.armor = 0 -> Bare("FAILED", "FAILED")
    [] OTHER -> Bare("PASSED", "none")   \* check_RA_Fencing

\* Only prints; a register that cannot be read is skipped.
cet_in == [ok : BOOLEAN]
check_cet(i) == Says("INFORMATION", {"INFORMATION"}, "none")

cpu_info_in == [intel : BOOLEAN, ok : BOOLEAN, authentic : Bit]
check_cpu_info(i) ==
  CASE ~i.intel /\ i.authentic = 0 -> Bare("FAILED", "FAILED")
    [] ~(~i.intel /\ i.authentic = 0) /\ ~i.ok -> Raises
    [] OTHER -> IF i.intel THEN Res("INFORMATION", {"INFORMATION"})
                ELSE Bare("INFORMATION", "INFORMATION")

\* fill: the buffer holds the common fill pattern; contents: something but zeros and blanks.
bios_kbrd_buffer_in == [ok : BOOLEAN, fill : BOOLEAN, contents : Bit]
check_BIOS_keyboard_buffer(i) ==
  CASE ~i.ok -> Raises
    [] i.ok /\ i.fill -> Says("PASSED", {}, "none")
    [] OTHER -> IF i.contents = 1 THEN Res("WARNING", {"POTENTIALLY_VULNERABLE"}) ELSE Res("PASSED", {})

\* Without a table, or with one that cannot be parsed, run() returns the initial self.res.
wsmt_in == [table : {"none", "unparsed", "parsed"}, fixed : Bit, nested : Bit, resources : Bit]
check_wsmt(i) ==
  CASE i.table = "none" -> Bare("PASSED", "WARNING")
    [] i.table = "unparsed" -> Bare("PASSED", "ERROR")
    [] OTHER -> IF 0 \in {i.fixed, i.nested, i.resources} THEN Res("WARNING", {"MITIGATION"})
                ELSE Res("PASSED", {})

(***************************************************************************)
(* SGX.  enabled, locked: on every thread; cap: on some thread; prmrr: the  *)
(* registers are not accessible, differ between threads, are off or on.     *)
(***************************************************************************)
sgx_check_in ==
  [ok : BOOLEAN, enabled : Bit, locked : Bit, cap : Bit, prmrr : {"denied", "mixed", "off", "on"},
   valid : Bit, masked : Bit, uncore : Opt, uvalid : Bit, sgx1 : Bit, dbg : Bit, ena : Bit,
   dlock : Bit, sample : Opt]
check_prmrr_values(i) ==
  CASE i.prmrr = "mixed" -> {"CONFIGURATION"}
    [] i.prmrr = "on" ->
         If(i.valid = 0 \/ (i.uncore # Undef /\ i.uvalid = 0), "CONFIGURATION")
           \cup If(i.masked = 0 \/ i.uncore = 0, "LOCKS")
    [] OTHER -> {}
\* Of several findings the last one leaves its bit.
check_debug(i) ==
  CASE i.dlock = 0 -> {"LOCKS"}
    [] i.dlock = 1 /\ i.dbg = 1 /\ i.ena = 0 -> {"CONFIGURATION"}
    [] OTHER -> If(i.dbg = 1 \/ i.ena = 1, "DEBUG_FEATURE")
check_sgx_config(i) ==
  LET uniform == i.prmrr \in {"off", "on"}
      usable == i.enabled = 1 /\ i.locked = 1 /\ i.sgx1 = 1 /\ i.cap = 1 /\ uniform
      byFirmware == i.enabled = 0 /\ i.cap = 1 /\ uniform
      failed == If(i.locked = 0, "LOCKS") \cup If(i.cap = 0, "UNSUPPORTED_FEATURE")
                  \cup check_prmrr_values(i) \cup If(~usable /\ ~byFirmware, "FEATURE_DISABLED")
      bits == failed \cup If(i.enabled = 0, "FEATURE_DISABLED")
  IN CASE ~i.ok -> Raises
       [] i.ok /\ i.sample = 1 -> Says("INFORMATION", bits, "PASSED")
       [] OTHER -> Res(IF failed # {} \/ check_debug(i) # {} THEN "FAILED"
                       ELSE IF i.enabled = 0 THEN "WARNING" ELSE "PASSED",
                       bits \cup check_debug(i))

(***************************************************************************)
(* S3 boot scripts.  scripts: where the scripts lie, and whether the        *)
(* dispatch entry points of those outside SMRAM are protected.  Without a   *)
(* range for SMRAM the comparison raises, as may decoding a script.         *)
(***************************************************************************)
s3bootscript_in ==
  [args : {"bad", "given", "none"}, found : BOOLEAN, smram : BOOLEAN, decodes : BOOLEAN,
   scripts : SUBSET {"inside", "protected", "unprotected"}]
check_s3_bootscripts(i) ==
  CASE i.args = "bad" -> Res("ERROR", {"UNSUPPORTED_OPTION"})
    [] i.args = "none" /\ ~i.found -> Res("WARNING", {"VERIFY"})
    [] i.args # "bad" /\ (i.args = "given" \/ i.found) ->
         IF i.scripts # {} /\ (~i.smram \/ (~i.decodes /\ i.scripts # {"inside"}))
         THEN Res("ERROR", {})
         ELSE IF "unprotected" \in i.scripts THEN Res("FAILED", {"PROTECTION"})
         ELSE Res("WARNING", {"VERIFY"})

(***************************************************************************)
(* One run of one module.                                                   *)
(***************************************************************************)
Modules == {"smm", "smm_lock", "smm_close", "smm_dma", "smm_addr", "spi_lock", "spi_desc",
            "spi_access", "spi_fdopss", "bios_ts", "bios_smi", "memconfig", "remap", "me_mfg_mode",
            "spd_wd", "rom_armor", "cet", "cpu_info", "bios_kbrd_buffer", "wsmt", "sgx_check",
            "s3bootscript"}

Inputs(m) ==
  CASE m = "smm" -> smm_in [] m = "smm_lock" -> smm_lock_in [] m = "smm_close" -> smm_close_in
    [] m = "smm_dma" -> smm_dma_in [] m = "smm_addr" -> smm_addr_in [] m = "spi_lock" -> spi_lock_in
    [] m = "spi_desc" -> spi_desc_in [] m = "spi_access" -> spi_access_in
    [] m = "spi_fdopss" -> spi_fdopss_in [] m = "bios_ts" -> bios_ts_in
    [] m = "bios_smi" -> bios_smi_in [] m = "memconfig" -> memconfig_in [] m = "remap" -> remap_in
    [] m = "me_mfg_mode" -> me_mfg_mode_in [] m = "spd_wd" -> spd_wd_in
    [] m = "rom_armor" -> rom_armor_in [] m = "cet" -> cet_in [] m = "cpu_info" -> cpu_info_in
    [] m = "bios_kbrd_buffer" -> bios_kbrd_buffer_in [] m = "wsmt" -> wsmt_in
    [] m = "sgx_check" -> sgx_check_in [] m = "s3bootscript" -> s3bootscript_in

run(m, i) ==
  CASE m = "smm" -> check_SMRAMC(i) [] m = "smm_lock" -> check_HWCR(i)
    [] m = "smm_close" -> check_SMMClose(i) [] m = "smm_dma" -> check_tseg_config(i)
    [] m = "smm_addr" -> check_SMMMask(i) [] m = "spi_lock" -> check_spi_lock(i)
    [] m = "spi_desc" -> check_descriptor(i) [] m = "spi_access" -> check_flash_access_permissions(i)
    [] m = "spi_fdopss" -> check_fd_security_override_strap(i)
    [] m = "bios_ts" -> check_bios_iface_lock(i) [] m = "bios_smi" -> check_SMI_locks(i)
    [] m = "memconfig" -> check_memmap_locks(i) [] m = "remap" -> check_remap_config(i)
    [] m = "me_mfg_mode" -> check_me_mfg_mode(i) [] m = "spd_wd" -> check_spd_wd(i)
    [] m = "rom_armor" -> check_rom_armor(i) [] m = "cet" -> check_cet(i)
    [] m = "cpu_info" -> check_cpu_info(i)
    [] m = "bios_kbrd_buffer" -> check_BIOS_keyboard_buffer(i) [] m = "wsmt" -> check_wsmt(i)
    [] m = "sgx_check" -> check_sgx_config(i) [] m = "s3bootscript" -> check_s3_bootscripts(i)

VARIABLES mod, input, verdict
vars == <<mod, input, verdict>>

NoVerdict == Says("none", {}, "none")
Init == mod \in Modules /\ input \in Inputs(mod) /\ verdict = NoVerdict
Run == verdict = NoVerdict /\ verdict' = run(mod, input) /\ UNCHANGED <<mod, input>>
Next == Run

Results == {"PASSED", "FAILED", "WARNING", "INFORMATION", "NOTAPPLICABLE", "ERROR", "raised", "none"}
TypeOK == mod \in Modules /\ verdict.res \in Results /\ verdict.said \in Results

(***************************************************************************)
(* The protections a module looks for, each with the value it should have.  *)
(***************************************************************************)
Protections(m) ==
  CASE m = "smm"         -> {<<"lck", 1>>, <<"open", 0>>}
    [] m = "smm_lock"    -> {<<"lock", 1>>}
    [] m = "smm_close"   -> {<<"tclose", 0>>, <<"aclose", 0>>}
    [] m = "smm_dma"     -> {<<"base", 1>>, <<"limit", 1>>}
    [] m = "spi_lock"    -> {<<"wrsdis", 1>>, <<"flockdn", 1>>}
    [] m = "spi_desc"    -> {<<"descw", 0>>}
    [] m = "spi_access"  -> {<<"gbe", 0>>, <<"descw", 0>>, <<"me", 0>>}
    [] m = "spi_fdopss"  -> {<<"fdopss", 1>>}
    [] m = "bios_ts"     -> {<<"bild", 1>>}
    [] m = "bios_smi"    -> {<<"tcolock", 1>>, <<"smilock", 1>>}
    [] m = "remap"       -> {<<"touudLock", 1>>, <<"toludLock", 1>>}
    [] m = "me_mfg_mode" -> {<<"mfg", 0>>}
    [] m = "spd_wd"      -> {<<"wd", 1>>}
    [] m = "rom_armor"   -> {<<"armor", 1>>}
    [] m = "cpu_info"    -> {<<"authentic", 1>>}
    [] m = "wsmt"        -> {<<"fixed", 1>>, <<"nested", 1>>, <<"resources", 1>>}
    [] m = "sgx_check"   -> {<<"locked", 1>>, <<"dbg", 0>>, <<"dlock", 1>>, <<"ena", 0>>}
    [] OTHER             -> {}

\* Read before anything else can make a verdict: an unreadable register.
Readable(i) ==
  /\ "ok" \in DOMAIN i => i.ok
  /\ \A f \in DOMAIN i \cap {"wrsdis", "flockdn", "bild", "topswap"} : i[f] # Err
Untrusted(i) == "untrusted" \in DOMAIN i /\ i.untrusted = 1
Rank(r) == CASE r \in {"PASSED", "NOTAPPLICABLE"} -> 0 [] r = "INFORMATION" -> 1
             [] r = "WARNING" -> 2 [] OTHER -> 3

(***************************************************************************)
(* A module passes only if it could read its registers and every protection *)
(* is in place (or IA_UNTRUSTED stands in for the locks), and adding one    *)
(* protection never makes a verdict worse; and what is returned is what the *)
(* log announced.  wsmt passes without a table, after a warning, smm_addr   *)
(* passes after it has logged a failure (smm_addr.py:164 and 169).  An SPI  *)
(* BAR the host can reach is no protection of rom_armor: it is logged as    *)
(* bad, and the module passes all the same (rom_armor.py:66).               *)
(* SMM_BWP is not among the protections of bios_smi: setting it makes the   *)
(* verdict worse when TCO SMIs are off (bios_smi.py:91).                    *)
(***************************************************************************)
Sound(m, i, v) ==
  /\ (v.res = "PASSED" /\ ~(m = "wsmt" /\ i.table # "parsed"))
       => /\ Readable(i)
          /\ Untrusted(i) \/ \A p \in Protections(m) : i[p[1]] \in {p[2], Undef}
          /\ (m = "memconfig" /\ ~Untrusted(i)) => 0 \notin {i.regs[r] : r \in 1 .. 3}
  /\ \A p \in Protections(m) :
       i[p[1]] \in Bit => Rank(run(m, [i EXCEPT ![p[1]] = p[2]]).res) <= Rank(v.res)
  /\ (v.said \in {"PASSED", "WARNING", "FAILED", "ERROR"} /\ m \notin {"smm_addr", "wsmt"})
       => Rank(v.res) = Rank(v.said) \/ v.res = "INFORMATION"
ChecksSound == verdict # NoVerdict => Sound(mod, input, verdict)

(***************************************************************************)
(* With -rc a run counts as passed exactly if its status is SUCCESS,        *)
(* INFORMATION or NOT_APPLICABLE: the status left agrees with the verdict.  *)
(* Exceptions: a closed SMMMASK fails without a bit (smm_close), a disabled *)
(* SMRAM is not applicable but marked, smm_addr passes with a bit, SPD and  *)
(* boot-script errors, sample parts with findings, and the modules that     *)
(* return a result without a return code.                                   *)
(***************************************************************************)
Disagree(m, i, v) ==
  \/ v.bare \/ v.res = "raised"
  \/ m = "smm_close" /\ v.res = "FAILED"
  \/ m = "smm" /\ i.g = 0
  \/ m = "smm_addr"
  \/ m \in {"spd_wd", "s3bootscript"} /\ v.res = "ERROR"
  \/ m = "sgx_check" /\ i.sample = 1
StatusMatchesVerdict ==
  (verdict # NoVerdict /\ ~Disagree(mod, input, verdict))
    => (verdict.bits \subseteq {"INFORMATION"} <=>
          verdict.res \in {"PASSED", "INFORMATION", "NOTAPPLICABLE"})
=============================================================================
