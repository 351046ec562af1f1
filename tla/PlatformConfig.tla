--------------------------- MODULE PlatformConfig ---------------------------
(***************************************************************************)
(* Platform detection and the XML configuration (chipsec/config.py,         *)
(* chipsec/cfg/parsers/core_parsers.py, Chipset.init): the PCI devices that *)
(* were enumerated, the CPUID and the codes given on the command line       *)
(* select a processor and a PCH; their files, after the common one and      *)
(* before the files of devices, are loaded one over the other.              *)
(* One vendor; device IDs 1 and 2 belong to processors and 3 to PCHs.       *)
(***************************************************************************)
EXTENDS Integers, Sequences, FiniteSetsExt

Procs == {"A", "B"}           \* in the order of their files: A first
FieldNames == {"f", "g"}
Absent == [def |-> 0, fields |-> [f \in FieldNames |-> 0]]   \* not in REGISTERS
NoDid == 0                                                   \* 0xFFFF

VARIABLES
  raw,          \* CONFIG_PCI_RAW: device IDs found by enumeration
  skus,         \* proc_dictionary: for each code its device IDs and detection values
  reqPch,       \* req_pch of the processors' files: TRUE, FALSE or None
  cpuid,        \* 0 without a driver, when nothing can be enumerated
  args,         \* codes given: proc_code and pch_code
  explore,      \* whether the files have contents worth exploring
  pc, code, did, pchCode, loadList,
  registers,    \* one register: the file that defines it, and each of its fields
  bus,          \* one device: BUS and the device ID of CONFIG_PCI
  lock,         \* one entry of the tables without fields
  hist,         \* history: what the files held
  outcome       \* of Chipset.init

vars == <<raw, skus, reqPch, cpuid, args, explore, pc, code, did, pchCode, loadList, registers,
          bus, lock, hist, outcome>>
inputs == <<raw, skus, reqPch, cpuid, args, explore>>

\* The device IDs that have a SKU, and the first and the last of the codes listed for one, in the
\* order of the files.
Listed(s) == s["A"].dids \cup s["B"].dids
FirstOf(s, d) == IF d \in s["A"].dids THEN "A" ELSE "B"
LastListed(s, d) == IF d \in s["B"].dids THEN "B" ELSE "A"

\* _find_possible_skus_from_detection_value: the SKUs with the CPUID; all of them without one.
Possible(s) ==
  [c \in Procs |-> IF cpuid = 0 \/ cpuid \in s[c].detect THEN s[c] ELSE [s[c] EXCEPT !.dids = {}]]

\* _find_sku_from_pci_raw: the first SKU of a device ID that was enumerated; the IDs are a set.
FromRaw(s) == {FirstOf(s, d) : d \in raw \cap Listed(s)}

\* possible_skus.popitem()[1].popitem()[1].pop(): the last SKU of the last device ID; the IDs
\* are in the order of proc_dictionary, those of A and then the new ones of B.
LastDid(p) == LET new == Listed(p) \ skus["A"].dids IN Max(IF new # {} THEN new ELSE Listed(p))
Generic(p) == {LastListed(p, LastDid(p))}

\* Mutant of find_sku_data: the device ID is looked up before the CPUID.
FindByDidFirst(c) ==
  IF raw # {} /\ c # "" THEN {c}
  ELSE IF FromRaw(skus) # {} THEN FromRaw(skus) ELSE {""}

\* The codes _find_sku_data may return, "" for None.  Without a device of the vendor vid_set is
\* empty and nothing is found.
find_sku_data(c) ==
  LET p == Possible(skus) IN
  CASE raw = {} -> {""}
    [] raw # {} /\ c # "" -> {c}
    [] raw # {} /\ c = "" /\ FromRaw(p) # {} -> FromRaw(p)
    [] raw # {} /\ c = "" /\ FromRaw(p) = {} /\ FromRaw(skus) # {} -> FromRaw(skus)
    [] OTHER -> IF cpuid # 0 /\ Listed(p) # {} THEN Generic(p) ELSE {""}

\* _find_did, and the device at 0:0.0 (the lowest ID found) when none of the SKU's is there.
find_did(c) == IF skus[c].dids \cap raw # {} THEN Min(skus[c].dids \cap raw) ELSE Min(raw)

DetectProc ==
  /\ pc = "proc" /\ pc' = "pch"
  /\ \E c \in find_sku_data(args[1]) :
       /\ code' = c
       /\ did' = IF c # "" THEN find_did(c)
                 ELSE IF raw = {} THEN NoDid ELSE Min(raw)
  /\ UNCHANGED <<inputs, pchCode, loadList, registers, bus, lock, hist, outcome>>

\* The PCH, looked up by its code or its device ID; then the files to load, in order.
DetectPch ==
  /\ pc = "pch" /\ pc' = "decide"
  /\ pchCode' = IF raw # {} /\ (args[2] = "P" \/ 3 \in raw) THEN "P" ELSE ""
  /\ loadList' = <<"common">> \o (IF code # "" THEN <<code>> ELSE <<>>)
                   \o (IF pchCode' # "" THEN <<pchCode'>> ELSE <<>>) \o <<"devices">>
  /\ UNCHANGED <<inputs, code, did, registers, bus, lock, hist, outcome>>

\* Chipset.init: an unknown processor raises if there is a driver; without one nothing is loaded
\* (and req_pch is still False).
Decide ==
  /\ pc = "decide"
  /\ \/ code = "" /\ pc' = "end" /\ outcome' = IF cpuid # 0 THEN "unknown_platform" ELSE "default"
     \/ code # "" /\ pc' = "load" /\ UNCHANGED outcome
  /\ UNCHANGED <<inputs, code, did, pchCode, loadList, registers, bus, lock, hist>>

\* Mutant of RegisterEntry: a new definition replaces the fields of the earlier one.
RegisterEntryReplaces(e) ==
  registers' = IF e.undef THEN Absent
               ELSE [def |-> Len(hist'),
                     fields |-> [f \in FieldNames |-> IF f \in e.fields THEN Len(hist') ELSE 0]]

\* handle_registers: fields of an earlier definition stay, with the new ones over them.
RegisterEntry(e) ==
  registers' = IF e.undef THEN Absent
               ELSE [def |-> Len(hist'),
                     fields |-> [f \in FieldNames |-> IF f \in e.fields THEN Len(hist')
                                                      ELSE registers.fields[f]]]

\* _process_pci_dev and _add_dev: the first of the device IDs that was enumerated.  A device
\* that is defined by bus, device and function never matches (a list is looked up in a list).
DeviceEntry(e) ==
  LET found == {j \in DOMAIN e.dids : e.dids[j] \in raw}
  IN bus' = IF found # {} THEN [buses |-> {e.dids[Min(found)]}, did |-> e.dids[Min(found)]]
            ELSE [buses |-> {}, did |-> IF e.dids = <<>> THEN NoDid ELSE e.dids[1]]

Registers == {[kind |-> "register", undef |-> FALSE, fields |-> F] : F \in SUBSET FieldNames}
               \cup {[kind |-> "register", undef |-> TRUE, fields |-> {}]}
Devices   == {[kind |-> "device", dids |-> d] : d \in {<<>>, <<1>>, <<2, 3>>, <<3, 2>>}}
LocksOf   == {[kind |-> "lock", undef |-> u] : u \in BOOLEAN}
Entries == IF explore THEN Registers \cup Devices \cup LocksOf ELSE {[kind |-> "nothing"]}

\* The file's entries go to the tables (load_platform_config, _add_entry_simple).
LoadFile(e) ==
  /\ pc = "load" /\ loadList # <<>> /\ loadList' = Tail(loadList)
  /\ hist' = Append(hist, e)
  /\ IF e.kind = "register" THEN RegisterEntry(e) ELSE UNCHANGED registers
  /\ IF e.kind = "device" THEN DeviceEntry(e) ELSE UNCHANGED bus
  /\ lock' = IF e.kind = "lock" THEN (IF e.undef THEN 0 ELSE Len(hist')) ELSE lock
  /\ UNCHANGED <<inputs, pc, code, did, pchCode, outcome>>

\* A PCH that is required and unknown raises, after the configuration was loaded; is_pch_req()
\* is None when the file does not say.
Loaded ==
  /\ pc = "load" /\ loadList = <<>> /\ pc' = "end"
  /\ outcome' = IF reqPch = "true" /\ pchCode = "" THEN "unknown_pch" ELSE "ok"
  /\ UNCHANGED <<inputs, code, did, pchCode, loadList, registers, bus, lock, hist>>

NonEmpty(S) == SUBSET S \ {{}}
Init ==
  /\ explore \in BOOLEAN
  /\ raw \in SUBSET {1, 2, 3} /\ cpuid \in {0, 1, 2} /\ (cpuid = 0 => raw = {})
  /\ explore => cpuid = 1
  /\ skus \in IF explore THEN {[c \in Procs |-> [dids |-> {1, 2}, detect |-> {1, 2}]]}
              ELSE [Procs -> [dids : NonEmpty({1, 2}), detect : SUBSET {1, 2}]]
  /\ reqPch \in IF explore THEN {"none"} ELSE {"true", "false", "none"}
  /\ args \in IF explore THEN {<<"", "">>} ELSE {"", "A", "B"} \X {"", "P"}
  /\ pc = "proc" /\ code = "" /\ did = NoDid /\ pchCode = "" /\ loadList = <<>> /\ hist = <<>>
  /\ registers = Absent /\ bus = [buses |-> {}, did |-> NoDid] /\ lock = 0 /\ outcome = "none"

Next == DetectProc \/ DetectPch \/ Decide \/ (\E e \in Entries : LoadFile(e)) \/ Loaded

TypeOK ==
  /\ pc \in {"proc", "pch", "decide", "load", "end"} /\ code \in Procs \cup {""}
  /\ pchCode \in {"", "P"} /\ did \in 0 .. 3 /\ Len(hist) <= 4 /\ lock \in 0 .. 4
  /\ registers.def \in 0 .. 4 /\ outcome \in {"none", "ok", "default", "unknown_platform", "unknown_pch"}

(***************************************************************************)
(* Detection: a code given on the command line is honoured when a device of *)
(* its vendor is there; otherwise the processor found has one of its device *)
(* IDs on the bus or lists the CPUID, and both when some processor has both.*)
(* init returns only with a known processor, whose required PCH is known.   *)
(***************************************************************************)
OnBus(c) == skus[c].dids \cap raw # {}
DetectionSound ==
  /\ (pc # "proc" /\ raw # {} /\ args[1] # "") => code = args[1]
  /\ (pc # "proc" /\ args[1] = "" /\ code # "")
       => /\ OnBus(code) \/ cpuid \in skus[code].detect
          /\ (\E c \in Procs : OnBus(c) /\ cpuid \in skus[c].detect)
               => OnBus(code) /\ cpuid \in skus[code].detect
  /\ (pc # "proc" /\ args[1] = "" /\ code = "") => \A c \in Procs : ~OnBus(c)
  /\ outcome = "ok" => code # "" /\ (reqPch = "true" => pchCode # "")

(***************************************************************************)
(* What the tables hold is what the files say, the later over the earlier:  *)
(* a register exists if it was defined after it was last undefined, each    *)
(* field as it was last defined since then; a device has the buses of its   *)
(* last definition.  (parsers keep and share the FIELDS of a definition     *)
(* that is replaced, core_parsers.py:220.)                                  *)
(***************************************************************************)
LastOf(S) == IF S = {} THEN 0 ELSE CHOOSE i \in S : \A j \in S : j <= i
At(k) == {i \in DOMAIN hist : hist[i].kind = k}
Since(k) == LET u == LastOf({i \in At(k) : hist[i].undef}) IN {i \in At(k) : i > u}
ConfigIsReference ==
  /\ registers = [def |-> LastOf(Since("register")),
                  fields |-> [f \in FieldNames |->
                                LastOf({i \in Since("register") : f \in hist[i].fields})]]
  /\ lock = LastOf(Since("lock"))
  /\ LET i == LastOf(At("device"))
     IN i # 0 => /\ bus.buses = {} <=> {hist[i].dids[j] : j \in DOMAIN hist[i].dids} \cap raw = {}
                 /\ bus.buses # {} => bus.did \in bus.buses
=============================================================================
