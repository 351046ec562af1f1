------------------------------- MODULE PciBars -------------------------------
(***************************************************************************)
(* The base address registers of a PCI function: Pci.get_device_bars with   *)
(* the sizing of calc_bar_size, which overwrites the registers and puts     *)
(* them back, and Pci.find_XROM, which may place an expansion ROM.          *)
(* A register keeps W bits of address; its type bits are fixed and in kind. *)
(* Source: chipsec/hal/pci.py.                                              *)
(***************************************************************************)
EXTENDS Integers, Sequences

W == 2               \* address bits in a register
Ones == 2^W - 1      \* MASK_32b, without the type bits
BOUNDARY_4KB == -1   \* the two sizes assumed where none was measured
IO_DEFAULT == -2
AnyRom == 3          \* the base part of PCI_HDR_XROM_BAR_BASE_MASK

VARIABLES
  hdr,        \* header type: 0 device, 1 bridge, 2 other
  kinds,      \* of the registers, from BAR0 on
  original,   \* what they hold before
  regs,       \* and now
  bCalcSize, off, size, bars,
  rom,        \* expansion ROM: whether there is one, whether its image is, its BAR
  romBefore,
  args,       \* try_init and xrom_addr of find_XROM
  pc

vars == <<hdr, kinds, original, regs, bCalcSize, off, size, bars, rom, romBefore, args, pc>>

None == [kind |-> "none", s |-> 0]
Narrow == {"mem32", "io"}

\* A BAR of 2^s units ignores the address bits below; hi is the upper half of the mem64 before it.
Mask(i) == LET s == kinds[i].s IN
  CASE kinds[i].kind = "hi" -> IF s > W THEN 2^W - 2^(s - W) ELSE Ones
    [] kinds[i].kind = "mem64" /\ s > W -> 0
    [] OTHER -> 2^W - 2^s
Stored(i, v) == IF kinds[i].kind = "none" THEN 0 ELSE IF v = Ones THEN Mask(i) ELSE v
WriteReg(r, i, v) == IF i \in DOMAIN kinds THEN [r EXCEPT ![i] = Stored(i, v)] ELSE r
ReadReg(r, i) == IF i \in DOMAIN kinds THEN r[i] ELSE 0

\* What the code measures from what it reads back, reg, over n address bits.
Measured(reg, orig, n, default) == IF reg = orig THEN default ELSE 2^n - reg

\* Mutant of calc_bar_size: the upper half is not put back.
RestoreLowOnly(i, is64, isMMIO) ==
  LET r2 == WriteReg(WriteReg(regs, i + 1, Ones), i, IF is64 THEN Ones ELSE regs[i])
  IN [regs |-> WriteReg(r2, i, regs[i]),
      size |-> Measured(r2[i] + 2^W * ReadReg(r2, i + 1), regs[i] + 2^W * ReadReg(regs, i + 1),
                        2 * W, BOUNDARY_4KB)]

\* Writes ones to the register BEHIND the one at i, and to the one at i only if it is 64 bits wide.
calc_bar_size(i, is64, isMMIO) ==
  LET r1 == WriteReg(regs, i + 1, Ones)
      r2 == IF is64 THEN WriteReg(r1, i, Ones) ELSE r1
      r3 == WriteReg(r2, i, regs[i])
  IN [regs |-> IF is64 THEN WriteReg(r3, i + 1, ReadReg(regs, i + 1)) ELSE r3,
      size |-> IF is64 THEN Measured(r2[i] + 2^W * ReadReg(r2, i + 1),
                                     regs[i] + 2^W * ReadReg(regs, i + 1), 2 * W, BOUNDARY_4KB)
               ELSE Measured(r2[i], regs[i], W, IF isMMIO THEN BOUNDARY_4KB ELSE IO_DEFAULT)]

Sized(i, is64, isMMIO, assumed) ==
  IF bCalcSize /\ hdr = 0 THEN calc_bar_size(i, is64, isMMIO) ELSE [regs |-> regs, size |-> assumed]
Bar(base, i, is64, z) == [base |-> base, off |-> i, is64 |-> is64, size |-> z]

\* One turn of get_device_bars: a register that reads as zero, or a BAR below 1MB, is passed over.
Turn ==
  LET k == kinds[off].kind
      wide == Sized(off, TRUE, TRUE, size)
      narrow == Sized(off, FALSE, k # "io", IF k = "io" THEN IO_DEFAULT ELSE size)
      base64 == wide.regs[off] + 2^W * ReadReg(wide.regs, off + 1)
  IN /\ pc = "bars" /\ off \in DOMAIN kinds
     /\ \/ /\ k \in {"none", "mem1MB"} \/ (k \in Narrow \cup {"busnum"} /\ regs[off] = 0)
           /\ off' = off + 1 /\ UNCHANGED <<regs, size, bars>>
        \/ /\ k = "mem64" /\ off' = off + 2 /\ regs' = wide.regs /\ size' = wide.size
           /\ bars' = IF base64 = 0 THEN bars ELSE Append(bars, Bar(base64, off, TRUE, wide.size))
        \/ /\ k \in Narrow \cup {"busnum"} /\ regs[off] # 0
           /\ off' = off + 1 /\ regs' = narrow.regs /\ size' = narrow.size
           /\ bars' = Append(bars, Bar(regs[off], off, FALSE, narrow.size))
     /\ UNCHANGED <<hdr, kinds, original, bCalcSize, rom, romBefore, args, pc>>

BarsOver ==
  /\ pc = "bars" /\ off \notin DOMAIN kinds /\ pc' = "over"
  /\ UNCHANGED <<hdr, kinds, original, regs, bCalcSize, off, size, bars, rom, romBefore, args>>

RomStored(v) == IF rom.exists THEN v - (v % 2^rom.s) ELSE 0
RomGoes(base, en, next) ==
  /\ rom' = [rom EXCEPT !.base = RomStored(base), !.en = rom.exists /\ en] /\ pc' = next
  /\ UNCHANGED <<hdr, kinds, original, regs, bCalcSize, off, size, bars, romBefore, args>>

\* find_XROM: a BAR that reads as zero is probed if asked for.
ProbeXROM ==
  /\ pc = "xrom"
  /\ IF rom.base # 0 \/ rom.en \/ ~args.try_init THEN RomGoes(rom.base, rom.en, "check")
     ELSE RomGoes(AnyRom, FALSE, "place")

\* And placed at the address given, if that has the alignment the probe has shown.
PlaceXROM ==
  /\ pc = "place"
  /\ IF rom.base = 0 \/ args.addr = -1 THEN RomGoes(rom.base, rom.en, "check")
     ELSE IF args.addr % 2^rom.s # 0 THEN RomGoes(rom.base, rom.en, "misaligned")
     ELSE RomGoes(args.addr, TRUE, "check")

\* The image is looked for only where the BAR decodes; its header cannot be printed under
\* Python 3 (bytes have no encode), so that find_XROM raises where it has found one.
CheckXROM ==
  /\ pc = "check"
  /\ RomGoes(rom.base, rom.en, IF rom.en /\ rom.base # AnyRom /\ rom.image THEN "raised"
                               ELSE "absent")

Wide(s) == <<[kind |-> "mem64", s |-> s], [kind |-> "hi", s |-> s]>>
Single == {<<None>>, <<[kind |-> "mem1MB", s |-> 1]>>, <<[kind |-> "mem32", s |-> 1]>>,
           <<[kind |-> "io", s |-> 1]>>}
Pairs == {a \o b : a, b \in Single \cup {Wide(1), Wide(3), <<>>}}
Layouts(n) == {l \in {a \o b : a, b \in Pairs} : Len(l) = n}

\* A function as the firmware leaves it: BARs on their alignment, of a bridge two and its bus numbers.
Init ==
  /\ hdr \in 0 .. 2
  /\ kinds \in IF hdr = 0 THEN Layouts(4) ELSE IF hdr = 2 THEN Layouts(1)
               ELSE {l \o <<[kind |-> "busnum", s |-> 0]>> : l \in Layouts(2)}
  /\ original \in [1 .. Len(kinds) -> 0 .. Ones]
  /\ \A i \in DOMAIN kinds :
       LET s == kinds[i].s IN
       CASE kinds[i].kind = "none" -> original[i] = 0
         [] kinds[i].kind = "hi" -> s > W => original[i] % 2^(s - W) = 0
         [] kinds[i].kind = "mem64" /\ s > W -> original[i] = 0
         [] OTHER -> original[i] % 2^s = 0
  /\ regs = original /\ off = 1 /\ size = BOUNDARY_4KB /\ bars = <<>>
  /\ \/ /\ pc = "bars" /\ bCalcSize \in BOOLEAN
        /\ rom = 0 /\ romBefore = 0 /\ args = 0
     \/ /\ pc = "xrom" /\ bCalcSize = FALSE /\ kinds = <<None>>
        /\ rom \in [exists : BOOLEAN, image : BOOLEAN, s : 0 .. 1, base : 0 .. 2, en : BOOLEAN]
        /\ rom.base = RomStored(rom.base) /\ (rom.en => rom.exists)
        /\ romBefore = rom /\ args \in [try_init : BOOLEAN, addr : -1 .. 2]

Next == Turn \/ BarsOver \/ ProbeXROM \/ PlaceXROM \/ CheckXROM

(***************************************************************************)
(* Without sizing, and up to the first 32-bit or I/O BAR with sizing, the   *)
(* registers are left as they were and every BAR is reported with its       *)
(* address, a 64-bit one also with its size unless it lies at the very top; *)
(* of a bridge the bus numbers are reported as well.  find_XROM never moves *)
(* a ROM the firmware has placed and makes none decode but at the address   *)
(* it was given.                                                            *)
(***************************************************************************)
Sizing == bCalcSize /\ hdr = 0
Upto(i) == Sizing => \A j \in 1 .. i - 1 : kinds[j].kind \in Narrow => original[j] = 0
Address(i) == original[i] + IF kinds[i].kind = "mem64" THEN 2^W * original[i + 1] ELSE 0
AtTop(i) == kinds[i].kind = "mem64" /\ Address(i) = Mask(i) + 2^W * Mask(i + 1)
BarsExact ==
  /\ \A i \in DOMAIN kinds : Upto(i) => regs[i] = original[i]
  /\ pc = "over" => \A i \in DOMAIN kinds :
       Upto(i) /\ kinds[i].kind \in Narrow \cup {"mem64"} /\ Address(i) # 0 =>
         \E b \in DOMAIN bars : /\ bars[b].off = i /\ bars[b].base = Address(i)
                                /\ Sizing /\ bars[b].is64 /\ ~AtTop(i)
                                     => bars[b].size = 2^kinds[i].s
  /\ pc \in {"misaligned", "absent", "raised"} =>
       /\ romBefore.base # 0 \/ romBefore.en => rom = romBefore
       /\ rom.en /\ ~romBefore.en => rom.base = args.addr

\* Measuring the BARs of a function leaves its registers as they were
\* (pci.py:442, "Write original value back to register").
BarsRestored == pc = "over" => regs = original
=============================================================================
