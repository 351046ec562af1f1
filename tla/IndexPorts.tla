----------------------------- MODULE IndexPorts -----------------------------
(***************************************************************************)
(* Registers reached through an index port and a data port: the two banks   *)
(* of CMOS memory (chipsec/hal/cmos.py), the index window of the embedded   *)
(* controller (chipsec/hal/ec.py, read_idx and write_idx, whose index is    *)
(* written in two halves) and the SMN registers (chipsec/hal/psp.py).  The  *)
(* port accesses are separate steps, and the operating system uses the same *)
(* ports (the CMOS clock driver) in between.                                *)
(* Bit 7 of the index port of the low CMOS bank masks NMIs: reads set it,   *)
(* writes clear it.                                                         *)
(***************************************************************************)
EXTENDS Integers, Sequences

CONSTANTS Half,     \* values of one half of the index: offsets are 0 .. Half * Half - 1
          Values

Offsets == 0 .. Half * Half - 1
Pairs == {"cmos_low", "cmos_high", "ec_index", "smn"}

VARIABLES
  pair,     \* the pair of ports
  call,     \* the call: read, write or dump
  pc,       \* idle, index, index2, data, restore
  off,      \* offset being accessed
  got,      \* values read
  idx, nmi, \* the index port: the index and whether NMIs are masked
  cells,    \* the registers behind the ports
  before,   \* orig of dump_low and dump_high: the index port when the call began
  touched,  \* history: the other agent used the ports during this call
  ref       \* history: the registers as the undisturbed calls meant them to be

vars == <<pair, call, pc, off, got, idx, nmi, cells, before, touched, ref>>
Idle == pc = "idle"

Calls(p) ==
  [op : {"read"}, at : Offsets, value : {0}] \cup [op : {"write"}, at : Offsets, value : Values]
    \cup (IF p \in {"cmos_low", "cmos_high"} THEN [op : {"dump"}, at : {0}, value : {0}] ELSE {})

\* A dump reads the index port first.
Begin(c) ==
  /\ Idle
  /\ call' = c /\ off' = c.at /\ got' = <<>> /\ touched' = FALSE
  /\ before' = (IF c.op = "dump" THEN <<idx, nmi>> ELSE <<0, FALSE>>) /\ pc' = "index"
  /\ UNCHANGED <<pair, idx, nmi, cells, ref>>

\* The index, or its lower half.  Reads of the low bank write 0x80 | offset.
WriteIndex ==
  /\ pc = "index"
  /\ \/ pair # "ec_index" /\ idx' = off /\ pc' = "data"
     \/ pair = "ec_index" /\ idx' = (idx \div Half) * Half + (off % Half) /\ pc' = "index2"
  /\ nmi' = (pair = "cmos_low" /\ call.op # "write")
  /\ UNCHANGED <<pair, call, off, got, cells, before, touched, ref>>

\* Mutant of WriteIndexHigh: the upper half is forgotten.
WriteIndexLowOnly ==
  /\ pc = "index2" /\ pc' = "data" /\ idx' = idx
  /\ UNCHANGED <<pair, call, off, got, nmi, cells, before, touched, ref>>

WriteIndexHigh ==
  /\ pc = "index2" /\ pc' = "data"
  /\ idx' = (off \div Half) * Half + (idx % Half)
  /\ UNCHANGED <<pair, call, off, got, nmi, cells, before, touched, ref>>

\* The data port; a dump goes on with the next offset.
ReadData ==
  /\ pc = "data" /\ call.op # "write"
  /\ got' = Append(got, cells[idx])
  /\ \/ call.op = "read" /\ pc' = "idle" /\ UNCHANGED off
     \/ call.op = "dump" /\ off + 1 \in Offsets /\ off' = off + 1 /\ pc' = "index"
     \/ call.op = "dump" /\ off + 1 \notin Offsets /\ pc' = "restore" /\ UNCHANGED off
  /\ UNCHANGED <<pair, call, idx, nmi, cells, before, touched, ref>>

WriteData ==
  /\ pc = "data" /\ call.op = "write"
  /\ cells' = [cells EXCEPT ![idx] = call.value]
  /\ ref' = IF touched THEN cells' ELSE [ref EXCEPT ![off] = call.value]
  /\ pc' = "idle"
  /\ UNCHANGED <<pair, call, off, got, idx, nmi, before, touched>>

\* The end of a dump: the index port gets back what it held.
Restore ==
  /\ pc = "restore" /\ pc' = "idle" /\ idx' = before[1] /\ nmi' = before[2]
  /\ UNCHANGED <<pair, call, off, got, cells, before, touched, ref>>

\* The operating system selects a register of its own.
OtherSelects(o) ==
  /\ idx' = o /\ nmi' = FALSE /\ touched' = TRUE
  /\ UNCHANGED <<pair, call, pc, off, got, cells, before, ref>>

Init ==
  /\ pair \in Pairs /\ pc = "idle" /\ call = [op |-> "none", at |-> 0, value |-> 0]
  /\ off = 0 /\ got = <<>> /\ idx = 0 /\ nmi = FALSE /\ before = <<0, FALSE>>
  /\ cells = [o \in Offsets |-> 0] /\ ref = cells /\ touched = FALSE

Host == WriteIndex \/ WriteIndexHigh \/ ReadData \/ WriteData \/ Restore

Next == (\E c \in Calls(pair) : Begin(c)) \/ Host \/ (\E o \in Offsets : OtherSelects(o))

TypeOK ==
  /\ pair \in Pairs /\ pc \in {"idle", "index", "index2", "data", "restore"}
  /\ off \in Offsets /\ idx \in Offsets /\ nmi \in BOOLEAN /\ Len(got) <= Half * Half
  /\ cells \in [Offsets -> Values] /\ ref \in [Offsets -> Values]

\* A read or dump that nobody disturbed returns the registers it names, in order, and a
\* dump leaves the index port, with the mask of NMIs, as it found it.
ReadsExact ==
  Idle /\ ~touched
    => /\ call.op = "read" => got = <<cells[call.at]>>
       /\ call.op = "dump" => /\ got = [i \in 1 .. Half * Half |-> cells[i - 1]]
                              /\ <<idx, nmi>> = before

\* Every undisturbed write changes the register it names and no other: none goes to a
\* register that an earlier call, or another agent before the call, has left selected.
WritesExact == cells = ref
=============================================================================
