--------------------------- MODULE RegisterAccess ---------------------------
(***************************************************************************)
(* Named registers and their fields (chipsec/library/register.py) and the   *)
(* controls and locks defined by them (control.py, lock.py): reads and      *)
(* writes of one instance or of all of them, and the field writes, which    *)
(* read, change and write back.  Other agents (firmware, drivers, other     *)
(* threads) write the same registers in between.                            *)
(* A register has three bits, in a lower part of one bit and an upper part  *)
(* of two, so that 8-byte PCI registers can be accessed part by part and a  *)
(* field can have neighbours on both sides or lie across the parts.  Calls  *)
(* keep nothing between them, so a behaviour is one call.                   *)
(***************************************************************************)
EXTENDS Integers, Sequences

CONSTANT MaxOthers   \* bound on the accesses of other agents during a call

(***************************************************************************)
(* What the accesses of a register reach:                                   *)
(*  msr_threads   one MSR per thread                                        *)
(*  msr_packages  scope "packages": threads 0 and 1 share one, 2 has its own *)
(*  msr_noscope   the same, but the definition lacks the scope              *)
(*  pci           8 bytes, a device on two buses                            *)
(*  absent        such a device that was found on no bus                    *)
(*  port          I/O port, I/O BAR, message bus or memory: one access      *)
(*  ima           behind an index register (cell 1; cell 0 is another's)    *)
(***************************************************************************)
Kinds == {"msr_threads", "msr_packages", "msr_noscope", "pci", "absent", "port", "ima"}
Cells == 0 .. 2
Fields == {[bit |-> 1, size |-> 1], [bit |-> 0, size |-> 2]}
Values == 0 .. 2          \* of fields; 2 is more than one bit can hold
PartValues == <<{0, 1}, 0 .. 3>>

VARIABLES
  kind,      \* the register's definition
  checking,  \* consistency_checking: an absent PCI device is an error
  cells,     \* the register's instances, each <<lower part, upper part>>
  idx,       \* the index register
  call,      \* the call: op, arg (thread or bus), field, value
  pc,        \* idle, read or write
  todo,      \* threads or buses still to be accessed
  sub,       \* 1: the first of two accesses, 2: the only or the second one
  acc,       \* upper part read so far
  vals,      \* reg_values: values read, or to be written
  ret,       \* result: none, ok, false, raised
  seen,      \* history: <<cell, part>> read by this call
  written,   \* history: <<cell, part>> written by this call
  others,    \* history: how often other agents were active during this call
  clobbered, \* history: its change lay between a read and the write of the same part
  ref        \* history: the instances if every field write were one step

vars == <<kind, checking, cells, idx, call, pc, todo, sub, acc, vals, ret, seen, written,
          others, clobbered, ref>>

Idle == pc = "idle"
IsPci == kind \in {"pci", "absent"}
Whole(v) == v[1] + 2 * v[2]
Parts(n) == <<n % 2, n \div 2>>
AllOnes == <<1, 3>>

Msr == {"msr_threads", "msr_packages", "msr_noscope"}
Ops == {"read_field", "read_field_all", "write_field", "write_field_all", "lock_set_bus",
        "write_all_single"}
Writes == Ops \ {"read_field", "read_field_all"}
All == {"read_field_all", "write_field_all", "write_all_single"}

\* The instance behind a thread or bus.
CellOf(a) == CASE kind = "ima" -> 1
               [] kind \in {"msr_packages", "msr_noscope"} -> IF a = 2 THEN 1 ELSE 0
               [] OTHER -> a

\* threads_to_use, or the buses of get_bus; write_all_single without a bus writes as write does.
Instances(op) ==
  CASE kind \in {"msr_threads", "msr_noscope"} -> <<0, 1, 2>>
    [] kind = "msr_packages" -> <<0, 2>>
    [] kind = "pci" -> <<1, 2>>
    [] kind = "absent" -> IF op = "write_all_single" THEN <<1>> ELSE <<>>
    [] OTHER -> <<0>>

\* Without a bus, get_first_bus: the device's first bus.
Targets(c) == IF c.op \in All THEN Instances(c.op) ELSE <<c.arg>>

get_field(v, f) == (v \div 2 ^ f.bit) % 2 ^ f.size

\* Mutant of set_field: the value is not masked to the field.
SetFieldUnmasked(v, f, x) == (v - get_field(v, f) * 2 ^ f.bit + x * 2 ^ f.bit) % 8

set_field(v, f, x) == v - get_field(v, f) * 2 ^ f.bit + (x % 2 ^ f.size) * 2 ^ f.bit

FirstSub == IF IsPci \/ kind = "ima" THEN 1 ELSE 2

Begin(c) ==
  /\ Idle /\ ret = "none" /\ call' = c /\ sub' = FirstSub
  /\ LET t == Targets(c) IN
     \/ c.op = "write_all_single" /\ pc' = "write" /\ todo' = t /\ ret' = "none"
        /\ vals' = [i \in DOMAIN t |-> c.value]
     \/ /\ c.op # "write_all_single" /\ vals' = <<>> /\ todo' = t
        /\ \/ t # <<>> /\ pc' = "read" /\ ret' = "none"
           \* no bus: read_all returns [], and write_all, given no value, False
           \/ t = <<>> /\ UNCHANGED pc /\ ret' = IF c.op \in Writes THEN "false" ELSE "ok"
  /\ UNCHANGED <<kind, checking, cells, idx, acc, seen, written, others, clobbered, ref>>

\* An access raises; write_field catches every exception.
Fail ==
  /\ ~Idle /\ pc' = "idle"
  /\ ret' = IF call.op = "write_field" THEN "false" ELSE "raised"
  /\ UNCHANGED <<kind, checking, cells, idx, call, todo, sub, acc, vals, seen, written, others,
                 clobbered, ref>>

\* The index register (_read_ima, _write_ima) or the upper part (_read_pci).
ReadFirst ==
  /\ pc = "read" /\ sub = 1 /\ sub' = 2
  /\ kind = "absent" => ~checking
  /\ \/ kind = "ima" /\ idx' = 1 /\ UNCHANGED <<acc, seen>>
     \/ IsPci /\ acc' = cells[todo[1]][2] /\ seen' = seen \cup {<<todo[1], 2>>} /\ UNCHANGED idx
  /\ UNCHANGED <<kind, checking, cells, call, pc, todo, vals, ret, written, others, clobbered, ref>>

\* Every value has been read: a read is over, a write changes the field in each (set_field_all)
\* and goes on with write_all over the same instances.
Collected(vs) ==
  IF call.op \in Writes
  THEN /\ pc' = "write" /\ todo' = Targets(call) /\ UNCHANGED ret
       /\ vals' = [i \in DOMAIN vs |-> set_field(vs[i], call.field, call.value)]
  ELSE /\ pc' = "idle" /\ todo' = <<>> /\ ret' = "ok"
       /\ vals' = [i \in DOMAIN vs |-> get_field(vs[i], call.field)]

ReadLast ==
  /\ pc = "read" /\ sub = 2 /\ sub' = FirstSub
  /\ LET c == IF kind = "ima" THEN idx ELSE CellOf(todo[1])
         v == IF IsPci THEN cells[c][1] + 2 * acc ELSE Whole(cells[c])
     IN /\ seen' = seen \cup {<<c, 1>>} \cup (IF IsPci THEN {} ELSE {<<c, 2>>})
        /\ IF Len(todo) = 1 THEN Collected(Append(vals, v))
           ELSE /\ vals' = Append(vals, v) /\ todo' = Tail(todo) /\ UNCHANGED <<pc, ret>>
  /\ UNCHANGED <<kind, checking, cells, idx, call, acc, written, others, clobbered, ref>>

\* The value written to a part, and what that write is meant to do to it.
Meant(v) == IF call.op = "write_all_single" THEN call.value
            ELSE set_field(Whole(v), call.field, call.value)

Store(c, ps) ==
  /\ cells' = IF kind = "absent" THEN cells
              ELSE [cells EXCEPT ![c] = [p \in 1 .. 2 |-> IF p \in ps THEN Parts(vals[1])[p]
                                                           ELSE @[p]]]
  /\ ref' = IF kind = "absent" THEN ref
            ELSE LET r == ref[CellOf(todo[1])]
                 IN [ref EXCEPT ![CellOf(todo[1])] =
                      [p \in 1 .. 2 |-> IF p \in ps THEN Parts(Meant(r))[p] ELSE r[p]]]
  /\ written' = written \cup {<<c, p>> : p \in ps}

\* The index register or the lower part (_write_pci writes it first).
WriteFirst ==
  /\ pc = "write" /\ sub = 1 /\ sub' = 2
  /\ \/ kind = "ima" /\ idx' = 1 /\ UNCHANGED <<cells, ref, written>>
     \/ IsPci /\ Store(todo[1], {1}) /\ UNCHANGED idx
  /\ UNCHANGED <<kind, checking, call, pc, todo, acc, vals, ret, seen, others, clobbered>>

WriteLast ==
  /\ pc = "write" /\ sub = 2 /\ sub' = FirstSub
  /\ IF IsPci THEN Store(todo[1], {2})
     ELSE Store(IF kind = "ima" THEN idx ELSE CellOf(todo[1]), {1, 2})
  /\ todo' = Tail(todo) /\ vals' = Tail(vals)
  /\ \/ Len(todo) > 1 /\ UNCHANGED <<pc, ret>>
     \/ Len(todo) = 1 /\ pc' = "idle" /\ ret' = "ok"
  /\ UNCHANGED <<kind, checking, idx, call, acc, seen, others, clobbered>>

\* A part this call has read and not yet written back for the last time.
Pending(c, p) ==
  /\ <<c, p>> \in seen /\ call.op \in Writes
  /\ \/ pc = "read"
     \/ \E i \in DOMAIN todo : CellOf(todo[i]) = c /\ ~(i = 1 /\ IsPci /\ sub = 2 /\ p = 1)

OtherWrites(c, p, v) ==
  /\ kind # "absent" /\ v # cells[c][p] /\ ~Idle
  /\ cells' = [cells EXCEPT ![c][p] = v] /\ ref' = [ref EXCEPT ![c][p] = v]
  /\ others < MaxOthers /\ others' = others + 1 /\ clobbered' = (clobbered \/ Pending(c, p))
  /\ UNCHANGED <<kind, checking, idx, call, pc, todo, sub, acc, vals, ret, seen, written>>

OtherSelects ==
  /\ kind = "ima" /\ idx' = 0 /\ idx # 0 /\ ~Idle
  /\ others < MaxOthers /\ others' = others + 1 /\ clobbered' = (clobbered \/ sub = 2)
  /\ UNCHANGED <<kind, checking, cells, call, pc, todo, sub, acc, vals, ret, seen, written, ref>>

Used == {CellOf(Instances("write_all_single")[i]) : i \in DOMAIN Instances("write_all_single")}

Calls ==
  {c \in [op : Ops, arg : Cells, field : Fields, value : Values] :
     /\ c.arg \in (IF kind \in Msr THEN {0, 1, 2} ELSE IF IsPci THEN {1} ELSE {0})
                    \cup (IF kind = "pci" /\ c.op = "lock_set_bus" THEN {2} ELSE {})
     /\ c.op \in All => c.arg = IF IsPci THEN 1 ELSE 0
     /\ c.op = "lock_set_bus" => IsPci
     /\ c.op \notin Writes => c.value = 0}

Init ==
  /\ kind \in Kinds /\ checking \in BOOLEAN /\ (checking => kind = "absent")
  /\ \E v \in {<<0, 0>>, <<1, 2>>} :
       cells = [c \in Cells |-> IF kind = "absent" THEN AllOnes ELSE v]
  /\ ref = cells /\ idx = 0 /\ pc = "idle" /\ todo = <<>> /\ sub = 2 /\ acc = 0 /\ vals = <<>> /\ ret = "none"
  /\ call = [op |-> "none", arg |-> 0, field |-> [bit |-> 0, size |-> 2], value |-> 0]
  /\ seen = {} /\ written = {} /\ others = 0 /\ clobbered = FALSE

Others == \/ \E c \in Used, p \in {1, 2} : \E v \in PartValues[p] : OtherWrites(c, p, v)
          \/ OtherSelects

Next == (\E c \in Calls : Begin(c)) \/ Fail \/ ReadFirst \/ ReadLast \/ WriteFirst \/ WriteLast
        \/ Others

TypeOK ==
  /\ kind \in Kinds /\ pc \in {"idle", "read", "write"} /\ ret \in {"none", "ok", "false", "raised"}
  /\ \A c \in Cells, p \in {1, 2} : cells[c][p] \in PartValues[p] /\ ref[c][p] \in PartValues[p]
  /\ Len(todo) <= 3 /\ Len(vals) <= 3 /\ sub \in {1, 2} /\ idx \in {0, 1}

\* Field writes, locks and controls change the field and nothing else in every instance they
\* write, whatever others write, except that a change another agent makes between the read
\* and the write back of the same part is undone (register.py:490); and True means that
\* every instance of the register was written, or that its device is absent and unchecked.
WritesExact ==
  Idle /\ ~clobbered
    => /\ cells = ref
       /\ (ret = "ok" /\ call.op \in Writes /\ kind # "absent")
            => written = (IF call.op \in All THEN Used ELSE {CellOf(call.arg)}) \X {1, 2}

\* An undisturbed read returns the field of the instance, or of every instance in order.
ReadsExact ==
  (Idle /\ others = 0 /\ ret = "ok" /\ call.op \in Ops \ Writes)
    => vals = [i \in DOMAIN Targets(call) |->
                 get_field(Whole(cells[CellOf(Targets(call)[i])]), call.field)]
=============================================================================
