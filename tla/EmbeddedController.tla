------------------------- MODULE EmbeddedController -------------------------
(***************************************************************************)
(* chipsec/hal/ec.py: byte and range accesses to the memory of the embedded *)
(* controller through its command and data ports.  A call is a sequence of  *)
(* port accesses (todo), each preceded by a wait for the input buffer to    *)
(* empty or the output buffer to fill.  The waits give up after MaxPolls    *)
(* polls and report success all the same.  The controller takes bytes and   *)
(* answers in steps of its own, and the ACPI driver of the operating system *)
(* may use it between any two accesses.                                     *)
(***************************************************************************)
EXTENDS Integers, Sequences

CONSTANTS Offsets,    \* offsets of the ACPI memory: 0 .. n
          Bytes,
          MaxPolls    \* 1000 in the code

VARIABLES
  todo,       \* port accesses the call has still to make
  polls,      \* "to" of the wait under way; -1: the wait is over
  call,       \* the call
  got,        \* bytes read by the call
  late,       \* history: some wait was given up
  disturbed,  \* history: the driver used the controller during this call
  want,       \* history: what the calls have written
  ibf, obf,   \* EC_STS_IBF, EC_STS_OBF
  inp, outp,  \* input and output buffer
  cmd,        \* controller: command and bytes received so far
  mem         \* controller: its memory

hostVars == <<todo, polls, call, got, late, disturbed, want>>
ecVars   == <<ibf, obf, inp, outp, cmd, mem>>
vars     == <<hostVars, ecVars>>

Unknown == -1
READ == 128   \* EC_COMMAND_ACPI_READ
WRITE == 129  \* EC_COMMAND_ACPI_WRITE
-----------------------------------------------------------------------------
(***************************************************************************)
(* The calls.                                                              *)
(***************************************************************************)
Cmd(c)  == [port |-> "command", byte |-> c]
Data(b) == [port |-> "data", byte |-> b]
In      == [port |-> "in", byte |-> 0]

read_memory(o)     == <<Cmd(READ), Data(o), In>>
write_memory(o, b) == <<Cmd(WRITE), Data(o), Data(b)>>

\* A call is a read or a write of one offset or of the two from it on.
Calls == [op : {"read"}, at : Offsets, n : {1}, bytes : {<<>>}]
           \cup [op : {"read"}, at : {o \in Offsets : o + 1 \in Offsets}, n : {2}, bytes : {<<>>}]
           \cup [op : {"write"}, at : Offsets, n : {1}, bytes : [1 .. 1 -> Bytes]]
           \cup [op : {"write"}, at : {o \in Offsets : o + 1 \in Offsets}, n : {2},
                 bytes : [1 .. 2 -> Bytes]]

\* read_range and write_range go byte by byte.
Script(c) ==
  LET One(i) == IF c.op = "read" THEN read_memory(c.at + i - 1)
                                 ELSE write_memory(c.at + i - 1, c.bytes[i])
  IN  IF c.n = 1 THEN One(1) ELSE One(1) \o One(2)

Idle == todo = <<>>

Begin(c) ==
  /\ Idle
  /\ call' = c /\ todo' = Script(c) /\ polls' = MaxPolls /\ got' = <<>> /\ disturbed' = FALSE
  /\ UNCHANGED <<late, want, ecVars>>

Ready == IF Head(todo).port = "in" THEN obf ELSE ~ibf

\* Mutant of Poll: the wait for the input buffer ends at once.
PollOutputOnly ==
  /\ ~Idle /\ polls >= 0
  /\ polls' = IF Head(todo).port # "in" \/ Ready \/ polls = 0 THEN -1 ELSE polls - 1
  /\ late' = (late \/ (Head(todo).port = "in" /\ ~Ready /\ polls = 0))
  /\ UNCHANGED <<todo, call, got, disturbed, want, ecVars>>

\* Mutant of Poll: the wait has no limit.
PollForever ==
  /\ ~Idle /\ polls >= 0
  /\ polls' = IF Ready THEN -1 ELSE polls
  /\ UNCHANGED <<todo, call, got, late, disturbed, want, ecVars>>

\* One read of the status port in _wait_ec_inbuf_empty or _wait_ec_outbuf_full.  When the
\* polls have run out the wait is over as well.
Poll ==
  /\ ~Idle /\ polls >= 0
  /\ polls' = IF Ready \/ polls = 0 THEN -1 ELSE polls - 1
  /\ late' = (late \/ (~Ready /\ polls = 0))
  /\ UNCHANGED <<todo, call, got, disturbed, want, ecVars>>

\* What the caller may expect in memory once its last byte is out.
Expected ==
  [o \in Offsets |->
     IF call.op = "read" \/ o < call.at \/ o >= call.at + call.n THEN want[o]
     ELSE IF disturbed \/ late THEN Unknown ELSE call.bytes[o - call.at + 1]]

\* write_command, write_data: the byte goes to the port, over one not yet taken.
PortWrite ==
  /\ ~Idle /\ polls = -1 /\ Head(todo).port # "in"
  /\ ibf' = TRUE /\ inp' = Head(todo)
  /\ todo' = Tail(todo) /\ polls' = MaxPolls
  /\ want' = IF Len(todo) = 1 THEN Expected ELSE want
  /\ UNCHANGED <<call, got, late, disturbed, obf, outp, cmd, mem>>

\* read_data
PortRead ==
  /\ ~Idle /\ polls = -1 /\ Head(todo).port = "in"
  /\ obf' = FALSE /\ got' = Append(got, outp)
  /\ todo' = Tail(todo) /\ polls' = MaxPolls
  /\ UNCHANGED <<call, late, disturbed, want, ibf, inp, outp, cmd, mem>>
-----------------------------------------------------------------------------
(***************************************************************************)
(* The controller.                                                         *)
(***************************************************************************)

\* It takes the byte; a command starts anew, data without a command are dropped.
Takes ==
  /\ ibf /\ ibf' = FALSE
  /\ LET all == IF inp.port = "command" THEN <<inp.byte>>
                ELSE IF cmd = <<>> THEN <<>> ELSE Append(cmd, inp.byte)
     IN  /\ cmd' = IF Len(all) = 3 THEN <<>> ELSE all
         /\ mem' = IF Len(all) = 3 /\ all[1] = WRITE THEN [mem EXCEPT ![all[2]] = all[3]] ELSE mem
  /\ UNCHANGED <<hostVars, obf, inp, outp>>

\* It answers a read.
Answers ==
  /\ ~ibf /\ Len(cmd) = 2 /\ cmd[1] = READ
  /\ obf' = TRUE /\ outp' = mem[cmd[2]] /\ cmd' = <<>>
  /\ UNCHANGED <<hostVars, ibf, inp, mem>>

\* The ACPI driver completes a read of its own.
DriverUses ==
  /\ ~ibf
  /\ cmd' = <<>> /\ obf' = FALSE /\ disturbed' = (disturbed \/ ~Idle)
  /\ \E o \in Offsets : outp' = mem[o]
  /\ UNCHANGED <<todo, polls, call, got, late, want, ibf, inp, mem>>
-----------------------------------------------------------------------------
Init ==
  /\ todo = <<>> /\ polls = -1 /\ got = <<>> /\ late = FALSE /\ disturbed = FALSE
  /\ call = [op |-> "read", at |-> 0, n |-> 0, bytes |-> <<>>]
  /\ mem = [o \in Offsets |-> 0] /\ want = mem
  /\ ibf = FALSE /\ obf = FALSE /\ inp = In /\ outp = 0 /\ cmd = <<>>

Host == Poll \/ PortWrite \/ PortRead

Next == (\E c \in Calls : Begin(c)) \/ Host \/ Takes \/ Answers \/ DriverUses

TypeOK ==
  /\ todo \in Seq({Cmd(READ), Cmd(WRITE), In} \cup {Data(b) : b \in Offsets \cup Bytes})
  /\ polls \in -1 .. MaxPolls /\ Len(got) <= call.n
  /\ want \in [Offsets -> Bytes \cup {Unknown}] /\ mem \in [Offsets -> Bytes]
  /\ {ibf, obf, late, disturbed} \subseteq BOOLEAN /\ outp \in Bytes /\ Len(cmd) <= 2

\* A read that returned gives, byte for byte, what earlier calls wrote there, as long as no
\* wait was ever given up and the driver kept away during the calls: a write returns while
\* its last byte is still on its way, and the next call must not overtake it.
ReadYourWrites ==
  Idle /\ call.op = "read" /\ ~late /\ ~disturbed
    => /\ Len(got) = call.n
       /\ \A i \in 1 .. call.n : want[call.at + i - 1] \in {got[i], Unknown}

\* Every call returns, whatever the controller does.
Returns == ~Idle ~> Idle
=============================================================================
