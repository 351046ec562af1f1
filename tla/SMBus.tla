------------------------------- MODULE SMBus -------------------------------
(***************************************************************************)
(* SMBus transactions: class SMBus of chipsec/hal/smbus.py and its client   *)
(* SPD of chipsec/hal/spd.py.  The host takes one step per register access; *)
(* the host controller (external) begins and ends a transaction on its own, *)
(* possibly after the host has stopped waiting for it.  A part of Devices.  *)
(***************************************************************************)
EXTENDS Integers, Sequences

CONSTANTS Devices,    \* SMBus addresses that are asked (SPD_DIMMS among them)
          Present,    \* those at which a device answers
          Offsets,    \* the offsets in a device
          TypeOffset, \* SPD_OFFSET_DRAM_DEVICE_TYPE
          Bytes,      \* values of a byte
          FF,         \* 0xFF
          PollCount,  \* SMBUS_POLL_COUNT
          Plans       \* the calls considered: sequences of byte transactions

\* read_range, write_range and SPD.detect come down to a sequence of byte accesses.
Access == [rw : {"read", "write"}, dev : Devices, off : Offsets, val : Bytes]

\* What the addresses, offsets, bytes and calls are.
Parameters ==
  /\ Present \subseteq Devices
  /\ FF \in Bytes
  /\ TypeOffset \in Offsets
  /\ PollCount \in Nat \ {0}
  /\ Plans \subseteq Seq(Access)
  /\ \A p \in Plans : p # <<>>

VARIABLES
  start,   \* HST_CNT.START is set and not yet acted on
  busy,    \* HST_STS.BUSY
  intr,    \* HST_STS.INTR: the transaction has completed
  err,     \* HST_STS.FAILED, DEV_ERR or BUS_ERR
  txn,     \* the transaction in progress
  slva,    \* HST_SLVA: direction and address
  cmd,     \* HST_CMD: the offset
  d0,      \* HST_D0
  mem,     \* what the devices that are there hold
  pc,      \* where the host is
  plan,    \* the byte accesses of the call
  i,       \* the one at hand
  polls,   \* loop counter of _wait_for_cycle
  buf,     \* the results: [value |-> byte] of a read, [done |-> ...] of a write
  clean,   \* history: the controller had nothing to do when this access began
  own,     \* history: the START of this access was accepted
  ended,   \* history: its transaction has completed
  sawIntr  \* history: the wait ended on INTR

ctlVars == <<start, busy, intr, err, txn, slva, cmd, d0, mem>>
callVars == <<plan, i, buf>>
history == <<clean, own, sawIntr>>
vars == <<ctlVars, pc, callVars, polls, history, ended>>
-----------------------------------------------------------------------------
(***************************************************************************)
(* The host controller (external).                                         *)
(***************************************************************************)

Begins ==
  /\ start /\ ~busy
  /\ start' = FALSE /\ busy' = TRUE
  /\ txn' = [rw |-> slva.rw, dev |-> slva.dev, off |-> cmd, val |-> d0]
  /\ UNCHANGED <<intr, err, slva, cmd, d0, mem, pc, callVars, polls, history, ended>>

Completes ==
  /\ busy /\ txn.dev \in Present
  /\ busy' = FALSE /\ intr' = TRUE
  /\ IF txn.rw = "read" THEN d0' = mem[txn.dev][txn.off] /\ UNCHANGED mem
                        ELSE mem' = [mem EXCEPT ![txn.dev][txn.off] = txn.val] /\ UNCHANGED d0
  /\ ended' = (ended \/ own)
  /\ UNCHANGED <<start, err, txn, slva, cmd, pc, callVars, polls, history>>

\* An unclaimed cycle, a collision, a device error.
Fails ==
  /\ busy
  /\ busy' = FALSE /\ err' = TRUE
  /\ UNCHANGED <<start, intr, txn, slva, cmd, d0, mem, pc, callVars, polls, history, ended>>
-----------------------------------------------------------------------------
(***************************************************************************)
(* The host.                                                               *)
(***************************************************************************)
Acc == plan[i]

\* read_byte, write_byte, read_range, write_range, SPD.detect are called.
Call(p) ==
  /\ pc = "idle"
  /\ plan' = p /\ i' = 1 /\ buf' = <<>> /\ pc' = "clear"
  /\ UNCHANGED <<ctlVars, polls, history, ended>>

\* Mutant of ClearStatus: the status bits are not cleared first.
KeepStatus ==
  /\ pc = "clear"
  /\ clean' = (~busy /\ ~start) /\ own' = FALSE /\ ended' = FALSE /\ sawIntr' = FALSE
  /\ pc' = "slva"
  /\ UNCHANGED <<ctlVars, callVars, polls>>

\* "clear status bits"
ClearStatus ==
  /\ pc = "clear"
  /\ intr' = FALSE /\ err' = FALSE
  /\ clean' = (~busy /\ ~start) /\ own' = FALSE /\ ended' = FALSE /\ sawIntr' = FALSE
  /\ pc' = "slva"
  /\ UNCHANGED <<start, busy, txn, slva, cmd, d0, mem, callVars, polls>>

\* Direction and target address.
WriteSlva ==
  /\ pc = "slva"
  /\ slva' = [rw |-> Acc.rw, dev |-> Acc.dev]
  /\ pc' = "cmd"
  /\ UNCHANGED <<start, busy, intr, err, txn, cmd, d0, mem, callVars, polls, history, ended>>

\* The offset.
WriteCmd ==
  /\ pc = "cmd"
  /\ cmd' = Acc.off
  /\ pc' = IF Acc.rw = "write" THEN "d0" ELSE "start"
  /\ UNCHANGED <<start, busy, intr, err, txn, slva, d0, mem, callVars, polls, history, ended>>

\* Mutant of WriteD0: the data register is not written.
WriteD0Skipped ==
  /\ pc = "d0" /\ pc' = "start"
  /\ UNCHANGED <<ctlVars, callVars, polls, history, ended>>

\* write_byte: "write the data"
WriteD0 ==
  /\ pc = "d0"
  /\ d0' = Acc.val
  /\ pc' = "start"
  /\ UNCHANGED <<start, busy, intr, err, txn, slva, cmd, mem, callVars, polls, history, ended>>

\* SMB_CMD and START; a controller with a transaction to do does not take another.
Start ==
  /\ pc = "start"
  /\ IF busy \/ start THEN UNCHANGED <<start, own>> ELSE start' = TRUE /\ own' = TRUE
  /\ pc' = "poll" /\ polls' = 0
  /\ UNCHANGED <<busy, intr, err, txn, slva, cmd, d0, mem, callVars, clean, sawIntr, ended>>

\* On to the next access, or return to the caller.
Advance == IF i < Len(plan) THEN i' = i + 1 /\ pc' = "clear" ELSE UNCHANGED i /\ pc' = "idle"

\* read_byte or write_byte returns r.
Returns(r) == buf' = Append(buf, r) /\ Advance

\* _wait_for_cycle returns done.
WaitReturns(done) ==
  IF done
    THEN pc' = (IF Acc.rw = "read" THEN "data" ELSE "done") /\ UNCHANGED <<i, buf>>
    ELSE Returns(IF Acc.rw = "read" THEN [value |-> FF] ELSE [done |-> FALSE])

\* One turn of its loop, or the last one and the return of 0 == busy.
Poll ==
  /\ pc = "poll"
  /\ sawIntr' = (~busy /\ intr)
  /\ IF ~busy /\ intr THEN WaitReturns(TRUE) /\ UNCHANGED polls
     ELSE IF err THEN WaitReturns(FALSE) /\ UNCHANGED polls
     ELSE IF polls + 1 = PollCount THEN WaitReturns(~busy) /\ UNCHANGED polls
     ELSE polls' = polls + 1 /\ UNCHANGED <<pc, i, buf>>
  /\ UNCHANGED <<ctlVars, plan, clean, own, ended>>

\* read_byte reads the data.
ReadD0 ==
  /\ pc = "data"
  /\ buf' = Append(buf, [value |-> d0]) /\ pc' = "done"
  /\ UNCHANGED <<ctlVars, plan, i, polls, history, ended>>

\* "clear status bits", and the byte access is over.
ClearAfter ==
  /\ pc = "done"
  /\ intr' = FALSE /\ err' = FALSE
  /\ IF Acc.rw = "read" THEN Advance /\ UNCHANGED buf ELSE Returns([done |-> TRUE])
  /\ UNCHANGED <<start, busy, txn, slva, cmd, d0, mem, plan, polls, history, ended>>
-----------------------------------------------------------------------------
Init ==
  /\ start = FALSE /\ busy = FALSE /\ intr \in BOOLEAN /\ err \in BOOLEAN
  /\ txn = [rw |-> "read", dev |-> CHOOSE d \in Devices : TRUE, off |-> TypeOffset, val |-> FF]
  /\ slva = [rw |-> "read", dev |-> CHOOSE d \in Devices : TRUE]
  /\ cmd = TypeOffset /\ d0 = FF
  /\ mem \in [Present -> [Offsets -> Bytes]]
  /\ pc = "idle" /\ plan \in Plans /\ i = 1 /\ polls = 0 /\ buf = <<>>
  /\ clean = FALSE /\ own = FALSE /\ ended = FALSE /\ sawIntr = FALSE

\* One state of a bus that nothing is done on.
Resting == ~intr /\ ~err /\ mem = [d \in Present |-> [o \in Offsets |-> FF]]
           /\ plan = CHOOSE p \in Plans : TRUE

HostStep == ClearStatus \/ WriteSlva \/ WriteCmd \/ WriteD0 \/ Start \/ Poll \/ ReadD0 \/ ClearAfter

Next == HostStep \/ Begins \/ Completes \/ Fails \/ \E p \in Plans : Call(p)
-----------------------------------------------------------------------------
(***************************************************************************)
(* Correctness.                                                            *)
(***************************************************************************)

\* When an access began with the controller idle and its wait ended on INTR, that is
\* the completion of its own transaction and never a left-over of an earlier one:
\* read_byte takes the byte of the device it asked.
ReadIsGenuine ==
  pc = "data" /\ clean /\ sawIntr => ended /\ d0 = mem[Acc.dev][Acc.off]

\* Under the same conditions write_byte returns True only when the device holds the byte.
WriteIsDone ==
  pc = "done" /\ Acc.rw = "write" /\ clean /\ sawIntr => mem[Acc.dev][Acc.off] = Acc.val

\* Every call returns, whatever the controller does: the polling is bounded.
CallsReturn == (pc # "idle") ~> (pc = "idle")
=============================================================================
