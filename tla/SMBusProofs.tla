---------------------------- MODULE SMBusProofs ----------------------------
(***************************************************************************)
(* Proofs about SMBus: what a wait that ended on INTR says of the byte,     *)
(* for any devices, offsets, calls and SMBUS_POLL_COUNT.  DevicesProofs     *)
(* takes the invariant over for Devices.                                    *)
(***************************************************************************)
EXTENDS SMBus, TLAPS

\* The registers, the devices and the position in the call have their types.
Types ==
  /\ Parameters
  /\ start \in BOOLEAN /\ busy \in BOOLEAN /\ intr \in BOOLEAN
  /\ txn \in Access
  /\ slva \in [rw : {"read", "write"}, dev : Devices]
  /\ cmd \in Offsets /\ d0 \in Bytes
  /\ mem \in [Present -> [Offsets -> Bytes]]
  /\ plan \in Plans /\ i \in 1 .. Len(plan)
  /\ pc \in {"idle", "clear", "slva", "cmd", "d0", "start", "poll", "data", "done"}
  /\ pc = "data" => Acc.rw = "read"
  /\ pc = "d0" => Acc.rw = "write"

\* The controller has nothing to do and reports nothing.
Quiet == ~start /\ ~busy /\ ~intr

\* The transaction of the access at hand has been done.
Effect == IF Acc.rw = "read" THEN d0 = mem[Acc.dev][Acc.off]
                             ELSE mem[Acc.dev][Acc.off] = Acc.val

\* HST_SLVA, HST_CMD and, for a write, HST_D0 describe the access at hand.
Programmed == /\ slva = [rw |-> Acc.rw, dev |-> Acc.dev] /\ cmd = Acc.off
              /\ Acc.rw = "write" => d0 = Acc.val

\* An access that began with the controller idle: until START the controller stays
\* quiet; from then on what it has to do, does or has done is this access.
CleanInv ==
  clean =>
    /\ pc \in {"slva", "cmd", "d0", "start"} => Quiet
    /\ pc \in {"cmd", "d0", "start"} => slva = [rw |-> Acc.rw, dev |-> Acc.dev]
    /\ pc \in {"d0", "start"} => cmd = Acc.off
    /\ pc = "start" /\ Acc.rw = "write" => d0 = Acc.val
    /\ pc = "poll" => /\ own
                      /\ start => ~busy /\ ~intr /\ Programmed
                      /\ busy => /\ ~start /\ ~intr /\ txn.rw = Acc.rw /\ txn.dev = Acc.dev
                                 /\ txn.off = Acc.off
                                 /\ Acc.rw = "write" => txn.val = Acc.val
                      /\ intr => ended /\ Effect
    /\ pc \in {"data", "done"} /\ sawIntr => ~start /\ ~busy /\ ended /\ Effect

IInv == Types /\ CleanInv

\* The access at hand is one of the call.
LEMMA AccType == Types => Acc \in Access
<1> SUFFICES ASSUME Types PROVE plan[i] \in Access
  BY DEF Acc
<1>1. plan \in Seq(Access) /\ i \in 1 .. Len(plan)
  BY DEF Types, Parameters
<1> HIDE DEF Access
<1> QED
  BY <1>1

\* A call is made of at least one access.
LEMMA PlanType == ASSUME Parameters, NEW p \in Plans
                  PROVE  p \in Seq(Access) /\ Len(p) \in Nat /\ 1 \in 1 .. Len(p)
<1>1. p \in Seq(Access) /\ p # <<>>
  BY DEF Parameters
<1> HIDE DEF Access
<1> QED
  BY <1>1

\* The controller starts idle, with the registers at their first values.
LEMMA InitIInv == ASSUME Parameters, Init PROVE IInv
<1>1. plan \in Seq(Access) /\ i \in 1 .. Len(plan)
  BY PlanType DEF Init
<1>2. plan[i] \in Access
  <2> HIDE DEF Access
  <2> QED
    BY <1>1
<1>3. Devices # {}
  BY <1>2 DEF Access
<1> DEFINE d == CHOOSE x \in Devices : TRUE
<1>4. d \in Devices
  BY <1>3
<1>5. /\ start = FALSE /\ busy = FALSE /\ intr \in BOOLEAN
      /\ txn = [rw |-> "read", dev |-> d, off |-> TypeOffset, val |-> FF]
      /\ slva = [rw |-> "read", dev |-> d]
      /\ cmd = TypeOffset /\ d0 = FF /\ mem \in [Present -> [Offsets -> Bytes]]
      /\ pc = "idle" /\ plan \in Plans /\ clean = FALSE
  BY DEF Init
<1> HIDE DEF d
<1>6. FF \in Bytes /\ TypeOffset \in Offsets
  BY DEF Parameters
<1> QED
  BY <1>1, <1>4, <1>5, <1>6 DEF IInv, Types, CleanInv, Access

\* Going on to the next access, or returning.
LEMMA AdvanceTypes ==
  ASSUME Types, Advance, UNCHANGED plan
  PROVE  i' \in 1 .. Len(plan') /\ pc' \in {"clear", "idle"}
<1>1. plan \in Plans /\ i \in 1 .. Len(plan)
  BY DEF Types
<1>2. Len(plan) \in Nat
  BY <1>1, PlanType DEF Types
<1> QED
  BY <1>1, <1>2 DEF Advance

\* The host's steps before START, which change no status bit.
LEMMA ProgramSteps ==
  ASSUME IInv, WriteSlva \/ WriteCmd \/ WriteD0
  PROVE  IInv'
<1>1. Acc \in Access /\ Acc' = Acc
  BY AccType DEF IInv, WriteSlva, WriteCmd, WriteD0, callVars, Acc
<1>2. Acc.rw \in {"read", "write"} /\ Acc.dev \in Devices /\ Acc.off \in Offsets /\ Acc.val \in Bytes
  BY <1>1 DEF Access
<1>3. Types'
  BY <1>1, <1>2 DEF IInv, Types, WriteSlva, WriteCmd, WriteD0, callVars
<1>4. CleanInv'
  BY <1>1, <1>2 DEF IInv, CleanInv, Quiet, WriteSlva, WriteCmd, WriteD0, callVars, history
<1> QED
  BY <1>3, <1>4 DEF IInv

\* Clearing the status bits before the access.
LEMMA ClearStep ==
  ASSUME IInv, ClearStatus
  PROVE  IInv'
<1>1. Acc' = Acc
  BY DEF ClearStatus, callVars, Acc
<1>2. Types'
  BY <1>1 DEF IInv, Types, ClearStatus, callVars
<1>3. CleanInv'
  BY DEF IInv, Types, CleanInv, Quiet, ClearStatus
<1> QED
  BY <1>2, <1>3 DEF IInv

\* START: a quiet controller takes it.
LEMMA StartStep ==
  ASSUME IInv, Start
  PROVE  IInv'
<1>1. Acc' = Acc
  BY DEF Start, callVars, Acc
<1>2. Types'
  BY <1>1 DEF IInv, Types, Start, callVars
<1>3. CleanInv'
  BY <1>1 DEF IInv, CleanInv, Quiet, Programmed, Start, callVars
<1> QED
  BY <1>2, <1>3 DEF IInv

\* The wait: it goes on, or ends on INTR, on an error or on its last turn.
LEMMA PollStep ==
  ASSUME IInv, Poll
  PROVE  IInv'
<1>1. /\ pc = "poll" /\ UNCHANGED <<start, busy, intr, err, txn, slva, cmd, d0, mem>>
      /\ UNCHANGED <<plan, clean, own, ended>>
      /\ sawIntr' = (~busy /\ intr)
      /\ \/ WaitReturns(TRUE) /\ ~busy /\ intr
         \/ WaitReturns(FALSE) /\ ~sawIntr'
         \/ WaitReturns(~busy) /\ ~sawIntr'
         \/ UNCHANGED <<pc, i, buf>>
  BY DEF Poll, ctlVars
<1>2. Acc \in Access /\ i \in 1 .. Len(plan)
  BY AccType DEF IInv, Types
<1>3. ASSUME NEW b \in BOOLEAN, WaitReturns(b)
      PROVE  \/ /\ UNCHANGED <<i, buf>>
                /\ pc' = (IF Acc.rw = "read" THEN "data" ELSE "done")
             \/ i' \in 1 .. Len(plan') /\ pc' \in {"clear", "idle"} /\ ~b
  <2>1. Advance => i' \in 1 .. Len(plan') /\ pc' \in {"clear", "idle"}
    BY <1>1, AdvanceTypes DEF IInv
  <2> QED
    BY <1>3, <2>1 DEF WaitReturns, Returns
<1>4. \/ UNCHANGED <<pc, i, buf>>
      \/ /\ UNCHANGED <<i, buf>>
         /\ pc' = (IF Acc.rw = "read" THEN "data" ELSE "done")
         /\ sawIntr' => ~busy /\ intr
      \/ i' \in 1 .. Len(plan') /\ pc' \in {"clear", "idle"}
  <2>1. (~busy) \in BOOLEAN
    BY DEF IInv, Types
  <2> QED
    BY <1>1, <1>3, <2>1
<1>5. CASE UNCHANGED <<pc, i, buf>>
  <2>1. Acc' = Acc
    BY <1>1, <1>5 DEF Acc
  <2>2. Types'
    BY <1>1, <1>5, <2>1 DEF IInv, Types
  <2>3. CleanInv'
    BY <1>1, <1>5, <2>1 DEF IInv, CleanInv, Programmed, Effect
  <2> QED
    BY <2>2, <2>3 DEF IInv
<1>6. CASE /\ UNCHANGED <<i, buf>>
           /\ pc' = (IF Acc.rw = "read" THEN "data" ELSE "done")
           /\ sawIntr' => ~busy /\ intr
  <2>1. Acc' = Acc
    BY <1>1, <1>6 DEF Acc
  <2>2. Types'
    BY <1>1, <1>6, <2>1 DEF IInv, Types
  <2>3. CleanInv'
    BY <1>1, <1>6, <2>1 DEF IInv, CleanInv, Effect
  <2> QED
    BY <2>2, <2>3 DEF IInv
<1>7. CASE i' \in 1 .. Len(plan') /\ pc' \in {"clear", "idle"}
  <2>1. Types'
    BY <1>1, <1>7 DEF IInv, Types
  <2>2. CleanInv'
    BY <1>7 DEF CleanInv
  <2> QED
    BY <2>1, <2>2 DEF IInv
<1> QED
  BY <1>4, <1>5, <1>6, <1>7

\* Taking the byte, and clearing the status bits after the access.
LEMMA EndSteps ==
  ASSUME IInv, ReadD0 \/ ClearAfter
  PROVE  IInv'
<1>1. CASE ReadD0
  <2>1. Acc' = Acc
    BY <1>1 DEF ReadD0, Acc
  <2>2. Types'
    BY <1>1, <2>1 DEF IInv, Types, ReadD0, ctlVars
  <2>3. CleanInv'
    BY <1>1, <2>1 DEF IInv, CleanInv, Effect, ReadD0, ctlVars, history
  <2> QED
    BY <2>2, <2>3 DEF IInv
<1>2. CASE ClearAfter
  <2>1. i' \in 1 .. Len(plan') /\ pc' \in {"clear", "idle"}
    BY <1>2, AdvanceTypes DEF IInv, ClearAfter, Returns
  <2>2. Types'
    BY <1>2, <2>1 DEF IInv, Types, ClearAfter
  <2>3. CleanInv'
    BY <2>1 DEF CleanInv
  <2> QED
    BY <2>2, <2>3 DEF IInv
<1> QED
  BY <1>1, <1>2

\* The controller takes up the transaction that was programmed.
LEMMA BeginsStep ==
  ASSUME IInv, Begins
  PROVE  IInv'
<1>1. Acc' = Acc
  BY DEF Begins, callVars, Acc
<1>2. Types'
  BY <1>1 DEF IInv, Types, Access, Begins, callVars
<1>3. CleanInv'
  BY <1>1 DEF IInv, CleanInv, Quiet, Programmed, Effect, Begins, history
<1> QED
  BY <1>2, <1>3 DEF IInv

\* The controller ends a transaction without having done it.
LEMMA FailsStep ==
  ASSUME IInv, Fails
  PROVE  IInv'
<1>1. Acc' = Acc
  BY DEF Fails, callVars, Acc
<1>2. Types'
  BY <1>1 DEF IInv, Types, Fails, callVars
<1>3. CleanInv'
  BY <1>1 DEF IInv, CleanInv, Quiet, Programmed, Effect, Fails, history
<1> QED
  BY <1>2, <1>3 DEF IInv

\* The controller does a transaction: if it is that of a clean access, the byte is
\* read or written where the access asked.
LEMMA CompletesStep ==
  ASSUME IInv, Completes
  PROVE  IInv'
<1>1. Acc' = Acc /\ Acc \in Access
  BY AccType DEF IInv, Completes, callVars, Acc
<1>2. Acc.rw \in {"read", "write"} /\ Acc.dev \in Devices /\ Acc.off \in Offsets /\ Acc.val \in Bytes
  BY <1>1 DEF Access
<1>3. /\ txn.rw \in {"read", "write"} /\ txn.dev \in Devices /\ txn.off \in Offsets
      /\ txn.val \in Bytes /\ mem \in [Present -> [Offsets -> Bytes]]
  BY DEF IInv, Types, Access
<1>4. mem' \in [Present -> [Offsets -> Bytes]] /\ d0' \in Bytes
  BY <1>3 DEF IInv, Types, Completes
<1>5. Types'
  BY <1>1, <1>4 DEF IInv, Types, Completes, callVars
<1>6. CASE pc = "poll" /\ clean
  <2>1. /\ own /\ ~start /\ txn.rw = Acc.rw /\ txn.dev = Acc.dev /\ txn.off = Acc.off
        /\ Acc.rw = "write" => txn.val = Acc.val
    BY <1>6 DEF IInv, CleanInv, Completes
  <2>2. /\ Acc.rw = "read" => d0' = mem'[Acc.dev][Acc.off]
        /\ Acc.rw = "write" => mem'[Acc.dev][Acc.off] = Acc.val
    BY <2>1, <1>2, <1>3 DEF Completes
  <2>3. Effect'
    BY <2>2, <1>1, <1>2 DEF Effect
  <2> QED
    BY <2>1, <2>3, <1>5, <1>6 DEF IInv, CleanInv, Completes, history
<1>7. CASE pc # "poll" /\ clean
  <2>1. pc \notin {"slva", "cmd", "d0", "start"} /\ ~(pc \in {"data", "done"} /\ sawIntr)
    BY <1>7 DEF IInv, CleanInv, Quiet, Completes
  <2> QED
    BY <2>1, <1>5, <1>7 DEF IInv, CleanInv, Completes, history
<1>8. CASE ~clean
  BY <1>5, <1>8 DEF IInv, CleanInv, Completes, history
<1> QED
  BY <1>6, <1>7, <1>8

\* A new call.
LEMMA CallStep ==
  ASSUME IInv, NEW p \in Plans, Call(p)
  PROVE  IInv'
<1>1. 1 \in 1 .. Len(p)
  BY PlanType DEF IInv, Types
<1>2. Types'
  BY <1>1 DEF IInv, Types, Call, ctlVars
<1>3. CleanInv'
  BY DEF CleanInv, Call
<1> QED
  BY <1>2, <1>3 DEF IInv

\* The invariant is inductive, whenever the controller takes its steps.
LEMMA StepIInv == ASSUME IInv, [Next]_vars PROVE IInv'
<1>1. CASE HostStep
  BY <1>1, ClearStep, ProgramSteps, StartStep, PollStep, EndSteps DEF HostStep
<1>2. CASE Begins \/ Completes \/ Fails
  BY <1>2, BeginsStep, CompletesStep, FailsStep
<1>3. CASE \E p \in Plans : Call(p)
  BY <1>3, CallStep
<1>4. CASE UNCHANGED vars
  <2>1. Acc' = Acc
    BY <1>4 DEF vars, callVars, Acc
  <2>2. Types'
    BY <1>4, <2>1 DEF IInv, Types, vars, ctlVars, callVars
  <2>3. CleanInv'
    BY <1>4, <2>1 DEF IInv, CleanInv, Quiet, Programmed, Effect, vars, ctlVars, callVars, history
  <2> QED
    BY <2>2, <2>3 DEF IInv
<1> QED
  BY <1>1, <1>2, <1>3, <1>4 DEF Next

\* What the invariant says of a wait that ended on INTR after a clean start.
LEMMA IInvGenuine == IInv => ReadIsGenuine /\ WriteIsDone
<1>1. IInv => ReadIsGenuine
  BY DEF IInv, Types, CleanInv, Effect, ReadIsGenuine
<1>2. IInv => WriteIsDone
  BY DEF IInv, CleanInv, Effect, WriteIsDone
<1> QED
  BY <1>1, <1>2
=============================================================================
