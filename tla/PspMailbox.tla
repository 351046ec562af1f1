----------------------------- MODULE PspMailbox -----------------------------
(***************************************************************************)
(* chipsec/hal/psp.py: psp_mbox_command.                The host polls for *)
(* the mailbox, lends the PSP a buffer, sends the command, polls for the    *)
(* answer, reads and frees the buffer.  Both polls give up after TIMEOUT    *)
(* seconds; the second one then frees the buffer the PSP still has.         *)
(* Buffers the host has freed may be taken by the operating system.         *)
(***************************************************************************)
EXTENDS Integers

CONSTANTS Buffers,    \* physical memory alloc_phys_mem may return
          MaxCalls    \* bound on the number of commands

VARIABLES
  pc,        \* where psp_mbox_command is
  calls,     \* history: commands so far; the answer to command n is n
  buf,       \* buf_va / buf_pa
  buffer,    \* what the call returned
  owner,     \* of every buffer: "free", "host" or "os"
  content,   \* of every buffer: the answer it holds, 0 for anything else
  lo, hi,    \* mailbox: MBOX_CMD_BUF_LO and _HI, each telling the buffer
  ready,     \* mailbox: bit 31 of MBOX_CMD_STATUS
  job,       \* PSP: the command it works on, 0 for none
  gaveUp,    \* history: a poll for completion has timed out
  stray      \* history: the PSP has written to memory that was no longer lent

vars == <<pc, calls, buf, buffer, owner, content, lo, hi, ready, job, gaveUp, stray>>

BadBad == -1
None == "none"
Idle == pc = "idle"
-----------------------------------------------------------------------------
Begin ==
  /\ Idle /\ calls < MaxCalls
  /\ pc' = "poll" /\ calls' = calls + 1 /\ buffer' = 0
  /\ UNCHANGED <<buf, owner, content, lo, hi, ready, job, gaveUp, stray>>

\* Mutant of PollReady: the command is sent without looking at the mailbox.
PollNothing(timeout) ==
  /\ pc = "poll" /\ pc' = "alloc"
  /\ UNCHANGED <<calls, buf, buffer, owner, content, lo, hi, ready, job, gaveUp, stray>>

\* Poll for the mailbox to be ready; the clock is read after the status, and wins.
PollReady(timeout) ==
  /\ pc = "poll"
  /\ \/ timeout /\ pc' = "idle" /\ buffer' = BadBad
     \/ ~timeout /\ ready /\ pc' = "alloc" /\ UNCHANGED buffer
  /\ UNCHANGED <<calls, buf, owner, content, lo, hi, ready, job, gaveUp, stray>>

Alloc(b) ==
  /\ pc = "alloc" /\ owner[b] = "free"
  /\ pc' = "lo" /\ buf' = b /\ owner' = [owner EXCEPT ![b] = "host"]
  /\ content' = [content EXCEPT ![b] = 0]
  /\ UNCHANGED <<calls, buffer, lo, hi, ready, job, gaveUp, stray>>

WriteLo ==
  /\ pc = "lo" /\ pc' = "hi" /\ lo' = buf
  /\ UNCHANGED <<calls, buf, buffer, owner, content, hi, ready, job, gaveUp, stray>>

WriteHi ==
  /\ pc = "hi" /\ pc' = "send" /\ hi' = buf
  /\ UNCHANGED <<calls, buf, buffer, owner, content, lo, ready, job, gaveUp, stray>>

\* The command word has bit 31 clear; a PSP at work does not look at it.
Send ==
  /\ pc = "send" /\ pc' = "done" /\ ready' = FALSE
  /\ job' = IF job = 0 THEN calls ELSE job
  /\ UNCHANGED <<calls, buf, buffer, owner, content, lo, hi, gaveUp, stray>>

\* Poll for the answer; a time-out frees the buffer.
PollDone(timeout) ==
  /\ pc = "done"
  /\ \/ /\ timeout /\ pc' = "idle" /\ buffer' = BadBad /\ gaveUp' = TRUE
        /\ owner' = [owner EXCEPT ![buf] = "free"]
     \/ ~timeout /\ ready /\ pc' = "read" /\ UNCHANGED <<buffer, gaveUp, owner>>
  /\ UNCHANGED <<calls, buf, content, lo, hi, ready, job, stray>>

\* read_phys_mem of every dword, then free_phys_mem
ReadBuffer ==
  /\ pc = "read" /\ pc' = "idle" /\ buffer' = content[buf]
  /\ owner' = [owner EXCEPT ![buf] = "free"]
  /\ UNCHANGED <<calls, buf, content, lo, hi, ready, job, gaveUp, stray>>
-----------------------------------------------------------------------------
\* The PSP writes its answer where lo and hi point and sets the ready bit.
PspAnswers ==
  /\ job # 0 /\ lo = hi
  /\ content' = [content EXCEPT ![lo] = job]
  /\ stray' = (stray \/ owner[lo] # "host")
  /\ job' = 0 /\ ready' = TRUE
  /\ UNCHANGED <<pc, calls, buf, buffer, owner, lo, hi, gaveUp>>

\* The operating system takes a free page, never the last one, and gives it back.
OsTakes(b) ==
  /\ owner[b] = "free" /\ \E c \in Buffers \ {b} : owner[c] = "free"
  /\ owner' = [owner EXCEPT ![b] = "os"] /\ content' = [content EXCEPT ![b] = 0]
  /\ UNCHANGED <<pc, calls, buf, buffer, lo, hi, ready, job, gaveUp, stray>>

OsFrees(b) ==
  /\ owner[b] = "os" /\ owner' = [owner EXCEPT ![b] = "free"]
  /\ UNCHANGED <<pc, calls, buf, buffer, content, lo, hi, ready, job, gaveUp, stray>>
-----------------------------------------------------------------------------
Init ==
  /\ pc = "idle" /\ calls = 0 /\ buffer = 0 /\ ready = TRUE /\ job = 0
  /\ buf = (CHOOSE b \in Buffers : TRUE) /\ lo = buf /\ hi = buf
  /\ owner = [b \in Buffers |-> "free"] /\ content = [b \in Buffers |-> 0]
  /\ gaveUp = FALSE /\ stray = FALSE

Host == \/ \E t \in BOOLEAN : PollReady(t) \/ PollDone(t)
        \/ \E b \in Buffers : Alloc(b)
        \/ WriteLo \/ WriteHi \/ Send \/ ReadBuffer

Next == Begin \/ Host \/ PspAnswers \/ \E b \in Buffers : OsTakes(b) \/ OsFrees(b)

TypeOK ==
  /\ pc \in {"idle", "poll", "alloc", "lo", "hi", "send", "done", "read"}
  /\ calls \in 0 .. MaxCalls /\ {buf, lo, hi} \subseteq Buffers
  /\ buffer \in -1 .. MaxCalls /\ job \in 0 .. MaxCalls
  /\ owner \in [Buffers -> {"free", "host", "os"}] /\ content \in [Buffers -> 0 .. MaxCalls]
  /\ {ready, gaveUp, stray} \subseteq BOOLEAN

\* A buffer that is returned holds the PSP's answer to this very command, also after
\* commands that were given up while the PSP went on working on them.
AnswerGenuine == Idle /\ calls > 0 => buffer \in {BadBad, calls}

\* The PSP writes to memory that is no longer lent to it only after a command was given up
\* (psp.py:96 frees the buffer without withdrawing it); and no call leaves a buffer behind.
OnlyGivenUpBuffersAreHit ==
  /\ stray => gaveUp
  /\ Idle => \A b \in Buffers : owner[b] # "host"

\* Every command returns, whatever the PSP does.
Returns == ~Idle ~> Idle
=============================================================================
