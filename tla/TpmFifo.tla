------------------------------ MODULE TpmFifo ------------------------------
(***************************************************************************)
(* chipsec/hal/tpm.py: TPM.command over the FIFO interface.  The host asks  *)
(* for a locality, polls for commandReady, sends the command in bursts,     *)
(* starts it, polls for dataAvail, reads the header and the data in bursts  *)
(* and gives the locality back.  Nothing is polled with a limit, and the    *)
(* host never looks whether the locality was granted: without it, status    *)
(* and FIFO read as all ones and what is written is lost.  Another agent    *)
(* may hold the TPM when the command begins and let go at any time.         *)
(* A byte of a command or response is modelled by its position in it.       *)
(***************************************************************************)
EXTENDS Integers, Sequences

CONSTANTS Sizes,      \* sizes of commands; 0: the arguments were invalid (b'', 0)
          HeaderSize, \* HEADERSIZE
          MaxData,    \* most data bytes in a response
          MaxBurst    \* largest burst count announced

VARIABLES
  pc,           \* where TPM.command is
  phase,        \* "send", "header" or "data": what the bursts transfer
  size,         \* size of the command
  count,        \* bytes of the phase transferred
  burst,        \* burst_count - burst_index
  got,          \* header_blob + data_blob
  requestedUse, \* the local of that name
  granted,      \* history: the TPM was the host's at the first status read
  abandoned,    \* history: a command raised after its request, and none has returned since
  holder,       \* TPM: whose locality is active
  wanted,       \* TPM: requestUse of the host's locality is pending
  seized,       \* TPM: TPM_ACCESS reads as beenSeized alone
  state,        \* TPM: its state
  fifo,         \* TPM: bytes received
  rsp,          \* TPM: bytes of the response still to be read
  dsize         \* TPM: data bytes of the response

hostVars == <<pc, phase, size, count, burst, got, requestedUse, granted, abandoned>>
tpmVars  == <<holder, wanted, seized, state, fifo, rsp, dsize>>
vars     == <<hostVars, tpmVars>>

FF == 0                 \* what an inactive locality or an empty FIFO reads as
Bytes(m, n) == [i \in 1 .. (n - m + 1) |-> m + i - 1]
Mine == holder = "host"
-----------------------------------------------------------------------------
(***************************************************************************)
(* The host.                                                               *)
(***************************************************************************)
Idle == pc = "idle"

\* TPM.command up to _send_command: beenSeized makes it request the locality at once.
Begin(n) ==
  /\ Idle
  /\ pc' = "request" /\ phase' = "send" /\ size' = n /\ count' = 0 /\ burst' = 0 /\ got' = <<>>
  /\ granted' = FALSE /\ requestedUse' = seized
  /\ wanted' = (wanted \/ seized)
  /\ UNCHANGED <<abandoned, holder, seized, state, fifo, rsp, dsize>>

\* The command is not in COMMANDS, or its arguments cannot be converted: the exception leaves
\* TPM.command after the request.
BeginRaises ==
  /\ Idle
  /\ wanted' = (wanted \/ seized) /\ abandoned' = (abandoned \/ seized)
  /\ UNCHANGED <<pc, phase, size, count, burst, got, requestedUse, granted, holder, seized, state,
                 fifo, rsp, dsize>>

\* TPM_ACCESS <- requestUse
RequestUse ==
  /\ pc = "request" /\ pc' = "ready"
  /\ wanted' = ~Mine
  /\ UNCHANGED <<phase, size, count, burst, got, requestedUse, granted, abandoned, holder, seized,
                 state, fifo, rsp, dsize>>

\* Read the status; unless it says commandReady, write commandReady and read again.
CommandReady ==
  /\ pc = "ready"
  /\ granted' = (granted \/ Mine)
  /\ \/ /\ ~Mine \/ state = "ready"
        /\ pc' = IF size = 0 THEN "go" ELSE "burst"
        /\ UNCHANGED <<state, fifo, rsp>>
     \/ /\ Mine /\ state # "ready"
        /\ state' = "preparing" /\ fifo' = <<>> /\ rsp' = <<>>
        /\ UNCHANGED pc
  /\ UNCHANGED <<phase, size, count, burst, got, requestedUse, abandoned, holder, wanted, seized, dsize>>

\* The burst count of TPM_STS.
ReadBurst(b) ==
  /\ pc = "burst"
  /\ ~Mine => b = MaxBurst
  /\ Mine /\ state = "done" /\ rsp # <<>> => b <= Len(rsp)
  /\ burst' = b
  /\ pc' = IF b = 0 THEN "burst" ELSE "byte"
  /\ UNCHANGED <<phase, size, count, got, requestedUse, granted, abandoned, tpmVars>>

\* Mutant of Length: the size in the header is taken for the size of the data.
LengthOfAll ==
  CASE phase = "send" -> size [] phase = "header" -> HeaderSize [] OTHER -> HeaderSize + dsize

\* How many bytes the phase transfers: DataSize - HEADERSIZE for the data.
Length == CASE phase = "send" -> size [] phase = "header" -> HeaderSize [] OTHER -> dsize

\* After a byte: on with the burst, with the next one, or with what follows the phase.
Goes(after) ==
  /\ count' = count + 1 /\ burst' = burst - 1
  /\ pc' = IF count + 1 = Length THEN after ELSE IF burst = 1 THEN "burst" ELSE "byte"

\* Mutant of SendByte: the burst is filled whatever is left of the command.
SendWholeBurst ==
  /\ pc = "byte" /\ phase = "send"
  /\ fifo' = IF Mine /\ state = "ready" THEN Append(fifo, count + 1) ELSE fifo
  /\ count' = count + 1 /\ burst' = burst - 1
  /\ pc' = IF burst > 1 THEN "byte" ELSE IF count + 1 >= size THEN "go" ELSE "burst"
  /\ UNCHANGED <<phase, size, got, requestedUse, granted, abandoned, holder, wanted, seized, state, rsp,
                 dsize>>

SendByte ==
  /\ pc = "byte" /\ phase = "send"
  /\ fifo' = IF Mine /\ state = "ready" THEN Append(fifo, count + 1) ELSE fifo
  /\ Goes("go")
  /\ UNCHANGED <<phase, size, got, requestedUse, granted, abandoned, holder, wanted, seized, state, rsp,
                 dsize>>

\* TPM_STS <- tpmGo; a TPM that has not got the whole command ignores it.
TpmGo ==
  /\ pc = "go" /\ pc' = "avail"
  /\ state' = IF Mine /\ state = "ready" /\ Len(fifo) >= size /\ size > 0 THEN "executing" ELSE state
  /\ UNCHANGED <<phase, size, count, burst, got, requestedUse, granted, abandoned, holder, wanted,
                 seized, fifo, rsp, dsize>>

\* "watchdog?": poll until dataAvail.
DataAvail ==
  /\ pc = "avail"
  /\ ~Mine \/ state = "done"
  /\ pc' = "burst" /\ phase' = "header" /\ count' = 0
  /\ UNCHANGED <<size, burst, got, requestedUse, granted, abandoned, tpmVars>>

\* The header says how much data follow; an all-ones header has a nonzero return code.
AfterHeader == IF dsize > 0 /\ Append(got, IF Mine /\ rsp # <<>> THEN Head(rsp) ELSE FF)
                                 = Bytes(1, HeaderSize) THEN "data" ELSE "release"

ReadByte ==
  /\ pc = "byte" /\ phase # "send"
  /\ LET live == Mine /\ state = "done" /\ rsp # <<>>
     IN  /\ got' = Append(got, IF live THEN Head(rsp) ELSE FF)
         /\ rsp' = IF live THEN Tail(rsp) ELSE rsp
  /\ IF phase = "header" /\ count + 1 = HeaderSize /\ AfterHeader = "data"
       THEN phase' = "data" /\ count' = 0 /\ burst' = 0 /\ pc' = "burst"
       ELSE Goes("release") /\ UNCHANGED phase
  /\ UNCHANGED <<size, requestedUse, granted, abandoned, holder, wanted, seized, state, fifo, dsize>>

\* TPM_ACCESS <- beenSeized, if it was, and activeLocality: this also drops a request.
Release ==
  /\ pc = "release" /\ pc' = "idle"
  /\ seized' = (seized /\ ~requestedUse)
  /\ wanted' = FALSE /\ abandoned' = FALSE
  /\ holder' = IF Mine THEN "none" ELSE holder
  /\ state' = IF Mine THEN "idle" ELSE state
  /\ UNCHANGED <<phase, size, count, burst, got, requestedUse, granted, fifo, rsp, dsize>>
-----------------------------------------------------------------------------
(***************************************************************************)
(* The TPM and the other agent.                                            *)
(***************************************************************************)
Grants ==
  /\ wanted /\ holder = "none"
  /\ holder' = "host" /\ wanted' = FALSE
  /\ UNCHANGED <<hostVars, seized, state, fifo, rsp, dsize>>

OtherTakes ==
  /\ holder = "none" /\ ~wanted /\ Idle /\ holder' = "other"
  /\ UNCHANGED <<hostVars, wanted, seized, state, fifo, rsp, dsize>>

OtherLeaves ==
  /\ holder = "other" /\ holder' = "none" /\ state' = "idle"
  /\ \E s \in BOOLEAN : seized' = s
  /\ UNCHANGED <<hostVars, wanted, fifo, rsp, dsize>>

GetsReady ==
  /\ state = "preparing" /\ state' = "ready"
  /\ UNCHANGED <<hostVars, holder, wanted, seized, fifo, rsp, dsize>>

Executes(d) ==
  /\ state = "executing" /\ state' = "done"
  /\ dsize' = d /\ rsp' = Bytes(1, HeaderSize + d)
  /\ UNCHANGED <<hostVars, holder, wanted, seized, fifo>>
-----------------------------------------------------------------------------
Init ==
  /\ pc = "idle" /\ phase = "send" /\ size = 0 /\ count = 0 /\ burst = 0 /\ got = <<>>
  /\ requestedUse = FALSE /\ granted = FALSE /\ abandoned = FALSE
  /\ holder \in {"none", "other"} /\ wanted = FALSE /\ seized = FALSE
  /\ state = "idle" /\ fifo = <<>> /\ rsp = <<>> /\ dsize = 0

Host == RequestUse \/ CommandReady \/ SendByte \/ TpmGo \/ DataAvail \/ ReadByte \/ Release
Tpm  == Grants \/ GetsReady \/ \E d \in 0 .. MaxData : Executes(d)

Next == \/ \E n \in Sizes : Begin(n)
        \/ BeginRaises
        \/ \E b \in 0 .. MaxBurst : ReadBurst(b)
        \/ Host \/ Tpm \/ OtherTakes \/ OtherLeaves

TypeOK ==
  /\ pc \in {"idle", "request", "ready", "burst", "byte", "go", "avail", "release"}
  /\ phase \in {"send", "header", "data"} /\ size \in Sizes \cup {0}
  /\ count \in Nat /\ burst \in 0 .. MaxBurst
  /\ holder \in {"none", "host", "other"}
  /\ state \in {"idle", "preparing", "ready", "executing", "done"}
  /\ {requestedUse, granted, abandoned, wanted, seized} \subseteq BOOLEAN
  /\ (\E n \in Sizes : Len(fifo) <= n)

\* A command whose locality was active from the first status read on has put exactly its
\* bytes into the TPM, and what it returns is the whole response, no byte missing, repeated
\* or added, however the bursts fall.
ResponseGenuine ==
  Idle /\ granted /\ size > 0
    => fifo = Bytes(1, size) /\ got = Bytes(1, HeaderSize + dsize)

\* A command that has returned holds neither the locality nor a request for it, not even one that
\* an earlier command left behind when it raised (tpm.py:229).
LocalityReleased == Idle /\ ~abandoned => ~Mine /\ ~wanted

\* A command with a locality of its own and something to send returns, if the TPM gets
\* ready, executes and grants bursts in the end.  An empty command, or a locality granted
\* in the middle of one, can leave it polling dataAvail for good.
Returns == (granted /\ size > 0) ~> Idle
=============================================================================
