---------------------------- MODULE RecordReplay ----------------------------
(***************************************************************************)
(* RecordHelper (chipsec/helper/record/recordhelper.py) passes every call   *)
(* to another helper and keeps the answers as text in a JSON file;          *)
(* ReplayHelper (chipsec/helper/replay/replayhelper.py) answers from such a *)
(* file.  Each list of answers is built with insert(0, _) and consumed with *)
(* pop().  The two helpers live in different processes and share the file.  *)
(***************************************************************************)
EXTENDS Integers, Sequences

CONSTANTS Keys,      \* calls: a helper method and its arguments
          MemKeys,   \* the calls of read_phys_mem, which is replayed differently
          Kinds,     \* the kinds of outcome considered
          Payloads,  \* contents of answers, up to what the conversions tell apart
          MaxCalls   \* bound on the answers recorded for one call

Errors == {"chipsec error", "helper error", "builtin error"}

ASSUME KeysAssumption ==
  /\ MemKeys \subseteq Keys
  /\ MaxCalls \in Nat
  /\ Kinds \subseteq {"object", "bytes", "literal bytes"} \cup Errors

\* What a call of the recorded helper may end with: an object that str() and eval()
\* carry (int, tuple, None), bytes, bytes that happen to read as a Python literal, or
\* an exception: a chipsec one built from its message alone, an OsHelperError (two
\* arguments), a builtin one.
Outcomes == [kind : Kinds, v : Payloads]

\* Mutant of Encode: the object itself is kept, not its text.
EncodeNothing(o) == [form |-> o.kind, v |-> o.v]

\* _call_subhelper and _add_element: the text kept for an outcome.
Encode(o) == [form |-> CASE o.kind \in {"object", "literal bytes"} -> "literal"
                         [] o.kind = "bytes"                       -> "raw"
                         [] OTHER                                  -> o.kind,
              v    |-> o.v]

Texts == [form : {"literal", "raw"} \cup Errors, v : Payloads]

VARIABLES
  st,     \* the recorder: off, on, saving (the file is open for writing)
  data,   \* RecordHelper._data, by call
  file,   \* the JSON file: missing, torn (not JSON) or ok with its data
  readable, \* whether the two helpers may open it for reading
  rst,    \* the replayer: off or on
  play,   \* ReplayHelper._data
  reply   \* how the last call of the replayer ended

vars == <<st, data, file, readable, rst, play, reply>>

NoData == [k \in {} |-> <<>>]
NoFile == [state |-> "missing", data |-> NoData]
TornFile == [state |-> "torn", data |-> NoData]
NoReply == [how |-> "none"]
-----------------------------------------------------------------------------
\* Mutant of Added: append in place of insert(0, _).
AddedLast(d, k, t) == [x \in DOMAIN d \cup {k} |->
                         IF x # k THEN d[x] ELSE IF k \in DOMAIN d THEN Append(d[k], t) ELSE <<t>>]

\* _add_element: insert(0, ret), or a new list.
Added(d, k, t) == [x \in DOMAIN d \cup {k} |->
                     IF x # k THEN d[x] ELSE IF k \in DOMAIN d THEN <<t>> \o d[k] ELSE <<t>>]

\* _call_subhelper, for any of the helper's methods.
Call(k, o) ==
  /\ st = "on"
  /\ k \in DOMAIN data => Len(data[k]) < MaxCalls
  /\ data' = Added(data, k, Encode(o))
  /\ UNCHANGED <<st, file, readable, rst, play, reply>>

\* Mutant of StartRecord: _load is not called.
StartRecordAfresh ==
  /\ st \in {"off", "on"}
  /\ st' = "on"
  /\ UNCHANGED <<data, file, readable, rst, play, reply>>

\* RecordHelper._load as called by start: a file that cannot be read (read_file then
\* returns b'') or parsed counts as empty, a missing one leaves _data alone.
StartRecord ==
  /\ st \in {"off", "on"}
  /\ st' = "on"
  /\ data' = IF file.state = "missing" THEN data ELSE IF readable THEN file.data ELSE NoData
  /\ UNCHANGED <<file, readable, rst, play, reply>>

\* RecordHelper.stop: write_file opens the file, which empties it; when it cannot be
\* opened nothing is saved, and stop goes on.
StopRecord ==
  /\ st = "on"
  /\ \/ st' = "saving" /\ file' = TornFile
     \/ st' = "off" /\ UNCHANGED file
  /\ UNCHANGED <<data, readable, rst, play, reply>>

\* write_file writes and closes it.
Saved ==
  /\ st = "saving"
  /\ st' = "off"
  /\ file' = [state |-> "ok", data |-> data]
  /\ UNCHANGED <<data, readable, rst, play, reply>>

\* The recording process ends or dies; the next one starts with a new RecordHelper.
RecorderGone ==
  /\ st' = "off" /\ data' = NoData
  /\ UNCHANGED <<file, readable, rst, play, reply>>
-----------------------------------------------------------------------------
\* ReplayHelper.start: _load raises OsHelperError unless the file can be read and parsed.
StartReplay ==
  /\ IF readable /\ file.state = "ok"
       THEN rst' = "on" /\ play' = file.data /\ UNCHANGED reply
       ELSE reply' = NoReply /\ UNCHANGED <<rst, play>>
  /\ UNCHANGED <<st, data, file, readable>>

\* _get_element_eval, and for read_phys_mem stringtobytes alone: what the caller gets
\* for a text.  An OsHelperError cannot be built from its message (TypeError), a builtin
\* exception has no module to import (ValueError).
Decode(k, t) ==
  IF k \in MemKeys
    THEN [kind |-> IF t.form = "literal" THEN "literal bytes" ELSE "bytes", v |-> t.v]
    ELSE [kind |-> CASE t.form = "literal" -> "object"
                     [] t.form = "raw"     -> "bytes"
                     [] t.form = "chipsec error" -> "chipsec error"
                     [] OTHER              -> "builtin error",
          v    |-> t.v]

\* pop()
Popped(s) == [last |-> s[Len(s)], rest |-> SubSeq(s, 1, Len(s) - 1)]

\* _get_element: a call that was never recorded answers None, one whose answers have
\* run out raises IndexError.
ReplayCall(k) ==
  /\ rst = "on"
  /\ IF k \in DOMAIN play /\ play[k] # <<>>
       THEN /\ reply' = [how |-> "answer", text |-> Popped(play[k]).last,
                         got |-> Decode(k, Popped(play[k]).last)]
            /\ play' = [play EXCEPT ![k] = Popped(play[k]).rest]
       ELSE reply' = NoReply /\ UNCHANGED play
  /\ UNCHANGED <<st, data, file, readable, rst>>

\* ReplayHelper.stop, and the end of its process.
StopReplay ==
  /\ rst = "on" /\ rst' = "off" /\ UNCHANGED <<st, data, file, readable, play, reply>>
-----------------------------------------------------------------------------
Init ==
  /\ st = "off" /\ data = NoData /\ file = NoFile /\ readable \in BOOLEAN
  /\ rst = "off" /\ play = NoData /\ reply = NoReply

Next == \/ \E k \in Keys, o \in Outcomes : Call(k, o)
        \/ StartRecord \/ StopRecord \/ Saved \/ RecorderGone
        \/ StartReplay \/ StopReplay
        \/ \E k \in Keys : ReplayCall(k)

Spec == Init /\ [][Next]_vars
-----------------------------------------------------------------------------
(***************************************************************************)
(* Correctness.                                                            *)
(***************************************************************************)

IsData(d) == DOMAIN d \subseteq Keys /\ d \in [DOMAIN d -> Seq(Texts)]

\* The two dictionaries, the file and the reply are of their kind.
TypeOK ==
  /\ st \in {"off", "on", "saving"} /\ readable \in BOOLEAN /\ rst \in {"off", "on"}
  /\ IsData(data) /\ IsData(play)
  /\ file.state \in {"missing", "torn", "ok"} /\ IsData(file.data)
  /\ reply = NoReply \/ (reply.how = "answer" /\ reply.text \in Texts)

\* t ends with s.
Suffix(s, t) == Len(s) <= Len(t) /\ \A i \in 1 .. Len(s) : s[i] = t[Len(t) - Len(s) + i]

\* A recording to an existing file that can be read extends it: as long as it runs, what
\* earlier recordings saved is still there and in its place, so that stop() loses none of it.
RecordingExtendsFile ==
  st = "on" /\ readable /\ file.state = "ok"
    => \A k \in DOMAIN file.data : k \in DOMAIN data /\ Suffix(file.data[k], data[k])

\* A list read from its end.
Rev(s) == [i \in 1 .. Len(s) |-> s[Len(s) + 1 - i]]
CallOrder(d) == [k \in DOMAIN d |-> Rev(d[k])]

Log == INSTANCE CallLog WITH
         rec   <- CallOrder(data),
         disk  <- IF file.state = "ok" THEN [torn |-> FALSE, journal |-> CallOrder(file.data)]
                                       ELSE [torn |-> TRUE],
         queue <- CallOrder(play),
         reply <- IF reply.how = "answer" THEN [how |-> "answer", text |-> reply.text]
                                          ELSE [how |-> "none"]

\* Insertion at the front and pop() at the back make a first-in first-out log of each
\* call: answers are replayed in the order in which they were recorded, also across
\* several recordings to one file, and whatever calls come in between.  (A recording that cannot
\* read its file begins a log of its own.)
ImplementsCallLog == Log!Spec
=============================================================================
