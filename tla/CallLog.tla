------------------------------ MODULE CallLog ------------------------------
(***************************************************************************)
(* What recording and replaying helper calls promises: for every call       *)
(* (method and arguments) the answers come back in the order they were       *)
(* given, through saving, reloading, extending and replaying a recording.   *)
(* A journal maps each recorded call to its answers, oldest first.          *)
(***************************************************************************)
EXTENDS Sequences

CONSTANTS Keys,   \* calls: a helper method and its arguments
          Texts   \* answers, as they are written to the file

VARIABLES rec,    \* the journal being recorded
          disk,   \* the journal in the file, or Torn
          queue,  \* answers not yet replayed
          reply   \* the last answer replayed

vars == <<rec, disk, queue, reply>>

Empty == [k \in {} |-> <<>>]
Torn == [torn |-> TRUE]
Good(j) == [torn |-> FALSE, journal |-> j]
NoReply == [how |-> "none"]
Answer(t) == [how |-> "answer", text |-> t]

Noted(j, k, t) == [x \in DOMAIN j \cup {k} |->
                     IF x # k THEN j[x] ELSE IF k \in DOMAIN j THEN Append(j[k], t) ELSE <<t>>]

Note(k, t) == rec' = Noted(rec, k, t) /\ UNCHANGED <<disk, queue, reply>>

\* Recording goes on from the file, or from nothing.
Resume == /\ \/ rec' = Empty
             \/ disk # Torn /\ rec' = disk.journal
          /\ UNCHANGED <<disk, queue, reply>>

Tear == disk' = Torn /\ UNCHANGED <<rec, queue, reply>>

Commit == disk' = Good(rec) /\ UNCHANGED <<rec, queue, reply>>

Rewind == /\ disk # Torn /\ queue' = disk.journal
          /\ UNCHANGED <<rec, disk, reply>>

\* The oldest answer to call k that has not been replayed.
Replay(k) == /\ k \in DOMAIN queue /\ queue[k] # <<>>
             /\ reply' = Answer(Head(queue[k]))
             /\ queue' = [queue EXCEPT ![k] = Tail(@)]
             /\ UNCHANGED <<rec, disk>>

\* No answer is left.
Refuse == reply' = NoReply /\ UNCHANGED <<rec, disk, queue>>

Init == rec = Empty /\ disk = Torn /\ queue = Empty /\ reply = NoReply

Next == \/ \E k \in Keys, t \in Texts : Note(k, t)
        \/ Resume \/ Tear \/ Commit \/ Rewind \/ Refuse
        \/ \E k \in Keys : Replay(k)

Spec == Init /\ [][Next]_vars
=============================================================================
