------------------------- MODULE RecordReplayProofs -------------------------
(***************************************************************************)
(* Proofs about RecordReplay, for any calls and answers: the type           *)
(* invariant, that recordings extend their file, and that the two helpers   *)
(* implement CallLog.                                                      *)
(***************************************************************************)
EXTENDS RecordReplay, TLAPS

\* A file that does not parse carries no data; the rest is TypeOK and
\* RecordingExtendsFile.
IInv == /\ TypeOK
        /\ file.state # "ok" => file.data = NoData
        /\ file = [state |-> file.state, data |-> file.data]
        /\ RecordingExtendsFile

\* _add_element turns every outcome into a text that the file can hold.
LEMMA EncodeType == ASSUME NEW o \in Outcomes PROVE Encode(o) \in Texts
BY KeysAssumption DEF Outcomes, Encode, Texts, Errors

\* An empty dictionary is a dictionary.
LEMMA NoDataType == IsData(NoData) /\ DOMAIN NoData = {}
BY DEF IsData, NoData

\* _add_element adds one list, or one text at the front of a list.
LEMMA AddedType ==
  ASSUME NEW d, IsData(d), NEW k \in Keys, NEW t \in Texts
  PROVE  IsData(Added(d, k, t))
<1>1. \A x \in DOMAIN d : d[x] \in Seq(Texts)
  BY DEF IsData
<1>2. <<t>> \in Seq(Texts)
  OBVIOUS
<1>3. \A x \in DOMAIN d : <<t>> \o d[x] \in Seq(Texts)
  BY <1>1, <1>2
<1>4. DOMAIN d \cup {k} \subseteq Keys
  BY DEF IsData
<1> QED
  BY <1>1, <1>2, <1>3, <1>4 DEF Added, IsData

\* pop() on a list that is not empty.
LEMMA PoppedType ==
  ASSUME NEW s \in Seq(Texts), s # <<>>
  PROVE  Popped(s).last \in Texts /\ Popped(s).rest \in Seq(Texts)
BY DEF Popped

\* IInv holds before the first recording.
LEMMA InitIInv == Init => IInv
<1> SUFFICES ASSUME Init PROVE IInv
  OBVIOUS
<1>1. IsData(data) /\ IsData(play) /\ IsData(file.data)
  BY NoDataType DEF Init, NoFile
<1> QED
  BY <1>1 DEF Init, IInv, TypeOK, RecordingExtendsFile, NoFile, NoReply

\* Every step of the recorder, of the replayer or of their processes keeps IInv.
LEMMA StepIInv == IInv /\ [Next]_vars => IInv'
<1> SUFFICES ASSUME IInv, [Next]_vars PROVE IInv'
  OBVIOUS
<1> USE DEF IInv, TypeOK, RecordingExtendsFile
<1>1. CASE \E k \in Keys, o \in Outcomes : Call(k, o)
  <2>1. PICK k \in Keys, o \in Outcomes : Call(k, o)
    BY <1>1
  <2> DEFINE t == Encode(o)
  <2>2. t \in Texts
    BY EncodeType
  <2>3. /\ st = "on" /\ data' = Added(data, k, t)
        /\ UNCHANGED <<st, file, readable, rst, play, reply>>
    BY <2>1 DEF Call
  <2>4. IsData(data') /\ DOMAIN data' = DOMAIN data \cup {k}
    <3>1. IsData(Added(data, k, t))
      BY <2>2, AddedType
    <3>2. DOMAIN Added(data, k, t) = DOMAIN data \cup {k}
      BY DEF Added
    <3> QED
      BY <3>1, <3>2, <2>3
  <2>5. ASSUME readable, file.state = "ok", NEW x \in DOMAIN file.data
        PROVE  x \in DOMAIN data' /\ Suffix(file.data[x], data'[x])
    <3>1. x \in DOMAIN data /\ Suffix(file.data[x], data[x])
      BY <2>3, <2>5
    <3>2. x \in DOMAIN data'
      BY <2>4, <3>1
    <3>3. CASE x # k
      <4>1. data'[x] = data[x]
        BY <2>3, <3>1, <3>3 DEF Added
      <4> QED
        BY <4>1, <3>1, <3>2
    <3>4. CASE x = k
      <4>1. data'[x] = <<t>> \o data[x]
        BY <2>3, <3>1, <3>4 DEF Added
      <4>2. data[x] \in Seq(Texts) /\ file.data[x] \in Seq(Texts)
        BY <3>1, <2>5 DEF IsData
      <4>3. /\ Len(<<t>> \o data[x]) = Len(data[x]) + 1
            /\ \A i \in 1 .. Len(data[x]) : (<<t>> \o data[x])[i + 1] = data[x][i]
        BY <4>2, <2>2
      <4>4. Suffix(file.data[x], <<t>> \o data[x])
        BY <4>2, <4>3, <3>1 DEF Suffix
      <4> QED
        BY <4>1, <4>4, <3>2
    <3> QED
      BY <3>3, <3>4
  <2> QED
    BY <2>3, <2>4, <2>5
<1>2. CASE StartRecord
  <2>1. IsData(data')
    BY <1>2, NoDataType DEF StartRecord
  <2>2. ASSUME readable, file.state = "ok", NEW x \in DOMAIN file.data
        PROVE  x \in DOMAIN data' /\ Suffix(file.data[x], data'[x])
    <3>1. data' = file.data
      BY <1>2, <2>2 DEF StartRecord
    <3>2. file.data[x] \in Seq(Texts)
      BY <2>2 DEF IsData
    <3> QED
      BY <3>1, <3>2, <2>2 DEF Suffix
  <2> QED
    BY <1>2, <2>1, <2>2 DEF StartRecord
<1>3. CASE StopRecord
  <2>1. file' = TornFile \/ file' = file
    BY <1>3 DEF StopRecord
  <2>2. IsData(file'.data)
    BY <2>1, NoDataType DEF TornFile
  <2> QED
    BY <1>3, <2>2, NoDataType DEF StopRecord, TornFile
<1>4. CASE Saved
  BY <1>4 DEF Saved
<1>5. CASE RecorderGone
  BY <1>5, NoDataType DEF RecorderGone
<1>6. CASE StartReplay
  BY <1>6 DEF StartReplay, NoReply
<1>7. CASE StopReplay
  BY <1>7 DEF StopReplay
<1>8. CASE \E k \in Keys : ReplayCall(k)
  <2>1. PICK k \in Keys : ReplayCall(k)
    BY <1>8
  <2>2. CASE k \in DOMAIN play /\ play[k] # <<>>
    <3>1. play[k] \in Seq(Texts)
      BY <2>2 DEF IsData
    <3>2. Popped(play[k]).last \in Texts /\ Popped(play[k]).rest \in Seq(Texts)
      BY <3>1, <2>2, PoppedType
    <3>3. /\ reply' = [how |-> "answer", text |-> Popped(play[k]).last,
                       got |-> Decode(k, Popped(play[k]).last)]
          /\ play' = [play EXCEPT ![k] = Popped(play[k]).rest]
          /\ UNCHANGED <<st, data, file, readable, rst>>
      BY <2>1, <2>2 DEF ReplayCall
    <3>4. IsData(play')
      BY <3>2, <3>3 DEF IsData
    <3> QED
      BY <3>2, <3>3, <3>4
  <2>3. CASE ~(k \in DOMAIN play /\ play[k] # <<>>)
    BY <2>1, <2>3 DEF ReplayCall
  <2> QED
    BY <2>2, <2>3
<1>9. CASE UNCHANGED vars
  BY <1>9 DEF vars
<1> QED
  BY <1>1, <1>2, <1>3, <1>4, <1>5, <1>6, <1>7, <1>8, <1>9 DEF Next

\* IInv holds in every state.
THEOREM Invariance == Spec => []IInv
BY InitIInv, StepIInv, PTL DEF Spec

\* The dictionaries and the file always hold lists of texts.
THEOREM TypeCorrect == Spec => []TypeOK
<1>1. IInv => TypeOK
  BY DEF IInv
<1> QED
  BY Invariance, <1>1, PTL

\* Recording to a file that holds a recording never drops any of it.
THEOREM RecordingExtends == Spec => []RecordingExtendsFile
<1>1. IInv => RecordingExtendsFile
  BY DEF IInv
<1> QED
  BY Invariance, <1>1, PTL
-----------------------------------------------------------------------------
(***************************************************************************)
(* Refinement.                                                             *)
(***************************************************************************)

\* Sequences with the same elements are the same.
LEMMA SeqEq ==
  ASSUME NEW a \in Seq(Texts), NEW b \in Seq(Texts), Len(a) = Len(b),
         \A i \in 1 .. Len(a) : a[i] = b[i]
  PROVE  a = b
OBVIOUS

\* A list read from its end, element by element.
LEMMA RevFacts ==
  ASSUME NEW s \in Seq(Texts)
  PROVE  /\ Rev(s) \in Seq(Texts) /\ Len(Rev(s)) = Len(s) /\ Len(s) \in Nat
         /\ \A i \in 1 .. Len(s) : Rev(s)[i] = s[Len(s) + 1 - i]
BY DEF Rev

\* What is inserted at the front of a list is read last from its end.
LEMMA RevCons ==
  ASSUME NEW s \in Seq(Texts), NEW t \in Texts
  PROVE  Rev(<<t>> \o s) = Append(Rev(s), t)
<1>1. Rev(s) \in Seq(Texts) /\ Len(Rev(s)) = Len(s)
  BY DEF Rev
<1>2. /\ <<t>> \o s \in Seq(Texts) /\ Len(<<t>> \o s) = Len(s) + 1
      /\ (<<t>> \o s)[1] = t
      /\ \A i \in 1 .. Len(s) : (<<t>> \o s)[i + 1] = s[i]
  OBVIOUS
<1>3. Rev(<<t>> \o s) \in Seq(Texts) /\ Len(Rev(<<t>> \o s)) = Len(s) + 1
  BY <1>2 DEF Rev
<1>4. Append(Rev(s), t) \in Seq(Texts) /\ Len(Append(Rev(s), t)) = Len(s) + 1
  BY <1>1
<1>5. ASSUME NEW i \in 1 .. Len(s) + 1
      PROVE  Rev(<<t>> \o s)[i] = Append(Rev(s), t)[i]
  <2>1. Rev(<<t>> \o s)[i] = (<<t>> \o s)[Len(s) + 2 - i]
    BY <1>2, <1>5 DEF Rev
  <2>2. CASE i = Len(s) + 1
    BY <2>1, <2>2, <1>1, <1>2
  <2>3. CASE i <= Len(s)
    <3>1. Append(Rev(s), t)[i] = s[Len(s) + 1 - i]
      BY <1>1, <2>3 DEF Rev
    <3>2. (<<t>> \o s)[Len(s) + 1 - i + 1] = s[Len(s) + 1 - i]
      BY <1>2, <2>3
    <3> QED
      BY <2>1, <3>1, <3>2
  <2>4. Len(s) \in Nat
    BY RevFacts
  <2>5. i = Len(s) + 1 \/ i <= Len(s)
    BY <2>4, <1>5
  <2> QED
    BY <2>2, <2>3, <2>5
<1> QED
  BY <1>3, <1>4, <1>5, SeqEq

\* A list with one text reads the same from both ends.
LEMMA RevOne == ASSUME NEW t \in Texts PROVE Rev(<<t>>) = <<t>>
BY DEF Rev

\* pop() takes the first of the list read from its end.
LEMMA RevPopped ==
  ASSUME NEW s \in Seq(Texts), s # <<>>
  PROVE  /\ Rev(s) # <<>>
         /\ Head(Rev(s)) = Popped(s).last
         /\ Tail(Rev(s)) = Rev(Popped(s).rest)
<1>1. Rev(s) \in Seq(Texts) /\ Len(Rev(s)) = Len(s) /\ Len(s) > 0
  BY DEF Rev
<1>2. Rev(s) # <<>> /\ Head(Rev(s)) = s[Len(s)]
  BY <1>1 DEF Rev
<1>3. /\ Popped(s).rest \in Seq(Texts) /\ Len(Popped(s).rest) = Len(s) - 1
      /\ \A i \in 1 .. Len(s) - 1 : Popped(s).rest[i] = s[i]
  BY <1>1 DEF Popped
<1>4. /\ Rev(Popped(s).rest) \in Seq(Texts) /\ Len(Rev(Popped(s).rest)) = Len(s) - 1
      /\ \A i \in 1 .. Len(s) - 1 : Rev(Popped(s).rest)[i] = s[Len(s) - i]
  <2> DEFINE r == Popped(s).rest
  <2>1. r \in Seq(Texts) /\ Len(r) = Len(s) - 1 /\ \A i \in 1 .. Len(s) - 1 : r[i] = s[i]
    BY <1>3
  <2> HIDE DEF r
  <2>2. /\ Rev(r) \in Seq(Texts) /\ Len(Rev(r)) = Len(r) /\ Len(s) \in Nat
        /\ \A i \in 1 .. Len(r) : Rev(r)[i] = r[Len(r) + 1 - i]
    BY <2>1, RevFacts
  <2>3. \A i \in 1 .. Len(s) - 1 : Rev(r)[i] = s[Len(s) - i]
    <3> SUFFICES ASSUME NEW i \in 1 .. Len(s) - 1 PROVE Rev(r)[i] = s[Len(s) - i]
      OBVIOUS
    <3>1. Len(s) - i \in 1 .. Len(s) - 1 /\ Len(r) + 1 - i = Len(s) - i
      BY <2>1, <2>2
    <3>2. Rev(r)[i] = r[Len(s) - i]
      BY <2>1, <2>2, <3>1
    <3> QED
      BY <2>1, <3>1, <3>2
  <2> QED
    BY <2>1, <2>2, <2>3 DEF r
<1>5. /\ Tail(Rev(s)) \in Seq(Texts) /\ Len(Tail(Rev(s))) = Len(s) - 1
      /\ \A i \in 1 .. Len(s) - 1 : Tail(Rev(s))[i] = s[Len(s) - i]
  BY <1>1 DEF Rev
<1>6. Tail(Rev(s)) = Rev(Popped(s).rest)
  <2> DEFINE a == Tail(Rev(s))
             b == Rev(Popped(s).rest)
  <2>1. /\ a \in Seq(Texts) /\ b \in Seq(Texts) /\ Len(a) = Len(b)
        /\ \A i \in 1 .. Len(a) : a[i] = b[i]
    BY <1>4, <1>5
  <2> HIDE DEF a, b
  <2>2. a = b
    BY <2>1, SeqEq
  <2> QED
    BY <2>2 DEF a, b
<1> QED
  BY <1>2, <1>6 DEF Popped

\* _add_element, seen in call order, appends.
LEMMA NotedInOrder ==
  ASSUME NEW d, IsData(d), NEW k \in Keys, NEW t \in Texts
  PROVE  CallOrder(Added(d, k, t)) = Log!Noted(CallOrder(d), k, t)
<1> DEFINE e == Added(d, k, t)
<1>1. /\ DOMAIN e = DOMAIN d \cup {k}
      /\ \A x \in DOMAIN d : x # k => e[x] = d[x]
      /\ k \in DOMAIN d => e[k] = <<t>> \o d[k]
      /\ k \notin DOMAIN d => e[k] = <<t>>
  BY DEF Added
<1>2. \A x \in DOMAIN d : d[x] \in Seq(Texts)
  BY DEF IsData
<1>3. k \in DOMAIN d => Rev(e[k]) = Append(Rev(d[k]), t)
  BY <1>1, <1>2, RevCons
<1>4. k \notin DOMAIN d => Rev(e[k]) = <<t>>
  BY <1>1, RevOne
<1> HIDE DEF e
<1>5. CallOrder(e) = Log!Noted(CallOrder(d), k, t)
  BY <1>1, <1>3, <1>4 DEF CallOrder, Log!Noted
<1> QED
  BY <1>5 DEF e

\* The initial state is one of the abstract log.
LEMMA InitRefines == Init => Log!Init
BY DEF Init, Log!Init, CallOrder, NoData, NoFile, NoReply, Log!Empty, Log!Torn, Log!NoReply

\* Every step is a step of the abstract log, or leaves it alone.
LEMMA StepRefines == IInv /\ [Next]_vars => [Log!Next]_Log!vars
<1> SUFFICES ASSUME IInv, [Next]_vars
             PROVE  [Log!Next]_Log!vars
  OBVIOUS
<1> USE DEF Log!vars
<1>1. CASE \E k \in Keys, o \in Outcomes : Call(k, o)
  <2>1. PICK k \in Keys, o \in Outcomes : Call(k, o)
    BY <1>1
  <2>2. Encode(o) \in Texts
    BY EncodeType
  <2>3. CallOrder(data') = Log!Noted(CallOrder(data), k, Encode(o))
    BY <2>1, <2>2, NotedInOrder DEF Call, IInv, TypeOK
  <2>4. Log!Note(k, Encode(o))
    BY <2>1, <2>3 DEF Call, Log!Note, CallOrder
  <2> QED
    BY <2>2, <2>4 DEF Log!Next
<1>2. CASE StartRecord
  <2>1. CASE file.state = "missing" /\ data' = data
    BY <1>2, <2>1 DEF StartRecord
  <2>2. CASE file.state = "ok" /\ data' = file.data
    <3>1. Log!Resume
      BY <1>2, <2>2 DEF StartRecord, Log!Resume, Log!Torn
    <3> QED
      BY <3>1 DEF Log!Next
  <2>3. CASE data' = NoData
    <3>1. CallOrder(data') = Log!Empty
      BY <2>3 DEF CallOrder, NoData, Log!Empty
    <3>2. Log!Resume
      BY <1>2, <3>1 DEF StartRecord, Log!Resume
    <3> QED
      BY <3>2 DEF Log!Next
  <2> QED
    BY <1>2, <2>1, <2>2, <2>3 DEF StartRecord, IInv, TypeOK
<1>3. CASE StopRecord
  <2>1. CASE file' = file
    BY <1>3, <2>1 DEF StopRecord
  <2>2. CASE file' = TornFile
    <3>1. Log!Tear
      BY <1>3, <2>2 DEF StopRecord, TornFile, Log!Tear, Log!Torn
    <3> QED
      BY <3>1 DEF Log!Next
  <2> QED
    BY <1>3, <2>1, <2>2 DEF StopRecord
<1>4. CASE Saved
  <2>1. Log!Commit
    BY <1>4 DEF Saved, Log!Commit, Log!Good
  <2> QED
    BY <2>1 DEF Log!Next
<1>5. CASE RecorderGone
  <2>1. CallOrder(data') = Log!Empty
    BY <1>5 DEF RecorderGone, CallOrder, NoData, Log!Empty
  <2>2. Log!Resume
    BY <1>5, <2>1 DEF RecorderGone, Log!Resume
  <2> QED
    BY <2>2 DEF Log!Next
<1>6. CASE StartReplay
  <2>1. CASE file.state = "ok" /\ play' = file.data /\ UNCHANGED reply
    <3>1. Log!Rewind
      BY <1>6, <2>1 DEF StartReplay, Log!Rewind, Log!Torn
    <3> QED
      BY <3>1 DEF Log!Next
  <2>2. CASE reply' = NoReply /\ UNCHANGED <<rst, play>>
    <3>1. Log!Refuse
      BY <1>6, <2>2 DEF StartReplay, Log!Refuse, NoReply, Log!NoReply
    <3> QED
      BY <3>1 DEF Log!Next
  <2> QED
    BY <1>6, <2>1, <2>2 DEF StartReplay
<1>7. CASE StopReplay
  BY <1>7 DEF StopReplay
<1>8. CASE \E k \in Keys : ReplayCall(k)
  <2>1. PICK k \in Keys : ReplayCall(k)
    BY <1>8
  <2>2. CASE k \in DOMAIN play /\ play[k] # <<>>
    <3>1. play[k] \in Seq(Texts)
      BY <2>2 DEF IInv, TypeOK, IsData
    <3>2. /\ Rev(play[k]) # <<>>
          /\ Head(Rev(play[k])) = Popped(play[k]).last
          /\ Tail(Rev(play[k])) = Rev(Popped(play[k]).rest)
      BY <3>1, <2>2, RevPopped
    <3>3. /\ reply' = [how |-> "answer", text |-> Popped(play[k]).last,
                       got |-> Decode(k, Popped(play[k]).last)]
          /\ play' = [play EXCEPT ![k] = Popped(play[k]).rest]
          /\ UNCHANGED <<st, data, file, readable, rst>>
      BY <2>1, <2>2 DEF ReplayCall
    <3>4. CallOrder(play') = [CallOrder(play) EXCEPT ![k] = Tail(@)]
      BY <3>2, <3>3, <2>2 DEF CallOrder
    <3>5. k \in DOMAIN CallOrder(play) /\ CallOrder(play)[k] = Rev(play[k])
      BY <2>2 DEF CallOrder
    <3>6. Log!Replay(k)
      BY <3>2, <3>3, <3>4, <3>5 DEF Log!Replay, Log!Answer
    <3> QED
      BY <3>6 DEF Log!Next
  <2>3. CASE ~(k \in DOMAIN play /\ play[k] # <<>>)
    <3>1. Log!Refuse
      BY <2>1, <2>3 DEF ReplayCall, Log!Refuse, NoReply, Log!NoReply
    <3> QED
      BY <3>1 DEF Log!Next
  <2> QED
    BY <2>2, <2>3
<1>9. CASE UNCHANGED vars
  BY <1>9 DEF vars
<1> QED
  BY <1>1, <1>2, <1>3, <1>4, <1>5, <1>6, <1>7, <1>8, <1>9 DEF Next

\* Record and replay implement the first-in first-out log of every call.
THEOREM Refinement == Spec => ImplementsCallLog
BY InitRefines, StepRefines, Invariance, PTL DEF Spec, Log!Spec, ImplementsCallLog

\* What replay gives back is what the recorded call gave, for objects, for bytes that do
\* not read as a literal and for chipsec's one-argument exceptions; read_phys_mem gives
\* back any bytes.
THEOREM RoundTrip ==
  ASSUME NEW k \in Keys, NEW o \in Outcomes,
         IF k \in MemKeys THEN o.kind \in {"bytes", "literal bytes"}
                          ELSE o.kind \in {"object", "bytes", "chipsec error"}
  PROVE  Decode(k, Encode(o)) = o
<1>1. o = [kind |-> o.kind, v |-> o.v]
  BY DEF Outcomes
<1>2. CASE k \in MemKeys
  BY <1>1, <1>2 DEF Decode, Encode
<1>3. CASE k \notin MemKeys
  BY <1>1, <1>3 DEF Decode, Encode
<1> QED
  BY <1>2, <1>3
=============================================================================
