-------------------------- MODULE ThreadChecksProofs --------------------------
(***************************************************************************)
(* Proofs, for every number of threads, that the verdict of a test module   *)
(* that reads every logical CPU is the documented one and that none of them *)
(* passes before it has looked at every thread.                             *)
(***************************************************************************)
EXTENDS ThreadChecks, TLAPS

OnIntel == mod = "spectre_v2" /\ plat.vendor = "intel"
Exists(s, v) == \E i \in DOMAIN s : s[i] = v

(***************************************************************************)
(* The loops: how far they are.  A loop ends before the last thread only    *)
(* where the module breaks out of it, and then not with a clean finding.    *)
(***************************************************************************)
Shape ==
  /\ mod \in Modules
  /\ pc \in {"idle", "loop", "ctl", "decide"}
  /\ tid \in Nat
  /\ count \in Nat \ {0} /\ count = IF Uncounted THEN 1 ELSE N
  /\ seen \in Seq(ThreadValues)
  /\ ctl \in Seq(SpecCtrls)
  /\ pc = "loop" => Len(seen) = tid /\ tid < count /\ ctl = <<>>
  /\ pc = "ctl" => OnIntel /\ Len(seen) = count /\ Len(ctl) = tid /\ tid < count
  /\ pc = "decide" =>
       \/ Len(seen) = count
       \/ mod \in {"memlock", "smrr"} /\ acc \in {"FAILED", "ERROR"} /\ ctl = <<>>
       \/ OnIntel /\ acc = "FAILED" /\ ctl = <<>>
  /\ pc = "decide" /\ ctl # <<>> => OnIntel /\ (Len(ctl) = count \/ acc = "WARNING")

(***************************************************************************)
(* The findings: at every turn acc is what the threads read so far amount   *)
(* to.  The break of memlock matters: an ERROR is never overwritten.        *)
(***************************************************************************)
FoundMemlock ==
  /\ acc = IF Exists(seen, "unreadable") THEN "ERROR"
           ELSE IF Exists(seen, "0") THEN "FAILED" ELSE "PASSED"
  /\ pc = "loop" => ~Exists(seen, "unreadable")
FoundLock == acc = IF Exists(seen, "0") THEN "FAILED" ELSE "PASSED"
FoundUntrusted == acc = IF Exists(seen, "0") \/ plat.soc = "0" THEN "FAILED" ELSE "PASSED"
FoundCodeChk == results = {CodeChk(seen[i]) : i \in DOMAIN seen}
FoundDebug ==
  acc = IF \E i \in DOMAIN seen : seen[i].enable \/ ~seen[i].lock THEN "FAILED"
        ELSE IF \E i \in DOMAIN seen : seen[i].occurred THEN "WARNING" ELSE "PASSED"
FoundSmrr == acc = IF ~plat.programmed \/ Exists(seen, "differs") THEN "FAILED" ELSE "PASSED"
NoIbrs == ~plat.arch_cap \/ Exists(seen, "0") \/ Exists(seen, "unreadable")
NotEnabled == \E i \in DOMAIN ctl : ~ctl[i].ibrs
FoundSpectre ==
  /\ acc = IF NoIbrs THEN "FAILED" ELSE IF NotEnabled THEN "WARNING" ELSE "PASSED"
  /\ pc \in {"loop", "ctl"} \/ ctl # <<>> => ~NoIbrs

Found ==
  /\ mod = "memlock" => FoundMemlock
  /\ mod = "ia32cfg" => FoundLock
  /\ mod = "ia_untrusted" => FoundUntrusted
  /\ mod = "smm_code_chk" => FoundCodeChk
  /\ mod = "debugenabled" => FoundDebug
  /\ mod = "smrr" => FoundSmrr
  /\ OnIntel => FoundSpectre

Inv == /\ Shape
       /\ pc # "idle" => Found
       /\ VerdictIsReference
       /\ PassedAfterAllThreads
-----------------------------------------------------------------------------
\* Reading one more thread adds its value to those that exist.
LEMMA AppendExists ==
  ASSUME NEW S, NEW s \in Seq(S), NEW v \in S, NEW w
  PROVE  Exists(Append(s, v), w) <=> Exists(s, w) \/ v = w
<1>1. /\ DOMAIN s = 1 .. Len(s) /\ Len(s) \in Nat
      /\ DOMAIN Append(s, v) = 1 .. Len(s) + 1
      /\ Append(s, v)[Len(s) + 1] = v
      /\ \A i \in 1 .. Len(s) : Append(s, v)[i] = s[i]
  OBVIOUS
<1> HIDE DEF Exists
<1>2. Exists(s, w) => Exists(Append(s, v), w)
  BY <1>1 DEF Exists
<1>3. v = w => Exists(Append(s, v), w)
  BY <1>1 DEF Exists
<1>4. Exists(Append(s, v), w) => Exists(s, w) \/ v = w
  BY <1>1 DEF Exists
<1> QED
  BY <1>2, <1>3, <1>4

\* What Append does, without the sequence operators.
LEMMA AppendFacts ==
  ASSUME NEW S, NEW s \in Seq(S), NEW v \in S
  PROVE  /\ Append(s, v) \in Seq(S)
         /\ Len(Append(s, v)) = Len(s) + 1
         /\ Len(s) \in Nat
         /\ Append(s, v) # <<>>
         /\ DOMAIN s = 1 .. Len(s)
         /\ DOMAIN Append(s, v) = 1 .. Len(s) + 1
         /\ Append(s, v)[Len(s) + 1] = v
         /\ \A i \in 1 .. Len(s) : Append(s, v)[i] = s[i]
  OBVIOUS

LEMMA EmptyFacts == (\A w : ~Exists(<<>>, w)) /\ DOMAIN <<>> = {} /\ \A S : <<>> \in Seq(S)
<1>1. DOMAIN <<>> = {}
  OBVIOUS
<1>2. \A S : <<>> \in Seq(S)
  OBVIOUS
<1> QED
  BY <1>1, <1>2 DEF Exists

\* The values of the threads do not change while mod and plat do not.
LEMMA ValuesStay == ASSUME mod' = mod, plat' = plat PROVE ThreadValues' = ThreadValues
  BY DEF ThreadValues
-----------------------------------------------------------------------------
LEMMA InvInit == ASSUME N \in Nat \ {0} PROVE Init => Inv
  BY DEF Init, Inv, Shape, Found, VerdictIsReference, PassedAfterAllThreads, Over, Uncounted

\* Before the loop nothing has been read; what run() asked of the platform first is in acc.
LEMMA BeginStep ==
  ASSUME N \in Nat \ {0}, NEW m \in Modules, NEW p \in Platforms(m), NEW c \in Counts(m), Begin(m, p, c)
  PROVE  Inv'
<1> USE DEF Begin
<1>1. Shape'
  <2>1. seen' \in Seq(ThreadValues') /\ ctl' \in Seq(SpecCtrls) /\ Len(seen') = 0 /\ ctl' = <<>>
    BY EmptyFacts
  <2>2. pc' = "loop" \/ (pc' = "decide" /\ OnIntel' /\ acc' = "FAILED")
    BY DEF OnIntel
  <2>3. mod' \in Modules /\ tid' = 0
    OBVIOUS
  <2> HIDE DEF Begin
  <2>4. count' \in Nat \ {0} /\ count' = IF Uncounted' THEN 1 ELSE N
    BY DEF Begin, Counts, Uncounted
  <2>5. tid' \in Nat /\ Len(seen') = tid' /\ tid' < count'
    BY <2>1, <2>3, <2>4
  <2>6. pc' \in {"idle", "loop", "ctl", "decide"} /\ pc' # "ctl" /\ SpecCtrls' = SpecCtrls
    BY <2>2 DEF SpecCtrls
  <2> QED
    BY <2>1, <2>2, <2>3, <2>4, <2>5, <2>6 DEF Shape
<1>2. Found'
  <2>1. (\A w : ~Exists(<<>>, w)) /\ DOMAIN <<>> = {}
    BY EmptyFacts
  <2>2. seen' = <<>> /\ ctl' = <<>> /\ results' = {} /\ pc' \in {"loop", "decide"}
    OBVIOUS
  <2>3. (m = "memlock" => FoundMemlock') /\ (m = "ia32cfg" => FoundLock')
    BY <2>1, <2>2 DEF FoundMemlock, FoundLock
  <2>4. (m = "ia_untrusted" => FoundUntrusted') /\ (m = "smrr" => FoundSmrr')
    BY <2>1, <2>2 DEF FoundUntrusted, FoundSmrr
  <2>5. (m = "smm_code_chk" => FoundCodeChk') /\ (m = "debugenabled" => FoundDebug')
    BY <2>1, <2>2 DEF FoundCodeChk, FoundDebug
  <2>6. OnIntel' => FoundSpectre'
    BY <2>1, <2>2 DEF OnIntel, FoundSpectre, NoIbrs, NotEnabled
  <2> QED
    BY <2>3, <2>4, <2>5, <2>6 DEF Found
<1>3. VerdictIsReference' /\ PassedAfterAllThreads'
  BY DEF VerdictIsReference, PassedAfterAllThreads, Over
<1> QED
  BY <1>1, <1>2, <1>3 DEF Inv

\* A turn of the first loop keeps its shape, if it breaks off only where Shape says so.
LEMMA TurnShape ==
  ASSUME N \in Nat \ {0}, Shape, pc = "loop",
         NEW v \in ThreadValues, NEW stop \in BOOLEAN, NEW a, NEW b, Turn(v, stop, a, b),
         UNCHANGED <<mod, plat, count, ctl, result>>,
         stop => \/ mod \in {"memlock", "smrr"} /\ a \in {"FAILED", "ERROR"}
                 \/ OnIntel /\ a = "FAILED"
  PROVE  Shape' /\ VerdictIsReference' /\ PassedAfterAllThreads' /\ pc' # "idle"
<1>1. ThreadValues' = ThreadValues
  BY ValuesStay
<1>2. seen' \in Seq(ThreadValues) /\ Len(seen') = tid + 1
  BY AppendFacts DEF Shape, Turn
<1>3. pc' \in {"loop", "decide"}
  BY DEF Turn
<1>4. Shape'
  BY <1>1, <1>2, <1>3 DEF Shape, Turn, OnIntel, Uncounted, SpecCtrls
<1> QED
  BY <1>3, <1>4 DEF VerdictIsReference, PassedAfterAllThreads, Over

\* What a turn does to the values that exist.
LEMMA TurnExists ==
  ASSUME Shape, NEW v \in ThreadValues, NEW stop, NEW a, NEW b, Turn(v, stop, a, b)
  PROVE  \A w : Exists(seen', w) <=> Exists(seen, w) \/ v = w
  BY AppendExists DEF Shape, Turn

LEMMA MemlockStep ==
  ASSUME N \in Nat \ {0}, Inv, NEW v \in ThreadValues, check_MSR_LT_LOCK_MEMORY(v)
  PROVE  Inv'
<1> DEFINE a == CASE v = "unreadable" -> "ERROR" [] v = "0" -> "FAILED" [] v = "1" -> acc
<1>1. /\ mod = "memlock" /\ mod' = mod /\ pc = "loop" /\ UNCHANGED <<mod, plat, count, ctl, result>>
      /\ Turn(v, v = "unreadable", a, {})
  BY DEF check_MSR_LT_LOCK_MEMORY, InLoop
<1>2. v \in {"unreadable", "0", "1"}
  BY <1>1 DEF ThreadValues
<1>3. v = "unreadable" => a = "ERROR"
  OBVIOUS
<1>4. Shape' /\ VerdictIsReference' /\ PassedAfterAllThreads' /\ pc' # "idle"
  <2> HIDE DEF a
  <2> QED
    BY <1>1, <1>3, TurnShape DEF Inv
<1>5. \A w : Exists(seen', w) <=> Exists(seen, w) \/ v = w
  <2> HIDE DEF a
  <2> QED
    BY <1>1, TurnExists DEF Inv
<1>6. FoundMemlock'
  BY <1>1, <1>2, <1>5 DEF Inv, Found, FoundMemlock, Turn
<1> QED
  BY <1>1, <1>4, <1>6 DEF Inv, Found, OnIntel

LEMMA LockStep ==
  ASSUME N \in Nat \ {0}, Inv, NEW v \in ThreadValues,
         check_ia32feature_control(v) \/ check_untrusted(v)
  PROVE  Inv'
<1> DEFINE a == IF v = "0" THEN "FAILED" ELSE acc
<1>1. /\ mod \in {"ia32cfg", "ia_untrusted"} /\ pc = "loop" /\ UNCHANGED <<mod, plat, count, ctl, result>>
      /\ \E b : Turn(v, FALSE, a, b)
  BY DEF check_ia32feature_control, check_untrusted, InLoop
<1>2. PICK b : Turn(v, FALSE, a, b)
  BY <1>1
<1>3. /\ Shape' /\ VerdictIsReference' /\ PassedAfterAllThreads' /\ pc' # "idle"
      /\ \A w : Exists(seen', w) <=> Exists(seen, w) \/ v = w
  <2> HIDE DEF a
  <2> QED
    BY <1>1, <1>2, TurnShape, TurnExists DEF Inv
<1>4. (mod = "ia32cfg" => FoundLock') /\ (mod = "ia_untrusted" => FoundUntrusted')
  BY <1>1, <1>2, <1>3 DEF Inv, Found, FoundLock, FoundUntrusted, Turn
<1> QED
  BY <1>1, <1>3, <1>4 DEF Inv, Found, OnIntel

LEMMA SmrrStep ==
  ASSUME N \in Nat \ {0}, Inv, NEW v \in ThreadValues, check_SMRR(v)
  PROVE  Inv'
<1> DEFINE a == IF v = "differs" THEN "FAILED" ELSE acc
<1>1. /\ mod = "smrr" /\ pc = "loop" /\ UNCHANGED <<mod, plat, count, ctl, result>>
      /\ Turn(v, v = "differs", a, {})
      /\ v = "differs" => a = "FAILED"
  BY DEF check_SMRR, InLoop
<1>2. /\ Shape' /\ VerdictIsReference' /\ PassedAfterAllThreads' /\ pc' # "idle"
      /\ \A w : Exists(seen', w) <=> Exists(seen, w) \/ v = w
  <2> HIDE DEF a
  <2>1. Shape' /\ VerdictIsReference' /\ PassedAfterAllThreads' /\ pc' # "idle"
    BY <1>1, TurnShape DEF Inv
  <2> QED
    BY <1>1, <2>1, TurnExists DEF Inv
<1>3. FoundSmrr'
  BY <1>1, <1>2 DEF Inv, Found, FoundSmrr, Turn
<1> QED
  BY <1>1, <1>2, <1>3 DEF Inv, Found, OnIntel

LEMMA ArchStep ==
  ASSUME N \in Nat \ {0}, Inv, NEW v \in ThreadValues, ArchCapabilities(v)
  PROVE  Inv'
<1> DEFINE a == IF v # "1" THEN "FAILED" ELSE acc
<1>1. /\ OnIntel /\ pc = "loop" /\ UNCHANGED <<mod, plat, count, ctl, result>>
      /\ Turn(v, v # "1", a, {})
      /\ v # "1" => a = "FAILED"
  BY DEF ArchCapabilities, InLoop, OnIntel
<1>2. v \in {"unreadable", "0", "1"}
  BY <1>1 DEF ThreadValues, OnIntel
<1>3. /\ Shape' /\ VerdictIsReference' /\ PassedAfterAllThreads' /\ pc' # "idle"
      /\ \A w : Exists(seen', w) <=> Exists(seen, w) \/ v = w
  <2> HIDE DEF a
  <2>1. Shape' /\ VerdictIsReference' /\ PassedAfterAllThreads' /\ pc' # "idle"
    BY <1>1, TurnShape DEF Inv
  <2> QED
    BY <1>1, <2>1, TurnExists DEF Inv
<1>4. ctl = <<>> /\ ~NotEnabled /\ NotEnabled' = NotEnabled
  BY <1>1, EmptyFacts DEF Inv, Shape, NotEnabled
<1>5. ~NoIbrs /\ (NoIbrs' <=> v # "1")
  BY <1>1, <1>2, <1>3 DEF Inv, Found, FoundSpectre, NoIbrs
<1>6. FoundSpectre'
  BY <1>1, <1>3, <1>4, <1>5 DEF Inv, Found, FoundSpectre, Turn
<1> QED
  BY <1>1, <1>3, <1>6 DEF Inv, Found, OnIntel

LEMMA AmdStep ==
  ASSUME N \in Nat \ {0}, Inv, NEW v \in ThreadValues, AmdSpecCtrl(v)
  PROVE  Inv'
<1> DEFINE a == IF ~v.psfd THEN "FAILED" ELSE acc
<1>1. /\ mod = "spectre_v2" /\ plat.vendor = "amd" /\ pc = "loop"
      /\ UNCHANGED <<mod, plat, count, ctl, result>>
      /\ Turn(v, FALSE, a, {})
  BY DEF AmdSpecCtrl, InLoop
<1>2. Shape' /\ VerdictIsReference' /\ PassedAfterAllThreads' /\ pc' # "idle"
  <2> HIDE DEF a
  <2> QED
    BY <1>1, TurnShape DEF Inv
<1> QED
  BY <1>1, <1>2 DEF Inv, Found, OnIntel

LEMMA CodeChkStep ==
  ASSUME N \in Nat \ {0}, Inv, NEW v \in ThreadValues, check_SMM_Code_Chk_En(v)
  PROVE  Inv'
<1> DEFINE b == IF CodeChk(v) = "FAILED" THEN {"LOCKS"} ELSE {}
<1>1. /\ mod = "smm_code_chk" /\ pc = "loop" /\ UNCHANGED <<mod, plat, count, ctl, result>>
      /\ Turn(v, FALSE, acc, b) /\ results' = results \cup {CodeChk(v)}
  BY DEF check_SMM_Code_Chk_En, InLoop
<1> HIDE DEF b
<1>2. Shape' /\ VerdictIsReference' /\ PassedAfterAllThreads' /\ pc' # "idle"
  BY <1>1, TurnShape DEF Inv
<1>3. FoundCodeChk'
  <2>1. /\ Len(seen) \in Nat /\ DOMAIN seen = 1 .. Len(seen) /\ DOMAIN seen' = 1 .. Len(seen) + 1
        /\ seen'[Len(seen) + 1] = v /\ \A i \in 1 .. Len(seen) : seen'[i] = seen[i]
    BY <1>1, AppendFacts DEF Inv, Shape, Turn
  <2>2. results = {CodeChk(seen[i]) : i \in DOMAIN seen}
    BY <1>1 DEF Inv, Found, FoundCodeChk
  <2>3. ASSUME NEW r \in results' PROVE \E i \in DOMAIN seen' : r = CodeChk(seen'[i])
    <3>1. CASE r = CodeChk(v)
      BY <2>1, <3>1
    <3>2. CASE r \in results
      <4>1. PICK i \in DOMAIN seen : r = CodeChk(seen[i])
        BY <2>2, <3>2
      <4> QED
        BY <2>1, <4>1
    <3> QED
      BY <1>1, <3>1, <3>2
  <2>4. ASSUME NEW i \in DOMAIN seen' PROVE CodeChk(seen'[i]) \in results'
    <3>1. CASE i = Len(seen) + 1
      BY <1>1, <2>1, <3>1
    <3>2. CASE i \in DOMAIN seen
      BY <1>1, <2>1, <2>2, <3>2
    <3> QED
      BY <2>1, <3>1, <3>2
  <2>5. \A r : r \in results' <=> \E i \in DOMAIN seen' : r = CodeChk(seen'[i])
    BY <2>3, <2>4
  <2> QED
    BY <2>5 DEF FoundCodeChk, CodeChk
<1> QED
  BY <1>1, <1>2, <1>3 DEF Inv, Found, OnIntel

LEMMA DebugStep ==
  ASSUME N \in Nat \ {0}, Inv, NEW v \in ThreadValues, check_cpu_debug_enable(v)
  PROVE  Inv'
<1>1. /\ mod = "debugenabled" /\ pc = "loop" /\ UNCHANGED <<mod, plat, count, ctl, result>>
      /\ \E b : Turn(v, FALSE, DebugFound(v), b)
  BY DEF check_cpu_debug_enable, InLoop
<1>2. PICK b : Turn(v, FALSE, DebugFound(v), b)
  BY <1>1
<1>3. Shape' /\ VerdictIsReference' /\ PassedAfterAllThreads' /\ pc' # "idle"
  BY <1>1, <1>2, TurnShape DEF Inv
<1>4. FoundDebug'
  <2> DEFINE Bad(s) == \E i \in DOMAIN s : s[i].enable \/ ~s[i].lock
             Event(s) == \E i \in DOMAIN s : s[i].occurred
  <2>1. /\ Len(seen) \in Nat /\ DOMAIN seen = 1 .. Len(seen) /\ DOMAIN seen' = 1 .. Len(seen) + 1
        /\ seen'[Len(seen) + 1] = v /\ \A i \in 1 .. Len(seen) : seen'[i] = seen[i]
    BY <1>2, AppendFacts DEF Inv, Shape, Turn
  <2>2. Bad(seen') <=> Bad(seen) \/ v.enable \/ ~v.lock
    BY <2>1
  <2>3. Event(seen') <=> Event(seen) \/ v.occurred
    BY <2>1
  <2>4. acc = IF Bad(seen) THEN "FAILED" ELSE IF Event(seen) THEN "WARNING" ELSE "PASSED"
    BY <1>1 DEF Inv, Found, FoundDebug
  <2>5. acc' = DebugFound(v)
    BY <1>2 DEF Turn
  <2>6. FoundDebug' <=>
          acc' = IF Bad(seen') THEN "FAILED" ELSE IF Event(seen') THEN "WARNING" ELSE "PASSED"
    BY DEF FoundDebug
  <2> HIDE DEF Bad, Event
  <2> QED
    BY <2>2, <2>3, <2>4, <2>5, <2>6 DEF DebugFound
<1> QED
  BY <1>1, <1>3, <1>4 DEF Inv, Found, OnIntel
-----------------------------------------------------------------------------
\* spectre_v2 goes on to IA32_SPEC_CTRL only after every thread had enhanced IBRS.
LEMMA SpecCtrlBeginStep ==
  ASSUME N \in Nat \ {0}, Inv, SpecCtrlBegin
  PROVE  Inv'
<1> USE DEF SpecCtrlBegin
<1>1. ThreadValues' = ThreadValues /\ OnIntel /\ OnIntel' /\ pc' = "ctl"
  BY ValuesStay DEF OnIntel
<1>2. Len(seen) = count /\ Len(ctl) = 0 /\ 0 < count
  BY <1>1 DEF Inv, Shape
<1>3. Shape'
  BY <1>1, <1>2 DEF Inv, Shape, Uncounted, SpecCtrls
<1>4. FoundSpectre'
  BY <1>1 DEF Inv, Found, FoundSpectre, NoIbrs, NotEnabled
<1> QED
  BY <1>1, <1>3, <1>4 DEF Inv, Found, OnIntel, VerdictIsReference, PassedAfterAllThreads, Over

LEMMA SpecCtrlStep ==
  ASSUME N \in Nat \ {0}, Inv, NEW v \in SpecCtrls, SpecCtrl(v)
  PROVE  Inv'
<1> USE DEF SpecCtrl
<1>1. /\ ThreadValues' = ThreadValues /\ OnIntel /\ OnIntel' /\ pc = "ctl"
      /\ pc' \in {"ctl", "decide"}
  BY ValuesStay DEF OnIntel, Inv, Shape
<1>2. /\ ctl' \in Seq(SpecCtrls) /\ Len(ctl') = Len(ctl) + 1 /\ ctl' # <<>> /\ Len(ctl) \in Nat
      /\ DOMAIN ctl = 1 .. Len(ctl) /\ DOMAIN ctl' = 1 .. Len(ctl) + 1
      /\ ctl'[Len(ctl) + 1] = v /\ \A i \in 1 .. Len(ctl) : ctl'[i] = ctl[i]
  BY AppendFacts DEF Inv, Shape
<1>3. ~NoIbrs /\ ~NoIbrs'
  BY <1>1 DEF Inv, Found, FoundSpectre, NoIbrs
<1>4. NotEnabled' <=> NotEnabled \/ ~v.ibrs
  BY <1>2 DEF NotEnabled
<1>5. FoundSpectre'
  BY <1>1, <1>3, <1>4 DEF Inv, Found, FoundSpectre
<1>6. ~v.readable => ~v.ibrs
  BY DEF SpecCtrls
<1>7. acc' = (IF v.ibrs THEN acc ELSE "WARNING") /\ tid' = tid + 1
      /\ pc' = (IF ~v.readable \/ tid + 1 = count THEN "decide" ELSE "ctl")
      /\ UNCHANGED <<mod, plat, count, seen>>
  OBVIOUS
<1>8. Shape'
  BY <1>1, <1>2, <1>6, <1>7 DEF Inv, Shape, Uncounted, SpecCtrls
<1> QED
  BY <1>1, <1>5, <1>8 DEF Inv, Found, OnIntel, VerdictIsReference, PassedAfterAllThreads, Over

LEMMA RaisesStep ==
  ASSUME Inv, ReadRaises
  PROVE  Inv'
<1>1. ThreadValues' = ThreadValues
  BY ValuesStay DEF ReadRaises
<1> QED
  BY <1>1 DEF ReadRaises, Inv, Shape, VerdictIsReference, PassedAfterAllThreads, Over, SpecCtrls, Uncounted
-----------------------------------------------------------------------------
\* A decision that returns the reference, and PASSED only after all threads, keeps the invariant.
LEMMA ReturnsStep ==
  ASSUME Inv, NEW r, NEW b, Returns(r, b),
         ~OnAmd => r = Reference,
         r = "PASSED" /\ ~OnRetpoline
           => Len(seen) = count /\ (mod = "spectre_v2" /\ ~OnAmd => Len(ctl) = count)
  PROVE  Inv'
<1>1. UNCHANGED <<mod, plat, count, tid, seen, ctl, acc, results>> /\ pc' = "idle" /\ result' = r
  BY DEF Returns
<1>2. ThreadValues' = ThreadValues
  BY <1>1, ValuesStay
<1>3. Reference' = Reference /\ OnAmd' = OnAmd /\ OnRetpoline' = OnRetpoline /\ Uncounted' = Uncounted
  BY <1>1 DEF Reference, Some, OnAmd, OnRetpoline, Uncounted
<1>4. Shape'
  BY <1>1, <1>2, <1>3 DEF Inv, Shape, SpecCtrls
<1>5. count = IF Uncounted THEN 1 ELSE N
  BY DEF Inv, Shape
<1>6. VerdictIsReference' /\ PassedAfterAllThreads'
  BY <1>1, <1>3, <1>5 DEF VerdictIsReference, PassedAfterAllThreads
<1> QED
  BY <1>1, <1>4, <1>6 DEF Inv

\* The reference speaks of sets of values.
LEMMA SomeExists ==
  /\ \A w : Some({w}) <=> Exists(seen, w)
  /\ \A w, u : Some({w, u}) <=> Exists(seen, w) \/ Exists(seen, u)
  BY DEF Some, Exists

LEMMA MemlockDecidesStep ==
  ASSUME Inv, MemlockDecides
  PROVE  Inv'
<1>1. mod = "memlock" /\ pc = "decide" /\ ~OnAmd
  BY DEF MemlockDecides, Deciding, OnAmd
<1>2. Reference = acc
  BY <1>1, SomeExists DEF Reference, Inv, Found, FoundMemlock
<1>3. acc = "PASSED" => Len(seen) = count
  BY <1>1 DEF Inv, Shape, OnIntel
<1>4. \E b : Returns(acc, b)
  BY DEF MemlockDecides
<1> QED
  BY <1>1, <1>2, <1>3, <1>4, ReturnsStep

LEMMA LocksDecideStep ==
  ASSUME Inv, LocksDecide
  PROVE  Inv'
<1>1. mod \in {"ia32cfg", "ia_untrusted"} /\ pc = "decide" /\ ~OnAmd
  BY DEF LocksDecide, Deciding, OnAmd
<1>2. Reference = acc
  BY <1>1, SomeExists DEF Reference, Inv, Found, FoundLock, FoundUntrusted
<1>3. Len(seen) = count
  BY <1>1 DEF Inv, Shape, OnIntel
<1>4. \E b : Returns(acc, b)
  BY DEF LocksDecide
<1> QED
  BY <1>1, <1>2, <1>3, <1>4, ReturnsStep

LEMMA SpectreDecidesStep ==
  ASSUME Inv, SpectreDecides
  PROVE  Inv'
<1>1. OnIntel /\ mod = "spectre_v2" /\ pc = "decide" /\ ~OnAmd
  BY DEF SpectreDecides, Deciding, OnIntel, OnAmd
<1>2. acc = IF NoIbrs THEN "FAILED" ELSE IF NotEnabled THEN "WARNING" ELSE "PASSED"
  BY <1>1 DEF Inv, Found, FoundSpectre
<1>3. acc = "PASSED" => Len(seen) = count /\ Len(ctl) = count
  BY <1>1 DEF SpectreDecides, Inv, Shape
<1>4. ~OnRetpoline => plat.retpoline # "yes"
  BY <1>1 DEF OnRetpoline, OnIntel
<1>5. Reference = IF plat.retpoline = "yes" THEN "PASSED" ELSE SpectreHardware.r
  <2>1. Reference =
          IF plat.retpoline = "yes" THEN "PASSED"
          ELSE IF ~plat.ibrs_ibpb THEN "FAILED"
          ELSE IF plat.arch_cap /\ plat.stibp /\ ~Some({"0", "unreadable"})
                    /\ \A i \in DOMAIN ctl : ctl[i].ibrs
            THEN "PASSED" ELSE "WARNING"
    BY <1>1 DEF Reference
  <2>2. /\ Some({"0", "unreadable"}) <=> Exists(seen, "0") \/ Exists(seen, "unreadable")
        /\ (\A i \in DOMAIN ctl : ctl[i].ibrs) <=> ~NotEnabled
    BY SomeExists DEF NotEnabled
  <2> QED
    BY <1>2, <2>1, <2>2 DEF SpectreHardware, NoIbrs
<1>6. \E b : Returns(IF plat.retpoline = "yes" THEN "PASSED" ELSE SpectreHardware.r, b)
  BY DEF SpectreDecides
<1>7. SpectreHardware.r = "PASSED" => acc = "PASSED"
  BY <1>2 DEF SpectreHardware
<1> DEFINE r == IF plat.retpoline = "yes" THEN "PASSED" ELSE SpectreHardware.r
<1>8. r = "PASSED" /\ ~OnRetpoline => Len(seen) = count /\ Len(ctl) = count
  BY <1>3, <1>4, <1>7
<1>9. \E b : Returns(r, b)
  BY <1>6
<1>10. r = Reference
  BY <1>5
<1> HIDE DEF r
<1> QED
  BY <1>1, <1>8, <1>9, <1>10, ReturnsStep

LEMMA AmdDecidesStep ==
  ASSUME Inv, AmdDecides
  PROVE  Inv'
<1>1. OnAmd /\ pc = "decide" /\ ~OnIntel /\ mod = "spectre_v2"
  BY DEF AmdDecides, Deciding, OnIntel, OnAmd
<1>2. Len(seen) = count
  BY <1>1 DEF Inv, Shape
<1>3. Returns("PASSED", {})
  BY DEF AmdDecides
<1> QED
  BY <1>1, <1>2, <1>3, ReturnsStep

\* The set of what the threads are, folded to one verdict, is the quantified statement.
LEMMA CodeChkDecidesStep ==
  ASSUME N \in Nat \ {0}, Inv, CodeChkDecides
  PROVE  Inv'
<1>1. mod = "smm_code_chk" /\ pc = "decide" /\ ~OnAmd
  BY DEF CodeChkDecides, Deciding, OnAmd
<1>2. Len(seen) = count
  BY <1>1 DEF Inv, Shape, OnIntel
<1>3. 1 \in DOMAIN seen
  BY <1>2 DEF Inv, Shape
<1>4. \A r : r \in results <=> \E i \in DOMAIN seen : r = CodeChk(seen[i])
  BY <1>1 DEF Inv, Found, FoundCodeChk, CodeChk
<1>5. Reference = IF \A i \in DOMAIN seen : seen[i].en /\ seen[i].lock THEN "PASSED"
                  ELSE IF \A i \in DOMAIN seen : ~seen[i].en THEN "WARNING" ELSE "FAILED"
  BY <1>1 DEF Reference
<1>6. CASE \E r1, r2 \in results : r1 # r2
  <2>1. PICK i, j \in DOMAIN seen : CodeChk(seen[i]) # CodeChk(seen[j])
    BY <1>4, <1>6
  <2>2. Reference = "FAILED"
    BY <1>5, <2>1 DEF CodeChk
  <2>3. \E b : Returns("FAILED", b)
    BY <1>6 DEF CodeChkDecides
  <2> QED
    BY <1>1, <1>2, <2>2, <2>3, ReturnsStep
<1>7. CASE \E r \in {"FAILED", "WARNING", "PASSED"} : results = {r}
  <2>1. PICK r \in {"FAILED", "WARNING", "PASSED"} : results = {r}
    BY <1>7
  <2>2. \A i \in DOMAIN seen : CodeChk(seen[i]) = r
    BY <1>4, <2>1
  <2>3. Reference = r
    BY <1>3, <1>5, <2>1, <2>2 DEF CodeChk
  <2>4. \E b : Returns(r, b)
    BY <2>1 DEF CodeChkDecides
  <2> QED
    BY <1>1, <1>2, <2>3, <2>4, ReturnsStep
<1> QED
  BY <1>6, <1>7 DEF CodeChkDecides

LEMMA DebugDecidesStep ==
  ASSUME Inv, DebugDecides
  PROVE  Inv'
<1>1. mod = "debugenabled" /\ pc = "decide" /\ ~OnAmd
  BY DEF DebugDecides, Deciding, OnAmd
<1>2. Len(seen) = count
  BY <1>1 DEF Inv, Shape, OnIntel
<1>3. Reference = IF plat.sample THEN "INFORMATION"
                  ELSE IF plat.ectrl = "1" \/ acc = "FAILED" THEN "FAILED"
                  ELSE IF acc = "WARNING" THEN "WARNING" ELSE "PASSED"
  BY <1>1 DEF Reference, Inv, Found, FoundDebug
<1>4. acc \in {"FAILED", "WARNING", "PASSED"}
  BY <1>1 DEF Inv, Found, FoundDebug
<1>5. \E b : Returns(Reference, b)
  BY <1>3, <1>4 DEF DebugDecides
<1> QED
  BY <1>1, <1>2, <1>5, ReturnsStep

LEMMA SmrrDecidesStep ==
  ASSUME Inv, SmrrDecides
  PROVE  Inv'
<1>1. mod = "smrr" /\ pc = "decide" /\ ~OnAmd
  BY DEF SmrrDecides, Deciding, OnAmd
<1>2. acc = "PASSED" <=> plat.programmed /\ ~Some({"differs"})
  BY <1>1, SomeExists DEF Inv, Found, FoundSmrr
<1>3. Reference = IF acc = "PASSED" /\ plat.blocked /\ (plat.modify => ~plat.writable)
                    THEN "PASSED" ELSE "FAILED"
  BY <1>1, <1>2 DEF Reference
<1>4. Reference = "PASSED" => Len(seen) = count
  BY <1>1, <1>3 DEF Inv, Shape, OnIntel
<1>5. \E b : Returns(Reference, b)
  BY <1>3 DEF SmrrDecides
<1> QED
  BY <1>1, <1>4, <1>5, ReturnsStep
-----------------------------------------------------------------------------
LEMMA InvStep ==
  ASSUME N \in Nat \ {0}, Inv, [Next]_vars
  PROVE  Inv'
<1>1. CASE \E m \in Modules : \E p \in Platforms(m), c \in Counts(m) : Begin(m, p, c)
  BY <1>1, BeginStep
<1>2. CASE \E v \in ThreadValues : ReadThread(v)
  <2>1. PICK v \in ThreadValues : ReadThread(v)
    BY <1>2
  <2> QED
    BY <2>1, MemlockStep, LockStep, ArchStep, AmdStep, CodeChkStep, DebugStep, SmrrStep
       DEF ReadThread
<1>3. CASE SpecCtrlBegin
  BY <1>3, SpecCtrlBeginStep
<1>4. CASE \E v \in SpecCtrls : SpecCtrl(v)
  BY <1>4, SpecCtrlStep
<1>5. CASE ReadRaises
  BY <1>5, RaisesStep
<1>6. CASE Decide
  BY <1>6, MemlockDecidesStep, LocksDecideStep, SpectreDecidesStep, AmdDecidesStep,
     CodeChkDecidesStep, DebugDecidesStep, SmrrDecidesStep DEF Decide
<1>7. CASE UNCHANGED vars
  <2>1. UNCHANGED <<mod, plat, pc, count, tid, seen, ctl, acc, results, result>>
    BY <1>7 DEF vars
  <2>2. ThreadValues' = ThreadValues
    BY <2>1, ValuesStay
  <2>3. Shape' = Shape
    BY <2>1, <2>2 DEF Shape, OnIntel, SpecCtrls, Uncounted
  <2>4. Found' = Found
    BY <2>1 DEF Found, OnIntel, FoundMemlock, FoundLock, FoundUntrusted, FoundCodeChk, FoundDebug,
       FoundSmrr, FoundSpectre, NoIbrs, NotEnabled, Exists, CodeChk
  <2>5. Reference' = Reference
    BY <2>1 DEF Reference, Some
  <2>6. VerdictIsReference' = VerdictIsReference
    BY <2>1, <2>5 DEF VerdictIsReference, Over, OnAmd, NoSmrr
  <2>7. PassedAfterAllThreads' = PassedAfterAllThreads
    BY <2>1 DEF PassedAfterAllThreads, Over, OnAmd, OnRetpoline, Uncounted
  <2> QED
    BY <2>1, <2>3, <2>4, <2>6, <2>7 DEF Inv
<1> QED
  BY <1>1, <1>2, <1>3, <1>4, <1>5, <1>6, <1>7 DEF Next

\* Whatever the number of threads and the order of their values, the verdict of each module is
\* the one they amount to together (debugenabled.py:145, memlock.py:83): for spectre_v2 by the table
\* over its final decision, and for smrr where the range is supported.
THEOREM VerdictCorrect == ASSUME N \in Nat \ {0} PROVE Spec => []VerdictIsReference
<1>1. Inv => VerdictIsReference
  BY DEF Inv
<1>2. Inv /\ [Next]_vars => Inv'
  BY InvStep
<1> QED
  BY <1>1, <1>2, InvInit, PTL DEF Spec

\* Whatever the number of threads, a module passes only after it has looked at every one of them,
\* spectre_v2 on Intel at both registers (spectre_v2.py:217) and, where it had no count
\* (spectre_v2.py:162), at the one thread it supposes.
THEOREM AllThreadsSeen == ASSUME N \in Nat \ {0} PROVE Spec => []PassedAfterAllThreads
<1>1. Inv => PassedAfterAllThreads
  BY DEF Inv
<1>2. Inv /\ [Next]_vars => Inv'
  BY InvStep
<1> QED
  BY <1>1, <1>2, InvInit, PTL DEF Spec
-----------------------------------------------------------------------------
(***************************************************************************)
(* The status bits: a module that keeps some during its loop has one        *)
(* exactly if it has a finding; the others set theirs with the verdict.     *)
(***************************************************************************)
BitsFound ==
  /\ mod \in {"memlock", "spectre_v2", "smrr"} => bits = {}
  /\ mod \in {"ia32cfg", "ia_untrusted"} => acc \in {"PASSED", "FAILED"} /\ (bits = {} <=> acc = "PASSED")
  /\ mod = "debugenabled" => acc \in {"PASSED", "WARNING", "FAILED"} /\ (bits = {} <=> acc = "PASSED")
  /\ mod = "smm_code_chk" => (bits = {} <=> "FAILED" \notin results)

BitsInv ==
  /\ mod \in Modules /\ pc \in {"idle", "loop", "ctl", "decide"}
  /\ pc = "ctl" => mod = "spectre_v2"
  /\ pc # "idle" => BitsFound
  /\ StatusAgrees

LEMMA BitsInit == Init => BitsInv
BY DEF Init, BitsInv, StatusAgrees, Over

\* While run() is under way there is no verdict yet to agree with.
LEMMA NotOver == pc' # "idle" => StatusAgrees'
BY DEF StatusAgrees, Over

LEMMA BitsBegin ==
  ASSUME NEW m \in Modules, NEW p \in Platforms(m), NEW c, Begin(m, p, c)
  PROVE  BitsInv'
<1>1. /\ mod' = m /\ pc' \in {"loop", "decide"} /\ acc' \in {"PASSED", "FAILED"} /\ results' = {}
      /\ m \in {"memlock", "spectre_v2", "smrr", "ia32cfg", "debugenabled", "smm_code_chk"} => bits' = {}
      /\ m \in {"ia32cfg", "debugenabled"} => acc' = "PASSED"
      /\ m = "ia_untrusted" => (bits' = {} <=> acc' = "PASSED")
  BY DEF Begin
<1> QED
  BY <1>1, NotOver DEF BitsInv, BitsFound

LEMMA BitsRead ==
  ASSUME BitsInv, NEW v, ReadThread(v)
  PROVE  BitsInv'
<1> USE DEF Turn, InLoop, BitsInv, BitsFound
<1>0. pc = "loop" /\ mod' = mod /\ pc' \in {"loop", "decide"}
  BY DEF ReadThread, check_MSR_LT_LOCK_MEMORY, check_ia32feature_control, check_untrusted,
     ArchCapabilities, AmdSpecCtrl, check_SMM_Code_Chk_En, check_cpu_debug_enable, check_SMRR
<1>1. CASE check_MSR_LT_LOCK_MEMORY(v) \/ ArchCapabilities(v) \/ AmdSpecCtrl(v) \/ check_SMRR(v)
  <2>1. bits' = bits \cup {} /\ mod \in {"memlock", "spectre_v2", "smrr"}
    BY <1>1 DEF check_MSR_LT_LOCK_MEMORY, ArchCapabilities, AmdSpecCtrl, check_SMRR
  <2> QED
    BY <1>0, <2>1, NotOver
<1>2. CASE check_ia32feature_control(v) \/ check_untrusted(v)
  <2>1. /\ acc' = (IF v = "0" THEN "FAILED" ELSE acc) /\ mod \in {"ia32cfg", "ia_untrusted"}
        /\ v = "0" => bits' # {}
        /\ v # "0" => (bits' = {} <=> bits = {})
    BY <1>2 DEF check_ia32feature_control, check_untrusted
  <2> QED
    BY <1>0, <2>1, NotOver
<1>3. CASE check_SMM_Code_Chk_En(v)
  <2>1. /\ results' = results \cup {CodeChk(v)} /\ mod = "smm_code_chk"
        /\ bits' = bits \cup (IF CodeChk(v) = "FAILED" THEN {"LOCKS"} ELSE {})
    BY <1>3 DEF check_SMM_Code_Chk_En
  <2> QED
    BY <1>0, <2>1, NotOver
<1>4. CASE check_cpu_debug_enable(v)
  <2>1. /\ acc' = DebugFound(v) /\ mod = "debugenabled"
        /\ bits' = bits \cup ((IF v.enable \/ v.occurred THEN {"DEBUG_FEATURE"} ELSE {})
                                \cup (IF ~v.lock THEN {"LOCKS"} ELSE {}))
    BY <1>4 DEF check_cpu_debug_enable
  <2>2. acc' \in {"PASSED", "WARNING", "FAILED"} /\ (bits' = {} <=> acc' = "PASSED")
    BY <1>0, <2>1 DEF DebugFound
  <2> QED
    BY <1>0, <2>1, <2>2, NotOver
<1> QED
  BY <1>1, <1>2, <1>3, <1>4 DEF ReadThread

LEMMA BitsDecide ==
  ASSUME BitsInv, Decide
  PROVE  BitsInv'
<1>0. /\ pc = "decide" /\ pc' = "idle" /\ mod' = mod /\ plat' = plat /\ BitsFound
  BY DEF BitsInv, Decide, MemlockDecides, LocksDecide, SpectreDecides, AmdDecides, CodeChkDecides,
     DebugDecides, SmrrDecides, Deciding, Returns
<1> SUFFICES (OnRetpoline \/ (mod = "debugenabled" /\ plat.sample)) \/ (bits' = {} <=> result' = "PASSED")
  BY <1>0 DEF BitsInv, StatusAgrees, RcPassed, OnRetpoline
<1> USE DEF Deciding, Returns, BitsFound
<1>1. CASE MemlockDecides
  BY <1>0, <1>1 DEF MemlockDecides
<1>2. CASE LocksDecide
  BY <1>0, <1>2 DEF LocksDecide
<1>3. CASE SpectreDecides
  BY <1>0, <1>3 DEF SpectreDecides, SpectreHardware, OnRetpoline
<1>4. CASE AmdDecides
  BY <1>0, <1>4 DEF AmdDecides
<1>5. CASE CodeChkDecides
  BY <1>0, <1>5 DEF CodeChkDecides
<1>6. CASE DebugDecides
  BY <1>0, <1>6 DEF DebugDecides
<1>7. CASE SmrrDecides
  BY <1>0, <1>7 DEF SmrrDecides
<1> QED
  BY <1>1, <1>2, <1>3, <1>4, <1>5, <1>6, <1>7 DEF Decide

LEMMA BitsStep == BitsInv /\ [Next]_vars => BitsInv'
<1> SUFFICES ASSUME BitsInv, [Next]_vars PROVE BitsInv'
  OBVIOUS
<1>1. CASE \E m \in Modules : \E p \in Platforms(m), c \in Counts(m) : Begin(m, p, c)
  BY <1>1, BitsBegin
<1>2. CASE \E v \in ThreadValues : ReadThread(v)
  BY <1>2, BitsRead
<1>3. CASE SpecCtrlBegin
  BY <1>3, NotOver DEF SpecCtrlBegin, BitsInv, BitsFound
<1>4. CASE \E v \in SpecCtrls : SpecCtrl(v)
  BY <1>4, NotOver DEF SpecCtrl, BitsInv, BitsFound
<1>5. CASE ReadRaises
  BY <1>5 DEF ReadRaises, BitsInv, StatusAgrees, Over
<1>6. CASE Decide
  BY <1>6, BitsDecide
<1>7. CASE UNCHANGED vars
  BY <1>7 DEF vars, BitsInv, BitsFound, StatusAgrees, Over, OnRetpoline, RcPassed
<1> QED
  BY <1>1, <1>2, <1>3, <1>4, <1>5, <1>6, <1>7 DEF Next
=============================================================================
