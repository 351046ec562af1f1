------------------------- MODULE ChipsecMainProofs -------------------------
(***************************************************************************)
(* Proofs about ChipsecMain, for any modules, results and command lines.    *)
(***************************************************************************)
EXTENDS ChipsecMain, FiniteSetTheorems, WellFoundedInduction, TLAPS

\* With a driver, everything from the opening of the device on uses this run's.
DriverInv == pc \in {"open", "detect", "load", "run", "destroy"} /\ ~sw.no_driver
               => driver = "fresh"

IInv == DriverInv /\ DriverReleased

\* The first run starts with the device not yet opened.
LEMMA InitIInv == Init => IInv
BY DEF Init, IInv, DriverInv, DriverReleased, Completed

\* The driver: which runs hold one, and which give it back.
LEMMA DriverStep == IInv /\ [Next]_vars => DriverInv' /\ DriverReleased'
<1> SUFFICES ASSUME IInv, [Next]_vars
             PROVE  DriverInv' /\ DriverReleased'
  OBVIOUS
<1> USE DEF IInv, DriverInv, DriverReleased, Completed, Ends, Return, Raise, Refuse
<1>1. CASE StartUnload
  BY <1>1 DEF StartUnload, Unload
<1>2. CASE StartInsmod
  BY <1>2 DEF StartInsmod, InitFails
<1>3. CASE StartOpen
  BY <1>3 DEF StartOpen, InitFails
<1>4. CASE NoHelper
  BY <1>4 DEF NoHelper
<1>5. CASE Detect
  BY <1>5 DEF Detect, UnknownChipset, InitFails
<1>6. CASE LoadModules
  BY <1>6 DEF LoadModules
<1>7. CASE \E a \in Attributes : RunModule(a)
  <2>1. PICK a \in Attributes : RunModule(a)
    BY <1>7
  <2>2. /\ pc = "run" /\ UNCHANGED <<sw, driver, rmmodFailed>>
        /\ (pc' = pc /\ exit' = exit) \/ (pc' = "over" /\ exit'.how = "raised")
    BY <2>1 DEF RunModule, Unnamed, SystemExit
  <2> QED
    BY <2>2
<1>8. CASE Report
  BY <1>8 DEF Report
<1>9. CASE DestroyHelper
  BY <1>9 DEF DestroyHelper, Unload
<1>10. CASE NextRun
  BY <1>10 DEF NextRun, Fresh
<1>11. CASE UNCHANGED vars
  BY <1>11 DEF vars, results
<1> QED
  BY <1>1, <1>2, <1>3, <1>4, <1>5, <1>6, <1>7, <1>8, <1>9, <1>10, <1>11 DEF Next

\* IInv holds in every state of any sequence of runs of chipsec_main.
THEOREM Invariance == Spec => []IInv
<1>1. IInv /\ [Next]_vars => IInv'
  BY DriverStep DEF IInv
<1> QED
  BY InitIInv, <1>1, PTL DEF Spec

\* Test modules only ever reach the driver this run has loaded.
THEOREM DriverIsFresh == Spec => []FreshDriver
<1>1. IInv => FreshDriver
  BY DEF IInv, DriverInv, FreshDriver
<1> QED
  BY Invariance, <1>1, PTL

\* A completed run gives the driver back, or rmmod has failed.
THEOREM DriverIsReleased == Spec => []DriverReleased
<1>1. IInv => DriverReleased
  BY DEF IInv
<1> QED
  BY Invariance, <1>1, PTL

-----------------------------------------------------------------------------
(***************************************************************************)
(* Loaded_Modules.sort(): the sorted sequence of a finite set of names that *)
(* Sorted chooses exists.  Induction on the size of the set, in the form of *)
(* a smallest counterexample.                                               *)
(***************************************************************************)

\* Every nonempty set of natural numbers has a least element.
LEMMA LeastNumber ==
  ASSUME NEW T, T \subseteq Nat, T # {}
  PROVE  \E x \in T : \A y \in T : x <= y
<1> DEFINE R == {p \in Nat \X Nat : p[1] < p[2]}
<1>1. IsWellFoundedOn(R, Nat)
  BY NatLessThanWellFounded, Zenon DEF OpToRel
<1>2. \A x, y \in Nat : y < x => <<y, x>> \in R
  OBVIOUS
<1> HIDE DEF R
<1>3. PICK x \in T : \A y \in T : ~ (<<y, x>> \in R)
  BY <1>1, WFMin
<1>4. \A y \in T : ~(y < x)
  BY <1>2, <1>3
<1> QED
  BY <1>4

\* s enumerates S in increasing order.
Enumerates(s, S, n) == /\ s \in [1 .. n -> S]
                       /\ \A i, j \in 1 .. n : i < j => s[i] < s[j]

\* Putting a lower bound of S in front of an enumeration of the rest.
LEMMA SortedCons ==
  ASSUME NEW S, S \subseteq Nat, NEW m \in S, \A y \in S : m <= y,
         NEW n \in Nat, NEW s, Enumerates(s, S \ {m}, n)
  PROVE  \E t : Enumerates(t, S, n + 1)
<1> DEFINE t == [i \in 1 .. n + 1 |-> IF i = 1 THEN m ELSE s[i - 1]]
<1>1. \A i \in 1 .. n : s[i] \in S /\ m < s[i] /\ s[i] \in Nat
  <2>1. \A i \in 1 .. n : s[i] \in S \ {m}
    BY DEF Enumerates
  <2>2. \A y \in S \ {m} : m < y /\ y \in Nat
    OBVIOUS
  <2> QED
    BY <2>1, <2>2
<1>2. \A i \in 1 .. n + 1 : i # 1 => i - 1 \in 1 .. n
  OBVIOUS
<1>3. t \in [1 .. n + 1 -> S]
  BY <1>1, <1>2
<1>4. ASSUME NEW i \in 1 .. n + 1, NEW j \in 1 .. n + 1, i < j
      PROVE  t[i] < t[j]
  <2>1. j # 1 /\ t[j] = s[j - 1] /\ j - 1 \in 1 .. n
    BY <1>4, <1>2
  <2>2. CASE i = 1
    BY <2>1, <2>2, <1>1
  <2>3. CASE i # 1
    <3>1. t[i] = s[i - 1] /\ i - 1 \in 1 .. n /\ i - 1 < j - 1
      BY <2>3, <1>2, <1>4
    <3> QED
      BY <3>1, <2>1 DEF Enumerates
  <2> QED
    BY <2>2, <2>3
<1> QED
  BY <1>3, <1>4 DEF Enumerates

\* Every finite set of names has an increasing enumeration.
LEMMA SortedExists ==
  ASSUME NEW S, S \subseteq Nat, IsFiniteSet(S)
  PROVE  \E s : Enumerates(s, S, Cardinality(S))
<1> DEFINE Bad(U) == ~ \E s : Enumerates(s, U, Cardinality(U))
           T == {n \in Nat : \E U \in SUBSET Nat : IsFiniteSet(U) /\ Cardinality(U) = n /\ Bad(U)}
<1> SUFFICES ASSUME T # {} PROVE FALSE
  <2>1. Cardinality(S) \in Nat
    BY FS_CardinalityType
  <2> QED
    BY <2>1
<1>1. PICK n \in T : \A y \in T : n <= y
  <2> HIDE DEF T
  <2>1. T \subseteq Nat
    BY DEF T
  <2> QED
    BY <2>1, LeastNumber
<1>2. PICK U \in SUBSET Nat : IsFiniteSet(U) /\ Cardinality(U) = n /\ Bad(U)
  BY <1>1
<1>3. U # {}
  <2> SUFFICES ASSUME U = {} PROVE FALSE
    OBVIOUS
  <2>1. Cardinality(U) = 0
    BY FS_EmptySet
  <2>2. Enumerates([i \in 1 .. 0 |-> 0], U, 0)
    BY DEF Enumerates
  <2> QED
    BY <2>1, <2>2, <1>2
<1>4. PICK m \in U : \A y \in U : m <= y
  BY <1>3, LeastNumber
<1>5. IsFiniteSet(U \ {m}) /\ Cardinality(U \ {m}) = n - 1
  BY <1>2, FS_RemoveElement
<1>6. n - 1 \in Nat
  BY <1>5, FS_CardinalityType
<1>7. n - 1 \notin T
  BY <1>1, <1>6
<1>8. ~ Bad(U \ {m})
  BY <1>5, <1>6, <1>7
<1>9. PICK s : Enumerates(s, U \ {m}, n - 1)
  BY <1>8, <1>5
<1>10. \E t : Enumerates(t, U, (n - 1) + 1)
  BY <1>4, <1>6, <1>9, SortedCons
<1>11. (n - 1) + 1 = n
  BY <1>6
<1> QED
  BY <1>10, <1>11, <1>2

\* Loaded_Modules.sort() keeps the modules, in a sequence of their number.
LEMMA SortedType ==
  ASSUME NEW S, S \subseteq Nat, IsFiniteSet(S)
  PROVE  Sorted(S) \in [1 .. Cardinality(S) -> S]
<1>1. PICK s : Enumerates(s, S, Cardinality(S))
  BY SortedExists
<1> QED
  BY <1>1 DEF Sorted, Enumerates
-----------------------------------------------------------------------------
(***************************************************************************)
(* The results: nothing is recorded before the modules are loaded; then the *)
(* recorded names are those of the first done modules, in order; the exit   *)
(* code is the one get_return_code gives once all of them are there; and an *)
(* exception leaves main() only for the reasons WhyRaised lists.            *)
(***************************************************************************)
WhyRaised ==
  /\ exit.code \in {Code(0), Code(1)}
  /\ exit.code = Code(0) => sw.failfast /\ exceptions # <<>> /\ exit = SystemExit
  /\ \/ sw.failfast \/ sw.return_codes \/ exit.unnamed = "list"
     \/ done = Len(Loaded) /\ SummaryRaises

Recorded == \A i \in 1 .. done : /\ test_cases[i].module = Loaded[i]
                                /\ test_cases[i].result = getModuleResultName(codes[i])

ResultsInv ==
  /\ pc \notin {"run", "destroy", "over"} => done = 0 /\ exceptions = <<>>
  /\ pc # "over" <=> exit.how = "none"
  /\ Len(test_cases) = done /\ Len(codes) = done
  /\ Recorded
  /\ sw.return_codes /\ exit.how # "raised" => exceptions = <<>>
  /\ pc = "destroy" \/ exit.how = "returned"
       => done = Len(Loaded) /\ exit.code = get_return_code /\ ~SummaryRaises
  /\ exit.how = "refused" => exit = Refuse
  /\ exit.how = "raised" => WhyRaised

\* What run_module returns is a result, a return code or what was raised.
LEMMA RunModuleType ==
  ASSUME NEW a \in Attributes
  PROVE  run_module(a).enum \in {"raises", "exits"} \/ run_module(a) \in Codes
<1>1. /\ a.path \in {"malformed", "raises", "ok"} /\ a.object \in BOOLEAN
      /\ a.run \in Results \cup {"raises", "exits"}
      /\ a.status \in Statuses /\ a.id \in {0, 1, 16}
  BY DEF Attributes
<1>2. \A r \in ModuleResult \cup Foreign : Enum(r) \in Codes
  BY DEF Enum, Codes
<1>3. \A r \in ModuleResult \cup Foreign, id \in {0, 1, 16}, st \in Statuses \cup {"ARCHIVED"} :
         getReturnCode(r, st, id) \in Codes
  BY DEF getReturnCode, Enum, Rc, Codes
<1>4. {"ARCHIVED", "NOTAPPLICABLE", "ERROR"} \subseteq ModuleResult \cup Foreign
      /\ "NOT_APPLICABLE" \in Statuses
  BY DEF ModuleResult, Statuses
<1>6. a.run \in {"raises", "exits"} \/ a.run \in ModuleResult \cup Foreign
  BY <1>1, ResultsAssumption
<1>e. \A x : Enum(x).enum = x
  BY DEF Enum
<1>7. CASE a.path = "ok" /\ a.object
  <2>1. run_module(a) =
          IF ~RunIt(a)
            THEN IF a.archived THEN getReturnCode("ARCHIVED", "ARCHIVED", 0)
                               ELSE getReturnCode("NOTAPPLICABLE", "NOT_APPLICABLE", 0)
          ELSE IF ~a.supported THEN getReturnCode("NOTAPPLICABLE", "NOT_APPLICABLE", a.id)
          ELSE IF a.run \in {"raises", "exits"} \/ a.direct THEN Enum(a.run)
          ELSE getReturnCode(a.run, a.status, a.id)
    BY <1>7 DEF run_module
  <2>2. /\ getReturnCode("ARCHIVED", "ARCHIVED", 0) \in Codes
        /\ getReturnCode("NOTAPPLICABLE", "NOT_APPLICABLE", 0) \in Codes
        /\ getReturnCode("NOTAPPLICABLE", "NOT_APPLICABLE", a.id) \in Codes
    BY <1>1, <1>3, <1>4
  <2>3. a.run \notin {"raises", "exits"} => getReturnCode(a.run, a.status, a.id) \in Codes
    BY <1>1, <1>3, <1>6
  <2>4. a.run \notin {"raises", "exits"} => Enum(a.run) \in Codes
    BY <1>2, <1>6
  <2>5. a.run \in {"raises", "exits"} => Enum(a.run).enum \in {"raises", "exits"}
    BY <1>e
  <2> QED
    BY <2>1, <2>2, <2>3, <2>4, <2>5, Zenon
<1>8. CASE a.path = "malformed"
  BY <1>8, <1>2, <1>4 DEF run_module
<1>9. CASE a.path = "raises" \/ (a.path = "ok" /\ ~a.object)
  BY <1>9, <1>e DEF run_module
<1> QED
  BY <1>1, <1>7, <1>8, <1>9

\* A result has one of the names that the report knows, or no name at all.
LEMMA NameType ==
  ASSUME NEW r \in Codes
  PROVE  /\ getModuleResultName(r) \in ResultNames \cup {"TypeError"}
         /\ getModuleResultName(r) = "TypeError" => sw.return_codes \/ r.enum = "list"
<1>1. \A e \in ModuleResult : ModuleResultName[e] \in ResultNames
  BY DEF ResultNames
<1>2. {"Passed", "Archived", "Failed", "Error"} \subseteq ResultNames
  <2>1. /\ ModuleResultName["PASSED"] = "Passed" /\ ModuleResultName["ARCHIVED"] = "Archived"
        /\ ModuleResultName["FAILED"] = "Failed" /\ ModuleResultName["ERROR"] = "Error"
        /\ {"PASSED", "ARCHIVED", "FAILED", "ERROR"} \subseteq ModuleResult
    BY DEF ModuleResultName, ModuleResult
  <2> QED
    BY <2>1, <1>1
<1>3. "TypeError" \notin ResultNames
  BY DEF ResultNames, ModuleResult, ModuleResultName
<1>4. CASE ~sw.return_codes
  <2>1. getModuleResultName(r) = IF r.enum \in ModuleResult THEN ModuleResultName[r.enum]
                                 ELSE IF r.enum = "list" THEN "TypeError" ELSE "Error"
    BY <1>4 DEF getModuleResultName
  <2>2. CASE r.enum \in ModuleResult
    BY <2>1, <2>2, <1>1, <1>3
  <2>3. CASE r.enum \notin ModuleResult
    BY <2>1, <2>3, <1>2, <1>3
  <2> QED
    BY <2>2, <2>3
<1>5. CASE sw.return_codes
  <2>1. getModuleResultName(r) \in {"Passed", "Archived", "Failed", "TypeError"}
    BY <1>5 DEF getModuleResultName
  <2> QED
    BY <2>1, <1>2, <1>5
<1> QED
  BY <1>4, <1>5

\* The exceptions that leave main() from a turn of the loop: --failfast lets a
\* module's own through, and a result without a name raises one.
TurnRaises ==
  /\ pc' = "over" /\ UNCHANGED <<done, test_cases, codes>>
  /\ \/ sw.failfast /\ exit' = Raise
     \/ sw.failfast /\ exit' = SystemExit /\ exceptions' # <<>>
     \/ \E r \in Codes : exit' = Unnamed(r) /\ (sw.return_codes \/ r.enum = "list")

\* One turn of run_loaded_modules, as the proofs below need it: the run ends with
\* an exception, or the result of the module is recorded under its name.
LEMMA Turn ==
  ASSUME NEW a \in Attributes, RunModule(a), TypeOK
  PROVE  /\ done + 1 \in 1 .. Len(Loaded) /\ Loaded[done + 1] \in AllModules
         /\ exceptions' \in {exceptions, Append(exceptions, Loaded[done + 1])}
         /\ UNCHANGED <<sw, driver, known, Loaded, rmmodFailed>>
         /\ \/ TurnRaises
            \/ \E r \in Codes :
                 /\ UNCHANGED <<pc, exit>> /\ done' = done + 1
                 /\ getModuleResultName(r) \in ResultNames
                 /\ codes' = Append(codes, r)
                 /\ test_cases' = Append(test_cases, [module |-> Loaded[done + 1],
                                                      result |-> getModuleResultName(r)])
                 /\ sw.return_codes => exceptions' = exceptions
<1> DEFINE raised == run_module(a).enum \in {"raises", "exits"}
           r == IF raised THEN Enum("ERROR") ELSE run_module(a)
           name == getModuleResultName(r)
           stops == (raised /\ sw.failfast) \/ name = "TypeError"
<1>1. /\ done < Len(Loaded)
      /\ exceptions' = IF raised THEN Append(exceptions, Loaded[done + 1]) ELSE exceptions
      /\ UNCHANGED <<sw, driver, known, Loaded, rmmodFailed>>
      /\ \/ /\ stops /\ pc' = "over" /\ UNCHANGED <<done, test_cases, codes>>
            /\ exit' = IF ~(raised /\ sw.failfast) THEN Unnamed(r)
                       ELSE IF run_module(a).enum = "exits" THEN SystemExit ELSE Raise
         \/ /\ ~stops
            /\ test_cases' = Append(test_cases, [module |-> Loaded[done + 1], result |-> name])
            /\ codes' = Append(codes, r)
            /\ done' = done + 1
            /\ UNCHANGED <<pc, exit>>
  BY DEF RunModule, Ends
<1>2. done + 1 \in 1 .. Len(Loaded) /\ Loaded[done + 1] \in AllModules
  <2>1. Loaded \in Seq(AllModules) /\ done \in 0 .. Len(Loaded)
    BY DEF TypeOK
  <2>2. done + 1 \in 1 .. Len(Loaded)
    BY <2>1, <1>1
  <2> QED
    BY <2>1, <2>2
<1>3. Enum("ERROR") \in Codes /\ Enum("ERROR").enum = "ERROR"
  BY DEF Enum, Codes, ModuleResult
<1>4. r \in Codes
  BY <1>3, RunModuleType
<1>6. /\ name \in ResultNames \cup {"TypeError"}
      /\ name = "TypeError" => sw.return_codes \/ r.enum = "list"
  <2> HIDE DEF r
  <2> QED
    BY <1>4, NameType
<1>7. sw.return_codes /\ raised => name = "TypeError"
  BY <1>3 DEF getModuleResultName
<1>8. exceptions' \in {exceptions, Append(exceptions, Loaded[done + 1])}
  BY <1>1
<1>9. CASE stops
  <2>1. /\ pc' = "over" /\ UNCHANGED <<done, test_cases, codes>>
        /\ exit' = IF ~(raised /\ sw.failfast) THEN Unnamed(r)
                   ELSE IF run_module(a).enum = "exits" THEN SystemExit ELSE Raise
    BY <1>1, <1>9
  <2>2. raised => exceptions' # <<>>
    <3>1. exceptions \in Seq(AllModules)
      BY DEF TypeOK
    <3>2. ASSUME NEW x \in AllModules PROVE Append(exceptions, x) # <<>>
      <4>1. Len(Append(exceptions, x)) = Len(exceptions) + 1 /\ Len(exceptions) \in Nat
        BY <3>1
      <4>2. Len(<<>>) = 0
        OBVIOUS
      <4> QED
        BY <4>1, <4>2
    <3> QED
      BY <3>2, <1>1, <1>2
  <2>3. TurnRaises
    <3>1. CASE raised /\ sw.failfast
      BY <2>1, <2>2, <3>1 DEF TurnRaises
    <3>2. CASE ~(raised /\ sw.failfast)
      <4>1. name = "TypeError" /\ exit' = Unnamed(r)
        BY <1>9, <2>1, <3>2
      <4> HIDE DEF r, name
      <4> QED
        BY <4>1, <2>1, <1>4, <1>6 DEF TurnRaises
    <3> QED
      BY <3>1, <3>2
  <2> QED
    BY <1>1, <1>2, <1>8, <2>3
<1>10. CASE ~stops
  <2>1. name \in ResultNames
    BY <1>6, <1>10
  <2>2. sw.return_codes => exceptions' = exceptions
    BY <1>1, <1>7, <1>10
  <2> HIDE DEF r, raised
  <2> QED
    BY <1>1, <1>2, <1>4, <1>8, <1>10, <2>1, <2>2
<1> QED
  BY <1>9, <1>10

\* The modules that LoadModules sorts are among those the program has.
LEMMA LoadedType ==
  ASSUME sw \in Switches, LoadModules
  PROVE  Loaded' \in Seq(AllModules)
<1> DEFINE found == IF sw.module # {} THEN sw.module
                    ELSE CommonModules \cup (IF known THEN PlatformModules ELSE {})
           S == found \ sw.exclude
<1>1. sw.module \subseteq AllModules
  BY SwitchesAssumption DEF SwitchSet
<1>2. S \subseteq AllModules
  BY <1>1 DEF AllModules
<1>3. AllModules \subseteq Nat /\ IsFiniteSet(AllModules)
  BY ModulesAssumption, FS_Union DEF AllModules
<1>4. Loaded' = Sorted(S)
  BY DEF LoadModules
<1> HIDE DEF S
<1>5. S \subseteq Nat /\ IsFiniteSet(S)
  BY <1>2, <1>3, FS_Subset
<1>6. Sorted(S) \in [1 .. Cardinality(S) -> S]
  BY <1>5, SortedType
<1>7. Cardinality(S) \in Nat
  BY <1>5, FS_CardinalityType
<1>8. Sorted(S) \in [1 .. Cardinality(S) -> AllModules]
  BY <1>6, <1>2
<1> QED
  BY <1>4, <1>7, <1>8

\* The values of main() are integers, and the ways it ends have their type.
ExitsTyped == exit.how \in {"none", "refused", "returned", "raised"} /\ exit.code \in ExitValues

LEMMA ExitTypes ==
  /\ NoExit.how = "none" /\ NoExit.code \in ExitValues
  /\ Refuse.how = "refused" /\ Refuse.code \in ExitValues
  /\ Raise.how = "raised" /\ Raise.code \in ExitValues
  /\ SystemExit.how = "raised" /\ SystemExit.code \in ExitValues
  /\ \A r : Unnamed(r).how = "raised" /\ Unnamed(r).code \in ExitValues
  /\ \A c : /\ Return(c).how = "returned" /\ Return(c).code = c
           /\ Pending(c).how = "none" /\ Pending(c).code = c
BY DEF NoExit, Pending, Refuse, Raise, SystemExit, Unnamed, Return, Code, ExitValues, ExitCode

LEMMA ExitCodeType == TypeOK /\ ResultsInv => get_return_code \in ExitValues
<1> SUFFICES ASSUME TypeOK, ResultsInv PROVE get_return_code \in ExitValues
  OBVIOUS
<1>1. \A n \in Nat : Code(n) \in ExitValues
  BY DEF Code, ExitValues
<1>2. LegacyReturnCode \in Nat
  BY DEF LegacyReturnCode, ExitCode
<1>3. ReturnCodesReturnCode \in ExitValues
  <2>1. CASE Len(test_cases) = 1
    <3>1. codes[1] \in Codes
      <4>1. codes \in Seq(Codes)
        BY DEF TypeOK
      <4>2. Len(codes) = 1
        BY <2>1 DEF ResultsInv
      <4>3. \A i \in 1 .. Len(codes) : codes[i] \in Codes
        BY <4>1
      <4> QED
        BY <4>2, <4>3
    <3>2. CodeValue(codes[1]) \in ExitValues
      <4>1. codes[1].id \in {0, 1, 16}
        BY <3>1 DEF Codes
      <4>2. 16 * codes[1].id \in Nat
        BY <4>1
      <4>3. [low |-> 16 * codes[1].id, wide |-> codes[1].status = "LOCKS"] \in ExitValues
        BY <4>2 DEF ExitValues
      <4> QED
        BY <4>3, <1>1 DEF CodeValue
    <3> QED
      BY <2>1, <3>2 DEF ReturnCodesReturnCode
  <2>2. CASE Len(test_cases) # 1
    BY <2>2, <1>1 DEF ReturnCodesReturnCode, ExitCode
  <2> QED
    BY <2>1, <2>2
<1> QED
  BY <1>1, <1>2, <1>3 DEF get_return_code

\* The first run starts in a state of its type.
LEMMA InitTypeOK == Init => TypeOK
<1>1. \A S : <<>> \in Seq(S)
  OBVIOUS
<1>2. Len(<<>>) = 0
  OBVIOUS
<1>3. NoExit.how = "none" /\ NoExit.code \in ExitValues
  BY ExitTypes
<1>4. 0 \in 0 .. Len(<<>>)
  BY <1>2
<1>5. ASSUME Init
      PROVE  /\ sw \in Switches /\ pc = "init" /\ driver \in {"absent", "fresh", "stale"}
             /\ known = FALSE /\ rmmodFailed = FALSE /\ exit = NoExit
             /\ Loaded = <<>> /\ done = 0 /\ test_cases = <<>> /\ codes = <<>>
             /\ exceptions = <<>>
  BY <1>5 DEF Init
<1> QED
  BY <1>1, <1>3, <1>4, <1>5, Zenon DEF TypeOK

\* Every step of main() keeps the types.
LEMMA TypeStep == TypeOK /\ ResultsInv /\ [Next]_vars => TypeOK'
<1> SUFFICES ASSUME TypeOK, ResultsInv, [Next]_vars
             PROVE  TypeOK'
  OBVIOUS
<1>b. ASSUME InitFails
      PROVE  pc' = "over" /\ ExitsTyped'
  BY <1>b, ExitTypes DEF InitFails, Ends, ExitsTyped
<1> USE DEF ExitsTyped
<1>1. CASE StartUnload
  BY <1>1 DEF StartUnload, Unload, results, TypeOK
<1>2. CASE StartInsmod
  BY <1>2, <1>b DEF StartInsmod, results, TypeOK
<1>3. CASE StartOpen
  BY <1>3, <1>b DEF StartOpen, results, TypeOK
<1>4. CASE NoHelper
  BY <1>4 DEF NoHelper, results, TypeOK
<1>5. CASE Detect
  <2>1. UnknownChipset => \/ InitFails
                          \/ pc' = "load" /\ UNCHANGED exit
    BY DEF UnknownChipset
  <2>2. /\ known' \in BOOLEAN
        /\ InitFails \/ (pc' = "load" /\ UNCHANGED exit)
        /\ UNCHANGED <<sw, driver, results, rmmodFailed>>
    BY <1>5, <2>1 DEF Detect
  <2> QED
    BY <2>2, <1>b DEF results, TypeOK
<1>6. CASE LoadModules
  <2>1. Loaded' \in Seq(AllModules)
    BY <1>6, LoadedType DEF TypeOK
  <2>2. Len(Loaded') \in Nat
    BY <2>1
  <2>3. UNCHANGED <<sw, driver, known, done, test_cases, codes, exceptions, exit, rmmodFailed>>
        /\ pc' = "run" /\ pc = "load"
    BY <1>6 DEF LoadModules
  <2>4. done = 0
    BY <2>3 DEF ResultsInv
  <2>5. done \in 0 .. Len(Loaded')
    BY <2>2, <2>4
  <2> QED
    BY <2>1, <2>3, <2>5 DEF TypeOK
<1>7. CASE \E a \in Attributes : RunModule(a)
  <2>1. PICK a \in Attributes : RunModule(a)
    BY <1>7
  <2> DEFINE m == Loaded[done + 1]
  <2>2. /\ done + 1 \in 1 .. Len(Loaded) /\ m \in AllModules
        /\ exceptions' \in {exceptions, Append(exceptions, m)}
        /\ UNCHANGED <<sw, driver, known, Loaded, rmmodFailed>>
        /\ \/ TurnRaises
           \/ \E r \in Codes :
                /\ UNCHANGED <<pc, exit>> /\ done' = done + 1
                /\ getModuleResultName(r) \in ResultNames
                /\ codes' = Append(codes, r)
                /\ test_cases' = Append(test_cases, [module |-> m,
                                                     result |-> getModuleResultName(r)])
    BY <2>1, Turn
  <2> HIDE DEF m
  <2>3. exceptions' \in Seq(AllModules)
    <3>1. exceptions \in Seq(AllModules)
      BY DEF TypeOK
    <3>2. Append(exceptions, m) \in Seq(AllModules)
      BY <3>1, <2>2
    <3> QED
      BY <3>1, <3>2, <2>2
  <2>4. CASE TurnRaises
    <3>1. pc' = "over" /\ ExitsTyped' /\ UNCHANGED <<done, test_cases, codes>>
      BY <2>4, ExitTypes DEF TurnRaises
    <3> QED
      BY <2>2, <2>3, <3>1 DEF TypeOK
  <2>5. ASSUME NEW r \in Codes,
               /\ UNCHANGED <<pc, exit>> /\ done' = done + 1
               /\ getModuleResultName(r) \in ResultNames
               /\ codes' = Append(codes, r)
               /\ test_cases' = Append(test_cases, [module |-> m,
                                                    result |-> getModuleResultName(r)])
        PROVE  TypeOK'
    <3>1. codes' \in Seq(Codes)
      BY <2>5 DEF TypeOK
    <3>2. [module |-> m, result |-> getModuleResultName(r)]
            \in [module : AllModules, result : ResultNames]
      BY <2>2, <2>5
    <3>3. test_cases' \in Seq([module : AllModules, result : ResultNames])
      BY <2>5, <3>2 DEF TypeOK
    <3>4. done' \in 0 .. Len(Loaded')
      BY <2>2, <2>5
    <3> QED
      BY <2>2, <2>3, <2>5, <3>1, <3>3, <3>4 DEF TypeOK
  <2> QED
    BY <2>2, <2>4, <2>5
<1>8. CASE Report
  <2>1. /\ UNCHANGED <<sw, driver, known, results, rmmodFailed>>
        /\ pc' \in {"over", "destroy"}
        /\ exit' \in {Raise, Return(get_return_code), Pending(get_return_code)}
    BY <1>8 DEF Report, Ends
  <2>2. ASSUME NEW e, e \in {Raise, Return(get_return_code), Pending(get_return_code)}
        PROVE  e.how \in {"none", "refused", "returned", "raised"} /\ e.code \in ExitValues
    <3> HIDE DEF get_return_code
    <3> QED
      BY <2>2, ExitTypes, ExitCodeType
  <2>3. ExitsTyped'
    BY <2>1, <2>2
  <2> QED
    BY <2>1, <2>3 DEF results, TypeOK
<1>9. CASE DestroyHelper
  <2>1. ExitsTyped'
    BY <1>9, ExitTypes DEF DestroyHelper, TypeOK
  <2> QED
    BY <1>9, <2>1 DEF DestroyHelper, Unload, results, TypeOK
<1>10. CASE NextRun
  <2>1. \A S : <<>> \in Seq(S)
    OBVIOUS
  <2>2. Len(<<>>) = 0
    OBVIOUS
  <2>3. NoExit.how = "none" /\ NoExit.code \in ExitValues
    BY ExitTypes
  <2>4. 0 \in 0 .. Len(<<>>)
    BY <2>2
  <2>5. /\ sw' \in Switches /\ pc' = "init" /\ driver' \in {"absent", "fresh", "stale"}
        /\ known' = FALSE /\ rmmodFailed' = FALSE /\ exit' = NoExit
        /\ Loaded' = <<>> /\ done' = 0 /\ test_cases' = <<>> /\ codes' = <<>>
        /\ exceptions' = <<>>
    BY <1>10 DEF NextRun, Fresh
  <2> QED
    BY <2>1, <2>3, <2>4, <2>5, Zenon DEF TypeOK
<1>11. CASE UNCHANGED vars
  BY <1>11 DEF vars, results, TypeOK
<1> QED
  BY <1>1, <1>2, <1>3, <1>4, <1>5, <1>6, <1>7, <1>8, <1>9, <1>10, <1>11 DEF Next

\* The names and the exit code are functions of the switches and of what was recorded.
LEMMA SameResults ==
  ASSUME UNCHANGED <<sw, test_cases, codes, exceptions>>
  PROVE  /\ get_return_code' = get_return_code
         /\ SummaryRaises' = SummaryRaises
<1> USE DEF Has
<1>1. LegacyReturnCode' = LegacyReturnCode
  BY DEF LegacyReturnCode
<1>2. ReturnCodesReturnCode' = ReturnCodesReturnCode
  BY DEF ReturnCodesReturnCode, CodeValue
<1>3. SummaryRaises' = SummaryRaises
  BY DEF SummaryRaises, Unformattable
<1> QED
  BY <1>1, <1>2, <1>3 DEF get_return_code

\* The names that the records are given depend on the switches alone.
LEMMA SameNames ==
  ASSUME UNCHANGED <<sw, codes>>, NEW i
  PROVE  getModuleResultName(codes[i])' = getModuleResultName(codes[i])
BY DEF getModuleResultName

\* The records of a state in which none of them has changed.
LEMMA RecordsKept ==
  ASSUME ResultsInv, UNCHANGED <<sw, Loaded, done, test_cases, codes>>
  PROVE  (Recorded /\ Len(test_cases) = done /\ Len(codes) = done)'
BY SameNames DEF ResultsInv, Recorded

\* The ways out of main() that leave the results alone.
Leaves ==
  \/ pc' = "over" /\ exit' = Refuse
  \/ pc' = "over" /\ exit' = Raise /\ (sw.failfast \/ (done = Len(Loaded) /\ SummaryRaises))
  \/ /\ pc' = "over" /\ exit' = Return(get_return_code)
     /\ done = Len(Loaded) /\ ~SummaryRaises
  \/ /\ pc' = "destroy" /\ exit' = Pending(get_return_code)
     /\ done = Len(Loaded) /\ ~SummaryRaises

\* The steps that leave the results alone.
LEMMA ResultsKept ==
  ASSUME TypeOK, ResultsInv, UNCHANGED <<sw, Loaded, done, test_cases, codes, exceptions>>,
         \/ UNCHANGED <<pc, exit>>
         \/ /\ pc \notin {"destroy", "over"}
            /\ pc' \notin {"run", "destroy", "over"} => pc # "run"
            /\ pc' \notin {"destroy", "over"} /\ exit' = exit
         \/ exit.how = "none" /\ Leaves
  PROVE  ResultsInv'
<1>1. get_return_code' = get_return_code /\ SummaryRaises' = SummaryRaises
  BY SameResults
<1>2. (Recorded /\ Len(test_cases) = done /\ Len(codes) = done)'
  BY RecordsKept
<1>3. /\ pc \notin {"run", "destroy", "over"} => done = 0 /\ exceptions = <<>>
      /\ pc # "over" <=> exit.how = "none"
      /\ sw.return_codes /\ exit.how # "raised" => exceptions = <<>>
      /\ pc = "destroy" \/ exit.how = "returned"
           => done = Len(Loaded) /\ exit.code = get_return_code /\ ~SummaryRaises
      /\ exit.how = "refused" => exit = Refuse
      /\ exit.how = "raised" => WhyRaised
  BY DEF ResultsInv
<1>4. CASE UNCHANGED <<pc, exit>>
  <2>1. WhyRaised => WhyRaised'
    BY <1>1, <1>4 DEF WhyRaised
  <2> HIDE DEF WhyRaised, SummaryRaises, get_return_code
  <2> QED
    BY <1>1, <1>2, <1>3, <1>4, <2>1 DEF ResultsInv
<1>5. CASE /\ pc \notin {"destroy", "over"}
           /\ pc' \notin {"run", "destroy", "over"} => pc # "run"
           /\ pc' \notin {"destroy", "over"} /\ exit' = exit
  <2>1. exit'.how = "none" /\ exit.how = "none"
    BY <1>3, <1>5
  <2> QED
    BY <1>2, <1>3, <1>5, <2>1 DEF ResultsInv
<1>6. CASE exit.how = "none" /\ Leaves
  <2>1. CASE pc' = "over" /\ exit' = Refuse
    BY <1>2, <1>3, <1>6, <2>1, ExitTypes DEF ResultsInv
  <2>2. CASE pc' = "over" /\ exit' = Raise /\ (sw.failfast \/ (done = Len(Loaded) /\ SummaryRaises))
    <3>1. Raise.code = Code(1) /\ Code(1) # Code(0)
      BY DEF Raise, Code
    <3>2. WhyRaised'
      BY <1>1, <2>2, <3>1 DEF WhyRaised
    <3> QED
      BY <1>2, <1>3, <1>6, <2>2, <3>2, ExitTypes DEF ResultsInv
  <2>3. CASE /\ pc' = "over" /\ exit' = Return(get_return_code)
             /\ done = Len(Loaded) /\ ~SummaryRaises
    <3>1. exit'.how = "returned" /\ exit'.code = get_return_code
      BY <2>3, ExitTypes
    <3> QED
      BY <1>1, <1>2, <1>3, <1>6, <2>3, <3>1 DEF ResultsInv
  <2>4. CASE /\ pc' = "destroy" /\ exit' = Pending(get_return_code)
             /\ done = Len(Loaded) /\ ~SummaryRaises
    <3>1. exit'.how = "none" /\ exit'.code = get_return_code
      BY <2>4, ExitTypes
    <3> QED
      BY <1>1, <1>2, <1>3, <1>6, <2>4, <3>1 DEF ResultsInv
  <2> QED
    BY <1>6, <2>1, <2>2, <2>3, <2>4 DEF Leaves
<1> QED
  BY <1>4, <1>5, <1>6

\* One turn of the loop adds one record, or ends the run with an exception.
LEMMA TurnResults ==
  ASSUME TypeOK, ResultsInv, NEW a \in Attributes, RunModule(a)
  PROVE  ResultsInv'
<1> DEFINE m == Loaded[done + 1]
<1>1. /\ done + 1 \in 1 .. Len(Loaded) /\ m \in AllModules
      /\ exceptions' \in {exceptions, Append(exceptions, m)}
      /\ UNCHANGED <<sw, driver, known, Loaded, rmmodFailed>>
      /\ \/ TurnRaises
         \/ \E r \in Codes :
              /\ UNCHANGED <<pc, exit>> /\ done' = done + 1
              /\ getModuleResultName(r) \in ResultNames
              /\ codes' = Append(codes, r)
              /\ test_cases' = Append(test_cases, [module |-> m,
                                                   result |-> getModuleResultName(r)])
              /\ sw.return_codes => exceptions' = exceptions
  BY Turn
<1>2. pc = "run"
  BY DEF RunModule
<1>3. /\ done \in Nat /\ test_cases \in Seq([module : AllModules, result : ResultNames])
      /\ codes \in Seq(Codes)
  BY DEF TypeOK
<1>4. /\ Len(test_cases) = done /\ Len(codes) = done /\ Recorded
      /\ sw.return_codes /\ exit.how # "raised" => exceptions = <<>>
      /\ exit.how = "none"
  BY <1>2 DEF ResultsInv
<1>5. CASE TurnRaises
  <2>1. pc' = "over" /\ UNCHANGED <<done, test_cases, codes>>
    BY <1>5 DEF TurnRaises
  <2>2. (Recorded /\ Len(test_cases) = done /\ Len(codes) = done)'
    BY <1>1, <2>1, RecordsKept
  <2>3. exit'.how = "raised" /\ WhyRaised'
    <3>1. Code(0) # Code(1)
      BY DEF Code
    <3>2. CASE sw.failfast /\ exit' = Raise
      BY <3>1, <3>2, <1>1 DEF WhyRaised, Raise
    <3>3. CASE sw.failfast /\ exit' = SystemExit /\ exceptions' # <<>>
      BY <3>1, <3>3, <1>1 DEF WhyRaised, SystemExit
    <3>4. CASE \E r \in Codes : exit' = Unnamed(r) /\ (sw.return_codes \/ r.enum = "list")
      BY <3>1, <3>4, <1>1 DEF WhyRaised, Unnamed
    <3> QED
      BY <1>5, <3>2, <3>3, <3>4 DEF TurnRaises
  <2> QED
    BY <2>1, <2>2, <2>3 DEF ResultsInv
<1>6. ASSUME NEW r \in Codes,
             /\ UNCHANGED <<pc, exit>> /\ done' = done + 1
             /\ codes' = Append(codes, r)
             /\ test_cases' = Append(test_cases, [module |-> m,
                                                  result |-> getModuleResultName(r)])
             /\ sw.return_codes => exceptions' = exceptions
      PROVE  ResultsInv'
  <2> DEFINE t == [module |-> m, result |-> getModuleResultName(r)]
  <2>1. t.module = m /\ t.result = getModuleResultName(r)
    OBVIOUS
  <2>2. Len(test_cases') = done' /\ Len(codes') = done'
    BY <1>3, <1>4, <1>6
  <2>3. ASSUME NEW i \in 1 .. done'
        PROVE  /\ test_cases'[i].module = Loaded'[i]
               /\ test_cases'[i].result = getModuleResultName(codes'[i])
    <3> HIDE DEF t
    <3>1. CASE i = done + 1
      <4>1. test_cases'[i] = t /\ codes'[i] = r
        BY <1>3, <1>4, <1>6, <3>1 DEF t
      <4> QED
        BY <4>1, <2>1, <3>1, <1>1
    <3>2. CASE i # done + 1
      <4>1. i \in 1 .. done
        BY <2>3, <3>2, <1>3, <1>6
      <4>2. test_cases'[i] = test_cases[i] /\ codes'[i] = codes[i]
        BY <1>3, <1>4, <1>6, <4>1
      <4> QED
        BY <4>1, <4>2, <1>4, <1>1 DEF Recorded
    <3> QED
      BY <3>1, <3>2
  <2>4. \A x : getModuleResultName(x)' = getModuleResultName(x)
    BY <1>1 DEF getModuleResultName
  <2>5. Recorded'
    BY <2>3, <1>1 DEF getModuleResultName, Recorded
  <2>6. (exit.how = "none" /\ pc = "run" /\ (sw.return_codes => exceptions = <<>>))'
    BY <1>1, <1>2, <1>4, <1>6
  <2> QED
    BY <2>2, <2>5, <2>6 DEF ResultsInv
<1> QED
  BY <1>1, <1>5, <1>6

\* Every step of main() keeps the results consistent.
LEMMA ResultsStep == TypeOK /\ ResultsInv /\ [Next]_vars => ResultsInv'
<1> SUFFICES ASSUME TypeOK, ResultsInv, [Next]_vars
             PROVE  ResultsInv'
  OBVIOUS
<1>a. pc # "over" => exit.how = "none"
  BY DEF ResultsInv
<1>b. InitFails => Leaves
  BY DEF InitFails, Ends, Leaves
<1>1. CASE StartUnload
  BY <1>1, ResultsKept DEF StartUnload, Unload, results
<1>2. CASE StartInsmod
  BY <1>2, <1>a, <1>b, ResultsKept DEF StartInsmod, results
<1>3. CASE StartOpen
  BY <1>3, <1>a, <1>b, ResultsKept DEF StartOpen, results
<1>4. CASE NoHelper
  BY <1>4, ResultsKept DEF NoHelper, results
<1>5. CASE Detect
  <2>1. UnknownChipset => \/ InitFails
                          \/ pc' = "load" /\ UNCHANGED exit
    BY DEF UnknownChipset
  <2>2. /\ pc = "detect"
        /\ InitFails \/ (pc' = "load" /\ UNCHANGED exit)
        /\ UNCHANGED <<sw, Loaded, done, test_cases, codes, exceptions>>
    BY <1>5, <2>1 DEF Detect, results
  <2> QED
    BY <2>2, <1>a, <1>b, ResultsKept
<1>6. CASE LoadModules
  <2>1. /\ pc = "load" /\ pc' = "run"
        /\ UNCHANGED <<sw, done, test_cases, codes, exceptions, exit>>
    BY <1>6 DEF LoadModules
  <2>2. done = 0 /\ exceptions = <<>> /\ exit.how = "none"
        /\ Len(test_cases) = done /\ Len(codes) = done
    BY <2>1 DEF ResultsInv
  <2>3. 1 .. done' = {}
    BY <2>1, <2>2
  <2> QED
    BY <2>1, <2>2, <2>3 DEF ResultsInv, Recorded
<1>7. CASE \E a \in Attributes : RunModule(a)
  BY <1>7, TurnResults
<1>8. CASE Report
  <2>1. /\ pc = "run" /\ done = Len(Loaded)
        /\ UNCHANGED <<sw, Loaded, done, test_cases, codes, exceptions>>
        /\ IF SummaryRaises THEN pc' = "over" /\ exit' = Raise
           ELSE IF sw.no_driver THEN pc' = "over" /\ exit' = Return(get_return_code)
           ELSE pc' = "destroy" /\ exit' = Pending(get_return_code)
    BY <1>8 DEF Report, Ends, results
  <2> HIDE DEF SummaryRaises, get_return_code
  <2>2. Leaves
    BY <2>1 DEF Leaves
  <2> QED
    BY <2>1, <2>2, <1>a, ResultsKept
<1>9. CASE DestroyHelper
  <2>1. /\ pc = "destroy" /\ pc' = "over" /\ exit' = Return(exit.code)
        /\ UNCHANGED <<sw, Loaded, done, test_cases, codes, exceptions>>
    BY <1>9 DEF DestroyHelper, Unload, results
  <2>2. done = Len(Loaded) /\ exit.code = get_return_code /\ ~SummaryRaises
    BY <2>1 DEF ResultsInv
  <2> HIDE DEF SummaryRaises, get_return_code
  <2>3. Leaves
    BY <2>1, <2>2 DEF Leaves
  <2> QED
    BY <2>1, <2>3, <1>a, ResultsKept
<1>10. CASE NextRun
  <2>1. /\ pc' = "init" /\ done' = 0 /\ test_cases' = <<>> /\ codes' = <<>>
        /\ exceptions' = <<>> /\ exit' = NoExit
    BY <1>10 DEF NextRun, Fresh
  <2>2. exit'.how = "none" /\ Len(<<>>) = 0 /\ 1 .. done' = {}
    BY <2>1 DEF NoExit
  <2> QED
    BY <2>1, <2>2 DEF ResultsInv, Recorded
<1>11. CASE UNCHANGED vars
  BY <1>11, ResultsKept DEF vars, results
<1> QED
  BY <1>1, <1>2, <1>3, <1>4, <1>5, <1>6, <1>7, <1>8, <1>9, <1>10, <1>11 DEF Next

\* The first run has recorded nothing.
LEMMA InitResults == Init => ResultsInv
<1> SUFFICES ASSUME Init PROVE ResultsInv
  OBVIOUS
<1>1. /\ pc = "init" /\ done = 0 /\ test_cases = <<>> /\ codes = <<>>
      /\ exceptions = <<>> /\ exit = NoExit
  BY DEF Init
<1>2. exit.how = "none" /\ Len(<<>>) = 0 /\ 1 .. done = {}
  BY <1>1 DEF NoExit
<1> QED
  BY <1>1, <1>2 DEF ResultsInv, Recorded

\* The types and the consistency of the results, in every state of any sequence of runs.
THEOREM ResultsInvariance == Spec => [](TypeOK /\ ResultsInv)
<1>1. Init => TypeOK /\ ResultsInv
  BY InitTypeOK, InitResults
<1>2. TypeOK /\ ResultsInv /\ [Next]_vars => (TypeOK /\ ResultsInv)'
  BY TypeStep, ResultsStep
<1> QED
  BY <1>1, <1>2, PTL DEF Spec

\* The state of main() has its type, the sorted module list included.
THEOREM TypeCorrect == Spec => []TypeOK
BY ResultsInvariance, PTL

\* The records of a completed run.
LEMMA RecordsTyped ==
  ASSUME TypeOK, ResultsInv
  PROVE  /\ DOMAIN test_cases = 1 .. done /\ DOMAIN codes = 1 .. done /\ done \in Nat
         /\ \A i \in 1 .. done :
              /\ codes[i] \in Codes /\ test_cases[i].module = Loaded[i]
              /\ test_cases[i].result = getModuleResultName(codes[i])
              /\ test_cases[i].result \in ResultNames
<1> DEFINE R == [module : AllModules, result : ResultNames]
<1>1. /\ test_cases \in Seq(R) /\ codes \in Seq(Codes) /\ done \in Nat
      /\ Len(test_cases) = done /\ Len(codes) = done /\ Recorded
  BY DEF TypeOK, ResultsInv
<1> HIDE DEF R
<1>2. /\ DOMAIN test_cases = 1 .. done /\ DOMAIN codes = 1 .. done
      /\ \A i \in 1 .. done : test_cases[i] \in R /\ codes[i] \in Codes
  BY <1>1
<1>3. \A i \in 1 .. done : test_cases[i].result \in ResultNames
  BY <1>2 DEF R
<1> QED
  BY <1>1, <1>2, <1>3 DEF Recorded

\* What the two result tables make of the value 0 and of 256.
LEMMA ZeroFromTables ==
  ASSUME TypeOK, ResultsInv, done = Len(Loaded), ~SummaryRaises, exit.how = "returned",
         get_return_code.low % 256 = 0
  PROVE  AllRan /\ (AllHave({"Passed", "Archived"}) \/ LowByteLost)
<1>1. /\ DOMAIN test_cases = 1 .. done /\ done \in Nat /\ DOMAIN codes = 1 .. done
      /\ \A i \in 1 .. done : /\ codes[i] \in Codes /\ test_cases[i].module = Loaded[i]
                              /\ test_cases[i].result = getModuleResultName(codes[i])
                              /\ test_cases[i].result \in ResultNames
  BY RecordsTyped
<1>2. Len(test_cases) = done /\ Len(codes) = done
  BY DEF ResultsInv
<1>3. \A n \in Nat : Code(n).low = n
  BY DEF Code
<1>4. CASE ~sw.return_codes
  <2>1. LegacyReturnCode \in {0, 256} /\ ~Has("Deprecated")
    <3>1. LegacyReturnCode \in {0, 2, 8, 16, 32, 64, 128, 256}
      BY DEF LegacyReturnCode, ExitCode
    <3>2. LegacyReturnCode % 256 = 0
      BY <1>3, <1>4, <3>1 DEF get_return_code
    <3> QED
      BY <3>1, <3>2, <1>4 DEF SummaryRaises
  <2>2. ~Has("Error") /\ exceptions = <<>>
    BY <2>1 DEF LegacyReturnCode, ExitCode
  <2>3. ~Has("Failed") /\ ~Has("Warning") /\ ~Has("NotApplicable") /\ ~Has("Information")
    BY <2>1, <2>2 DEF LegacyReturnCode, ExitCode
  <2>4. ResultNames \subseteq {"Failed", "Passed", "Warning", "Deprecated", "Information",
                               "NotApplicable", "Archived", "Error"}
    BY DEF ResultNames, ModuleResult, ModuleResultName
  <2>5. ASSUME NEW i \in DOMAIN test_cases
        PROVE  test_cases[i].result \in {"Passed", "Archived"}
    <3>1. test_cases[i].result \in ResultNames
      BY <1>1
    <3>2. \A n : ~Has(n) => test_cases[i].result # n
      BY DEF Has
    <3>3. test_cases[i].result \notin {"Failed", "Warning", "Deprecated", "Information",
                                      "NotApplicable", "Error"}
      BY <3>2, <2>1, <2>2, <2>3
    <3> QED
      BY <3>1, <3>3, <2>4
  <2> QED
    BY <1>1, <1>2, <2>2, <2>5 DEF AllRan, AllHave
<1>5. CASE sw.return_codes
  <2>1. exceptions = <<>>
    BY <1>5 DEF ResultsInv
  <2>2. AllRan
    BY <1>1, <1>2, <2>1 DEF AllRan
  <2>3. ReturnCodesReturnCode.low % 256 = 0
    BY <1>5 DEF get_return_code
  <2>4. CASE Len(test_cases) = 1
    <3>1. codes[1] \in Codes /\ CodeValue(codes[1]).low % 256 = 0
      BY <1>1, <1>2, <2>3, <2>4 DEF ReturnCodesReturnCode
    <3>2. codes[1].id \in {0, 1, 16}
      BY <3>1 DEF Codes
    <3>3. CASE codes[1].enum = "none"
      <4>1. CodeValue(codes[1]).low = 16 * codes[1].id
        BY <3>3 DEF CodeValue
      <4>2. codes[1].id % 16 = 0
        BY <3>1, <3>2, <4>1
      <4> QED
        BY <4>2, <1>2, <1>5, <2>2, <2>4 DEF LowByteLost
    <3>4. CASE codes[1].enum # "none"
      <4>1. codes[1].enum \in {"False", "True"}
        <5>1. getModuleResultName(codes[1]) \in ResultNames
          BY <1>1, <1>2, <2>4
        <5>2. "TypeError" \notin ResultNames
          BY DEF ResultNames, ModuleResult, ModuleResultName
        <5> QED
          BY <3>4, <5>1, <5>2, <1>5 DEF getModuleResultName
      <4>2. getModuleResultName(codes[1]) = "Passed"
        BY <4>1, <1>5 DEF getModuleResultName
      <4>3. AllHave({"Passed", "Archived"})
        <5>1. \A i \in 1 .. done : i = 1
          BY <1>1, <1>2, <2>4
        <5> QED
          BY <1>1, <4>2, <5>1 DEF AllHave
      <4> QED
        BY <2>2, <4>3
    <3> QED
      BY <3>3, <3>4
  <2>5. CASE Len(test_cases) # 1
    <3>1. ~Has("Failed")
      BY <2>3, <2>5, <1>3 DEF ReturnCodesReturnCode, ExitCode
    <3>2. ASSUME NEW i \in 1 .. done PROVE test_cases[i].result \in {"Passed", "Archived"}
      <4>1. test_cases[i].result \in {"Passed", "Archived", "Failed", "TypeError"}
        BY <1>1, <1>5 DEF getModuleResultName
      <4>2. "TypeError" \notin ResultNames
        BY DEF ResultNames, ModuleResult, ModuleResultName
      <4> QED
        BY <1>1, <3>1, <4>1, <4>2 DEF Has
    <3> QED
      BY <1>1, <2>2, <3>2 DEF AllHave
  <2> QED
    BY <2>4, <2>5
<1> QED
  BY <1>4, <1>5

\* What a process that ends with status 0 has behind it.
LEMMA ZeroFromInv == TypeOK /\ ResultsInv => ZeroMeansPassed
<1> SUFFICES ASSUME TypeOK, ResultsInv, pc = "over", ProcessStatus = 0
             PROVE  \/ Completed /\ AllRan /\ (AllHave({"Passed", "Archived"}) \/ LowByteLost)
                    \/ sw.failfast /\ exceptions # <<>> /\ exit = SystemExit
  BY DEF ZeroMeansPassed
<1>1. exit.how \in {"refused", "returned", "raised"} /\ exit.code.low % 256 = 0
  BY DEF ProcessStatus, ResultsInv, TypeOK
<1>2. CASE exit.how = "refused"
  <2>1. exit.code.low = 32
    BY <1>2 DEF ResultsInv, Refuse, Code, ExitCode
  <2> QED
    BY <1>1, <2>1
<1>3. CASE exit.how = "raised"
  <2>1. WhyRaised
    BY <1>3 DEF ResultsInv
  <2>2. exit.code # Code(1)
    BY <1>1 DEF Code
  <2> QED
    BY <2>1, <2>2 DEF WhyRaised
<1>4. CASE exit.how = "returned"
  <2>1. /\ done = Len(Loaded) /\ exit.code = get_return_code /\ ~SummaryRaises
    BY <1>4 DEF ResultsInv
  <2> HIDE DEF get_return_code, SummaryRaises
  <2>2. AllRan /\ (AllHave({"Passed", "Archived"}) \/ LowByteLost)
    BY <1>1, <1>4, <2>1, ZeroFromTables
  <2> QED
    BY <1>4, <2>2 DEF Completed
<1> QED
  BY <1>1, <1>2, <1>3, <1>4

\* A process status of 0 is given only to runs whose modules all ran, in order,
\* raised nothing and passed or are archived, outside the two cases named.
THEOREM ZeroIsEarned == Spec => []ZeroMeansPassed
BY ResultsInvariance, ZeroFromInv, PTL

\* In the default mode the loop reaches the last module, unless a result cannot be
\* hashed; main() then raises only over a result the summary has no place for.
LEMMA GoesOnFromInv == TypeOK /\ ResultsInv => OneModuleNeverStopsTheRun
<1> SUFFICES ASSUME TypeOK, ResultsInv, pc = "over", exit.how # "refused",
                    ~sw.failfast, ~sw.return_codes, exit.unnamed # "list"
             PROVE  /\ done = Len(Loaded)
                    /\ exit.how = "raised"
                         => \E i \in DOMAIN codes : codes[i].enum \in {"DEPRECATED", "None"}
  BY DEF OneModuleNeverStopsTheRun
<1>1. exit.how \in {"returned", "raised"}
  BY DEF ResultsInv, TypeOK
<1>2. CASE exit.how = "returned"
  BY <1>2 DEF ResultsInv
<1>3. CASE exit.how = "raised"
  <2>1. done = Len(Loaded) /\ SummaryRaises
    BY <1>3 DEF ResultsInv, WhyRaised
  <2>2. CASE Unformattable
    BY <2>1, <2>2 DEF Unformattable
  <2>3. CASE Has("Deprecated")
    <3>1. PICK i \in DOMAIN test_cases : test_cases[i].result = "Deprecated"
      BY <2>3 DEF Has
    <3>2. i \in DOMAIN codes /\ codes[i] \in Codes /\ getModuleResultName(codes[i]) = "Deprecated"
      BY <3>1, RecordsTyped
    <3>3. codes[i].enum \in ModuleResult /\ ModuleResultName[codes[i].enum] = "Deprecated"
      BY <3>2 DEF getModuleResultName
    <3>4. codes[i].enum = "DEPRECATED"
      BY <3>3 DEF ModuleResult, ModuleResultName
    <3> QED
      BY <2>1, <3>2, <3>4
  <2> QED
    BY <2>1, <2>2, <2>3 DEF SummaryRaises
<1> QED
  BY <1>1, <1>2, <1>3

\* For every set of modules and whatever they return: one module stops the others
\* only by returning what cannot be hashed.
THEOREM RunGoesOn == Spec => []OneModuleNeverStopsTheRun
BY ResultsInvariance, GoesOnFromInv, PTL
=============================================================================
