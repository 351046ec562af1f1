--------------------------- MODULE VariableTests ---------------------------
(***************************************************************************)
(* The tests that, given the argument "modify", write to what should be     *)
(* protected, look whether it changed and put it back:                      *)
(*  secureboot  Secure Boot variables (common/secureboot/variables.py)      *)
(*  uefispec    UEFI variables (common/uefi/access_uefispec.py)             *)
(*  rtclock     the two banks of RTC memory (common/rtclock.py)             *)
(* Two variables (or banks) stand for all: the first is required and, for   *)
(* secureboot, a key and, for uefispec, read-only; the second is optional   *)
(* and read-write.  A write may be refused, a variable may be unreadable    *)
(* for once, and any call of the helper may raise.                          *)
(***************************************************************************)
EXTENDS Integers, Sequences, FiniteSets

V == {1, 2}
Original == 0
Bad == 1
Gone == 2        \* a variable of length 0 does not exist any more

VARIABLES
  test, os, modify,
  listed,     \* whether the variables can be enumerated; rtclock: whether RC is unreadable
  enabled,    \* the SecureBoot variable says so
  var,        \* what the enumeration says of each variable, and whether it is protected
  store,
  pc, todo,
  missing, weak, changed,  \* not_found, not_auth (or attributes that differ), not_wp (ro_concern)
  verdict,
  took,       \* history: variables that took a modification
  refused     \* history: variables whose restoring write was refused

vars == <<test, os, modify, listed, enabled, var, store, pc, todo, missing, weak, changed, verdict,
          took, refused>>
inputs == <<test, os, modify, listed, enabled, var>>

Uefi == test # "rtclock"

\* A variable whose value could not be read is listed without data and attributes, and unless
\* the driver itself failed without a GUID (kern_get_EFI_variable_full).
AttrsOf(v) == IF var[v].data = "ok" THEN var[v].attrs ELSE "less"

\* The attributes as they are checked, before the variable is modified.
Checked(v) ==
  CASE test = "secureboot" -> v = 1 /\ AttrsOf(v) # "fine"
    [] test = "uefispec" -> AttrsOf(v) # "fine"
    [] OTHER -> FALSE

\* What can_modify does with a variable: nothing, raise, write Bad, or write no data at all.
\* access_uefispec passes a str, which the Linux helper cannot pack unless it is empty.
Attempt(v) ==
  CASE ~modify -> "nothing"
    [] modify /\ test = "secureboot" -> IF var[v].data = "ok" THEN "write" ELSE "nothing"
    [] modify /\ test = "uefispec" /\ os = "linux" ->
         IF var[v].data = "ioerror" THEN "delete" ELSE "raise"
    [] OTHER -> "write"

End(res) == pc' = "end" /\ todo' = <<>> /\ verdict' = res

Start ==
  /\ pc = "start"
  /\ \/ Uefi /\ ~listed /\ End("WARNING")
     \/ ~Uefi /\ ~listed /\ End(IF var[1].protected /\ var[2].protected THEN "PASSED" ELSE "WARNING")
     \/ ~Uefi /\ listed /\ ~modify /\ End("WARNING")
     \/ /\ listed /\ (Uefi \/ modify) /\ pc' = "next" /\ todo' = <<1, 2>> /\ UNCHANGED verdict
  /\ UNCHANGED <<inputs, store, missing, weak, changed, took, refused>>

\* The next variable: missing, duplicated (which ends the test), or checked.
NextVariable ==
  /\ pc = "next" /\ todo # <<>>
  /\ LET v == todo[1] IN
     \/ /\ var[v].there = "none" /\ todo' = Tail(todo)
        /\ missing' = (missing \/ (test = "secureboot" /\ v = 1))
        /\ UNCHANGED <<pc, weak, verdict>>
     \/ /\ var[v].there = "two" /\ End("FAILED") /\ UNCHANGED <<missing, weak>>
     \/ /\ var[v].there = "one" /\ UNCHANGED missing
        /\ weak' = IF Checked(v) THEN weak \cup {AttrsOf(v)} ELSE weak
        /\ CASE Attempt(v) = "nothing" -> todo' = Tail(todo) /\ UNCHANGED <<pc, verdict>>
             [] Attempt(v) = "raise" -> End("raised")
             [] OTHER -> pc' = "modify" /\ UNCHANGED <<todo, verdict>>
  /\ UNCHANGED <<inputs, store, changed, took, refused>>

\* The firmware takes a write of d to the variable or refuses it; protected ones refuse.
Write(v, d, taken) ==
  /\ taken => ~var[v].protected
  /\ store' = IF taken THEN [store EXCEPT ![v] = d] ELSE store

Modify(taken) ==
  /\ pc = "modify" /\ pc' = "compare"
  /\ LET v == todo[1] IN
     /\ Write(v, IF Attempt(v) = "delete" THEN Gone ELSE Bad, taken)
     /\ took' = IF taken THEN took \cup {v} ELSE took
  /\ UNCHANGED <<inputs, todo, missing, weak, changed, verdict, refused>>

\* Mutant of Compare: a variable that cannot be read counts as unchanged.
CompareUnreadable(readable) ==
  /\ pc = "compare"
  /\ LET v == todo[1] IN
     IF ~readable \/ store[v] = Original
     THEN pc' = "next" /\ todo' = Tail(todo) /\ UNCHANGED changed
     ELSE pc' = "restore" /\ changed' = changed \cup {v} /\ UNCHANGED todo
  /\ UNCHANGED <<inputs, store, missing, weak, verdict, took, refused>>

\* Mutant of Compare: what changed is put back but not counted.
CompareUncounted(readable) ==
  /\ pc = "compare"
  /\ LET v == todo[1]
         same == IF Attempt(v) = "delete" THEN ~readable \/ store[v] = Gone
                 ELSE readable /\ store[v] = Original
     IN IF same THEN pc' = "next" /\ todo' = Tail(todo) ELSE pc' = "restore" /\ UNCHANGED todo
  /\ UNCHANGED <<inputs, store, missing, weak, changed, verdict, took, refused>>

\* The value is read again: one that cannot be read, or is gone, differs from the original,
\* except where the original was listed without data.
Compare(readable) ==
  /\ pc = "compare" /\ (~Uefi => readable)
  /\ LET v == todo[1]
         same == IF Attempt(v) = "delete" THEN ~readable \/ store[v] = Gone
                 ELSE readable /\ store[v] = Original
     IN IF same THEN pc' = "next" /\ todo' = Tail(todo) /\ UNCHANGED changed
        ELSE pc' = "restore" /\ changed' = changed \cup {v} /\ UNCHANGED todo
  /\ UNCHANGED <<inputs, store, missing, weak, verdict, took, refused>>

\* The value of the enumeration is written back; whether that worked is only logged.
Restore(taken) ==
  /\ pc = "restore" /\ pc' = "next" /\ todo' = Tail(todo)
  /\ LET v == todo[1] IN
     /\ Write(v, IF Attempt(v) = "delete" THEN Gone ELSE Original, taken)
     /\ refused' = IF taken THEN refused ELSE refused \cup {v}
  /\ UNCHANGED <<inputs, missing, weak, changed, verdict, took>>

\* A call of the helper raises; nothing catches it before run_module.
Raise ==
  /\ pc \in {"modify", "compare", "restore"} /\ End("raised")
  /\ UNCHANGED <<inputs, store, missing, weak, changed, took, refused>>

\* One protected variable is optional, so that not all of them can count as missing.
Verdict ==
  CASE test = "secureboot" ->
         IF ~missing /\ weak = {} /\ changed = {} THEN "PASSED"
         ELSE IF enabled THEN "FAILED" ELSE "WARNING"
    [] test = "uefispec" ->
         IF "more" \in weak \/ 1 \in changed THEN "FAILED"
         ELSE IF weak # {} THEN "WARNING" ELSE "PASSED"
    [] OTHER -> IF changed = {} THEN "PASSED" ELSE "WARNING"

Finish ==
  /\ pc = "next" /\ todo = <<>> /\ End(Verdict)
  /\ UNCHANGED <<inputs, store, missing, weak, changed, took, refused>>

Variable ==
  {x \in [there : {"one", "none", "two"}, data : {"ok", "failed", "ioerror"},
          attrs : {"fine", "less", "more"}, protected : BOOLEAN] :
     /\ x.there # "one" => x.data = "ok" /\ x.attrs = "fine" /\ ~x.protected
     /\ x.there = "two" => os = "windows"   \* the Linux helper keeps the last of them
     /\ x.data # "ok" => os = "linux" /\ x.attrs = "fine"}

Init ==
  /\ test \in {"secureboot", "uefispec", "rtclock"} /\ os \in {"linux", "windows"}
  /\ modify \in BOOLEAN /\ listed \in BOOLEAN /\ enabled \in BOOLEAN
  /\ var \in [V -> Variable]
  /\ test = "uefispec" => \A v \in V : var[v].there # "two"   \* each is a variable of its own
  /\ test = "rtclock" => /\ os = "linux"
                         /\ \A v \in V : var[v].there = "one" /\ var[v].data = "ok" /\ var[v].attrs = "fine"
  /\ test # "secureboot" => enabled
  /\ store = [v \in V |-> Original] /\ pc = "start" /\ todo = <<>> /\ missing = FALSE
  /\ weak = {} /\ changed = {} /\ verdict = "none" /\ took = {} /\ refused = {}

Next ==
  \/ Start \/ NextVariable \/ Raise \/ Finish
  \/ \E b \in BOOLEAN : Modify(b) \/ Compare(b) \/ Restore(b)

TypeOK ==
  /\ pc \in {"start", "next", "modify", "compare", "restore", "end"}
  /\ store \in [V -> {Original, Bad, Gone}] /\ changed \subseteq V /\ Len(todo) <= 2
  /\ verdict \in {"none", "PASSED", "WARNING", "FAILED", "raised"}

(***************************************************************************)
(* A test that ends leaves every variable as it found it, unless a call     *)
(* raised or the restoring write itself was refused.  A variable that       *)
(* access_uefispec could not read when it enumerated is "modified" by       *)
(* writing no data, which deletes it (linuxhelper.py:577).                  *)
(***************************************************************************)
VariablesRestored ==
  (pc = "end" /\ verdict # "raised")
    => \A v \in V : \/ store[v] = Original \/ v \in refused
                    \/ test = "uefispec" /\ var[v].data = "ioerror"

(***************************************************************************)
(* PASSED means that the test ran to its end, that the attributes it checks *)
(* are right, and that no variable it guards took a modification.           *)
(***************************************************************************)
Guarded == IF test = "uefispec" THEN {1} ELSE V
ModifyVerdictSound ==
  verdict = "PASSED"
    => /\ \A v \in Guarded \cap took : test = "uefispec" /\ var[v].data = "ioerror"
       /\ \A v \in V : var[v].there = "one" => ~Checked(v)
       /\ test = "secureboot" => var[1].there = "one"
=============================================================================
