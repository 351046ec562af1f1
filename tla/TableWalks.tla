----------------------------- MODULE TableWalks -----------------------------
(***************************************************************************)
(* The loops that walk tables of entries, each of which says how long it    *)
(* is: NVRAM variables, signature databases, S3 boot scripts, ACPI and      *)
(* SMBIOS structures, the TPM event log and sections of firmware files.     *)
(* An image is a sequence of entries, each on its alignment, and filler     *)
(* behind them; the last entry may be damaged.  Lengths are in units of     *)
(* half a header.                                                           *)
(***************************************************************************)
EXTENDS Integers, Sequences

CONSTANTS MaxEntries,   \* undamaged entries of an image
          MaxExtra,     \* what an entry may have behind its header
          MaxFill       \* filler behind the last entry

H == 2            \* header
T == 1            \* double null behind the strings of an SMBIOS structure

Walks == {"nvar", "nvar_simple", "vss", "sb_db", "evsa", "auth", "s3", "dmar", "device_scope",
          "apic", "hest", "nfit", "smbios", "eventlog", "windows", "section"}

VARIABLES
  walk,     \* which loop
  entries,  \* what the image holds: kind and size of each entry
  fill,     \* units of filler behind the last one
  off, found, end

vars == <<walk, entries, fill, off, found, end>>

AlignTo(w) == IF w \in {"vss", "section"} THEN 2 ELSE 1
align(n, a) == ((n + a - 1) \div a) * a

\* The room an entry takes in the image, whatever length its header claims.
Extent(e) == IF e.kind \in {"good", "bare", "skip", "last"} THEN e.size ELSE H

StartsOf(es, a) ==
  LET start[i \in 1 .. Len(es) + 1] ==
        IF i = 1 THEN 0
        ELSE LET e == start[i - 1] + Extent(es[i - 1])
             IN IF i <= Len(es) THEN align(e, a) ELSE e
  IN start
Starts == StartsOf(entries, AlignTo(walk))
Size == Starts[Len(entries) + 1] + fill

\* A length that leads out of the image: of a damaged entry, and the all-ones one of filler.
NfitHeaders == 10 * H
Beyond == Size + NfitHeaders

\* What lies at an offset: the header of an entry, filler, or the inside of an entry.
Header(k, z) == [kind |-> k, size |-> z]
HeaderOf(e) == Header(e.kind, IF e.kind = "long" THEN Beyond ELSE e.size)
HeaderAt(o) ==
  IF \E i \in DOMAIN entries : Starts[i] = o
  THEN HeaderOf(entries[CHOOSE i \in DOMAIN entries : Starts[i] = o])
  ELSE Header(IF o >= Starts[Len(entries) + 1] \/ \E i \in DOMAIN entries :
                    o >= Starts[i] + Extent(entries[i]) /\ o < Starts[i + 1]
              THEN "fill" ELSE "body", Beyond)

\* One turn of a loop: whether an entry is added, where it goes on, and whether it ends.
Take(next, stop) == [add |-> TRUE, next |-> next, end |-> stop]
Pass(next, stop) == [add |-> FALSE, next |-> next, end |-> stop]
Stop == Pass(0, "end")
Add(o, h) == Take(o + h.size, "")
Skip(o, h) == Pass(o + h.size, "")

\* getEFIvariables_NVAR: filler looks like an invalid variable of 0xFFFF bytes; a valid header
\* without the signature ends the walk.
nvar(o) ==
  LET h == HeaderAt(o) IN
  CASE o + H >= Size \/ h.size = 0 \/ h.kind = "foreign" -> Stop
    [] o + H < Size /\ h.kind \in {"skip", "fill"} -> Skip(o, h)
    [] OTHER -> Add(o, h)

\* getEFIvariables_NVAR_simple: every header is taken for a variable's.
nvar_simple(o) ==
  LET h == HeaderAt(o) IN
  CASE o + H >= Size -> Stop
    [] o + H < Size /\ h.size = 0 -> Take(o, "end")
    [] OTHER -> Add(o, h)

\* _getEFIvariables_VSS: the next signature within the alignment; skip is a variable all of
\* ones, of which there is only the header.
NextSignature(o) ==
  LET at == {x \in o .. o + 1 : HeaderAt(x).kind \in {"good", "skip"}}
  IN IF at = {} THEN -1 ELSE CHOOSE x \in at : \A y \in at : x <= y
vss(o) ==
  LET h == HeaderAt(o)
      next == NextSignature(o + h.size)
  IN CASE o + H >= Size -> Stop
     [] o + H < Size /\ next = -1 -> IF h.kind = "good" THEN Take(o, "end") ELSE Pass(o, "end")
       [] OTHER -> IF h.kind = "good" THEN Take(next, "") ELSE Pass(next, "")

\* parse_sb_db: skip is a list of an unknown signature type.
sb_db(o) ==
  LET h == HeaderAt(o) IN
  CASE o + H >= Size \/ h.size = 0 -> Stop
    [] o + H < Size /\ h.kind = "skip" -> Skip(o, h)
    [] OTHER -> Add(o, h)

\* parse_auth_var, which a length of zero does not end.
auth(o) == IF o + H >= Size THEN Stop ELSE Add(o, HeaderAt(o))

\* parse_script and parse_s3bootscript_entry; last is the terminating opcode.  An entry without
\* data cannot be decoded.
s3(o) ==
  LET h == HeaderAt(o) IN
  CASE o >= Size \/ o + H > Size -> Stop
    [] o + H <= Size /\ h.size = Beyond -> Stop
    [] o + H <= Size /\ h.size = 0 -> Pass(o, "raised")
    [] OTHER -> IF h.kind = "last" THEN Take(o, "end") ELSE Add(o, h)

\* EFIvar_EVSA: skip is a record with an unknown tag; a record that is cut off cannot be unpacked.
evsa(o) ==
  LET h == HeaderAt(o) IN
  CASE o + H >= Size \/ h.size < H -> Stop
    [] o + H < Size /\ h.kind = "long" -> Pass(o, "raised")
    [] OTHER -> IF h.kind = "skip" THEN Skip(o, h) ELSE Add(o, h)

\* DMAR.parse; a structure that is cut off cannot be unpacked.
dmar(o) ==
  LET h == HeaderAt(o) IN
  CASE o >= Size - 1 \/ h.size = 0 -> Stop
    [] o < Size - 1 /\ h.size = Beyond -> Pass(o, "raised")
    [] OTHER -> Add(o, h)

\* _get_DMAR_Device_Scope_list and APIC.parse: the same loop over other headers.
device_scope(o) == dmar(o)
apic(o) == dmar(o)

\* HEST.parse turns ErrorSourceCount times; a source of unknown type (skip) has no known length,
\* so that the remaining turns read it again.
hest(o) ==
  LET h == HeaderAt(o) IN IF o >= Size \/ h.kind = "skip" THEN Stop ELSE Add(o, h)

\* NFIT.parseStructures: the bound is the length of the table with its headers (40 bytes more than
\* what is walked, NfitHeaders), and a structure of unknown type is never left.
nfit(o) ==
  LET h == HeaderAt(o) IN
  CASE o + H > Size -> Pass(o, "raised")
    [] o + H <= Size /\ h.kind = "skip" -> Pass(o, "")
    [] OTHER -> Take(o + h.size, IF o + h.size >= Size + NfitHeaders THEN "end" ELSE "")

\* __get_raw_struct: the structure (bare has no strings) and its terminator must be followed by
\* something, or its strings be.
smbios(o) ==
  LET h == HeaderAt(o)
      str_offset == o + h.size - T - (IF h.kind = "bare" THEN 0 ELSE 1)
  IN IF o >= Size \/ o + H > Size \/ str_offset + T >= Size THEN Stop ELSE Add(o, h)

\* TcgPcrEvent.parse and PcrLogParser: an event of unknown type (skip) ends the log.
eventlog(o) ==
  LET h == HeaderAt(o) IN
  CASE o >= Size \/ h.kind = "skip" -> Stop
    [] o < Size /\ o + H > Size -> Pass(o, "raised")
    [] OTHER -> Add(o, h)

\* getEFIvariables_NtEnumerateSystemEnvironmentValuesEx2: last has no next entry.
windows(o) ==
  LET h == HeaderAt(o) IN
  CASE o + H >= Size -> Stop
    [] o + H < Size /\ h.kind = "last" -> Take(o, "end")
    [] OTHER -> Add(o, h)

\* Mutant of section: the next section is looked for without its alignment.
SectionUnaligned(o) ==
  LET h == HeaderAt(o) IN
  CASE o + H >= Size -> Stop
    [] o + H < Size /\ (h.size = 0 \/ h.kind = "fill") -> Pass(o + H, "")
    [] OTHER -> Add(o, h)

\* NextFwFileSection and its callers: filler and empty sections are stepped over.
section(o) ==
  LET h == HeaderAt(o) IN
  CASE o + H >= Size -> Stop
    [] o + H < Size /\ (h.size = 0 \/ h.kind = "fill") -> Pass(align(o + H, 2), "")
    [] OTHER -> Take(o + align(h.size, 2), "")

TurnOf(o) ==
  CASE walk = "nvar" -> nvar(o) [] walk = "nvar_simple" -> nvar_simple(o) [] walk = "vss" -> vss(o)
    [] walk = "sb_db" -> sb_db(o) [] walk = "auth" -> auth(o) [] walk = "s3" -> s3(o)
    [] walk = "evsa" -> evsa(o) [] walk = "dmar" -> dmar(o) [] walk = "apic" -> apic(o)
    [] walk = "device_scope" -> device_scope(o) [] walk = "hest" -> hest(o)
    [] walk = "nfit" -> nfit(o) [] walk = "smbios" -> smbios(o) [] walk = "eventlog" -> eventlog(o)
    [] walk = "windows" -> windows(o) [] walk = "section" -> section(o)

\* _getEFIvariables_VSS makes a new dictionary in every turn.
Kept == IF walk = "vss" /\ off + H < Size THEN <<>> ELSE found

Step ==
  /\ end = ""
  /\ LET t == TurnOf(off) IN
     /\ found' = IF t.add THEN Append(Kept, off) ELSE Kept
     /\ off' = IF t.end = "" THEN t.next ELSE off
     /\ end' = IF t.end = "" /\ t.next = off THEN "loops" ELSE t.end
  /\ UNCHANGED <<walk, entries, fill>>

(***************************************************************************)
(* The images: entries of the kinds a format knows, its terminating entry   *)
(* where it has one, and in some formats a damaged one at the end.          *)
(***************************************************************************)
KindsOf(w) == CASE w \in {"nvar", "sb_db", "evsa", "hest", "nfit", "eventlog", "vss"} -> {"good", "skip"}
                [] w = "smbios" -> {"good", "bare"}
                [] OTHER -> {"good"}
SizesOf(w, k) == CASE w = "s3" -> H + 1 .. H + MaxExtra
                   [] w = "smbios" -> IF k = "bare" THEN H + T .. H + MaxExtra ELSE H + T + 1 .. H + T + MaxExtra
                   [] w = "vss" /\ k = "skip" -> {H}
                   [] OTHER -> H .. H + MaxExtra
Whole(w) == UNION {[kind : {k}, size : SizesOf(w, k)] : k \in KindsOf(w)}
LastOf(w) ==
  CASE w = "s3" -> {[kind |-> "last", size |-> H]}
    [] w = "windows" -> [kind : {"last"}, size : H + 1 .. H + MaxExtra]
    [] OTHER -> {}
Damaged(w) ==
  IF w \in {"vss", "hest", "smbios", "eventlog", "windows"} THEN {}
  ELSE {[kind |-> "zero", size |-> 0], [kind |-> "long", size |-> 0]}
         \cup (IF w = "nvar" THEN {[kind |-> "foreign", size |-> H]} ELSE {})

Init ==
  /\ walk \in Walks
  /\ \E body \in UNION {[1 .. n -> Whole(walk)] : n \in 0 .. MaxEntries},
        tail \in {<<>>} \cup {<<e>> : e \in LastOf(walk) \cup Damaged(walk)} :
       /\ entries = body \o tail
       /\ walk = "windows" => tail # <<>>
       /\ walk = "vss" => body # <<>>
  /\ fill \in IF walk \in {"nvar", "nvar_simple", "vss", "section"} THEN 0 .. MaxFill ELSE {0}
  /\ off = 0 /\ found = <<>> /\ end = ""

Next == Step

TypeOK == walk \in Walks /\ end \in {"", "end", "raised", "loops"} /\ Len(found) <= MaxEntries + 2

(***************************************************************************)
(* What a walk should report: the offsets of the entries, in order.  The    *)
(* exceptions are what the loops do: a last entry that is only a header and *)
(* ends with the image (or a last SMBIOS structure without strings) is not  *)
(* seen where the loop asks for more than a header; NVAR_simple takes the   *)
(* filler for one more variable; VSS loses all but the last variable.       *)
(***************************************************************************)
Clean == \A i \in DOMAIN entries : entries[i].kind \notin {"zero", "long", "foreign"}
Known == {i \in DOMAIN entries : entries[i].kind # "skip" /\
            (walk \in {"eventlog", "hest", "nfit"} => \A j \in 1 .. i : entries[j].kind # "skip")}
Expected == {Starts[i] : i \in Known}
\* s lists X: every member once, in increasing order.
Lists(s, X) == {s[j] : j \in DOMAIN s} = X /\ \A j, k \in DOMAIN s : j < k => s[j] < s[k]
ToTheEnd == {"s3", "dmar", "device_scope", "apic", "hest", "nfit", "eventlog"}
Unseen == /\ entries # <<>> /\ fill = 0 /\ walk \notin ToTheEnd
          /\ LET e == entries[Len(entries)] IN e.size = H \/ e.kind = "bare"
Reported ==
  \/ Lists(found, Expected)
  \/ Unseen /\ Lists(found, Expected \ {Starts[Len(entries)]})
  \/ walk = "nvar_simple" /\ fill > H /\ Lists(found, Expected \cup {Starts[Len(entries) + 1]})

\* Every walk ends, except parse_auth_var at a length of zero and NFIT's at one or at an unknown
\* type; it never takes the inside of an entry for a header (NVRAM, signatures, scripts, tables
\* and sections alike, whatever their sizes and alignment); and of an undamaged image it reports
\* every entry once and in order (the event log, HEST and NFIT up to an unknown type).
WalksExact ==
  /\ end = "loops" => \/ walk = "auth" /\ ~Clean
                      \/ walk = "nfit" /\ \E i \in DOMAIN entries : entries[i].kind \in {"skip", "zero"}
  /\ (end = "" /\ off + H < Size) => HeaderAt(off).kind # "body"
  /\ (end # "" /\ Clean /\ walk # "vss") => Reported

\* Listing a variable store reports all of its variables but the empty ones
\* (uefi_platform.py:704, "just skip variable with empty name and data for now").
EveryVariableReported == (end # "" /\ walk = "vss") => Reported
=============================================================================
