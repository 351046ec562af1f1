------------------------ MODULE BiosWriteProtection ------------------------
(***************************************************************************)
(* The test module common.bios_wp (chipsec/modules/common/bios_wp.py) with  *)
(* the register decoding of chipsec/hal/spi.py: is the BIOS region of the   *)
(* flash write-protected, by SMM or by the protected range registers        *)
(* PR0..PR4 together?  The registers hold page numbers, the verdict is      *)
(* about bytes; the module carves one range after the other out of a list   *)
(* of areas.  The order of that list is never looked at, so it is a set.    *)
(***************************************************************************)
EXTENDS Integers

CONSTANTS PageSize,   \* 2^SPI_FLA_SHIFT
          MaxPage,    \* largest value of RB, RL, PRB and PRL
          PRCount     \* number of protected range registers

\* What the sizes are taken to be.
Sizes == PageSize \in Nat \ {0} /\ MaxPage \in Nat /\ PRCount \in Nat

VARIABLES
  pc,        \* where run() is
  wp,        \* what check_BIOS_write_protection returned
  bios,      \* (bios_base, bios_limit)
  j,         \* the protected range to be read next
  areas,     \* areas_to_protect
  cover,     \* which message on the ranges is logged
  result,    \* the ModuleResult
  region,    \* history: the register of the BIOS region
  guarded    \* history: the enabled protected range registers read so far

vars == <<pc, wp, bios, j, areas, cover, result, region, guarded>>

Page == 0 .. MaxPage
Controls == [ble : BOOLEAN, bioswe : BOOLEAN, smmbwp : BOOLEAN]
FREG == [defined : {TRUE}, rb : Page, rl : Page] \cup {[defined |-> FALSE, rb |-> 0, rl |-> 0]}
PR == [prb : Page, prl : Page, wpe : BOOLEAN, rpe : BOOLEAN]

\* The bytes a register with these page numbers covers (external: the flash controller).
Covered(first, last) == {b \in Nat : first * PageSize <= b /\ b < (last + 1) * PageSize}

Interval(lo, hi) == [lo |-> lo, hi |-> hi]
Inside(b, a) == a.lo <= b /\ b <= a.hi
-----------------------------------------------------------------------------
\* A read of a register or control raises CSReadError.
ReadFails ==
  /\ pc \in {"controls", "region"} \/ (pc = "ranges" /\ j < PRCount)
  /\ pc' = "over" /\ result' = "WARNING"
  /\ UNCHANGED <<wp, bios, j, areas, cover, region, guarded>>

check_BIOS_write_protection(c) ==
  /\ pc = "controls"
  /\ wp' = (c.ble /\ ~c.bioswe /\ c.smmbwp)
  /\ pc' = "region"
  /\ UNCHANGED <<bios, j, areas, cover, result, region, guarded>>

\* get_SPI_region: (0, 0) when the platform does not define the register.
RegionOf(f) == IF f.defined THEN Interval(f.rb * PageSize, f.rl * PageSize + (PageSize - 1))
                            ELSE Interval(0, 0)

\* The first half of check_SPI_protected_ranges.
ReadRegion(f) ==
  /\ pc = "region"
  /\ bios' = RegionOf(f) /\ areas' = {RegionOf(f)}
  /\ region' = f
  /\ pc' = "ranges"
  /\ UNCHANGED <<wp, j, cover, result, guarded>>

\* Mutant of RangeOf: the limit is the first byte of the last page.
RangeOfFirstByte(p) == Interval(p.prb * PageSize, p.prl * PageSize)

\* get_SPI_Protected_Range
RangeOf(p) == Interval(p.prb * PageSize,
                       p.prl * PageSize + (IF p.wpe \/ p.rpe THEN PageSize - 1 ELSE 0))

\* Mutant of Carve: a range strictly inside an area removes all that follows it.
CarveHead(a, r) ==
  IF r.lo <= a.lo /\ r.hi >= a.lo
    THEN IF r.hi >= a.hi THEN {} ELSE {Interval(r.hi + 1, a.hi)}
  ELSE IF r.lo <= a.hi /\ r.hi >= a.hi
    THEN IF r.lo <= a.lo THEN {} ELSE {Interval(a.lo, r.lo - 1)}
  ELSE IF r.lo > a.lo /\ r.hi < a.hi
    THEN {Interval(a.lo, r.lo - 1)}
  ELSE {a}

\* What becomes of area a when range r is write-protected.
Carve(a, r) ==
  IF r.lo <= a.lo /\ r.hi >= a.lo
    THEN IF r.hi >= a.hi THEN {} ELSE {Interval(r.hi + 1, a.hi)}
  ELSE IF r.lo <= a.hi /\ r.hi >= a.hi
    THEN IF r.lo <= a.lo THEN {} ELSE {Interval(a.lo, r.lo - 1)}
  ELSE IF r.lo > a.lo /\ r.hi < a.hi
    THEN {Interval(a.lo, r.lo - 1), Interval(r.hi + 1, a.hi)}
  ELSE {a}

\* One turn of the loop over the protected ranges.
ReadRange(p) ==
  /\ pc = "ranges" /\ j < PRCount
  /\ areas' = IF RangeOf(p).lo > RangeOf(p).hi \/ ~p.wpe THEN areas
              ELSE UNION {Carve(a, RangeOf(p)) : a \in areas}
  /\ guarded' = guarded \cup (IF p.wpe THEN {p} ELSE {})
  /\ j' = j + 1
  /\ UNCHANGED <<pc, wp, bios, cover, result, region>>

\* run: either protection is enough.
Verdict(spr) == IF wp \/ spr THEN "PASSED" ELSE "FAILED"

\* Mutant of CoverMessage: only the number of areas is looked at.
CoverByCount == IF areas = {} THEN "all" ELSE IF \E a, b \in areas : a # b THEN "part" ELSE "none"

\* pr_cover_bios, pr_partial_cover_bios
CoverMessage == IF areas = {} THEN "all" ELSE IF areas # {bios} THEN "part" ELSE "none"

\* The rest of check_SPI_protected_ranges and of run.
Conclude ==
  /\ pc = "ranges" /\ j = PRCount
  /\ cover' = CoverMessage
  /\ result' = Verdict(areas = {})
  /\ pc' = "over"
  /\ UNCHANGED <<wp, bios, j, areas, region, guarded>>
-----------------------------------------------------------------------------
Init ==
  /\ pc = "controls" /\ wp = FALSE /\ bios = Interval(0, 0) /\ j = 0 /\ areas = {}
  /\ cover = "not said" /\ result = "none"
  /\ region = [defined |-> FALSE, rb |-> 0, rl |-> 0] /\ guarded = {}

Next == \/ ReadFails
        \/ \E c \in Controls : check_BIOS_write_protection(c)
        \/ \E f \in FREG : ReadRegion(f)
        \/ \E p \in PR : ReadRange(p)
        \/ Conclude

Spec == Init /\ [][Next]_vars
-----------------------------------------------------------------------------
(***************************************************************************)
(* Correctness.                                                            *)
(***************************************************************************)

Intervals == [lo : Nat, hi : Nat]

\* The variables of run() are of their kind.
TypeOK ==
  /\ pc \in {"controls", "region", "ranges", "over"}
  /\ wp \in BOOLEAN /\ bios \in Intervals /\ j \in 0 .. PRCount
  /\ areas \subseteq Intervals
  /\ cover \in {"not said", "all", "part", "none"}
  /\ result \in {"none", "PASSED", "FAILED", "WARNING"}
  /\ region \in FREG /\ guarded \subseteq PR

\* The byte is in the BIOS region, by the register that describes it; it is in a
\* write-protected range, by the registers that enable one.
InBios(b) == b \in Covered(region.rb, region.rl)
Guarded(b) == \E p \in guarded : b \in Covered(p.prb, p.prl)

\* The bytes of the flash that the registers can name.
Flash == 0 .. (MaxPage + 1) * PageSize - 1

\* At every turn of the loop the areas left are the bytes of the BIOS region that no
\* enabled protected range covers: none is forgotten, none is listed twice (areas never
\* overlap) and no protected one is listed.
AreasExact ==
  pc = "ranges" /\ region.defined
    => /\ \A b \in Flash : (\E a \in areas : Inside(b, a)) <=> (InBios(b) /\ ~Guarded(b))
       /\ \A a1, a2 \in areas : a1 # a2 => a1.hi < a2.lo \/ a2.hi < a1.lo

\* The test passes exactly when SMM protection is on or the ranges together cover every
\* byte of a BIOS region that is there (the note at bios_wp.py:56).
PassedIffProtected ==
  result \in {"PASSED", "FAILED"} /\ region.defined /\ region.rb <= region.rl
    => (result = "PASSED" <=> wp \/ \A b \in Flash : InBios(b) => Guarded(b))

\* "write-protect parts of BIOS region" and "None of the SPI protected ranges
\* write-protect BIOS region" are said exactly when they are true.
MessageIsTrue ==
  cover # "not said" /\ region.defined /\ region.rb <= region.rl
    => /\ cover = "none" <=> \A b \in Flash : InBios(b) => ~Guarded(b)
       /\ cover = "all" <=> \A b \in Flash : InBios(b) => Guarded(b)
=============================================================================
