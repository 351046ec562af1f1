--------------------- MODULE BiosWriteProtectionProofs ---------------------
(***************************************************************************)
(* Proofs about BiosWriteProtection, for every page size, flash size and    *)
(* number of protected ranges.  The heart is CarveExact: carving a range    *)
(* out of an area leaves exactly the other bytes.                           *)
(***************************************************************************)
EXTENDS BiosWriteProtection, TLAPS

\* The areas of the list do not overlap.
Disjoint(S) == \A a1, a2 \in S : a1 # a2 => a1.hi < a2.lo \/ a2.hi < a1.lo

\* The loop variables and the registers read so far belong together, also once the
\* verdict has been given.
Working == pc = "ranges" \/ cover # "not said"

AreasInv ==
  /\ bios = RegionOf(region)
  /\ \A b \in Nat : (\E a \in areas : Inside(b, a)) <=> (InBios(b) /\ ~Guarded(b))
  /\ Disjoint(areas)
  /\ region.rb <= region.rl => \A a \in areas : a.lo <= a.hi
  /\ region.rb <= region.rl /\ areas # {bios} => \E b \in Nat : InBios(b) /\ Guarded(b)

VerdictInv ==
  /\ result \in {"PASSED", "FAILED"} => cover # "not said"
  /\ cover # "not said" => /\ pc = "over"
                           /\ cover = CoverMessage
                           /\ result = Verdict(areas = {})
  /\ pc \in {"controls", "region"} => guarded = {}
  /\ pc # "over" => result = "none"

Inv == TypeOK /\ (Working /\ region.defined => AreasInv) /\ VerdictInv
-----------------------------------------------------------------------------
\* Multiplication by the page size keeps order (the step from pages to bytes).
LEMMA PageBytes ==
  ASSUME Sizes, NEW m \in Nat, NEW n \in Nat
  PROVE  /\ m * PageSize \in Nat
         /\ (m + 1) * PageSize = m * PageSize + PageSize
         /\ m <= n => m * PageSize <= n * PageSize
<1>1. PageSize \in Nat \ {0}
  BY DEF Sizes
<1>2. m * PageSize \in Nat /\ (m + 1) * PageSize = m * PageSize + PageSize
  BY <1>1
<1>3. ASSUME m <= n PROVE m * PageSize <= n * PageSize
  <2>1. PICK d \in Nat : n = m + d
    <3>1. n - m \in Nat /\ n = m + (n - m)
      BY <1>3
    <3>2. QED BY <3>1
  <2>2. (m + d) * PageSize = m * PageSize + d * PageSize
    BY <1>1
  <2>3. m * PageSize \in Nat /\ d * PageSize \in Nat
    BY <1>1
  <2>4. QED BY <2>1, <2>2, <2>3
<1>4. QED BY <1>2, <1>3

\* get_SPI_Protected_Range decodes an enabled register to the bytes it protects.
LEMMA RangeBytes ==
  ASSUME Sizes, NEW p \in PR, p.wpe
  PROVE  /\ RangeOf(p) \in Intervals
         /\ \A b \in Nat : Inside(b, RangeOf(p)) <=> b \in Covered(p.prb, p.prl)
<1>1. p.prb \in Nat /\ p.prl \in Nat
  BY DEF Sizes, PR, Page
<1>2. PageSize \in Nat \ {0}
  BY DEF Sizes
<1>3. p.prb * PageSize \in Nat /\ p.prl * PageSize \in Nat
  BY <1>1, PageBytes
<1>4. (p.prl + 1) * PageSize = p.prl * PageSize + PageSize
  BY <1>1, PageBytes
<1>5. RangeOf(p) = [lo |-> p.prb * PageSize, hi |-> p.prl * PageSize + (PageSize - 1)]
  BY DEF RangeOf, Interval
<1>6. RangeOf(p) \in Intervals
  BY <1>2, <1>3, <1>5 DEF Intervals
<1>7. ASSUME NEW b \in Nat
      PROVE  Inside(b, RangeOf(p)) <=> b \in Covered(p.prb, p.prl)
  <2>1. Inside(b, RangeOf(p))
          <=> p.prb * PageSize <= b /\ b <= p.prl * PageSize + (PageSize - 1)
    BY <1>5 DEF Inside
  <2>2. b \in Covered(p.prb, p.prl)
          <=> p.prb * PageSize <= b /\ b < p.prl * PageSize + PageSize
    BY <1>4 DEF Covered
  <2>3. QED BY <2>1, <2>2, <1>2, <1>3
<1>8. QED BY <1>6, <1>7

\* get_SPI_region decodes a defined register to the bytes of the region.
LEMMA RegionBytes ==
  ASSUME Sizes, NEW f \in FREG, f.defined
  PROVE  /\ RegionOf(f) \in Intervals
         /\ \A b \in Nat : Inside(b, RegionOf(f)) <=> b \in Covered(f.rb, f.rl)
         /\ f.rb <= f.rl => RegionOf(f).lo <= RegionOf(f).hi
<1>1. f.rb \in Nat /\ f.rl \in Nat
  <2>1. CASE f \in [defined : {TRUE}, rb : Page, rl : Page]
    BY <2>1 DEF Sizes, Page
  <2>2. CASE f = [defined |-> FALSE, rb |-> 0, rl |-> 0]
    BY <2>2
  <2>3. QED BY <2>1, <2>2 DEF FREG
<1>2. PageSize \in Nat \ {0}
  BY DEF Sizes
<1>3. f.rb * PageSize \in Nat /\ f.rl * PageSize \in Nat
  BY <1>1, PageBytes
<1>4. (f.rl + 1) * PageSize = f.rl * PageSize + PageSize
  BY <1>1, PageBytes
<1>5. RegionOf(f) = [lo |-> f.rb * PageSize, hi |-> f.rl * PageSize + (PageSize - 1)]
  BY DEF RegionOf, Interval
<1>6. RegionOf(f) \in Intervals
  BY <1>2, <1>3, <1>5 DEF Intervals
<1>7. ASSUME NEW b \in Nat
      PROVE  Inside(b, RegionOf(f)) <=> b \in Covered(f.rb, f.rl)
  <2>1. Inside(b, RegionOf(f))
          <=> f.rb * PageSize <= b /\ b <= f.rl * PageSize + (PageSize - 1)
    BY <1>5 DEF Inside
  <2>2. b \in Covered(f.rb, f.rl)
          <=> f.rb * PageSize <= b /\ b < f.rl * PageSize + PageSize
    BY <1>4 DEF Covered
  <2>3. QED BY <2>1, <2>2, <1>2, <1>3
<1>8. ASSUME f.rb <= f.rl PROVE RegionOf(f).lo <= RegionOf(f).hi
  <2>1. f.rb * PageSize <= f.rl * PageSize
    BY <1>1, <1>8, PageBytes
  <2>2. QED BY <2>1, <1>2, <1>3, <1>5
<1>9. QED BY <1>6, <1>7, <1>8

\* One area and one write-protected range: what is left are intervals inside the area
\* that hold exactly its other bytes.
LEMMA CarveExact ==
  ASSUME NEW a \in Intervals, NEW r \in Intervals, r.lo <= r.hi
  PROVE  /\ Carve(a, r) \subseteq Intervals
         /\ \A b \in Nat : (\E x \in Carve(a, r) : Inside(b, x))
                              <=> (Inside(b, a) /\ ~Inside(b, r))
         /\ \A x \in Carve(a, r) : a.lo <= x.lo /\ x.hi <= a.hi
         /\ a.lo <= a.hi => \A x \in Carve(a, r) : x.lo <= x.hi
         /\ Disjoint(Carve(a, r))
         /\ Carve(a, r) # {a} /\ a.lo <= a.hi => \E b \in Nat : Inside(b, a) /\ Inside(b, r)
<1> a.lo \in Nat /\ a.hi \in Nat /\ r.lo \in Nat /\ r.hi \in Nat
  BY DEF Intervals
<1>1. CASE r.lo <= a.lo /\ r.hi >= a.lo /\ r.hi >= a.hi
  <2>1. Carve(a, r) = {}
    BY <1>1 DEF Carve
  <2>2. \A b \in Nat : ~(Inside(b, a) /\ ~Inside(b, r))
    BY <1>1 DEF Inside
  <2>3. a.lo <= a.hi => Inside(a.lo, a) /\ Inside(a.lo, r)
    BY <1>1 DEF Inside
  <2>4. QED BY <2>1, <2>2, <2>3 DEF Disjoint
<1>2. CASE r.lo <= a.lo /\ r.hi >= a.lo /\ ~(r.hi >= a.hi)
  <2>1. Carve(a, r) = {[lo |-> r.hi + 1, hi |-> a.hi]}
    BY <1>2 DEF Carve, Interval
  <2>2. [lo |-> r.hi + 1, hi |-> a.hi] \in Intervals
    BY DEF Intervals
  <2>3. \A b \in Nat : (\E x \in Carve(a, r) : Inside(b, x)) <=> (Inside(b, a) /\ ~Inside(b, r))
    BY <1>2, <2>1 DEF Inside
  <2>4. Inside(a.lo, a) /\ Inside(a.lo, r)
    BY <1>2 DEF Inside
  <2>5. QED BY <1>2, <2>1, <2>2, <2>3, <2>4 DEF Disjoint
<1>3. CASE ~(r.lo <= a.lo /\ r.hi >= a.lo) /\ r.lo <= a.hi /\ r.hi >= a.hi /\ r.lo <= a.lo
  <2>1. Carve(a, r) = {}
    BY <1>3 DEF Carve
  <2>2. \A b \in Nat : ~(Inside(b, a) /\ ~Inside(b, r))
    BY <1>3 DEF Inside
  <2>3. ~(a.lo <= a.hi)
    BY <1>3
  <2>4. QED BY <2>1, <2>2, <2>3 DEF Disjoint
<1>4. CASE ~(r.lo <= a.lo /\ r.hi >= a.lo) /\ r.lo <= a.hi /\ r.hi >= a.hi /\ ~(r.lo <= a.lo)
  <2>1. Carve(a, r) = {[lo |-> a.lo, hi |-> r.lo - 1]}
    BY <1>4 DEF Carve, Interval
  <2>2. [lo |-> a.lo, hi |-> r.lo - 1] \in Intervals
    BY <1>4 DEF Intervals
  <2>3. \A b \in Nat : (\E x \in Carve(a, r) : Inside(b, x)) <=> (Inside(b, a) /\ ~Inside(b, r))
    BY <1>4, <2>1 DEF Inside
  <2>4. Inside(r.lo, a) /\ Inside(r.lo, r)
    BY <1>4 DEF Inside
  <2>5. QED BY <1>4, <2>1, <2>2, <2>3, <2>4 DEF Disjoint
<1>5. CASE /\ ~(r.lo <= a.lo /\ r.hi >= a.lo) /\ ~(r.lo <= a.hi /\ r.hi >= a.hi)
           /\ r.lo > a.lo /\ r.hi < a.hi
  <2>1. Carve(a, r) = {[lo |-> a.lo, hi |-> r.lo - 1], [lo |-> r.hi + 1, hi |-> a.hi]}
    BY <1>5 DEF Carve, Interval
  <2>2. [lo |-> a.lo, hi |-> r.lo - 1] \in Intervals /\ [lo |-> r.hi + 1, hi |-> a.hi] \in Intervals
    BY <1>5 DEF Intervals
  <2>3. \A b \in Nat : (\E x \in Carve(a, r) : Inside(b, x)) <=> (Inside(b, a) /\ ~Inside(b, r))
    BY <1>5, <2>1 DEF Inside
  <2>4. Inside(r.lo, a) /\ Inside(r.lo, r)
    BY <1>5 DEF Inside
  <2>5. \A x \in Carve(a, r) : a.lo <= x.lo /\ x.hi <= a.hi /\ x.lo <= x.hi
    BY <1>5, <2>1
  <2>6. Disjoint(Carve(a, r))
    BY <1>5, <2>1 DEF Disjoint
  <2>7. QED BY <2>1, <2>2, <2>3, <2>4, <2>5, <2>6
<1>6. CASE /\ ~(r.lo <= a.lo /\ r.hi >= a.lo) /\ ~(r.lo <= a.hi /\ r.hi >= a.hi)
           /\ ~(r.lo > a.lo /\ r.hi < a.hi)
  <2>1. Carve(a, r) = {a}
    BY <1>6 DEF Carve
  <2>2. \A b \in Nat : Inside(b, a) => ~Inside(b, r)
    BY <1>6 DEF Inside
  <2>3. QED BY <2>1, <2>2 DEF Disjoint
<1>7. QED BY <1>1, <1>2, <1>3, <1>4, <1>5, <1>6
-----------------------------------------------------------------------------
\* A turn of the loop with an enabled range keeps the areas exact.
LEMMA ReadRangeExact ==
  ASSUME Sizes, TypeOK, AreasInv, region.defined, NEW p \in PR, ReadRange(p), p.wpe,
         RangeOf(p).lo <= RangeOf(p).hi
  PROVE  AreasInv' /\ areas' \subseteq Intervals
<1> DEFINE r == RangeOf(p)
<1>0. /\ r \in Intervals
      /\ \A b \in Nat : Inside(b, r) <=> b \in Covered(p.prb, p.prl)
  BY RangeBytes
<1>1. /\ areas' = UNION {Carve(a, r) : a \in areas}
      /\ guarded' = guarded \cup {p}
      /\ bios' = bios /\ region' = region
  <2>1. ~(r.lo > r.hi)
    BY <1>0 DEF Intervals
  <2>2. QED BY <2>1 DEF ReadRange
<1>2. areas \subseteq Intervals
  BY DEF TypeOK
<1>3. \A a \in areas :
        /\ Carve(a, r) \subseteq Intervals
        /\ \A b \in Nat : (\E x \in Carve(a, r) : Inside(b, x)) <=> (Inside(b, a) /\ ~Inside(b, r))
        /\ \A x \in Carve(a, r) : a.lo <= x.lo /\ x.hi <= a.hi
        /\ a.lo <= a.hi => \A x \in Carve(a, r) : x.lo <= x.hi
        /\ Disjoint(Carve(a, r))
        /\ Carve(a, r) # {a} /\ a.lo <= a.hi => \E b \in Nat : Inside(b, a) /\ Inside(b, r)
  <2> TAKE a \in areas
  <2>1. a \in Intervals
    BY <1>2
  <2> HIDE DEF r
  <2>2. r.lo <= r.hi
    BY DEF r
  <2>3. QED BY <2>1, <2>2, <1>0, CarveExact
<1> HIDE DEF r
<1>4. areas' \subseteq Intervals
  BY <1>1, <1>3
<1>5. ASSUME NEW b \in Nat
      PROVE  /\ InBios(b)' <=> InBios(b)
             /\ Guarded(b)' <=> (Guarded(b) \/ Inside(b, r))
  <2>1. InBios(b)' <=> InBios(b)
    BY <1>1 DEF InBios
  <2>2. Guarded(b)' <=> (Guarded(b) \/ b \in Covered(p.prb, p.prl))
    BY <1>1 DEF Guarded
  <2>3. QED BY <2>1, <2>2, <1>0
<1>6. (\A b \in Nat : (\E a \in areas : Inside(b, a)) <=> (InBios(b) /\ ~Guarded(b)))'
  <2> SUFFICES ASSUME NEW b \in Nat
               PROVE  (\E x \in areas' : Inside(b, x)) <=> (InBios(b)' /\ ~Guarded(b)')
    OBVIOUS
  <2>1. (\E x \in areas' : Inside(b, x)) <=> \E a \in areas : \E x \in Carve(a, r) : Inside(b, x)
    BY <1>1
  <2>2. (\E a \in areas : \E x \in Carve(a, r) : Inside(b, x))
          <=> ((\E a \in areas : Inside(b, a)) /\ ~Inside(b, r))
    BY <1>3
  <2>3. (\E a \in areas : Inside(b, a)) <=> (InBios(b) /\ ~Guarded(b))
    BY DEF AreasInv
  <2>4. QED BY <2>1, <2>2, <2>3, <1>5
<1>7. Disjoint(areas)'
  <2> SUFFICES ASSUME NEW x \in areas', NEW y \in areas', x # y
               PROVE  x.hi < y.lo \/ y.hi < x.lo
    BY DEF Disjoint
  <2>1. PICK a \in areas : x \in Carve(a, r)
    BY <1>1
  <2>2. PICK c \in areas : y \in Carve(c, r)
    BY <1>1
  <2>3. x \in Intervals /\ y \in Intervals /\ a \in Intervals /\ c \in Intervals
    BY <1>2, <1>4
  <2>4. CASE a = c
    BY <2>1, <2>2, <2>4, <1>3 DEF Disjoint
  <2>5. CASE a # c
    <3>1. a.hi < c.lo \/ c.hi < a.lo
      BY <2>5 DEF AreasInv, Disjoint
    <3>2. a.lo <= x.lo /\ x.hi <= a.hi /\ c.lo <= y.lo /\ y.hi <= c.hi
      BY <2>1, <2>2, <1>3
    <3>3. QED BY <3>1, <3>2, <2>3 DEF Intervals
  <2>6. QED BY <2>4, <2>5
<1>8. (region.rb <= region.rl => \A a \in areas : a.lo <= a.hi)'
  BY <1>1, <1>3 DEF AreasInv
<1>9. (region.rb <= region.rl /\ areas # {bios} => \E b \in Nat : InBios(b) /\ Guarded(b))'
  <2> SUFFICES ASSUME region.rb <= region.rl, areas' # {bios}
               PROVE  \E b \in Nat : InBios(b)' /\ Guarded(b)'
    BY <1>1
  <2>1. CASE areas # {bios}
    BY <2>1, <1>5 DEF AreasInv
  <2>2. CASE areas = {bios}
    <3>1. bios \in areas /\ bios.lo <= bios.hi /\ Carve(bios, r) # {bios}
      BY <2>2, <1>1 DEF AreasInv
    <3>2. PICK b \in Nat : Inside(b, bios) /\ Inside(b, r)
      BY <3>1, <1>3
    <3>3. InBios(b)
      BY <3>1, <3>2 DEF AreasInv
    <3>4. QED BY <3>2, <3>3, <1>5
  <2>3. QED BY <2>1, <2>2
<1>10. (bios = RegionOf(region))'
  BY <1>1 DEF AreasInv, RegionOf
<1>11. QED BY <1>4, <1>6, <1>7, <1>8, <1>9, <1>10 DEF AreasInv

\* A register that protects nothing, disabled or with its base above its limit, changes
\* neither the areas nor what is protected.
LEMMA IdleRange ==
  ASSUME Sizes, NEW p \in PR, p.wpe, RangeOf(p).lo > RangeOf(p).hi
  PROVE  \A b \in Nat : b \notin Covered(p.prb, p.prl)
<1>1. RangeOf(p) \in Intervals
  BY RangeBytes
<1>2. \A b \in Nat : ~Inside(b, RangeOf(p))
  BY <1>1 DEF Inside, Intervals
<1>3. QED BY <1>2, RangeBytes
-----------------------------------------------------------------------------
\* Every step of run() keeps the invariant.
LEMMA InvStep == ASSUME Sizes, Inv, [Next]_vars PROVE Inv'
<1>1. CASE ReadFails
  <2>1. UNCHANGED <<wp, bios, j, areas, cover, region, guarded>> /\ pc' = "over" /\ result' = "WARNING"
    BY <1>1 DEF ReadFails
  <2>2. cover = "not said"
    BY <1>1 DEF ReadFails, Inv, VerdictInv
  <2>3. TypeOK'
    BY <2>1 DEF Inv, TypeOK
  <2>4. QED BY <2>1, <2>2, <2>3 DEF Inv, Working, VerdictInv
<1>2. ASSUME NEW c \in Controls, check_BIOS_write_protection(c) PROVE Inv'
  <2>1. /\ UNCHANGED <<bios, j, areas, cover, result, region, guarded>>
        /\ pc = "controls" /\ pc' = "region" /\ wp' \in BOOLEAN
    BY <1>2 DEF check_BIOS_write_protection
  <2>2. cover = "not said"
    BY <2>1 DEF Inv, VerdictInv
  <2>3. TypeOK'
    BY <2>1 DEF Inv, TypeOK
  <2>4. QED BY <2>1, <2>2, <2>3 DEF Inv, Working, VerdictInv
<1>3. ASSUME NEW f \in FREG, ReadRegion(f) PROVE Inv'
  <2>1. /\ UNCHANGED <<wp, j, cover, result, guarded>> /\ pc = "region" /\ pc' = "ranges"
        /\ bios' = RegionOf(f) /\ areas' = {RegionOf(f)} /\ region' = f
    BY <1>3 DEF ReadRegion
  <2>2. cover = "not said" /\ guarded = {} /\ result = "none"
    BY <2>1 DEF Inv, VerdictInv
  <2>3. RegionOf(f) \in Intervals
    <3>1. CASE f.defined
      BY <3>1, RegionBytes
    <3>2. CASE ~f.defined
      BY <3>2 DEF RegionOf, Interval, Intervals
    <3>3. QED BY <3>1, <3>2
  <2>4. TypeOK'
    BY <2>1, <2>3 DEF Inv, TypeOK
  <2>5. ASSUME f.defined PROVE AreasInv'
    <3>1. /\ \A b \in Nat : Inside(b, RegionOf(f)) <=> b \in Covered(f.rb, f.rl)
          /\ f.rb <= f.rl => RegionOf(f).lo <= RegionOf(f).hi
      BY <2>5, RegionBytes
    <3>2. \A b \in Nat : (InBios(b)' <=> b \in Covered(f.rb, f.rl)) /\ ~Guarded(b)'
      BY <2>1, <2>2 DEF InBios, Guarded
    <3>3. (bios = RegionOf(region))'
      BY <2>1 DEF RegionOf
    <3>4. QED BY <2>1, <3>1, <3>2, <3>3 DEF AreasInv, Disjoint
  <2>6. QED BY <2>1, <2>2, <2>4, <2>5 DEF Inv, Working, VerdictInv
<1>4. ASSUME NEW p \in PR, ReadRange(p) PROVE Inv'
  <2>1. /\ UNCHANGED <<pc, wp, bios, cover, result, region>> /\ pc = "ranges" /\ j < PRCount
        /\ j' = j + 1 /\ guarded' = guarded \cup (IF p.wpe THEN {p} ELSE {})
    BY <1>4 DEF ReadRange
  <2>2. cover = "not said" /\ result = "none"
    BY <2>1 DEF Inv, VerdictInv
  <2>3. j' \in 0 .. PRCount /\ guarded' \subseteq PR
    <3>1. j \in 0 .. PRCount /\ guarded \subseteq PR
      BY DEF Inv, TypeOK
    <3>2. j' \in 0 .. PRCount
      BY <2>1, <3>1 DEF Sizes
    <3>3. guarded' \subseteq PR
      BY <2>1, <3>1
    <3>4. QED BY <3>2, <3>3
  <2>4. areas' \subseteq Intervals /\ (region.defined => AreasInv')
    <3>1. CASE p.wpe /\ RangeOf(p).lo <= RangeOf(p).hi
      <4>1. CASE region.defined
        <5>1. TypeOK /\ AreasInv
          BY <4>1, <2>1 DEF Inv, Working
        <5>2. QED BY <5>1, <4>1, <3>1, <1>4, ReadRangeExact
      <4>2. CASE ~region.defined
        <5>1. RangeOf(p) \in Intervals
          BY <3>1, RangeBytes
        <5>2. \A a \in areas : Carve(a, RangeOf(p)) \subseteq Intervals
          BY <5>1, <3>1, CarveExact DEF Inv, TypeOK
        <5>3. areas' = UNION {Carve(a, RangeOf(p)) : a \in areas}
          BY <1>4, <3>1, <5>1 DEF ReadRange, Intervals
        <5>4. QED BY <5>2, <5>3, <4>2
      <4>3. QED BY <4>1, <4>2
    <3>2. CASE ~(p.wpe /\ RangeOf(p).lo <= RangeOf(p).hi)
      <4>1. p.wpe => RangeOf(p).lo > RangeOf(p).hi
        BY <3>2, RangeBytes DEF Intervals
      <4>2. areas' = areas
        BY <4>1, <1>4 DEF ReadRange
      <4>3. \A b \in Nat : (Guarded(b)' <=> Guarded(b)) /\ (InBios(b)' <=> InBios(b))
        <5>1. p.wpe => \A b \in Nat : b \notin Covered(p.prb, p.prl)
          BY <4>1, IdleRange
        <5>2. QED BY <5>1, <2>1 DEF Guarded, InBios
      <4>4. region.defined => AreasInv
        BY <2>1 DEF Inv, Working
      <4>5. (bios = RegionOf(region))' <=> bios = RegionOf(region)
        BY <2>1 DEF RegionOf
      <4>6. region.defined => AreasInv'
        BY <4>2, <4>3, <4>4, <4>5, <2>1 DEF AreasInv, Disjoint
      <4>7. QED BY <4>2, <4>6 DEF Inv, TypeOK
    <3>3. QED BY <3>1, <3>2
  <2>5. TypeOK'
    BY <2>1, <2>3, <2>4 DEF Inv, TypeOK
  <2>6. QED BY <2>1, <2>2, <2>4, <2>5 DEF Inv, Working, VerdictInv
<1>5. CASE Conclude
  <2>1. /\ UNCHANGED <<wp, bios, j, areas, region, guarded>> /\ pc = "ranges" /\ pc' = "over"
        /\ cover' = CoverMessage /\ result' = Verdict(areas = {})
    BY <1>5 DEF Conclude
  <2>2. CoverMessage' = CoverMessage /\ Verdict(areas = {})' = Verdict(areas = {})
    BY <2>1 DEF CoverMessage, Verdict
  <2>3. cover' \in {"all", "part", "none"} /\ result' \in {"PASSED", "FAILED"}
    BY <2>1 DEF CoverMessage, Verdict
  <2>4. TypeOK'
    BY <2>1, <2>3 DEF Inv, TypeOK
  <2>5. region.defined => AreasInv'
    BY <2>1 DEF Inv, Working, AreasInv, InBios, Guarded, Disjoint, RegionOf
  <2>6. QED BY <2>1, <2>2, <2>3, <2>4, <2>5 DEF Inv, VerdictInv, Working
<1>6. CASE UNCHANGED vars
  BY <1>6 DEF vars, Inv, TypeOK, Working, AreasInv, VerdictInv, InBios, Guarded, Disjoint,
              CoverMessage, Verdict, RegionOf
<1>7. QED BY <1>1, <1>2, <1>3, <1>4, <1>5, <1>6 DEF Next

\* The invariant holds at the start of the test module.
LEMMA InvInit == ASSUME Sizes, Init PROVE Inv
<1>1. TypeOK
  <2>1. j \in 0 .. PRCount /\ wp \in BOOLEAN
    <3>1. j = 0 /\ wp \in BOOLEAN
      BY DEF Init
    <3>2. QED BY <3>1 DEF Sizes
  <2>2. bios \in Intervals
    BY DEF Init, Interval, Intervals
  <2>3. region \in FREG
    BY DEF Init, FREG
  <2>4. QED BY <2>1, <2>2, <2>3 DEF Init, TypeOK
<1>2. QED BY <1>1 DEF Init, Inv, Working, VerdictInv

\* The invariant implies that the list of areas is exact.
LEMMA InvAreas == Inv => AreasExact
<1> SUFFICES ASSUME Inv, pc = "ranges", region.defined
             PROVE  /\ \A b \in Flash : (\E a \in areas : Inside(b, a)) <=> (InBios(b) /\ ~Guarded(b))
                    /\ \A a1, a2 \in areas : a1 # a2 => a1.hi < a2.lo \/ a2.hi < a1.lo
  BY DEF AreasExact
<1>1. AreasInv
  BY DEF Inv, Working
<1>2. Flash \subseteq Nat
  BY DEF Flash
<1>3. QED BY <1>1, <1>2 DEF AreasInv, Disjoint

\* A byte of the BIOS region is a byte the registers can name.
LEMMA BiosInFlash ==
  ASSUME Sizes, TypeOK, NEW b \in Nat, InBios(b)
  PROVE  b \in Flash
<1>1. region.rl \in Nat /\ region.rl + 1 \in Nat /\ region.rl + 1 <= MaxPage + 1 /\ MaxPage + 1 \in Nat
  <2>1. region \in FREG
    BY DEF TypeOK
  <2>2. CASE region \in [defined : {TRUE}, rb : Page, rl : Page]
    BY <2>2 DEF Sizes, Page
  <2>3. CASE region = [defined |-> FALSE, rb |-> 0, rl |-> 0]
    BY <2>3 DEF Sizes
  <2>4. QED BY <2>1, <2>2, <2>3 DEF FREG
<1>2. (region.rl + 1) * PageSize <= (MaxPage + 1) * PageSize
  BY <1>1, PageBytes
<1>3. (region.rl + 1) * PageSize \in Nat /\ (MaxPage + 1) * PageSize \in Nat
  BY <1>1, PageBytes
<1>4. b < (region.rl + 1) * PageSize
  BY DEF InBios, Covered
<1>5. QED BY <1>2, <1>3, <1>4 DEF Flash

\* What the verdict and the message rest on.
LEMMA AreasMeaning ==
  ASSUME Sizes, TypeOK, AreasInv, region.defined, region.rb <= region.rl
  PROVE  /\ areas = {} <=> \A b \in Flash : InBios(b) => Guarded(b)
         /\ areas = {bios} <=> \A b \in Flash : InBios(b) => ~Guarded(b)
<1>1. Flash \subseteq Nat
  BY DEF Flash
<1>2. ASSUME areas = {} PROVE \A b \in Flash : InBios(b) => Guarded(b)
  BY <1>1, <1>2 DEF AreasInv
<1>3. ASSUME areas # {} PROVE \E b \in Flash : InBios(b) /\ ~Guarded(b)
  <2>1. PICK a \in areas : TRUE
    BY <1>3
  <2>2. a \in Intervals /\ a.lo <= a.hi
    BY DEF AreasInv, TypeOK
  <2>3. a.lo \in Nat /\ Inside(a.lo, a)
    BY <2>2 DEF Intervals, Inside
  <2>4. InBios(a.lo) /\ ~Guarded(a.lo)
    BY <2>3 DEF AreasInv
  <2>5. QED BY <2>3, <2>4, BiosInFlash
<1>4. ASSUME areas = {bios}, NEW b \in Flash, InBios(b) PROVE ~Guarded(b)
  <2>1. Inside(b, bios)
    BY <1>1, <1>4, RegionBytes DEF AreasInv, TypeOK, InBios
  <2>2. QED BY <1>1, <1>4, <2>1 DEF AreasInv
<1>5. ASSUME areas # {bios} PROVE \E b \in Flash : InBios(b) /\ Guarded(b)
  BY <1>5, BiosInFlash DEF AreasInv
<1>6. QED BY <1>2, <1>3, <1>4, <1>5

\* The invariant implies the verdict: it passes exactly when SMM protects the region or the
\* ranges together cover it.
LEMMA InvVerdict == ASSUME Sizes PROVE Inv => PassedIffProtected
<1> SUFFICES ASSUME Inv, result \in {"PASSED", "FAILED"}, region.defined, region.rb <= region.rl
             PROVE  result = "PASSED" <=> wp \/ \A b \in Flash : InBios(b) => Guarded(b)
  BY DEF PassedIffProtected
<1>1. cover # "not said" /\ result = Verdict(areas = {})
  BY DEF Inv, VerdictInv
<1>2. TypeOK /\ AreasInv
  BY <1>1 DEF Inv, Working
<1>3. areas = {} <=> \A b \in Flash : InBios(b) => Guarded(b)
  BY <1>2, AreasMeaning
<1>4. result = "PASSED" <=> wp \/ areas = {}
  BY <1>1 DEF Verdict
<1>5. QED BY <1>3, <1>4

\* The invariant implies the message on the ranges.
LEMMA InvMessage == ASSUME Sizes PROVE Inv => MessageIsTrue
<1> SUFFICES ASSUME Inv, cover # "not said", region.defined, region.rb <= region.rl
             PROVE  /\ cover = "none" <=> \A b \in Flash : InBios(b) => ~Guarded(b)
                    /\ cover = "all" <=> \A b \in Flash : InBios(b) => Guarded(b)
  BY DEF MessageIsTrue
<1>1. TypeOK /\ AreasInv /\ cover = CoverMessage
  BY DEF Inv, Working, VerdictInv
<1>2. /\ areas = {} <=> \A b \in Flash : InBios(b) => Guarded(b)
      /\ areas = {bios} <=> \A b \in Flash : InBios(b) => ~Guarded(b)
  BY <1>1, AreasMeaning
<1>3. (cover = "all" <=> areas = {}) /\ (cover = "none" <=> areas = {bios})
  BY <1>1 DEF CoverMessage
<1>4. QED BY <1>2, <1>3

\* Together: what the areas, the verdict and the message say of the registers, for every number
\* and overlap of ranges (bios_wp.py:100, check_SPI_protected_ranges).
THEOREM FlashVerdicts ==
  ASSUME Sizes PROVE Spec => [](TypeOK /\ AreasExact /\ PassedIffProtected /\ MessageIsTrue)
<1>1. Init => Inv
  BY InvInit
<1>2. Inv /\ [Next]_vars => Inv'
  BY InvStep
<1>3. Inv => TypeOK /\ AreasExact /\ PassedIffProtected /\ MessageIsTrue
  BY InvAreas, InvVerdict, InvMessage DEF Inv
<1>4. QED BY <1>1, <1>2, <1>3, PTL DEF Spec
=============================================================================
