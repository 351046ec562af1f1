------------------------------ MODULE MmioBars ------------------------------
(***************************************************************************)
(* The MMIO and I/O ranges that the configuration files name: how an access *)
(* finds the base of its range (get_MMIO_BAR_base_address with its cache,   *)
(* get_IO_BAR_base_address) while commands and firmware program, move and   *)
(* clear the BARs.  A BAR register is 2 * base + low: two bits of base and  *)
(* one that stands for enable and type bits.  BARs move between accesses.   *)
(* Source: chipsec/hal/mmio.py, chipsec/hal/iobar.py.                       *)
(***************************************************************************)
EXTENDS Integers

CONSTANT MaxMoves   \* bound on how often a BAR is programmed again

AllOnes == 7
BaseMask == 6        \* get_field_mask of the base, in place
FIXED == 8           \* fixed_address
OFFSET == 16
NoBus == 0           \* bus=None
Buses == {1, 2}      \* the device of the BAR; 1 is its first bus

VARIABLES
  bar,       \* the definition of the range
  checking,  \* consistency_checking: reading a register of an absent device raises
  present,   \* whether the device is there, per bus
  hw,        \* its BAR register, per bus
  cache_bar_addresses_resolution,
  cached_bar_addresses,   \* of the buses that were asked for, NoBus among them
  held,      \* history: what the BAR has held since the cache was last empty, per bus
  moves,     \* history: how often a BAR was programmed
  last       \* the last access: its bus, how it ended, where it went, and held at the time

vars == <<bar, checking, present, hw, cache_bar_addresses_resolution, cached_bar_addresses,
          held, moves, last>>

\* A definition names a register and its field, a register as a whole (with a mask for its low
\* bits; no file of the repository does), or a register of the device and a mask ("this method
\* is not preferred"); the files give a fixed address to none of the last.
Definitions ==
  {d \in [space : {"mmio", "io"}, style : {"field", "register", "mask"},
          fixed : BOOLEAN, offset : BOOLEAN] : d.style = "mask" => ~d.fixed}

Bus(b) == IF b = NoBus THEN 1 ELSE b
Unreadable(b) == bar.style # "mask" /\ checking /\ ~present[b]
WithOffset(base) == base + IF bar.offset THEN OFFSET ELSE 0
Ok(base) == [out |-> "ok", base |-> base]
Raises(how) == [out |-> how, base |-> -1]
Base(v) == v - (v % 2)

\* reg_mask: a fixed address replaces the base of a field, or a whole register, that is zero or
\* all ones.
Unprogrammed(v) == IF bar.style = "field" THEN Base(v) \in {BaseMask, 0} ELSE v \in {AllOnes, 0}

\* is_ba_invalid.  Low bits alone make a register under a mask valid; the mask removes them
\* afterwards.  A register taken as a whole is never invalid.
Invalid(v) ==
  \/ bar.style = "field" /\ (Base(v) = 0 \/ v = AllOnes)
  \/ bar.style = "mask" /\ v \in {0, AllOnes}

\* The base from the register.  A field that cannot be read is taken as zero, and the message
\* about it then uses a variable that was never assigned; a whole register is read without a try.
\* (limit_field reads the same register once more, for the size only.)
Resolved(b) ==
  LET v == hw[b]
  IN  IF Unreadable(b) THEN Raises(IF bar.style = "field" THEN "unbound" ELSE "CSReadError")
      ELSE IF bar.fixed /\ Unprogrammed(v) THEN Ok(WithOffset(FIXED))
      ELSE IF Invalid(v) THEN Raises("CSReadError")
      ELSE Ok(WithOffset(Base(v)))

\* I/O ranges: always on the first bus; a read error is a zero, and only zero is refused.
get_IO_BAR_base_address ==
  LET base == IF Unreadable(1) THEN 0 ELSE Base(hw[1])
      used == WithOffset(IF bar.fixed /\ (Unreadable(1) \/ Unprogrammed(hw[1])) THEN FIXED ELSE base)
  IN  IF used = 0 THEN Raises("CSReadError") ELSE Ok(used)

IsCached(b) == cache_bar_addresses_resolution /\ b \in DOMAIN cached_bar_addresses
get_MMIO_BAR_base_address(b) == IF IsCached(b) THEN Ok(cached_bar_addresses[b]) ELSE Resolved(Bus(b))

\* What a resolution leaves in the cache.
Remember(b, r) ==
  cached_bar_addresses' =
    IF cache_bar_addresses_resolution /\ r.out = "ok"
    THEN [x \in DOMAIN cached_bar_addresses \cup {b} |->
            IF x = b THEN r.base ELSE cached_bar_addresses[x]]
    ELSE cached_bar_addresses

\* Without a cache an access uses what the BAR holds now.
HeldNow == [b \in Buses |-> {hw[b]}]
Access(b, r) ==
  /\ held' = IF cache_bar_addresses_resolution THEN held ELSE HeldNow
  /\ last' = [bus |-> Bus(b), out |-> r.out, base |-> r.base, held |-> held'[Bus(b)]]
  /\ UNCHANGED <<bar, checking, present, hw, cache_bar_addresses_resolution, moves>>

\* Register._read_mmio: the base is asked for twice, and zero is refused.
ReadMmio(b) ==
  /\ bar.space = "mmio"
  /\ LET r == get_MMIO_BAR_base_address(b)
     IN  /\ Remember(b, r)
         /\ Access(b, IF r = Ok(0) THEN Raises("CSReadError") ELSE r)

\* write_MMIO_BAR_reg, read_MMIO_BAR, dump_MMIO_BAR: zero is not refused.
WriteMmio(b) ==
  /\ bar.space = "mmio"
  /\ LET r == get_MMIO_BAR_base_address(b) IN Remember(b, r) /\ Access(b, r)

\* Register._read_iobar, write_IO_BAR_reg
AccessIo ==
  /\ bar.space = "io"
  /\ Access(NoBus, get_IO_BAR_base_address) /\ UNCHANGED cached_bar_addresses

flush_bar_address_cache ==
  /\ bar.space = "mmio"
  /\ cached_bar_addresses' = <<>> /\ held' = HeldNow
  /\ UNCHANGED <<bar, checking, present, hw, cache_bar_addresses_resolution, moves, last>>

\* Mutant of enable_cache_address_resolution: switching the cache off does not empty it.
EnableKeepsCache(enable) ==
  /\ bar.space = "mmio"
  /\ cache_bar_addresses_resolution' = enable
  /\ held' = IF cache_bar_addresses_resolution /\ enable THEN held ELSE HeldNow
  /\ UNCHANGED <<bar, checking, present, hw, cached_bar_addresses, moves, last>>

\* The cache is emptied when it is switched off, not when it is switched on.
enable_cache_address_resolution(enable) ==
  /\ bar.space = "mmio"
  /\ cache_bar_addresses_resolution' = enable
  /\ cached_bar_addresses' = IF enable THEN cached_bar_addresses ELSE <<>>
  /\ held' = IF cache_bar_addresses_resolution /\ enable THEN held ELSE HeldNow
  /\ UNCHANGED <<bar, checking, present, hw, moves, last>>

\* A command (pci write, rogue_mmio_bar), the firmware or the operating system programs the BAR.
Program(b, v) ==
  /\ moves < MaxMoves /\ present[b] /\ hw[b] # v
  /\ hw' = [hw EXCEPT ![b] = v] /\ held' = [held EXCEPT ![b] = @ \cup {v}]
  /\ moves' = moves + 1
  /\ UNCHANGED <<bar, checking, present, cache_bar_addresses_resolution, cached_bar_addresses, last>>

Init ==
  /\ bar \in Definitions /\ checking \in BOOLEAN
  /\ present \in [Buses -> BOOLEAN]
  /\ hw \in [Buses -> {0, 1, 2, AllOnes}] /\ \A b \in Buses : hw[b] = AllOnes <=> ~present[b]
  /\ cache_bar_addresses_resolution = FALSE /\ cached_bar_addresses = <<>>
  /\ held = HeldNow /\ moves = 0 /\ last = [bus |-> 1, out |-> "none", base |-> -1, held |-> {}]

Next ==
  \/ \E b \in Buses \cup {NoBus} : ReadMmio(b) \/ WriteMmio(b)
  \/ AccessIo \/ flush_bar_address_cache
  \/ \E e \in BOOLEAN : enable_cache_address_resolution(e)
  \/ \E b \in Buses, v \in {0, 1, 2, BaseMask} : Program(b, v)

(***************************************************************************)
(* Where the range is with v in its BAR: at its base, or at the fixed       *)
(* address if no base is programmed.  Nowhere, and the code takes it for a  *)
(* base all the same: low bits without a base under a mask, zero or all     *)
(* ones of a whole register, and in I/O space all ones, or zero (or an      *)
(* error) with an offset.                                                   *)
(***************************************************************************)
Location(v) ==
  IF bar.fixed /\ Unprogrammed(v) THEN {WithOffset(FIXED)}
  ELSE IF Base(v) = 0 \/ v = AllOnes THEN {} ELSE {WithOffset(Base(v))}
Mistaken(v) ==
  {WithOffset(a) : a \in {x \in {0, BaseMask} :
     \/ x = 0 /\ bar.style = "mask" /\ v = 1
     \/ x = Base(v) /\ bar.style = "register" /\ ~(bar.fixed /\ Unprogrammed(v))
     \/ x = 0 /\ bar.space = "io" /\ bar.offset /\ (Base(v) = 0 \/ Unreadable(1))
     \/ x = BaseMask /\ bar.space = "io" /\ v = AllOnes}}

\* An access goes to where the range of its own bus has been since the cache was last empty, or
\* where it is now if there is no cache; it is refused only if the range was nowhere or its
\* register cannot be read.
AccessesFresh ==
  /\ last.out = "ok" => \E v \in last.held : last.base \in Location(v) \cup Mistaken(v)
  /\ last.out \in {"CSReadError", "unbound"} =>
       Unreadable(last.bus) \/ \E v \in last.held : Location(v) = {}
=============================================================================
