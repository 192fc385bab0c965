------------------------------ MODULE Regions ------------------------------
(***************************************************************************)
(* The data of the software MMU (SoftMMU.h, SoftMMU.cpp): the list of      *)
(* guest memory regions, and what each SoftMMU operation does to it.       *)
(*                                                                         *)
(* The region list is kept sorted by base address.  A set stands for it:   *)
(* no two regions contain the same address (UniqueOwner), so the first     *)
(* region found that contains an address is the only one, and the order is *)
(* never observed.  A region keeps its bytes by offset, as the two vectors *)
(* m_bytes and m_initialized of the code do.  Names and file paths are     *)
(* left out; the file offset is kept, because splitting a region has to    *)
(* advance it.                                                             *)
(*                                                                         *)
(* Addresses and sizes are u64 in the code: here they are 0..Space-1 and   *)
(* every sum is taken modulo Space.  Operations that throw are described   *)
(* by a predicate that says when (Fails, Aborts) next to the operator that *)
(* gives the new region list when they do not.                             *)
(***************************************************************************)
EXTENDS Integers, FiniteSets

CONSTANTS
  PageSize,   \* page_size
  Space,      \* the number of addresses, 2^64 in the code
  Byte        \* the values a byte can have; 0 is one of them

ASSUME PageSizeAssumption == PageSize \in Nat \ {0}
ASSUME SpaceAssumption == Space \in Nat /\ \E k \in 2 .. Space : Space = k * PageSize
ASSUME ByteAssumption == 0 \in Byte

Addr == 0 .. Space - 1

\* The sum of two u64 values, from their sum in Nat.
Wrap(x) == IF x < Space THEN x ELSE x - Space

page_align_down(value) == value - (value % PageSize)

\* Faulty: does not round.
page_align_up_unrounded(value) == value

\* A value in the last, partial page before 2^64 is rounded up to 0.
page_align_up(value) == page_align_down(Wrap(value + PageSize - 1))

-----------------------------------------------------------------------------
(* Regions.                                                                *)

Perm == {"R", "W", "X"}           \* ProtRead, ProtWrite, ProtExecute
Kind == {"simple", "mmap"}        \* SimpleRegion, MmapRegion

\* One guest byte and its initialization shadow.
Cell == [value : Byte, initialized : BOOLEAN]

ZeroCell == [value |-> 0, initialized |-> TRUE]

\* Regions of n bytes, with as many cells.
RegionsOfSize(n) ==
  [base : Addr, size : {n}, prot : SUBSET Perm, kind : Kind,
   file_offset : Addr, cells : [0 .. n - 1 -> Cell]]

\* Region::end() and Region::contains().
End(region) == Wrap(region.base + region.size)
Contains(region, address) == address >= region.base /\ address < End(region)

\* A new region: bytes are zero and count as initialized.
NewRegion(base, size, prot, kind, file_offset) ==
  [base |-> base, size |-> size, prot |-> prot, kind |-> kind,
   file_offset |-> file_offset,
   cells |-> [i \in 0 .. size - 1 |-> ZeroCell]]

\* Faulty: a slice keeps the file offset of the whole.
clone_slice_same_offset(region, new_base, offset, new_size) ==
  [base |-> new_base, size |-> new_size, prot |-> region.prot,
   kind |-> region.kind, file_offset |-> region.file_offset,
   cells |-> [i \in 0 .. new_size - 1 |-> region.cells[offset + i]]]

\* A subrange of a region as a region of its own.  A slice of a file mapping
\* starts that much further into the file.
clone_slice(region, new_base, offset, new_size) ==
  [base |-> new_base, size |-> new_size, prot |-> region.prot,
   kind |-> region.kind,
   file_offset |-> IF region.kind = "mmap" THEN Wrap(region.file_offset + offset)
                                           ELSE region.file_offset,
   cells |-> [i \in 0 .. new_size - 1 |-> region.cells[offset + i]]]

-----------------------------------------------------------------------------
(* Mapping.                                                                *)

\* Faulty: looks only for the owner of the first byte.
Collides_first_byte(region, base, size) == Contains(region, base)

\* The overlap test of ensure_no_overlap, allocate and allocate_mmap.
Collides(region, base, size) ==
  base < End(region) /\ Wrap(base + size) > region.base

\* Faulty: a range may run over the end of the address space.
MapFails_unchecked_end(regions, base, size) ==
  size = 0 \/ \E region \in regions : Collides(region, base, size)

\* ensure_no_overlap throws: nothing to map, past the end of the address space,
\* or in the way of a region that is there already.
MapFails(regions, base, size) ==
  \/ size = 0
  \/ Wrap(base + size) < base
  \/ \E region \in regions : Collides(region, base, size)

\* map_zeroed and map_mmap, with the arguments before alignment.
map_fails(regions, base, size) ==
  MapFails(regions, page_align_down(base), page_align_up(size))

map_region(regions, base, size, prot, kind, file_offset) ==
  regions \cup {NewRegion(page_align_down(base), page_align_up(size),
                          prot, kind, file_offset)}

\* The address at which the search loop of allocate and allocate_mmap stops, as a
\* set with one element.  Each round moves m_next_allocation to the end of the
\* first region in the way, so only the starting point and ends of regions are
\* ever tried; the loop stops at the lowest of them where nothing is in the way.
SearchStops(regions, next, size) ==
  LET Tried == {c \in {page_align_up(next)} \cup
                     {page_align_up(End(region)) : region \in regions} :
                  c >= page_align_up(next)}
      Free(c) == \A region \in regions : ~Collides(region, c, size)
  IN  {c \in Tried : Free(c) /\ \A d \in Tried : Free(d) => c <= d}

-----------------------------------------------------------------------------
(* Splitting, unmapping and protecting.                                    *)

Larger(a, b) == IF a > b THEN a ELSE b
Smaller(a, b) == IF a < b THEN a ELSE b

\* split_around keeps a region as it is when the range does not meet it.
Outside(region, base, end) == end <= region.base \/ base >= End(region)

\* The parts of a region that the range meets: before, in and after the range.
\* The middle part is cloned even when the range is empty.
Before(region, base) ==
  IF base > region.base
  THEN {clone_slice(region, region.base, 0, base - region.base)} ELSE {}

Middle(region, base, end) ==
  LET start == Larger(base, region.base)
      stop  == Smaller(end, End(region))
  IN  {clone_slice(region, start, start - region.base, stop - start)}

After(region, end) ==
  IF end < End(region)
  THEN {clone_slice(region, end, end - region.base, End(region) - end)} ELSE {}

Pieces(region, base, end) ==
  IF Outside(region, base, end)
  THEN {region}
  ELSE Before(region, base) \cup Middle(region, base, end) \cup After(region, end)

split_around(regions, base, size) ==
  UNION {Pieces(region, base, Wrap(base + size)) : region \in regions}

\* A range that wraps around the end of the address space and begins and ends
\* inside one region has a middle part of negative length: building its vector
\* throws std::length_error, which nothing catches.
SplitAborts(regions, base, size) ==
  \E region \in regions :
    /\ ~Outside(region, base, Wrap(base + size))
    /\ Wrap(base + size) < base

\* Faulty: asks where a region begins, not where it ends.
Covered_by_base(region, base, size) ==
  region.base >= base /\ region.base < Wrap(base + size)

\* Whether unmap removes, and protect changes, a region left by split_around.
Covered(region, base, size) ==
  region.base >= base /\ End(region) <= Wrap(base + size)

\* unmap and protect, with the arguments before alignment.
range_aborts(regions, base, size) ==
  size # 0 /\ SplitAborts(regions, page_align_down(base), page_align_up(size))

unmap(regions, base, size) ==
  LET b == page_align_down(base)
      s == page_align_up(size)
  IN  IF size = 0 THEN regions
      ELSE {region \in split_around(regions, b, s) : ~Covered(region, b, s)}

WithProt(region, prot) ==
  [base |-> region.base, size |-> region.size, prot |-> prot,
   kind |-> region.kind, file_offset |-> region.file_offset,
   cells |-> region.cells]

protect(regions, base, size, prot) ==
  LET b == page_align_down(base)
      s == page_align_up(size)
  IN  IF size = 0 THEN regions
      ELSE {IF Covered(region, b, s) THEN WithProt(region, prot) ELSE region :
              region \in split_around(regions, b, s)}

-----------------------------------------------------------------------------
(* Access.                                                                 *)

\* is_mapped for one byte, and region_for without its exception.
Mapped(regions, address) == \E region \in regions : Contains(region, address)

Accessible(regions, address, required_prot) ==
  \E region \in regions :
    Contains(region, address) /\ required_prot \in region.prot

find_region(regions, address) ==
  CHOOSE region \in regions : Contains(region, address)

\* is_mapped: all bytes of a range, which may wrap.
is_mapped(regions, address, size) ==
  \A i \in 0 .. size - 1 : Mapped(regions, Wrap(address + i))

\* read8_with_shadow; read8 is its value.
CellAt(regions, address) ==
  LET region == find_region(regions, address)
  IN  region.cells[address - region.base]

\* The bytes of a range that an access byte by byte gets to: the ones before the
\* first that faults.
Reached(regions, address, size, required_prot) ==
  {i \in 0 .. size - 1 :
     \A j \in 0 .. i : Accessible(regions, Wrap(address + j), required_prot)}

\* The distance from one address up to another, modulo 2^64.
Distance(from, to) == IF to >= from THEN to - from ELSE to + Space - from

\* Replace the cell of byte i of a range by new(i, old cell), for each i of a set.
UpdateCells(regions, address, indices, new(_, _)) ==
  {[base |-> region.base, size |-> region.size, prot |-> region.prot,
    kind |-> region.kind, file_offset |-> region.file_offset,
    cells |-> [k \in 0 .. region.size - 1 |->
                 LET i == Distance(address, region.base + k)
                 IN  IF i \in indices THEN new(i, region.cells[k])
                                      ELSE region.cells[k]]] :
     region \in regions}

\* write8_with_shadow byte by byte (write16..64, their *_with_shadow forms and
\* copy_to_guest): the bytes before the first fault are written.  bytes is a
\* function from 0..size-1 to cells.
write_bytes(regions, address, size, bytes) ==
  UpdateCells(regions, address, Reached(regions, address, size, "W"),
              LAMBDA i, old : bytes[i])

write_fails(regions, address, size) ==
  Reached(regions, address, size, "W") # 0 .. size - 1

\* mark_initialized needs the bytes to be readable, not writable.
mark_initialized(regions, address, size, initialized) ==
  UpdateCells(regions, address, Reached(regions, address, size, "R"),
              LAMBDA i, old : [value |-> old.value, initialized |-> initialized])

\* mark_initialized and the reads need the same permission.
read_fails(regions, address, size) ==
  Reached(regions, address, size, "R") # 0 .. size - 1

-----------------------------------------------------------------------------
(* The regions taken together, as one flat address space.                  *)

FlatByte(regions, a) ==
  IF Mapped(regions, a)
  THEN LET region == find_region(regions, a)
       IN  [mapped |-> TRUE, prot |-> region.prot, kind |-> region.kind,
            offset |-> IF region.kind = "mmap"
                       THEN Wrap(region.file_offset + (a - region.base)) ELSE 0,
            cell |-> region.cells[a - region.base]]
  ELSE [mapped |-> FALSE, prot |-> {}, kind |-> "none", offset |-> 0,
        cell |-> ZeroCell]

FlatView(regions) == [a \in Addr |-> FlatByte(regions, a)]

-----------------------------------------------------------------------------
(* Invariants of the region list.                                          *)

\* As many cells as bytes, and inside the address space: End is never 0.
WellFormed(regions) ==
  \A region \in regions :
    /\ \E n \in Addr : region \in RegionsOfSize(n)
    /\ region.base + region.size < Space

\* No address has two owners.
Unique(regions) ==
  \A r, s \in regions : r # s => ~\E a \in Addr : Contains(r, a) /\ Contains(s, a)

\* Whole pages only.
Paged(regions) ==
  \A region \in regions :
    region.base % PageSize = 0 /\ region.size % PageSize = 0
=============================================================================
