------------------------------ MODULE SoftMMU ------------------------------
(***************************************************************************)
(* The software MMU as a state machine: one action per public operation of *)
(* class SoftMMU, with any arguments a caller can pass.  An operation that *)
(* throws EmulatorError leaves the MMU usable, because some callers catch  *)
(* it (ioctl in LinuxSyscalls.cpp, MallocTracer.cpp): what it must not do  *)
(* is leave half of its work behind.  std::length_error is caught nowhere  *)
(* and ends the emulator.  Reads change nothing and have no action.        *)
(***************************************************************************)
EXTENDS Regions, Sequences

CONSTANTS
  FirstAllocation,  \* initial m_next_allocation (0x700000000000)
  Bases,            \* guest addresses passed to operations
  Sizes,            \* sizes passed to operations on ranges
  Prots,            \* sets of permissions passed to map, allocate and protect
  FileOffsets,      \* file offsets passed to map_mmap and allocate_mmap
  Lengths,          \* numbers of bytes written, marked or copied
  Offsets           \* destination offsets passed to map_bytes

ASSUME ArgumentsAssumption ==
  /\ FirstAllocation \in Addr /\ FirstAllocation % PageSize = 0
  /\ Bases \subseteq Addr
  /\ Sizes \subseteq Addr
  /\ Prots \subseteq SUBSET Perm
  /\ FileOffsets \subseteq Addr
  /\ Lengths \subseteq Addr \ {0}
  /\ Offsets \subseteq Addr

VARIABLES
  m_regions,          \* the set of regions
  m_next_allocation,  \* where the next allocation starts to search
  out,                \* how the last operation ended: "ok" or the exception
  call                \* history: the last operation and its arguments

vars == <<m_regions, m_next_allocation, out, call>>

\* turn changes with every call: calling an operation is never a stuttering step.
Call(op, base, size, prot, n, offset, cell) ==
  [op |-> op, base |-> base, size |-> size, prot |-> prot, n |-> n,
   offset |-> offset, cell |-> cell, turn |-> ~call.turn]

Init ==
  /\ m_regions = {}
  /\ m_next_allocation = FirstAllocation
  /\ out = "ok"
  /\ call = [op |-> "none", base |-> 0, size |-> 0, prot |-> {}, n |-> 0, offset |-> 0,
             cell |-> ZeroCell, turn |-> FALSE]

-----------------------------------------------------------------------------

\* map_zeroed ("simple") and map_mmap ("mmap").
Map(base, size, prot, kind, file_offset) ==
  /\ IF map_fails(m_regions, base, size)
     THEN /\ out' = "EmulatorError"
          /\ UNCHANGED m_regions
     ELSE /\ out' = "ok"
          /\ m_regions' = map_region(m_regions, base, size, prot, kind, file_offset)
  /\ UNCHANGED m_next_allocation

\* map_bytes: the copy must fit in the aligned region; bytes around it are zero.
BytesFit(size, source_size, destination_offset) ==
  /\ destination_offset <= page_align_up(size)
  /\ source_size <= page_align_up(size) - destination_offset

BytesRegion(base, size, prot, source_size, destination_offset, byte) ==
  [base |-> page_align_down(base), size |-> page_align_up(size), prot |-> prot,
   kind |-> "simple", file_offset |-> 0,
   cells |-> [i \in 0 .. page_align_up(size) - 1 |->
                IF i >= destination_offset /\ i < destination_offset + source_size
                THEN [value |-> byte, initialized |-> TRUE]
                ELSE ZeroCell]]

MapBytes(base, size, prot, source_size, destination_offset, byte) ==
  /\ IF \/ map_fails(m_regions, base, size)
        \/ ~BytesFit(size, source_size, destination_offset)
     THEN /\ out' = "EmulatorError"
          /\ UNCHANGED m_regions
     ELSE /\ out' = "ok"
          /\ m_regions' = m_regions \cup
               {BytesRegion(base, size, prot, source_size, destination_offset, byte)}
  /\ UNCHANGED m_next_allocation

\* allocate and allocate_mmap, whose callers all ask for page alignment.  When the
\* final map throws, the search has already moved m_next_allocation.
Allocate(size, prot, kind, file_offset) ==
  LET s == page_align_up(size)
  IN  \E c \in SearchStops(m_regions, m_next_allocation, s) :
        IF map_fails(m_regions, c, s)
        THEN /\ out' = "EmulatorError"
             /\ m_next_allocation' = c
             /\ UNCHANGED m_regions
        ELSE /\ out' = "ok"
             /\ m_regions' = map_region(m_regions, c, s, prot, kind, file_offset)
             /\ m_next_allocation' = Wrap(c + s)

Unmap(base, size) ==
  /\ IF range_aborts(m_regions, base, size)
     THEN /\ out' = "length_error"
          /\ UNCHANGED m_regions
     ELSE /\ out' = "ok"
          /\ m_regions' = unmap(m_regions, base, size)
  /\ UNCHANGED m_next_allocation

Protect(base, size, prot) ==
  /\ IF range_aborts(m_regions, base, size)
     THEN /\ out' = "length_error"
          /\ UNCHANGED m_regions
     ELSE /\ out' = "ok"
          /\ m_regions' = protect(m_regions, base, size, prot)
  /\ UNCHANGED m_next_allocation

\* write8 .. write64, write8_with_shadow .. write64_with_shadow, copy_to_guest.
Write(address, size, cell) ==
  /\ out' = IF write_fails(m_regions, address, size)
            THEN "EmulatorError" ELSE "ok"
  /\ m_regions' = write_bytes(m_regions, address, size, [i \in 0 .. size - 1 |-> cell])
  /\ UNCHANGED m_next_allocation

MarkInitialized(address, size, initialized) ==
  /\ out' = IF read_fails(m_regions, address, size)
            THEN "EmulatorError" ELSE "ok"
  /\ m_regions' = mark_initialized(m_regions, address, size, initialized)
  /\ UNCHANGED m_next_allocation

Next ==
  /\ out # "length_error"
  /\ \/ \E base \in Bases, size \in Sizes, prot \in Prots :
          \/ /\ Map(base, size, prot, "simple", 0)
             /\ call' = Call("map_zeroed", base, size, prot, 0, 0, ZeroCell)
          \/ \E file_offset \in FileOffsets :
               /\ Map(base, size, prot, "mmap", file_offset)
               /\ call' = Call("map_mmap", base, size, prot, 0, file_offset, ZeroCell)
          \/ \E n \in Lengths, offset \in Offsets, byte \in Byte :
               /\ MapBytes(base, size, prot, n, offset, byte)
               /\ call' = Call("map_bytes", base, size, prot, n, offset,
                               [value |-> byte, initialized |-> TRUE])
     \/ \E size \in Sizes, prot \in Prots :
          \/ /\ Allocate(size, prot, "simple", 0)
             /\ call' = Call("allocate", 0, size, prot, 0, 0, ZeroCell)
          \/ \E file_offset \in FileOffsets :
               /\ Allocate(size, prot, "mmap", file_offset)
               /\ call' = Call("allocate_mmap", 0, size, prot, 0, file_offset, ZeroCell)
     \/ \E base \in Bases, size \in Sizes :
          \/ /\ Unmap(base, size)
             /\ call' = Call("unmap", base, size, {}, 0, 0, ZeroCell)
          \/ \E prot \in Prots :
               /\ Protect(base, size, prot)
               /\ call' = Call("protect", base, size, prot, 0, 0, ZeroCell)
     \/ \E address \in Bases, n \in Lengths :
          \/ \E cell \in Cell :
               /\ Write(address, n, cell)
               /\ call' = Call("write", address, 0, {}, n, 0, cell)
          \/ \E initialized \in BOOLEAN :
               /\ MarkInitialized(address, n, initialized)
               /\ call' = Call("mark_initialized", address, 0, {}, n, 0,
                               [value |-> 0, initialized |-> initialized])

Spec == Init /\ [][Next]_vars

-----------------------------------------------------------------------------
(* Properties.                                                             *)

\* Regions are well formed: as many cells as bytes, inside the address space (the
\* end of a region is never 0), whatever sums wrap on the way.
TypeOK ==
  /\ WellFormed(m_regions)
  /\ m_next_allocation \in Addr
  /\ out \in {"ok", "EmulatorError", "length_error"}

\* "Refuse overlapping mappings so each guest address has one owner"
\* (SoftMMU.cpp:180): after any sequence of maps, splits, unmaps and protects, two
\* regions never contain the same address, so find_region cannot return a stale one.
UniqueOwner == Unique(m_regions)

\* "Guest mappings are always tracked at page granularity" (SoftMMU.cpp:177): the
\* pieces that split_around cuts keep whole pages, for any unaligned arguments.
PageGranular == Paged(m_regions)

\* split_around called with a size that page_align_up has wrapped to 0 cuts an empty
\* region, and protect leaves it in the list.  ensure_no_overlap and the allocation
\* search would treat it as an obstacle; but it always lies between two mapped
\* bytes, so no free range is ever refused because of it.
EmptyRegionsAreHarmless ==
  \A region \in m_regions : region.size = 0 =>
    Mapped(m_regions, region.base - 1) /\ Mapped(m_regions, region.base)

Flat == INSTANCE AddressSpace WITH mem <- FlatView(m_regions), next <- m_next_allocation

\* SoftMMU implements the flat address space: however regions have been split, an
\* operation changes exactly the pages of its range, keeps permissions, contents,
\* shadow bits and file offsets of all other bytes, and changes no mapping when it
\* throws EmulatorError; an allocation fails only if no free range is left above
\* the previous ones.  Every call is matched by the same call of AddressSpace with
\* the same arguments, so a call that wrongly does nothing is seen.
ImplementsAddressSpace == Flat!Spec
=============================================================================
