--------------------------- MODULE MemorySyscalls ---------------------------
(***************************************************************************)
(* The system calls that change the guest's address space (mmap, munmap,   *)
(* mprotect, mremap in LinuxSyscalls.cpp; brk in Emulator::set_brk), as    *)
(* sequences of SoftMMU operations, with guest stores in between.          *)
(*                                                                         *)
(* The emulator runs one guest thread: a system call is one step.  It may  *)
(* return an address, return -errno, or let an EmulatorError or            *)
(* std::length_error escape, which ends the emulator wherever the call had *)
(* got to: such a step only records that the emulator has stopped.         *)
(* Names, paths and the symbol registration of mapped files are left out.  *)
(***************************************************************************)
EXTENDS Regions, Sequences

CONSTANTS
  InitialRegions,   \* what Emulator::load has mapped: image, stack, trampoline
  FirstAllocation,  \* initial m_next_allocation
  BrkStart,         \* m_brk_start, a page address
  Targets,          \* addresses the guest passes
  OldAddresses,     \* addresses the guest passes to mremap as the old range
  Sizes,            \* sizes the guest passes
  Prots,            \* permissions the guest passes
  Options,          \* mmap of a file or anonymous, MAP_UNINITIALIZED or not
  Requests,         \* arguments of brk
  Stores            \* addresses the guest stores to

ASSUME MemoryArguments ==
  /\ WellFormed(InitialRegions) /\ Unique(InitialRegions) /\ Paged(InitialRegions)
  /\ FirstAllocation \in Addr /\ FirstAllocation % PageSize = 0
  /\ BrkStart \in Addr \ {0} /\ BrkStart % PageSize = 0
  /\ Targets \subseteq Addr /\ OldAddresses \subseteq Addr /\ Sizes \subseteq Addr
  /\ Prots \subseteq SUBSET Perm /\ Requests \subseteq Addr /\ Stores \subseteq Addr
  /\ Options \subseteq SUBSET {"FILE", "UNINITIALIZED"}
  /\ 1 \in Byte

VARIABLES
  m_regions,
  m_next_allocation,
  m_brk,
  m_brk_region_end,   \* the end of the heap pages mapped so far
  ret,                \* what the last system call returned: a value or -errno
  status,             \* "running", or how the emulator has ended
  call                \* history: the last system call and its arguments

memory == <<m_regions, m_next_allocation>>
heap == <<m_brk, m_brk_region_end>>
vars == <<memory, heap, ret, status, call>>

EBADF == 9
ENOMEM == 12
EFAULT == 14
EEXIST == 17
EINVAL == 22

ReadWrite == {"R", "W"}

\* The arguments that the properties refer to.
Call(name, flags, address, size, new_size, prot, n) ==
  [name |-> name, flags |-> flags, address |-> address, size |-> size,
   new_size |-> new_size, prot |-> prot, n |-> n]

NoCall == Call("none", {}, 0, 0, 0, {}, 0)

Init ==
  /\ m_regions = InitialRegions
  /\ m_next_allocation = FirstAllocation
  /\ m_brk = BrkStart /\ m_brk_region_end = BrkStart
  /\ ret = 0
  /\ status = "running"
  /\ call = NoCall

-----------------------------------------------------------------------------
(* How a system call ends.                                                 *)

Return(value) == ret' = value /\ UNCHANGED status
Error(errno) == Return(-errno)
NoChange == UNCHANGED <<memory, heap>>

\* EmulatorError reaches Emulator::exec ("error"), std::length_error nothing.
Stop(how) == status' = how /\ UNCHANGED <<memory, heap, ret>>

-----------------------------------------------------------------------------
(* mmap.                                                                   *)

\* What pread gives for a file mapping: an error, or some of the bytes asked for.
ReadResults(size) == {-1} \cup 0 .. size

\* The file's bytes; all are 1, so that they differ from zero pages.
FileBytes(n) == [i \in 0 .. n - 1 |-> [value |-> 1, initialized |-> TRUE]]

\* Faulty: sets the permissions before the contents.
Populate_protect_first(mapped, address, size, prot, source, uninitialized, rc) ==
  LET protected == protect(mapped, address, size, prot)
      filled == IF source = "file"
                THEN write_bytes(protected, address, rc, FileBytes(rc)) ELSE protected
  IN  IF uninitialized THEN mark_initialized(filled, address, size, FALSE) ELSE filled

\* The end of an mmap that has mapped [address, address + size) read-write:
\* file contents, MAP_UNINITIALIZED, then the permissions asked for.
Populate(mapped, address, size, prot, source, uninitialized, rc) ==
  LET filled == IF source = "file" THEN write_bytes(mapped, address, rc, FileBytes(rc))
                                   ELSE mapped
      marked == IF uninitialized
                THEN mark_initialized(filled, address, size, FALSE) ELSE filled
  IN  protect(marked, address, size, prot)

\* pread fails: the new mapping is removed again.
UndoMmap(mapped, address, size) == unmap(mapped, address, size)

FinishMmap(mapped, address, size, prot, source, uninitialized, rc) ==
  IF source = "file" /\ rc = -1
  THEN Error(EBADF) /\ m_regions' = UndoMmap(mapped, address, size)
  ELSE /\ Return(address)
       /\ m_regions' = Populate(mapped, address, size, prot, source, uninitialized, rc)

\* Faulty: looks at the first page only.
guest_range_is_mapped_first(address, size) ==
  size # 0 /\ Mapped(m_regions, address)

\* guest_range_is_mapped: the first byte of every page, and the last byte.
guest_range_is_mapped(address, size) ==
  /\ size # 0
  /\ \/ \E i \in 0 .. size - 1 :
          i % PageSize = 0 /\ Mapped(m_regions, Wrap(address + i))
     \/ Mapped(m_regions, Wrap(address + size - 1))

\* MAP_FIXED and MAP_FIXED_NOREPLACE.
MmapFixed(addr, length, prot, noreplace, source, uninitialized, rc) ==
  LET size == page_align_up(length)
      address == page_align_down(addr)
      cleared == unmap(m_regions, address, size)
  IN  /\ rc \in ReadResults(size)
      /\ IF length = 0
         THEN Error(EINVAL) /\ NoChange
         ELSE IF noreplace /\ guest_range_is_mapped(address, size)
         THEN Error(EEXIST) /\ NoChange
         ELSE IF range_aborts(m_regions, address, size)
         THEN Stop("aborted")
         ELSE IF map_fails(cleared, address, size)
         THEN Stop("error")
         ELSE /\ FinishMmap(map_region(cleared, address, size, ReadWrite, "mmap", 0),
                            address, size, prot, source, uninitialized, rc)
              /\ UNCHANGED <<m_next_allocation, heap>>

\* Without MAP_FIXED the address argument is ignored.
MmapAnywhere(length, prot, source, uninitialized, rc) ==
  LET size == page_align_up(length)
  IN  /\ rc \in ReadResults(size)
      /\ IF length = 0
         THEN Error(EINVAL) /\ NoChange
         ELSE \E c \in SearchStops(m_regions, m_next_allocation, size) :
                IF map_fails(m_regions, c, size)
                THEN Stop("error")
                ELSE /\ FinishMmap(map_region(m_regions, c, size, ReadWrite, "mmap", 0),
                                   c, size, prot, source, uninitialized, rc)
                     /\ m_next_allocation' = Wrap(c + size)
                     /\ UNCHANGED heap

-----------------------------------------------------------------------------
(* munmap and mprotect.                                                    *)

Munmap(addr, length) ==
  IF range_aborts(m_regions, addr, length)
  THEN Stop("aborted")
  ELSE /\ Return(0)
       /\ m_regions' = unmap(m_regions, addr, length)
       /\ UNCHANGED <<m_next_allocation, heap>>

Mprotect(addr, length, prot) ==
  IF range_aborts(m_regions, addr, length)
  THEN Stop("aborted")
  ELSE /\ Return(0)
       /\ m_regions' = protect(m_regions, addr, length, prot)
       /\ UNCHANGED <<m_next_allocation, heap>>

-----------------------------------------------------------------------------
(* mremap.                                                                 *)

Overlap(old, old_size, dest, new_size) ==
  dest < Wrap(old + old_size) /\ Wrap(dest + new_size) > old

\* The copy loop reads and writes one byte after the other, so where the ranges
\* overlap it reads what it has written or the zero bytes of the new mapping.
\* regions holds the new mapping; Copied(..)[i] is the byte written at index i.
Copied(regions, old, dest, n) ==
  LET copied[i \in 0 .. n - 1] ==
        LET back == Distance(dest, Wrap(old + i))
        IN  IF back < i THEN copied[back] ELSE CellAt(regions, Wrap(old + i))
  IN  copied

\* The source must be readable and the copy, with its permissions, writable.
CopyFails(regions, old, dest, n) ==
  read_fails(regions, old, n) \/ write_fails(regions, dest, n)

\* Faulty: removes as much of the old range as the new one is long.
RemoveOld_new_size(regions, old, old_size, new_size) == unmap(regions, old, new_size)

RemoveOld(regions, old, old_size, new_size) == unmap(regions, old, old_size)

\* From the new mapping on: copy, and remove the old range.
FinishMremap(mapped, old, old_size, dest, new_size, dont_unmap) ==
  LET n == Smaller(old_size, new_size)
      copied == write_bytes(mapped, dest, n, Copied(mapped, old, dest, n))
  IN  IF CopyFails(mapped, old, dest, n)
      THEN Stop("error")
      ELSE /\ Return(dest)
           /\ m_regions' = IF dont_unmap THEN copied
                           ELSE RemoveOld(copied, old, old_size, new_size)
           /\ UNCHANGED heap

\* Faulty: the old range, not the destination.
ClearDestination_old(old, old_size, dest, new_size) == unmap(m_regions, old, old_size)

ClearDestination(old, old_size, dest, new_size) == unmap(m_regions, dest, new_size)

\* MREMAP_FIXED: the destination is cleared before the source is looked up.
MoveFixed(old, old_size, new_size, dont_unmap, new_addr) ==
  LET dest == page_align_down(new_addr)
      cleared == ClearDestination(old, old_size, dest, new_size)
      prot == find_region(cleared, old).prot
  IN  IF ~dont_unmap /\ Overlap(old, old_size, dest, new_size)
      THEN Error(EINVAL) /\ NoChange
      ELSE IF range_aborts(m_regions, dest, new_size)
      THEN Stop("aborted")
      ELSE IF ~Mapped(cleared, old)
      THEN /\ Error(EFAULT)
           /\ m_regions' = cleared
           /\ UNCHANGED <<m_next_allocation, heap>>
      ELSE IF map_fails(cleared, dest, new_size)
      THEN Stop("error")
      ELSE /\ FinishMremap(map_region(cleared, dest, new_size, prot, "mmap", 0),
                           old, old_size, dest, new_size, dont_unmap)
           /\ UNCHANGED m_next_allocation

\* MREMAP_MAYMOVE without MREMAP_FIXED.
MoveAnywhere(old, old_size, new_size, dont_unmap) ==
  LET prot == find_region(m_regions, old).prot
  IN  \E c \in SearchStops(m_regions, m_next_allocation, new_size) :
        IF map_fails(m_regions, c, new_size)
        THEN Stop("error")
        ELSE /\ FinishMremap(map_region(m_regions, c, new_size, prot, "mmap", 0),
                             old, old_size, c, new_size, dont_unmap)
             /\ m_next_allocation' =
                  IF status' = "running" THEN Wrap(c + new_size) ELSE m_next_allocation

\* flags is a set of "MAYMOVE", "FIXED" and "DONTUNMAP".
Mremap(old, old_length, new_length, flags, new_addr) ==
  LET old_size == page_align_up(old_length)
      new_size == page_align_up(new_length)
  IN  IF \/ "FIXED" \in flags /\ "MAYMOVE" \notin flags
         \/ old % PageSize # 0
      THEN Error(EINVAL) /\ NoChange
      ELSE IF ~is_mapped(m_regions, old, IF old_size = 0 THEN 1 ELSE old_size)
      THEN Error(EFAULT) /\ NoChange
      ELSE IF "FIXED" \in flags
      THEN MoveFixed(old, old_size, new_size, "DONTUNMAP" \in flags, new_addr)
      ELSE IF new_size < old_size
      THEN /\ Return(old)
           /\ m_regions' = unmap(m_regions, Wrap(old + new_size), old_size - new_size)
           /\ UNCHANGED <<m_next_allocation, heap>>
      ELSE IF new_size = old_size
      THEN Return(old) /\ NoChange
      ELSE IF "MAYMOVE" \in flags
      THEN MoveAnywhere(old, old_size, new_size, "DONTUNMAP" \in flags)
      ELSE Error(ENOMEM) /\ NoChange

-----------------------------------------------------------------------------
(* brk.                                                                    *)

\* Faulty: maps only the pages that lie completely below the break.
HeapEnd_rounds_down(requested) == page_align_down(requested)

HeapEnd(requested) == page_align_up(requested)

\* The heap grows by whole pages and is never given back.
Brk(requested) ==
  LET new_end == HeapEnd(requested)
      grows == requested > m_brk_region_end /\ new_end > m_brk_region_end
      missing == new_end - m_brk_region_end
  IN  IF requested = 0 \/ requested < BrkStart
      THEN Return(m_brk) /\ NoChange
      ELSE IF grows /\ map_fails(m_regions, m_brk_region_end, missing)
      THEN Stop("error")
      ELSE /\ Return(requested)
           /\ m_brk' = requested
           /\ m_brk_region_end' = IF grows THEN new_end ELSE m_brk_region_end
           /\ m_regions' = IF grows
                           THEN map_region(m_regions, m_brk_region_end, missing,
                                           ReadWrite, "simple", 0)
                           ELSE m_regions
           /\ UNCHANGED m_next_allocation

\* A guest store of a nonzero byte; a fault ends the emulator.
Store(address) ==
  IF write_fails(m_regions, address, 1)
  THEN Stop("error")
  ELSE /\ m_regions' = write_bytes(m_regions, address, 1, FileBytes(1))
       /\ UNCHANGED <<m_next_allocation, heap, ret, status>>

-----------------------------------------------------------------------------

Mmap(length, prot, options, rc) ==
  LET source == IF "FILE" \in options THEN "file" ELSE "anonymous"
      uninitialized == "UNINITIALIZED" \in options
  IN  \/ /\ MmapAnywhere(length, prot, source, uninitialized, rc)
         /\ call' = Call("mmap", options, 0, page_align_up(length), 0, prot, rc)
      \/ \E addr \in Targets, fixed \in {"FIXED", "FIXED_NOREPLACE"} :
           /\ MmapFixed(addr, length, prot, fixed = "FIXED_NOREPLACE", source,
                        uninitialized, rc)
           /\ call' = Call("mmap", options \cup {fixed}, page_align_down(addr),
                           page_align_up(length), 0, prot, rc)

MremapFlags == SUBSET {"MAYMOVE", "FIXED", "DONTUNMAP"}

Next ==
  /\ status = "running"
  /\ \/ \E length \in Sizes, prot \in Prots, options \in Options :
          \E rc \in IF "FILE" \in options THEN {-1} \cup Sizes ELSE {0} :
            Mmap(length, prot, options, rc)
     \/ \E addr \in Targets, length \in Sizes :
          \/ Munmap(addr, length) /\ call' = NoCall
          \/ \E prot \in Prots : Mprotect(addr, length, prot) /\ call' = NoCall
     \/ \E old \in OldAddresses, old_length, new_length \in Sizes,
           flags \in MremapFlags, new_addr \in Targets :
          /\ Mremap(old, old_length, new_length, flags, new_addr)
          /\ call' = Call("mremap", flags, old, page_align_up(old_length),
                          page_align_up(new_length), {}, page_align_down(new_addr))
     \/ \E requested \in Requests :
          Brk(requested) /\ call' = Call("brk", {}, requested, 0, 0, {}, 0)
     \/ \E address \in Stores : Store(address) /\ call' = NoCall

Spec == Init /\ [][Next]_vars

-----------------------------------------------------------------------------
(* Properties.                                                             *)

\* Regions stay well formed and owned through system calls that combine several
\* SoftMMU operations, and the break is an address of the heap's side.
TypeOK ==
  /\ WellFormed(m_regions) /\ Unique(m_regions) /\ Paged(m_regions)
  /\ m_next_allocation \in Addr
  /\ m_brk \in Addr /\ m_brk >= BrkStart
  /\ m_brk_region_end \in Addr /\ m_brk_region_end >= BrkStart
  /\ ret \in -EINVAL .. Space - 1
  /\ status \in {"running", "error", "aborted"}

Earlier(a) == FlatByte(m_regions, a)
Later(a) == FlatByte(m_regions', a)
Bytes(address, n) == {Wrap(address + i) : i \in 0 .. n - 1}

\* mmap without MAP_FIXED, mmap with MAP_FIXED_NOREPLACE (LinuxSyscalls.cpp:1027)
\* and brk never change an address that is mapped already, whatever splits and
\* moves have left of the regions, and whether or not they succeed.
OnlyFixedReplaces ==
  [][call'.name \in {"mmap", "brk"} /\ "FIXED" \notin call'.flags =>
       \A a \in Addr : Earlier(a).mapped => Later(a) = Earlier(a)]_vars

\* An mmap that returns an address has mapped all of its range there with the
\* permissions asked for, holding what was read of the file and zero bytes behind
\* it, and has changed nothing else.
MmapIsExact ==
  [][call'.name = "mmap" /\ status' = "running" /\ ret' >= 0 =>
       /\ \A i \in 0 .. call'.size - 1 :
            LET byte == Later(Wrap(ret' + i))
            IN  /\ byte.mapped /\ byte.prot = call'.prot /\ byte.offset = i
                /\ byte.cell.value = (IF i < call'.n THEN 1 ELSE 0)
                /\ byte.cell.initialized = ("UNINITIALIZED" \notin call'.flags)
       /\ \A a \in Addr \ Bytes(ret', call'.size) : Later(a) = Earlier(a)]_vars

\* The part of the new range that an mremap fills from the old one.
Kept == Smaller(call'.size, call'.new_size)

MremapMoved == call'.name = "mremap" /\ status' = "running"
               /\ ret' >= 0 /\ ret' # call'.address

\* "Copy content from old mapping into the new one" (LinuxSyscalls.cpp:1139), "Bytes
\* beyond old_size in the new region are already zero-initialized" (1145): between
\* ranges that do not overlap a move carries contents and shadow bits over, the old
\* range is gone unless MREMAP_DONTUNMAP asks to keep it, and all other addresses are
\* as before.
MoveIsExact ==
  [][MremapMoved =>
       LET old == Bytes(call'.address, call'.size)
           new == Bytes(ret', call'.new_size)
       IN  old \cap new = {} =>
             /\ \A i \in 0 .. Kept - 1 :
                  Later(Wrap(ret' + i)).cell = Earlier(Wrap(call'.address + i)).cell
             /\ \A i \in Kept .. call'.new_size - 1 :
                  Later(Wrap(ret' + i)).cell = ZeroCell
             /\ \A a \in old : IF "DONTUNMAP" \in call'.flags
                               THEN Later(a) = Earlier(a) ELSE ~Later(a).mapped
             /\ \A a \in Addr \ (old \cup new) : Later(a) = Earlier(a)]_vars

\* A system call that returns an error has changed nothing outside the range that
\* MAP_FIXED or MREMAP_FIXED names (that range may be lost: a failing pread, or an
\* old range inside the new one, is noticed after it has been unmapped).
ErrorsTouchOnlyTarget ==
  [][call'.name \in {"mmap", "mremap"} /\ ret' < 0 /\ status' = "running" =>
       LET target == IF "FIXED" \notin call'.flags THEN {}
                     ELSE IF call'.name = "mmap" THEN Bytes(call'.address, call'.size)
                     ELSE Bytes(call'.n, call'.new_size)
       IN  \A a \in Addr \ target : Later(a) = Earlier(a)]_vars

\* "Map more zeroed heap pages if the requested break extends past the mapped
\* region" (Emulator.cpp:298): the break never lies past the heap's mapped pages,
\* except in the last page of the address space, where page_align_up wraps to 0.
BreakIsBackedBelowTop == m_brk <= m_brk_region_end \/ m_brk > Space - PageSize
=============================================================================
